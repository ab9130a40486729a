------------------------------ MODULE EmailRelay -------------------------------
(***************************************************************************)
(* The e-mail outbox: queueEmail, the worker's pollEmailOutbox, which the  *)
(* sweep of the outbox listener calls, the administrator's retry and       *)
(* dismissal, and the purge of old mails.                                  *)
(*                                                                         *)
(* A sweep works on the rows as it read them.  The mail server's answer,   *)
(* the update of the row and the events that tell of it are steps of their *)
(* own, none of them in a transaction with another.  Sweeps of one worker  *)
(* do not overlap.  Texts, attachments and actors are left out; the events *)
(* of a mail's entity and its outbox row are written as one.               *)
(***************************************************************************)
EXTENDS Integers, FiniteSets

CONSTANTS
  Mails,
  OfEntity,   \* mails that belong to an entity, which is told of them
  BatchLimit, \* rows one poll selects: 50
  MaxRetries, \* 5
  MaxMishaps, \* bound: crashes, failing statements, answers that get lost
  MaxOrders,  \* bound: retries and dismissals by the administrator
  NoMail

ASSUME EmailAssumption ==
  /\ OfEntity \subseteq Mails
  /\ BatchLimit \in Nat \ {0} /\ MaxRetries \in Nat \ {0}
  /\ MaxMishaps \in Nat /\ MaxOrders \in Nat
  /\ NoMail \notin Mails

VARIABLES
  \* email_outbox.
  status, retries,
  waiting,     \* mails whose next_retry_at has not come
  events,      \* what the event tables and the outbox say of each mail
  \* The worker.
  step,        \* the next await of the sweep
  batch,       \* the mails it has selected and not finished
  current,     \* the mail it is at
  readRetries, \* the retries of the mails as the sweep read them
  unreachable, \* the mail server did not pass the check of this sweep
  \* The world.
  accepted,    \* how often the mail server has taken each mail
  mishaps, orders

table  == <<status, retries, waiting, events>>
sweep  == <<batch, current, readRetries, unreachable>>
vars   == <<table, step, sweep, accepted, mishaps, orders>>

Statuses == {"absent", "pending", "sent", "failed", "dismissed", "purged"}
Events == {"sent", "email.sent", "failed", "email.failed"}
Steps == {"down", "idle", "verify", "next", "send", "mark", "tell", "announce",
          "retry", "tellFailed", "announceFailed"}
Running == Steps \ {"down", "idle"}

Init ==
  /\ status = [m \in Mails |-> "absent"]
  /\ retries = [m \in Mails |-> 0]
  /\ waiting = {}
  /\ events = [m \in Mails |-> {}]
  /\ step = "idle"
  /\ batch = {} /\ current = NoMail
  /\ readRetries = [m \in Mails |-> 0]
  /\ unreachable = FALSE
  /\ accepted = [m \in Mails |-> 0]
  /\ mishaps = 0 /\ orders = 0

Mishap == mishaps < MaxMishaps /\ mishaps' = mishaps + 1

(***************************************************************************)
(* The API.                                                                *)
(***************************************************************************)
QueueEmail(m) ==
  /\ status[m] = "absent"
  /\ status' = [status EXCEPT ![m] = "pending"]
  /\ UNCHANGED <<retries, waiting, events, step, sweep, accepted, mishaps, orders>>

Order == orders < MaxOrders /\ orders' = orders + 1

RetryEmail(m) ==
  /\ Order
  /\ status[m] \in {"failed", "pending"}
  /\ status' = [status EXCEPT ![m] = "pending"]
  /\ retries' = [retries EXCEPT ![m] = 0]
  /\ waiting' = waiting \ {m}
  /\ UNCHANGED <<events, step, sweep, accepted, mishaps>>

DismissEmail(m) ==
  /\ Order
  /\ status[m] \in {"failed", "pending"}
  /\ status' = [status EXCEPT ![m] = "dismissed"]
  /\ UNCHANGED <<retries, waiting, events, step, sweep, accepted, mishaps>>

(* purgeOldEmails: thirty days are longer than a sweep stays at a mail. *)
Purge(m) ==
  /\ status[m] = "sent" /\ current # m
  /\ status' = [status EXCEPT ![m] = "purged"]
  /\ retries' = [retries EXCEPT ![m] = 0]
  /\ waiting' = waiting \ {m}
  /\ UNCHANGED <<events, step, sweep, accepted, mishaps, orders>>

(* The time of a mail that is not pending does not matter. *)
RetryDue(m) ==
  /\ m \in waiting /\ status[m] = "pending"
  /\ waiting' = waiting \ {m}
  /\ UNCHANGED <<status, retries, events, step, sweep, accepted, mishaps, orders>>

(***************************************************************************)
(* pollEmailOutbox.                                                        *)
(***************************************************************************)
Goto(label) == step' = label
AtMail(label) == step = label /\ UNCHANGED <<batch, readRetries, unreachable>>
Stay == UNCHANGED current
Leave == current' = NoMail /\ Goto("next")

(* Mutant: mails that were sent are selected again. *)
DueLoose == {m \in Mails : status[m] \in {"pending", "sent"}} \ waiting
Due == {m \in Mails : status[m] = "pending"} \ waiting

Select ==
  /\ step = "idle" /\ Due # {}
  /\ \E S \in SUBSET Due :
       /\ Cardinality(S) = IF Cardinality(Due) < BatchLimit THEN Cardinality(Due) ELSE BatchLimit
       /\ batch' = S
       /\ readRetries' = [m \in Mails |-> IF m \in S THEN retries[m] ELSE 0]
  /\ Goto("verify")
  /\ UNCHANGED <<table, current, unreachable, accepted, mishaps, orders>>

(* The settings, the password and transporter.verify: when one is missing, *)
(* handleEmailBatchFailure.                                                *)
Verify ==
  /\ step = "verify"
  /\ unreachable' \in BOOLEAN
  /\ Goto("next")
  /\ UNCHANGED <<table, batch, current, readRetries, accepted, mishaps, orders>>

NextMail ==
  /\ step = "next"
  /\ \E m \in batch : current' = m /\ batch' = batch \ {m}
  /\ Goto(IF unreachable THEN "retry" ELSE "send")
  /\ UNCHANGED <<table, readRetries, unreachable, accepted, mishaps, orders>>

Accept == accepted' = [accepted EXCEPT ![current] = @ + 1]

(* Mutant: the error of sendMail is not looked at. *)
RefusedIgnored == Goto("mark")
Refused == Goto("retry")

(* sendMail: the server refuses the mail, or takes it, or takes it and its *)
(* answer does not arrive.                                                 *)
Send ==
  /\ AtMail("send") /\ Stay
  /\ \/ Goto("mark") /\ Accept /\ UNCHANGED mishaps
     \/ Refused /\ UNCHANGED <<accepted, mishaps>>
     \/ Goto("retry") /\ Accept /\ Mishap
  /\ UNCHANGED <<table, orders>>

(* Whatever became of the row meanwhile. *)
MarkSent ==
  /\ AtMail("mark") /\ Stay
  /\ status' = [status EXCEPT ![current] = "sent"]
  /\ Goto("tell")
  /\ UNCHANGED <<retries, waiting, events, accepted, mishaps, orders>>

Record(e) == events' = [events EXCEPT ![current] = @ \cup {e}]

TellSent ==
  /\ AtMail("tell")
  /\ Record("sent")
  /\ IF current \in OfEntity THEN Goto("announce") /\ Stay ELSE Leave
  /\ UNCHANGED <<status, retries, waiting, accepted, mishaps, orders>>

AnnounceSent ==
  /\ AtMail("announce")
  /\ Record("email.sent")
  /\ Leave
  /\ UNCHANGED <<status, retries, waiting, accepted, mishaps, orders>>

(* A statement throws: the catch block puts the mail back, sent or not. *)
Thrown ==
  /\ \E label \in {"mark", "tell", "announce"} : AtMail(label)
  /\ Mishap
  /\ Goto("retry") /\ Stay
  /\ UNCHANGED <<table, accepted, orders>>

(* Mutant: the retries not counted. *)
RetriesNowSame == readRetries[current]
RetriesNow == readRetries[current] + 1

(* Mutant: a mail gives up after the last retry, and not with it. *)
GivesUpLate == RetriesNow > MaxRetries
GivesUp == RetriesNow >= MaxRetries

(* Mutant: a mail that failed is not told of. *)
AfterRetryQuiet == Leave
AfterRetry == IF GivesUp THEN Goto("tellFailed") /\ Stay ELSE Leave

Retry ==
  /\ AtMail("retry")
  /\ retries' = [retries EXCEPT ![current] = RetriesNow]
  /\ status' = [status EXCEPT ![current] = IF GivesUp THEN "failed" ELSE "pending"]
  /\ waiting' = waiting \cup {current}
  /\ AfterRetry
  /\ UNCHANGED <<events, accepted, mishaps, orders>>

TellFailed ==
  /\ AtMail("tellFailed")
  /\ Record("failed")
  /\ IF current \in OfEntity THEN Goto("announceFailed") /\ Stay ELSE Leave
  /\ UNCHANGED <<status, retries, waiting, accepted, mishaps, orders>>

AnnounceFailed ==
  /\ AtMail("announceFailed")
  /\ Record("email.failed")
  /\ Leave
  /\ UNCHANGED <<status, retries, waiting, accepted, mishaps, orders>>

EndSweep(label) ==
  /\ Goto(label)
  /\ batch' = {} /\ current' = NoMail /\ unreachable' = FALSE
  /\ readRetries' = [m \in Mails |-> 0]

SweepEnds ==
  /\ step = "next" /\ batch = {}
  /\ EndSweep("idle")
  /\ UNCHANGED <<table, accepted, mishaps, orders>>

(* A statement outside the inner try throws: the sweep gives up its batch. *)
SweepFails ==
  /\ step \in {"verify", "next", "retry", "tellFailed", "announceFailed"}
  /\ Mishap
  /\ EndSweep("idle")
  /\ UNCHANGED <<table, accepted, orders>>

Crash ==
  /\ step # "down" /\ Mishap
  /\ EndSweep("down")
  /\ UNCHANGED <<table, accepted, orders>>

Restart ==
  /\ step = "down" /\ Goto("idle")
  /\ UNCHANGED <<table, sweep, accepted, mishaps, orders>>

SweepStep ==
  \/ Select \/ Verify \/ NextMail \/ Send \/ MarkSent \/ TellSent \/ AnnounceSent
  \/ Retry \/ TellFailed \/ AnnounceFailed \/ SweepEnds

Next ==
  \/ \E m \in Mails :
       QueueEmail(m) \/ RetryEmail(m) \/ DismissEmail(m) \/ Purge(m) \/ RetryDue(m)
  \/ SweepStep \/ Thrown \/ SweepFails \/ Crash \/ Restart

(* The heartbeat starts sweeps and the event loop drives them on, time     *)
(* passes, and the container is restarted.                                 *)
Fairness ==
  WF_vars(SweepStep) /\ WF_vars(Restart) /\ \A m \in Mails : WF_vars(RetryDue(m))

Spec == Init /\ [][Next]_vars
FairSpec == Spec /\ Fairness

-------------------------------------------------------------------------------
(***************************************************************************)
(* Properties.                                                             *)
(***************************************************************************)
(* Every variable has its type, and a sweep has a mail at hand exactly     *)
(* between its selection and its end.                                      *)
TypeOK ==
  /\ status \in [Mails -> Statuses]
  /\ retries \in [Mails -> 0..MaxRetries]
  /\ waiting \subseteq Mails
  /\ events \in [Mails -> SUBSET Events]
  /\ step \in Steps
  /\ batch \subseteq Mails
  /\ current \in Mails \cup {NoMail}
  /\ current = NoMail <=> step \in {"down", "idle", "verify", "next"}
  /\ readRetries \in [Mails -> 0..MaxRetries]
  /\ unreachable \in BOOLEAN
  /\ accepted \in [Mails -> Nat]
  /\ mishaps \in 0..MaxMishaps /\ orders \in 0..MaxOrders

(* A mail is handed to the mail server a second time only after a crash, a *)
(* failing statement or a lost answer, and once for each: retries,         *)
(* dismissals and sweeps that work on stale rows repeat nothing.  (The     *)
(* comment on queueEmail promises exactly-once delivery.)                  *)
Repetitions == UNION {{m} \X (2..accepted[m]) : m \in Mails}
RepeatsAreMishaps == Cardinality(Repetitions) <= mishaps

(* A failed mail is told of, and so is its entity, unless a mishap came    *)
(* between: the row and the events are not written together.               *)
Untold(m) ==
  /\ status[m] = "failed" /\ current # m
  /\ ~({"failed"} \cup (IF m \in OfEntity THEN {"email.failed"} ELSE {}) \subseteq events[m])
FailuresAreTold == Cardinality({m \in Mails : Untold(m)}) <= mishaps

(* E-mail is a delivery to one receiver, the mail server, in the sense of  *)
(* EventDelivery: only queued mails are sent, and a mail whose row or      *)
(* event says that it was sent has reached the server.                     *)
SaidSent == {m \in Mails : status[m] \in {"sent", "purged"} \/ events[m] \cap {"sent", "email.sent"} # {}}
Server == "server"
Delivery == INSTANCE EventDelivery WITH
  Events <- Mails, Webhooks <- {Server}, Subscribed <- [m \in Mails |-> {Server}],
  emitted <- {m \in Mails : status[m] # "absent"},
  received <- [s \in {Server} |-> {m \in Mails : accepted[m] > 0}],
  processed <- SaidSent
DeliversMails == Delivery!Spec

(* A queued mail is sent, given up or dismissed in the end.                *)
MailsEnd ==
  \A m \in Mails : status[m] = "pending" ~> status[m] \in {"sent", "failed", "dismissed", "purged"}
===============================================================================
