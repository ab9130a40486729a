------------------------------ MODULE OutboxRelay ------------------------------
(***************************************************************************)
(* The transactional outbox relay: the row that emitEvent inserts with the *)
(* business change, the NOTIFY of its trigger, the worker's OutboxListener *)
(* (sweeps that coalesce, heartbeat), pollOutbox, the BullMQ queue, and    *)
(* processEvent with its calls to the webhooks.                            *)
(*                                                                         *)
(* One action is what happens between two awaits.  BullMQ keeps a job that *)
(* failed for good and ignores the add of a job whose id it knows; a job   *)
(* that ran when its process died is started again once.  The payloads,    *)
(* signatures, metrics and the graceful shutdown are left out; so is the   *)
(* e-mail outbox, which the same sweep polls afterwards.                   *)
(***************************************************************************)
EXTENDS Integers, FiniteSets

CONSTANTS
  Events,
  EventType,   \* of each event
  Webhooks,
  Subscribed,  \* the active webhooks that take each event
  Limit,       \* rows one poll selects: 500
  MaxAttempts, \* of a job: 5
  MaxMishaps,  \* bound: worker crashes, and calls of Postgres or Redis that fail
  NoEvent

ASSUME RelayAssumption ==
  /\ Subscribed \in [Events -> SUBSET Webhooks]
  /\ Limit \in Nat \ {0} /\ MaxAttempts \in Nat \ {0}
  /\ MaxMishaps \in Nat
  /\ NoEvent \notin Events

VARIABLES
  emitted,     \* events whose transaction has committed
  rows,        \* the outbox rows that are there: the admin may clear them
  processedAt, lastError, lockedUntil, \* rows where the column is set
  notices,     \* NOTIFYs on their way to the listener
  up,          \* the worker process runs
  isSweeping, pendingWakeup,
  sweep,       \* the next await of the sweep
  batch,       \* the rows it selected and has not enqueued yet
  current,     \* the row it is enqueueing
  jobs,        \* the BullMQ job of each event
  attempts, stalled,
  posting,     \* webhooks a running job has yet to call
  errors,      \* running jobs one of whose calls failed
  received,    \* what each webhook has received
  mishaps

table    == <<rows, processedAt, lastError, lockedUntil>>
listener == <<up, notices, isSweeping, pendingWakeup>>
poller   == <<sweep, batch, current>>
queue    == <<jobs, attempts, stalled>>
run      == <<posting, errors, received>>
vars     == <<emitted, table, listener, poller, queue, run, mishaps>>

Init ==
  /\ emitted = {} /\ rows = {}
  /\ processedAt = {} /\ lastError = {} /\ lockedUntil = {}
  /\ notices = {} /\ up = TRUE
  /\ isSweeping = FALSE /\ pendingWakeup = FALSE
  /\ sweep = "none" /\ batch = {} /\ current = NoEvent
  /\ jobs = [e \in Events |-> "none"]
  /\ attempts = [e \in Events |-> 0]
  /\ stalled = {}
  /\ posting = [e \in Events |-> {}]
  /\ errors = {}
  /\ received = [w \in Webhooks |-> {}]
  /\ mishaps = 0

Mishap == mishaps < MaxMishaps /\ mishaps' = mishaps + 1

(***************************************************************************)
(* The API: the event commits with the change that it tells of, and a      *)
(* NOTIFY reaches whoever listens then.                                    *)
(***************************************************************************)
Emit(e) ==
  /\ e \notin emitted
  /\ emitted' = emitted \cup {e}
  /\ rows' = rows \cup {e}
  /\ notices' = IF up THEN notices \cup {e} ELSE notices
  /\ UNCHANGED <<processedAt, lastError, lockedUntil, up, isSweeping, pendingWakeup,
                 poller, queue, run, mishaps>>

(* clearEventsByType: the administrator deletes pending, failed or all     *)
(* rows of a type.                                                         *)
Pending == rows \ (processedAt \cup lastError)
Clearable(status) ==
  {e \in rows : \/ status = "all"
                \/ status = "failed" /\ e \in lastError
                \/ status = "pending" /\ e \in Pending}
Clear(type, status) ==
  LET gone == {e \in Clearable(status) : EventType[e] = type}
  IN /\ gone # {}
     /\ rows' = rows \ gone
     /\ processedAt' = processedAt \ gone
     /\ lastError' = lastError \ gone
     /\ lockedUntil' = lockedUntil \ gone
     /\ UNCHANGED <<emitted, listener, poller, queue, run, mishaps>>

(***************************************************************************)
(* OutboxListener.                                                         *)
(***************************************************************************)
(* Mutant: a wakeup during a sweep is dropped. *)
TriggerSweepDropped ==
  /\ isSweeping' = TRUE
  /\ UNCHANGED pendingWakeup
  /\ sweep' = IF isSweeping THEN sweep ELSE "poll"
TriggerSweep ==
  /\ isSweeping' = TRUE
  /\ pendingWakeup' = isSweeping
  /\ sweep' = IF isSweeping THEN sweep ELSE "poll"

Notified(e) ==
  /\ up /\ e \in notices
  /\ notices' = notices \ {e}
  /\ TriggerSweep
  /\ UNCHANGED <<emitted, table, up, batch, current, queue, run, mishaps>>

Heartbeat ==
  /\ up
  /\ TriggerSweep
  /\ UNCHANGED <<emitted, table, up, notices, batch, current, queue, run, mishaps>>

(* The end of one round of the loop in triggerSweep. *)
NextRound ==
  /\ sweep' = IF pendingWakeup THEN "poll" ELSE "none"
  /\ isSweeping' = pendingWakeup
  /\ pendingWakeup' = FALSE
  /\ batch' = {} /\ current' = NoEvent

(***************************************************************************)
(* pollOutbox.                                                             *)
(***************************************************************************)
Due == Pending \ lockedUntil

PollSelect ==
  /\ sweep = "poll"
  /\ \E S \in SUBSET Due :
       /\ Cardinality(S) = IF Cardinality(Due) <= Limit THEN Cardinality(Due) ELSE Limit
       /\ batch' = S
  /\ sweep' = "next"
  /\ UNCHANGED <<emitted, table, listener, current, queue, run, mishaps>>

(* syncQueue.add: BullMQ has no second job with the same id. *)
PollAdd(e) ==
  /\ sweep = "next" /\ e \in batch
  /\ batch' = batch \ {e}
  /\ current' = e
  /\ sweep' = "lock"
  /\ IF jobs[e] = "none"
     THEN jobs' = [jobs EXCEPT ![e] = "waiting"]
     ELSE UNCHANGED jobs
  /\ UNCHANGED <<emitted, table, listener, attempts, stalled, run, mishaps>>

PollLock ==
  /\ sweep = "lock"
  /\ lockedUntil' = lockedUntil \cup (rows \cap {current})
  /\ current' = NoEvent
  /\ sweep' = "next"
  /\ UNCHANGED <<emitted, rows, processedAt, lastError, listener, batch, queue, run, mishaps>>

PollEnds ==
  /\ sweep = "next" /\ batch = {}
  /\ NextRound
  /\ UNCHANGED <<emitted, table, up, notices, queue, run, mishaps>>

(* A call to Postgres or Redis throws; pollOutbox logs it and returns. *)
PollFails ==
  /\ sweep \in {"poll", "next", "lock"}
  /\ Mishap
  /\ NextRound
  /\ UNCHANGED <<emitted, table, up, notices, queue, run>>

(* Five minutes pass. *)
LockExpires(e) ==
  /\ e \in lockedUntil
  /\ lockedUntil' = lockedUntil \ {e}
  /\ UNCHANGED <<emitted, rows, processedAt, lastError, listener, poller, queue, run, mishaps>>

(***************************************************************************)
(* The BullMQ worker and processEvent.                                     *)
(***************************************************************************)
(* Mutant: the webhooks are not asked which events they take. *)
TargetsAll(e) == Webhooks
Targets(e) == Subscribed[e]

Start(e) ==
  /\ up /\ jobs[e] = "waiting"
  /\ jobs' = [jobs EXCEPT ![e] = "active"]
  /\ attempts' = [attempts EXCEPT ![e] = @ + 1]
  /\ posting' = [posting EXCEPT ![e] = Targets(e)]
  /\ UNCHANGED <<emitted, table, listener, poller, stalled, errors, received, mishaps>>

(* Every webhook is called, whatever the others answered.  The answer may  *)
(* be lost after the webhook has taken the event.                          *)
Post(e, w) ==
  /\ jobs[e] = "active" /\ w \in posting[e]
  /\ posting' = [posting EXCEPT ![e] = @ \ {w}]
  /\ \E taken, answered \in BOOLEAN :
       /\ answered => taken
       /\ received' = IF taken THEN [received EXCEPT ![w] = @ \cup {e}] ELSE received
       /\ errors' = IF answered THEN errors ELSE errors \cup {e}
  /\ UNCHANGED <<emitted, table, listener, poller, queue, mishaps>>

(* Mutant: the errors of the calls are not thrown. *)
AllPostedUnchecked(e) == jobs[e] = "active" /\ posting[e] = {}
AllPosted(e) == jobs[e] = "active" /\ posting[e] = {} /\ e \notin errors

Succeed(e) ==
  /\ AllPosted(e)
  /\ processedAt' = processedAt \cup (rows \cap {e})
  /\ lockedUntil' = lockedUntil \ {e}
  /\ jobs' = [jobs EXCEPT ![e] = "none"]
  /\ attempts' = [attempts EXCEPT ![e] = 0]
  /\ stalled' = stalled \ {e}
  /\ UNCHANGED <<emitted, rows, lastError, listener, poller, run, mishaps>>

(* Mutant: one attempt too many. *)
ThrowOnceMore(e) ==
  /\ jobs' = [jobs EXCEPT ![e] = IF attempts[e] <= MaxAttempts THEN "delayed" ELSE "failed"]
  /\ posting' = [posting EXCEPT ![e] = {}]
  /\ errors' = errors \ {e}
  /\ UNCHANGED <<attempts, stalled, received>>
(* The job throws: BullMQ tries again after a pause, or gives up for good. *)
Throw(e) ==
  /\ jobs' = [jobs EXCEPT ![e] = IF attempts[e] < MaxAttempts THEN "delayed" ELSE "failed"]
  /\ posting' = [posting EXCEPT ![e] = {}]
  /\ errors' = errors \ {e}
  /\ UNCHANGED <<attempts, stalled, received>>

(* Mutant: an error is recorded on the first attempt only. *)
ErrorRowsFirst(e) == IF attempts[e] = 1 THEN rows \cap {e} ELSE {}
(* Mutant: a failed job leaves its row as it was. *)
ErrorRowsNever(e) == {}
ErrorRows(e) == rows \cap {e}

(* The catch block of processEvent: after a failed call of a webhook, or a *)
(* failed read of the webhooks or update of processed_at.                  *)
Fail(e) ==
  /\ jobs[e] = "active"
  /\ \/ posting[e] = {} /\ e \in errors /\ UNCHANGED mishaps
     \/ posting[e] \in {{}, Subscribed[e]} /\ e \notin errors /\ Mishap
  /\ lastError' = lastError \cup ErrorRows(e)
  /\ lockedUntil' = lockedUntil \ {e}
  /\ Throw(e)
  /\ UNCHANGED <<emitted, rows, processedAt, listener, poller>>

(* The database does not answer, and the catch block throws as well. *)
FailUnrecorded(e) ==
  /\ jobs[e] = "active"
  /\ Mishap
  /\ Throw(e)
  /\ UNCHANGED <<emitted, table, listener, poller>>

Retry(e) ==
  /\ up /\ jobs[e] = "delayed"
  /\ jobs' = [jobs EXCEPT ![e] = "waiting"]
  /\ UNCHANGED <<emitted, table, listener, poller, attempts, stalled, run, mishaps>>

(***************************************************************************)
(* Crash and restart of the worker.                                        *)
(***************************************************************************)
Crash ==
  /\ up /\ Mishap
  /\ up' = FALSE
  /\ notices' = {} /\ isSweeping' = FALSE /\ pendingWakeup' = FALSE
  /\ sweep' = "none" /\ batch' = {} /\ current' = NoEvent
  /\ jobs' = [e \in Events |-> IF jobs[e] = "active" THEN "orphaned" ELSE jobs[e]]
  /\ posting' = [e \in Events |-> {}] /\ errors' = {}
  /\ UNCHANGED <<emitted, table, attempts, stalled, received>>

(* OutboxListener.start catches up with a first sweep. *)
Restart ==
  /\ ~up /\ up' = TRUE
  /\ TriggerSweep
  /\ UNCHANGED <<emitted, table, notices, batch, current, queue, run, mishaps>>

(* BullMQ finds a job that nobody runs: once it may start again. *)
Recover(e) ==
  /\ up /\ jobs[e] = "orphaned"
  /\ jobs' = [jobs EXCEPT ![e] = IF e \in stalled THEN "failed" ELSE "waiting"]
  /\ stalled' = stalled \cup {e}
  /\ UNCHANGED <<emitted, table, listener, poller, attempts, run, mishaps>>

JobStep(e) ==
  \/ Start(e) \/ (\E w \in Webhooks : Post(e, w)) \/ Succeed(e) \/ Fail(e)
  \/ Retry(e) \/ Recover(e)
SweepStep == PollSelect \/ (\E e \in Events : PollAdd(e)) \/ PollLock \/ PollEnds

Next ==
  \/ \E e \in Events : Emit(e) \/ Notified(e) \/ JobStep(e) \/ FailUnrecorded(e) \/ LockExpires(e)
  \/ \E e \in Events, status \in {"pending", "failed", "all"} : Clear(EventType[e], status)
  \/ Heartbeat \/ SweepStep \/ PollFails \/ Crash \/ Restart

(* The event loop goes on with a sweep and with one job or another, the    *)
(* timer ticks, locks run out, and the container is restarted.  A NOTIFY   *)
(* may never come: nothing rests on it.                                    *)
Fairness ==
  /\ WF_vars(\E e \in Events : JobStep(e)) /\ WF_vars(\E e \in Events : LockExpires(e))
  /\ WF_vars(SweepStep) /\ WF_vars(Heartbeat) /\ WF_vars(Restart)

Spec == Init /\ [][Next]_vars
FairSpec == Spec /\ Fairness

-------------------------------------------------------------------------------
(***************************************************************************)
(* Properties.                                                             *)
(***************************************************************************)
JobStates == {"none", "waiting", "active", "delayed", "orphaned", "failed"}
(* Every variable has its type, and the columns are those of rows.         *)
TypeOK ==
  /\ emitted \subseteq Events /\ rows \subseteq emitted
  /\ processedAt \subseteq rows /\ lastError \subseteq rows /\ lockedUntil \subseteq rows
  /\ notices \subseteq emitted
  /\ up \in BOOLEAN /\ isSweeping \in BOOLEAN /\ pendingWakeup \in BOOLEAN
  /\ sweep \in {"none", "poll", "next", "lock"}
  /\ batch \subseteq Events /\ current \in Events \cup {NoEvent}
  /\ jobs \in [Events -> JobStates]
  /\ attempts \in [Events -> 0..(MaxAttempts + 1)] \* one more after a crash
  /\ stalled \subseteq Events /\ errors \subseteq Events
  /\ posting \in [Events -> SUBSET Webhooks]
  /\ received \in [Webhooks -> SUBSET Events]
  /\ mishaps \in 0..MaxMishaps

(* An event is marked processed only when every webhook subscribed to it   *)
(* has taken it, also after retries of a fan-out that failed in part.      *)
ProcessedMeansDelivered ==
  \A e \in processedAt : \A w \in Subscribed[e] : e \in received[w]

(* The relay implements EventDelivery: only committed events are sent, to  *)
(* their subscribers alone, and what is marked processed was delivered.    *)
Delivery == INSTANCE EventDelivery WITH processed <- processedAt
DeliversEvents == Delivery!Spec

(* Coalescing loses no wakeup: an event whose NOTIFY was handled is known  *)
(* to the queue or the running sweep, or a poll that will see it is due.   *)
(* As long as nothing fails, and other events do not fill a poll.          *)
Seen(e) ==
  \/ e \in batch \/ jobs[e] # "none"
  \/ sweep = "poll" \/ pendingWakeup
NotifiedIsSeen ==
  mishaps = 0 =>
    \A e \in Due :
      Cardinality(emitted \ {e}) < Limit => e \in notices \/ Seen(e)

(* A job that BullMQ gave up is a dead letter that the event queue shows:  *)
(* its row has an error.  With one mishap; see EventsEnd for two.          *)
DeadLettersRecorded ==
  \A e \in rows : jobs[e] = "failed" => e \in processedAt \cup lastError

(* At-least-once: every event that committed ends as processed or as       *)
(* failed with its error, unless the administrator clears it: again and    *)
(* again no row is left over.  It survives any one mishap.  After two, a   *)
(* job that gave up while the database did not answer leaves its row       *)
(* pending, and every later poll adds in vain.                             *)
EventsEnd == []<>(rows \subseteq processedAt \cup lastError)
===============================================================================
