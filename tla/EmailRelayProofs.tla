---------------------------- MODULE EmailRelayProofs ----------------------------
(***************************************************************************)
(* For any number of mails and mishaps: the e-mail outbox keeps its types, *)
(* tells of its failures, repeats a mail only for a mishap, and is a       *)
(* delivery to the mail server in the sense of EventDelivery.              *)
(***************************************************************************)
EXTENDS EmailRelay, FiniteSetTheorems, TLAPS

(***************************************************************************)
(* The inductive invariant.                                                *)
(***************************************************************************)
(* A pending mail, and one that a sweep has read, has a retry left.        *)
RetriesLeft ==
  \A m \in Mails :
    /\ status[m] = "absent" => retries[m] = 0
    /\ status[m] = "pending" => retries[m] < MaxRetries
    /\ readRetries[m] < MaxRetries

(* A sweep works on queued mails, one at a time, and says that a mail was  *)
(* sent only when the server has it.                                       *)
Queued == {m \in Mails : status[m] # "absent"}
AtHand ==
  /\ batch \subseteq Queued /\ waiting \subseteq Queued
  /\ current # NoMail => current \in Queued
  /\ current \notin batch
  /\ step \in {"mark", "tell", "announce"} => accepted[current] > 0
  /\ step \in {"tell", "announce"} => status[current] = "sent"
  /\ step = "announceFailed" => "failed" \in events[current]

SweepInv == TypeOK /\ RetriesLeft /\ AtHand

-------------------------------------------------------------------------------
(* A set that stays within a bound, or takes one element when the bound is *)
(* raised by one, stays within the bound.                                  *)
LEMMA BoundedSet ==
  ASSUME NEW U, NEW V, NEW x, NEW k \in Nat, NEW l,
         IsFiniteSet(U), Cardinality(U) <= k,
         \/ V \subseteq U /\ l = k
         \/ V \subseteq U \cup {x} /\ l = k + 1
  PROVE  IsFiniteSet(V) /\ Cardinality(V) <= l
  <1>1. Cardinality(U) \in Nat
    BY FS_CardinalityType
  <1>2. CASE V \subseteq U /\ l = k
    <2>1. IsFiniteSet(V) /\ Cardinality(V) <= Cardinality(U)
      BY <1>2, FS_Subset
    <2>2. Cardinality(V) \in Nat
      BY <2>1, FS_CardinalityType
    <2> QED BY <1>1, <1>2, <2>1, <2>2
  <1>3. CASE V \subseteq U \cup {x} /\ l = k + 1
    <2>1. /\ IsFiniteSet(U \cup {x})
          /\ Cardinality(U \cup {x}) \in {Cardinality(U), Cardinality(U) + 1}
      BY FS_AddElement
    <2>2. IsFiniteSet(V) /\ Cardinality(V) <= Cardinality(U \cup {x})
      BY <1>3, <2>1, FS_Subset
    <2>3. Cardinality(V) \in Nat
      BY <2>2, FS_CardinalityType
    <2> QED BY <1>1, <1>3, <2>1, <2>2, <2>3
  <1> QED BY <1>2, <1>3

LEMMA InitSweep == Init => SweepInv
  <1> SUFFICES ASSUME Init PROVE SweepInv
    OBVIOUS
  <1>1. TypeOK
    <2>1. unreachable \in BOOLEAN
      BY DEF Init
    <2> QED BY <2>1, EmailAssumption DEF Init, TypeOK, Statuses, Steps, Events
  <1>2. RetriesLeft /\ AtHand
    BY EmailAssumption DEF Init, RetriesLeft, AtHand
  <1> QED BY <1>1, <1>2 DEF SweepInv

(* What the API and the clock do leaves the sweep where it is. *)
LEMMA TableStep ==
  ASSUME SweepInv, NEW m \in Mails,
         QueueEmail(m) \/ RetryEmail(m) \/ DismissEmail(m) \/ Purge(m) \/ RetryDue(m)
  PROVE  SweepInv'
  <1> USE EmailAssumption DEF SweepInv, Statuses
  <1>1. CASE QueueEmail(m)
    BY <1>1 DEF QueueEmail, sweep, TypeOK, RetriesLeft, AtHand, Queued
  <1>2. CASE RetryEmail(m)
    BY <1>2 DEF RetryEmail, Order, sweep, TypeOK, RetriesLeft, AtHand, Queued
  <1>3. CASE DismissEmail(m)
    BY <1>3 DEF DismissEmail, Order, sweep, TypeOK, RetriesLeft, AtHand, Queued
  <1>4. CASE Purge(m)
    BY <1>4 DEF Purge, sweep, TypeOK, RetriesLeft, AtHand, Queued
  <1>5. CASE RetryDue(m)
    BY <1>5 DEF RetryDue, sweep, TypeOK, RetriesLeft, AtHand, Queued
  <1> QED BY <1>1, <1>2, <1>3, <1>4, <1>5

(* A step that writes nothing but the events of the mail at hand, and goes *)
(* on with it or leaves it.                                                *)
LEMMA RecordStep ==
  ASSUME SweepInv, NEW e \in Events, NEW label \in {"announce", "announceFailed"},
         current # NoMail, Record(e), UNCHANGED <<batch, readRetries, unreachable>>,
         UNCHANGED <<status, retries, waiting, accepted, mishaps, orders>>,
         \/ /\ Goto(label) /\ Stay
            /\ label = "announce" => step = "tell"
            /\ label = "announceFailed" => e = "failed"
         \/ Leave
  PROVE  SweepInv'
  <1> USE EmailAssumption DEF SweepInv
  <1>1. events' \in [Mails -> SUBSET Events]
    BY DEF Record, TypeOK
  <1>2. TypeOK'
    BY <1>1 DEF Goto, Stay, Leave, TypeOK, Steps
  <1>3. RetriesLeft'
    BY DEF RetriesLeft
  <1>4. AtHand'
    BY DEF Record, Goto, Stay, Leave, TypeOK, AtHand, Queued
  <1> QED BY <1>2, <1>3, <1>4

(* A sweep that ends, as it should or not, has nothing at hand. *)
LEMMA EndSweepStep ==
  ASSUME SweepInv, NEW label \in {"idle", "down"}, EndSweep(label),
         UNCHANGED <<table, accepted, orders>>, mishaps' \in 0..MaxMishaps
  PROVE  SweepInv'
  <1> USE EmailAssumption DEF SweepInv
  <1>1. unreachable' \in BOOLEAN
    BY DEF EndSweep
  <1>2. readRetries' \in [Mails -> 0..MaxRetries] /\ \A m \in Mails : readRetries'[m] < MaxRetries
    BY DEF EndSweep
  <1>3. step' = label /\ batch' = {} /\ current' = NoMail /\ UNCHANGED <<table, accepted, orders>>
    BY DEF EndSweep, Goto
  <1>4. TypeOK'
    BY <1>1, <1>2, <1>3 DEF table, TypeOK, Steps
  <1>5. RetriesLeft' /\ AtHand'
    BY <1>2, <1>3 DEF table, RetriesLeft, AtHand, Queued
  <1> QED BY <1>4, <1>5

LEMMA SweepStepInv ==
  ASSUME SweepInv, SweepStep
  PROVE  SweepInv'
  <1> USE EmailAssumption DEF SweepInv
  <1>1. CASE Select
    BY <1>1 DEF Select, Due, Goto, table, TypeOK, Steps, RetriesLeft, AtHand, Queued
  <1>2. CASE Verify
    BY <1>2 DEF Verify, Goto, table, TypeOK, Steps, RetriesLeft, AtHand, Queued
  <1>3. CASE NextMail
    BY <1>3 DEF NextMail, Goto, table, TypeOK, Steps, RetriesLeft, AtHand, Queued
  <1>4. CASE Send
    <2>1. current \in Mails
      BY <1>4 DEF Send, AtMail, TypeOK
    <2>2. accepted' \in [Mails -> Nat] /\ (step' = "mark" => accepted'[current] > 0)
      BY <1>4, <2>1 DEF Send, Accept, Refused, Goto, TypeOK
    <2>3. step' \in {"mark", "retry"} /\ UNCHANGED <<table, sweep, orders>>
      BY <1>4 DEF Send, AtMail, Stay, Refused, Goto, sweep
    <2>4. mishaps' \in 0..MaxMishaps
      BY <1>4 DEF Send, Mishap, TypeOK
    <2> QED BY <2>1, <2>2, <2>3, <2>4 DEF table, sweep, TypeOK, Steps, RetriesLeft, AtHand, Queued
  <1>5. CASE MarkSent
    BY <1>5 DEF MarkSent, AtMail, Stay, Goto, TypeOK, Steps, Statuses, RetriesLeft, AtHand, Queued
  <1>6. CASE TellSent
    BY <1>6, RecordStep DEF TellSent, AtMail, Events, TypeOK
  <1>7. CASE AnnounceSent
    BY <1>7, RecordStep DEF AnnounceSent, AtMail, Events, TypeOK
  <1>8. CASE Retry
    <2>1. current \in Mails /\ RetriesNow \in 1..MaxRetries /\ (~GivesUp => RetriesNow < MaxRetries)
      BY <1>8 DEF Retry, AtMail, TypeOK, RetriesLeft, RetriesNow, GivesUp
    <2>2. /\ retries' = [retries EXCEPT ![current] = RetriesNow]
          /\ status' = [status EXCEPT ![current] = IF GivesUp THEN "failed" ELSE "pending"]
          /\ waiting' = waiting \cup {current}
          /\ UNCHANGED <<events, accepted, mishaps, orders, batch, readRetries, unreachable>>
      BY <1>8 DEF Retry, AtMail
    <2>3. \/ step' = "tellFailed" /\ current' = current
          \/ step' = "next" /\ current' = NoMail
      BY <1>8 DEF Retry, AfterRetry, Stay, Leave, Goto
    <2>4. TypeOK'
      BY <2>1, <2>2, <2>3 DEF TypeOK, Steps, Statuses
    <2>5. RetriesLeft' /\ AtHand'
      BY <2>1, <2>2, <2>3 DEF TypeOK, RetriesLeft, AtHand, Queued
    <2> QED BY <2>4, <2>5
  <1>9. CASE TellFailed
    BY <1>9, RecordStep DEF TellFailed, AtMail, Events, TypeOK
  <1>10. CASE AnnounceFailed
    BY <1>10, RecordStep DEF AnnounceFailed, AtMail, Events, TypeOK
  <1>11. CASE SweepEnds
    BY <1>11, EndSweepStep DEF SweepEnds, TypeOK
  <1> QED BY <1>1, <1>2, <1>3, <1>4, <1>5, <1>6, <1>7, <1>8, <1>9, <1>10, <1>11 DEF SweepStep

LEMMA MishapStep ==
  ASSUME SweepInv, Thrown \/ SweepFails \/ Crash \/ Restart
  PROVE  SweepInv'
  <1> USE EmailAssumption DEF SweepInv
  <1>1. CASE Thrown
    BY <1>1 DEF Thrown, AtMail, Mishap, Goto, Stay, table, TypeOK, Steps, RetriesLeft, AtHand,
      Queued
  <1>2. CASE SweepFails \/ Crash
    <2>1. mishaps' \in 0..MaxMishaps
      BY <1>2 DEF SweepFails, Crash, Mishap, TypeOK
    <2> QED BY <1>2, <2>1, EndSweepStep DEF SweepFails, Crash
  <1>3. CASE Restart
    BY <1>3 DEF Restart, Goto, table, sweep, TypeOK, Steps, RetriesLeft, AtHand, Queued
  <1> QED BY <1>1, <1>2, <1>3

LEMMA SweepInvAlways == Spec => []SweepInv
  <1>1. SweepInv /\ UNCHANGED vars => SweepInv'
    BY DEF vars, table, sweep, SweepInv, TypeOK, RetriesLeft, AtHand, Queued
  <1>2. SweepInv /\ [Next]_vars => SweepInv'
    BY <1>1, TableStep, SweepStepInv, MishapStep DEF Next
  <1> QED BY <1>2, InitSweep, PTL DEF Spec

(* Every variable has its type; no mail is retried beyond MaxRetries.      *)
THEOREM Typing == Spec => []TypeOK
  <1>1. SweepInv => TypeOK
    BY DEF SweepInv
  <1> QED BY <1>1, SweepInvAlways, PTL

-------------------------------------------------------------------------------
(***************************************************************************)
(* Failures are told of.  A mail that failed is untold only while the      *)
(* sweep is at it, so only a step that abandons the sweep adds one.        *)
(***************************************************************************)
UntoldMails == {m \in Mails : Untold(m)}

Telling(m) == {"failed"} \cup (IF m \in OfEntity THEN {"email.failed"} ELSE {})

(* The steps that leave a mail at hand for another, or for none, have told *)
(* of it or have it pending or sent.                                       *)
LEMMA UntoldStep ==
  ASSUME SweepInv, [Next]_vars
  PROVE  \/ UntoldMails' \subseteq UntoldMails /\ mishaps' = mishaps
         \/ UntoldMails' \subseteq UntoldMails \cup {current} /\ mishaps' = mishaps + 1
  <1> DEFINE Same == UntoldMails' \subseteq UntoldMails /\ mishaps' = mishaps
             Grows == UntoldMails' \subseteq UntoldMails \cup {current} /\ mishaps' = mishaps + 1
  <1> SUFFICES Same \/ Grows
    OBVIOUS
  <1> USE EmailAssumption DEF SweepInv
  <1>1. ASSUME UNCHANGED <<status, events>>
        PROVE  /\ UntoldMails' \subseteq UntoldMails \cup {current}
               /\ current' = current \/ current = NoMail => UntoldMails' \subseteq UntoldMails
    BY <1>1 DEF UntoldMails, Untold
  <1>2. ASSUME NEW m \in Mails,
               QueueEmail(m) \/ RetryEmail(m) \/ DismissEmail(m) \/ Purge(m) \/ RetryDue(m)
        PROVE  Same
    BY <1>2 DEF QueueEmail, RetryEmail, DismissEmail, Purge, RetryDue, sweep, TypeOK,
      UntoldMails, Untold
  <1>3. ASSUME Select \/ Verify \/ NextMail \/ SweepEnds PROVE Same
    BY <1>1, <1>3 DEF Select, Verify, NextMail, SweepEnds, table, TypeOK
  <1>4. ASSUME Send \/ Thrown PROVE Same \/ Grows
    BY <1>1, <1>4 DEF Send, Thrown, AtMail, Stay, Mishap, table
  <1>5. ASSUME MarkSent PROVE Same
    BY <1>5 DEF MarkSent, AtMail, Stay, TypeOK, UntoldMails, Untold
  <1>6. ASSUME NEW e \in Events, Record(e), current \in Mails, UNCHANGED <<status, mishaps>>,
               current' # current /\ status[current] = "failed" =>
                 Telling(current) \subseteq events'[current]
        PROVE  Same
    <2>1. events' \in [Mails -> SUBSET Events] /\ \A m \in Mails : events[m] \subseteq events'[m]
      BY <1>6 DEF Record, TypeOK
    <2>2. ASSUME NEW m \in UntoldMails' PROVE m \in UntoldMails
      <3>1. m \in Mails /\ status[m] = "failed" /\ current' # m /\ ~(Telling(m) \subseteq events'[m])
        BY <1>6, <2>2 DEF UntoldMails, Untold, Telling
      <3>2. current # m /\ ~(Telling(m) \subseteq events[m])
        BY <1>6, <2>1, <3>1
      <3> QED BY <3>1, <3>2 DEF UntoldMails, Untold, Telling
    <2> QED BY <1>6, <2>2
  <1>7. ASSUME TellSent \/ AnnounceSent PROVE Same
    <2>1. current \in Mails /\ status[current] = "sent" /\ UNCHANGED <<status, mishaps>>
      BY <1>7 DEF TellSent, AnnounceSent, AtMail, TypeOK, AtHand
    <2>2. \E e \in Events : Record(e)
      BY <1>7 DEF TellSent, AnnounceSent, Events
    <2> QED BY <1>6, <2>1, <2>2
  <1>8. ASSUME TellFailed \/ AnnounceFailed PROVE Same
    <2>1. current \in Mails /\ UNCHANGED <<status, mishaps>>
      BY <1>8 DEF TellFailed, AnnounceFailed, AtMail, TypeOK
    <2>2. \E e \in Events : Record(e)
      BY <1>8 DEF TellFailed, AnnounceFailed, Events
    <2>3. current' # current => Telling(current) \subseteq events'[current]
      <3>1. "failed" \in events'[current]
        BY <1>8, <2>1 DEF TellFailed, AnnounceFailed, AtMail, Record, TypeOK, AtHand
      <3>2. current' # current /\ current \in OfEntity => "email.failed" \in events'[current]
        BY <1>8, <2>1 DEF TellFailed, AnnounceFailed, Stay, Record, TypeOK
      <3> QED BY <3>1, <3>2 DEF Telling
    <2> QED BY <1>6, <2>1, <2>2, <2>3
  <1>9. ASSUME Retry PROVE Same
    <2>1. /\ current \in Mails /\ UNCHANGED <<events, mishaps>>
          /\ status' = [status EXCEPT ![current] = IF GivesUp THEN "failed" ELSE "pending"]
      BY <1>9 DEF Retry, AtMail, TypeOK
    <2>2. GivesUp => current' = current
      BY <1>9 DEF Retry, AfterRetry, Stay
    <2> QED BY <2>1, <2>2 DEF TypeOK, UntoldMails, Untold
  <1>10. ASSUME SweepFails \/ Crash PROVE Grows
    BY <1>1, <1>10 DEF SweepFails, Crash, Mishap, table
  <1>11. ASSUME Restart \/ UNCHANGED vars PROVE Same
    BY <1>1, <1>11 DEF Restart, vars, table, sweep
  <1> QED BY <1>2, <1>3, <1>4, <1>5, <1>7, <1>8, <1>9, <1>10, <1>11 DEF Next, SweepStep

Told == IsFiniteSet(UntoldMails) /\ FailuresAreTold

LEMMA ToldStep ==
  ASSUME SweepInv, Told, [Next]_vars
  PROVE  Told'
  <1>1. mishaps \in Nat /\ IsFiniteSet(UntoldMails) /\ Cardinality(UntoldMails) <= mishaps
    BY EmailAssumption DEF SweepInv, TypeOK, Told, FailuresAreTold, UntoldMails
  <1>2. IsFiniteSet(UntoldMails') /\ Cardinality(UntoldMails') <= mishaps'
    <2> DEFINE U == UntoldMails
               V == UntoldMails'
               k == mishaps
               l == mishaps'
    <2>1. \/ V \subseteq U /\ l = k
          \/ V \subseteq U \cup {current} /\ l = k + 1
      BY UntoldStep
    <2>2. k \in Nat /\ IsFiniteSet(U) /\ Cardinality(U) <= k
      BY <1>1
    <2> HIDE DEF U, V, k, l
    <2>3. IsFiniteSet(V) /\ Cardinality(V) <= l
      BY <2>1, <2>2, BoundedSet
    <2> QED BY <2>3 DEF V, l
  <1> QED BY <1>2 DEF Told, FailuresAreTold, UntoldMails

(* Of the mails that failed no more are untold of, or their entity is not  *)
(* told, than calls failed or processes died.                              *)
THEOREM TellsOfFailures == Spec => []FailuresAreTold
  <1>1. Init => Told
    <2> SUFFICES ASSUME Init PROVE Told
      OBVIOUS
    <2>1. UntoldMails = {} /\ mishaps = 0
      BY DEF Init, UntoldMails, Untold
    <2> QED BY <2>1, FS_EmptySet DEF Told, FailuresAreTold, UntoldMails
  <1>2. Told => FailuresAreTold
    BY DEF Told
  <1> QED BY <1>1, <1>2, ToldStep, SweepInvAlways, PTL DEF Spec

-------------------------------------------------------------------------------
(***************************************************************************)
(* A mail is repeated only for a mishap.  What the sweep may yet hand to   *)
(* the server counts as handed over once more.                             *)
(***************************************************************************)
Sendable(m) ==
  \/ status[m] \in {"absent", "pending", "failed"} /\ ~(current = m /\ step = "mark")
  \/ m \in batch
  \/ current = m /\ step \in {"send", "retry"}
Handed(m) == accepted[m] + IF Sendable(m) THEN 1 ELSE 0
Excess == {r \in Mails \X Nat : 2 <= r[2] /\ r[2] <= Handed(r[1])}
SentWithin == IsFiniteSet(Excess) /\ Cardinality(Excess) <= mishaps

LEMMA HandedType ==
  ASSUME SweepInv
  PROVE  \A m \in Mails : Handed(m) \in Nat
  BY DEF SweepInv, TypeOK, Handed

(* What a step adds, it adds for one mail, and it adds one.                *)
LEMMA ExcessStep ==
  ASSUME SweepInv, SweepInv', NEW k \in Mails, Handed(k)' <= Handed(k) + 1,
         \A m \in Mails \ {k} : Handed(m)' <= Handed(m)
  PROVE  Excess' \subseteq Excess \cup {<<k, Handed(k) + 1>>}
  <1>1. /\ \A m \in Mails : Handed(m) \in Nat
        /\ \A m \in Mails : Handed(m)' \in Nat
    BY DEF SweepInv, TypeOK, Handed
  <1> SUFFICES ASSUME NEW m \in Mails, NEW j \in Nat, 2 <= j, j <= Handed(m)'
               PROVE  <<m, j>> \in Excess \cup {<<k, Handed(k) + 1>>}
    BY DEF Excess
  <1>2. CASE j <= Handed(m)
    BY <1>2 DEF Excess
  <1>3. CASE ~(j <= Handed(m))
    BY <1>1, <1>3
  <1> QED BY <1>2, <1>3

LEMMA SendableStep ==
  ASSUME SweepInv, SweepInv', [Next]_vars
  PROVE  \/ Excess' \subseteq Excess /\ mishaps' = mishaps
         \/ /\ Excess' \subseteq Excess \cup {<<current, Handed(current) + 1>>}
            /\ mishaps' = mishaps + 1
  <1> DEFINE Same == Excess' \subseteq Excess /\ mishaps' = mishaps
             Grows == /\ Excess' \subseteq Excess \cup {<<current, Handed(current) + 1>>}
                      /\ mishaps' = mishaps + 1
  <1> SUFFICES Same \/ Grows
    OBVIOUS
  <1> USE EmailAssumption DEF SweepInv
  <1>1. mishaps \in Nat /\ accepted \in [Mails -> Nat]
    BY DEF TypeOK
  <1>2. ASSUME mishaps' = mishaps, \A m \in Mails : Handed(m)' <= Handed(m)
        PROVE  Same
    <2>1. /\ \A m \in Mails : Handed(m) \in Nat
          /\ \A m \in Mails : Handed(m)' \in Nat
      BY DEF TypeOK, Handed
    <2> QED BY <1>2, <2>1 DEF Excess
  <1>3. ASSUME UNCHANGED <<accepted, mishaps>>, \A m \in Mails : Sendable(m)' => Sendable(m)
        PROVE  Same
    BY <1>1, <1>2, <1>3 DEF Handed
  <1>4. ASSUME UNCHANGED accepted, mishaps' = mishaps + 1,
               \A m \in Mails \ {current} : Sendable(m)' => Sendable(m)
        PROVE  Grows
    <2>1. /\ \A m \in Mails : Handed(m)' <= Handed(m) + 1
          /\ \A m \in Mails \ {current} : Handed(m)' <= Handed(m)
      BY <1>1, <1>4 DEF Handed
    <2>2. CASE current \in Mails
      BY <1>4, <2>1, <2>2, ExcessStep
    <2>3. CASE current \notin Mails
      <3>1. \A m \in Mails : Handed(m) \in Nat /\ Handed(m)' \in Nat
        BY DEF TypeOK, Handed
      <3> QED BY <1>4, <2>1, <2>3, <3>1 DEF Excess
    <2> QED BY <2>2, <2>3
  <1>5. ASSUME NEW m \in Mails,
               QueueEmail(m) \/ RetryEmail(m) \/ DismissEmail(m) \/ Purge(m) \/ RetryDue(m)
        PROVE  Same
    <2>1. UNCHANGED <<accepted, mishaps, step, sweep>>
      BY <1>5 DEF QueueEmail, RetryEmail, DismissEmail, Purge, RetryDue
    <2>2. \A k \in Mails : status'[k] \in {"absent", "pending", "failed"} =>
                             status[k] \in {"absent", "pending", "failed"}
      BY <1>5 DEF QueueEmail, RetryEmail, DismissEmail, Purge, RetryDue, TypeOK
    <2> QED BY <1>3, <2>1, <2>2 DEF sweep, Sendable
  <1>6. ASSUME Select PROVE Same
    BY <1>3, <1>6 DEF Select, Due, Goto, table, Sendable
  <1>7. ASSUME Verify \/ Restart \/ SweepEnds PROVE Same
    BY <1>3, <1>7 DEF Verify, Restart, SweepEnds, EndSweep, Goto, table, sweep, Sendable
  <1>8. ASSUME NextMail PROVE Same
    BY <1>3, <1>8 DEF NextMail, Goto, table, Sendable
  <1>9. ASSUME Send PROVE Same \/ Grows
    <2>1. /\ current \in Mails /\ Sendable(current) /\ current \notin batch
          /\ UNCHANGED <<table, sweep>>
      BY <1>9 DEF Send, AtMail, Stay, sweep, TypeOK, AtHand, Sendable
    <2>2. \A m \in Mails \ {current} : Sendable(m)' <=> Sendable(m)
      BY <2>1 DEF table, sweep, Sendable
    <2>3. ASSUME Accept
          PROVE  /\ accepted'[current] = accepted[current] + 1
                 /\ \A m \in Mails \ {current} : Handed(m)' = Handed(m)
      BY <1>1, <2>1, <2>2, <2>3 DEF Accept, Handed
    <2>4. CASE step' = "mark" /\ mishaps' = mishaps /\ Accept
      <3>1. current' = current /\ ~Sendable(current)'
        BY <2>1, <2>4 DEF table, sweep, Sendable
      <3>2. accepted'[current] + (IF Sendable(current)' THEN 1 ELSE 0) = Handed(current)
        BY <1>1, <2>1, <2>3, <2>4, <3>1 DEF Handed
      <3>3. \A m \in Mails : Handed(m)' <= Handed(m)
        BY <2>3, <2>4, <3>1, <3>2, HandedType DEF Handed
      <3> QED BY <1>2, <2>4, <3>3
    <2>5. CASE step' = "retry" /\ UNCHANGED <<accepted, mishaps>>
      BY <1>3, <2>1, <2>2, <2>5
    <2>6. CASE Accept /\ mishaps' = mishaps + 1
      <3>1. current' = current
        BY <2>1 DEF sweep
      <3>2. accepted'[current] + (IF Sendable(current)' THEN 1 ELSE 0) <= Handed(current) + 1
        BY <1>1, <2>1, <2>3, <2>6 DEF Handed
      <3>3. Excess' \subseteq Excess \cup {<<current, Handed(current) + 1>>}
        <4> DEFINE k == current
        <4>1. k' = k /\ Handed(current)' <= Handed(current) + 1
          BY <3>1, <3>2 DEF Handed
        <4> QED BY <2>1, <2>3, <2>6, <3>1, <3>2, HandedType, ExcessStep DEF Handed
      <3> QED BY <2>6, <3>3
    <2> QED BY <1>9, <2>4, <2>5, <2>6 DEF Send, Refused, Goto, Mishap
  <1>10. ASSUME MarkSent PROVE Same
    <2>1. /\ current \in Mails /\ status' = [status EXCEPT ![current] = "sent"]
          /\ current' = current /\ step' = "tell" /\ UNCHANGED <<batch, accepted, mishaps>>
      BY <1>10 DEF MarkSent, AtMail, Stay, Goto, TypeOK
    <2> QED BY <1>3, <2>1 DEF TypeOK, Sendable
  <1>11. ASSUME TellSent \/ AnnounceSent \/ TellFailed \/ AnnounceFailed PROVE Same
    <2>1. UNCHANGED <<status, batch, accepted, mishaps>> /\ step # "mark"
      BY <1>11 DEF TellSent, AnnounceSent, TellFailed, AnnounceFailed, AtMail
    <2>2. step' \in {"announce", "announceFailed", "next"}
      BY <1>11 DEF TellSent, AnnounceSent, TellFailed, AnnounceFailed, Goto, Leave
    <2> QED BY <1>3, <2>1, <2>2 DEF Sendable
  <1>12. ASSUME Retry PROVE Same
    <2>1. /\ current \in Mails /\ Sendable(current) /\ UNCHANGED <<batch, accepted, mishaps>>
          /\ \A m \in Mails \ {current} : status'[m] = status[m]
      BY <1>12 DEF Retry, AtMail, TypeOK, Sendable
    <2>2. current' \in {current, NoMail} /\ step' \in {"tellFailed", "next"} /\ step = "retry"
      BY <1>12 DEF Retry, AtMail, AfterRetry, Stay, Leave, Goto
    <2> QED BY <1>3, <2>1, <2>2 DEF Sendable
  <1>13. ASSUME Thrown PROVE Grows
    <2>1. UNCHANGED <<status, batch, accepted, current>> /\ mishaps' = mishaps + 1
      BY <1>13 DEF Thrown, AtMail, Stay, Mishap, table
    <2> QED BY <1>4, <2>1 DEF Sendable
  <1>14. ASSUME SweepFails \/ Crash PROVE Grows
    <2>1. /\ UNCHANGED <<status, accepted>> /\ mishaps' = mishaps + 1
          /\ batch' = {} /\ current' = NoMail
      BY <1>14 DEF SweepFails, Crash, EndSweep, Mishap, table
    <2> QED BY <1>4, <2>1 DEF Sendable
  <1>15. CASE UNCHANGED vars
    BY <1>3, <1>15 DEF vars, table, sweep, Sendable
  <1> QED BY <1>5, <1>6, <1>7, <1>8, <1>9, <1>10, <1>11, <1>12, <1>13, <1>14, <1>15
    DEF Next, SweepStep

(* However often it is retried, dismissed or swept again from a stale row, *)
(* the mail server gets a mail a second time only for a crash, a failing   *)
(* statement or a lost answer, and no two repetitions for the same one.    *)
THEOREM RepeatsOnlyForMishaps == Spec => []RepeatsAreMishaps
  <1>1. Init => SentWithin
    <2> SUFFICES ASSUME Init PROVE SentWithin
      OBVIOUS
    <2>1. \A m \in Mails : Handed(m) \in {0, 1}
      BY DEF Init, Handed
    <2>2. Excess = {} /\ mishaps = 0
      BY <2>1 DEF Init, Excess
    <2> QED BY <2>2, FS_EmptySet DEF SentWithin
  <1>2. SweepInv /\ SweepInv' /\ SentWithin /\ [Next]_vars => SentWithin'
    <2> SUFFICES ASSUME SweepInv, SweepInv', SentWithin, [Next]_vars PROVE SentWithin'
      OBVIOUS
    <2>1. mishaps \in Nat /\ IsFiniteSet(Excess) /\ Cardinality(Excess) <= mishaps
      BY EmailAssumption DEF SweepInv, TypeOK, SentWithin
    <2>2. IsFiniteSet(Excess') /\ Cardinality(Excess') <= mishaps'
      <3> DEFINE U == Excess
                 V == Excess'
                 k == mishaps
                 l == mishaps'
                 x == <<current, Handed(current) + 1>>
      <3>1. \/ V \subseteq U /\ l = k
            \/ V \subseteq U \cup {x} /\ l = k + 1
        BY SendableStep
      <3>2. k \in Nat /\ IsFiniteSet(U) /\ Cardinality(U) <= k
        BY <2>1
      <3> HIDE DEF U, V, k, l, x
      <3>3. IsFiniteSet(V) /\ Cardinality(V) <= l
        BY <3>1, <3>2, BoundedSet
      <3> QED BY <3>3 DEF V, l
    <2> QED BY <2>2 DEF SentWithin
  <1>3. SweepInv /\ SentWithin => RepeatsAreMishaps
    <2> SUFFICES ASSUME SweepInv, SentWithin PROVE RepeatsAreMishaps
      OBVIOUS
    <2>1. \A m \in Mails : accepted[m] \in Nat /\ accepted[m] <= Handed(m)
      BY DEF SweepInv, TypeOK, Handed
    <2>2. Repetitions \subseteq Excess
      BY <2>1, HandedType DEF Repetitions, Excess
    <2>3. mishaps \in Nat /\ IsFiniteSet(Excess) /\ Cardinality(Excess) <= mishaps
      BY EmailAssumption DEF SweepInv, TypeOK, SentWithin
    <2>4. Cardinality(Repetitions) <= Cardinality(Excess) /\ IsFiniteSet(Repetitions)
      BY <2>2, <2>3, FS_Subset
    <2>5. Cardinality(Repetitions) \in Nat /\ Cardinality(Excess) \in Nat
      BY <2>3, <2>4, FS_CardinalityType
    <2> QED BY <2>3, <2>4, <2>5 DEF RepeatsAreMishaps
  <1> QED BY <1>1, <1>2, <1>3, SweepInvAlways, PTL DEF Spec

-------------------------------------------------------------------------------
(***************************************************************************)
(* E-mail is an EventDelivery to one receiver.  The mapped variables:      *)
(***************************************************************************)
Taken == [s \in {Server} |-> {m \in Mails : accepted[m] > 0}]

LEMMA DeliversStep ==
  ASSUME SweepInv, [Next]_vars
  PROVE  [Delivery!Next]_(Delivery!vars)
  <1> DEFINE Goal == [Delivery!Next]_(Delivery!vars)
  <1> SUFFICES Goal
    OBVIOUS
  <1> USE EmailAssumption DEF SweepInv
  <1>1. ASSUME UNCHANGED <<Queued, Taken, SaidSent>> PROVE Goal
    BY <1>1 DEF Delivery!vars, Queued, Taken
  <1>2. ASSUME SaidSent' \subseteq SaidSent, UNCHANGED <<Queued, Taken>> PROVE Goal
    <2>1. Delivery!Forget
      BY <1>2 DEF Delivery!Forget, Queued, Taken
    <2> QED BY <2>1 DEF Delivery!Next
  <1>3. ASSUME NEW m \in Mails, m \in Queued, accepted[m] > 0,
               SaidSent' = SaidSent \cup {m}, UNCHANGED <<Queued, Taken>>
        PROVE  Goal
    <2>1. Delivery!Complete(m)
      BY <1>3 DEF Delivery!Complete, Queued, Taken
    <2> QED BY <2>1 DEF Delivery!Next
  <1>4. ASSUME NEW m \in Mails, QueueEmail(m) PROVE Goal
    <2>1. Queued' = Queued \cup {m} /\ m \notin Queued
      BY <1>4 DEF QueueEmail, TypeOK, Queued
    <2>2. UNCHANGED <<Taken, SaidSent>>
      BY <1>4 DEF QueueEmail, TypeOK, Taken, SaidSent
    <2>3. Delivery!Emit(m)
      BY <2>1, <2>2 DEF Delivery!Emit, Queued, Taken
    <2> QED BY <2>3 DEF Delivery!Next
  <1>5. ASSUME NEW m \in Mails, RetryEmail(m) \/ DismissEmail(m) \/ Purge(m) \/ RetryDue(m)
        PROVE  Goal
    <2>1. UNCHANGED <<events, accepted>>
      BY <1>5 DEF RetryEmail, DismissEmail, Purge, RetryDue
    <2>2. \A k \in Mails : /\ status'[k] = "absent" <=> status[k] = "absent"
                           /\ status'[k] \in {"sent", "purged"} <=> status[k] \in {"sent", "purged"}
      BY <1>5 DEF RetryEmail, DismissEmail, Purge, RetryDue, TypeOK
    <2> QED BY <1>1, <2>1, <2>2 DEF Queued, Taken, SaidSent
  <1>6. ASSUME Send PROVE Goal
    <2>1. current \in Mails /\ current \in Queued /\ UNCHANGED table
      BY <1>6 DEF Send, AtMail, TypeOK, AtHand
    <2>2. UNCHANGED <<Queued, SaidSent>>
      BY <2>1 DEF table, Queued, SaidSent
    <2>3. CASE accepted' = accepted
      BY <1>1, <2>2, <2>3 DEF Taken
    <2>4. CASE Accept
      <3>1. {m \in Mails : accepted'[m] > 0} = {m \in Mails : accepted[m] > 0} \cup {current}
        BY <2>1, <2>4 DEF Accept, TypeOK
      <3>2. Taken' = [Taken EXCEPT ![Server] = @ \cup {current}]
        BY <3>1 DEF Taken
      <3>3. Delivery!Deliver(current, Server)
        BY <2>1, <2>2, <3>2 DEF Delivery!Deliver, Queued, Taken
      <3> QED BY <2>1, <3>3 DEF Delivery!Next
    <2> QED BY <1>6, <2>3, <2>4 DEF Send
  <1>7. ASSUME MarkSent PROVE Goal
    <2>1. current \in Mails /\ current \in Queued /\ accepted[current] > 0
      BY <1>7 DEF MarkSent, AtMail, TypeOK, AtHand
    <2>2. UNCHANGED <<events, accepted>> /\ status' = [status EXCEPT ![current] = "sent"]
      BY <1>7 DEF MarkSent
    <2>3. UNCHANGED <<Queued, Taken>> /\ SaidSent' = SaidSent \cup {current}
      BY <2>1, <2>2 DEF TypeOK, Queued, Taken, SaidSent
    <2> QED BY <1>3, <2>1, <2>3
  <1>8. ASSUME TellSent \/ AnnounceSent PROVE Goal
    <2>1. /\ current \in Mails /\ current \in Queued
          /\ accepted[current] > 0 /\ status[current] = "sent"
      BY <1>8 DEF TellSent, AnnounceSent, AtMail, TypeOK, AtHand
    <2>2. UNCHANGED <<status, accepted>> /\ \E e \in Events : Record(e)
      BY <1>8 DEF TellSent, AnnounceSent, Events
    <2>3. UNCHANGED <<Queued, Taken, SaidSent>>
      BY <2>1, <2>2 DEF Record, TypeOK, Queued, Taken, SaidSent
    <2> QED BY <1>1, <2>3
  <1>9. ASSUME TellFailed \/ AnnounceFailed PROVE Goal
    <2>1. UNCHANGED <<status, accepted>> /\ (Record("failed") \/ Record("email.failed"))
      BY <1>9 DEF TellFailed, AnnounceFailed
    <2>2. \A m \in Mails :
            events'[m] \cap {"sent", "email.sent"} = events[m] \cap {"sent", "email.sent"}
      BY <2>1 DEF Record, TypeOK
    <2>3. UNCHANGED <<Queued, Taken, SaidSent>>
      BY <2>1, <2>2 DEF Queued, Taken, SaidSent
    <2> QED BY <1>1, <2>3
  <1>10. ASSUME Retry PROVE Goal
    <2>1. /\ current \in Mails /\ current \in Queued /\ UNCHANGED <<events, accepted>>
          /\ status' = [status EXCEPT ![current] = IF GivesUp THEN "failed" ELSE "pending"]
      BY <1>10 DEF Retry, AtMail, TypeOK, AtHand
    <2>2. UNCHANGED <<Queued, Taken>> /\ SaidSent' \subseteq SaidSent
      BY <2>1 DEF TypeOK, Queued, Taken, SaidSent
    <2> QED BY <1>2, <2>2
  <1>11. ASSUME \/ Select \/ Verify \/ NextMail \/ SweepEnds \/ Thrown \/ SweepFails \/ Crash
                \/ Restart \/ UNCHANGED vars
         PROVE  Goal
    <2>1. UNCHANGED <<table, accepted>>
      BY <1>11 DEF Select, Verify, NextMail, SweepEnds, Thrown, SweepFails, Crash, Restart, vars
    <2> QED BY <1>1, <2>1 DEF table, Queued, Taken, SaidSent
  <1> QED BY <1>4, <1>5, <1>6, <1>7, <1>8, <1>9, <1>10, <1>11 DEF Next, SweepStep

(* The e-mail relay implements the same abstract machine as the webhook    *)
(* relay: only queued mails reach the mail server, and a row or an event   *)
(* that says sent is one the server has.                                   *)
THEOREM Implements == Spec => DeliversMails
  <1>1. Init => Delivery!Init
    BY DEF Init, Delivery!Init, SaidSent
  <1>2. SweepInv /\ [Next]_vars => [Delivery!Next]_(Delivery!vars)
    BY DeliversStep
  <1> QED BY <1>1, <1>2, SweepInvAlways, PTL DEF Spec, DeliversMails, Delivery!Spec
===============================================================================
