--------------------------- MODULE OutboxRelayProofs ---------------------------
(***************************************************************************)
(* For every set of events and webhooks, and any number of mishaps: the    *)
(* relay keeps its types, an event marked processed was taken by every     *)
(* webhook that subscribes to it, no wakeup is lost while nothing fails,   *)
(* one mishap leaves no dead letter unrecorded, and the relay implements   *)
(* EventDelivery.                                                          *)
(***************************************************************************)
EXTENDS OutboxRelay, FiniteSetTheorems, TLAPS

(* What a running job still owes: a webhook it has not called yet, or an   *)
(* error that keeps it from succeeding.                                    *)
NothingForgotten ==
  \A e \in Events : jobs[e] = "active" /\ e \notin errors =>
    \A w \in Subscribed[e] : w \in posting[e] \/ e \in received[w]

(* A job starts below MaxAttempts, and once more after its first crash.    *)
Allowed(e) == IF e \in stalled THEN MaxAttempts + 1 ELSE MaxAttempts
AttemptsBounded ==
  \A e \in Events :
    /\ attempts[e] <= Allowed(e)
    /\ jobs[e] = "none" => attempts[e] = 0
    /\ jobs[e] = "waiting" => attempts[e] < Allowed(e)
    /\ jobs[e] = "delayed" => attempts[e] < MaxAttempts

-------------------------------------------------------------------------------
(* A job runs at most one time more than its attempts. *)
LEMMA AttemptsStep ==
  ASSUME TypeOK, AttemptsBounded, [Next]_vars
  PROVE  AttemptsBounded'
  <1> USE RelayAssumption
  <1>1. ASSUME NEW e \in Events, Emit(e) PROVE AttemptsBounded'
    BY <1>1 DEF TypeOK, AttemptsBounded, Allowed, Emit, queue
  <1>2. ASSUME NEW e \in Events, Notified(e) PROVE AttemptsBounded'
    BY <1>2 DEF TypeOK, AttemptsBounded, Allowed, Notified, queue
  <1>3. ASSUME NEW e \in Events, Start(e) PROVE AttemptsBounded'
    BY <1>3 DEF TypeOK, AttemptsBounded, Allowed, Start
  <1>4. ASSUME NEW e \in Events, NEW w \in Webhooks, Post(e, w)
        PROVE AttemptsBounded'
    BY <1>4 DEF TypeOK, AttemptsBounded, Allowed, Post, queue
  <1>5. ASSUME NEW e \in Events, Succeed(e) PROVE AttemptsBounded'
    BY <1>5 DEF TypeOK, AttemptsBounded, Allowed, Succeed
  <1>6. ASSUME NEW e \in Events, Fail(e) PROVE AttemptsBounded'
    BY <1>6 DEF TypeOK, AttemptsBounded, Allowed, Fail, Throw
  <1>7. ASSUME NEW e \in Events, Retry(e) PROVE AttemptsBounded'
    BY <1>7 DEF TypeOK, AttemptsBounded, Allowed, Retry
  <1>8. ASSUME NEW e \in Events, Recover(e) PROVE AttemptsBounded'
    BY <1>8 DEF TypeOK, AttemptsBounded, Allowed, Recover
  <1>9. ASSUME NEW e \in Events, FailUnrecorded(e) PROVE AttemptsBounded'
    BY <1>9 DEF TypeOK, AttemptsBounded, Allowed, FailUnrecorded, Throw
  <1>10. ASSUME NEW e \in Events, LockExpires(e) PROVE AttemptsBounded'
    BY <1>10 DEF TypeOK, AttemptsBounded, Allowed, LockExpires, queue
  <1>11. ASSUME NEW e \in Events, NEW s \in {"pending", "failed", "all"}, Clear(EventType[e], s)
        PROVE AttemptsBounded'
    BY <1>11 DEF TypeOK, AttemptsBounded, Allowed, Clear, queue
  <1>12. ASSUME Heartbeat PROVE AttemptsBounded'
    BY <1>12 DEF TypeOK, AttemptsBounded, Allowed, Heartbeat, queue
  <1>13. ASSUME PollSelect PROVE AttemptsBounded'
    BY <1>13 DEF TypeOK, AttemptsBounded, Allowed, PollSelect, queue
  <1>14. ASSUME NEW e \in Events, PollAdd(e) PROVE AttemptsBounded'
    BY <1>14 DEF TypeOK, AttemptsBounded, Allowed, PollAdd
  <1>15. ASSUME PollLock PROVE AttemptsBounded'
    BY <1>15 DEF TypeOK, AttemptsBounded, Allowed, PollLock, queue
  <1>16. ASSUME PollEnds PROVE AttemptsBounded'
    BY <1>16 DEF TypeOK, AttemptsBounded, Allowed, PollEnds, queue
  <1>17. ASSUME PollFails PROVE AttemptsBounded'
    BY <1>17 DEF TypeOK, AttemptsBounded, Allowed, PollFails, queue
  <1>18. ASSUME Crash PROVE AttemptsBounded'
    BY <1>18 DEF TypeOK, AttemptsBounded, Allowed, Crash
  <1>19. ASSUME Restart PROVE AttemptsBounded'
    BY <1>19 DEF TypeOK, AttemptsBounded, Allowed, Restart, queue
  <1>20. CASE UNCHANGED vars
    BY <1>20 DEF TypeOK, AttemptsBounded, Allowed, vars, queue
  <1> QED BY <1>1, <1>2, <1>3, <1>4, <1>5, <1>6, <1>7, <1>8, <1>9, <1>10,
    <1>11, <1>12, <1>13, <1>14, <1>15, <1>16, <1>17, <1>18, <1>19,
    <1>20 DEF Next, JobStep, SweepStep

(* The types; attempts by the bound above. *)
LEMMA TypeStep ==
  ASSUME TypeOK, AttemptsBounded, AttemptsBounded', [Next]_vars
  PROVE  TypeOK'
  <1> USE RelayAssumption
  <1>1. ASSUME NEW e \in Events, Emit(e) PROVE TypeOK'
    BY <1>1 DEF TypeOK, Emit, poller, queue, run
  <1>2. ASSUME NEW e \in Events, Notified(e) PROVE TypeOK'
    BY <1>2 DEF TypeOK, Notified, TriggerSweep, table, queue, run
  <1>3. ASSUME NEW e \in Events, Start(e) PROVE TypeOK'
    BY <1>3 DEF TypeOK, AttemptsBounded, Allowed, JobStates, Start, Targets, table,
      listener, poller
  <1>4. ASSUME NEW e \in Events, NEW w \in Webhooks, Post(e, w) PROVE TypeOK'
    BY <1>4 DEF TypeOK, Post, table, listener, poller, queue
  <1>5. ASSUME NEW e \in Events, Succeed(e) PROVE TypeOK'
    BY <1>5 DEF TypeOK, JobStates, Succeed, listener, poller, run
  <1>6. ASSUME NEW e \in Events, Fail(e) PROVE TypeOK'
    BY <1>6 DEF TypeOK, JobStates, Fail, Throw, ErrorRows, Mishap, listener,
      poller
  <1>7. ASSUME NEW e \in Events, Retry(e) PROVE TypeOK'
    BY <1>7 DEF TypeOK, JobStates, Retry, table, listener, poller, run
  <1>8. ASSUME NEW e \in Events, Recover(e) PROVE TypeOK'
    BY <1>8 DEF TypeOK, JobStates, Recover, table, listener, poller, run
  <1>9. ASSUME NEW e \in Events, FailUnrecorded(e) PROVE TypeOK'
    BY <1>9 DEF TypeOK, JobStates, FailUnrecorded, Throw, Mishap, table,
      listener, poller
  <1>10. ASSUME NEW e \in Events, LockExpires(e) PROVE TypeOK'
    BY <1>10 DEF TypeOK, LockExpires, listener, poller, queue, run
  <1>11. ASSUME NEW e \in Events, NEW s \in {"pending", "failed", "all"}, Clear(EventType[e], s)
        PROVE TypeOK'
    BY <1>11 DEF TypeOK, Clear, Clearable, Pending, listener, poller, queue, run
  <1>12. ASSUME Heartbeat PROVE TypeOK'
    BY <1>12 DEF TypeOK, Heartbeat, TriggerSweep, table, queue, run
  <1>13. ASSUME PollSelect PROVE TypeOK'
    BY <1>13 DEF TypeOK, PollSelect, Due, Pending, table, listener, queue, run
  <1>14. ASSUME NEW e \in Events, PollAdd(e) PROVE TypeOK'
    BY <1>14 DEF TypeOK, JobStates, PollAdd, table, listener, run
  <1>15. ASSUME PollLock PROVE TypeOK'
    BY <1>15 DEF TypeOK, PollLock, listener, queue, run
  <1>16. ASSUME PollEnds PROVE TypeOK'
    BY <1>16 DEF TypeOK, PollEnds, NextRound, table, queue, run
  <1>17. ASSUME PollFails PROVE TypeOK'
    <2>1. isSweeping' \in BOOLEAN /\ pendingWakeup' \in BOOLEAN
      BY <1>17 DEF TypeOK, PollFails, NextRound
    <2>2. sweep' \in {"none", "poll", "next", "lock"}
      BY <1>17 DEF PollFails, NextRound
    <2>3. mishaps' \in 0..MaxMishaps
      BY <1>17 DEF TypeOK, PollFails, Mishap
    <2> QED
      BY <1>17, <2>1, <2>2, <2>3 DEF TypeOK, PollFails, NextRound, table, queue, run
  <1>18. ASSUME Crash PROVE TypeOK'
    <2>1. up' \in BOOLEAN /\ isSweeping' \in BOOLEAN /\ pendingWakeup' \in BOOLEAN
      BY <1>18 DEF Crash
    <2>2. jobs' \in [Events -> JobStates] /\ posting' \in [Events -> SUBSET Webhooks]
      BY <1>18 DEF TypeOK, JobStates, Crash
    <2>3. mishaps' \in 0..MaxMishaps
      BY <1>18 DEF TypeOK, Crash, Mishap
    <2> QED BY <1>18, <2>1, <2>2, <2>3 DEF TypeOK, Crash, table
  <1>19. ASSUME Restart PROVE TypeOK'
    <2>1. up' \in BOOLEAN /\ isSweeping' \in BOOLEAN /\ pendingWakeup' \in BOOLEAN
      BY <1>19 DEF TypeOK, Restart, TriggerSweep
    <2>2. sweep' \in {"none", "poll", "next", "lock"}
      BY <1>19 DEF TypeOK, Restart, TriggerSweep
    <2> QED BY <1>19, <2>1, <2>2 DEF TypeOK, Restart, table, queue, run
  <1>20. CASE UNCHANGED vars
    BY <1>20 DEF TypeOK, vars, table, listener, poller, queue, run
  <1> QED BY <1>1, <1>2, <1>3, <1>4, <1>5, <1>6, <1>7, <1>8, <1>9, <1>10,
    <1>11, <1>12, <1>13, <1>14, <1>15, <1>16, <1>17, <1>18, <1>19,
    <1>20 DEF Next, JobStep, SweepStep

(* A running job forgets no webhook, and only one that forgot none is
   recorded as processed. *)
LEMMA DeliveryStep ==
  ASSUME TypeOK, NothingForgotten, ProcessedMeansDelivered, [Next]_vars
  PROVE  NothingForgotten' /\ ProcessedMeansDelivered'
  <1> USE RelayAssumption
  <1>1. ASSUME NEW e \in Events, Emit(e)
        PROVE NothingForgotten' /\ ProcessedMeansDelivered'
    BY <1>1 DEF TypeOK, NothingForgotten, ProcessedMeansDelivered, Emit,
      queue, run
  <1>2. ASSUME NEW e \in Events, Notified(e)
        PROVE NothingForgotten' /\ ProcessedMeansDelivered'
    BY <1>2 DEF TypeOK, NothingForgotten, ProcessedMeansDelivered, Notified,
      table, queue, run
  <1>3. ASSUME NEW e \in Events, Start(e)
        PROVE NothingForgotten' /\ ProcessedMeansDelivered'
    BY <1>3 DEF TypeOK, NothingForgotten, ProcessedMeansDelivered, Start, Targets, table
  <1>4. ASSUME NEW e \in Events, NEW w \in Webhooks, Post(e, w)
        PROVE NothingForgotten' /\ ProcessedMeansDelivered'
    BY <1>4 DEF TypeOK, NothingForgotten, ProcessedMeansDelivered, Post,
      table, queue
  <1>5. ASSUME NEW e \in Events, Succeed(e)
        PROVE NothingForgotten' /\ ProcessedMeansDelivered'
    BY <1>5 DEF TypeOK, NothingForgotten, ProcessedMeansDelivered, Succeed,
      AllPosted, run
  <1>6. ASSUME NEW e \in Events, Fail(e)
        PROVE NothingForgotten' /\ ProcessedMeansDelivered'
    BY <1>6 DEF TypeOK, NothingForgotten, ProcessedMeansDelivered, Fail, Throw
  <1>7. ASSUME NEW e \in Events, Retry(e)
        PROVE NothingForgotten' /\ ProcessedMeansDelivered'
    BY <1>7 DEF TypeOK, NothingForgotten, ProcessedMeansDelivered, Retry,
      table, run
  <1>8. ASSUME NEW e \in Events, Recover(e)
        PROVE NothingForgotten' /\ ProcessedMeansDelivered'
    BY <1>8 DEF TypeOK, NothingForgotten, ProcessedMeansDelivered, Recover,
      table, run
  <1>9. ASSUME NEW e \in Events, FailUnrecorded(e)
        PROVE NothingForgotten' /\ ProcessedMeansDelivered'
    BY <1>9 DEF TypeOK, NothingForgotten, ProcessedMeansDelivered,
      FailUnrecorded, Throw, table
  <1>10. ASSUME NEW e \in Events, LockExpires(e)
        PROVE NothingForgotten' /\ ProcessedMeansDelivered'
    BY <1>10 DEF TypeOK, NothingForgotten, ProcessedMeansDelivered,
      LockExpires, queue, run
  <1>11. ASSUME NEW e \in Events, NEW s \in {"pending", "failed", "all"}, Clear(EventType[e], s)
        PROVE NothingForgotten' /\ ProcessedMeansDelivered'
    BY <1>11 DEF TypeOK, NothingForgotten, ProcessedMeansDelivered, Clear,
      queue, run
  <1>12. ASSUME Heartbeat PROVE NothingForgotten' /\ ProcessedMeansDelivered'
    BY <1>12 DEF TypeOK, NothingForgotten, ProcessedMeansDelivered, Heartbeat,
      table, queue, run
  <1>13. ASSUME PollSelect PROVE NothingForgotten' /\ ProcessedMeansDelivered'
    BY <1>13 DEF TypeOK, NothingForgotten, ProcessedMeansDelivered,
      PollSelect, table, queue, run
  <1>14. ASSUME NEW e \in Events, PollAdd(e)
        PROVE NothingForgotten' /\ ProcessedMeansDelivered'
    BY <1>14 DEF TypeOK, NothingForgotten, ProcessedMeansDelivered, PollAdd,
      table, run
  <1>15. ASSUME PollLock PROVE NothingForgotten' /\ ProcessedMeansDelivered'
    BY <1>15 DEF TypeOK, NothingForgotten, ProcessedMeansDelivered, PollLock,
      queue, run
  <1>16. ASSUME PollEnds PROVE NothingForgotten' /\ ProcessedMeansDelivered'
    BY <1>16 DEF TypeOK, NothingForgotten, ProcessedMeansDelivered, PollEnds,
      table, queue, run
  <1>17. ASSUME PollFails PROVE NothingForgotten' /\ ProcessedMeansDelivered'
    BY <1>17 DEF TypeOK, NothingForgotten, ProcessedMeansDelivered, PollFails,
      table, queue, run
  <1>18. ASSUME Crash PROVE NothingForgotten' /\ ProcessedMeansDelivered'
    BY <1>18 DEF TypeOK, NothingForgotten, ProcessedMeansDelivered, Crash, table
  <1>19. ASSUME Restart PROVE NothingForgotten' /\ ProcessedMeansDelivered'
    BY <1>19 DEF TypeOK, NothingForgotten, ProcessedMeansDelivered, Restart,
      table, queue, run
  <1>20. CASE UNCHANGED vars
    BY <1>20 DEF TypeOK, NothingForgotten, ProcessedMeansDelivered, vars,
      table, queue, run
  <1> QED BY <1>1, <1>2, <1>3, <1>4, <1>5, <1>6, <1>7, <1>8, <1>9, <1>10,
    <1>11, <1>12, <1>13, <1>14, <1>15, <1>16, <1>17, <1>18, <1>19,
    <1>20 DEF Next, JobStep, SweepStep

(* Every variable has its type and every column its row: the relay's whole *)
(* state, whatever fails.                                                  *)
THEOREM Typing == Spec => []TypeOK
  <1>1. Init => TypeOK /\ AttemptsBounded
    <2> SUFFICES ASSUME Init PROVE TypeOK /\ AttemptsBounded
      OBVIOUS
    <2>1. up \in BOOLEAN /\ isSweeping \in BOOLEAN /\ pendingWakeup \in BOOLEAN
      BY DEF Init
    <2>2. /\ jobs \in [Events -> JobStates] /\ attempts \in [Events -> 0..(MaxAttempts + 1)]
          /\ posting \in [Events -> SUBSET Webhooks] /\ received \in [Webhooks -> SUBSET Events]
      BY RelayAssumption DEF Init, JobStates
    <2>3. AttemptsBounded
      BY RelayAssumption DEF Init, AttemptsBounded, Allowed
    <2> QED BY <2>1, <2>2, <2>3, RelayAssumption DEF Init, TypeOK
  <1>2. TypeOK /\ AttemptsBounded /\ [Next]_vars => TypeOK' /\ AttemptsBounded'
    BY AttemptsStep, TypeStep
  <1> QED BY <1>1, <1>2, PTL DEF Spec

(* An event marked processed was taken by every webhook subscribed to it,  *)
(* whatever calls, processes and retries went wrong on the way.            *)
THEOREM Delivered == Spec => []ProcessedMeansDelivered
  <1>1. Init => NothingForgotten /\ ProcessedMeansDelivered
    BY DEF Init, NothingForgotten, ProcessedMeansDelivered
  <1>2. TypeOK /\ NothingForgotten /\ ProcessedMeansDelivered /\ [Next]_vars
        => NothingForgotten' /\ ProcessedMeansDelivered'
    BY DeliveryStep
  <1> QED BY <1>1, <1>2, Typing, PTL DEF Spec

-------------------------------------------------------------------------------
(***************************************************************************)
(* Queue and listener.                                                     *)
(***************************************************************************)
(* Whatever the sweep or the queue holds was committed, and a job posts to *)
(* subscribers only.                                                       *)
FromCommitted ==
  /\ batch \subseteq emitted /\ current \in emitted \cup {NoEvent}
  /\ \A e \in Events :
       /\ jobs[e] # "none" => e \in emitted
       /\ posting[e] \subseteq Subscribed[e]

(* A row is locked only after its job was added, and the job goes only     *)
(* when the row is processed.                                              *)
LockedIsQueued ==
  \A e \in Pending : e \in lockedUntil \cup {current} => jobs[e] # "none"

(* While nothing fails a job that ran before has left its error, and it    *)
(* takes two crashes to give up a job as stalled.                          *)
Begun(e) == attempts[e] >= 2 \/ (attempts[e] = 1 /\ jobs[e] # "active")
FailuresLeaveErrors ==
  /\ mishaps = 0 =>
       \A e \in Events :
         /\ e \notin stalled /\ jobs[e] # "orphaned"
         /\ Begun(e) /\ e \in rows => e \in lastError
  /\ mishaps <= 1 => \A e \in stalled : jobs[e] # "orphaned"

LEMMA FromCommittedStep ==
  ASSUME TypeOK, FromCommitted, [Next]_vars
  PROVE  FromCommitted'
  <1> USE RelayAssumption
  <1>1. ASSUME emitted \subseteq emitted', batch' \subseteq batch,
               current' \in {current, NoEvent}, UNCHANGED <<jobs, posting>>
        PROVE  FromCommitted'
    BY <1>1 DEF FromCommitted
  <1>2. ASSUME NEW e \in Events, Emit(e) \/ Notified(e) \/ LockExpires(e)
        PROVE  FromCommitted'
    BY <1>1, <1>2 DEF Emit, Notified, LockExpires, poller, queue, run
  <1>3. ASSUME NEW e \in Events, NEW s \in {"pending", "failed", "all"}, Clear(EventType[e], s)
        PROVE  FromCommitted'
    BY <1>1, <1>3 DEF Clear, poller, queue, run
  <1>4. ASSUME Heartbeat \/ PollLock \/ PollEnds \/ PollFails \/ Restart \/ UNCHANGED vars
        PROVE  FromCommitted'
    BY <1>1, <1>4 DEF Heartbeat, PollLock, PollEnds, PollFails, NextRound, Restart,
      vars, poller, queue, run
  <1>5. ASSUME NEW e \in Events, JobStep(e) \/ FailUnrecorded(e)
        PROVE  FromCommitted'
    <2>1. UNCHANGED <<emitted, batch, current>>
      BY <1>5 DEF JobStep, Start, Post, Succeed, Fail, Retry, Recover, FailUnrecorded, poller
    <2>2. ASSUME NEW d \in Events
          PROVE  (jobs'[d] # "none" => jobs[d] # "none") /\ posting'[d] \subseteq Subscribed[d]
      <3>1. CASE Start(e)
        BY <3>1 DEF Start, Targets, TypeOK, FromCommitted
      <3>2. CASE \E w \in Webhooks : Post(e, w)
        BY <3>2 DEF Post, queue, TypeOK, FromCommitted
      <3>3. CASE Succeed(e) \/ Retry(e) \/ Recover(e)
        BY <3>3 DEF Succeed, AllPosted, Retry, Recover, run, TypeOK, FromCommitted
      <3>4. CASE Fail(e) \/ FailUnrecorded(e)
        BY <3>4 DEF Fail, FailUnrecorded, Throw, TypeOK, FromCommitted
      <3> QED BY <1>5, <3>1, <3>2, <3>3, <3>4 DEF JobStep
    <2> QED BY <2>1, <2>2 DEF FromCommitted
  <1>6. ASSUME PollSelect PROVE FromCommitted'
    BY <1>6 DEF PollSelect, Due, Pending, queue, run, TypeOK, FromCommitted
  <1>7. ASSUME NEW e \in Events, PollAdd(e) PROVE FromCommitted'
    BY <1>7 DEF PollAdd, run, TypeOK, FromCommitted
  <1>8. ASSUME Crash PROVE FromCommitted'
    BY <1>8 DEF Crash, TypeOK, FromCommitted
  <1> QED BY <1>2, <1>3, <1>4, <1>5, <1>6, <1>7, <1>8 DEF Next, SweepStep

LEMMA LockedIsQueuedStep ==
  ASSUME TypeOK, FromCommitted, LockedIsQueued, [Next]_vars
  PROVE  LockedIsQueued'
  <1> USE RelayAssumption
  <1>1. ASSUME Pending' \subseteq Pending, lockedUntil' \subseteq lockedUntil \cup {current},
               current' \in {current, NoEvent},
               \A d \in Pending' : jobs[d] # "none" => jobs'[d] # "none"
        PROVE  LockedIsQueued'
    BY <1>1 DEF LockedIsQueued, Pending, TypeOK
  <1>2. ASSUME NEW e \in Events, Emit(e) PROVE LockedIsQueued'
    BY <1>2 DEF Emit, poller, queue, TypeOK, FromCommitted, LockedIsQueued, Pending
  <1>3. ASSUME NEW e \in Events, Notified(e) \/ LockExpires(e) PROVE LockedIsQueued'
    BY <1>1, <1>3 DEF Notified, LockExpires, Pending, table, poller, queue
  <1>4. ASSUME NEW e \in Events, NEW s \in {"pending", "failed", "all"}, Clear(EventType[e], s)
        PROVE  LockedIsQueued'
    BY <1>1, <1>4 DEF Clear, Pending, poller, queue
  <1>5. ASSUME NEW e \in Events, JobStep(e) \/ FailUnrecorded(e)
        PROVE  LockedIsQueued'
    <2>1. CASE Succeed(e)
      BY <2>1, <1>1 DEF Succeed, Pending, poller, TypeOK
    <2>2. CASE Start(e) \/ (\E w \in Webhooks : Post(e, w)) \/ Retry(e) \/ Recover(e)
      BY <2>2, <1>1 DEF Start, Post, Retry, Recover, Pending, table, poller, queue, TypeOK
    <2>3. CASE Fail(e) \/ FailUnrecorded(e)
      BY <2>3, <1>1 DEF Fail, FailUnrecorded, Throw, Pending, table, poller, TypeOK
    <2> QED BY <1>5, <2>1, <2>2, <2>3 DEF JobStep
  <1>6. ASSUME NEW e \in Events, PollAdd(e) PROVE LockedIsQueued'
    BY <1>6 DEF PollAdd, Pending, table, TypeOK, LockedIsQueued
  <1>7. ASSUME PollLock PROVE LockedIsQueued'
    BY <1>1, <1>7 DEF PollLock, Pending, queue
  <1>8. ASSUME Heartbeat \/ PollSelect \/ PollEnds \/ PollFails \/ Restart \/ UNCHANGED vars
        PROVE  LockedIsQueued'
    BY <1>1, <1>8 DEF Heartbeat, PollSelect, PollEnds, PollFails, NextRound, Restart,
      Pending, vars, table, poller, queue
  <1>9. ASSUME Crash PROVE LockedIsQueued'
    BY <1>1, <1>9 DEF Crash, Pending, table, TypeOK
  <1> QED BY <1>2, <1>3, <1>4, <1>5, <1>6, <1>7, <1>8, <1>9 DEF Next, SweepStep

LEMMA FailuresStep ==
  ASSUME TypeOK, AttemptsBounded, FromCommitted, FailuresLeaveErrors, MaxAttempts >= 2,
         mishaps <= 1 => DeadLettersRecorded, [Next]_vars
  PROVE  FailuresLeaveErrors' /\ (mishaps <= 1 => DeadLettersRecorded)'
  <1> DEFINE Dead == mishaps <= 1 => DeadLettersRecorded
             Goal == FailuresLeaveErrors' /\ Dead'
  <1> USE RelayAssumption
  <1> SUFFICES Goal
    OBVIOUS
  <1>1. ASSUME rows' \subseteq rows, mishaps' >= mishaps, mishaps \in Nat, mishaps' \in Nat,
               rows' \cap (processedAt \cup lastError) \subseteq processedAt' \cup lastError',
               rows' \cap lastError \subseteq lastError',
               UNCHANGED <<jobs, attempts, stalled>>
        PROVE  Goal
    BY <1>1 DEF FailuresLeaveErrors, DeadLettersRecorded, Begun
  <1>2. ASSUME NEW e \in Events, Emit(e) PROVE Goal
    <2>1. jobs[e] = "none" /\ attempts[e] = 0
      BY <1>2 DEF Emit, FromCommitted, AttemptsBounded
    <2> QED
      BY <1>2, <2>1 DEF Emit, queue, TypeOK, FailuresLeaveErrors, DeadLettersRecorded, Begun
  <1>3. ASSUME NEW e \in Events, Notified(e) \/ LockExpires(e) PROVE Goal
    BY <1>1, <1>3 DEF Notified, LockExpires, table, queue, TypeOK
  <1>4. ASSUME NEW e \in Events, NEW s \in {"pending", "failed", "all"}, Clear(EventType[e], s)
        PROVE  Goal
    BY <1>1, <1>4 DEF Clear, queue, TypeOK
  <1>5. ASSUME Heartbeat \/ PollSelect \/ PollLock \/ PollEnds \/ Restart \/ UNCHANGED vars
        PROVE  Goal
    BY <1>1, <1>5 DEF Heartbeat, PollSelect, PollLock, PollEnds, Restart, vars, table, queue,
      TypeOK
  <1>6. ASSUME PollFails PROVE Goal
    BY <1>1, <1>6 DEF PollFails, Mishap, table, queue, TypeOK
  <1>7. ASSUME NEW e \in Events, PollAdd(e) PROVE Goal
    BY <1>7 DEF PollAdd, table, TypeOK, AttemptsBounded, FailuresLeaveErrors,
      DeadLettersRecorded, Begun
  <1>8. ASSUME NEW e \in Events, Start(e) PROVE Goal
    BY <1>8 DEF Start, table, TypeOK, FailuresLeaveErrors, DeadLettersRecorded, Begun
  <1>9. ASSUME NEW e \in Events, NEW w \in Webhooks, Post(e, w) PROVE Goal
    BY <1>1, <1>9 DEF Post, table, queue, TypeOK
  <1>10. ASSUME NEW e \in Events, Succeed(e) PROVE Goal
    BY <1>10 DEF Succeed, TypeOK, FailuresLeaveErrors, DeadLettersRecorded, Begun
  <1>11. ASSUME NEW e \in Events, Retry(e) PROVE Goal
    BY <1>11 DEF Retry, table, TypeOK, FailuresLeaveErrors, DeadLettersRecorded, Begun
  <1>12. ASSUME NEW e \in Events, Recover(e) PROVE Goal
    BY <1>12 DEF Recover, table, TypeOK, FailuresLeaveErrors, DeadLettersRecorded
  <1>13. ASSUME NEW e \in Events, Fail(e) PROVE Goal
    <2>1. /\ mishaps' \in Nat /\ mishaps' >= mishaps
          /\ UNCHANGED <<rows, processedAt, attempts, stalled>>
      BY <1>13 DEF Fail, Throw, Mishap, TypeOK
    <2>2. rows \cap {e} \subseteq lastError' /\ lastError \subseteq lastError'
      BY <1>13 DEF Fail, ErrorRows
    <2>3. jobs'[e] \in {"delayed", "failed"} /\ \A d \in Events : d # e => jobs'[d] = jobs[d]
      BY <1>13 DEF Fail, Throw, TypeOK
    <2> QED BY <2>1, <2>2, <2>3 DEF TypeOK, FailuresLeaveErrors, DeadLettersRecorded, Begun
  <1>14. ASSUME NEW e \in Events, FailUnrecorded(e) PROVE Goal
    <2>1. mishaps' = mishaps + 1 /\ mishaps \in Nat /\ UNCHANGED <<table, attempts, stalled>>
      BY <1>14 DEF FailUnrecorded, Throw, Mishap, TypeOK
    <2>2. /\ jobs'[e] = IF attempts[e] < MaxAttempts THEN "delayed" ELSE "failed"
          /\ \A d \in Events : d # e => jobs'[d] = jobs[d]
      BY <1>14 DEF FailUnrecorded, Throw, TypeOK
    <2>3. mishaps = 0 /\ jobs'[e] = "failed" /\ e \in rows => e \in lastError
      BY <2>2 DEF TypeOK, FailuresLeaveErrors, Begun
    <2> QED BY <2>1, <2>2, <2>3 DEF table, TypeOK, FailuresLeaveErrors, DeadLettersRecorded
  <1>15. ASSUME Crash PROVE Goal
    <2>1. mishaps' = mishaps + 1 /\ mishaps \in Nat /\ UNCHANGED <<table, attempts, stalled>>
      BY <1>15 DEF Crash, Mishap, TypeOK
    <2>2. \A d \in Events : jobs'[d] = IF jobs[d] = "active" THEN "orphaned" ELSE jobs[d]
      BY <1>15 DEF Crash, TypeOK
    <2> QED BY <2>1, <2>2 DEF table, TypeOK, FailuresLeaveErrors, DeadLettersRecorded
  <1> QED BY <1>2, <1>3, <1>4, <1>5, <1>6, <1>7, <1>8, <1>9, <1>10, <1>11, <1>12, <1>13,
    <1>14, <1>15 DEF Next, JobStep, SweepStep

(***************************************************************************)
(* Wakeups: while nothing fails the worker runs, and a due event waits for *)
(* its NOTIFY, for a poll, or is already known to the queue.               *)
(***************************************************************************)
Listening == IsFiniteSet(emitted) /\ (mishaps = 0 => up)
Awaited(e) == Cardinality(emitted \ {e}) < Limit => e \in notices \/ Seen(e)
NothingMissed == mishaps = 0 => \A e \in Due : Awaited(e)

LEMMA MissedIsSeen == NothingMissed <=> NotifiedIsSeen
  BY DEF NothingMissed, NotifiedIsSeen, Awaited

LEMMA ListeningStep ==
  ASSUME TypeOK, Listening, [Next]_vars
  PROVE  Listening'
  <1>1. IsFiniteSet(emitted')
    <2>1. CASE emitted' = emitted
      BY <2>1 DEF Listening
    <2>2. ASSUME NEW e \in Events, Emit(e) PROVE IsFiniteSet(emitted')
      BY <2>2, FS_AddElement DEF Emit, Listening
    <2>3. emitted' = emitted \/ \E e \in Events : Emit(e)
      BY DEF Next, JobStep, SweepStep, Notified, FailUnrecorded, LockExpires, Clear, Heartbeat,
        PollFails, Crash, Restart, Start, Post, Succeed, Fail, Retry, Recover, PollSelect,
        PollAdd, PollLock, PollEnds, vars
    <2> QED BY <2>1, <2>2, <2>3
  <1>2. mishaps' = 0 => mishaps = 0 /\ (up => up')
    BY RelayAssumption DEF Next, JobStep, SweepStep, Emit, Notified, FailUnrecorded, LockExpires,
      Clear, Heartbeat, PollFails, Crash, Restart, Start, Post, Succeed, Fail, Retry, Recover,
      PollSelect, PollAdd, PollLock, PollEnds, vars, listener, Mishap, TypeOK
  <1> QED BY <1>1, <1>2 DEF Listening

(* A poll that is not full selects every row that is due. *)
LEMMA PollTakesAll ==
  ASSUME TypeOK, IsFiniteSet(emitted), PollSelect, NEW e \in Due,
         Cardinality(emitted \ {e}) < Limit
  PROVE  e \in batch'
  <1> USE RelayAssumption
  <1>1. Due \subseteq emitted /\ e \in emitted /\ IsFiniteSet(Due)
    BY FS_Subset DEF TypeOK, Due, Pending
  <1>2. Cardinality(emitted) \in Nat /\ Cardinality(emitted \ {e}) = Cardinality(emitted) - 1
    BY <1>1, FS_RemoveElement, FS_CardinalityType
  <1>3. Cardinality(Due) <= Cardinality(emitted) /\ Cardinality(Due) \in Nat
    BY <1>1, FS_Subset, FS_CardinalityType
  <1>4. IsFiniteSet(emitted \ {e}) /\ Cardinality(emitted \ {e}) \in Nat
    BY FS_RemoveElement, FS_CardinalityType
  <1>5. batch' \subseteq Due /\ Cardinality(batch') = Cardinality(Due)
    BY <1>2, <1>3, <1>4 DEF PollSelect
  <1>6. batch' = Due
    BY <1>1, <1>5, FS_Subset
  <1> QED BY <1>6

LEMMA NothingMissedStep ==
  ASSUME TypeOK, TypeOK', FromCommitted, LockedIsQueued, Listening, NothingMissed, [Next]_vars
  PROVE  NothingMissed'
  <1> USE RelayAssumption
  <1> SUFFICES ASSUME mishaps' = 0, NEW d \in Due', Cardinality(emitted' \ {d}) < Limit
               PROVE  d \in notices' \/ Seen(d)'
    BY DEF NothingMissed, Awaited
  <1>1. d \in Events /\ mishaps = 0 /\ up
    <2>1. mishaps = 0
      BY DEF Next, JobStep, SweepStep, Emit, Notified, FailUnrecorded, LockExpires, Clear,
        Heartbeat, PollFails, Crash, Restart, Start, Post, Succeed, Fail, Retry, Recover,
        PollSelect, PollAdd, PollLock, PollEnds, vars, Mishap, TypeOK
    <2> QED BY <2>1 DEF TypeOK, Due, Pending, Listening
  <1> DEFINE Goal == d \in notices' \/ Seen(d)'
  (* A step that neither emits nor makes a row due keeps what was seen.    *)
  <1>2. ASSUME d \in Due, emitted' = emitted PROVE d \in notices \/ Seen(d)
    BY <1>1, <1>2 DEF NothingMissed, Awaited
  <1>3. ASSUME d \in notices \/ Seen(d), notices \subseteq notices', batch \subseteq batch',
               jobs[d] # "none" => jobs'[d] # "none",
               sweep = "poll" => sweep' = "poll", pendingWakeup => pendingWakeup'
        PROVE  Goal
    BY <1>3 DEF Seen
  <1>4. ASSUME NEW e \in Events, Emit(e) PROVE Goal
    <2>1. CASE d = e
      BY <1>1, <1>4, <2>1 DEF Emit
    <2>2. CASE d # e
      <3>1. d \in Due /\ emitted \subseteq emitted'
        BY <1>4, <2>2 DEF Emit, Due, Pending
      <3>2. IsFiniteSet(emitted) /\ e \notin emitted /\ emitted' = emitted \cup {e}
        BY <1>4 DEF Emit, Listening
      <3>3. emitted' \ {d} = (emitted \ {d}) \cup {e} /\ e \notin emitted \ {d}
        BY <2>2, <3>2
      <3>4. IsFiniteSet(emitted \ {d})
        BY <3>2, FS_RemoveElement
      <3>5. Cardinality(emitted' \ {d}) = Cardinality(emitted \ {d}) + 1
        BY <3>3, <3>4, FS_AddElement
      <3>6. Cardinality(emitted \ {d}) < Limit
        BY <3>4, <3>5, FS_CardinalityType
      <3>7. d \in notices \/ Seen(d)
        BY <1>1, <3>1, <3>6 DEF NothingMissed, Awaited
      <3> QED BY <1>1, <1>3, <1>4, <3>7 DEF Emit, poller, queue
    <2> QED BY <2>1, <2>2
  <1>5. ASSUME NEW e \in Events, Notified(e) PROVE Goal
    BY <1>1, <1>2, <1>5 DEF Notified, TriggerSweep, Seen, TypeOK, Due, Pending, table, queue
  <1>6. ASSUME NEW e \in Events, LockExpires(e) PROVE Goal
    <2>1. CASE d = e
      <3>1. jobs[d] # "none"
        BY <1>6, <2>1 DEF LockExpires, LockedIsQueued, Due, Pending
      <3> QED BY <1>6, <3>1 DEF LockExpires, queue, Seen
    <2>2. CASE d # e
      BY <1>2, <1>3, <1>6, <2>2 DEF LockExpires, Due, Pending, listener, poller, queue
    <2> QED BY <2>1, <2>2
  <1>7. ASSUME NEW e \in Events, NEW s \in {"pending", "failed", "all"}, Clear(EventType[e], s)
        PROVE  Goal
    BY <1>2, <1>3, <1>7 DEF Clear, Due, Pending, listener, poller, queue
  <1>8. ASSUME Heartbeat \/ Restart PROVE Goal
    BY <1>1, <1>2, <1>8 DEF Heartbeat, Restart, TriggerSweep, Seen, Due, Pending, table, queue
  <1>9. ASSUME NEW e \in Events, JobStep(e) \/ FailUnrecorded(e) PROVE Goal
    <2>1. CASE Succeed(e)
      BY <2>1, <1>2, <1>3 DEF Succeed, Due, Pending, listener, poller, TypeOK
    <2>2. CASE Start(e) \/ (\E w \in Webhooks : Post(e, w)) \/ Retry(e) \/ Recover(e)
      BY <1>1, <2>2, <1>2, <1>3 DEF Start, Post, Retry, Recover, Due, Pending, table, listener,
        poller, queue, TypeOK
    <2>3. CASE Fail(e) \/ FailUnrecorded(e)
      <3>1. CASE d = e
        BY <1>1, <2>3, <3>1 DEF Fail, FailUnrecorded, Throw, TypeOK, Seen
      <3>2. CASE d # e
        <4>1. d \in Due /\ jobs'[d] = jobs[d] /\ UNCHANGED <<emitted, listener, poller>>
          BY <1>1, <2>3, <3>2 DEF Fail, FailUnrecorded, Throw, Due, Pending, table, TypeOK
        <4> QED BY <1>2, <1>3, <4>1 DEF listener, poller
      <3> QED BY <3>1, <3>2
    <2> QED BY <1>9, <2>1, <2>2, <2>3 DEF JobStep
  <1>10. ASSUME PollSelect PROVE Goal
    <2>1. d \in Due /\ emitted' = emitted
      BY <1>10 DEF PollSelect, Due, Pending, table
    <2> QED BY <1>10, <2>1, PollTakesAll DEF Listening, Seen
  <1>11. ASSUME NEW e \in Events, PollAdd(e) PROVE Goal
    BY <1>1, <1>2, <1>11 DEF PollAdd, Due, Pending, table, listener, Seen, TypeOK
  <1>12. ASSUME PollLock PROVE Goal
    BY <1>2, <1>3, <1>12 DEF PollLock, Due, Pending, listener, queue
  <1>13. ASSUME PollEnds PROVE Goal
    BY <1>2, <1>13 DEF PollEnds, NextRound, Due, Pending, table, queue, Seen
  <1>14. ~PollFails /\ ~Crash
    BY DEF PollFails, Crash, Mishap, TypeOK
  <1>15. CASE UNCHANGED vars
    BY <1>2, <1>3, <1>15 DEF vars, Due, Pending, table, listener, poller, queue
  <1> QED BY <1>4, <1>5, <1>6, <1>7, <1>8, <1>9, <1>10, <1>11, <1>12, <1>13, <1>14, <1>15
    DEF Next, SweepStep

(***************************************************************************)
(* The theorems.                                                           *)
(***************************************************************************)
LEMMA Bounded == Spec => []AttemptsBounded
  <1>1. Init => AttemptsBounded
    BY RelayAssumption DEF Init, AttemptsBounded, Allowed
  <1> QED BY <1>1, AttemptsStep, Typing, PTL DEF Spec

LEMMA Committed == Spec => []FromCommitted
  <1>1. Init => FromCommitted
    BY DEF Init, FromCommitted
  <1> QED BY <1>1, FromCommittedStep, Typing, PTL DEF Spec

(* A job that BullMQ gave up left its error in the row, so that the event  *)
(* queue shows the dead letter: with at most one crash or failed call of   *)
(* Postgres or Redis, and jobs that are tried more than once.              *)
THEOREM DeadLetters ==
  ASSUME MaxAttempts >= 2
  PROVE  Spec => [](mishaps <= 1 => DeadLettersRecorded)
  <1> DEFINE Dead == mishaps <= 1 => DeadLettersRecorded
  <1>1. Init => FailuresLeaveErrors /\ Dead
    BY DEF Init, FailuresLeaveErrors, Begun, DeadLettersRecorded
  <1>2. TypeOK /\ AttemptsBounded /\ FromCommitted /\ FailuresLeaveErrors /\ Dead /\ [Next]_vars
        => FailuresLeaveErrors' /\ Dead'
    BY FailuresStep
  <1> QED BY <1>1, <1>2, Typing, Bounded, Committed, PTL DEF Spec

(* Coalescing the wakeups of the sweep loses none: while nothing fails, an *)
(* event that is due and whose NOTIFY is handled is queued or in the sweep,*)
(* or another poll comes.                                                  *)
THEOREM NoLostWakeup == Spec => []NotifiedIsSeen
  <1>1. Init => LockedIsQueued /\ Listening /\ NothingMissed
    BY FS_EmptySet DEF Init, LockedIsQueued, Listening, NothingMissed, Due, Pending
  <1>2. /\ TypeOK /\ TypeOK' /\ FromCommitted /\ [Next]_vars
        /\ LockedIsQueued /\ Listening /\ NothingMissed
        => LockedIsQueued' /\ Listening' /\ NothingMissed'
    BY LockedIsQueuedStep, ListeningStep, NothingMissedStep
  <1> QED BY <1>1, <1>2, MissedIsSeen, Typing, Committed, PTL DEF Spec

(***************************************************************************)
(* The relay is an EventDelivery.  A POST is the delivery, the update of   *)
(* processed_at the completion, and what else happens a stutter: retries   *)
(* and restarts deliver again what was delivered.                          *)
(***************************************************************************)
LEMMA DeliveryStepOrStutter ==
  ASSUME TypeOK, NothingForgotten, FromCommitted, [Next]_vars
  PROVE  [Delivery!Next]_(Delivery!vars)
  <1> USE RelayAssumption
  <1> DEFINE Goal == [Delivery!Next]_(Delivery!vars)
  <1> SUFFICES Goal
    OBVIOUS
  <1>1. ASSUME UNCHANGED <<emitted, received, processedAt>> PROVE Goal
    BY <1>1 DEF Delivery!vars
  <1>2. ASSUME NEW e \in Events, Emit(e) PROVE Goal
    BY <1>2 DEF Emit, run, Delivery!Next, Delivery!Emit
  <1>3. ASSUME NEW e \in Events, NEW w \in Webhooks, Post(e, w) PROVE Goal
    <2>1. e \in emitted /\ w \in Subscribed[e]
      BY <1>3 DEF Post, TypeOK, FromCommitted
    <2>2. CASE received' = received
      BY <1>1, <1>3, <2>2 DEF Post, table
    <2>3. CASE received' = [received EXCEPT ![w] = @ \cup {e}]
      <3>1. Delivery!Deliver(e, w)
        BY <1>3, <2>1, <2>3 DEF Post, table, Delivery!Deliver
      <3> QED BY <3>1 DEF Delivery!Next
    <2> QED BY <1>3, <2>2, <2>3 DEF Post
  <1>4. ASSUME NEW e \in Events, Succeed(e) PROVE Goal
    <2>1. e \in emitted /\ \A w \in Subscribed[e] : e \in received[w]
      BY <1>4 DEF Succeed, AllPosted, TypeOK, FromCommitted, NothingForgotten
    <2>2. UNCHANGED <<emitted, received>> /\ processedAt' \in {processedAt, processedAt \cup {e}}
      BY <1>4 DEF Succeed, run
    <2>3. CASE processedAt' = processedAt
      BY <1>1, <2>2, <2>3
    <2>4. CASE processedAt' = processedAt \cup {e}
      <3>1. Delivery!Complete(e)
        BY <2>1, <2>2, <2>4 DEF Delivery!Complete
      <3> QED BY <3>1 DEF Delivery!Next
    <2> QED BY <2>2, <2>3, <2>4
  <1>5. ASSUME NEW e \in Events, NEW s \in {"pending", "failed", "all"}, Clear(EventType[e], s)
        PROVE  Goal
    <2>1. Delivery!Forget
      BY <1>5 DEF Clear, run, Delivery!Forget
    <2> QED BY <2>1 DEF Delivery!Next
  <1>6. ASSUME NEW e \in Events,
               \/ Notified(e) \/ LockExpires(e) \/ PollAdd(e)
               \/ Start(e) \/ Fail(e) \/ FailUnrecorded(e) \/ Retry(e) \/ Recover(e)
        PROVE  Goal
    BY <1>1, <1>6 DEF Notified, LockExpires, PollAdd, Start, Fail, FailUnrecorded, Throw, Retry,
      Recover, table, run
  <1>7. ASSUME \/ Heartbeat \/ PollSelect \/ PollLock \/ PollEnds \/ PollFails \/ Crash \/ Restart
               \/ UNCHANGED vars
        PROVE  Goal
    BY <1>1, <1>7 DEF Heartbeat, PollSelect, PollLock, PollEnds, PollFails, Crash, Restart, vars,
      table, run
  <1> QED BY <1>2, <1>3, <1>4, <1>5, <1>6, <1>7 DEF Next, JobStep, SweepStep

(* Webhooks receive committed events they subscribe to and no others, and  *)
(* an event is marked processed only when all of them have it: the whole   *)
(* relay, with its lost answers, retries and crashes, as one small machine.*)
THEOREM Implements == Spec => DeliversEvents
  <1>1. Init => Delivery!Init
    BY DEF Init, Delivery!Init
  <1>2. Init => NothingForgotten /\ ProcessedMeansDelivered
    BY DEF Init, NothingForgotten, ProcessedMeansDelivered
  <1>3. TypeOK /\ NothingForgotten /\ ProcessedMeansDelivered /\ [Next]_vars
        => NothingForgotten' /\ ProcessedMeansDelivered'
    BY DeliveryStep
  <1>4. TypeOK /\ NothingForgotten /\ FromCommitted /\ [Next]_vars
        => [Delivery!Next]_(Delivery!vars)
    BY DeliveryStepOrStutter
  <1> QED BY <1>1, <1>2, <1>3, <1>4, Typing, Committed, PTL
    DEF Spec, DeliversEvents, Delivery!Spec
===============================================================================
