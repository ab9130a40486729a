-------------------------- MODULE GeneralLedgerProofs --------------------------
(***************************************************************************)
(* For any number of posters, requests and accounts: the committed ledger  *)
(* is one hash chain.  The argument is TailIsFresh: from the read of the   *)
(* newest entry to the commit the poster holds the advisory lock, nobody   *)
(* else has uncommitted entries, so an entry extends the chain it saw.     *)
(***************************************************************************)
EXTENDS GeneralLedger, SequenceTheorems, TLAPS

(***************************************************************************)
(* Chains.                                                                 *)
(***************************************************************************)
LEMMA ConcatAppend ==
  ASSUME NEW S, NEW s \in Seq(S), NEW p \in Seq(S), NEW e \in S
  PROVE  s \o Append(p, e) = Append(s \o p, e)
  <1>1. s \o p \in Seq(S)
    BY ConcatProperties
  <1> DEFINE u == <<e>>
  <1>2. u \in Seq(S)
    OBVIOUS
  <1>3. Append(p, e) = p \o u
    BY AppendIsConcat
  <1>4. Append(s \o p, e) = (s \o p) \o u
    BY <1>1, AppendIsConcat
  <1> HIDE DEF u
  <1>5. (s \o p) \o u = s \o (p \o u)
    BY <1>2, ConcatAssociative
  <1> QED BY <1>3, <1>4, <1>5

(* An entry with the next number and the last hash extends a chain.        *)
LEMMA ChainedAppend ==
  ASSUME NEW S, NEW v \in Seq(S), NEW e \in S, Chained(v),
         e.seq = Len(v) + 1,
         e.prev = IF v = <<>> THEN Genesis ELSE Last(v).hash
  PROVE  Chained(Append(v, e))
  <1> DEFINE w == Append(v, e)
  <1>1. /\ Len(v) \in Nat /\ DOMAIN v = 1..Len(v)
        /\ Len(w) = Len(v) + 1 /\ DOMAIN w = 1..Len(w)
        /\ \A i \in 1..Len(v) : w[i] = v[i]
        /\ w[Len(v) + 1] = e
        /\ v = <<>> <=> Len(v) = 0
    BY AppendProperties, LenProperties, EmptySeq
  <1> HIDE DEF w
  <1> SUFFICES ASSUME NEW n \in DOMAIN w
               PROVE  /\ w[n].seq = n
                      /\ w[n].prev = IF n = 1 THEN Genesis ELSE w[n - 1].hash
    BY DEF Chained, w
  <1>2. CASE n \in 1..Len(v)
    <2>1. v[n].seq = n /\ v[n].prev = IF n = 1 THEN Genesis ELSE v[n - 1].hash
      BY <1>1, <1>2 DEF Chained
    <2>2. n # 1 => w[n - 1] = v[n - 1]
      BY <1>1, <1>2
    <2> QED BY <1>1, <1>2, <2>1, <2>2
  <1>3. CASE n = Len(v) + 1
    <2>1. n # 1 => w[n - 1] = Last(v) /\ v # <<>>
      BY <1>1, <1>3 DEF Last
    <2>2. n = 1 => v = <<>>
      BY <1>1, <1>3
    <2> QED BY <1>1, <1>3, <2>1, <2>2
  <1> QED BY <1>1, <1>2, <1>3

(* Whether entries chain depends on three of their fields only.            *)
LEMMA ChainedSame ==
  ASSUME NEW v, NEW w, DOMAIN v = DOMAIN w, Chained(v),
         DOMAIN v \subseteq Int,
         \A n \in DOMAIN v : n # 1 => n - 1 \in DOMAIN v,
         \A n \in DOMAIN v : /\ w[n].seq = v[n].seq
                             /\ w[n].prev = v[n].prev
                             /\ w[n].hash = v[n].hash
  PROVE  Chained(w)
  BY DEF Chained

(* The last entry of a chain has the number of its length.                 *)
LEMMA ChainedLast ==
  ASSUME NEW S, NEW v \in Seq(S), Chained(v), v # <<>>
  PROVE  Last(v).seq = Len(v)
  <1>1. Len(v) \in DOMAIN v
    BY LenProperties, EmptySeq
  <1> QED BY <1>1 DEF Chained, Last

(***************************************************************************)
(* The inductive invariant.                                                *)
(***************************************************************************)
ControlOK ==
  /\ period \in [Periods -> PeriodStatuses]
  /\ today \in 1..MaxDay
  /\ ledgerLock \in Txs \cup {NoTx}
  /\ locks \in [Txs -> SUBSET DocRows]
  /\ ProgramOK
  /\ \A t \in Txs : ProgressOK(t)
LedgerTyped ==
  \E S : /\ \A e \in S : EntryOK(e)
         /\ journal \in Seq(S)
         /\ pending \in [Txs -> Seq(S)]
Chains ==
  /\ ChainIntact
  /\ \A t \in Txs : Chained(Visible(t))

ChainInv == ControlOK /\ LedgerTyped /\ TailIsFresh /\ Chains

LEMMA ChainInvType == ChainInv => TypeOK
  <1> SUFFICES ASSUME ChainInv PROVE TypeOK
    OBVIOUS
  <1>1. PICK S : /\ \A e \in S : EntryOK(e)
                 /\ journal \in Seq(S) /\ pending \in [Txs -> Seq(S)]
    BY DEF ChainInv, LedgerTyped
  <1>2. Range(journal) \subseteq S
    BY <1>1, RangeOfSeq
  <1>3. \A t \in Txs : Range(pending[t]) \subseteq S
    BY <1>1, RangeOfSeq
  <1> QED BY <1>1, <1>2, <1>3 DEF ChainInv, ControlOK, TypeOK

LEMMA InitChain == Init => ChainInv
  <1> SUFFICES ASSUME Init PROVE ChainInv
    OBVIOUS
  <1>1. \A t \in Txs : Visible(t) = <<>>
    BY DEF Init, Visible
  <1>2. Chained(<<>>)
    BY DEF Chained
  <1>3. ControlOK
    <2>1. ProgramOK
      BY LedgerAssumption DEF Init, ProgramOK
    <2>2. \A t \in Txs : ProgressOK(t)
      BY DEF Init, ProgressOK, NoTail
    <2> QED BY <2>1, <2>2, LedgerAssumption DEF Init, ControlOK, PeriodStatuses
  <1>4. LedgerTyped
    <2>1. journal \in Seq({}) /\ pending \in [Txs -> Seq({})]
      BY EmptySeq DEF Init
    <2> QED BY <2>1 DEF LedgerTyped
  <1>5. TailIsFresh
    BY DEF Init, TailIsFresh, OneWriter
  <1>6. Chains
    BY <1>1, <1>2 DEF Init, ChainIntact, Chains
  <1> QED BY <1>3, <1>4, <1>5, <1>6 DEF ChainInv

(***************************************************************************)
(* The control of a transaction.                                           *)
(***************************************************************************)
LEMMA StepType ==
  ASSUME ControlOK, NEW t \in Txs, at[t] <= Len(request[t])
  PROVE  StepOf(t) \in LockStep \cup PostStep
  <1>1. request[t] \in Seq(LockStep \cup PostStep) /\ at[t] \in Nat \ {0}
    BY LedgerAssumption DEF ControlOK, ProgramOK
  <1>2. at[t] \in 1..Len(request[t])
    BY <1>1
  <1> QED BY <1>1, <1>2, ElementOfSeq DEF StepOf

(* A transaction that only moves on, and not into postJournalEntry, leaves *)
(* the others where they are.                                              *)
LEMMA GotoControl ==
  ASSUME ControlOK, NEW t \in Txs, NEW label \in {"idle"} \cup Active \cup Ended,
         Goto(t, label), UNCHANGED local,
         label \in {"wait", "read", "insert"} =>
           at[t] <= Len(request[t]) /\ StepOf(t) \in PostStep
  PROVE  ProgramOK' /\ \A u \in Txs : ProgressOK(u)'
  <1>1. ProgramOK'
    BY DEF ControlOK, ProgramOK, Goto, local
  <1>2. ASSUME NEW u \in Txs PROVE ProgressOK(u)'
    <2>1. StepOf(u)' = StepOf(u) /\ request' = request /\ at' = at /\ tail' = tail
      BY DEF local, StepOf
    <2>2. pc'[u] = IF u = t THEN label ELSE pc[u]
      BY DEF Goto, ControlOK, ProgramOK
    <2>3. ProgressOK(u)
      BY DEF ControlOK
    <2> QED BY <2>1, <2>2, <2>3 DEF ProgressOK
  <1> QED BY <1>1, <1>2

LEMMA ReleaseControl ==
  ASSUME ControlOK, NEW t \in Txs, Release(t)
  PROVE  /\ ledgerLock' \in Txs \cup {NoTx}
         /\ locks' \in [Txs -> SUBSET DocRows]
  BY DEF ControlOK, Release

LEMMA AbortControl ==
  ASSUME ControlOK, NEW t \in Txs, NEW why \in Ended, Abort(t, why)
  PROVE  ControlOK'
  <1>1. Goto(t, why) /\ Release(t) /\ UNCHANGED local /\ UNCHANGED <<period, today>>
    BY DEF Abort
  <1>2. ProgramOK' /\ \A u \in Txs : ProgressOK(u)'
    BY <1>1, GotoControl DEF Ended, Active
  <1> QED BY <1>1, <1>2, ReleaseControl DEF ControlOK

LEMMA BeginControl ==
  ASSUME ControlOK, NEW t \in Txs, Begin(t)
  PROVE  ControlOK'
  <1>1. ProgramOK' /\ \A u \in Txs : ProgressOK(u)'
    BY GotoControl DEF Begin, Active
  <1> QED BY <1>1 DEF Begin, ControlOK, writes

LEMMA LockRowControl ==
  ASSUME ControlOK, NEW t \in Txs, LockRow(t)
  PROVE  ControlOK'
  <1>1. StepOf(t) \in LockStep \cup PostStep /\ StepOf(t).op = "lock"
    BY StepType DEF LockRow, AtLock
  <1>2. StepOf(t).row \in DocRows
    BY <1>1 DEF LockStep, PostStep
  <1>3. locks' \in [Txs -> SUBSET DocRows]
    BY <1>2 DEF LockRow, ControlOK
  <1>4. ProgramOK'
    BY DEF LockRow, ControlOK, ProgramOK
  <1>5. ASSUME NEW u \in Txs PROVE ProgressOK(u)'
    <2>1. pc' = pc /\ request' = request /\ tail' = tail
      BY DEF LockRow
    <2>2. CASE u = t
      BY <2>1, <2>2 DEF LockRow, AtLock, ProgressOK, ControlOK
    <2>3. CASE u # t
      <3>1. at'[u] = at[u] /\ StepOf(u)' = StepOf(u)
        BY <2>1, <2>3 DEF LockRow, StepOf, ControlOK, ProgramOK
      <3> QED BY <2>1, <3>1 DEF ControlOK, ProgressOK
    <2> QED BY <2>2, <2>3
  <1> QED BY <1>3, <1>4, <1>5 DEF LockRow, ControlOK

LEMMA ValidateControl ==
  ASSUME ControlOK, NEW t \in Txs, Validate(t)
  PROVE  ControlOK'
  <1>1. StepOf(t) \in PostStep /\ at[t] <= Len(request[t])
    BY StepType DEF Validate, AtPost, LockStep
  <1>2. ProgramOK'
    BY DEF Validate, Goto, ControlOK, ProgramOK, Active
  <1>3. ASSUME NEW u \in Txs PROVE ProgressOK(u)'
    <2>1. StepOf(u)' = StepOf(u) /\ request' = request /\ at' = at /\ tail' = tail
      BY DEF Validate, StepOf
    <2>2. pc'[u] = IF u = t THEN "wait" ELSE pc[u]
      BY DEF Validate, Goto, ControlOK, ProgramOK
    <2> QED BY <1>1, <2>1, <2>2 DEF ControlOK, ProgressOK
  <1> QED BY <1>2, <1>3 DEF Validate, ControlOK, writes

LEMMA TakeLockControl ==
  ASSUME ControlOK, NEW t \in Txs, TakeLock(t)
  PROVE  ControlOK'
  <1>1. ProgressOK(t)
    BY DEF ControlOK
  <1>2. ProgramOK' /\ \A u \in Txs : ProgressOK(u)'
    BY <1>1, GotoControl DEF TakeLock, ProgressOK, Active
  <1> QED BY <1>2 DEF TakeLock, ControlOK, writes

LEMMA InsertControl ==
  ASSUME ControlOK, NEW t \in Txs, Insert(t)
  PROVE  ControlOK'
  <1>1. ProgramOK'
    BY DEF Insert, Goto, ControlOK, ProgramOK, Active
  <1>2. ASSUME NEW u \in Txs PROVE ProgressOK(u)'
    <2>1. request' = request /\ tail' = tail
      BY DEF Insert
    <2>2. CASE u = t
      BY <2>1, <2>2 DEF Insert, Goto, ProgressOK, ControlOK, ProgramOK
    <2>3. CASE u # t
      <3>1. pc'[u] = pc[u] /\ at'[u] = at[u] /\ StepOf(u)' = StepOf(u)
        BY <2>1, <2>3 DEF Insert, Goto, StepOf, ControlOK, ProgramOK
      <3> QED BY <2>1, <3>1 DEF ControlOK, ProgressOK
    <2> QED BY <2>2, <2>3
  <1> QED BY <1>1, <1>2 DEF Insert, ControlOK

LEMMA CommitControl ==
  ASSUME ControlOK, NEW t \in Txs, Commit(t)
  PROVE  ControlOK'
  <1>1. ProgramOK' /\ \A u \in Txs : ProgressOK(u)'
    BY GotoControl DEF Commit, Ended, Active
  <1> QED BY <1>1, ReleaseControl DEF Commit, ControlOK

(* The sequence number after that of the newest visible entry.             *)
LEMMA VisibleType ==
  ASSUME ChainInv, NEW t \in Txs
  PROVE  \E S : /\ \A e \in S : EntryOK(e)
                /\ journal \in Seq(S) /\ pending[t] \in Seq(S)
                /\ Visible(t) \in Seq(S)
  <1>1. PICK S : /\ \A e \in S : EntryOK(e)
                 /\ journal \in Seq(S) /\ pending \in [Txs -> Seq(S)]
    BY DEF ChainInv, LedgerTyped
  <1>2. Visible(t) \in Seq(S)
    BY <1>1, ConcatProperties DEF Visible
  <1> QED BY <1>1, <1>2

LEMMA TailOfChain ==
  ASSUME ChainInv, NEW t \in Txs
  PROVE  /\ NextSeq(t) = Len(Visible(t)) + 1
         /\ NextSeq(t) \in Nat \ {0}
         /\ PrevHash(t) = IF Visible(t) = <<>> THEN Genesis ELSE Last(Visible(t)).hash
  <1>1. PICK S : Visible(t) \in Seq(S)
    BY VisibleType
  <1>2. Len(Visible(t)) \in Nat /\ (Visible(t) = <<>> => Len(Visible(t)) = 0)
    BY <1>1, LenProperties, EmptySeq
  <1>3. Visible(t) # <<>> => Last(Visible(t)).seq = Len(Visible(t))
    BY <1>1, ChainedLast DEF ChainInv, Chains
  <1> QED BY <1>2, <1>3 DEF NextSeq, PrevHash

LEMMA ReadTailControl ==
  ASSUME ChainInv, NEW t \in Txs, ReadTail(t)
  PROVE  ControlOK'
  <1>1. ProgramOK' /\ tail'[t].seq = NextSeq(t)
    BY DEF ReadTail, Goto, ChainInv, ControlOK, ProgramOK, Active
  <1>2. ASSUME NEW u \in Txs PROVE ProgressOK(u)'
    <2>1. StepOf(u)' = StepOf(u) /\ request' = request /\ at' = at
      BY DEF ReadTail, StepOf
    <2>2. pc'[u] = IF u = t THEN "insert" ELSE pc[u]
      BY DEF ReadTail, Goto, ChainInv, ControlOK, ProgramOK
    <2>3. u # t => tail'[u] = tail[u]
      BY DEF ReadTail, ChainInv, ControlOK, ProgramOK
    <2>4. pc[t] = "read" /\ ProgressOK(u)
      BY DEF ReadTail, ChainInv, ControlOK
    <2> QED BY <1>1, <2>1, <2>2, <2>3, <2>4, TailOfChain DEF ProgressOK
  <1> QED BY <1>1, <1>2 DEF ReadTail, ChainInv, ControlOK, writes

(***************************************************************************)
(* The chain, action by action.                                            *)
(***************************************************************************)
(* What touches neither the ledger nor the lock, nor reaches the read.     *)
LEMMA QuietChain ==
  ASSUME ChainInv, ControlOK', UNCHANGED <<journal, pending, ledgerLock>>,
         \A u \in Txs : pc'[u] \in {"read", "insert"} =>
           pc'[u] = pc[u] /\ tail'[u] = tail[u]
  PROVE  ChainInv'
  <1>1. \A u \in Txs : Visible(u)' = Visible(u)
    BY DEF Visible
  <1>2. LedgerTyped'
    BY DEF ChainInv, LedgerTyped
  <1>3. Chains'
    BY <1>1 DEF ChainInv, Chains, ChainIntact
  <1>4. OneWriter'
    BY DEF ChainInv, TailIsFresh, OneWriter
  <1>5. \A u \in Txs : pc'[u] = "insert" => TailRead(u)'
    BY <1>1 DEF ChainInv, TailIsFresh, TailRead
  <1> QED BY <1>2, <1>3, <1>4, <1>5 DEF ChainInv, TailIsFresh

(* A transaction that ends without a commit leaves the chain as it was.    *)
LEMMA AbortChain ==
  ASSUME ChainInv, NEW t \in Txs, NEW why \in Ended, Abort(t, why)
  PROVE  ChainInv'
  <1>1. PICK S : /\ \A e \in S : EntryOK(e)
                 /\ journal \in Seq(S) /\ pending \in [Txs -> Seq(S)]
    BY DEF ChainInv, LedgerTyped
  <1>2. /\ journal' = journal
        /\ pending' \in [Txs -> Seq(S)]
        /\ pending'[t] = <<>>
        /\ \A u \in Txs : u # t => pending'[u] = pending[u]
    BY <1>1, EmptySeq DEF Abort, Release
  <1>3. LedgerTyped'
    BY <1>1, <1>2 DEF LedgerTyped
  <1>4. ControlOK'
    BY AbortControl DEF ChainInv
  <1>5. /\ \A u \in Txs : u # t => Visible(u)' = Visible(u)
        /\ Visible(t)' = journal
    BY <1>1, <1>2, ConcatEmptySeq DEF Visible
  <1>6. Chains'
    BY <1>2, <1>5 DEF ChainInv, Chains, ChainIntact
  <1>7. /\ \A u \in Txs : u # t => pc'[u] = pc[u] /\ tail'[u] = tail[u]
        /\ pc'[t] = why
    BY DEF Abort, Goto, local, ChainInv, ControlOK, ProgramOK
  <1>8. OneWriter'
    <2>1. \A u \in Txs : u # t /\ ledgerLock = u => ledgerLock' = u
      BY DEF Abort, Release
    <2> QED BY <1>2, <1>7, <2>1 DEF ChainInv, TailIsFresh, OneWriter, Ended
  <1>9. \A u \in Txs : pc'[u] = "insert" => TailRead(u)'
    BY <1>5, <1>7 DEF ChainInv, TailIsFresh, TailRead, Ended
  <1> QED BY <1>3, <1>4, <1>6, <1>8, <1>9 DEF ChainInv, TailIsFresh

(* Who holds the lock is alone.                                            *)
LEMMA Alone ==
  ASSUME ChainInv, NEW t \in Txs, ledgerLock \in {NoTx, t},
         NEW u \in Txs, u # t
  PROVE  pc[u] \notin {"read", "insert"} /\ pending[u] = <<>>
  BY LedgerAssumption DEF ChainInv, TailIsFresh, OneWriter

LEMMA TakeLockChain ==
  ASSUME ChainInv, NEW t \in Txs, TakeLock(t)
  PROVE  ChainInv'
  <1>1. ControlOK'
    BY TakeLockControl DEF ChainInv
  <1>2. \A u \in Txs : Visible(u)' = Visible(u)
    BY DEF Visible, TakeLock, writes
  <1>3. LedgerTyped' /\ Chains'
    BY <1>2 DEF ChainInv, LedgerTyped, Chains, ChainIntact, TakeLock, writes
  <1>4. \A u \in Txs : pc'[u] = IF u = t THEN "read" ELSE pc[u]
    BY DEF TakeLock, Goto, ChainInv, ControlOK, ProgramOK
  <1>5. OneWriter'
    BY <1>4, Alone DEF TakeLock, LedgerFree, writes, OneWriter
  <1>6. \A u \in Txs : pc'[u] = "insert" => TailRead(u)'
    BY <1>2, <1>4 DEF ChainInv, TailIsFresh, TailRead, TakeLock, local
  <1> QED BY <1>1, <1>3, <1>5, <1>6 DEF ChainInv, TailIsFresh

LEMMA ReadTailChain ==
  ASSUME ChainInv, NEW t \in Txs, ReadTail(t)
  PROVE  ChainInv'
  <1>1. ControlOK'
    BY ReadTailControl
  <1>2. \A u \in Txs : Visible(u)' = Visible(u)
    BY DEF Visible, ReadTail, writes
  <1>3. LedgerTyped' /\ Chains'
    BY <1>2 DEF ChainInv, LedgerTyped, Chains, ChainIntact, ReadTail, writes
  <1>4. \A u \in Txs : pc'[u] = IF u = t THEN "insert" ELSE pc[u]
    BY DEF ReadTail, Goto, ChainInv, ControlOK, ProgramOK
  <1>5. OneWriter'
    BY <1>4 DEF ReadTail, writes, ChainInv, TailIsFresh, OneWriter
  <1>6. TailRead(t)'
    <2>1. tail'[t].seq = NextSeq(t) /\ tail'[t].prev = PrevHash(t)
      BY DEF ReadTail, ChainInv, ControlOK, ProgramOK
    <2> QED BY <1>2, <2>1, TailOfChain DEF TailRead
  <1>7. ASSUME NEW u \in Txs, u # t, pc'[u] = "insert" PROVE TailRead(u)'
    <2>1. tail'[u] = tail[u]
      BY <1>7 DEF ReadTail, ChainInv, ControlOK, ProgramOK
    <2> QED BY <1>2, <1>4, <1>7, <2>1 DEF ChainInv, TailIsFresh, TailRead
  <1> QED BY <1>1, <1>3, <1>5, <1>6, <1>7 DEF ChainInv, TailIsFresh

LEMMA NewEntryType ==
  ASSUME ControlOK, NEW t \in Txs, pc[t] = "insert"
  PROVE  EntryOK(NewEntry(t))
  <1>1. StepOf(t) \in PostStep /\ tail[t].seq \in Nat \ {0}
    BY DEF ControlOK, ProgressOK
  <1>2. StepOf(t).period \in Periods \cup {NoPeriod} /\ StepOf(t).lines \in Seq(Line)
    BY <1>1 DEF PostStep
  <1> QED BY <1>1, <1>2 DEF EntryOK, NewEntry

(* The new entry extends the chain its transaction sees.                   *)
LEMMA InsertChain ==
  ASSUME ChainInv, NEW t \in Txs, Insert(t)
  PROVE  ChainInv'
  <1> DEFINE e == NewEntry(t)
  <1>1. PICK S : /\ \A x \in S : EntryOK(x)
                 /\ journal \in Seq(S) /\ pending \in [Txs -> Seq(S)]
    BY DEF ChainInv, LedgerTyped
  <1>2. pc[t] = "insert" /\ EntryOK(e)
    BY NewEntryType DEF Insert, ChainInv
  <1> DEFINE T == S \cup {e}
  <1>3. /\ \A x \in T : EntryOK(x)
        /\ e \in T /\ journal \in Seq(T)
        /\ \A u \in Txs : pending[u] \in Seq(T)
    BY <1>1, <1>2, SeqMonotonic
  <1>4. e.seq = tail[t].seq /\ e.prev = tail[t].prev
    BY DEF NewEntry
  <1> HIDE DEF e
  <1>5. /\ journal' = journal
        /\ pending' = [pending EXCEPT ![t] = Append(pending[t], e)]
    BY DEF Insert, e
  <1> HIDE DEF T
  <1>6. /\ pending'[t] = Append(pending[t], e)
        /\ \A u \in Txs : u # t => pending'[u] = pending[u]
        /\ Append(pending[t], e) \in Seq(T)
        /\ pending' \in [Txs -> Seq(T)]
    BY <1>1, <1>3, <1>5, AppendProperties
  <1>7. LedgerTyped'
    BY <1>3, <1>5, <1>6 DEF LedgerTyped
  <1>8. Visible(t)' = Append(Visible(t), e)
    <2>1. journal' = journal /\ pending'[t] = Append(pending[t], e)
      BY <1>5, <1>6
    <2>2. journal \o Append(pending[t], e) = Append(journal \o pending[t], e)
      BY <1>3, ConcatAppend
    <2> QED BY <2>1, <2>2 DEF Visible
  <1>9. Chained(Visible(t)')
    <2>1. Visible(t) \in Seq(T)
      BY <1>3, ConcatProperties DEF Visible
    <2>2. TailRead(t) /\ Chained(Visible(t))
      BY <1>2 DEF ChainInv, TailIsFresh, Chains
    <2> QED BY <1>3, <1>4, <1>8, <2>1, <2>2, ChainedAppend DEF TailRead
  <1>10. Chains'
    <2>1. \A u \in Txs : u # t => Visible(u)' = Visible(u)
      BY <1>5, <1>6 DEF Visible
    <2> QED BY <1>5, <1>9, <2>1 DEF ChainInv, Chains, ChainIntact
  <1>11. \A u \in Txs : pc'[u] = IF u = t THEN "step" ELSE pc[u]
    BY DEF Insert, Goto, ChainInv, ControlOK, ProgramOK
  <1>12. ledgerLock = t /\ ledgerLock' = ledgerLock
    BY <1>2 DEF Insert, ChainInv, TailIsFresh, OneWriter
  <1>13. OneWriter'
    BY <1>6, <1>11, <1>12 DEF ChainInv, TailIsFresh, OneWriter
  <1>14. \A u \in Txs : pc'[u] # "insert"
    BY <1>11, <1>12, Alone
  <1>15. ControlOK'
    BY InsertControl DEF ChainInv
  <1> QED BY <1>7, <1>10, <1>13, <1>14, <1>15 DEF ChainInv, TailIsFresh

(* The committed ledger becomes the chain the transaction saw.             *)
LEMMA CommitChain ==
  ASSUME ChainInv, NEW t \in Txs, Commit(t)
  PROVE  ChainInv'
  <1>1. PICK S : /\ \A e \in S : EntryOK(e)
                 /\ journal \in Seq(S) /\ pending \in [Txs -> Seq(S)]
    BY DEF ChainInv, LedgerTyped
  <1>2. /\ journal' = Visible(t)
        /\ pending' \in [Txs -> Seq(S)]
        /\ pending'[t] = <<>>
        /\ \A u \in Txs : u # t => pending'[u] = pending[u]
        /\ Visible(t) \in Seq(S)
    BY <1>1, EmptySeq, ConcatProperties DEF Commit, Release, Visible
  <1>3. ControlOK'
    BY CommitControl DEF ChainInv
  <1>4. LedgerTyped'
    BY <1>1, <1>2 DEF LedgerTyped
  <1>5. /\ \A u \in Txs : u # t => pc'[u] = pc[u] /\ tail'[u] = tail[u]
        /\ pc'[t] = "done"
    BY DEF Commit, Goto, local, ChainInv, ControlOK, ProgramOK
  <1>6. OneWriter'
    <2>1. \A u \in Txs : u # t /\ ledgerLock = u => ledgerLock' = u
      BY DEF Commit, Release
    <2> QED BY <1>2, <1>5, <2>1 DEF ChainInv, TailIsFresh, OneWriter
  <1>7. Visible(t)' = Visible(t)
    BY <1>1, <1>2, ConcatEmptySeq DEF Visible
  <1>8. CASE pending[t] = <<>>
    <2>1. journal' = journal
      BY <1>1, <1>2, <1>8, ConcatEmptySeq DEF Visible
    <2>2. \A u \in Txs : Visible(u)' = Visible(u)
      BY <1>2, <1>7, <2>1 DEF Visible
    <2>3. Chains'
      BY <2>1, <2>2 DEF ChainInv, Chains, ChainIntact
    <2>4. \A u \in Txs : pc'[u] = "insert" => TailRead(u)'
      BY <1>5, <2>2 DEF ChainInv, TailIsFresh, TailRead
    <2> QED BY <1>3, <1>4, <1>6, <2>3, <2>4 DEF ChainInv, TailIsFresh
  <1>9. CASE pending[t] # <<>>
    <2>1. ledgerLock = t
      BY <1>9 DEF ChainInv, TailIsFresh, OneWriter
    <2>2. \A u \in Txs : u # t => pc[u] # "insert" /\ pending[u] = <<>>
      BY <2>1, Alone
    <2>3. \A u \in Txs : Visible(u)' = Visible(t)
      BY <1>1, <1>2, <1>7, <2>2, ConcatEmptySeq DEF Visible
    <2>4. Chains'
      BY <1>2, <2>3 DEF ChainInv, Chains, ChainIntact
    <2> QED BY <1>3, <1>4, <1>5, <1>6, <2>2, <2>4 DEF ChainInv, TailIsFresh
  <1> QED BY <1>8, <1>9

(* Reconciliation permutes the lines of an entry.                          *)
LEMMA MoveToEndType ==
  ASSUME NEW S, NEW lines \in Seq(S), NEW i \in DOMAIN lines
  PROVE  MoveToEnd(lines, i) \in Seq(S)
  <1>1. i \in 1..Len(lines) /\ Len(lines) \in Nat /\ lines[i] \in S
    BY LenProperties, ElementOfSeq
  <1>2. SubSeq(lines, 1, i - 1) \in Seq(S)
    BY <1>1, SubSeqProperties, ElementOfSeq
  <1>3. SubSeq(lines, i + 1, Len(lines)) \in Seq(S)
    BY <1>1, SubSeqProperties, ElementOfSeq
  <1>4. RemoveAt(lines, i) \in Seq(S)
    BY <1>2, <1>3, ConcatProperties DEF RemoveAt
  <1> QED BY <1>1, <1>4, AppendProperties DEF MoveToEnd

LEMMA ReconcileChain ==
  ASSUME ChainInv, NEW n \in DOMAIN journal, NEW i \in DOMAIN journal[n].lines,
         Reconcile(n, i)
  PROVE  ChainInv'
  <1> DEFINE old == journal[n]
             new == [old EXCEPT !.lines = MoveToEnd(old.lines, i)]
  <1>1. PICK S : /\ \A e \in S : EntryOK(e)
                 /\ journal \in Seq(S) /\ pending \in [Txs -> Seq(S)]
    BY DEF ChainInv, LedgerTyped
  <1>2. /\ DOMAIN journal = 1..Len(journal) /\ Len(journal) \in Nat
        /\ n \in 1..Len(journal) /\ old \in S /\ EntryOK(old)
    BY <1>1, LenProperties, ElementOfSeq
  <1>3. MoveToEnd(old.lines, i) \in Seq(Line)
    BY <1>2, MoveToEndType DEF EntryOK
  <1>4. /\ EntryOK(new)
        /\ new.seq = old.seq /\ new.prev = old.prev /\ new.hash = old.hash
    <2>1. new = [seq |-> old.seq, number |-> old.number, prev |-> old.prev,
                 period |-> old.period, lines |-> MoveToEnd(old.lines, i),
                 hash |-> old.hash]
      BY <1>2 DEF EntryOK
    <2> HIDE DEF new
    <2> QED BY <1>2, <1>3, <2>1 DEF EntryOK
  <1>5. journal' = [journal EXCEPT ![n] = new]
    BY DEF Reconcile
  <1> HIDE DEF old, new
  <1> DEFINE T == S \cup {new}
  <1>6. /\ \A e \in T : EntryOK(e)
        /\ new \in T /\ journal \in Seq(T)
        /\ \A u \in Txs : pending[u] \in Seq(T)
        /\ pending \in [Txs -> Seq(T)]
    BY <1>1, <1>4, SeqMonotonic
  <1> HIDE DEF T
  <1>7. /\ journal' \in Seq(T) /\ Len(journal') = Len(journal)
        /\ \A m \in 1..Len(journal) : journal'[m] = IF m = n THEN new ELSE journal[m]
    BY <1>2, <1>5, <1>6, ExceptSeq
  <1>8. pending' = pending /\ UNCHANGED <<ledgerLock, pc, local>>
    BY DEF Reconcile, writes
  <1>9. LedgerTyped'
    BY <1>6, <1>7, <1>8 DEF LedgerTyped
  <1>10. ControlOK'
    <2>1. \A u \in Txs : ProgressOK(u)'
      BY <1>8 DEF local, StepOf, ProgressOK, ChainInv, ControlOK
    <2> QED BY <1>8, <2>1 DEF Reconcile, writes, local, ControlOK, ProgramOK, ChainInv
  <1>11. ASSUME NEW p \in Seq(T)
         PROVE  LET v == journal \o p  w == journal' \o p IN
                /\ Chained(v) => Chained(w)
                /\ Len(w) = Len(v) /\ (w = <<>> <=> v = <<>>)
                /\ v # <<>> => Last(w).hash = Last(v).hash
    <2> DEFINE v == journal \o p
               w == journal' \o p
    <2>1. /\ v \in Seq(T) /\ w \in Seq(T)
          /\ Len(v) = Len(journal) + Len(p) /\ Len(w) = Len(v)
          /\ \A m \in 1..Len(v) :
               /\ v[m] = IF m <= Len(journal) THEN journal[m] ELSE p[m - Len(journal)]
               /\ w[m] = IF m <= Len(journal) THEN journal'[m] ELSE p[m - Len(journal)]
      <3>1. /\ v \in Seq(T) /\ Len(v) = Len(journal) + Len(p)
            /\ \A m \in 1..(Len(journal) + Len(p)) :
                 v[m] = IF m <= Len(journal) THEN journal[m] ELSE p[m - Len(journal)]
        BY <1>6, ConcatProperties
      <3>2. /\ w \in Seq(T) /\ Len(w) = Len(journal') + Len(p)
            /\ \A m \in 1..(Len(journal') + Len(p)) :
                 w[m] = IF m <= Len(journal') THEN journal'[m] ELSE p[m - Len(journal')]
        BY <1>7, ConcatProperties
      <3> HIDE DEF v, w
      <3>3. Len(journal') = Len(journal)
        BY <1>7
      <3> QED BY <3>1, <3>2, <3>3
    <2>2. /\ Len(v) \in Nat /\ Len(p) \in Nat
          /\ DOMAIN v = 1..Len(v) /\ DOMAIN w = 1..Len(v)
          /\ (v = <<>> <=> Len(v) = 0) /\ (w = <<>> <=> Len(v) = 0)
      BY <2>1, LenProperties, EmptySeq
    <2> HIDE DEF v, w
    <2>3. \A m \in 1..Len(v) :
            w[m].seq = v[m].seq /\ w[m].prev = v[m].prev /\ w[m].hash = v[m].hash
      <3> SUFFICES ASSUME NEW m \in 1..Len(v)
                   PROVE  w[m].seq = v[m].seq /\ w[m].prev = v[m].prev /\ w[m].hash = v[m].hash
        OBVIOUS
      <3>1. CASE m = n
        BY <1>2, <1>4, <1>7, <2>1, <3>1 DEF old
      <3>2. CASE m # n
        <4>1. w[m] = v[m]
          BY <1>2, <1>7, <2>1, <2>2, <3>2
        <4> QED BY <4>1
      <3> QED BY <3>1, <3>2
    <2>4. Chained(v) => Chained(w)
      BY <2>2, <2>3, ChainedSame
    <2>5. v # <<>> => Last(w).hash = Last(v).hash
      BY <2>1, <2>2, <2>3 DEF Last
    <2> QED BY <2>1, <2>2, <2>4, <2>5 DEF v, w
  <1>12. Chains'
    <2>1. \A u \in Txs : Chained(Visible(u)')
      BY <1>6, <1>8, <1>11 DEF Visible, ChainInv, Chains
    <2>2. journal \o <<>> = journal /\ journal' \o <<>> = journal' /\ <<>> \in Seq(T)
      BY <1>6, <1>7, ConcatEmptySeq, EmptySeq
    <2>3. Chained(journal')
      BY <1>11, <2>2 DEF ChainInv, Chains, ChainIntact
    <2> QED BY <2>1, <2>3 DEF Chains, ChainIntact
  <1>13. OneWriter'
    BY <1>8 DEF ChainInv, TailIsFresh, OneWriter
  <1>14. ASSUME NEW u \in Txs, pc'[u] = "insert" PROVE TailRead(u)'
    <2>1. TailRead(u) /\ tail'[u] = tail[u]
      BY <1>8, <1>14 DEF ChainInv, TailIsFresh, local
    <2>2. /\ Len(Visible(u)') = Len(Visible(u)) /\ (Visible(u)' = <<>> <=> Visible(u) = <<>>)
          /\ Visible(u) # <<>> => Last(Visible(u)').hash = Last(Visible(u)).hash
      BY <1>6, <1>8, <1>11 DEF Visible
    <2> QED BY <2>1, <2>2 DEF TailRead
  <1> QED BY <1>9, <1>10, <1>12, <1>13, <1>14 DEF ChainInv, TailIsFresh

(***************************************************************************)
(* The theorems.                                                           *)
(***************************************************************************)
LEMMA StutterChain == ChainInv /\ UNCHANGED vars => ChainInv'
  <1> SUFFICES ASSUME ChainInv, UNCHANGED vars PROVE ChainInv'
    OBVIOUS
  <1>1. UNCHANGED <<period, today, journal, ledgerLock, pc, local, writes>>
    BY DEF vars
  <1>2. \A u \in Txs : ProgressOK(u)'
    BY <1>1 DEF local, StepOf, ProgressOK, ChainInv, ControlOK
  <1>3. ControlOK'
    BY <1>1, <1>2 DEF local, writes, ChainInv, ControlOK, ProgramOK
  <1> QED BY <1>1, <1>3, QuietChain DEF local, writes

LEMMA NextChain == ChainInv /\ [Next]_vars => ChainInv'
  <1> SUFFICES ASSUME ChainInv, Next PROVE ChainInv'
    BY StutterChain
  <1>1. ASSUME NEW t \in Txs, Begin(t) \/ LockRow(t) \/ Validate(t) PROVE ChainInv'
    <2>1. ControlOK'
      BY <1>1, BeginControl, LockRowControl, ValidateControl DEF ChainInv
    <2>2. UNCHANGED <<journal, pending, ledgerLock>>
      BY <1>1 DEF Begin, LockRow, Validate, writes
    <2>3. \A u \in Txs : tail'[u] = tail[u]
      BY <1>1 DEF Begin, LockRow, Validate, local
    <2>4. \A u \in Txs : pc'[u] \in {"read", "insert"} => pc'[u] = pc[u]
      BY <1>1 DEF Begin, LockRow, Validate, Goto, ChainInv, ControlOK, ProgramOK
    <2> QED BY <2>1, <2>2, <2>3, <2>4, QuietChain
  <1>2. ASSUME NEW t \in Txs, TakeLock(t) \/ ReadTail(t) \/ Insert(t) \/ Commit(t)
        PROVE  ChainInv'
    BY <1>2, TakeLockChain, ReadTailChain, InsertChain, CommitChain
  <1>3. ASSUME NEW t \in Txs, Refuse(t) \/ InsertFails(t) \/ ResolveDeadlock(t) \/ Lose(t)
        PROVE  ChainInv'
    <2>1. \E why \in Ended : Abort(t, why)
      BY <1>3 DEF Refuse, InsertFails, ResolveDeadlock, Lose, Ended
    <2> QED BY <2>1, AbortChain
  <1>4. ASSUME NEW p \in Periods, NEW s \in PeriodStatuses, UpdatePeriodStatus(p, s)
        PROVE  ChainInv'
    <2>1. UNCHANGED <<today, journal, ledgerLock, pc, local, writes>>
      BY <1>4 DEF UpdatePeriodStatus
    <2>2. period' \in [Periods -> PeriodStatuses]
      BY <1>4 DEF UpdatePeriodStatus, ChainInv, ControlOK
    <2>3. \A u \in Txs : ProgressOK(u)'
      BY <2>1 DEF local, StepOf, ProgressOK, ChainInv, ControlOK
    <2>4. ControlOK'
      BY <2>1, <2>2, <2>3 DEF local, writes, ChainInv, ControlOK, ProgramOK
    <2> QED BY <2>1, <2>4, QuietChain DEF local, writes
  <1>5. ASSUME NextDay PROVE ChainInv'
    <2>1. UNCHANGED <<period, journal, ledgerLock, pc, local, writes>>
      BY <1>5 DEF NextDay
    <2>2. today' \in 1..MaxDay
      BY <1>5, LedgerAssumption DEF NextDay, ChainInv, ControlOK
    <2>3. \A u \in Txs : ProgressOK(u)'
      BY <2>1 DEF local, StepOf, ProgressOK, ChainInv, ControlOK
    <2>4. ControlOK'
      BY <2>1, <2>2, <2>3 DEF local, writes, ChainInv, ControlOK, ProgramOK
    <2> QED BY <2>1, <2>4, QuietChain DEF local, writes
  <1> QED BY <1>1, <1>2, <1>3, <1>4, <1>5, ReconcileChain DEF Next, Step

LEMMA ChainInvAlways == Spec => []ChainInv
  <1> QED BY InitChain, NextChain, PTL DEF Spec

(* Every reachable state is well typed, for every value of the constants.  *)
THEOREM Typing == Spec => []TypeOK
  BY ChainInvAlways, ChainInvType, PTL

(* What a poster read of the newest entry is still the tail of the ledger  *)
(* when it inserts, however many posters compete for the lock or die.      *)
THEOREM Fresh == Spec => []TailIsFresh
  <1>1. ChainInv => TailIsFresh
    BY DEF ChainInv
  <1> QED BY <1>1, ChainInvAlways, PTL

(* The committed journal is one hash chain numbered from 1 without a gap.  *)
THEOREM ChainHolds == Spec => []ChainIntact
  <1>1. ChainInv => ChainIntact
    BY DEF ChainInv, Chains
  <1> QED BY <1>1, ChainInvAlways, PTL
===============================================================================
