----------------------------- MODULE JournalProofs -----------------------------
(***************************************************************************)
(* What the ledger promises to who reads it, for any number of posters:    *)
(* its entry numbers run from 1 on every day without a gap, no poster      *)
(* fails on a unique index, the committed journal is a JournalBook, that   *)
(* is only ever extended and whose lines reconciliation only reorders,     *)
(* every entry balances, and its hash is that of its lines in any order.   *)
(***************************************************************************)
EXTENDS GeneralLedgerProofs, Sums, FunctionTheorems

(***************************************************************************)
(* Numbering of a sequence of entries.                                     *)
(***************************************************************************)
OfDay(v, d) == {n \in DOMAIN v : v[n].number[1] = d}
NumbersOf(v, d) == {v[n].number[2] : n \in OfDay(v, d)}
NextOf(v, d) == <<d, Cardinality(OfDay(v, d)) + 1>>
Numbered(v) ==
  /\ \A n \in DOMAIN v : v[n].number = <<v[n].number[1], v[n].number[2]>>
  /\ \A d \in 1..MaxDay : NumbersOf(v, d) = 1..Cardinality(OfDay(v, d))

LEMMA OfDayFinite ==
  ASSUME NEW S, NEW v \in Seq(S), NEW d
  PROVE  IsFiniteSet(OfDay(v, d)) /\ Cardinality(OfDay(v, d)) \in Nat
  <1>1. Len(v) \in Nat /\ OfDay(v, d) \subseteq 1..Len(v)
    BY LenProperties DEF OfDay
  <1>2. IsFiniteSet(1..Len(v))
    BY <1>1, FS_Interval
  <1>3. IsFiniteSet(OfDay(v, d))
    BY <1>1, <1>2, FS_Subset
  <1> QED BY <1>3, FS_CardinalityType

(* The day's next number keeps the numbering. *)
LEMMA NumberedAppend ==
  ASSUME NEW S, NEW v \in Seq(S), NEW e \in S, Numbered(v),
         NEW d \in 1..MaxDay, e.number = NextOf(v, d)
  PROVE  Numbered(Append(v, e))
  <1> DEFINE w == Append(v, e)
             c == Cardinality(OfDay(v, d))
  <1>1. /\ Len(v) \in Nat /\ DOMAIN v = 1..Len(v) /\ DOMAIN w = 1..(Len(v) + 1)
        /\ \A n \in 1..Len(v) : w[n] = v[n]
        /\ w[Len(v) + 1] = e
    BY AppendProperties, LenProperties
  <1>2. c \in Nat /\ IsFiniteSet(OfDay(v, d)) /\ e.number = <<d, c + 1>>
    BY OfDayFinite DEF NextOf
  <1> HIDE DEF w, c
  <1>3. /\ OfDay(w, d) = OfDay(v, d) \cup {Len(v) + 1}
        /\ Len(v) + 1 \notin OfDay(v, d)
    BY <1>1, <1>2 DEF OfDay
  <1>4. \A f \in 1..MaxDay : f # d => OfDay(w, f) = OfDay(v, f)
    BY <1>1, <1>2 DEF OfDay
  <1>5. NumbersOf(v, d) = 1..c
    BY DEF Numbered, c
  <1>6. NumbersOf(w, d) = NumbersOf(v, d) \cup {c + 1}
    <2>1. \A n \in OfDay(v, d) : w[n].number[2] = v[n].number[2]
      BY <1>1 DEF OfDay
    <2>2. w[Len(v) + 1].number[2] = c + 1
      BY <1>1, <1>2
    <2> QED BY <1>3, <2>1, <2>2 DEF NumbersOf
  <1>7. Cardinality(OfDay(w, d)) = c + 1
    BY <1>2, <1>3, FS_AddElement DEF c
  <1>8. \A f \in 1..MaxDay : f # d => NumbersOf(w, f) = NumbersOf(v, f)
    <2>1. \A f \in 1..MaxDay : \A n \in OfDay(v, f) : w[n].number[2] = v[n].number[2]
      BY <1>1 DEF OfDay
    <2> QED BY <1>4, <2>1 DEF NumbersOf
  <1>9. \A f \in 1..MaxDay : NumbersOf(w, f) = 1..Cardinality(OfDay(w, f))
    <2>1. NumbersOf(w, d) = 1..(c + 1)
      BY <1>2, <1>5, <1>6
    <2> QED BY <1>4, <1>7, <1>8, <2>1 DEF Numbered
  <1>10. \A n \in DOMAIN w : w[n].number = <<w[n].number[1], w[n].number[2]>>
    BY <1>1, <1>2 DEF Numbered
  <1> QED BY <1>9, <1>10 DEF Numbered, w

(* It depends on the numbers only. *)
LEMMA NumberedSame ==
  ASSUME NEW v, NEW w, DOMAIN w = DOMAIN v,
         \A n \in DOMAIN v : w[n].number = v[n].number
  PROVE  /\ \A d : OfDay(w, d) = OfDay(v, d)
         /\ Numbered(v) => Numbered(w)
  <1>1. \A d : OfDay(w, d) = OfDay(v, d)
    BY DEF OfDay
  <1>2. \A d : NumbersOf(w, d) = NumbersOf(v, d)
    BY <1>1 DEF NumbersOf, OfDay
  <1> QED BY <1>1, <1>2 DEF Numbered

(* The day's next number is not in use. *)
LEMMA NextOfIsFresh ==
  ASSUME NEW S, NEW v \in Seq(S), Numbered(v), NEW d \in 1..MaxDay
  PROVE  \A n \in DOMAIN v : v[n].number # NextOf(v, d)
  <1> SUFFICES ASSUME NEW n \in DOMAIN v, v[n].number = NextOf(v, d) PROVE FALSE
    OBVIOUS
  <1>1. v[n].number[1] = d /\ v[n].number[2] = Cardinality(OfDay(v, d)) + 1
    BY DEF NextOf
  <1>2. v[n].number[2] \in 1..Cardinality(OfDay(v, d))
    BY <1>1 DEF Numbered, NumbersOf, OfDay
  <1> QED BY <1>1, <1>2, OfDayFinite

(* generateEntryNumber reads the largest number of the day, and that is    *)
(* how many there are.                                                     *)
LEMMA MaxOfInterval ==
  ASSUME NEW c \in Nat
  PROVE  Max({0} \cup 1..c) = c
  <1>1. c \in {0} \cup 1..c /\ \A y \in {0} \cup 1..c : c >= y
    OBVIOUS
  <1>2. \A x \in {0} \cup 1..c : (\A y \in {0} \cup 1..c : x >= y) => x = c
    OBVIOUS
  <1> QED BY <1>1, <1>2 DEF Max

LEMMA NextNumberIsNextOf ==
  ASSUME NEW S, NEW t \in Txs, Visible(t) \in Seq(S), Numbered(Visible(t)),
         prefix[t] \in 1..MaxDay
  PROVE  NextNumber(t) = NextOf(Visible(t), prefix[t])
  <1> DEFINE v == Visible(t)
             c == Cardinality(OfDay(v, prefix[t]))
             used == {e.number[2] : e \in {x \in Range(v) : x.number[1] = prefix[t]}}
  <1>1. used = NumbersOf(v, prefix[t])
    BY DEF Range, NumbersOf, OfDay
  <1>2. used = 1..c /\ c \in Nat
    BY <1>1, OfDayFinite DEF Numbered
  <1>3. NextNumber(t) = <<prefix[t], Max({0} \cup used) + 1>>
    BY DEF NextNumber
  <1>4. Max({0} \cup used) = c
    BY <1>2, MaxOfInterval
  <1> QED BY <1>3, <1>4 DEF NextOf

-------------------------------------------------------------------------------
(***************************************************************************)
(* What each step does to the ledger that a poster sees.                   *)
(***************************************************************************)
LEMMA AbortSees ==
  ASSUME ChainInv, NEW t \in Txs, NEW why, Abort(t, why)
  PROVE  /\ journal' = journal
         /\ Visible(t)' = journal
         /\ \A u \in Txs : u # t => Visible(u)' = Visible(u)
  <1>1. PICK S : journal \in Seq(S) /\ pending \in [Txs -> Seq(S)]
    BY DEF ChainInv, LedgerTyped
  <1>2. /\ journal' = journal /\ pending'[t] = <<>>
        /\ \A u \in Txs : u # t => pending'[u] = pending[u]
    BY <1>1 DEF Abort, Release
  <1> QED BY <1>1, <1>2, ConcatEmptySeq DEF Visible

LEMMA InsertSees ==
  ASSUME ChainInv, NEW t \in Txs, Insert(t)
  PROVE  /\ journal' = journal
         /\ Visible(t)' = Append(Visible(t), NewEntry(t))
         /\ \A u \in Txs : u # t => Visible(u)' = Visible(u)
         /\ \A u \in Txs : pc'[u] # "insert"
  <1> DEFINE e == NewEntry(t)
  <1>1. PICK S : journal \in Seq(S) /\ pending \in [Txs -> Seq(S)]
    BY DEF ChainInv, LedgerTyped
  <1> DEFINE T == S \cup {e}
  <1>2. e \in T /\ journal \in Seq(T) /\ pending[t] \in Seq(T)
    BY <1>1, SeqMonotonic
  <1>3. /\ journal' = journal /\ pending' = [pending EXCEPT ![t] = Append(pending[t], e)]
    BY DEF Insert
  <1> HIDE DEF e, T
  <1>4. Visible(t)' = Append(Visible(t), e)
    <2>1. pending'[t] = Append(pending[t], e)
      BY <1>1, <1>3
    <2> QED BY <1>2, <1>3, <2>1, ConcatAppend DEF Visible
  <1>5. \A u \in Txs : u # t => Visible(u)' = Visible(u)
    BY <1>1, <1>3 DEF Visible
  <1>6. \A u \in Txs : pc'[u] # "insert"
    <2>1. ledgerLock = t
      BY DEF Insert, ChainInv, TailIsFresh, OneWriter
    <2>2. \A u \in Txs : pc'[u] = IF u = t THEN "step" ELSE pc[u]
      BY DEF Insert, Goto, ChainInv, ControlOK, ProgramOK
    <2> QED BY <2>1, <2>2, Alone
  <1> QED BY <1>3, <1>4, <1>5, <1>6 DEF e

LEMMA CommitSees ==
  ASSUME ChainInv, NEW t \in Txs, Commit(t)
  PROVE  /\ journal' = Visible(t)
         /\ \A u \in Txs : Visible(u)' \in {Visible(u), Visible(t)}
         /\ \A u \in Txs : pc'[u] = "insert" => Visible(u)' = Visible(u)
  <1>1. PICK S : journal \in Seq(S) /\ pending \in [Txs -> Seq(S)]
    BY DEF ChainInv, LedgerTyped
  <1>2. /\ journal' = Visible(t) /\ pending'[t] = <<>>
        /\ \A u \in Txs : u # t => pending'[u] = pending[u]
        /\ Visible(t) \in Seq(S)
    BY <1>1, ConcatProperties DEF Commit, Release, Visible
  <1>3. Visible(t)' = Visible(t)
    BY <1>1, <1>2, ConcatEmptySeq DEF Visible
  <1>4. \A u \in Txs : u # t => pc'[u] = pc[u]
    BY DEF Commit, Goto, ChainInv, ControlOK, ProgramOK
  <1>5. CASE pending[t] = <<>>
    <2>1. journal' = journal
      BY <1>1, <1>2, <1>5, ConcatEmptySeq DEF Visible
    <2>2. \A u \in Txs : u # t => Visible(u)' = Visible(u)
      BY <1>2, <2>1 DEF Visible
    <2> QED BY <1>2, <1>3, <2>2
  <1>6. CASE pending[t] # <<>>
    <2>1. ledgerLock = t
      BY <1>6 DEF ChainInv, TailIsFresh, OneWriter
    <2>2. \A u \in Txs : u # t => pc[u] # "insert" /\ pending[u] = <<>>
      BY <2>1, Alone
    <2>3. \A u \in Txs : u # t => Visible(u)' = Visible(t)
      BY <1>1, <1>2, <2>2, ConcatEmptySeq DEF Visible
    <2> QED BY <1>2, <1>3, <1>4, <2>2, <2>3
  <1> QED BY <1>5, <1>6

LEMMA ReconcileSees ==
  ASSUME ChainInv, NEW n \in DOMAIN journal, NEW i \in DOMAIN journal[n].lines,
         Reconcile(n, i)
  PROVE  /\ DOMAIN journal' = DOMAIN journal
         /\ \A m \in DOMAIN journal : journal'[m].number = journal[m].number
         /\ \A u \in Txs :
              /\ DOMAIN Visible(u)' = DOMAIN Visible(u)
              /\ \A m \in DOMAIN Visible(u) : Visible(u)'[m].number = Visible(u)[m].number
  <1> DEFINE new == [journal[n] EXCEPT !.lines = MoveToEnd(@, i)]
  <1>1. PICK S : /\ \A e \in S : EntryOK(e)
                 /\ journal \in Seq(S) /\ pending \in [Txs -> Seq(S)]
    BY DEF ChainInv, LedgerTyped
  <1>2. n \in 1..Len(journal) /\ DOMAIN journal = 1..Len(journal) /\ EntryOK(journal[n])
    BY <1>1, LenProperties, ElementOfSeq
  <1>3. new.number = journal[n].number
    BY <1>2 DEF EntryOK
  <1>4. journal' = [journal EXCEPT ![n] = new] /\ pending' = pending
    BY DEF Reconcile, writes
  <1> HIDE DEF new
  <1> DEFINE T == S \cup {new}
  <1>5. new \in T /\ journal \in Seq(T) /\ \A u \in Txs : pending[u] \in Seq(T)
    BY <1>1, SeqMonotonic
  <1> HIDE DEF T
  <1>6. /\ journal' \in Seq(T) /\ Len(journal') = Len(journal)
        /\ \A m \in 1..Len(journal) : journal'[m] = IF m = n THEN new ELSE journal[m]
    BY <1>2, <1>4, <1>5, ExceptSeq
  <1>7. \A m \in 1..Len(journal) : journal'[m].number = journal[m].number
    BY <1>3, <1>6
  <1>8. ASSUME NEW p \in Seq(T)
        PROVE  /\ DOMAIN (journal' \o p) = DOMAIN (journal \o p)
               /\ \A m \in DOMAIN (journal \o p) : (journal' \o p)[m].number = (journal \o p)[m].number
    <2> DEFINE v == journal \o p
               w == journal' \o p
               N == Len(journal) + Len(p)
    <2>1. /\ v \in Seq(T) /\ Len(v) = N
          /\ \A m \in 1..N : v[m] = IF m <= Len(journal) THEN journal[m] ELSE p[m - Len(journal)]
      BY <1>5, ConcatProperties
    <2>2. /\ w \in Seq(T) /\ Len(w) = N
          /\ \A m \in 1..N : w[m] = IF m <= Len(journal) THEN journal'[m] ELSE p[m - Len(journal)]
      <3>1. /\ w \in Seq(T) /\ Len(w) = Len(journal') + Len(p)
            /\ \A m \in 1..(Len(journal') + Len(p)) :
                 w[m] = IF m <= Len(journal') THEN journal'[m] ELSE p[m - Len(journal')]
        BY <1>6, ConcatProperties
      <3>2. Len(journal') = Len(journal)
        BY <1>6
      <3> HIDE DEF w
      <3> QED BY <3>1, <3>2
    <2>3. Len(journal) \in Nat /\ Len(p) \in Nat
      BY <1>5, LenProperties
    <2>4. DOMAIN v = 1..N /\ DOMAIN w = 1..N
      BY <2>1, <2>2, LenProperties
    <2> HIDE DEF v, w
    <2>5. ASSUME NEW m \in 1..N PROVE w[m].number = v[m].number
      <3>1. CASE m <= Len(journal)
        <4>1. m \in 1..Len(journal)
          BY <2>3, <3>1
        <4> QED BY <1>7, <2>1, <2>2, <3>1, <4>1
      <3>2. CASE ~(m <= Len(journal))
        BY <2>1, <2>2, <3>2
      <3> QED BY <3>1, <3>2
    <2> QED BY <2>4, <2>5 DEF v, w
  <1>9. DOMAIN journal' = DOMAIN journal
    BY <1>2, <1>6, LenProperties
  <1> QED BY <1>2, <1>4, <1>5, <1>7, <1>8, <1>9 DEF Visible

-------------------------------------------------------------------------------
(***************************************************************************)
(* The numbering, action by action.  The number that a poster read is that *)
(* of the day its prefix names, which may be over.                         *)
(***************************************************************************)
NumberRead(t) == \E d \in 1..MaxDay : tail[t].number = NextOf(Visible(t), d)
NumberInv ==
  /\ Numbered(journal)
  /\ \A t \in Txs : Numbered(Visible(t))
  /\ \A t \in Txs : pc[t] = "insert" => NumberRead(t)
  /\ NeverDuplicate

(* A poster about to insert clashes with no entry it sees: it has the next *)
(* sequence number and the next number of a day.                           *)
LEMMA InsertIsUnique ==
  ASSUME ChainInv, NumberInv, NEW t \in Txs, pc[t] = "insert"
  PROVE  ~Duplicate(t)
  <1>1. PICK S : Visible(t) \in Seq(S)
    BY VisibleType
  <1> DEFINE v == Visible(t)
  <1>2. DOMAIN v = 1..Len(v) /\ Len(v) \in Nat
    BY <1>1, LenProperties
  <1>3. \A n \in DOMAIN v : v[n].seq # tail[t].seq
    <2>1. \A n \in DOMAIN v : v[n].seq = n
      BY DEF ChainInv, Chains, Chained
    <2>2. tail[t].seq = Len(v) + 1
      BY DEF ChainInv, TailIsFresh, TailRead
    <2> QED BY <1>2, <2>1, <2>2
  <1>4. \A n \in DOMAIN v : v[n].number # tail[t].number
    <2>1. PICK d \in 1..MaxDay : tail[t].number = NextOf(v, d)
      BY DEF NumberInv, NumberRead
    <2> QED BY <1>1, <2>1, NextOfIsFresh DEF NumberInv
  <1> HIDE DEF v
  <1> QED BY <1>3, <1>4 DEF Duplicate, Clashes, Range, v

(* Nothing is added to what posters see, and nobody comes to an insert.    *)
LEMMA QuietNumbers ==
  ASSUME NumberInv, UNCHANGED journal, \A u \in Txs : Visible(u)' = Visible(u),
         \A u \in Txs : pc'[u] = "insert" => pc[u] = "insert" /\ tail'[u] = tail[u],
         NeverDuplicate'
  PROVE  NumberInv'
  BY DEF NumberInv, NumberRead

LEMMA AbortNumbers ==
  ASSUME ChainInv, NumberInv, NEW t \in Txs, NEW why \in Ended \ {"duplicate"}, Abort(t, why)
  PROVE  NumberInv'
  <1>1. /\ pc'[t] = why /\ \A u \in Txs : u # t => pc'[u] = pc[u]
        /\ \A u \in Txs : tail'[u] = tail[u]
    BY DEF Abort, Goto, local, ChainInv, ControlOK, ProgramOK
  <1>2. why # "insert" /\ why # "duplicate"
    BY DEF Ended
  <1>3. NeverDuplicate'
    BY <1>1, <1>2 DEF NumberInv, NeverDuplicate
  <1> QED BY <1>1, <1>2, <1>3, AbortSees DEF NumberInv, NumberRead

LEMMA ReadTailNumbers ==
  ASSUME ChainInv, NumberInv, NEW t \in Txs, ReadTail(t)
  PROVE  NumberInv'
  <1>1. UNCHANGED journal /\ \A u \in Txs : Visible(u)' = Visible(u)
    BY DEF ReadTail, writes, Visible
  <1>2. /\ \A u \in Txs : pc'[u] = IF u = t THEN "insert" ELSE pc[u]
        /\ \A u \in Txs : u # t => tail'[u] = tail[u]
        /\ tail'[t].number = NextNumber(t)
    BY DEF ReadTail, Goto, ChainInv, ControlOK, ProgramOK
  <1>3. NumberRead(t)'
    <2>1. PICK S : Visible(t) \in Seq(S)
      BY VisibleType
    <2>2. prefix[t] \in 1..MaxDay /\ Numbered(Visible(t))
      BY DEF ChainInv, ControlOK, ProgramOK, NumberInv
    <2>3. NextNumber(t) = NextOf(Visible(t), prefix[t])
      BY <2>1, <2>2, NextNumberIsNextOf
    <2> QED BY <1>1, <1>2, <2>2, <2>3 DEF NumberRead
  <1>4. NeverDuplicate'
    BY <1>2 DEF NumberInv, NeverDuplicate
  <1> QED BY <1>1, <1>2, <1>3, <1>4 DEF NumberInv, NumberRead

LEMMA InsertNumbers ==
  ASSUME ChainInv, NumberInv, NEW t \in Txs, Insert(t)
  PROVE  NumberInv'
  <1>1. PICK S : Visible(t) \in Seq(S)
    BY VisibleType
  <1> DEFINE e == NewEntry(t)
             T == S \cup {e}
  <1>2. Visible(t) \in Seq(T) /\ e \in T
    BY <1>1, SeqMonotonic
  <1>3. PICK d \in 1..MaxDay : e.number = NextOf(Visible(t), d)
    BY DEF Insert, NumberInv, NumberRead, NewEntry
  <1> HIDE DEF e, T
  <1>4. Numbered(Append(Visible(t), e))
    BY <1>2, <1>3, NumberedAppend DEF NumberInv
  <1>5. NeverDuplicate'
    BY DEF Insert, Goto, ChainInv, ControlOK, ProgramOK, NumberInv, NeverDuplicate
  <1> QED BY <1>4, <1>5, InsertSees DEF NumberInv, e

LEMMA CommitNumbers ==
  ASSUME ChainInv, NumberInv, NEW t \in Txs, Commit(t)
  PROVE  NumberInv'
  <1>1. \A u \in Txs : /\ pc'[u] = IF u = t THEN "done" ELSE pc[u]
                       /\ tail'[u] = tail[u]
    BY DEF Commit, Goto, local, ChainInv, ControlOK, ProgramOK
  <1>2. NeverDuplicate'
    BY <1>1 DEF NumberInv, NeverDuplicate
  <1>3. \A u \in Txs : Numbered(Visible(u)') /\ Numbered(journal')
    BY CommitSees DEF NumberInv
  <1>4. \A u \in Txs : pc'[u] = "insert" => NumberRead(u)'
    BY <1>1, CommitSees DEF NumberInv, NumberRead
  <1> QED BY <1>2, <1>3, <1>4 DEF NumberInv

LEMMA ReconcileNumbers ==
  ASSUME ChainInv, NumberInv, NEW n \in DOMAIN journal, NEW i \in DOMAIN journal[n].lines,
         Reconcile(n, i)
  PROVE  NumberInv'
  <1>1. UNCHANGED <<pc, tail>>
    BY DEF Reconcile, local
  <1>2. Numbered(journal') /\ \A u \in Txs : Numbered(Visible(u)')
    BY ReconcileSees, NumberedSame DEF NumberInv
  <1>3. \A u \in Txs, d \in 1..MaxDay : NextOf(Visible(u)', d) = NextOf(Visible(u), d)
    BY ReconcileSees, NumberedSame DEF NextOf
  <1>4. \A u \in Txs : pc[u] = "insert" => NumberRead(u)'
    BY <1>1, <1>3 DEF NumberInv, NumberRead
  <1> QED BY <1>1, <1>2, <1>4 DEF NumberInv, NeverDuplicate

LEMMA NumberStep ==
  ASSUME ChainInv, NumberInv, [Next]_vars
  PROVE  NumberInv'
  <1>1. ASSUME NEW t \in Txs, Begin(t) \/ LockRow(t) \/ Validate(t) \/ TakeLock(t)
        PROVE  NumberInv'
    <2>1. UNCHANGED <<journal, pending, tail>>
      BY <1>1 DEF Begin, LockRow, Validate, TakeLock, local, writes
    <2>2. \A u \in Txs : pc'[u] \in {"insert", "duplicate"} => pc'[u] = pc[u]
      BY <1>1 DEF Begin, LockRow, Validate, TakeLock, Goto, ChainInv, ControlOK, ProgramOK
    <2>3. NeverDuplicate'
      BY <2>2 DEF NumberInv, NeverDuplicate
    <2> QED BY <2>1, <2>2, <2>3, QuietNumbers DEF Visible
  <1>2. ASSUME NEW t \in Txs, Refuse(t) \/ InsertFails(t) \/ ResolveDeadlock(t) \/ Lose(t)
        PROVE  NumberInv'
    <2>1. InsertFails(t) => Abort(t, "refused")
      BY InsertIsUnique DEF InsertFails
    <2>2. \E why \in Ended \ {"duplicate"} : Abort(t, why)
      BY <1>2, <2>1 DEF Refuse, ResolveDeadlock, Lose, Ended
    <2> QED BY <2>2, AbortNumbers
  <1>3. CASE \/ \E p \in Periods, s \in PeriodStatuses : UpdatePeriodStatus(p, s)
             \/ NextDay \/ UNCHANGED vars
    <2>1. UNCHANGED <<journal, pending, pc, tail>>
      BY <1>3 DEF UpdatePeriodStatus, NextDay, vars, local, writes
    <2>2. NeverDuplicate'
      BY <2>1 DEF NumberInv, NeverDuplicate
    <2> QED BY <2>1, <2>2, QuietNumbers DEF Visible
  <1> QED BY <1>1, <1>2, <1>3, ReadTailNumbers, InsertNumbers, CommitNumbers, ReconcileNumbers
    DEF Next, Step

LEMMA NumberInvAlways == Spec => []NumberInv
  <1>1. Init => NumberInv
    <2> SUFFICES ASSUME Init PROVE NumberInv
      OBVIOUS
    <2>1. journal = <<>> /\ \A t \in Txs : Visible(t) = <<>> /\ pc[t] = "idle"
      BY DEF Init, Visible
    <2>2. \A d : OfDay(<<>>, d) = {}
      BY DEF OfDay
    <2>3. \A d : NumbersOf(<<>>, d) = {}
      BY <2>2 DEF NumbersOf
    <2>4. \A d \in 1..MaxDay : NumbersOf(<<>>, d) = 1..Cardinality(OfDay(<<>>, d))
      <3>1. Cardinality({}) = 0
        BY FS_EmptySet
      <3>2. \A d : Cardinality(OfDay(<<>>, d)) = 0
        BY <2>2, <3>1
      <3> QED BY <2>3, <3>2
    <2>5. \A n \in DOMAIN <<>> : <<>>[n].number = <<<<>>[n].number[1], <<>>[n].number[2]>>
      OBVIOUS
    <2>6. Numbered(<<>>)
      BY <2>4, <2>5 DEF Numbered
    <2> QED BY <2>1, <2>6 DEF NumberInv, NeverDuplicate
  <1>2. ChainInv /\ NumberInv /\ [Next]_vars => NumberInv'
    BY NumberStep
  <1> QED BY <1>1, <1>2, ChainInvAlways, PTL DEF Spec

(* No posting, of however many at once, fails on the unique indexes of     *)
(* sequence_number and entry_number.                                       *)
THEOREM NeverFailsOnAnIndex == Spec => []NeverDuplicate
  <1>1. NumberInv => NeverDuplicate
    BY DEF NumberInv
  <1> QED BY <1>1, NumberInvAlways, PTL

(* The entry numbers of every day are 1, 2, ... without a gap, also where  *)
(* posters abort, die, or hold a prefix of the day before.                 *)
THEOREM NumbersRunFromOne == Spec => []DayNumbersGapless
  <1>1. NumberInv => DayNumbersGapless
    BY DEF NumberInv, Numbered, NumbersOf, OfDay, DayNumbersGapless
  <1> QED BY <1>1, NumberInvAlways, PTL

-------------------------------------------------------------------------------
(***************************************************************************)
(* The refinement of the JournalBook: a commit extends the book or leaves  *)
(* it alone, and reconciliation reorders the lines of one entry.           *)
(***************************************************************************)
(* Where the line at each place of MoveToEnd(lines, i) comes from.         *)
Origin(i, j, len) == IF j < i THEN j ELSE IF j < len THEN j + 1 ELSE i

LEMMA MoveToEndPlaces ==
  ASSUME NEW S, NEW s \in Seq(S), NEW i \in DOMAIN s
  PROVE  /\ MoveToEnd(s, i) \in Seq(S)
         /\ Len(MoveToEnd(s, i)) = Len(s)
         /\ \A j \in 1..Len(s) : MoveToEnd(s, i)[j] = s[Origin(i, j, Len(s))]
  <1> DEFINE n == Len(s)
             a == SubSeq(s, 1, i - 1)
             b == SubSeq(s, i + 1, n)
             c == a \o b
  <1>1. i \in 1..n /\ n \in Nat /\ \A j \in 1..n : s[j] \in S
    BY LenProperties, ElementOfSeq
  <1>2. a \in Seq(S) /\ Len(a) = i - 1 /\ \A j \in 1..(i - 1) : a[j] = s[j]
    <2>1. \A j \in 1..(i - 1) : s[j] \in S
      BY <1>1
    <2> HIDE DEF n
    <2>2. /\ a \in Seq(S) /\ Len(a) = IF 1 <= i - 1 THEN i - 1 - 1 + 1 ELSE 0
          /\ \A j \in 1..(i - 1 - 1 + 1) : a[j] = s[1 + j - 1]
      BY <1>1, <2>1, SubSeqProperties
    <2> HIDE DEF a
    <2> QED BY <1>1, <2>2
  <1>3. b \in Seq(S) /\ Len(b) = n - i /\ \A j \in 1..(n - i) : b[j] = s[i + j]
    <2>1. \A j \in (i + 1)..n : s[j] \in S
      BY <1>1
    <2> HIDE DEF n
    <2>2. /\ b \in Seq(S) /\ Len(b) = IF i + 1 <= n THEN n - (i + 1) + 1 ELSE 0
          /\ \A j \in 1..(n - (i + 1) + 1) : b[j] = s[i + 1 + j - 1]
      BY <1>1, <2>1, SubSeqProperties
    <2> HIDE DEF b
    <2> QED BY <1>1, <2>2
  <1> HIDE DEF a, b, n
  <1>4. /\ c \in Seq(S) /\ Len(c) = n - 1
        /\ \A j \in 1..(n - 1) : c[j] = s[Origin(i, j, n)]
    <2>1. /\ c \in Seq(S) /\ Len(c) = Len(a) + Len(b)
          /\ \A j \in 1..(Len(a) + Len(b)) : c[j] = IF j <= Len(a) THEN a[j] ELSE b[j - Len(a)]
      BY <1>2, <1>3, ConcatProperties
    <2> HIDE DEF c
    <2>2. Len(a) + Len(b) = n - 1
      BY <1>1, <1>2, <1>3
    <2>3. ASSUME NEW j \in 1..(n - 1) PROVE c[j] = s[Origin(i, j, n)]
      <3>1. CASE j < i
        BY <1>1, <1>2, <2>1, <2>2, <3>1 DEF Origin
      <3>2. CASE ~(j < i)
        <4>1. j \in 1..(Len(a) + Len(b)) /\ ~(j <= Len(a)) /\ Len(a) = i - 1
          <5>1. Len(a) = i - 1 /\ i \in Int /\ j \in Int
            BY <1>1, <1>2
          <5>2. ~(j <= Len(a))
            BY <3>2, <5>1
          <5> QED BY <2>2, <5>1, <5>2
        <4>2. c[j] = b[j - (i - 1)]
          BY <2>1, <4>1
        <4>3. j - (i - 1) \in 1..(n - i)
          BY <1>1, <3>2
        <4>4. b[j - (i - 1)] = s[i + (j - (i - 1))]
          BY <1>3, <4>3
        <4>5. i + (j - (i - 1)) = j + 1
          BY <1>1
        <4> QED BY <1>1, <3>2, <4>2, <4>4, <4>5 DEF Origin
      <3> QED BY <3>1, <3>2
    <2> QED BY <2>1, <2>2, <2>3
  <1>5. MoveToEnd(s, i) = Append(c, s[i])
    BY DEF MoveToEnd, RemoveAt, a, b, c, n
  <1> HIDE DEF c
  <1>6. /\ Append(c, s[i]) \in Seq(S) /\ Len(Append(c, s[i])) = n
        /\ \A j \in 1..(n - 1) : Append(c, s[i])[j] = c[j]
        /\ Append(c, s[i])[n] = s[i]
    <2>1. /\ Append(c, s[i]) \in Seq(S) /\ Len(Append(c, s[i])) = Len(c) + 1
          /\ \A j \in 1..Len(c) : Append(c, s[i])[j] = c[j]
          /\ Append(c, s[i])[Len(c) + 1] = s[i]
      BY <1>1, <1>4, AppendProperties
    <2>2. Len(c) + 1 = n
      BY <1>1, <1>4
    <2> QED BY <1>4, <2>1, <2>2
  <1>7. ASSUME NEW j \in 1..n PROVE Append(c, s[i])[j] = s[Origin(i, j, n)]
    <2>1. CASE j = n
      <3>1. Origin(i, j, n) = i
        BY <1>1, <2>1 DEF Origin
      <3> QED BY <1>6, <2>1, <3>1
    <2>2. CASE j # n
      BY <1>1, <1>4, <1>6, <2>2
    <2> QED BY <2>1, <2>2
  <1> QED BY <1>5, <1>6, <1>7 DEF n

LEMMA OriginBijects ==
  ASSUME NEW n \in Nat, NEW i \in 1..n
  PROVE  /\ \A j \in 1..n : Origin(i, j, n) \in 1..n
         /\ \A j, k \in 1..n : Origin(i, j, n) = Origin(i, k, n) => j = k
         /\ \A q \in 1..n : \E j \in 1..n : Origin(i, j, n) = q
  <1>1. ASSUME NEW m \in 1..n
        PROVE  \/ m < i /\ Origin(i, m, n) = m
               \/ i <= m /\ m < n /\ Origin(i, m, n) = m + 1
               \/ i <= m /\ m = n /\ Origin(i, m, n) = i
    <2>1. m \in Int /\ m <= n /\ i \in Int
      OBVIOUS
    <2>2. CASE m < i
      BY <2>2 DEF Origin
    <2>3. CASE ~(m < i) /\ m < n
      BY <2>1, <2>3 DEF Origin
    <2>4. CASE ~(m < i) /\ ~(m < n)
      BY <2>1, <2>4 DEF Origin
    <2> QED BY <2>2, <2>3, <2>4
  <1>2. ASSUME NEW q \in 1..n PROVE \E j \in 1..n : Origin(i, j, n) = q
    <2> DEFINE p == IF q < i THEN q ELSE IF q = i THEN n ELSE q - 1
    <2>1. p \in 1..n /\ Origin(i, p, n) = q
      BY DEF Origin
    <2> QED BY <2>1
  <1> QED BY <1>1, <1>2

(* Each value is there as often as before.                                 *)
Moved(s, r, i, n) == \A j \in 1..n : r[j] = s[Origin(i, j, n)]
Often(s, n, x) == Cardinality({j \in 1..n : s[j] = x})

LEMMA CountMoved ==
  ASSUME NEW n \in Nat, NEW i \in 1..n, NEW s, NEW r, Moved(s, r, i, n)
  PROVE  \A x : Often(r, n, x) = Often(s, n, x)
  <1> SUFFICES ASSUME NEW x
               PROVE  Cardinality({j \in 1..n : r[j] = x}) = Cardinality({j \in 1..n : s[j] = x})
    BY DEF Often
  <1>0. \A j \in 1..n : r[j] = s[Origin(i, j, n)]
    BY DEF Moved
  <1> DEFINE P == {j \in 1..n : r[j] = x}
             Q == {j \in 1..n : s[j] = x}
             f == [j \in P |-> Origin(i, j, n)]
  <1>1. /\ \A j \in 1..n : Origin(i, j, n) \in 1..n
        /\ \A j, k \in 1..n : Origin(i, j, n) = Origin(i, k, n) => j = k
        /\ \A q \in 1..n : \E j \in 1..n : Origin(i, j, n) = q
    BY OriginBijects
  <1>2. f \in [P -> Q]
    BY <1>0, <1>1
  <1>3. \A j, k \in P : f[j] = f[k] => j = k
    <2>1. \A j \in P : f[j] = Origin(i, j, n) /\ j \in 1..n
      OBVIOUS
    <2> HIDE DEF f, P
    <2> QED BY <1>1, <2>1
  <1>4. \A q \in Q : \E j \in P : f[j] = q
    <2> SUFFICES ASSUME NEW q \in Q PROVE \E j \in P : f[j] = q
      OBVIOUS
    <2>1. PICK p \in 1..n : Origin(i, p, n) = q
      BY <1>1
    <2>2. p \in P
      BY <1>0, <2>1
    <2>3. f[p] = q
      BY <2>1, <2>2
    <2> QED BY <2>2, <2>3
  <1>5. IsFiniteSet(P)
    <2>1. IsFiniteSet(1..n)
      BY FS_Interval
    <2> QED BY <2>1, FS_Subset
  <1> HIDE DEF f
  <1>6. f \in Bijection(P, Q)
    BY <1>2, <1>3, <1>4, Fun_IsBij
  <1>7. ExistsBijection(P, Q)
    BY <1>6, Fun_ExistsBij
  <1> QED BY <1>5, <1>7, FS_Bijection

LEMMA MoveToEndSameLines ==
  ASSUME NEW S, NEW s \in Seq(S), NEW i \in DOMAIN s
  PROVE  Book!SameLines(s, MoveToEnd(s, i))
  <1> DEFINE n == Len(s)
             r == MoveToEnd(s, i)
  <1>1. /\ n \in Nat /\ i \in 1..n /\ DOMAIN s = 1..n
        /\ r \in Seq(S) /\ Len(r) = n /\ DOMAIN r = 1..n
        /\ \A j \in 1..n : r[j] = s[Origin(i, j, n)]
    BY MoveToEndPlaces, LenProperties
  <1> HIDE DEF n, r
  <1>2. ASSUME NEW x PROVE Book!Count(s, x) = Book!Count(r, x)
    <2>1. Often(r, n, x) = Often(s, n, x)
      <3>1. Moved(s, r, i, n)
        BY <1>1 DEF Moved
      <3> QED BY <1>1, <3>1, CountMoved
    <2>2. Book!Count(s, x) = Often(s, n, x) /\ Book!Count(r, x) = Often(r, n, x)
      BY <1>1 DEF Often, Book!Count, Book!Cardinality, Cardinality
    <2> QED BY <2>1, <2>2
  <1> QED BY <1>1, <1>2 DEF Book!SameLines, n, r

LEMMA CommitExtends ==
  ASSUME ChainInv, ChainIntact', NEW t \in Txs, Commit(t)
  PROVE  Book!Extend \/ UNCHANGED journal
  <1>1. PICK S : journal \in Seq(S) /\ pending \in [Txs -> Seq(S)]
    BY DEF ChainInv, LedgerTyped
  <1> DEFINE p == pending[t]
  <1>2. p \in Seq(S) /\ journal' = journal \o p
    BY <1>1 DEF Commit
  <1> HIDE DEF p
  <1>3. CASE p = <<>>
    BY <1>1, <1>2, <1>3, ConcatEmptySeq
  <1>4. CASE p # <<>>
    <2>1. Len(p) \in Nat \ {0} /\ Len(journal) \in Nat /\ DOMAIN journal = 1..Len(journal)
      BY <1>1, <1>2, <1>4, EmptySeq, LenProperties
    <2>2. /\ Len(journal') = Len(journal) + Len(p)
          /\ \A n \in 1..Len(journal) : journal'[n] = journal[n]
      BY <1>1, <1>2, <2>1, ConcatProperties
    <2>3. \A n \in DOMAIN journal' : Book!Linked(journal', n)
      BY DEF ChainIntact, Chained, Book!Linked
    <2> QED BY <2>1, <2>2, <2>3 DEF Book!Extend
  <1> QED BY <1>3, <1>4

LEMMA ReconcileReorders ==
  ASSUME ChainInv, NEW n \in DOMAIN journal, NEW i \in DOMAIN journal[n].lines,
         Reconcile(n, i)
  PROVE  Book!Reorder(n)
  <1> DEFINE new == [journal[n] EXCEPT !.lines = MoveToEnd(@, i)]
  <1>1. PICK S : (\A e \in S : EntryOK(e)) /\ journal \in Seq(S)
    BY DEF ChainInv, LedgerTyped
  <1>2. EntryOK(journal[n]) /\ journal[n].lines \in Seq(Line)
    BY <1>1, LenProperties, ElementOfSeq DEF EntryOK
  <1>3. new.lines = MoveToEnd(journal[n].lines, i)
    BY <1>2 DEF EntryOK
  <1>4. journal' = [journal EXCEPT ![n] = new]
    BY DEF Reconcile
  <1>5. journal'[n].lines = MoveToEnd(journal[n].lines, i)
    <2> HIDE DEF new
    <2> QED BY <1>3, <1>4
  <1>6. Book!SameLines(journal[n].lines, journal'[n].lines)
    BY <1>2, <1>5, MoveToEndSameLines
  <1>7. journal' = [journal EXCEPT ![n].lines = journal'[n].lines]
    BY <1>4, <1>5
  <1> QED BY <1>6, <1>7 DEF Book!Reorder

(* The committed journal is a JournalBook, whoever posts, aborts, dies or  *)
(* reconciles.                                                             *)
THEOREM ImplementsBook == Spec => AppendOnly
  <1>1. Init => Book!Init
    BY DEF Init, Book!Init
  <1>2. ChainInv /\ ChainInv' /\ [Next]_vars => [Book!Next]_journal
    <2> SUFFICES ASSUME ChainInv, ChainInv', [Next]_vars
                 PROVE  Book!Next \/ UNCHANGED journal
      OBVIOUS
    <2>1. ASSUME NEW t \in Txs, Commit(t)
          PROVE  Book!Next \/ UNCHANGED journal
      BY <2>1, CommitExtends DEF Book!Next, ChainInv, Chains
    <2>2. ASSUME NEW n \in DOMAIN journal, NEW i \in DOMAIN journal[n].lines, Reconcile(n, i)
          PROVE  Book!Next
      BY <2>2, ReconcileReorders DEF Book!Next
    <2>3. CASE \/ \E t \in Txs : \/ Begin(t) \/ LockRow(t) \/ Validate(t) \/ Refuse(t)
                                \/ TakeLock(t) \/ ReadTail(t) \/ Insert(t) \/ InsertFails(t)
                                \/ ResolveDeadlock(t) \/ Lose(t)
               \/ \E p \in Periods, s \in PeriodStatuses : UpdatePeriodStatus(p, s)
               \/ NextDay \/ UNCHANGED vars
      BY <2>3 DEF Begin, LockRow, Validate, Refuse, TakeLock, ReadTail, Insert, InsertFails,
                  ResolveDeadlock, Lose, Abort, UpdatePeriodStatus, NextDay, vars
    <2> QED BY <2>1, <2>2, <2>3 DEF Next, Step
  <1> QED BY <1>1, <1>2, ChainInvAlways, PTL DEF Spec, AppendOnly, Book!Spec

-------------------------------------------------------------------------------
(***************************************************************************)
(* Hashes.  The payload of an entry is hashed from its lines sorted, so    *)
(* that the order in which they are read does not show, where the sort     *)
(* tells them apart.                                                       *)
(***************************************************************************)
UpTo(T, i) == {j \in T : j <= i}

(* Counted from the first, the elements of T have the numbers 1, 2, ...    *)
LEMMA PlacesRun ==
  ASSUME NEW n \in Nat, NEW T \in SUBSET (1..n)
  PROVE  {Cardinality(UpTo(T, i)) : i \in T} = 1..Cardinality(T)
  <1> DEFINE Runs(m) == {Cardinality(UpTo(T, i)) : i \in UpTo(T, m)} = 1..Cardinality(UpTo(T, m))
             N == {m \in Nat : Runs(m)}
  <1>0. \A j \in T : j \in Nat /\ 1 <= j /\ j <= n
    OBVIOUS
  <1>0a. \A m, j : j \in UpTo(T, m) <=> j \in T /\ j <= m
    BY DEF UpTo
  <1>1. IsFiniteSet(T) /\ \A i : IsFiniteSet(UpTo(T, i)) /\ Cardinality(UpTo(T, i)) \in Nat
    <2>0. IsFiniteSet(1..n)
      BY FS_Interval
    <2>1. IsFiniteSet(T)
      BY <2>0, FS_Subset
    <2>2. \A i : UpTo(T, i) \subseteq T
      BY DEF UpTo
    <2> QED BY <2>1, <2>2, FS_Subset, FS_CardinalityType
  <1>2. Runs(0)
    <2>1. UpTo(T, 0) = {}
      <3>1. \A j : j \notin UpTo(T, 0)
        <4>1. \A j \in T : ~(j <= 0)
          BY <1>0
        <4> QED BY <1>0a, <4>1
      <3> QED BY <3>1
    <2>2. Cardinality(UpTo(T, 0)) = 0
      BY <2>1, FS_EmptySet
    <2> QED BY <2>1, <2>2
  <1>3. ASSUME NEW m \in Nat, Runs(m) PROVE Runs(m + 1)
    <2>1. CASE m + 1 \in T
      <3>1. UpTo(T, m + 1) = UpTo(T, m) \cup {m + 1} /\ m + 1 \notin UpTo(T, m)
        <4>1. \A j \in T : j <= m + 1 <=> j <= m \/ j = m + 1
          BY <1>0
        <4>2. \A j : j \in UpTo(T, m + 1) <=> j \in UpTo(T, m) \/ j = m + 1
          BY <1>0a, <2>1, <4>1
        <4>3. m + 1 \notin UpTo(T, m)
          BY <1>0a
        <4> QED BY <4>2, <4>3
      <3>2. Cardinality(UpTo(T, m + 1)) = Cardinality(UpTo(T, m)) + 1
        BY <1>1, <3>1, FS_AddElement
      <3>3. {Cardinality(UpTo(T, i)) : i \in UpTo(T, m + 1)} =
              {Cardinality(UpTo(T, i)) : i \in UpTo(T, m)} \cup {Cardinality(UpTo(T, m + 1))}
        BY <3>1
      <3>4. Cardinality(UpTo(T, m)) \in Nat
        BY <1>1
      <3> DEFINE c == Cardinality(UpTo(T, m))
      <3>5. 1..(c + 1) = (1..c) \cup {c + 1}
        BY <3>4
      <3> QED BY <1>3, <3>2, <3>3, <3>5
    <2>2. CASE m + 1 \notin T
      <3>1. UpTo(T, m + 1) = UpTo(T, m)
        <4>1. \A j \in T : j <= m + 1 <=> j <= m
          BY <1>0, <2>2
        <4>2. \A j : j \in UpTo(T, m + 1) <=> j \in UpTo(T, m)
          BY <1>0a, <4>1
        <4> QED BY <4>2
      <3> QED BY <1>3, <3>1
    <2> QED BY <2>1, <2>2
  <1> HIDE DEF Runs
  <1>4. N = Nat
    <2>1. N \in SUBSET Nat /\ 0 \in N /\ \A m \in N : m + 1 \in N
      BY <1>2, <1>3
    <2> HIDE DEF N
    <2> QED BY <2>1, NatSetInduction
  <1>5. Runs(n)
    BY <1>4
  <1>6. UpTo(T, n) = T
    BY <1>0 DEF UpTo
  <1> QED BY <1>5, <1>6 DEF Runs

(* What is hashed of lines that the sort tells apart: how often each is    *)
(* there.                                                                  *)
LEMMA CanonicalCounts ==
  ASSUME NEW n \in Nat, NEW lines, DOMAIN lines = 1..n, ToldApart(lines),
         NEW s, \A j \in 1..n : s[j] = InCents(lines[j])
  PROVE  Canonical(lines) = UNION {{<<k, s[i]>> : k \in 1..Often(s, n, s[i])} : i \in 1..n}
  <1> DEFINE rounded == [i \in 1..n |-> InCents(lines[i])]
             key == [i \in 1..n |-> SortKey(rounded[i])]
             T(i) == {j \in 1..n : s[j] = s[i]}
  <1>1. Canonical(lines) = {<<Place(key, i), rounded[i]>> : i \in 1..n}
    BY DEF Canonical
  <1>2. ASSUME NEW i \in 1..n
        PROVE  Place(key, i) = Cardinality(UpTo(T(i), i)) /\ rounded[i] = s[i]
    <2>1. \A j \in 1..n : rounded[j] = s[j] /\ key[j] = SortKey(s[j])
      OBVIOUS
    <2>2. \A j \in 1..n : key[j] = key[i] <=> s[j] = s[i]
      BY <2>1 DEF ToldApart
    <2>3. {j \in 1..i : key[j] = key[i]} = UpTo(T(i), i)
      <3>1. 1..i = {j \in 1..n : j <= i}
        OBVIOUS
      <3> HIDE DEF key
      <3> QED BY <2>2, <3>1 DEF UpTo
    <2> QED BY <2>1, <2>3 DEF Place
  <1>3. Canonical(lines) = {<<Cardinality(UpTo(T(i), i)), s[i]>> : i \in 1..n}
    BY <1>1, <1>2
  <1>4. ASSUME NEW i \in 1..n
        PROVE  /\ {Cardinality(UpTo(T(i), j)) : j \in T(i)} = 1..Often(s, n, s[i])
               /\ \A j \in T(i) : T(j) = T(i) /\ s[j] = s[i] /\ j \in 1..n
               /\ i \in T(i)
    <2>1. T(i) \in SUBSET (1..n) /\ Often(s, n, s[i]) = Cardinality(T(i))
      BY DEF Often
    <2>2. {Cardinality(UpTo(T(i), j)) : j \in T(i)} = 1..Cardinality(T(i))
      <3> DEFINE Ti == T(i)
      <3>1. Ti \in SUBSET (1..n)
        BY <2>1
      <3> HIDE DEF Ti
      <3>2. {Cardinality(UpTo(Ti, j)) : j \in Ti} = 1..Cardinality(Ti)
        BY <3>1, PlacesRun
      <3> QED BY <3>2 DEF Ti
    <2> QED BY <2>1, <2>2
  <1> HIDE DEF T
  <1>5. ASSUME NEW i \in 1..n
        PROVE  <<Cardinality(UpTo(T(i), i)), s[i]>> \in {<<k, s[i]>> : k \in 1..Often(s, n, s[i])}
    BY <1>4
  <1>6. ASSUME NEW i \in 1..n, NEW k \in 1..Often(s, n, s[i])
        PROVE  \E j \in 1..n : <<k, s[i]>> = <<Cardinality(UpTo(T(j), j)), s[j]>>
    <2>1. PICK j \in T(i) : Cardinality(UpTo(T(i), j)) = k
      <3>1. k \in {Cardinality(UpTo(T(i), j)) : j \in T(i)}
        BY <1>4
      <3> QED BY <3>1
    <2>2. T(j) = T(i) /\ s[j] = s[i] /\ j \in 1..n
      BY <1>4
    <2> QED BY <2>1, <2>2
  <1> DEFINE P(i) == {<<k, s[i]>> : k \in 1..Often(s, n, s[i])}
             q(i) == <<Cardinality(UpTo(T(i), i)), s[i]>>
  <1>7. \A i \in 1..n : q(i) \in P(i)
    BY <1>5
  <1>8. \A i \in 1..n : \A x \in P(i) : \E j \in 1..n : x = q(j)
    BY <1>6
  <1>9. Canonical(lines) = {q(i) : i \in 1..n}
    BY <1>3
  <1> HIDE DEF P, q
  <1>10. {q(i) : i \in 1..n} = UNION {P(i) : i \in 1..n}
    BY <1>7, <1>8
  <1> QED BY <1>9, <1>10 DEF P

LEMMA MoveKeepsApart ==
  ASSUME NEW lines \in Seq(Line), NEW i \in DOMAIN lines, ToldApart(MoveToEnd(lines, i))
  PROVE  ToldApart(lines)
  <1> DEFINE n == Len(lines)
             r == MoveToEnd(lines, i)
  <1>1. /\ n \in Nat /\ i \in 1..n /\ DOMAIN lines = 1..n /\ DOMAIN r = 1..n
        /\ \A j \in 1..n : r[j] = lines[Origin(i, j, n)]
    BY MoveToEndPlaces, LenProperties
  <1>2. \A q \in 1..n : \E j \in 1..n : Origin(i, j, n) = q
    BY <1>1, OriginBijects
  <1>3. ToldApart(r)
    OBVIOUS
  <1> HIDE DEF n, r
  <1>4. \A q \in 1..n : \E j \in 1..n : r[j] = lines[q]
    BY <1>1, <1>2
  <1>5. ASSUME NEW p \in 1..n, NEW q \in 1..n,
               SortKey(InCents(lines[p])) = SortKey(InCents(lines[q]))
        PROVE  InCents(lines[p]) = InCents(lines[q])
    <2>1. PICK j \in 1..n : r[j] = lines[p]
      BY <1>4
    <2>2. PICK k \in 1..n : r[k] = lines[q]
      BY <1>4
    <2>3. SortKey(InCents(r[j])) = SortKey(InCents(r[k])) => InCents(r[j]) = InCents(r[k])
      BY <1>1, <1>3 DEF ToldApart
    <2> QED BY <1>5, <2>1, <2>2, <2>3
  <1> QED BY <1>1, <1>5 DEF ToldApart

LEMMA MoveKeepsCanonical ==
  ASSUME NEW lines \in Seq(Line), NEW i \in DOMAIN lines, ToldApart(lines)
  PROVE  Canonical(MoveToEnd(lines, i)) = Canonical(lines)
  <1> DEFINE n == Len(lines)
             r == MoveToEnd(lines, i)
             s == [j \in 1..n |-> InCents(lines[j])]
             u == [j \in 1..n |-> InCents(r[j])]
  <1>1. /\ n \in Nat /\ i \in 1..n /\ DOMAIN lines = 1..n /\ DOMAIN r = 1..n
        /\ \A j \in 1..n : r[j] = lines[Origin(i, j, n)]
    BY MoveToEndPlaces, LenProperties
  <1>2. /\ \A j \in 1..n : Origin(i, j, n) \in 1..n
        /\ \A q \in 1..n : \E j \in 1..n : Origin(i, j, n) = q
    BY <1>1, OriginBijects
  <1> HIDE DEF n, r
  <1>3. \A j \in 1..n : u[j] = s[Origin(i, j, n)]
    BY <1>1, <1>2
  <1>4. ToldApart(r)
    BY <1>1, <1>2 DEF ToldApart
  <1>5. /\ \A j \in 1..n : s[j] = InCents(lines[j])
        /\ \A j \in 1..n : u[j] = InCents(r[j])
    OBVIOUS
  <1> HIDE DEF s, u
  <1> DEFINE A(x) == {<<k, x>> : k \in 1..Often(s, n, x)}
             B(x) == {<<k, x>> : k \in 1..Often(u, n, x)}
  <1>6. Canonical(lines) = UNION {A(s[j]) : j \in 1..n}
    BY <1>1, <1>5, CanonicalCounts
  <1>7. Canonical(r) = UNION {B(u[j]) : j \in 1..n}
    BY <1>1, <1>4, <1>5, CanonicalCounts
  <1>8. \A x : B(x) = A(x)
    <2>1. \A x : Often(u, n, x) = Often(s, n, x)
      <3>1. n \in Nat /\ i \in 1..n
        BY <1>1
      <3>2. \A j \in 1..n : u[j] = s[Origin(i, j, n)]
        BY <1>3
      <3> HIDE DEF u, s
      <3>3. Moved(s, u, i, n)
        BY <3>2 DEF Moved
      <3> QED BY <3>1, <3>3, CountMoved
    <2> QED BY <2>1
  <1> HIDE DEF A, B
  <1>9. {B(u[j]) : j \in 1..n} = {A(s[j]) : j \in 1..n}
    <2>1. \A j \in 1..n : B(u[j]) = A(s[Origin(i, j, n)])
      BY <1>3, <1>8
    <2> QED BY <1>2, <2>1
  <1> QED BY <1>6, <1>7, <1>9 DEF r

-------------------------------------------------------------------------------
(***************************************************************************)
(* Double entry.  Every entry balances in cents, as it is validated before *)
(* it waits for the lock, and it keeps its totals when its lines are       *)
(* reordered.                                                              *)
(***************************************************************************)
Sound(lines) ==
  /\ Balanced(lines)
  /\ WholeCents => \A i \in DOMAIN lines : InCentsOnly(lines[i])
(* Its hash is that of its lines, wherever the sort tells them apart.       *)
EntrySound(e) ==
  /\ Sound(e.lines)
  /\ ToldApart(e.lines) => e.hash = EntryHash(e.prev, e.seq, e.number, e.period, e.lines)
BalanceInv ==
  /\ \A t \in Txs : pc[t] \in {"wait", "read", "insert"} => Sound(StepOf(t).lines)
  /\ \A n \in DOMAIN journal : EntrySound(journal[n])
  /\ \A t \in Txs : \A n \in DOMAIN pending[t] : EntrySound(pending[t][n])

LEMMA CentsType == \A m \in Int : Cents(m) \in Int
  BY DEF Cents

LEMMA SumMoved ==
  ASSUME NEW n \in Nat, NEW i \in 1..n, NEW f, NEW g,
         \A j \in 1..n : f[j] \in Int /\ g[j] = f[Origin(i, j, n)]
  PROVE  SumFunctionOnSet(g, 1..n) = SumFunctionOnSet(f, 1..n)
  <1> DEFINE r == [j \in 1..n |-> Origin(i, j, n)]
             Im == {r[j] : j \in 1..n}
  <1>1. /\ \A j \in 1..n : r[j] \in 1..n /\ f[r[j]] = g[j] /\ g[j] \in Int
        /\ \A j, k \in 1..n : r[j] = r[k] => j = k
    BY OriginBijects
  <1>2. Im = 1..n
    <2>1. \A j \in 1..n : Origin(i, j, n) \in 1..n
      BY OriginBijects
    <2>2. \A q \in 1..n : \E j \in 1..n : Origin(i, j, n) = q
      BY OriginBijects
    <2> QED BY <2>1, <2>2
  <1> DEFINE D == 1..n
  <1>3. IsFiniteSet(D)
    BY FS_Interval
  <1>4. \A j \in D : g[j] \in Int
    BY <1>1
  <1>5. \A j \in D : f[r[j]] = g[j]
    BY <1>1
  <1>6. \A j, k \in D : r[j] = r[k] => j = k
    BY <1>1
  <1>7. Im = {r[j] : j \in D} /\ Im = D
    BY <1>2
  <1> HIDE DEF r, D, Im
  <1>8. SumFunctionOnSet(f, {r[j] : j \in D}) = SumFunctionOnSet(g, D)
    BY <1>3, <1>4, <1>5, <1>6, SumImage
  <1>9. SumFunctionOnSet(f, D) = SumFunctionOnSet(g, D)
    BY <1>7, <1>8
  <1> QED BY <1>9 DEF D

LEMMA MoveKeepsSound ==
  ASSUME NEW lines \in Seq(Line), NEW i \in DOMAIN lines, Sound(lines)
  PROVE  Sound(MoveToEnd(lines, i))
  <1> DEFINE n == Len(lines)
             r == MoveToEnd(lines, i)
  <1>1. /\ n \in Nat /\ i \in 1..n /\ DOMAIN lines = 1..n /\ DOMAIN r = 1..n
        /\ \A j \in 1..n : r[j] = lines[Origin(i, j, n)]
        /\ \A j \in 1..n : lines[j] \in Line
    BY MoveToEndPlaces, LenProperties, ElementOfSeq
  <1>2. \A j \in 1..n : Origin(i, j, n) \in 1..n
    BY <1>1, OriginBijects
  <1> HIDE DEF n, r
  <1>3. ASSUME NEW side \in {"debit", "credit"}
        PROVE  CentsTotal(r, side) = CentsTotal(lines, side)
    <2> DEFINE f == [j \in 1..n |-> Cents(lines[j][side])]
               g == [j \in 1..n |-> Cents(r[j][side])]
    <2>1. \A j \in 1..n : lines[j][side] \in Int
      BY <1>1 DEF Line
    <2>2. \A j \in 1..n : f[j] \in Int /\ g[j] = f[Origin(i, j, n)]
      BY <1>1, <1>2, <2>1, CentsType
    <2>3. DOMAIN f = 1..n /\ DOMAIN g = 1..n
      OBVIOUS
    <2>4. CentsTotal(lines, side) = SumFunction(f) /\ CentsTotal(r, side) = SumFunction(g)
      BY <1>1 DEF CentsTotal
    <2> HIDE DEF f, g
    <2>5. SumFunctionOnSet(g, 1..n) = SumFunctionOnSet(f, 1..n)
      BY <1>1, <2>2, SumMoved
    <2> QED BY <2>3, <2>4, <2>5 DEF SumFunction
  <1>4. Balanced(r)
    BY <1>3 DEF Sound, Balanced
  <1>5. WholeCents => \A j \in DOMAIN r : InCentsOnly(r[j])
    BY <1>1, <1>2 DEF Sound
  <1> QED BY <1>4, <1>5 DEF Sound, r

(* Nothing is added, and nobody comes to an insert.                        *)
LEMMA QuietBalance ==
  ASSUME BalanceInv, UNCHANGED journal,
         \A u \in Txs : pending'[u] = <<>> \/ pending'[u] = pending[u],
         \A u \in Txs : pc'[u] \in {"wait", "read", "insert"} =>
                          /\ pc[u] \in {"wait", "read", "insert"}
                          /\ UNCHANGED <<request[u], at[u]>>
  PROVE  BalanceInv'
  <1>1. \A u \in Txs : pc'[u] \in {"wait", "read", "insert"} => Sound(StepOf(u).lines)'
    BY DEF BalanceInv, StepOf
  <1>2. \A u \in Txs : \A n \in DOMAIN pending'[u] : EntrySound(pending'[u][n])
    BY DEF BalanceInv
  <1>3. \A n \in DOMAIN journal' : EntrySound(journal'[n])
    BY DEF BalanceInv
  <1> QED BY <1>1, <1>2, <1>3 DEF BalanceInv

LEMMA AbortBalance ==
  ASSUME ChainInv, BalanceInv, NEW t \in Txs, NEW why \in Ended, Abort(t, why)
  PROVE  BalanceInv'
  <1>1. PICK S : pending \in [Txs -> Seq(S)]
    BY DEF ChainInv, LedgerTyped
  <1>2. /\ UNCHANGED <<journal, request, at>>
        /\ \A u \in Txs : pending'[u] = <<>> \/ pending'[u] = pending[u]
        /\ \A u \in Txs : pc'[u] = IF u = t THEN why ELSE pc[u]
    BY <1>1 DEF Abort, Release, Goto, local, ChainInv, ControlOK, ProgramOK
  <1> QED BY <1>2, QuietBalance DEF Ended

LEMMA ValidateBalance ==
  ASSUME ChainInv, BalanceInv, NEW t \in Txs, Validate(t)
  PROVE  BalanceInv'
  <1>1. /\ UNCHANGED <<journal, pending, request, at>>
        /\ \A u \in Txs : pc'[u] = IF u = t THEN "wait" ELSE pc[u]
    BY DEF Validate, Goto, writes, ChainInv, ControlOK, ProgramOK
  <1>2. Sound(StepOf(t).lines)
    <2>1. Balanced(StepOf(t).lines) /\ at[t] <= Len(request[t]) /\ StepOf(t).op = "post"
      BY DEF Validate, Valid, AtPost
    <2>2. request[t] \in Requests /\ request[t] \in Seq(LockStep \cup PostStep) /\ at[t] \in Nat \ {0}
      BY LedgerAssumption DEF ChainInv, ControlOK, ProgramOK
    <2>3. at[t] \in DOMAIN request[t]
      BY <2>1, <2>2, LenProperties
    <2> QED BY <2>1, <2>2, <2>3 DEF Sound, WholeCents, StepOf
  <1>3. \A u \in Txs : pc'[u] \in {"wait", "read", "insert"} => Sound(StepOf(u).lines)'
    BY <1>1, <1>2 DEF BalanceInv, StepOf
  <1> QED BY <1>1, <1>3 DEF BalanceInv

LEMMA InsertBalance ==
  ASSUME ChainInv, BalanceInv, NEW t \in Txs, Insert(t)
  PROVE  BalanceInv'
  <1> DEFINE e == NewEntry(t)
             p == pending[t]
  <1>1. PICK S : pending \in [Txs -> Seq(S)]
    BY DEF ChainInv, LedgerTyped
  <1>2. /\ UNCHANGED <<journal, request>>
        /\ \A u \in Txs : pc'[u] = IF u = t THEN "step" ELSE pc[u]
        /\ \A u \in Txs : u # t => at'[u] = at[u] /\ pending'[u] = pending[u]
        /\ pending'[t] = Append(p, e)
    BY <1>1 DEF Insert, Goto, ChainInv, ControlOK, ProgramOK
  <1>3. EntrySound(e)
    BY DEF Insert, BalanceInv, NewEntry, EntrySound
  <1>4. p \in Seq(S \cup {e}) /\ e \in S \cup {e}
    BY <1>1, SeqMonotonic
  <1> HIDE DEF e
  <1>5. /\ Len(p) \in Nat /\ DOMAIN p = 1..Len(p)
        /\ DOMAIN Append(p, e) = 1..(Len(p) + 1)
        /\ \A n \in 1..Len(p) : Append(p, e)[n] = p[n]
        /\ Append(p, e)[Len(p) + 1] = e
    BY <1>4, AppendProperties, LenProperties
  <1>6. \A n \in DOMAIN pending'[t] : EntrySound(pending'[t][n])
    BY <1>2, <1>3, <1>5 DEF BalanceInv
  <1>7. \A u \in Txs : pc'[u] \in {"wait", "read", "insert"} => Sound(StepOf(u).lines)'
    BY <1>2 DEF BalanceInv, StepOf
  <1>8. \A u \in Txs : \A n \in DOMAIN pending'[u] : EntrySound(pending'[u][n])
    BY <1>2, <1>6 DEF BalanceInv
  <1> QED BY <1>2, <1>7, <1>8 DEF BalanceInv

LEMMA CommitBalance ==
  ASSUME ChainInv, BalanceInv, NEW t \in Txs, Commit(t)
  PROVE  BalanceInv'
  <1> DEFINE p == pending[t]
  <1>1. PICK S : journal \in Seq(S) /\ pending \in [Txs -> Seq(S)]
    BY DEF ChainInv, LedgerTyped
  <1>2. /\ journal' = journal \o p
        /\ UNCHANGED <<request, at>>
        /\ \A u \in Txs : pc'[u] = IF u = t THEN "done" ELSE pc[u]
        /\ \A u \in Txs : pending'[u] = <<>> \/ pending'[u] = pending[u]
    BY <1>1 DEF Commit, Release, Goto, local, ChainInv, ControlOK, ProgramOK
  <1>3. \A n \in DOMAIN journal' : EntrySound(journal'[n])
    <2> DEFINE N == Len(journal) + Len(p)
    <2>1. p \in Seq(S)
      BY <1>1
    <2>2. /\ Len(journal) \in Nat /\ DOMAIN journal = 1..Len(journal)
          /\ Len(p) \in Nat /\ DOMAIN p = 1..Len(p)
          /\ DOMAIN journal' = 1..N
          /\ \A n \in 1..N : journal'[n] = IF n <= Len(journal) THEN journal[n]
                                           ELSE p[n - Len(journal)]
      BY <1>1, <1>2, <2>1, ConcatProperties, LenProperties
    <2> HIDE DEF p
    <2>3. /\ \A n \in 1..Len(journal) : EntrySound(journal[n])
          /\ \A n \in 1..Len(p) : EntrySound(p[n])
      BY <2>2 DEF BalanceInv, p
    <2> SUFFICES ASSUME NEW n \in 1..N PROVE EntrySound(journal'[n])
      BY <2>2
    <2>4. CASE n <= Len(journal)
      BY <2>2, <2>3, <2>4
    <2>5. CASE ~(n <= Len(journal))
      <3>1. n - Len(journal) \in 1..Len(p)
        BY <2>2, <2>5
      <3> QED BY <2>2, <2>3, <2>5, <3>1
    <2> QED BY <2>4, <2>5
  <1>4. \A u \in Txs : pc'[u] \in {"wait", "read", "insert"} => Sound(StepOf(u).lines)'
    BY <1>2 DEF BalanceInv, StepOf
  <1>5. \A u \in Txs : \A n \in DOMAIN pending'[u] : EntrySound(pending'[u][n])
    BY <1>2 DEF BalanceInv
  <1> QED BY <1>3, <1>4, <1>5 DEF BalanceInv

LEMMA ReconcileBalance ==
  ASSUME ChainInv, BalanceInv, NEW n \in DOMAIN journal, NEW i \in DOMAIN journal[n].lines,
         Reconcile(n, i)
  PROVE  BalanceInv'
  <1> DEFINE new == [journal[n] EXCEPT !.lines = MoveToEnd(@, i)]
  <1>1. PICK S : (\A e \in S : EntryOK(e)) /\ journal \in Seq(S)
    BY DEF ChainInv, LedgerTyped
  <1>2. EntryOK(journal[n]) /\ journal[n].lines \in Seq(Line)
    BY <1>1, LenProperties, ElementOfSeq DEF EntryOK
  <1>3. new.lines = MoveToEnd(journal[n].lines, i)
    BY <1>2 DEF EntryOK
  <1>4. EntrySound(new)
    <2>1. EntrySound(journal[n])
      BY DEF BalanceInv
    <2>2. Sound(new.lines)
      BY <1>2, <1>3, <2>1, MoveKeepsSound DEF EntrySound
    <2>3. ToldApart(new.lines) =>
            ToldApart(journal[n].lines) /\ Canonical(new.lines) = Canonical(journal[n].lines)
      BY <1>2, <1>3, MoveKeepsApart, MoveKeepsCanonical
    <2>4. /\ new.prev = journal[n].prev /\ new.seq = journal[n].seq /\ new.hash = journal[n].hash
          /\ new.number = journal[n].number /\ new.period = journal[n].period
      BY <1>2 DEF EntryOK
    <2> HIDE DEF new
    <2> QED BY <2>1, <2>2, <2>3, <2>4 DEF EntrySound, EntryHash
  <1>5. journal' = [journal EXCEPT ![n] = new] /\ UNCHANGED <<pc, request, at, pending>>
    BY DEF Reconcile, local, writes
  <1> HIDE DEF new
  <1>6. \A m \in DOMAIN journal' : EntrySound(journal'[m])
    BY <1>4, <1>5 DEF BalanceInv
  <1>7. \A u \in Txs : pc'[u] \in {"wait", "read", "insert"} => Sound(StepOf(u).lines)'
    BY <1>5 DEF BalanceInv, StepOf
  <1> QED BY <1>5, <1>6, <1>7 DEF BalanceInv

LEMMA BalanceStep ==
  ASSUME ChainInv, BalanceInv, [Next]_vars
  PROVE  BalanceInv'
  <1>1. ASSUME NEW t \in Txs, Begin(t) \/ LockRow(t) \/ TakeLock(t) \/ ReadTail(t)
        PROVE  BalanceInv'
    <2>1. UNCHANGED <<journal, pending, request>>
      BY <1>1 DEF Begin, LockRow, TakeLock, ReadTail, local, writes
    <2>2. \A u \in Txs : pc'[u] \in {"wait", "read", "insert"} =>
                           pc[u] \in {"wait", "read", "insert"} /\ at'[u] = at[u]
      BY <1>1 DEF Begin, LockRow, AtLock, TakeLock, ReadTail, Goto, local, ChainInv, ControlOK,
                  ProgramOK
    <2> QED BY <2>1, <2>2, QuietBalance
  <1>2. ASSUME NEW t \in Txs, Refuse(t) \/ InsertFails(t) \/ ResolveDeadlock(t) \/ Lose(t)
        PROVE  BalanceInv'
    <2>1. \E why \in Ended : Abort(t, why)
      BY <1>2 DEF Refuse, InsertFails, ResolveDeadlock, Lose, Ended
    <2> QED BY <2>1, AbortBalance
  <1>3. CASE \/ \E p \in Periods, s \in PeriodStatuses : UpdatePeriodStatus(p, s)
             \/ NextDay \/ UNCHANGED vars
    <2>1. UNCHANGED <<journal, pending, pc, request, at>>
      BY <1>3 DEF UpdatePeriodStatus, NextDay, vars, local, writes
    <2> QED BY <2>1, QuietBalance
  <1> QED BY <1>1, <1>2, <1>3, ValidateBalance, InsertBalance, CommitBalance, ReconcileBalance
    DEF Next, Step

LEMMA BalanceInvAlways == Spec => []BalanceInv
  <1>1. Init => BalanceInv
    BY DEF Init, BalanceInv
  <1>2. ChainInv /\ BalanceInv /\ [Next]_vars => BalanceInv'
    BY BalanceStep
  <1> QED BY <1>1, <1>2, ChainInvAlways, PTL DEF Spec

(* Every entry balances in cents, also where amounts have fractions of a   *)
(* cent, and whoever reorders its lines.                                   *)
THEOREM EntriesBalance == Spec => [](\A n \in DOMAIN journal : Balanced(journal[n].lines))
  <1>1. BalanceInv => \A n \in DOMAIN journal : Balanced(journal[n].lines)
    BY DEF BalanceInv, EntrySound, Sound
  <1> QED BY <1>1, BalanceInvAlways, PTL

(* The audit finds no tampering where nobody tampered: the hash of every   *)
(* entry is the one computed from its lines as they are read now, however  *)
(* often reconciliation has reordered them, but for the entries in which   *)
(* lines with the same account, amounts and party differ otherwise.        *)
THEOREM PayloadsAreVerified == Spec => []PayloadsVerify
  <1>1. ChainInv /\ BalanceInv => PayloadsVerify
    <2> SUFFICES ASSUME ChainInv, BalanceInv, NEW e \in Range(journal), ToldApart(e.lines)
                 PROVE  e.hash = EntryHash(e.prev, e.seq, e.number, e.period, e.lines)
      BY DEF PayloadsVerify
    <2>1. PICK n \in DOMAIN journal : e = journal[n]
      BY DEF Range
    <2> QED BY <2>1 DEF BalanceInv, EntrySound
  <1> QED BY <1>1, ChainInvAlways, BalanceInvAlways, PTL

LEMMA SoundHasNoDrift ==
  ASSUME NEW e, e.lines \in Seq(Line), Sound(e.lines), WholeCents
  PROVE  Drift(e) = 0
  <1> DEFINE n == Len(e.lines)
  <1>1. n \in Nat /\ DOMAIN e.lines = 1..n /\ \A j \in 1..n : e.lines[j] \in Line
    BY LenProperties, ElementOfSeq
  <1>2. IsFiniteSet(1..n)
    BY <1>1, FS_Interval
  <1> HIDE DEF n
  <1>3. ASSUME NEW side \in {"debit", "credit"}
        PROVE  /\ SumFunction([j \in DOMAIN e.lines |-> e.lines[j][side]])
                    = 10 * CentsTotal(e.lines, side)
               /\ CentsTotal(e.lines, side) \in Int
    <2> DEFINE f == [j \in 1..n |-> Cents(e.lines[j][side])]
               h == [j \in 1..n |-> e.lines[j][side]]
    <2>1. ASSUME NEW j \in 1..n PROVE f[j] \in Int /\ h[j] = 10 * f[j]
      <3> DEFINE m == e.lines[j][side]
      <3>1. m \in Int /\ m % 10 = 0
        BY <1>1 DEF Line, Sound, InCentsOnly
      <3> HIDE DEF m
      <3>2. Cents(m) \in Int /\ m = 10 * Cents(m)
        BY <3>1 DEF Cents
      <3> QED BY <3>2 DEF m
    <2>2. DOMAIN f = 1..n /\ DOMAIN h = 1..n
      OBVIOUS
    <2>3. /\ CentsTotal(e.lines, side) = SumFunction(f)
          /\ SumFunction([j \in DOMAIN e.lines |-> e.lines[j][side]]) = SumFunction(h)
      BY <1>1 DEF CentsTotal
    <2> HIDE DEF f, h
    <2>4. SumFunctionOnSet(h, 1..n) = 10 * SumFunctionOnSet(f, 1..n)
      <3> DEFINE c == 10
      <3>1. c \in Int /\ \A j \in 1..n : f[j] \in Int /\ h[j] = c * f[j]
        BY <2>1
      <3> HIDE DEF c
      <3>2. SumFunctionOnSet(h, 1..n) = c * SumFunctionOnSet(f, 1..n)
        BY <1>2, <3>1, SumScale
      <3> QED BY <3>2 DEF c
    <2>5. SumFunctionOnSet(f, 1..n) \in Int
      BY <1>2, <2>1, SumType
    <2> QED BY <2>2, <2>3, <2>4, <2>5 DEF SumFunction
  <1> DEFINE d == SumFunction([j \in DOMAIN e.lines |-> e.lines[j].debit])
             c == SumFunction([j \in DOMAIN e.lines |-> e.lines[j].credit])
  <1>4. d = 10 * CentsTotal(e.lines, "debit") /\ c = 10 * CentsTotal(e.lines, "credit")
    BY <1>3
  <1>5. CentsTotal(e.lines, "debit") = CentsTotal(e.lines, "credit")
    BY DEF Sound, Balanced
  <1>6. d = c /\ d \in Int
    BY <1>3, <1>4, <1>5
  <1>7. Drift(e) = d - c
    BY DEF Drift
  <1> HIDE DEF d, c
  <1> QED BY <1>6, <1>7

(* The audit's first check holds of a ledger whose amounts are whole       *)
(* cents: the code rounds each line to cents where it compares and stores  *)
(* it as it was given.                                                     *)
THEOREM LedgerBalances ==
  ASSUME WholeCents
  PROVE  Spec => []BooksBalance
  <1>1. ChainInv /\ BalanceInv => BooksBalance
    <2> SUFFICES ASSUME ChainInv, BalanceInv PROVE BooksBalance
      OBVIOUS
    <2> DEFINE drift == [n \in DOMAIN journal |-> Drift(journal[n])]
    <2>1. PICK S : (\A e \in S : EntryOK(e)) /\ journal \in Seq(S)
      BY DEF ChainInv, LedgerTyped
    <2>2. /\ Len(journal) \in Nat /\ DOMAIN journal = 1..Len(journal)
          /\ \A n \in DOMAIN journal : journal[n].lines \in Seq(Line)
      BY <2>1, LenProperties, ElementOfSeq DEF EntryOK
    <2>3. \A n \in DOMAIN journal : drift[n] = 0
      BY <2>2, SoundHasNoDrift DEF BalanceInv, EntrySound
    <2>4. IsFiniteSet(DOMAIN journal)
      BY <2>2, FS_Interval
    <2>5. DOMAIN drift = DOMAIN journal
      OBVIOUS
    <2> HIDE DEF drift
    <2>6. SumFunctionOnSet(drift, DOMAIN journal) = 0
      BY <2>3, <2>4, SumZero
    <2> QED BY <2>5, <2>6 DEF BooksBalance, SumFunction, drift
  <1> QED BY <1>1, ChainInvAlways, BalanceInvAlways, PTL
===============================================================================
