----------------------------- MODULE GeneralLedger -----------------------------
(***************************************************************************)
(* The double-entry general ledger engine: GlService.postJournalEntry,     *)
(* generateEntryNumber, assertPeriodOpen and updatePeriodStatus, the       *)
(* hard-close trigger, the updates that reconciliation makes to posted     *)
(* lines, and the two checks of the integrity audit on journals.           *)
(*                                                                         *)
(* A request is a database transaction of one of the services that post:   *)
(* it locks rows of its own documents and posts journals in the order of   *)
(* its code, and all of it commits or none.  Concurrent posters are        *)
(* serialised by a transaction-scoped advisory lock.  The isolation is     *)
(* READ COMMITTED, and one action is one statement or a group of           *)
(* statements whose reads nobody else can change.                          *)
(*                                                                         *)
(* Amounts are in tenths of a cent: columns keep any precision and the     *)
(* code rounds to cents only where it compares.  SHA-256 is taken to be    *)
(* injective, so a hash is the value it hashes.  Memos, sources, foreign   *)
(* amounts, the project subledger and the outbox event are left out.       *)
(***************************************************************************)
EXTENDS Integers, Sequences, FiniteSets, SequencesExt, Functions

CONSTANTS
  Txs,        \* requests, each one database transaction
  DocRows,    \* rows of business documents that requests lock
  Requests,   \* what a request does: a sequence of steps
  Periods,    \* fiscal periods; a journal's date is the period it falls in,
  NoPeriod,   \* or outside all of them
  Accounts,
  Postable,   \* the active accounts that are not groups
  Parties, Dims, \* party of a line; its cost centre, activity and party type
  MaxDay,     \* bound: the days that pass
  Genesis,    \* GENESIS_HASH
  NoTx        \* nobody

Line == [account : Accounts, debit : Int, credit : Int, party : Parties, dim : Dims]
LockStep == [op : {"lock"}, row : DocRows]
PostStep == [op : {"post"}, period : Periods \cup {NoPeriod}, lines : Seq(Line)]

ASSUME LedgerAssumption ==
  /\ Requests # {}
  /\ Requests \subseteq Seq(LockStep \cup PostStep)
  /\ NoPeriod \notin Periods /\ NoTx \notin Txs
  /\ Postable \subseteq Accounts
  /\ MaxDay \in Nat \ {0}

VARIABLES
  period,     \* gl_fiscal_periods.status
  today,      \* the date of the server's clock
  journal,    \* committed gl_journal_entries with their lines, in commit order
  ledgerLock, \* the transaction that holds the advisory lock
  pc,         \* next statement of each transaction, or how it ended
  request,    \* the steps of the transaction
  at,         \* the step it is at
  prefix,     \* the day of the entry number it is generating
  tail,       \* what it read of the newest entry
  pending,    \* its uncommitted entries
  locks       \* the document rows it has locked

local  == <<request, at, prefix, tail>>
writes == <<pending, locks>>
vars   == <<period, today, journal, ledgerLock, pc, local, writes>>

PeriodStatuses == {"open", "soft_locked", "hard_closed"}
Ended  == {"done", "refused", "duplicate", "deadlocked", "lost"}
Active == {"step", "wait", "read", "insert"}

NoTail == [seq |-> 1, number |-> <<1, 1>>, prev |-> Genesis]

Init ==
  /\ period = [p \in Periods |-> "open"]
  /\ today = 1
  /\ journal = <<>>
  /\ ledgerLock = NoTx
  /\ pc = [t \in Txs |-> "idle"]
  /\ request \in [Txs -> Requests]
  /\ at = [t \in Txs |-> 1]
  /\ prefix = [t \in Txs |-> 1]
  /\ tail = [t \in Txs |-> NoTail]
  /\ pending = [t \in Txs |-> <<>>]
  /\ locks = [t \in Txs |-> {}]

Goto(t, label) == pc' = [pc EXCEPT ![t] = label]
StepOf(t) == request[t][at[t]]
AtPost(t) == pc[t] = "step" /\ at[t] <= Len(request[t]) /\ StepOf(t).op = "post"
AtLock(t) == pc[t] = "step" /\ at[t] <= Len(request[t]) /\ StepOf(t).op = "lock"

(* The end of a transaction gives back what it held. *)
Release(t) ==
  /\ ledgerLock' = IF ledgerLock = t THEN NoTx ELSE ledgerLock
  /\ pending' = [pending EXCEPT ![t] = <<>>]
  /\ locks' = [locks EXCEPT ![t] = {}]

Abort(t, why) ==
  /\ Goto(t, why)
  /\ Release(t)
  /\ UNCHANGED <<period, today, journal, local>>

Begin(t) ==
  /\ pc[t] = "idle"
  /\ Goto(t, "step")
  /\ UNCHANGED <<period, today, journal, ledgerLock, local, writes>>

(* SELECT ... FOR UPDATE, or an UPDATE, of a document row. *)
RowBlockers(t) == {u \in Txs \ {t} : StepOf(t).row \in locks[u]}

LockRow(t) ==
  /\ AtLock(t)
  /\ RowBlockers(t) = {}
  /\ locks' = [locks EXCEPT ![t] = @ \cup {StepOf(t).row}]
  /\ at' = [at EXCEPT ![t] = @ + 1]
  /\ UNCHANGED <<period, today, journal, ledgerLock, pc, request, prefix, tail, pending>>

(***************************************************************************)
(* postJournalEntry, part 1: validation, before any lock is taken.         *)
(***************************************************************************)
Cents(mils) == (mils + 5) \div 10

LineValid(l) ==
  /\ l.debit >= 0 /\ l.credit >= 0
  /\ l.debit > 0 <=> l.credit = 0
  /\ l.account \in Postable

(* Amounts are compared in cents, each line rounded by itself.              *)
CentsTotal(lines, side) == SumFunction([i \in DOMAIN lines |-> Cents(lines[i][side])])

(* Mutant: the totals never compared. *)
BalancedNever(lines) == TRUE
Balanced(lines) == CentsTotal(lines, "debit") = CentsTotal(lines, "credit")

Valid(lines) ==
  /\ Len(lines) >= 2
  /\ \A i \in DOMAIN lines : LineValid(lines[i])
  /\ Balanced(lines)

Status(p) == IF p \in Periods THEN period[p] ELSE "open"

(* The prefix JE-YYYYMMDD- is built before the lock is waited for. *)
Validate(t) ==
  /\ AtPost(t)
  /\ Valid(StepOf(t).lines)
  /\ Status(StepOf(t).period) = "open"
  /\ prefix' = [prefix EXCEPT ![t] = today]
  /\ Goto(t, "wait")
  /\ UNCHANGED <<period, today, journal, ledgerLock, request, at, tail, writes>>

(***************************************************************************)
(* generateEntryNumber and doInsert.                                       *)
(***************************************************************************)
(* Mutant: pg_advisory_xact_lock left out. *)
LedgerFreeAlways(t) == TRUE
LedgerFree(t) == ledgerLock \in {NoTx, t}

TakeLock(t) ==
  /\ pc[t] = "wait"
  /\ LedgerFree(t)
  /\ ledgerLock' = t
  /\ Goto(t, "read")
  /\ UNCHANGED <<period, today, journal, local, writes>>

Visible(t) == journal \o pending[t]

(* Mutant: the newest number of any day continued. *)
NextNumberAnyDay(t) ==
  <<prefix[t], Len(Visible(t)) + 1>>

(* The number after the newest one with the same prefix. *)
NextNumber(t) ==
  LET used == {e.number[2] : e \in {x \in Range(Visible(t)) : x.number[1] = prefix[t]}}
  IN <<prefix[t], Max({0} \cup used) + 1>>

(* Mutant: the sequence read as 0 when the ledger is empty. *)
NextSeqFromZero(t) == IF Visible(t) = <<>> THEN 0 ELSE Last(Visible(t)).seq + 1
(* The entry with the highest sequence number is the last one: entries     *)
(* are inserted under the lock.                                            *)
NextSeq(t) == IF Visible(t) = <<>> THEN 1 ELSE Last(Visible(t)).seq + 1

(* Mutant: the chain of the committed entries only. *)
PrevHashCommitted(t) == IF journal = <<>> THEN Genesis ELSE Last(journal).hash
PrevHash(t) == IF Visible(t) = <<>> THEN Genesis ELSE Last(Visible(t)).hash

ReadTail(t) ==
  /\ pc[t] = "read"
  /\ tail' = [tail EXCEPT ![t] =
                [seq |-> NextSeq(t), number |-> NextNumber(t), prev |-> PrevHash(t)]]
  /\ Goto(t, "insert")
  /\ UNCHANGED <<period, today, journal, ledgerLock, request, at, prefix, writes>>

(* computeCanonicalPayloadHash sorts the lines by account, amounts and     *)
(* party.  The sort is stable, so what it hashes is each line with its     *)
(* place among those with the same key, counted in the order in which the  *)
(* lines were given to it.                                                 *)
InCents(l) == [l EXCEPT !.debit = Cents(@), !.credit = Cents(@)]
SortKey(l) == <<l.account, l.debit, l.credit, l.party>>
Place(key, i) == Cardinality({j \in 1..i : key[j] = key[i]})

(* Mutant: the lines hashed in the order they are read. *)
CanonicalUnsorted(lines) == lines
Canonical(lines) ==
  LET rounded == [i \in DOMAIN lines |-> InCents(lines[i])]
      key == [i \in DOMAIN lines |-> SortKey(rounded[i])]
  IN {<<Place(key, i), rounded[i]>> : i \in DOMAIN lines}

EntryHash(prev, seq, number, date, lines) ==
  <<prev, <<seq, number, date, Canonical(lines)>>>>

NewEntry(t) ==
  [seq |-> tail[t].seq, number |-> tail[t].number, prev |-> tail[t].prev,
   period |-> StepOf(t).period, lines |-> StepOf(t).lines,
   hash |-> EntryHash(tail[t].prev, tail[t].seq, tail[t].number,
                      StepOf(t).period, StepOf(t).lines)]

(* The trigger on gl_journal_entries looks at the hard close only. *)
Sealed(t) == Status(StepOf(t).period) = "hard_closed"

(* The unique indexes on sequence_number and entry_number.                 *)
Clashes(e, t) == e.seq = tail[t].seq \/ e.number = tail[t].number
Duplicate(t) == \E e \in Range(Visible(t)) : Clashes(e, t)
IndexBlockers(t) == {u \in Txs \ {t} : \E e \in Range(pending[u]) : Clashes(e, t)}

Insert(t) ==
  /\ pc[t] = "insert"
  /\ ~Sealed(t) /\ ~Duplicate(t) /\ IndexBlockers(t) = {}
  /\ pending' = [pending EXCEPT ![t] = Append(@, NewEntry(t))]
  /\ at' = [at EXCEPT ![t] = @ + 1]
  /\ Goto(t, "step")
  /\ UNCHANGED <<period, today, journal, ledgerLock, request, prefix, tail, locks>>

InsertFails(t) ==
  /\ pc[t] = "insert"
  /\ Sealed(t) \/ Duplicate(t)
  /\ Abort(t, IF Sealed(t) THEN "refused" ELSE "duplicate")

Refuse(t) ==
  /\ AtPost(t)
  /\ ~Valid(StepOf(t).lines) \/ Status(StepOf(t).period) # "open"
  /\ Abort(t, "refused")

Commit(t) ==
  /\ pc[t] = "step" /\ at[t] > Len(request[t])
  /\ journal' = journal \o pending[t]
  /\ Goto(t, "done")
  /\ Release(t)
  /\ UNCHANGED <<period, today, local>>

(***************************************************************************)
(* What else changes the ledger or what it depends on.                     *)
(***************************************************************************)
(* The administrator sets any status; no posting is waited for.            *)
UpdatePeriodStatus(p, status) ==
  /\ period' = [period EXCEPT ![p] = status]
  /\ UNCHANGED <<today, journal, ledgerLock, pc, local, writes>>

NextDay ==
  /\ today < MaxDay
  /\ today' = today + 1
  /\ UNCHANGED <<period, journal, ledgerLock, pc, local, writes>>

(* Clearing, matching or reconciling a line of a posted entry rewrites its *)
(* row: the new version is the last one of the entry that a scan returns.  *)
MoveToEnd(lines, i) == Append(RemoveAt(lines, i), lines[i])
Reconcile(n, i) ==
  /\ journal' = [journal EXCEPT ![n].lines = MoveToEnd(@, i)]
  /\ UNCHANGED <<period, today, ledgerLock, pc, local, writes>>

(***************************************************************************)
(* Waiting, deadlocks and failures.                                        *)
(***************************************************************************)
Waits(t, u) ==
  \/ AtLock(t) /\ u \in RowBlockers(t)
  \/ pc[t] = "wait" /\ ~LedgerFree(t) /\ u = ledgerLock
  \/ pc[t] = "insert" /\ u \in IndexBlockers(t)

(* Mutant: nobody looks for cycles. *)
DeadlockedNever(t) == FALSE
Deadlocked(t) ==
  \E S \in SUBSET Txs :
    /\ t \in S
    /\ \A u \in S : (\E v \in S : Waits(u, v)) /\ (\E v \in S : Waits(v, u))

ResolveDeadlock(t) == Deadlocked(t) /\ Abort(t, "deadlocked")

(* The connection or the API process dies. *)
Lose(t) == pc[t] \in Active /\ Abort(t, "lost")

Step(t) ==
  \/ LockRow(t) \/ Validate(t) \/ Refuse(t) \/ TakeLock(t) \/ ReadTail(t)
  \/ Insert(t) \/ InsertFails(t) \/ Commit(t)

Next ==
  \/ \E t \in Txs : Begin(t) \/ Step(t) \/ ResolveDeadlock(t) \/ Lose(t)
  \/ \E p \in Periods, s \in PeriodStatuses : UpdatePeriodStatus(p, s)
  \/ \E n \in DOMAIN journal : \E i \in DOMAIN journal[n].lines : Reconcile(n, i)
  \/ NextDay

(* Postgres and the event loop drive an open transaction on.  Nobody owes  *)
(* the API a request, and nothing makes a connection fail.                 *)
Fairness ==
  /\ \A t \in Txs : WF_vars(Step(t))
  /\ WF_vars(\E t \in Txs : ResolveDeadlock(t))

Spec == Init /\ [][Next]_vars
FairSpec == Spec /\ Fairness

-------------------------------------------------------------------------------
(***************************************************************************)
(* Properties.                                                             *)
(***************************************************************************)
(* Tables and program variables have their types, and a transaction inside *)
(* postJournalEntry is at a step that posts.  What a hash hashes has no    *)
(* type of its own: it holds the hash before it.                           *)
ProgramOK ==
  /\ pc \in [Txs -> {"idle"} \cup Active \cup Ended]
  /\ request \in [Txs -> Requests]
  /\ at \in [Txs -> Nat \ {0}]
  /\ prefix \in [Txs -> 1..MaxDay]
  /\ DOMAIN tail = Txs
ProgressOK(t) ==
  /\ tail[t].seq \in Nat \ {0}
  /\ pc[t] \in {"wait", "read", "insert"} =>
       at[t] <= Len(request[t]) /\ StepOf(t) \in PostStep
EntryOK(e) ==
  /\ e = [seq |-> e.seq, number |-> e.number, prev |-> e.prev,
          period |-> e.period, lines |-> e.lines, hash |-> e.hash]
  /\ e.seq \in Nat \ {0}
  /\ e.period \in Periods \cup {NoPeriod}
  /\ e.lines \in Seq(Line)
TypeOK ==
  /\ period \in [Periods -> PeriodStatuses]
  /\ today \in 1..MaxDay
  /\ ledgerLock \in Txs \cup {NoTx}
  /\ locks \in [Txs -> SUBSET DocRows]
  /\ ProgramOK
  /\ \A t \in Txs : ProgressOK(t)
  /\ \A e \in Range(journal) : EntryOK(e)
  /\ \A t \in Txs : \A e \in Range(pending[t]) : EntryOK(e)

(* The committed ledger is one chain from the genesis hash: entry n has    *)
(* sequence number n and the hash of entry n - 1, whoever posts, aborts or *)
(* dies, and however many entries one transaction posts.                   *)
Chained(entries) ==
  \A n \in DOMAIN entries :
    /\ entries[n].seq = n
    /\ entries[n].prev = IF n = 1 THEN Genesis ELSE entries[n - 1].hash
ChainIntact == Chained(journal)

(* The committed journal is a JournalBook: no step, of a poster or of      *)
(* reconciliation, removes or rewrites what was written before.            *)
Book == INSTANCE JournalBook WITH entries <- journal
AppendOnly == Book!Spec

(* Between the read of the newest entry and the insert nobody else can     *)
(* have added one: only the holder of the advisory lock reads, inserts or  *)
(* has uncommitted entries, and what it read is still the tail.            *)
OneWriter ==
  \A t \in Txs :
    pc[t] \in {"read", "insert"} \/ pending[t] # <<>> => ledgerLock = t
TailRead(t) ==
  /\ tail[t].seq = Len(Visible(t)) + 1
  /\ tail[t].prev = IF Visible(t) = <<>> THEN Genesis ELSE Last(Visible(t)).hash
TailIsFresh == OneWriter /\ \A t \in Txs : pc[t] = "insert" => TailRead(t)

(* verifyLedgerHashChain finds no tampering in entries only the code wrote *)
(* and reconciled: each hash is that of the entry's lines as read today.   *)
(* What it reports without one is an entry with lines that the sort does   *)
(* not tell apart, as it does not look at cost centres.                    *)
ToldApart(lines) ==
  \A i, j \in DOMAIN lines : SortKey(InCents(lines[i])) = SortKey(InCents(lines[j])) =>
                             InCents(lines[i]) = InCents(lines[j])
PayloadsVerify ==
  \A e \in Range(journal) :
    ToldApart(e.lines) => e.hash = EntryHash(e.prev, e.seq, e.number, e.period, e.lines)

(* No poster ever fails on the unique indexes of the ledger.               *)
NeverDuplicate == \A t \in Txs : pc[t] # "duplicate"

(* The entry numbers of a day run from 1 without a gap or a repetition,    *)
(* also over aborted postings and posters that waited past midnight.       *)
DayNumbersGapless ==
  \A d \in 1..MaxDay :
    LET used == {n \in DOMAIN journal : journal[n].number[1] = d}
    IN {journal[n].number[2] : n \in used} = 1..Cardinality(used)

(* The audit's first check: the debits of the ledger equal its credits.    *)
Drift(e) ==
  SumFunction([i \in DOMAIN e.lines |-> e.lines[i].debit])
  - SumFunction([i \in DOMAIN e.lines |-> e.lines[i].credit])
BooksBalance == SumFunction([n \in DOMAIN journal |-> Drift(journal[n])]) = 0

(* A poster that started ends: the wait for the one advisory lock, taken   *)
(* between locks of document rows, never lasts.                            *)
PostingsFinish == \A t \in Txs : pc[t] \in Active ~> pc[t] \in Ended

(* A hard-closed period receives no entry.                                 *)
ClosedPeriodsReceiveNothing ==
  [][\A n \in DOMAIN journal' \ DOMAIN journal :
       journal'[n].period \in Periods => period[journal'[n].period] # "hard_closed"]_vars
-------------------------------------------------------------------------------
(***************************************************************************)
(* What BooksBalance relies on the callers for.                            *)
(***************************************************************************)
(* Amounts are whole cents. *)
InCentsOnly(l) == l.debit % 10 = 0 /\ l.credit % 10 = 0
WholeCents ==
  \A r \in Requests : \A k \in DOMAIN r :
    r[k].op = "post" => \A i \in DOMAIN r[k].lines : InCentsOnly(r[k].lines[i])
===============================================================================
