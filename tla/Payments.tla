------------------------------- MODULE Payments --------------------------------
(***************************************************************************)
(* Payment entries of the API: createPaymentEntry, removePayment,          *)
(* submitPaymentEntry (also as confirmExported), allocatePayment to a      *)
(* draft and to a submitted payment, cancelPayment, exportAba and          *)
(* exportNacha, rejectExported, and the cancellation of an invoice.        *)
(*                                                                         *)
(* Every request is one Postgres transaction at READ COMMITTED.  It locks  *)
(* its payment, its invoices and, while it posts, the general ledger; what *)
(* it writes it has locked first, so the writes are made in its commit.    *)
(* Reads that lock nothing are steps of their own: the states that a batch *)
(* checks, and the drafts of others that an allocation counts.             *)
(*                                                                         *)
(* Payments are receipts of customers and documents are their invoices:    *)
(* the supplier's side is the mirror image.  Amounts are whole units of    *)
(* the foreign currency and rates are whole numbers.  Split payments,      *)
(* direct payments, credit notes, terms, compliance and events are left    *)
(* out.                                                                    *)
(***************************************************************************)
EXTENDS Integers, Sequences, FiniteSets, Functions

CONSTANTS
  Workers,     \* database connections, each running one request at a time
  Payments, Invoices,
  PayTotal, PayRate,      \* of a payment: amount and exchange rate
  InvTotal, InvRate,      \* of an invoice
  MaxDiscount, \* what early payment may take off an invoice
  Requests,    \* the requests clients send
  NoWorker,
  MaxBank      \* bound: no request arrives with more than this in the bank

Line == [invoice : Invoices, amount : Nat, discount : Nat]
(* A bank file, or its rejection, names each of its payments once: an empty *)
(* one is refused or does nothing, one with a repetition is refused.        *)
BatchList == {ps \in Seq(Payments) : ps # <<>> /\ IsInjective(ps)}
Request ==
  [kind : {"create"}, payment : Payments, lines : Seq(Line), submit : BOOLEAN]
  \cup [kind : {"allocate"}, payment : Payments, lines : Seq(Line)]
  \cup [kind : {"submit", "cancel", "remove"}, payment : Payments]
  \cup [kind : {"export", "reject"}, payments : BatchList]
  \cup [kind : {"void"}, invoice : Invoices]

ASSUME PaymentAssumption ==
  /\ IsFiniteSet(Payments) /\ IsFiniteSet(Invoices)
  /\ PayTotal \in [Payments -> Nat] /\ PayRate \in [Payments -> Nat]
  /\ InvTotal \in [Invoices -> Nat \ {0}] /\ InvRate \in [Invoices -> Nat]
  /\ MaxDiscount \in [Invoices -> Nat]
  /\ Requests \subseteq Request /\ Requests # {}
  /\ NoWorker \notin Workers
  /\ MaxBank \in Int

VARIABLES
  \* Committed state.
  state,        \* payment_entries.state_code
  allocs,       \* the payment_allocations of each payment
  unallocated,  \* payment_entries.unallocated_amount
  outstanding,  \* sales_invoices.outstanding_amount
  invState,     \* sales_invoices.state_code
  bank, control, \* balances of the bank and the receivables account
  \* The transaction of each worker.
  pc, request,
  todo,         \* the payments that a batch has not written yet
  seen,         \* the states in which a batch has read its payments
  heldPays, heldInvs, \* rows it has locked
  ledgerLock,   \* the worker that holds the lock of the general ledger
  (* History: the payments whose state a batch wrote over after it had     *)
  (* changed since the batch read it.                                      *)
  overwritten

tables == <<state, allocs, unallocated, outstanding, invState, bank, control>>
locks  == <<heldPays, heldInvs, ledgerLock>>
batch  == <<todo, seen>>
vars   == <<tables, pc, request, batch, locks, overwritten>>

PayStates == {"absent", "draft", "exported", "submitted", "cancelled"}
InvStates == {"invoiced", "partially_paid", "paid", "cancelled"}
Active == {"payment", "invoices", "check", "post", "settle", "batch", "change",
           "write", "commit"}
Batches == {"export", "reject"}

(* PAYMENT_TRANSITIONS. *)
Transitions ==
  [draft |-> {"exported", "submitted", "cancelled"},
   exported |-> {"submitted", "draft", "cancelled"},
   submitted |-> {"cancelled"}, cancelled |-> {}, absent |-> {}]

NoRequest == CHOOSE r \in Requests : TRUE  \* of an idle worker: never looked at

LinesSum(lines, Value(_)) == SumFunction([i \in DOMAIN lines |-> Value(lines[i])])
Amounts(lines) == LinesSum(lines, LAMBDA l : l.amount)
(* The part of a sum that falls on invoice d. *)
SumOn(d, lines, Value(_)) == LinesSum(lines, LAMBDA l : IF l.invoice = d THEN Value(l) ELSE 0)
AmountsOn(d, lines) == SumOn(d, lines, LAMBDA l : l.amount)
CreditsOn(d, lines) == SumOn(d, lines, LAMBDA l : l.amount + l.discount)
InvoicesOf(lines) == {l.invoice : l \in Range(lines)}

NothingSeen == [p \in Payments |-> "absent"]

Init ==
  /\ state = [p \in Payments |-> "absent"]
  /\ allocs = [p \in Payments |-> <<>>]
  /\ unallocated = [p \in Payments |-> 0]
  /\ outstanding = InvTotal
  /\ invState = [d \in Invoices |-> "invoiced"]
  /\ bank = 0
  /\ control = SumFunction([d \in Invoices |-> InvTotal[d] * InvRate[d]])
  /\ pc = [w \in Workers |-> "idle"]
  /\ request = [w \in Workers |-> NoRequest]
  /\ todo = [w \in Workers |-> <<>>]
  /\ seen = [w \in Workers |-> NothingSeen]
  /\ heldPays = [w \in Workers |-> {}]
  /\ heldInvs = [w \in Workers |-> {}]
  /\ ledgerLock = NoWorker
  /\ overwritten = {}

Kind(w) == request[w].kind
Goto(w, label) == pc' = [pc EXCEPT ![w] = label]

(* The transaction ends, with or without its writes. *)
Finish(w) ==
  /\ Goto(w, "idle")
  /\ request' = [request EXCEPT ![w] = NoRequest]
  /\ todo' = [todo EXCEPT ![w] = <<>>]
  /\ seen' = [seen EXCEPT ![w] = NothingSeen]
  /\ heldPays' = [heldPays EXCEPT ![w] = {}]
  /\ heldInvs' = [heldInvs EXCEPT ![w] = {}]
  /\ ledgerLock' = IF ledgerLock = w THEN NoWorker ELSE ledgerLock

Abort(w) == Finish(w) /\ UNCHANGED <<tables, overwritten>>

(***************************************************************************)
(* A request arrives.                                                      *)
(***************************************************************************)
Idle(w) == pc[w] = "idle"
FirstStep(r) ==
  IF r.kind = "void" THEN "invoices"
  ELSE IF r.kind = "export" THEN "batch"
  ELSE IF r.kind = "reject" THEN "change"
  ELSE "payment"

Begin(w) ==
  /\ Idle(w) /\ bank <= MaxBank
  /\ \E r \in Requests :
       /\ request' = [request EXCEPT ![w] = r]
       /\ todo' = [todo EXCEPT ![w] = IF r.kind = "reject" THEN r.payments ELSE <<>>]
       /\ Goto(w, FirstStep(r))
  /\ UNCHANGED <<tables, seen, locks, overwritten>>

(***************************************************************************)
(* "payment": SELECT ... FOR UPDATE of the payment, or its insert, and the *)
(* test of its state.                                                      *)
(***************************************************************************)
Payment(w) == request[w].payment
PayBlockers(w, p) == {v \in Workers \ {w} : p \in heldPays[v]}

AcceptedStates(kind) ==
  CASE kind = "create" -> {"absent"}
    [] kind = "remove" -> {"draft"}
    [] kind = "submit" -> {"draft", "exported"}
    [] kind = "allocate" -> {"draft", "submitted"}
    [] kind = "cancel" -> {"submitted"}
Accepted(w) == state[Payment(w)] \in AcceptedStates(Kind(w))

(* A row that is not there is not waited for, except by its own insert. *)
PayFree(w) ==
  \/ PayBlockers(w, Payment(w)) = {}
  \/ state[Payment(w)] = "absent" /\ Kind(w) # "create"

AfterPayment(w) ==
  CASE Kind(w) \in {"allocate", "cancel"} -> "invoices"
    [] Kind(w) = "submit" \/ (Kind(w) = "create" /\ request[w].submit) -> "post"
    [] OTHER -> "commit"

LockPayment(w) ==
  /\ pc[w] = "payment"
  /\ PayFree(w) /\ Accepted(w)
  /\ heldPays' = [heldPays EXCEPT ![w] = {Payment(w)}]
  /\ Goto(w, AfterPayment(w))
  /\ UNCHANGED <<tables, request, batch, heldInvs, ledgerLock, overwritten>>

RefusePayment(w) ==
  /\ pc[w] = "payment"
  /\ PayFree(w) /\ ~Accepted(w)
  /\ Abort(w)

(***************************************************************************)
(* "invoices" and "settle": the invoices of the allocations, locked one by *)
(* one in the order the scan meets them.                                   *)
(***************************************************************************)
(* The allocations that the transaction applies, or takes back. *)
Lines(w) ==
  IF Kind(w) \in {"create", "allocate"} THEN request[w].lines ELSE allocs[Payment(w)]
InvoicesNeeded(w) ==
  IF Kind(w) = "void" THEN {request[w].invoice} ELSE InvoicesOf(Lines(w))
InvBlockers(w, d) == {v \in Workers \ {w} : d \in heldInvs[v]}
InvoicesLeft(w) == InvoicesNeeded(w) \ heldInvs[w]

LockInvoice(w) ==
  /\ pc[w] \in {"invoices", "settle"}
  /\ \E d \in InvoicesLeft(w) :
       /\ InvBlockers(w, d) = {}
       /\ heldInvs' = [heldInvs EXCEPT ![w] = @ \cup {d}]
  /\ UNCHANGED <<tables, pc, request, batch, heldPays, ledgerLock, overwritten>>

(* Mutant: the drafts counted before the invoices are locked. *)
AllLockedEarly(w) == Kind(w) = "allocate" \/ InvoicesLeft(w) = {}
AllLocked(w) == InvoicesLeft(w) = {}

InvoicesLocked(w) ==
  /\ pc[w] \in {"invoices", "settle"}
  /\ AllLocked(w)
  /\ Goto(w, CASE pc[w] = "settle" -> "commit"
               [] Kind(w) = "cancel" -> "post"
               [] OTHER -> "check")
  /\ UNCHANGED <<tables, request, batch, locks, overwritten>>

(***************************************************************************)
(* "check": what an allocation may take, and whether an invoice may be     *)
(* cancelled.                                                              *)
(***************************************************************************)
Available(w) ==
  IF state[Payment(w)] = "draft" THEN PayTotal[Payment(w)] ELSE unallocated[Payment(w)]

(* What the drafts of others will take, their discounts not counted.       *)
OtherDrafts(w, d) ==
  SumFunctionOnSet([p \in Payments |-> AmountsOn(d, allocs[p])],
                   {p \in Payments \ {Payment(w)} : state[p] = "draft"})

(* Each line is compared with the outstanding amount by itself.            *)
LineAccepted(w, l) ==
  LET left == outstanding[l.invoice] - OtherDrafts(w, l.invoice)
  IN /\ invState[l.invoice] # "cancelled"
     /\ l.amount + l.discount <= left
     /\ l.discount > 0 => l.amount + l.discount = left /\ l.discount <= MaxDiscount[l.invoice]

CheckPassed(w) ==
  IF Kind(w) = "void" THEN invState[request[w].invoice] = "invoiced"
  ELSE /\ Amounts(Lines(w)) <= Available(w)
       /\ \A l \in Range(Lines(w)) : LineAccepted(w, l)

(* A late allocation at the rate of its invoices posts nothing, and takes  *)
(* no lock of the ledger.                                                  *)
LateDrop(w, l) == (l.amount + l.discount) * InvRate[l.invoice]
                  - l.amount * PayRate[Payment(w)]
LateDrops(w, lines) == LinesSum(lines, LAMBDA l : LateDrop(w, l))
Posts(w) ==
  \/ Kind(w) = "void"
  \/ state[Payment(w)] = "submitted"
     /\ \E l \in Range(Lines(w)) : l.discount > 0 \/ LateDrop(w, l) # 0

Check(w) ==
  /\ pc[w] = "check" /\ CheckPassed(w)
  /\ Goto(w, IF Posts(w) THEN "post" ELSE "commit")
  /\ UNCHANGED <<tables, request, batch, locks, overwritten>>

RefuseCheck(w) == pc[w] = "check" /\ ~CheckPassed(w) /\ Abort(w)

(* postJournalEntry takes the lock of the ledger, held to the commit. *)
LedgerFree(w) == ledgerLock \in {NoWorker, w}
TakeLedger(w) ==
  /\ pc[w] = "post" /\ LedgerFree(w)
  /\ ledgerLock' = w
  /\ Goto(w, IF Kind(w) \in {"submit", "create"} THEN "settle" ELSE "commit")
  /\ UNCHANGED <<tables, request, batch, heldPays, heldInvs, overwritten>>

(***************************************************************************)
(* Batches: export into a bank file, and its rejection.                    *)
(***************************************************************************)
BatchState(w) == IF Kind(w) = "export" THEN "exported" ELSE "draft"

(* The rows that exportAba or exportNacha selects, in any order, must be   *)
(* drafts: an id that has none is passed over.  rejectExported goes        *)
(* through its list as it is given.                                        *)
Found(w) == {p \in Range(request[w].payments) : state[p] # "absent"}
Orders(S) == {ps \in [1..Cardinality(S) -> S] : Range(ps) = S}

ReadBatch(w) ==
  /\ pc[w] = "batch"
  /\ Found(w) # {} /\ \A p \in Found(w) : state[p] = "draft"
  /\ \E ps \in Orders(Found(w)) : todo' = [todo EXCEPT ![w] = ps]
  /\ Goto(w, "change")
  /\ UNCHANGED <<tables, request, seen, locks, overwritten>>

RefuseBatch(w) ==
  /\ pc[w] = "batch"
  /\ Found(w) = {} \/ \E p \in Found(w) : state[p] # "draft"
  /\ Abort(w)

(* Mutant: the new state not looked up in PAYMENT_TRANSITIONS. *)
TransitionAllowedAlways(w, p) == TRUE
TransitionAllowed(w, p) == BatchState(w) \in Transitions[state[p]]

(* changePaymentState: a read that takes no lock, ...                      *)
ReadState(w) ==
  /\ pc[w] = "change" /\ TransitionAllowed(w, Head(todo[w]))
  /\ seen' = [seen EXCEPT ![w][Head(todo[w])] = state[Head(todo[w])]]
  /\ Goto(w, "write")
  /\ UNCHANGED <<tables, request, todo, locks, overwritten>>

RefuseState(w) ==
  pc[w] = "change" /\ ~TransitionAllowed(w, Head(todo[w])) /\ Abort(w)

(* Mutant: one payment too many. *)
MoreInBatchOffByOne(w) == Len(todo[w]) >= 1
MoreInBatch(w) == Len(todo[w]) > 1

(* ... and an update whatever the state is by then.                        *)
WriteState(w) ==
  /\ pc[w] = "write" /\ PayBlockers(w, Head(todo[w])) = {}
  /\ heldPays' = [heldPays EXCEPT ![w] = @ \cup {Head(todo[w])}]
  /\ todo' = [todo EXCEPT ![w] = Tail(@)]
  /\ Goto(w, IF MoreInBatch(w) THEN "change" ELSE "commit")
  /\ UNCHANGED <<tables, request, seen, heldInvs, ledgerLock, overwritten>>

(***************************************************************************)
(* "commit": the effects of each kind of request.                          *)
(***************************************************************************)
(* Life cycle rule of invoices; a cancelled one is left alone. *)
Lifecycle(d, left) ==
  IF invState[d] = "cancelled" THEN "cancelled"
  ELSE IF left <= 0 THEN "paid"
  ELSE IF left < InvTotal[d] THEN "partially_paid"
  ELSE "invoiced"

(* Add the change of each invoice to its outstanding amount. *)
Settle(change) ==
  /\ outstanding' = [d \in Invoices |-> outstanding[d] + change[d]]
  /\ invState' = [d \in Invoices |->
       IF change[d] = 0 THEN invState[d] ELSE Lifecycle(d, outstanding'[d])]

(* Mutant: the discount left outstanding. *)
TakenCash(lines) ==
  [d \in Invoices |-> -AmountsOn(d, lines)]
Taken(lines) ==
  [d \in Invoices |-> -CreditsOn(d, lines)]
(* The discounts are not given back.                                       *)
Restored(lines) ==
  [d \in Invoices |-> AmountsOn(d, lines)]

(* Mutant: the whole payment posted at its own rate. *)
ControlDropOwnRate(p, lines) == PayTotal[p] * PayRate[p]
(* What the receivables lose: the allocated part and the discounts at the  *)
(* rate of the invoices, the rest at the rate of the payment.              *)
ControlDrop(p, lines) ==
  LinesSum(lines, LAMBDA l : (l.amount + l.discount) * InvRate[l.invoice])
  + (PayTotal[p] - Amounts(lines)) * PayRate[p]

Submitted(p, lines) ==
  /\ state' = [state EXCEPT ![p] = "submitted"]
  /\ Settle(Taken(lines))
  /\ bank' = bank + PayTotal[p] * PayRate[p]
  /\ control' = control - ControlDrop(p, lines)

(* No test against the payment or the invoices. *)
CommitCreate(w) ==
  LET p == Payment(w) IN
  /\ allocs' = [allocs EXCEPT ![p] = Lines(w)]
  /\ unallocated' = [unallocated EXCEPT ![p] = PayTotal[p] - Amounts(Lines(w))]
  /\ IF request[w].submit THEN Submitted(p, Lines(w))
     ELSE /\ state' = [state EXCEPT ![p] = "draft"]
          /\ UNCHANGED <<outstanding, invState, bank, control>>

CommitRemove(w) ==
  /\ state' = [state EXCEPT ![Payment(w)] = "absent"]
  /\ allocs' = [allocs EXCEPT ![Payment(w)] = <<>>]
  /\ unallocated' = [unallocated EXCEPT ![Payment(w)] = 0]
  /\ UNCHANGED <<outstanding, invState, bank, control>>

CommitSubmit(w) ==
  /\ Submitted(Payment(w), Lines(w))
  /\ UNCHANGED <<allocs, unallocated>>

(* Mutant: the allocations of a draft kept beside the new ones. *)
KeptAllocsAll(p) == allocs[p]
KeptAllocs(p) == IF state[p] = "draft" THEN <<>> ELSE allocs[p]

CommitAllocate(w) ==
  LET p == Payment(w) IN
  /\ allocs' = [allocs EXCEPT ![p] = KeptAllocs(p) \o Lines(w)]
  /\ unallocated' = [unallocated EXCEPT ![p] = Available(w) - Amounts(Lines(w))]
  /\ IF state[p] = "submitted"
     THEN /\ Settle(Taken(Lines(w)))
          /\ control' = control - LateDrops(w, Lines(w))
     ELSE UNCHANGED <<outstanding, invState, control>>
  /\ UNCHANGED <<state, bank>>

(* The reversal takes no account of rates and discounts.                   *)
CommitCancel(w) ==
  LET p == Payment(w) IN
  /\ state' = [state EXCEPT ![p] = "cancelled"]
  /\ Settle(Restored(allocs[p]))
  /\ bank' = bank - PayTotal[p]
  /\ control' = control + PayTotal[p]
  /\ UNCHANGED <<allocs, unallocated>>

CommitVoid(w) ==
  LET d == request[w].invoice IN
  /\ invState' = [invState EXCEPT ![d] = "cancelled"]
  /\ control' = control - InvTotal[d] * InvRate[d]
  /\ UNCHANGED <<state, allocs, unallocated, outstanding, bank>>

(* An update of a row that was removed meanwhile changes nothing. *)
CommitBatch(w) ==
  /\ state' = [p \in Payments |->
       IF p \in heldPays[w] /\ state[p] # "absent" THEN BatchState(w) ELSE state[p]]
  /\ UNCHANGED <<allocs, unallocated, outstanding, invState, bank, control>>

WrittenOver(w) ==
  {p \in heldPays[w] :
     Kind(w) \in Batches /\ state[p] \notin {"absent", seen[w][p], BatchState(w)}}

Commit(w) ==
  /\ pc[w] = "commit"
  /\ overwritten' = overwritten \cup WrittenOver(w)
  /\ \/ Kind(w) = "create" /\ CommitCreate(w)
     \/ Kind(w) = "remove" /\ CommitRemove(w)
     \/ Kind(w) = "submit" /\ CommitSubmit(w)
     \/ Kind(w) = "allocate" /\ CommitAllocate(w)
     \/ Kind(w) = "cancel" /\ CommitCancel(w)
     \/ Kind(w) = "void" /\ CommitVoid(w)
     \/ Kind(w) \in Batches /\ CommitBatch(w)
  /\ Finish(w)

(***************************************************************************)
(* Waiting, deadlocks and failures.                                        *)
(***************************************************************************)
Waits(w, v) ==
  \/ pc[w] = "payment" /\ ~PayFree(w) /\ v \in PayBlockers(w, Payment(w))
  \/ pc[w] = "write" /\ v \in PayBlockers(w, Head(todo[w]))
  \/ /\ pc[w] \in {"invoices", "settle"}
     /\ \A d \in InvoicesLeft(w) : InvBlockers(w, d) # {}
     /\ \E d \in InvoicesLeft(w) : v \in InvBlockers(w, d)
  \/ pc[w] = "post" /\ ~LedgerFree(w) /\ v = ledgerLock

(* Mutant: nobody looks for cycles. *)
DeadlockedNever(w) == FALSE
Deadlocked(w) ==
  \E S \in SUBSET Workers :
    /\ w \in S
    /\ \A u \in S : (\E v \in S : Waits(u, v)) /\ (\E v \in S : Waits(v, u))

ResolveDeadlock(w) == Deadlocked(w) /\ Abort(w)

(* The connection or the API process dies. *)
Lose(w) == pc[w] \in Active /\ Abort(w)

Step(w) ==
  \/ LockPayment(w) \/ RefusePayment(w) \/ LockInvoice(w) \/ InvoicesLocked(w)
  \/ Check(w) \/ RefuseCheck(w) \/ TakeLedger(w)
  \/ ReadBatch(w) \/ RefuseBatch(w) \/ ReadState(w) \/ RefuseState(w) \/ WriteState(w)
  \/ Commit(w)

Next == \E w \in Workers : Begin(w) \/ Step(w) \/ ResolveDeadlock(w) \/ Lose(w)

(* Postgres and the event loop drive an open transaction on, and who waits *)
(* for a lock gets it in turn, so that later requests do not overtake it   *)
(* for ever.  Nobody owes the API a request, and nothing makes a           *)
(* connection fail.                                                        *)
Fairness ==
  /\ \A w \in Workers : SF_vars(Step(w))
  /\ WF_vars(\E w \in Workers : ResolveDeadlock(w))

Spec == Init /\ [][Next]_vars
FairSpec == Spec /\ Fairness

-------------------------------------------------------------------------------
(***************************************************************************)
(* Properties.                                                             *)
(***************************************************************************)
(* Tables, programs and locks have their types.                            *)
TypeOK ==
  /\ state \in [Payments -> PayStates]
  /\ allocs \in [Payments -> Seq(Line)]
  /\ unallocated \in [Payments -> Int]
  /\ outstanding \in [Invoices -> Int]
  /\ invState \in [Invoices -> InvStates]
  /\ bank \in Int /\ control \in Int
  /\ pc \in [Workers -> {"idle"} \cup Active]
  /\ request \in [Workers -> Requests]
  /\ todo \in [Workers -> Seq(Payments)]
  /\ seen \in [Workers -> [Payments -> PayStates]]
  /\ \A w \in Workers : pc[w] \in {"change", "write"} =>
       Kind(w) \in Batches /\ todo[w] # <<>>
  /\ heldPays \in [Workers -> SUBSET Payments]
  /\ heldInvs \in [Workers -> SUBSET Invoices]
  /\ ledgerLock \in Workers \cup {NoWorker}
  /\ overwritten \subseteq Payments

(* What a payment has left is its total less its allocations, through      *)
(* drafts that are allocated anew, late allocations and cancellations.     *)
UnallocatedAgrees ==
  \A p \in Payments : state[p] # "absent" =>
    unallocated[p] = PayTotal[p] - Amounts(allocs[p])

(* An invoice is outstanding by its total less what the submitted payments *)
(* have taken off it: a cancelled payment leaves no trace.  A payment that *)
(* a batch puts back into an earlier state is settled all the same: the    *)
(* books are claimed to agree as long as none has been.                    *)
Settled(d) ==
  SumFunctionOnSet([p \in Payments |-> CreditsOn(d, allocs[p])],
                   {p \in Payments : state[p] = "submitted"})
OutstandingExplained ==
  overwritten = {} =>
    \A d \in Invoices : outstanding[d] = InvTotal[d] - Settled(d)

(* The ledger agrees with the documents: the bank holds every submitted    *)
(* payment once, and the receivables account is what the invoices have     *)
(* outstanding less what the submitted payments have not allocated, each   *)
(* at its own rate.  A cancelled invoice counts what was paid on it.       *)
(* cancelPayment takes the total back without its rates, so what the books *)
(* are off by is that, for every cancelled payment, and nothing else.      *)
Receivable(d) ==
  (outstanding[d] - (IF invState[d] = "cancelled" THEN InvTotal[d] ELSE 0)) * InvRate[d]
SumIn(code, Value(_)) ==
  SumFunctionOnSet([p \in Payments |-> Value(p)], {p \in Payments : state[p] = code})
BankLeftover(p) == PayTotal[p] * (PayRate[p] - 1)
ControlLeftover(p) ==
  LinesSum(allocs[p], LAMBDA l : l.amount * (InvRate[l.invoice] - 1))
  + unallocated[p] * (PayRate[p] - 1)
BankAgrees ==
  bank = SumIn("submitted", LAMBDA p : PayTotal[p] * PayRate[p])
         + SumIn("cancelled", BankLeftover)
ControlAgrees ==
  control = SumFunction([d \in Invoices |-> Receivable(d)])
            - SumIn("submitted", LAMBDA p : unallocated[p] * PayRate[p])
            - SumIn("cancelled", ControlLeftover)
LedgersAgree == overwritten = {} => BankAgrees /\ ControlAgrees

(* The drafts never promise more of an invoice than is outstanding,        *)
(* although an allocation reads the other drafts without locking them: the *)
(* invoice's lock keeps them from growing.  For drafts without a discount, *)
(* as long as no batch made a draft of a payment that is not one.          *)
PromisesFit ==
  overwritten = {} =>
    \A d \in Invoices :
      SumIn("draft", LAMBDA p : AmountsOn(d, allocs[p])) <= outstanding[d]

(* A payment leaves PAYMENT_TRANSITIONS in one way only, whatever requests *)
(* for it wait for each other: a batch writes the state it read without a  *)
(* lock over one that another request has changed since.                   *)
Moves(p) ==
  \/ state[p] = "absent" /\ state'[p] \in {"draft", "submitted"}
  \/ state[p] = "draft" /\ state'[p] = "absent"
  \/ state'[p] \in Transitions[state[p]]
StatesFollowMachine ==
  [][\A p \in Payments : state'[p] # state[p] => Moves(p) \/ p \in overwritten']_vars

(* A request that was started ends, although submissions lock the ledger   *)
(* before the invoices and allocations the invoices before the ledger.     *)
PaymentsFinish == \A w \in Workers : []<>(pc[w] = "idle")
-------------------------------------------------------------------------------
(***************************************************************************)
(* What some of the properties rely on the callers for.                    *)
(***************************************************************************)
(* No early payment discount is granted on a payment that is cancelled:    *)
(* cancelPayment does not give it back.                                    *)
Cancellable(p) == \E r \in Requests : r.kind = "cancel" /\ r.payment = p
FullPrice(lines) == \A i \in DOMAIN lines : lines[i].discount = 0
CancelsUndiscounted ==
  \A r \in Requests : r.kind \in {"create", "allocate"} /\ Cancellable(r.payment) =>
    FullPrice(r.lines)

Allocates(r) == r.kind \in {"create", "allocate"}
Touches(lines, d) == \E i \in DOMAIN lines : lines[i].invoice = d
OneLineOn(lines, d) ==
  \A i, j \in DOMAIN lines : lines[i].invoice = d /\ lines[j].invoice = d => i = j
Exportable(p) == \E r \in Requests : r.kind = "export" /\ p \in Range(r.payments)
Draftable(p) == \E r \in Requests : r.kind = "create" /\ r.payment = p /\ ~r.submit

(* Every promise on an invoice is tested against those of others: it is    *)
(* made by allocatePayment, which compares each line by itself, of drafts  *)
(* that are not exported, as the test does not count exported payments,    *)
(* and without a discount, which it does not count either.                 *)
Tested(d) ==
  \A r \in Requests : Allocates(r) /\ Touches(r.lines, d) =>
    /\ r.kind = "allocate" /\ OneLineOn(r.lines, d)
    /\ ~Exportable(r.payment)
    /\ Draftable(r.payment) =>
         \A i \in DOMAIN r.lines : r.lines[i].invoice = d => r.lines[i].discount = 0

(* Or one payment only is allocated to it.                                 *)
OwnedBy(d, p) ==
  \A r \in Requests : Allocates(r) /\ Touches(r.lines, d) =>
    /\ r.payment = p
    /\ IF r.kind = "create" THEN CreditsOn(d, r.lines) <= InvTotal[d] ELSE OneLineOn(r.lines, d)
Uncontested(d) == \E p \in Payments : OwnedBy(d, p)
PromisesTested == \A d \in Invoices : Tested(d) \/ Uncontested(d)
===============================================================================
