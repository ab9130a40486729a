----------------------------- MODULE PaymentsProofs -----------------------------
(***************************************************************************)
(* Proofs about Payments.                                                  *)
(*                                                                         *)
(* The argument is about locks: from the test of its state to the commit,  *)
(* a payment is held by one transaction only, and no other commit touches  *)
(* a payment that it does not hold.                                        *)
(***************************************************************************)
EXTENDS Payments, Sums, SequenceTheorems

(***************************************************************************)
(* Requests and the programs that run them.                                *)
(***************************************************************************)
PayKinds == {"create", "remove", "submit", "allocate", "cancel"}

LEMMA RequestTyped ==
  ASSUME NEW r \in Requests
  PROVE  /\ r.kind \in PayKinds \cup Batches \cup {"void"}
         /\ r.kind \in PayKinds => r.payment \in Payments
         /\ r.kind \in {"create", "allocate"} => r.lines \in Seq(Line)
         /\ r.kind \in Batches => r.payments \in Seq(Payments) /\ r.payments # <<>>
         /\ r.kind = "void" => r.invoice \in Invoices
  <1>1. r \in Request
    BY PaymentAssumption
  <1>2. CASE r \in [kind : {"create"}, payment : Payments, lines : Seq(Line), submit : BOOLEAN]
    BY <1>2 DEF PayKinds, Batches
  <1>3. CASE r \in [kind : {"allocate"}, payment : Payments, lines : Seq(Line)]
    BY <1>3 DEF PayKinds, Batches
  <1>4. CASE r \in [kind : {"submit", "cancel", "remove"}, payment : Payments]
    BY <1>4 DEF PayKinds, Batches
  <1>5. CASE r \in [kind : {"export", "reject"}, payments : BatchList]
    BY <1>5 DEF PayKinds, Batches, BatchList
  <1>6. CASE r \in [kind : {"void"}, invoice : Invoices]
    BY <1>6 DEF PayKinds, Batches
  <1> QED BY <1>1, <1>2, <1>3, <1>4, <1>5, <1>6 DEF Request

LEMMA RequestChosen == NoRequest \in Requests
  BY PaymentAssumption DEF NoRequest

ControlOf(w) ==
  /\ pc[w] = "payment" => Kind(w) \in PayKinds
  /\ pc[w] = "invoices" => Kind(w) \in {"allocate", "cancel", "void"}
  /\ pc[w] = "check" => Kind(w) \in {"allocate", "void"}
  /\ pc[w] = "post" => Kind(w) \in {"create", "submit", "allocate", "cancel", "void"}
  /\ pc[w] = "settle" => Kind(w) \in {"create", "submit"}
  /\ pc[w] \in {"batch", "change", "write"} => Kind(w) \in Batches
  /\ pc[w] \in {"change", "write"} => todo[w] # <<>>
ControlOK == \A w \in Workers : ControlOf(w)

Acts(w) == Begin(w) \/ Step(w) \/ ResolveDeadlock(w) \/ Lose(w)

(* The steps that end the transaction.                                     *)
Ends(w) ==
  \/ RefusePayment(w) \/ RefuseCheck(w) \/ RefuseBatch(w) \/ RefuseState(w)
  \/ ResolveDeadlock(w) \/ Lose(w) \/ Commit(w)

LEMMA EndsFinish ==
  ASSUME NEW w, Ends(w)
  PROVE  Finish(w)
  BY DEF Ends, RefusePayment, RefuseCheck, RefuseBatch, RefuseState, ResolveDeadlock, Lose, Commit,
         Abort

(* A step of one worker leaves alone what is local to the others.          *)
LEMMA Frame ==
  ASSUME TypeOK, NEW w \in Workers, Acts(w), NEW u \in Workers, u # w
  PROVE  /\ pc'[u] = pc[u] /\ request'[u] = request[u] /\ todo'[u] = todo[u]
         /\ seen'[u] = seen[u]
         /\ heldPays'[u] = heldPays[u] /\ heldInvs'[u] = heldInvs[u]
  <1>1. ASSUME Finish(w)
        PROVE  /\ pc'[u] = pc[u] /\ request'[u] = request[u] /\ todo'[u] = todo[u]
               /\ seen'[u] = seen[u]
               /\ heldPays'[u] = heldPays[u] /\ heldInvs'[u] = heldInvs[u]
    BY <1>1 DEF Finish, Goto, TypeOK
  <1>2. CASE Begin(w)
    BY <1>2 DEF Begin, Goto, locks, TypeOK
  <1>3. CASE LockPayment(w) \/ LockInvoice(w) \/ InvoicesLocked(w) \/ Check(w) \/ TakeLedger(w)
    BY <1>3 DEF LockPayment, LockInvoice, InvoicesLocked, Check, TakeLedger, Goto, locks, batch, TypeOK
  <1>4. CASE Ends(w)
    BY <1>1, <1>4, EndsFinish
  <1>5. CASE ReadBatch(w) \/ ReadState(w)
    BY <1>5 DEF ReadBatch, ReadState, Goto, locks, TypeOK
  <1>6. CASE WriteState(w)
    BY <1>6 DEF WriteState, Goto, TypeOK
  <1> QED BY <1>2, <1>3, <1>4, <1>5, <1>6 DEF Acts, Step, Ends

(* What happens to its own program.                                        *)
LEMMA Finished ==
  ASSUME TypeOK, NEW w \in Workers, Finish(w)
  PROVE  /\ pc'[w] = "idle" /\ request'[w] = NoRequest /\ todo'[w] = <<>>
         /\ heldPays'[w] = {} /\ heldInvs'[w] = {}
  BY DEF Finish, Goto, TypeOK

(* The tables change by commits only.                                      *)
LEMMA TablesChange ==
  ASSUME NEW w \in Workers, Acts(w)
  PROVE  UNCHANGED tables \/ Commit(w)
  BY DEF Acts, Step, Begin, LockPayment, RefusePayment, LockInvoice, InvoicesLocked, Check,
         RefuseCheck, TakeLedger, ReadBatch, RefuseBatch, ReadState, RefuseState, WriteState,
         ResolveDeadlock, Lose, Abort

(* What export takes up is a list of payments, and not an empty one.       *)
LEMMA OrdersAre ==
  ASSUME NEW S, S \subseteq Payments, S # {}, NEW ps \in Orders(S)
  PROVE  ps \in Seq(Payments) /\ ps # <<>>
  <1>1. IsFiniteSet(S) /\ Cardinality(S) \in Nat
    BY PaymentAssumption, FS_Subset, FS_CardinalityType
  <1>2. ps \in [1..Cardinality(S) -> S] /\ Range(ps) = S
    BY DEF Orders
  <1>3. ps \in Seq(S)
    BY <1>1, <1>2, SeqDef
  <1>4. ps \in [1..Cardinality(S) -> Payments]
    BY <1>2
  <1>5. ps \in Seq(Payments)
    BY <1>1, <1>4, SeqDef
  <1>6. ps # <<>>
    <2>1. Range(<<>>) = {}
      BY DEF Range
    <2> QED BY <1>2, <2>1
  <1> QED BY <1>5, <1>6

LEMMA FoundTyped ==
  ASSUME TypeOK, NEW w \in Workers, ControlOf(w), pc[w] = "batch"
  PROVE  Found(w) \subseteq Payments
  <1>1. request[w] \in Requests /\ request[w].kind \in Batches
    BY DEF TypeOK, ControlOf, Kind
  <1>2. request[w].payments \in Seq(Payments)
    BY <1>1, RequestTyped
  <1>3. \A i \in DOMAIN request[w].payments : request[w].payments[i] \in Payments
    BY <1>2, ElementOfSeq, LenProperties
  <1> QED BY <1>3 DEF Found, Range

LEMMA OwnControl ==
  ASSUME TypeOK, NEW w \in Workers, ControlOf(w), Acts(w)
  PROVE  ControlOf(w)'
  <1> USE DEF Kind, ControlOf
  <1>1. CASE Ends(w)
    BY <1>1, EndsFinish, Finished
  <1>2. CASE Begin(w)
    <2>1. PICK r \in Requests : /\ request'[w] = r /\ pc'[w] = FirstStep(r)
                                /\ todo'[w] = IF r.kind = "reject" THEN r.payments ELSE <<>>
      BY <1>2 DEF Begin, Goto, TypeOK
    <2>2. r.kind \in Batches => r.payments # <<>>
      BY RequestTyped
    <2> QED BY <2>1, <2>2, RequestTyped DEF FirstStep, Batches, PayKinds
  <1>3. CASE LockPayment(w)
    BY <1>3 DEF LockPayment, Goto, AfterPayment, TypeOK, PayKinds, Batches
  <1>4. CASE LockInvoice(w)
    BY <1>4 DEF LockInvoice, TypeOK
  <1>5. CASE InvoicesLocked(w)
    BY <1>5 DEF InvoicesLocked, Goto, locks, TypeOK
  <1>6. CASE Check(w)
    BY <1>6 DEF Check, Goto, locks, TypeOK
  <1>7. CASE TakeLedger(w)
    BY <1>7 DEF TakeLedger, Goto, TypeOK
  <1>8. CASE ReadBatch(w)
    <2>1. /\ pc[w] = "batch" /\ pc'[w] = "change" /\ request'[w] = request[w]
          /\ Found(w) # {} /\ \E ps \in Orders(Found(w)) : todo'[w] = ps
      BY <1>8 DEF ReadBatch, Goto, TypeOK
    <2>2. todo'[w] # <<>>
      BY <2>1, FoundTyped, OrdersAre
    <2> QED BY <2>1, <2>2
  <1>9. CASE ReadState(w)
    BY <1>9 DEF ReadState, Goto, TypeOK
  <1>10. CASE WriteState(w)
    <2>1. /\ pc[w] = "write" /\ request'[w] = request[w] /\ todo'[w] = Tail(todo[w])
          /\ pc'[w] = IF MoreInBatch(w) THEN "change" ELSE "commit"
      BY <1>10 DEF WriteState, Goto, TypeOK
    <2>2. todo[w] \in Seq(Payments) /\ todo[w] # <<>>
      BY <2>1 DEF TypeOK
    <2>3. Len(Tail(todo[w])) = Len(todo[w]) - 1 /\ Len(todo[w]) \in Nat
      BY <2>2, HeadTailProperties, LenProperties
    <2>4. ASSUME MoreInBatch(w), Tail(todo[w]) = <<>> PROVE FALSE
      <3> DEFINE m == Len(todo[w])
                 n == Len(Tail(todo[w]))
      <3>1. Len(<<>>) = 0
        BY EmptySeq
      <3>2. m > 1
        BY <2>4 DEF MoreInBatch
      <3>3. n = 0
        BY <2>4, <3>1, Zenon
      <3>4. n = m - 1 /\ m \in Nat
        BY <2>3
      <3> HIDE DEF m, n
      <3> QED BY <3>2, <3>3, <3>4
    <2> QED BY <2>1, <2>4
  <1> QED BY <1>1, <1>2, <1>3, <1>4, <1>5, <1>6, <1>7, <1>8, <1>9, <1>10 DEF Acts, Step, Ends

LEMMA ControlStep ==
  ASSUME TypeOK, ControlOK, NEW w \in Workers, Acts(w)
  PROVE  ControlOK'
  <1>1. \A u \in Workers \ {w} : pc'[u] = pc[u] /\ request'[u] = request[u] /\ todo'[u] = todo[u]
    BY Frame
  <1>2. \A u \in Workers \ {w} : ControlOf(u)'
    BY <1>1 DEF ControlOK, ControlOf, Kind
  <1> QED BY <1>2, OwnControl DEF ControlOK
-------------------------------------------------------------------------------
(***************************************************************************)
(* Types.                                                                  *)
(***************************************************************************)
LEMMA LinesAre ==
  ASSUME NEW lines \in Seq(Line)
  PROVE  /\ Len(lines) \in Nat /\ DOMAIN lines = 1..Len(lines) /\ IsFiniteSet(DOMAIN lines)
         /\ \A i \in DOMAIN lines :
              /\ lines[i] \in Line
              /\ lines[i].invoice \in Invoices
              /\ lines[i].amount \in Nat /\ lines[i].discount \in Nat
  <1>1. Len(lines) \in Nat /\ DOMAIN lines = 1..Len(lines)
    BY LenProperties
  <1>2. IsFiniteSet(1..Len(lines))
    BY <1>1, FS_Interval
  <1>3. \A i \in DOMAIN lines : lines[i] \in Line
    BY <1>1, ElementOfSeq
  <1> QED BY <1>1, <1>2, <1>3 DEF Line

LEMMA LinesSumType ==
  ASSUME NEW lines \in Seq(Line), NEW f, DOMAIN f = DOMAIN lines,
         \A i \in DOMAIN lines : f[i] \in Int
  PROVE  SumFunction(f) \in Int
  <1>1. IsFiniteSet(DOMAIN f) /\ \A i \in DOMAIN f : f[i] \in Int
    BY LinesAre
  <1>2. SumFunctionOnSet(f, DOMAIN f) \in Int
    BY <1>1, SumType
  <1> QED BY <1>2 DEF SumFunction

LEMMA AmountsType ==
  ASSUME NEW lines \in Seq(Line)
  PROVE  Amounts(lines) \in Int
  <1> DEFINE f == [i \in DOMAIN lines |-> lines[i].amount]
  <1>1. DOMAIN f = DOMAIN lines /\ \A i \in DOMAIN lines : f[i] \in Int
    BY LinesAre
  <1>2. Amounts(lines) = SumFunction(f)
    BY DEF Amounts, LinesSum
  <1> HIDE DEF f
  <1> QED BY <1>1, <1>2, LinesSumType

LEMMA AmountsOnType ==
  ASSUME NEW lines \in Seq(Line), NEW d
  PROVE  AmountsOn(d, lines) \in Int
  <1> DEFINE f == [i \in DOMAIN lines |-> IF lines[i].invoice = d THEN lines[i].amount ELSE 0]
  <1>1. DOMAIN f = DOMAIN lines /\ \A i \in DOMAIN lines : f[i] \in Int
    BY LinesAre
  <1>2. AmountsOn(d, lines) = SumFunction(f)
    BY DEF AmountsOn, SumOn, LinesSum
  <1> HIDE DEF f
  <1> QED BY <1>1, <1>2, LinesSumType

LEMMA CreditsOnType ==
  ASSUME NEW lines \in Seq(Line), NEW d
  PROVE  CreditsOn(d, lines) \in Int
  <1> DEFINE f == [i \in DOMAIN lines |->
                     IF lines[i].invoice = d THEN lines[i].amount + lines[i].discount ELSE 0]
  <1>1. DOMAIN f = DOMAIN lines /\ \A i \in DOMAIN lines : f[i] \in Int
    BY LinesAre
  <1>2. CreditsOn(d, lines) = SumFunction(f)
    BY DEF CreditsOn, SumOn, LinesSum
  <1> HIDE DEF f
  <1> QED BY <1>1, <1>2, LinesSumType

LEMMA ControlDropType ==
  ASSUME NEW lines \in Seq(Line), NEW p \in Payments
  PROVE  ControlDrop(p, lines) \in Int
  <1> DEFINE f == [i \in DOMAIN lines |->
                     (lines[i].amount + lines[i].discount) * InvRate[lines[i].invoice]]
             rest == (PayTotal[p] - Amounts(lines)) * PayRate[p]
  <1>1. ASSUME NEW i \in DOMAIN lines PROVE f[i] \in Int
    <2>1. lines[i].amount + lines[i].discount \in Int /\ InvRate[lines[i].invoice] \in Int
      BY LinesAre, PaymentAssumption
    <2> QED BY <2>1
  <1>2. ControlDrop(p, lines) = SumFunction(f) + rest
    BY DEF ControlDrop, LinesSum
  <1>3. rest \in Int
    <2>1. PayTotal[p] - Amounts(lines) \in Int /\ PayRate[p] \in Int
      BY AmountsType, PaymentAssumption
    <2> QED BY <2>1
  <1>4. DOMAIN f = DOMAIN lines
    OBVIOUS
  <1> HIDE DEF f, rest
  <1>5. SumFunction(f) \in Int
    BY <1>1, <1>4, LinesSumType
  <1> QED BY <1>2, <1>3, <1>5

LEMMA LateDropType ==
  ASSUME NEW w, Payment(w) \in Payments, NEW lines \in Seq(Line)
  PROVE  LateDrops(w, lines) \in Int
  <1> DEFINE f == [i \in DOMAIN lines |->
                     (lines[i].amount + lines[i].discount) * InvRate[lines[i].invoice]
                     - lines[i].amount * PayRate[Payment(w)]]
  <1>1. ASSUME NEW i \in DOMAIN lines PROVE f[i] \in Int
    <2>1. /\ lines[i].amount + lines[i].discount \in Int /\ InvRate[lines[i].invoice] \in Int
          /\ lines[i].amount \in Int /\ PayRate[Payment(w)] \in Int
      BY LinesAre, PaymentAssumption
    <2> QED BY <2>1
  <1>2. LateDrops(w, lines) = SumFunction(f)
    BY DEF LateDrops, LateDrop, LinesSum
  <1>3. DOMAIN f = DOMAIN lines
    OBVIOUS
  <1> HIDE DEF f
  <1> QED BY <1>1, <1>2, <1>3, LinesSumType

LEMMA WorkTyped ==
  ASSUME TypeOK, NEW w \in Workers
  PROVE  /\ Kind(w) \in PayKinds => Payment(w) \in Payments /\ Lines(w) \in Seq(Line)
         /\ Kind(w) = "void" => request[w].invoice \in Invoices
         /\ Kind(w) \in PayKinds \cup Batches \cup {"void"}
  <1>1. request[w] \in Requests
    BY DEF TypeOK
  <1>2. Kind(w) \in PayKinds => Payment(w) \in Payments
    BY <1>1, RequestTyped DEF Kind, Payment
  <1>3. Kind(w) \in PayKinds => Lines(w) \in Seq(Line)
    BY <1>1, <1>2, RequestTyped DEF Kind, Lines, TypeOK
  <1> QED BY <1>1, <1>2, <1>3, RequestTyped DEF Kind

LEMMA SettleTyped ==
  ASSUME TypeOK, NEW change, \A d \in Invoices : change[d] \in Int, Settle(change)
  PROVE  outstanding' \in [Invoices -> Int] /\ invState' \in [Invoices -> InvStates]
  <1>1. \A d \in Invoices : outstanding[d] + change[d] \in Int
    BY DEF TypeOK
  <1>2. \A d \in Invoices : \A left \in Int : Lifecycle(d, left) \in InvStates
    BY DEF Lifecycle, InvStates
  <1>3. outstanding' \in [Invoices -> Int]
    BY <1>1 DEF Settle
  <1>4. \A d \in Invoices : outstanding'[d] \in Int
    BY <1>3
  <1> QED BY <1>2, <1>3, <1>4 DEF Settle, TypeOK

LEMMA SubmittedTyped ==
  ASSUME TypeOK, NEW p \in Payments, NEW lines \in Seq(Line), Submitted(p, lines)
  PROVE  /\ state' \in [Payments -> PayStates]
         /\ outstanding' \in [Invoices -> Int] /\ invState' \in [Invoices -> InvStates]
         /\ bank' \in Int /\ control' \in Int
  <1>1. \A d \in Invoices : Taken(lines)[d] \in Int
    BY CreditsOnType DEF Taken
  <1>2. outstanding' \in [Invoices -> Int] /\ invState' \in [Invoices -> InvStates]
    BY <1>1, SettleTyped DEF Submitted
  <1>3. PayTotal[p] * PayRate[p] \in Int
    <2>1. PayTotal[p] \in Int /\ PayRate[p] \in Int
      BY PaymentAssumption
    <2> QED BY <2>1
  <1>4. bank' \in Int
    BY <1>3 DEF Submitted, TypeOK
  <1>5. control' \in Int
    BY ControlDropType DEF Submitted, TypeOK
  <1>6. state' \in [Payments -> PayStates]
    BY DEF Submitted, TypeOK, PayStates
  <1> QED BY <1>2, <1>4, <1>5, <1>6

TablesTyped ==
  /\ state \in [Payments -> PayStates]
  /\ allocs \in [Payments -> Seq(Line)]
  /\ unallocated \in [Payments -> Int]
  /\ outstanding \in [Invoices -> Int]
  /\ invState \in [Invoices -> InvStates]
  /\ bank \in Int /\ control \in Int

LEMMA CommitTyped ==
  ASSUME TypeOK, NEW w \in Workers, Commit(w)
  PROVE  TablesTyped'
  <1> USE DEF TablesTyped
  <1> DEFINE p == Payment(w)
             lines == Lines(w)
  <1>0. Kind(w) \in PayKinds => p \in Payments /\ lines \in Seq(Line)
    BY WorkTyped
  <1>1. CASE Kind(w) = "create" /\ CommitCreate(w)
    <2>1. p \in Payments /\ lines \in Seq(Line)
      BY <1>0, <1>1 DEF PayKinds
    <2>2. PayTotal[p] - Amounts(lines) \in Int
      BY <2>1, AmountsType, PaymentAssumption
    <2>3. allocs' \in [Payments -> Seq(Line)] /\ unallocated' \in [Payments -> Int]
      BY <1>1, <2>1, <2>2 DEF CommitCreate, TypeOK
    <2>4. CASE request[w].submit
      BY <1>1, <2>1, <2>3, <2>4, SubmittedTyped DEF CommitCreate
    <2>5. CASE ~request[w].submit
      BY <1>1, <2>1, <2>3, <2>5 DEF CommitCreate, TypeOK, PayStates
    <2> QED BY <2>4, <2>5
  <1>2. CASE Kind(w) = "remove" /\ CommitRemove(w)
    <2>1. <<>> \in Seq(Line)
      BY EmptySeq
    <2> QED BY <1>0, <1>2, <2>1 DEF CommitRemove, TypeOK, PayStates, PayKinds
  <1>3. CASE Kind(w) = "submit" /\ CommitSubmit(w)
    BY <1>0, <1>3, SubmittedTyped DEF CommitSubmit, TypeOK, PayKinds
  <1>4. CASE Kind(w) = "allocate" /\ CommitAllocate(w)
    <2>1. p \in Payments /\ lines \in Seq(Line)
      BY <1>0, <1>4 DEF PayKinds
    <2>2. KeptAllocs(p) \in Seq(Line)
      BY <2>1, EmptySeq DEF KeptAllocs, TypeOK
    <2>3. KeptAllocs(p) \o lines \in Seq(Line)
      BY <2>1, <2>2, ConcatProperties
    <2>4. Available(w) - Amounts(lines) \in Int
      BY <2>1, AmountsType, PaymentAssumption DEF Available, TypeOK
    <2>5. allocs' \in [Payments -> Seq(Line)] /\ unallocated' \in [Payments -> Int]
      BY <1>4, <2>1, <2>3, <2>4 DEF CommitAllocate, TypeOK
    <2>6. UNCHANGED <<state, bank>>
      BY <1>4 DEF CommitAllocate
    <2>7. CASE state[p] = "submitted"
      <3>1. \A d \in Invoices : Taken(lines)[d] \in Int
        BY <2>1, CreditsOnType DEF Taken
      <3>2. outstanding' \in [Invoices -> Int] /\ invState' \in [Invoices -> InvStates]
        BY <1>4, <2>7, <3>1, SettleTyped DEF CommitAllocate
      <3>3. LateDrops(w, lines) \in Int
        BY <2>1, LateDropType
      <3>4. control' \in Int
        BY <1>4, <2>7, <3>3 DEF CommitAllocate, TypeOK
      <3> QED BY <2>5, <2>6, <3>2, <3>4 DEF TypeOK
    <2>8. CASE state[p] # "submitted"
      BY <1>4, <2>5, <2>6, <2>8 DEF CommitAllocate, TypeOK
    <2> QED BY <2>7, <2>8
  <1>5. CASE Kind(w) = "cancel" /\ CommitCancel(w)
    <2>1. p \in Payments /\ allocs[p] \in Seq(Line)
      BY <1>0, <1>5 DEF PayKinds, TypeOK
    <2>2. \A d \in Invoices : Restored(allocs[p])[d] \in Int
      BY <2>1, AmountsOnType DEF Restored
    <2>3. outstanding' \in [Invoices -> Int] /\ invState' \in [Invoices -> InvStates]
      BY <1>5, <2>2, SettleTyped DEF CommitCancel
    <2> QED BY <1>5, <2>1, <2>3, PaymentAssumption DEF CommitCancel, TypeOK, PayStates
  <1>6. CASE Kind(w) = "void" /\ CommitVoid(w)
    <2>1. request[w].invoice \in Invoices
      BY <1>6, WorkTyped
    <2>2. InvTotal[request[w].invoice] * InvRate[request[w].invoice] \in Int
      <3>1. InvTotal[request[w].invoice] \in Int /\ InvRate[request[w].invoice] \in Int
        BY <2>1, PaymentAssumption
      <3> QED BY <3>1
    <2> QED BY <1>6, <2>1, <2>2 DEF CommitVoid, TypeOK, InvStates
  <1>7. CASE Kind(w) \in Batches /\ CommitBatch(w)
    BY <1>7 DEF CommitBatch, BatchState, TypeOK, PayStates
  <1> QED BY <1>1, <1>2, <1>3, <1>4, <1>5, <1>6, <1>7 DEF Commit

LEMMA TablesTypedStep ==
  ASSUME TypeOK, NEW w \in Workers, Acts(w)
  PROVE  TablesTyped'
  BY TablesChange, CommitTyped DEF TypeOK, TablesTyped, tables

LEMMA FinishTyped ==
  ASSUME TypeOK, NEW w \in Workers, Finish(w)
  PROVE  /\ pc' \in [Workers -> {"idle"} \cup Active] /\ request' \in [Workers -> Requests]
         /\ todo' \in [Workers -> Seq(Payments)] /\ seen' \in [Workers -> [Payments -> PayStates]]
         /\ heldPays' \in [Workers -> SUBSET Payments] /\ heldInvs' \in [Workers -> SUBSET Invoices]
         /\ ledgerLock' \in Workers \cup {NoWorker}
  <1>1. <<>> \in Seq(Payments) /\ NothingSeen \in [Payments -> PayStates]
    BY EmptySeq DEF NothingSeen, PayStates
  <1> QED BY <1>1, RequestChosen DEF Finish, Goto, TypeOK

LEMMA InvoicesTyped ==
  ASSUME TypeOK, ControlOK, NEW w \in Workers, pc[w] \in {"invoices", "settle"}
  PROVE  InvoicesNeeded(w) \subseteq Invoices
  <1>1. Kind(w) \in {"allocate", "cancel", "void", "create", "submit"}
    BY DEF ControlOK, ControlOf
  <1>2. CASE Kind(w) = "void"
    BY <1>2, WorkTyped DEF InvoicesNeeded
  <1>3. CASE Kind(w) # "void"
    <2>1. Lines(w) \in Seq(Line)
      BY <1>1, <1>3, WorkTyped DEF PayKinds
    <2>2. \A i \in DOMAIN Lines(w) : Lines(w)[i].invoice \in Invoices
      BY <2>1, LinesAre DEF Line
    <2> QED BY <1>3, <2>2 DEF InvoicesNeeded, InvoicesOf, Range
  <1> QED BY <1>2, <1>3

LocalsTyped ==
  /\ pc \in [Workers -> {"idle"} \cup Active]
  /\ request \in [Workers -> Requests]
  /\ todo \in [Workers -> Seq(Payments)]
  /\ seen \in [Workers -> [Payments -> PayStates]]
  /\ heldPays \in [Workers -> SUBSET Payments]
  /\ heldInvs \in [Workers -> SUBSET Invoices]
  /\ ledgerLock \in Workers \cup {NoWorker}
  /\ overwritten \subseteq Payments

LEMMA LocalsTypedStep ==
  ASSUME TypeOK, ControlOK, NEW w \in Workers, Acts(w)
  PROVE  LocalsTyped'
  <1> USE DEF LocalsTyped
  <1>0. ControlOf(w)
    BY DEF ControlOK
  <1>1. CASE Ends(w)
    <2>1. overwritten' \subseteq Payments
      BY <1>1 DEF Ends, RefusePayment, RefuseCheck, RefuseBatch, RefuseState, ResolveDeadlock, Lose,
                  Commit, Abort, WrittenOver, TypeOK
    <2> QED BY <1>1, <2>1, EndsFinish, FinishTyped
  <1>2. CASE Begin(w)
    <2>1. PICK r \in Requests : /\ request' = [request EXCEPT ![w] = r]
                                /\ todo' = [todo EXCEPT ![w] = IF r.kind = "reject" THEN r.payments
                                                               ELSE <<>>]
                                /\ Goto(w, FirstStep(r))
      BY <1>2 DEF Begin
    <2>2. FirstStep(r) \in Active
      BY DEF FirstStep, Active
    <2>3. (IF r.kind = "reject" THEN r.payments ELSE <<>>) \in Seq(Payments)
      BY RequestTyped, EmptySeq DEF Batches
    <2> QED BY <1>2, <2>1, <2>2, <2>3 DEF Begin, Goto, locks, TypeOK
  <1>3. CASE LockPayment(w)
    <2>1. Payment(w) \in Payments
      BY <1>0, <1>3, WorkTyped DEF LockPayment, ControlOf
    <2>2. AfterPayment(w) \in Active
      BY DEF AfterPayment, Active
    <2> QED BY <1>3, <2>1, <2>2 DEF LockPayment, Goto, batch, TypeOK
  <1>4. CASE LockInvoice(w)
    BY <1>4, InvoicesTyped DEF LockInvoice, InvoicesLeft, batch, TypeOK
  <1>5. CASE InvoicesLocked(w) \/ Check(w) \/ TakeLedger(w)
    BY <1>5 DEF InvoicesLocked, Check, TakeLedger, Goto, locks, batch, TypeOK, Active
  <1>6. CASE ReadBatch(w)
    <2>1. PICK ps \in Orders(Found(w)) : todo' = [todo EXCEPT ![w] = ps]
      BY <1>6 DEF ReadBatch
    <2>2. ps \in Seq(Payments)
      BY <1>0, <1>6, <2>1, FoundTyped, OrdersAre DEF ReadBatch
    <2> QED BY <1>6, <2>1, <2>2 DEF ReadBatch, Goto, locks, TypeOK, Active
  <1>7. CASE ReadState(w)
    <2> DEFINE p == Head(todo[w])
    <2>1. todo[w] \in Seq(Payments) /\ todo[w] # <<>>
      BY <1>0, <1>7 DEF ReadState, ControlOf, TypeOK
    <2>2. p \in Payments
      BY <2>1, HeadTailProperties
    <2>3. state[p] \in PayStates
      BY <2>2 DEF TypeOK
    <2>4. seen' = [seen EXCEPT ![w][p] = state[p]]
      BY <1>7 DEF ReadState
    <2> HIDE DEF p
    <2>5. seen' \in [Workers -> [Payments -> PayStates]]
      BY <2>2, <2>3, <2>4 DEF TypeOK
    <2> QED BY <1>7, <2>5 DEF ReadState, Goto, locks, TypeOK, Active
  <1>8. CASE WriteState(w)
    <2>1. todo[w] \in Seq(Payments) /\ todo[w] # <<>>
      BY <1>0, <1>8 DEF WriteState, ControlOf, TypeOK
    <2>2. Head(todo[w]) \in Payments /\ Tail(todo[w]) \in Seq(Payments)
      BY <2>1, HeadTailProperties
    <2> QED BY <1>8, <2>2 DEF WriteState, Goto, TypeOK, Active
  <1> QED BY <1>1, <1>2, <1>3, <1>4, <1>5, <1>6, <1>7, <1>8 DEF Acts, Step, Ends

LEMMA TypeStep ==
  ASSUME TypeOK, ControlOK, NEW w \in Workers, Acts(w)
  PROVE  TypeOK'
  <1>1. TablesTyped' /\ LocalsTyped' /\ ControlOK'
    BY TablesTypedStep, LocalsTypedStep, ControlStep
  <1>2. ASSUME NEW u \in Workers, pc'[u] \in {"change", "write"}
        PROVE  request'[u].kind \in Batches /\ todo'[u] # <<>>
    BY <1>1, <1>2 DEF ControlOK, ControlOf, Kind
  <1> QED BY <1>1, <1>2 DEF TypeOK, TablesTyped, LocalsTyped, Kind

LEMMA TypeInit == Init => TypeOK /\ ControlOK
  <1> SUFFICES ASSUME Init PROVE TypeOK /\ ControlOK
    OBVIOUS
  <1>1. <<>> \in Seq(Line)
    BY EmptySeq
  <1>2. control \in Int
    <2> DEFINE f == [d \in Invoices |-> InvTotal[d] * InvRate[d]]
    <2>1. \A d \in Invoices : f[d] \in Int
      <3>1. \A d \in Invoices : InvTotal[d] \in Int /\ InvRate[d] \in Int
        BY PaymentAssumption
      <3> QED BY <3>1
    <2>2. control = SumFunction(f) /\ DOMAIN f = Invoices
      BY DEF Init
    <2> HIDE DEF f
    <2> QED BY <2>1, <2>2, PaymentAssumption, SumType DEF SumFunction
  <1>3. <<>> \in Seq(Payments) /\ NothingSeen \in [Payments -> PayStates]
    BY EmptySeq DEF NothingSeen, PayStates
  <1>4. TypeOK
    BY <1>1, <1>2, <1>3, RequestChosen, PaymentAssumption DEF Init, TypeOK, PayStates, InvStates
  <1> QED BY <1>4 DEF Init, ControlOK, ControlOf

LEMMA StepIsActs ==
  ASSUME [Next]_vars
  PROVE  (\E w \in Workers : Acts(w)) \/ UNCHANGED vars
  BY DEF Next, Acts

LEMMA TypedAlways == Spec => [](TypeOK /\ ControlOK)
  <1>1. TypeOK /\ ControlOK /\ [Next]_vars => (TypeOK /\ ControlOK)'
    <2> SUFFICES ASSUME TypeOK, ControlOK, [Next]_vars PROVE (TypeOK /\ ControlOK)'
      OBVIOUS
    <2>1. CASE UNCHANGED vars
      BY <2>1 DEF vars, tables, locks, batch, TypeOK, ControlOK, ControlOf, Kind
    <2>2. ASSUME NEW w \in Workers, Acts(w) PROVE (TypeOK /\ ControlOK)'
      BY <2>2, TypeStep, ControlStep
    <2> QED BY <2>1, <2>2, StepIsActs
  <1> QED BY <1>1, TypeInit, PTL DEF Spec

(* The tables, programs and locks have their types.                        *)
THEOREM Typing == Spec => []TypeOK
  BY TypedAlways, PTL
-------------------------------------------------------------------------------
(***************************************************************************)
(* Locks of payments.                                                      *)
(***************************************************************************)
Working(w) == Kind(w) \in PayKinds /\ pc[w] \in Active \ {"payment"}
HoldsOf(w) ==
  /\ pc[w] \in {"idle", "payment"} => heldPays[w] = {}
  /\ Working(w) => /\ heldPays[w] = {Payment(w)}
                   /\ state[Payment(w)] \in AcceptedStates(Kind(w))
Apart(held) == \A u, v \in Workers : u # v => held[u] \cap held[v] = {}
HoldsOK == (\A w \in Workers : HoldsOf(w)) /\ Apart(heldPays)
BaseInv == TypeOK /\ ControlOK /\ HoldsOK

(* A commit changes no payment that its transaction does not hold.         *)
LEMMA CommitWrites ==
  ASSUME BaseInv, NEW w \in Workers, Commit(w), NEW p \in Payments, p \notin heldPays[w]
  PROVE  /\ state'[p] = state[p] /\ allocs'[p] = allocs[p]
         /\ unallocated'[p] = unallocated[p]
  <1>1. pc[w] = "commit" /\ HoldsOf(w)
    BY DEF Commit, BaseInv, HoldsOK
  <1>2. Kind(w) \in PayKinds => p # Payment(w)
    BY <1>1 DEF HoldsOf, Working, Active
  <1>3. CASE Kind(w) = "create" /\ CommitCreate(w)
    BY <1>2, <1>3 DEF CommitCreate, Submitted, PayKinds, BaseInv, TypeOK
  <1>4. CASE Kind(w) = "remove" /\ CommitRemove(w)
    BY <1>2, <1>4 DEF CommitRemove, PayKinds, BaseInv, TypeOK
  <1>5. CASE Kind(w) = "submit" /\ CommitSubmit(w)
    BY <1>2, <1>5 DEF CommitSubmit, Submitted, PayKinds, BaseInv, TypeOK
  <1>6. CASE Kind(w) = "allocate" /\ CommitAllocate(w)
    BY <1>2, <1>6 DEF CommitAllocate, PayKinds, BaseInv, TypeOK
  <1>7. CASE Kind(w) = "cancel" /\ CommitCancel(w)
    BY <1>2, <1>7 DEF CommitCancel, PayKinds, BaseInv, TypeOK
  <1>8. CASE Kind(w) = "void" /\ CommitVoid(w)
    BY <1>8 DEF CommitVoid
  <1>9. CASE Kind(w) \in Batches /\ CommitBatch(w)
    BY <1>9 DEF CommitBatch
  <1> QED BY <1>3, <1>4, <1>5, <1>6, <1>7, <1>8, <1>9 DEF Commit

LEMMA OwnHolds ==
  ASSUME BaseInv, NEW w \in Workers, Acts(w)
  PROVE  /\ HoldsOf(w)'
         /\ \A p \in heldPays'[w] \ heldPays[w] : PayBlockers(w, p) = {}
  <1> USE DEF Kind
  <1> DEFINE OK == /\ HoldsOf(w)'
                   /\ \A p \in heldPays'[w] \ heldPays[w] : PayBlockers(w, p) = {}
  <1>0. TypeOK /\ ControlOf(w) /\ HoldsOf(w)
    BY DEF BaseInv, ControlOK, HoldsOK
  <1>1. CASE Ends(w)
    <2>1. pc'[w] = "idle" /\ heldPays'[w] = {}
      BY <1>0, <1>1, EndsFinish, Finished
    <2> QED BY <2>1 DEF HoldsOf, Working, Active
  <1>2. ASSUME UNCHANGED <<state, heldPays[w], request[w]>>,
               pc'[w] \in {"idle", "payment"} => pc[w] \in {"idle", "payment"},
               Working(w)' => Working(w)
        PROVE  OK
    BY <1>0, <1>2 DEF HoldsOf, Payment
  <1>3. CASE Begin(w)
    <2>1. PICK r \in Requests : request'[w] = r /\ pc'[w] = FirstStep(r)
      BY <1>0, <1>3 DEF Begin, Goto, TypeOK
    <2>2. heldPays'[w] = {}
      BY <1>0, <1>3 DEF Begin, Idle, HoldsOf, locks
    <2>3. ~Working(w)'
      BY <2>1, RequestTyped DEF FirstStep, Working, PayKinds, Batches
    <2> QED BY <2>1, <2>2, <2>3 DEF HoldsOf
  <1>4. CASE LockPayment(w)
    <2>1. /\ pc[w] = "payment" /\ pc'[w] = AfterPayment(w) /\ UNCHANGED <<state, request>>
          /\ heldPays'[w] = {Payment(w)} /\ PayFree(w) /\ Accepted(w)
      BY <1>0, <1>4 DEF LockPayment, Goto, TypeOK, tables
    <2>2. Kind(w) \in PayKinds
      BY <1>0, <2>1 DEF ControlOf
    <2>3. PayBlockers(w, Payment(w)) = {}
      BY <2>1, <2>2 DEF PayFree, Accepted, AcceptedStates, PayKinds
    <2>4. state[Payment(w)] \in AcceptedStates(Kind(w))
      BY <2>1 DEF Accepted
    <2>6. pc'[w] \notin {"idle", "payment"}
      BY <2>1 DEF AfterPayment
    <2> QED BY <2>1, <2>3, <2>4, <2>6 DEF HoldsOf, Payment
  <1>5. CASE LockInvoice(w)
    BY <1>2, <1>5 DEF LockInvoice, Working, tables
  <1>6. CASE InvoicesLocked(w) \/ Check(w) \/ TakeLedger(w)
    <2>1. /\ UNCHANGED <<state, heldPays, request>>
          /\ pc[w] \in {"invoices", "settle", "check", "post"}
          /\ pc'[w] \notin {"idle", "payment"}
      BY <1>0, <1>6 DEF InvoicesLocked, Check, TakeLedger, Goto, tables, locks, TypeOK
    <2> QED BY <1>2, <2>1 DEF Working, Active
  <1>7. CASE ReadBatch(w) \/ ReadState(w)
    <2>1. /\ UNCHANGED <<state, heldPays, request>>
          /\ pc[w] \in {"batch", "change"} /\ pc'[w] \in {"change", "write"}
      BY <1>0, <1>7 DEF ReadBatch, ReadState, Goto, tables, locks, TypeOK
    <2> QED BY <1>2, <2>1 DEF Working, Active
  <1>8. CASE WriteState(w)
    <2>1. /\ pc[w] = "write" /\ pc'[w] \in {"change", "commit"} /\ UNCHANGED <<state, request>>
          /\ heldPays'[w] = heldPays[w] \cup {Head(todo[w])} /\ PayBlockers(w, Head(todo[w])) = {}
      BY <1>0, <1>8 DEF WriteState, Goto, TypeOK, tables
    <2>2. Kind(w) \in Batches
      BY <1>0, <2>1 DEF ControlOf
    <2>3. ~Working(w)'
      BY <2>1, <2>2 DEF Working, PayKinds, Batches
    <2> QED BY <1>0, <2>1, <2>3 DEF HoldsOf
  <1> QED BY <1>1, <1>3, <1>4, <1>5, <1>6, <1>7, <1>8 DEF Acts, Step, Ends

LEMMA HoldsStep ==
  ASSUME BaseInv, NEW w \in Workers, Acts(w)
  PROVE  HoldsOK'
  <1>1. \A u \in Workers \ {w} : /\ pc'[u] = pc[u] /\ request'[u] = request[u]
                                 /\ heldPays'[u] = heldPays[u]
    BY Frame DEF BaseInv
  <1>2. ASSUME NEW u \in Workers \ {w} PROVE HoldsOf(u)'
    <2>1. HoldsOf(u) /\ pc'[u] = pc[u] /\ request'[u] = request[u] /\ heldPays'[u] = heldPays[u]
      BY <1>1 DEF BaseInv, HoldsOK
    <2>2. ASSUME Working(u) PROVE state'[Payment(u)] = state[Payment(u)]
      <3>1. Payment(u) \in heldPays[u] /\ Payment(u) \in Payments
        BY <2>1, <2>2, WorkTyped DEF HoldsOf, Working, BaseInv
      <3>2. Payment(u) \notin heldPays[w]
        BY <3>1 DEF BaseInv, HoldsOK, Apart
      <3> QED BY <3>1, <3>2, TablesChange, CommitWrites DEF tables
    <2> QED BY <2>1, <2>2 DEF HoldsOf, Working, Payment, Kind
  <1>3. Apart(heldPays')
    <2> SUFFICES ASSUME NEW u \in Workers, u # w, NEW p \in heldPays'[u], p \in heldPays'[w]
                 PROVE  FALSE
      BY <1>1 DEF BaseInv, HoldsOK, Apart
    <2>1. p \in heldPays[u]
      BY <1>1
    <2>2. p \notin heldPays[w]
      BY <2>1 DEF BaseInv, HoldsOK, Apart
    <2>3. PayBlockers(w, p) = {}
      BY <2>2, OwnHolds
    <2> QED BY <2>1, <2>3 DEF PayBlockers
  <1>4. HoldsOf(w)'
    BY OwnHolds
  <1> QED BY <1>2, <1>3, <1>4 DEF HoldsOK, Apart

LEMMA BaseStep ==
  ASSUME BaseInv, [Next]_vars
  PROVE  BaseInv'
  <1>1. CASE UNCHANGED vars
    <2>1. TypeOK' /\ ControlOK'
      BY <1>1 DEF BaseInv, vars, tables, locks, batch, TypeOK, ControlOK, ControlOf, Kind
    <2>2. HoldsOK'
      BY <1>1 DEF BaseInv, vars, tables, locks, HoldsOK, HoldsOf, Apart, Working, Kind, Payment
    <2> QED BY <2>1, <2>2 DEF BaseInv
  <1>2. ASSUME NEW w \in Workers, Acts(w) PROVE BaseInv'
    BY <1>2, TypeStep, ControlStep, HoldsStep DEF BaseInv
  <1> QED BY <1>1, <1>2, StepIsActs

LEMMA BaseInit == Init => BaseInv
  <1> SUFFICES ASSUME Init PROVE HoldsOK
    BY TypeInit DEF BaseInv
  <1> QED BY DEF Init, HoldsOK, HoldsOf, Apart, Working, Active

LEMMA BaseAlways == Spec => []BaseInv
  BY BaseInit, BaseStep, PTL DEF Spec

-------------------------------------------------------------------------------
(***************************************************************************)
(* What a payment has left.                                                *)
(***************************************************************************)
(* a holds the value of each line. *)
Valued(v, lines, a) ==
  /\ v \in [Line -> Int]
  /\ DOMAIN a = DOMAIN lines
  /\ \A i \in DOMAIN lines : a[i] = v[lines[i]]

(* A value of the lines, summed over two sequences one after the other.    *)
LEMMA LinesConcat ==
  ASSUME NEW s \in Seq(Line), NEW r \in Seq(Line), NEW v, NEW a, NEW b, NEW c,
         Valued(v, s, a), Valued(v, r, b), Valued(v, s \o r, c)
  PROVE  SumFunction(c) = SumFunction(a) + SumFunction(b)
  <1> USE DEF Valued
  <1> DEFINE m == Len(s)
             n == Len(r)
  <1>1. /\ m \in Nat /\ n \in Nat /\ DOMAIN s = 1..m /\ DOMAIN r = 1..n
        /\ \A i \in 1..m : s[i] \in Line
        /\ \A i \in 1..n : r[i] \in Line
    BY LinesAre
  <1>2. /\ s \o r \in Seq(Line) /\ DOMAIN (s \o r) = 1..(m + n)
        /\ \A i \in 1..m : (s \o r)[i] = s[i]
        /\ \A i \in 1..n : (s \o r)[m + i] = r[i]
    <2>1. s \o r \in Seq(Line) /\ Len(s \o r) = m + n
      BY ConcatProperties
    <2>2. \A i \in 1..(m + n) : (s \o r)[i] = IF i <= m THEN s[i] ELSE r[i - m]
      BY ConcatProperties
    <2>3. \A i \in 1..n : m + i \in 1..(m + n) /\ ~(m + i <= m) /\ (m + i) - m = i
      BY <1>1
    <2>4. \A i \in 1..m : i \in 1..(m + n) /\ i <= m
      BY <1>1
    <2>5. DOMAIN (s \o r) = 1..(m + n)
      BY <2>1, LinesAre
    <2> HIDE DEF m, n
    <2> QED BY <2>1, <2>2, <2>3, <2>4, <2>5
  <1> HIDE DEF m, n
  <1>3. \A i \in 1..m : a[i] \in Int /\ c[i] = a[i]
    <2> SUFFICES ASSUME NEW i \in 1..m PROVE a[i] \in Int /\ c[i] = a[i]
      OBVIOUS
    <2>1. i \in 1..(m + n)
      BY <1>1
    <2>2. c[i] = v[(s \o r)[i]]
      BY <1>2, <2>1
    <2>3. a[i] = v[s[i]] /\ s[i] \in Line
      BY <1>1
    <2> QED BY <1>2, <2>2, <2>3
  <1>4. \A i \in 1..n : b[i] \in Int /\ c[m + i] = b[i]
    <2> SUFFICES ASSUME NEW i \in 1..n PROVE b[i] \in Int /\ c[m + i] = b[i]
      OBVIOUS
    <2>1. m + i \in 1..(m + n)
      BY <1>1
    <2>2. c[m + i] = v[(s \o r)[m + i]]
      BY <1>2, <2>1
    <2>3. b[i] = v[r[i]] /\ r[i] \in Line
      BY <1>1
    <2> QED BY <1>2, <2>2, <2>3
  <1>5. Joined(a, m, b, n, c)
    BY <1>1, <1>3, <1>4 DEF Joined
  <1>6. SumFunctionOnSet(c, 1..(m + n)) = SumFunctionOnSet(a, 1..m) + SumFunctionOnSet(b, 1..n)
    BY <1>5, SumConcat
  <1> QED BY <1>1, <1>2, <1>6 DEF SumFunction

LEMMA AmountsConcat ==
  ASSUME NEW s \in Seq(Line), NEW r \in Seq(Line)
  PROVE  Amounts(s \o r) = Amounts(s) + Amounts(r)
  <1> DEFINE v == [l \in Line |-> l.amount]
             f(lines) == [i \in DOMAIN lines |-> lines[i].amount]
  <1>1. v \in [Line -> Int]
    BY DEF Line
  <1>2. s \o r \in Seq(Line)
    BY ConcatProperties
  <1>3. \A lines \in Seq(Line) : Valued(v, lines, f(lines))
    BY <1>1, LinesAre DEF Valued
  <1>4. \A lines : Amounts(lines) = SumFunction(f(lines))
    BY DEF Amounts, LinesSum
  <1> HIDE DEF f, v
  <1>5. Valued(v, s, f(s)) /\ Valued(v, r, f(r)) /\ Valued(v, s \o r, f(s \o r))
    BY <1>2, <1>3
  <1>6. SumFunction(f(s \o r)) = SumFunction(f(s)) + SumFunction(f(r))
    BY <1>5, LinesConcat
  <1> QED BY <1>4, <1>6

LEMMA NoAmounts == Amounts(<<>>) = 0
  <1> DEFINE f == [i \in DOMAIN <<>> |-> <<>>[i].amount]
  <1>1. Amounts(<<>>) = SumFunction(f)
    BY DEF Amounts, LinesSum
  <1>2. DOMAIN f = {}
    OBVIOUS
  <1> HIDE DEF f
  <1> QED BY <1>1, <1>2, SumEmpty DEF SumFunction

LEMMA UnallocatedStep ==
  ASSUME BaseInv, UnallocatedAgrees, NEW w \in Workers, Commit(w)
  PROVE  UnallocatedAgrees'
  <1> DEFINE p == Payment(w)
             lines == Lines(w)
             Agrees(q) == state'[q] # "absent" =>
                            unallocated'[q] = PayTotal[q] - Amounts(allocs'[q])
  <1>0. TypeOK /\ HoldsOf(w) /\ pc[w] = "commit"
    BY DEF BaseInv, HoldsOK, Commit
  <1>1. Kind(w) \in PayKinds => /\ p \in Payments /\ lines \in Seq(Line)
                                /\ heldPays[w] = {p} /\ state[p] \in AcceptedStates(Kind(w))
    BY <1>0, WorkTyped DEF HoldsOf, Working, Active
  <1>2. \A q \in Payments \ heldPays[w] : Agrees(q)
    BY CommitWrites DEF UnallocatedAgrees
  <1>3. ASSUME Kind(w) \in PayKinds, Agrees(p) PROVE UnallocatedAgrees'
    BY <1>1, <1>2, <1>3 DEF UnallocatedAgrees
  <1> HIDE DEF p, lines
  <1>4. CASE Kind(w) = "create" /\ CommitCreate(w)
    <2>1. allocs'[p] = lines /\ unallocated'[p] = PayTotal[p] - Amounts(lines)
      BY <1>0, <1>1, <1>4 DEF CommitCreate, TypeOK, PayKinds, p, lines
    <2> QED BY <1>3, <1>4, <2>1 DEF PayKinds
  <1>5. CASE Kind(w) = "remove" /\ CommitRemove(w)
    <2>1. state'[p] = "absent"
      BY <1>0, <1>1, <1>5 DEF CommitRemove, TypeOK, PayKinds, p
    <2> QED BY <1>3, <1>5, <2>1 DEF PayKinds
  <1>6. CASE Kind(w) = "submit" /\ CommitSubmit(w)
    <2>1. state[p] # "absent" /\ UNCHANGED <<allocs, unallocated>>
      BY <1>1, <1>6 DEF CommitSubmit, AcceptedStates, PayKinds
    <2> QED BY <1>1, <1>3, <1>6, <2>1 DEF PayKinds, UnallocatedAgrees
  <1>7. CASE Kind(w) = "allocate" /\ CommitAllocate(w)
    <2>1. /\ p \in Payments /\ lines \in Seq(Line) /\ state[p] \in {"draft", "submitted"}
          /\ allocs'[p] = KeptAllocs(p) \o lines
          /\ unallocated'[p] = Available(w) - Amounts(lines)
      BY <1>0, <1>1, <1>7 DEF CommitAllocate, TypeOK, PayKinds, AcceptedStates, p, lines
    <2>2. KeptAllocs(p) \in Seq(Line) /\ Available(w) = PayTotal[p] - Amounts(KeptAllocs(p))
      <3>1. CASE state[p] = "draft"
        <4>1. PayTotal[p] \in Int
          BY <2>1, PaymentAssumption
        <4> QED BY <3>1, <4>1, EmptySeq, NoAmounts DEF KeptAllocs, Available, p
      <3>2. CASE state[p] = "submitted"
        BY <1>0, <2>1, <3>2 DEF KeptAllocs, Available, UnallocatedAgrees, TypeOK, p
      <3> QED BY <2>1, <3>1, <3>2
    <2>3. Amounts(allocs'[p]) = Amounts(KeptAllocs(p)) + Amounts(lines)
      BY <2>1, <2>2, AmountsConcat
    <2>4. Amounts(KeptAllocs(p)) \in Int /\ Amounts(lines) \in Int /\ PayTotal[p] \in Int
      BY <2>1, <2>2, AmountsType, PaymentAssumption
    <2>5. unallocated'[p] = PayTotal[p] - Amounts(allocs'[p])
      BY <2>1, <2>2, <2>3, <2>4
    <2> QED BY <1>3, <1>7, <2>5 DEF PayKinds
  <1>8. CASE Kind(w) = "cancel" /\ CommitCancel(w)
    <2>1. state[p] # "absent" /\ UNCHANGED <<allocs, unallocated>>
      BY <1>1, <1>8 DEF CommitCancel, AcceptedStates, PayKinds
    <2> QED BY <1>1, <1>3, <1>8, <2>1 DEF PayKinds, UnallocatedAgrees
  <1>9. CASE Kind(w) = "void" /\ CommitVoid(w)
    BY <1>9 DEF CommitVoid, UnallocatedAgrees
  <1>10. CASE Kind(w) \in Batches /\ CommitBatch(w)
    <2>1. UNCHANGED <<allocs, unallocated>>
          /\ \A q \in Payments : state'[q] # "absent" => state[q] # "absent"
      BY <1>10 DEF CommitBatch
    <2> QED BY <2>1 DEF UnallocatedAgrees
  <1> QED BY <1>4, <1>5, <1>6, <1>7, <1>8, <1>9, <1>10 DEF Commit

(* What a payment has left is its total less its allocations, whatever     *)
(* requests for it are under way and whoever of them dies.                 *)
THEOREM LeftOfPayments == Spec => []UnallocatedAgrees
  <1>1. Init => UnallocatedAgrees
    BY DEF Init, UnallocatedAgrees
  <1>2. BaseInv /\ UnallocatedAgrees /\ [Next]_vars => UnallocatedAgrees'
    <2> SUFFICES ASSUME BaseInv, UnallocatedAgrees, [Next]_vars PROVE UnallocatedAgrees'
      OBVIOUS
    <2>1. CASE UNCHANGED tables
      BY <2>1 DEF tables, UnallocatedAgrees
    <2> QED BY <2>1, UnallocatedStep, StepIsActs, TablesChange DEF vars
  <1> QED BY <1>1, <1>2, BaseAlways, PTL DEF Spec

-------------------------------------------------------------------------------
(***************************************************************************)
(* Bank files, and the states they write over.                             *)
(***************************************************************************)
(* A batch writes where PAYMENT_TRANSITIONS allowed it to when it read.    *)
SeenOf(w) ==
  Kind(w) \in Batches =>
    /\ \A p \in heldPays[w] : BatchState(w) \in Transitions[seen[w][p]]
    /\ pc[w] = "write" => BatchState(w) \in Transitions[seen[w][Head(todo[w])]]
SeenInv == \A w \in Workers : SeenOf(w)

LEMMA OwnSeen ==
  ASSUME BaseInv, NEW w \in Workers, SeenOf(w), Acts(w)
  PROVE  SeenOf(w)'
  <1>0. TypeOK /\ ControlOf(w) /\ HoldsOf(w)
    BY DEF BaseInv, ControlOK, HoldsOK
  <1>1. CASE Ends(w)
    BY <1>0, <1>1, EndsFinish, Finished DEF SeenOf
  <1>2. CASE Begin(w)
    <2>1. heldPays'[w] = {} /\ pc'[w] # "write"
      BY <1>0, <1>2 DEF Begin, Goto, FirstStep, Idle, HoldsOf, locks, TypeOK
    <2> QED BY <2>1 DEF SeenOf
  <1>3. CASE LockPayment(w) \/ LockInvoice(w) \/ InvoicesLocked(w) \/ Check(w) \/ TakeLedger(w)
    <2>1. Kind(w) \notin Batches /\ UNCHANGED request
      BY <1>0, <1>3 DEF LockPayment, LockInvoice, InvoicesLocked, Check, TakeLedger, ControlOf,
                        PayKinds, Batches
    <2> QED BY <2>1 DEF SeenOf, Kind
  <1>4. CASE ReadBatch(w)
    <2>1. pc'[w] = "change" /\ UNCHANGED <<seen, heldPays, request>>
      BY <1>0, <1>4 DEF ReadBatch, Goto, TypeOK, tables, locks
    <2> QED BY <2>1 DEF SeenOf, Kind, BatchState
  <1>5. CASE ReadState(w)
    <2> DEFINE p == Head(todo[w])
    <2>1. /\ TransitionAllowed(w, p) /\ UNCHANGED <<heldPays, request, todo>>
          /\ seen' = [seen EXCEPT ![w][p] = state[p]]
      BY <1>5 DEF ReadState, locks
    <2>2. todo[w] \in Seq(Payments) /\ todo[w] # <<>> /\ heldPays[w] \subseteq Payments
      BY <1>0, <1>5 DEF ReadState, ControlOf, TypeOK
    <2>3. p \in Payments
      BY <2>2, HeadTailProperties
    <2> HIDE DEF p
    <2>4. seen[w] \in [Payments -> PayStates]
      BY <1>0 DEF TypeOK
    <2>5. \A q \in Payments : seen'[w][q] = IF q = p THEN state[p] ELSE seen[w][q]
      BY <1>0, <2>1, <2>3, <2>4 DEF TypeOK
    <2>6. BatchState(w)' = BatchState(w) /\ (Kind(w)' = Kind(w))
      BY <2>1 DEF BatchState, Kind
    <2>7. Head(todo'[w]) = p
      BY <2>1 DEF p
    <2>8. BatchState(w) \in Transitions[state[p]]
      BY <2>1 DEF TransitionAllowed
    <2>9. heldPays'[w] = heldPays[w]
      BY <2>1
    <2> QED BY <2>2, <2>3, <2>5, <2>6, <2>7, <2>8, <2>9 DEF SeenOf
  <1>6. CASE WriteState(w)
    <2>1. /\ pc[w] = "write" /\ pc'[w] # "write" /\ UNCHANGED <<seen, request>>
          /\ heldPays'[w] = heldPays[w] \cup {Head(todo[w])}
      BY <1>0, <1>6 DEF WriteState, Goto, TypeOK, tables
    <2> QED BY <2>1 DEF SeenOf, Kind, BatchState
  <1> QED BY <1>1, <1>2, <1>3, <1>4, <1>5, <1>6 DEF Acts, Step, Ends

LEMMA SeenStep ==
  ASSUME BaseInv, SeenInv, [Next]_vars
  PROVE  SeenInv'
  <1>1. CASE UNCHANGED vars
    BY <1>1 DEF vars, tables, locks, batch, SeenInv, SeenOf, Kind, BatchState
  <1>2. ASSUME NEW w \in Workers, Acts(w), NEW u \in Workers \ {w} PROVE SeenOf(u)'
    <2>1. /\ pc'[u] = pc[u] /\ request'[u] = request[u] /\ todo'[u] = todo[u]
          /\ seen'[u] = seen[u] /\ heldPays'[u] = heldPays[u]
      BY <1>2, Frame DEF BaseInv
    <2> QED BY <2>1 DEF SeenInv, SeenOf, Kind, BatchState
  <1>3. ASSUME NEW w \in Workers, Acts(w) PROVE SeenInv'
    BY <1>2, <1>3, OwnSeen DEF SeenInv
  <1> QED BY <1>1, <1>3, StepIsActs

LEMMA SeenAlways == Spec => []SeenInv
  <1>1. Init => SeenInv
    BY DEF Init, SeenInv, SeenOf
  <1>2. BaseInv /\ SeenInv /\ [Next]_vars => SeenInv'
    BY SeenStep
  <1> QED BY <1>1, <1>2, BaseAlways, PTL DEF Spec

(* A batch changes a state along PAYMENT_TRANSITIONS or writes it over.    *)
LEMMA BatchWrites ==
  ASSUME SeenInv, NEW w \in Workers, Commit(w), Kind(w) \in Batches, CommitBatch(w),
         NEW q \in Payments, state'[q] # state[q]
  PROVE  /\ q \in heldPays[w] /\ state[q] # "absent" /\ state'[q] = BatchState(w)
         /\ BatchState(w) \in Transitions[state[q]] \/ q \in overwritten'
  <1>1. q \in heldPays[w] /\ state[q] # "absent" /\ state'[q] = BatchState(w)
    BY DEF CommitBatch
  <1>2. BatchState(w) \in Transitions[seen[w][q]]
    BY <1>1 DEF SeenInv, SeenOf
  <1>3. overwritten' = overwritten \cup WrittenOver(w)
    BY DEF Commit
  <1>4. state[q] = seen[w][q] \/ q \in WrittenOver(w)
    BY <1>1 DEF WrittenOver
  <1> QED BY <1>1, <1>2, <1>3, <1>4

(* Steps before which, and by which, nothing has been written over.        *)
Faithful == SeenInv /\ overwritten' = {}

LEMMA OverwrittenGrows ==
  ASSUME [Next]_vars, overwritten' = {}
  PROVE  overwritten = {}
  <1>1. CASE UNCHANGED vars
    BY <1>1 DEF vars
  <1>2. ASSUME NEW w \in Workers, Acts(w) PROVE overwritten = {}
    BY <1>2 DEF Acts, Step, Begin, LockPayment, RefusePayment, LockInvoice, InvoicesLocked, Check,
         RefuseCheck, TakeLedger, ReadBatch, RefuseBatch, ReadState, RefuseState, WriteState,
         ResolveDeadlock, Lose, Abort, Commit
  <1> QED BY <1>1, <1>2, StepIsActs

LEMMA CommitMoves ==
  ASSUME BaseInv, SeenInv, NEW w \in Workers, Commit(w), NEW q \in Payments,
         state'[q] # state[q]
  PROVE  Moves(q) \/ q \in overwritten'
  <1>0. TypeOK /\ HoldsOf(w) /\ pc[w] = "commit" /\ q \in heldPays[w]
    BY CommitWrites DEF BaseInv, HoldsOK, Commit
  <1>1. Kind(w) \in PayKinds =>
          q = Payment(w) /\ state[q] \in AcceptedStates(Kind(w))
    BY <1>0 DEF HoldsOf, Working, Active
  <1>2. CASE Kind(w) = "create" /\ CommitCreate(w)
    BY <1>0, <1>1, <1>2 DEF CommitCreate, Submitted, AcceptedStates, PayKinds, TypeOK, Moves
  <1>3. CASE Kind(w) = "remove" /\ CommitRemove(w)
    BY <1>0, <1>1, <1>3 DEF CommitRemove, AcceptedStates, PayKinds, TypeOK, Moves
  <1>4. CASE Kind(w) = "submit" /\ CommitSubmit(w)
    <2>1. state[q] \in {"draft", "exported"} /\ state'[q] = "submitted"
      BY <1>0, <1>1, <1>4 DEF CommitSubmit, Submitted, AcceptedStates, PayKinds, TypeOK
    <2> QED BY <2>1 DEF Moves, Transitions
  <1>5. CASE Kind(w) = "allocate" /\ CommitAllocate(w)
    BY <1>5 DEF CommitAllocate
  <1>6. CASE Kind(w) = "cancel" /\ CommitCancel(w)
    <2>1. state[q] = "submitted" /\ state'[q] = "cancelled"
      BY <1>0, <1>1, <1>6 DEF CommitCancel, AcceptedStates, PayKinds, TypeOK
    <2> QED BY <2>1 DEF Moves, Transitions
  <1>7. CASE Kind(w) = "void" /\ CommitVoid(w)
    BY <1>7 DEF CommitVoid
  <1>8. CASE Kind(w) \in Batches /\ CommitBatch(w)
    <2>1. state'[q] = BatchState(w)
          /\ (BatchState(w) \in Transitions[state[q]] \/ q \in overwritten')
      BY <1>8, BatchWrites
    <2> QED BY <2>1 DEF Moves
  <1> QED BY <1>2, <1>3, <1>4, <1>5, <1>6, <1>7, <1>8 DEF Commit

(* Whatever requests for it wait for each other, a payment leaves          *)
(* PAYMENT_TRANSITIONS only where a bank file writes the state that it     *)
(* read over a later one.                                                  *)
THEOREM PaymentsFollowMachine == Spec => StatesFollowMachine
  <1>1. BaseInv /\ SeenInv /\ [Next]_vars =>
          [\A p \in Payments : state'[p] # state[p] => Moves(p) \/ p \in overwritten']_vars
    <2> SUFFICES ASSUME BaseInv, SeenInv, [Next]_vars, NEW p \in Payments, state'[p] # state[p]
                 PROVE  Moves(p) \/ p \in overwritten'
      OBVIOUS
    <2>1. ~UNCHANGED tables
      BY DEF tables
    <2>2. PICK w \in Workers : Acts(w)
      BY <2>1, StepIsActs DEF vars
    <2>3. Commit(w)
      BY <2>1, <2>2, TablesChange
    <2> QED BY <2>3, CommitMoves
  <1> QED BY <1>1, BaseAlways, SeenAlways, PTL DEF Spec, StatesFollowMachine

-------------------------------------------------------------------------------
(***************************************************************************)
(* What invoices have outstanding.                                         *)
(***************************************************************************)
PricesOK == \A p \in Payments : Cancellable(p) => FullPrice(allocs[p])

LEMMA ConcatLines ==
  ASSUME NEW s \in Seq(Line), NEW r \in Seq(Line), NEW i \in DOMAIN (s \o r)
  PROVE  (\E j \in DOMAIN s : (s \o r)[i] = s[j]) \/ (\E j \in DOMAIN r : (s \o r)[i] = r[j])
  <1>1. /\ Len(s) \in Nat /\ Len(r) \in Nat /\ DOMAIN s = 1..Len(s) /\ DOMAIN r = 1..Len(r)
        /\ DOMAIN (s \o r) = 1..(Len(s) + Len(r))
        /\ (s \o r)[i] = IF i <= Len(s) THEN s[i] ELSE r[i - Len(s)]
    <2>1. s \o r \in Seq(Line) /\ Len(s \o r) = Len(s) + Len(r)
      BY ConcatProperties
    <2>2. DOMAIN (s \o r) = 1..(Len(s) + Len(r))
      BY <2>1, LinesAre
    <2> QED BY <2>2, LinesAre, ConcatProperties
  <1>2. CASE i <= Len(s)
    BY <1>1, <1>2
  <1>3. CASE ~(i <= Len(s))
    <2>1. i - Len(s) \in 1..Len(r)
      BY <1>1, <1>3
    <2> QED BY <1>1, <1>3, <2>1
  <1> QED BY <1>2, <1>3

LEMMA PricesStep ==
  ASSUME CancelsUndiscounted, BaseInv, PricesOK, NEW w \in Workers, Commit(w)
  PROVE  PricesOK'
  <1> DEFINE p == Payment(w)
             lines == Lines(w)
  <1>0. TypeOK /\ request[w] \in Requests
    BY DEF BaseInv, TypeOK
  <1>1. Kind(w) \in PayKinds => p \in Payments /\ lines \in Seq(Line)
    BY <1>0, WorkTyped
  <1>2. Kind(w) \in {"create", "allocate"} /\ Cancellable(p) => FullPrice(lines)
    BY <1>0 DEF CancelsUndiscounted, Kind, Payment, Lines
  <1> HIDE DEF p, lines
  <1>3. CASE Kind(w) = "create" /\ CommitCreate(w)
    <2>1. \A q \in Payments : allocs'[q] = IF q = p THEN lines ELSE allocs[q]
      BY <1>0, <1>3 DEF CommitCreate, TypeOK, p, lines
    <2> QED BY <1>2, <1>3, <2>1 DEF PricesOK
  <1>4. CASE Kind(w) = "remove" /\ CommitRemove(w)
    <2>1. \A q \in Payments : allocs'[q] = IF q = p THEN <<>> ELSE allocs[q]
      BY <1>0, <1>4 DEF CommitRemove, TypeOK, p
    <2>2. FullPrice(<<>>)
      BY DEF FullPrice
    <2> QED BY <2>1, <2>2 DEF PricesOK
  <1>5. CASE Kind(w) = "allocate" /\ CommitAllocate(w)
    <2>1. /\ p \in Payments /\ lines \in Seq(Line)
          /\ \A q \in Payments : allocs'[q] = IF q = p THEN KeptAllocs(p) \o lines ELSE allocs[q]
      BY <1>0, <1>1, <1>5 DEF CommitAllocate, TypeOK, p, lines, PayKinds
    <2>2. KeptAllocs(p) \in Seq(Line) /\ (Cancellable(p) => FullPrice(KeptAllocs(p)))
      BY <1>0, <2>1, EmptySeq DEF KeptAllocs, TypeOK, PricesOK, FullPrice
    <2>3. Cancellable(p) => FullPrice(KeptAllocs(p) \o lines)
      BY <1>2, <1>5, <2>1, <2>2, ConcatLines DEF FullPrice
    <2> QED BY <2>1, <2>3 DEF PricesOK
  <1>6. CASE UNCHANGED allocs
    BY <1>6 DEF PricesOK
  <1> QED BY <1>3, <1>4, <1>5, <1>6
    DEF Commit, CommitSubmit, CommitCancel, CommitVoid, CommitBatch

LEMMA CreditsConcat ==
  ASSUME NEW s \in Seq(Line), NEW r \in Seq(Line), NEW d
  PROVE  CreditsOn(d, s \o r) = CreditsOn(d, s) + CreditsOn(d, r)
  <1> DEFINE v == [l \in Line |-> IF l.invoice = d THEN l.amount + l.discount ELSE 0]
             f(lines) == [i \in DOMAIN lines |->
                            IF lines[i].invoice = d THEN lines[i].amount + lines[i].discount ELSE 0]
  <1>1. v \in [Line -> Int]
    BY DEF Line
  <1>2. s \o r \in Seq(Line)
    BY ConcatProperties
  <1>3. \A lines \in Seq(Line) : Valued(v, lines, f(lines))
    BY <1>1, LinesAre DEF Valued
  <1>4. \A lines : CreditsOn(d, lines) = SumFunction(f(lines))
    BY DEF CreditsOn, SumOn, LinesSum
  <1> HIDE DEF f, v
  <1>5. Valued(v, s, f(s)) /\ Valued(v, r, f(r)) /\ Valued(v, s \o r, f(s \o r))
    BY <1>2, <1>3
  <1>6. SumFunction(f(s \o r)) = SumFunction(f(s)) + SumFunction(f(r))
    BY <1>5, LinesConcat
  <1> QED BY <1>4, <1>6

LEMMA CreditsAreAmounts ==
  ASSUME NEW lines \in Seq(Line), FullPrice(lines), NEW d
  PROVE  CreditsOn(d, lines) = AmountsOn(d, lines)
  <1> DEFINE f == [i \in DOMAIN lines |->
                     IF lines[i].invoice = d THEN lines[i].amount + lines[i].discount ELSE 0]
             g == [i \in DOMAIN lines |-> IF lines[i].invoice = d THEN lines[i].amount ELSE 0]
  <1>1. \A i \in DOMAIN lines : lines[i].amount + lines[i].discount = lines[i].amount
    BY LinesAre DEF FullPrice
  <1>2. f = g
    BY <1>1
  <1>3. CreditsOn(d, lines) = SumFunction(f) /\ AmountsOn(d, lines) = SumFunction(g)
    BY DEF CreditsOn, AmountsOn, SumOn, LinesSum
  <1> HIDE DEF f, g
  <1> QED BY <1>2, <1>3

Ones(code) == {p \in Payments : state[p] = code}
SubmittedOnes == Ones("submitted")
(* What p has in a sum over the submitted payments.                        *)
Share(p, n) == IF state[p] = "submitted" THEN n ELSE 0

LEMMA OnesChange ==
  ASSUME NEW code, NEW p \in Payments, \A q \in Payments \ {p} : state'[q] = state[q],
         NEW f, NEW g, \A q \in Payments : f[q] \in Int /\ g[q] \in Int,
         \A q \in Payments \ {p} : g[q] = f[q]
  PROVE  SumFunctionOnSet(g, Ones(code)') =
           SumFunctionOnSet(f, Ones(code)) - (IF state[p] = code THEN f[p] ELSE 0)
           + (IF state'[p] = code THEN g[p] ELSE 0)
  <1> DEFINE S == Ones(code)
             T == {q \in Payments : state'[q] = code}
             a == IF state[p] = code THEN f[p] ELSE 0
             b == IF state'[p] = code THEN g[p] ELSE 0
  <1>1. /\ S \subseteq Payments /\ T \subseteq Payments /\ S \ {p} = T \ {p}
        /\ (p \in S /\ a = f[p]) \/ (p \notin S /\ a = 0)
        /\ (p \in T /\ b = g[p]) \/ (p \notin T /\ b = 0)
    BY DEF Ones
  <1> HIDE DEF S, T, a, b
  <1>2. Changed(Payments, p, f, S, a, g, T, b)
    BY <1>1, PaymentAssumption DEF Changed
  <1>3. SumFunctionOnSet(g, T) = SumFunctionOnSet(f, S) - a + b
    BY <1>2, SumChanged
  <1>4. Ones(code)' = T
    BY DEF Ones, T
  <1> QED BY <1>3, <1>4 DEF S, a, b

LEMMA SubmittedChange ==
  ASSUME NEW p \in Payments, \A q \in Payments \ {p} : state'[q] = state[q],
         NEW f, NEW g, \A q \in Payments : f[q] \in Int /\ g[q] \in Int,
         \A q \in Payments \ {p} : g[q] = f[q]
  PROVE  SumFunctionOnSet(g, SubmittedOnes') =
           SumFunctionOnSet(f, SubmittedOnes) - Share(p, f[p])
           + (IF state'[p] = "submitted" THEN g[p] ELSE 0)
  BY OnesChange DEF SubmittedOnes, Share

LEMMA SettledChange ==
  ASSUME TypeOK, TypeOK', NEW p \in Payments, NEW d \in Invoices,
         \A q \in Payments \ {p} : state'[q] = state[q] /\ allocs'[q] = allocs[q]
  PROVE  /\ Settled(d)' = Settled(d) - Share(p, CreditsOn(d, allocs[p]))
                          + (IF state'[p] = "submitted" THEN CreditsOn(d, allocs'[p]) ELSE 0)
         /\ Settled(d) \in Int
  <1> DEFINE f == [q \in Payments |-> CreditsOn(d, allocs[q])]
             g == [q \in Payments |-> CreditsOn(d, allocs'[q])]
  <1>1. \A q \in Payments : f[q] \in Int /\ g[q] \in Int
    BY CreditsOnType DEF TypeOK
  <1>2. \A q \in Payments \ {p} : g[q] = f[q] /\ state'[q] = state[q]
    OBVIOUS
  <1>3. f[p] = CreditsOn(d, allocs[p]) /\ g[p] = CreditsOn(d, allocs'[p])
    OBVIOUS
  <1>4. Settled(d) = SumFunctionOnSet(f, SubmittedOnes)
    BY DEF Settled, SubmittedOnes, Ones
  <1>5. Settled(d)' = SumFunctionOnSet(g, SubmittedOnes')
    BY DEF Settled, SubmittedOnes, Ones
  <1>6. IsFiniteSet(SubmittedOnes) /\ \A q \in SubmittedOnes : f[q] \in Int
    BY <1>1, PaymentAssumption, FS_Subset DEF SubmittedOnes, Ones
  <1> HIDE DEF f, g
  <1>7. Settled(d) \in Int
    BY <1>4, <1>6, SumType
  <1>8. SumFunctionOnSet(g, SubmittedOnes') =
          SumFunctionOnSet(f, SubmittedOnes) - Share(p, f[p])
          + (IF state'[p] = "submitted" THEN g[p] ELSE 0)
    BY <1>1, <1>2, SubmittedChange
  <1> QED BY <1>3, <1>4, <1>5, <1>7, <1>8

LEMMA SettledSame ==
  ASSUME NEW d, UNCHANGED allocs,
         \A q \in Payments : state'[q] = "submitted" <=> state[q] = "submitted"
  PROVE  Settled(d)' = Settled(d)
  <1>1. {p \in Payments : state'[p] = "submitted"} = {p \in Payments : state[p] = "submitted"}
    OBVIOUS
  <1> QED BY <1>1 DEF Settled

(* Bank files take and leave payments that are not submitted.              *)
LEMMA BatchSettlesNothing ==
  ASSUME BaseInv, Faithful, NEW w \in Workers, Commit(w), Kind(w) \in Batches,
         CommitBatch(w), NEW q \in Payments
  PROVE  /\ state'[q] = "submitted" <=> state[q] = "submitted"
         /\ state'[q] = "cancelled" <=> state[q] = "cancelled"
         /\ state'[q] = "absent" <=> state[q] = "absent"
  <1>1. CASE state'[q] # state[q]
    <2>1. /\ state'[q] = BatchState(w) /\ state[q] # "absent"
          /\ BatchState(w) \in Transitions[state[q]]
      BY <1>1, BatchWrites DEF Faithful
    <2>2. BatchState(w) \in {"exported", "draft"} /\ state[q] \in PayStates
      BY DEF BatchState, BaseInv, TypeOK
    <2>3. state[q] # "submitted" /\ state[q] # "cancelled"
      BY <2>1, <2>2 DEF Transitions
    <2> QED BY <2>1, <2>2, <2>3
  <1> QED BY <1>1

OutstandingRight == \A d \in Invoices : outstanding[d] = InvTotal[d] - Settled(d)

LEMMA OutstandingStep ==
  ASSUME BaseInv, BaseInv', Faithful, PricesOK, OutstandingRight,
         NEW w \in Workers, Commit(w), NEW d \in Invoices
  PROVE  outstanding'[d] = InvTotal[d] - Settled(d)'
  <1> DEFINE p == Payment(w)
             lines == Lines(w)
             before == Share(p, CreditsOn(d, allocs[p]))
             after == IF state'[p] = "submitted" THEN CreditsOn(d, allocs'[p]) ELSE 0
  <1>0. TypeOK /\ TypeOK' /\ HoldsOf(w) /\ pc[w] = "commit"
    BY DEF BaseInv, HoldsOK, Commit
  <1>1. outstanding[d] = InvTotal[d] - Settled(d) /\ outstanding[d] \in Int /\ InvTotal[d] \in Int
    BY <1>0, PaymentAssumption DEF OutstandingRight, TypeOK
  <1>2. Kind(w) \in PayKinds => /\ p \in Payments /\ lines \in Seq(Line) /\ heldPays[w] = {p}
                                /\ state[p] \in AcceptedStates(Kind(w))
    BY <1>0, WorkTyped DEF HoldsOf, Working, Active
  <1>3. ASSUME Kind(w) \in PayKinds
        PROVE  /\ Settled(d)' = Settled(d) - before + after
               /\ Settled(d) \in Int
               /\ CreditsOn(d, lines) \in Int /\ CreditsOn(d, allocs[p]) \in Int
    <2>1. \A q \in Payments \ {p} : state'[q] = state[q] /\ allocs'[q] = allocs[q]
      BY <1>2, <1>3, CommitWrites
    <2>2. p \in Payments /\ lines \in Seq(Line) /\ allocs[p] \in Seq(Line)
      BY <1>0, <1>2, <1>3 DEF TypeOK
    <2> QED BY <1>0, <2>1, <2>2, SettledChange, CreditsOnType
  <1>4. ASSUME Kind(w) \in PayKinds, NEW x \in Int, NEW y \in Int, before = x, after = y,
               outstanding'[d] = outstanding[d] + x - y
        PROVE  outstanding'[d] = InvTotal[d] - Settled(d)'
    <2>1. Settled(d)' = Settled(d) - x + y /\ Settled(d) \in Int
      BY <1>3, <1>4
    <2> QED BY <1>1, <1>4, <2>1
  <1>5. ASSUME Submitted(p, lines), p \in Payments, lines \in Seq(Line)
        PROVE  /\ state'[p] = "submitted"
               /\ outstanding'[d] = outstanding[d] - CreditsOn(d, lines)
    <2>1. CreditsOn(d, lines) \in Int
      BY <1>5, CreditsOnType
    <2>2. outstanding'[d] = outstanding[d] + Taken(lines)[d] /\ Taken(lines)[d] = -CreditsOn(d, lines)
      BY <1>5 DEF Submitted, Settle, Taken
    <2> QED BY <1>0, <1>1, <1>5, <2>1, <2>2 DEF Submitted, TypeOK
  <1>6. Kind(w) \in PayKinds =>
          /\ state[p] # "submitted" => before = 0
          /\ state[p] = "submitted" => before = CreditsOn(d, allocs[p])
          /\ state'[p] # "submitted" => after = 0
          /\ state'[p] = "submitted" => after = CreditsOn(d, allocs'[p])
    BY DEF Share
  <1> HIDE DEF before, after, p, lines
  <1>7. CASE Kind(w) = "create" /\ CommitCreate(w)
    <2>1. /\ p \in Payments /\ lines \in Seq(Line) /\ before = 0 /\ allocs'[p] = lines
          /\ Kind(w) \in PayKinds
      BY <1>0, <1>2, <1>6, <1>7 DEF CommitCreate, AcceptedStates, PayKinds, TypeOK, p, lines
    <2>2. CASE request[w].submit
      <3>1. Submitted(p, lines)
        BY <1>7, <2>2 DEF CommitCreate, p, lines
      <3> QED BY <1>1, <1>3, <1>4, <1>5, <1>6, <2>1, <3>1
    <2>3. CASE ~request[w].submit
      <3>1. state'[p] # "submitted" /\ UNCHANGED outstanding
        BY <1>0, <1>7, <2>1, <2>3 DEF CommitCreate, TypeOK, p
      <3> QED BY <1>1, <1>4, <1>6, <2>1, <3>1
    <2> QED BY <2>2, <2>3
  <1>8. CASE Kind(w) = "remove" /\ CommitRemove(w)
    <2>1. /\ state[p] # "submitted" /\ state'[p] # "submitted" /\ UNCHANGED outstanding
          /\ Kind(w) \in PayKinds
      BY <1>0, <1>2, <1>8 DEF CommitRemove, AcceptedStates, PayKinds, TypeOK, p
    <2> QED BY <1>1, <1>4, <1>6, <2>1
  <1>9. CASE Kind(w) = "submit" /\ CommitSubmit(w)
    <2>1. /\ p \in Payments /\ lines \in Seq(Line) /\ lines = allocs[p] /\ before = 0
          /\ Submitted(p, lines) /\ UNCHANGED allocs /\ Kind(w) \in PayKinds
      BY <1>0, <1>2, <1>6, <1>9 DEF CommitSubmit, AcceptedStates, PayKinds, Lines, p, lines
    <2>2. state'[p] = "submitted" /\ outstanding'[d] = outstanding[d] - CreditsOn(d, lines)
      BY <1>5, <2>1
    <2>3. allocs'[p] = lines
      BY <2>1
    <2>4. after = CreditsOn(d, lines) /\ CreditsOn(d, lines) \in Int
      BY <1>3, <1>6, <2>1, <2>2, <2>3
    <2>5. outstanding'[d] = outstanding[d] + 0 - CreditsOn(d, lines)
      BY <1>1, <2>2, <2>4
    <2> QED BY <1>4, <2>1, <2>4, <2>5
  <1>10. CASE Kind(w) = "allocate" /\ CommitAllocate(w)
    <2>1. /\ p \in Payments /\ lines \in Seq(Line) /\ state[p] \in {"draft", "submitted"}
          /\ allocs'[p] = KeptAllocs(p) \o lines /\ UNCHANGED state /\ Kind(w) \in PayKinds
      BY <1>0, <1>2, <1>10 DEF CommitAllocate, AcceptedStates, PayKinds, TypeOK, p, lines
    <2>2. CASE state[p] = "draft"
      <3>1. UNCHANGED outstanding
        BY <1>10, <2>2 DEF CommitAllocate, p
      <3> QED BY <1>1, <1>4, <1>6, <2>1, <2>2, <3>1
    <2>3. CASE state[p] = "submitted"
      <3>1. Settle(Taken(lines))
        BY <1>10, <2>3 DEF CommitAllocate, p, lines
      <3>2. outstanding'[d] = outstanding[d] + (-CreditsOn(d, lines))
        BY <3>1 DEF Settle, Taken
      <3>3. allocs[p] \in Seq(Line) /\ allocs'[p] = allocs[p] \o lines
        BY <1>0, <2>1, <2>3 DEF KeptAllocs, TypeOK
      <3>4. CreditsOn(d, allocs'[p]) = CreditsOn(d, allocs[p]) + CreditsOn(d, lines)
        BY <2>1, <3>3, CreditsConcat
      <3>5. CreditsOn(d, lines) \in Int /\ CreditsOn(d, allocs[p]) \in Int
        BY <1>3, <2>1
      <3>6. /\ before = CreditsOn(d, allocs[p])
            /\ after = CreditsOn(d, allocs[p]) + CreditsOn(d, lines)
        BY <1>6, <2>1, <2>3, <3>4
      <3>7. outstanding'[d] = outstanding[d] + CreditsOn(d, allocs[p])
                              - (CreditsOn(d, allocs[p]) + CreditsOn(d, lines))
        BY <1>1, <3>2, <3>5
      <3>8. CreditsOn(d, allocs[p]) + CreditsOn(d, lines) \in Int
        BY <3>5
      <3> QED BY <1>4, <2>1, <3>5, <3>6, <3>7, <3>8
    <2> QED BY <2>1, <2>2, <2>3
  <1>11. CASE Kind(w) = "cancel" /\ CommitCancel(w)
    <2>1. /\ p \in Payments /\ state[p] = "submitted" /\ state'[p] # "submitted"
          /\ Settle(Restored(allocs[p])) /\ Kind(w) \in PayKinds
      BY <1>0, <1>2, <1>11 DEF CommitCancel, AcceptedStates, PayKinds, TypeOK, p
    <2>2. Cancellable(p)
      BY <1>0, <1>11 DEF Cancellable, TypeOK, Kind, Payment, p
    <2>3. CreditsOn(d, allocs[p]) = AmountsOn(d, allocs[p])
      BY <1>0, <2>1, <2>2, CreditsAreAmounts DEF PricesOK, TypeOK
    <2>4. outstanding'[d] = outstanding[d] + CreditsOn(d, allocs[p])
      BY <2>1, <2>3 DEF Settle, Restored
    <2>5. before = CreditsOn(d, allocs[p]) /\ after = 0 /\ CreditsOn(d, allocs[p]) \in Int
      BY <1>3, <1>6, <2>1
    <2>6. outstanding'[d] = outstanding[d] + CreditsOn(d, allocs[p]) - 0
      BY <1>1, <2>4, <2>5
    <2> QED BY <1>4, <2>1, <2>5, <2>6
  <1>12. CASE Kind(w) = "void" /\ CommitVoid(w)
    <2>1. UNCHANGED <<state, allocs, outstanding>>
      BY <1>12 DEF CommitVoid
    <2> QED BY <1>1, <2>1, SettledSame
  <1>13. CASE Kind(w) \in Batches /\ CommitBatch(w)
    <2>1. UNCHANGED <<allocs, outstanding>>
      BY <1>13 DEF CommitBatch
    <2> QED BY <1>0, <1>1, <1>13, <2>1, BatchSettlesNothing, SettledSame
  <1> QED BY <1>7, <1>8, <1>9, <1>10, <1>11, <1>12, <1>13 DEF Commit

LEMMA SettledInit ==
  ASSUME Init, NEW d \in Invoices
  PROVE  Settled(d) = 0
  <1>1. {p \in Payments : state[p] = "submitted"} = {}
    BY DEF Init
  <1> QED BY <1>1, SumEmpty DEF Settled

LEMMA PricesAlways ==
  ASSUME CancelsUndiscounted
  PROVE  Spec => []PricesOK
  <1>1. Init => PricesOK
    BY DEF Init, PricesOK, FullPrice
  <1>2. BaseInv /\ PricesOK /\ [Next]_vars => PricesOK'
    <2> SUFFICES ASSUME BaseInv, PricesOK, [Next]_vars PROVE PricesOK'
      OBVIOUS
    <2>1. CASE UNCHANGED tables
      BY <2>1 DEF tables, PricesOK
    <2> QED BY <2>1, PricesStep, StepIsActs, TablesChange DEF vars
  <1> QED BY <1>1, <1>2, BaseAlways, PTL DEF Spec

(* What an invoice has outstanding is its total less what the submitted    *)
(* payments have taken off it: cancelled payments leave no trace, where    *)
(* they had no discount, and neither do bank files, as long as they write  *)
(* nothing over.                                                           *)
THEOREM OutstandingIsExplained ==
  ASSUME CancelsUndiscounted
  PROVE  Spec => []OutstandingExplained
  <1>1. Init => OutstandingExplained
    <2> SUFFICES ASSUME Init, NEW d \in Invoices PROVE outstanding[d] = InvTotal[d] - Settled(d)
      BY DEF OutstandingExplained
    <2>1. outstanding[d] = InvTotal[d] /\ InvTotal[d] \in Int
      BY PaymentAssumption DEF Init
    <2> QED BY <2>1, SettledInit
  <1>2. BaseInv /\ BaseInv' /\ SeenInv /\ PricesOK /\ OutstandingExplained /\ [Next]_vars =>
          OutstandingExplained'
    <2> SUFFICES ASSUME BaseInv, BaseInv', SeenInv, PricesOK, OutstandingExplained, [Next]_vars,
                        overwritten' = {}
                 PROVE  OutstandingRight'
      BY DEF OutstandingExplained, OutstandingRight
    <2>1. OutstandingRight /\ Faithful
      BY OverwrittenGrows DEF OutstandingExplained, OutstandingRight, Faithful
    <2>2. CASE UNCHANGED tables
      BY <2>1, <2>2 DEF tables, OutstandingRight, Settled
    <2>3. ASSUME NEW w \in Workers, Commit(w) PROVE OutstandingRight'
      BY <2>1, <2>3, OutstandingStep DEF OutstandingRight
    <2> QED BY <2>2, <2>3, StepIsActs, TablesChange DEF vars
  <1> QED BY <1>1, <1>2, BaseAlways, SeenAlways, PricesAlways, PTL DEF Spec

-------------------------------------------------------------------------------
(***************************************************************************)
(* Locks of invoices: one that is cancelled is cancelled once.             *)
(***************************************************************************)
VoidsOf(w) ==
  Kind(w) = "void" =>
    /\ pc[w] \in {"check", "post", "commit"} => request[w].invoice \in heldInvs[w]
    /\ pc[w] \in {"post", "commit"} => invState[request[w].invoice] # "cancelled"
VoidsOK == (\A w \in Workers : VoidsOf(w)) /\ Apart(heldInvs)

LEMMA OwnVoids ==
  ASSUME BaseInv, VoidsOK, NEW w \in Workers, Acts(w)
  PROVE  /\ VoidsOf(w)'
         /\ \A d \in heldInvs'[w] \ heldInvs[w] : InvBlockers(w, d) = {}
  <1> DEFINE OK == /\ VoidsOf(w)'
                   /\ \A d \in heldInvs'[w] \ heldInvs[w] : InvBlockers(w, d) = {}
  <1>0. TypeOK /\ ControlOf(w) /\ VoidsOf(w)
    BY DEF BaseInv, ControlOK, VoidsOK
  <1>1. CASE Ends(w)
    BY <1>0, <1>1, EndsFinish, Finished DEF VoidsOf
  <1>2. CASE Begin(w)
    <2>1. pc'[w] \notin {"check", "post", "commit"} /\ heldInvs' = heldInvs
      BY <1>0, <1>2 DEF Begin, Goto, FirstStep, locks, TypeOK
    <2> QED BY <2>1 DEF VoidsOf
  <1>3. CASE LockPayment(w)
    <2>1. Kind(w) # "void" /\ UNCHANGED <<request, heldInvs>>
      BY <1>0, <1>3 DEF LockPayment, ControlOf, PayKinds
    <2> QED BY <2>1 DEF VoidsOf, Kind
  <1>4. CASE LockInvoice(w)
    <2>1. PICK d \in InvoicesLeft(w) : /\ InvBlockers(w, d) = {}
                                       /\ heldInvs' = [heldInvs EXCEPT ![w] = @ \cup {d}]
      BY <1>4 DEF LockInvoice
    <2>2. pc[w] \in {"invoices", "settle"} /\ UNCHANGED <<pc, request>>
      BY <1>4 DEF LockInvoice
    <2>3. heldInvs'[w] = heldInvs[w] \cup {d}
      BY <1>0, <2>1 DEF TypeOK
    <2> QED BY <2>1, <2>2, <2>3 DEF VoidsOf
  <1>5. CASE InvoicesLocked(w)
    <2>1. /\ UNCHANGED <<request, heldInvs>> /\ InvoicesNeeded(w) \subseteq heldInvs[w]
          /\ pc'[w] = "check" \/ Kind(w) # "void"
      BY <1>0, <1>5 DEF InvoicesLocked, AllLocked, InvoicesLeft, Goto, locks, ControlOf, TypeOK
    <2> QED BY <2>1 DEF VoidsOf, Kind, InvoicesNeeded
  <1>6. CASE Check(w)
    <2>1. pc[w] = "check" /\ CheckPassed(w) /\ UNCHANGED <<invState, request, heldInvs>>
      BY <1>6 DEF Check, tables, locks
    <2> QED BY <1>0, <2>1 DEF VoidsOf, Kind, CheckPassed
  <1>7. CASE TakeLedger(w)
    <2>1. pc[w] = "post" /\ UNCHANGED <<invState, request, heldInvs>>
      BY <1>7 DEF TakeLedger, tables
    <2> QED BY <1>0, <2>1 DEF VoidsOf, Kind
  <1>8. CASE ReadBatch(w) \/ ReadState(w) \/ WriteState(w)
    <2>1. Kind(w) # "void" /\ UNCHANGED <<request, heldInvs>>
      BY <1>0, <1>8 DEF ReadBatch, ReadState, WriteState, ControlOf, Batches, locks
    <2> QED BY <2>1 DEF VoidsOf, Kind
  <1> QED BY <1>1, <1>2, <1>3, <1>4, <1>5, <1>6, <1>7, <1>8 DEF Acts, Step, Ends

Void(d) == invState[d] = "cancelled"

(* A settlement cancels no invoice and revives none.                       *)
LEMMA SettleKeepsVoid ==
  ASSUME TypeOK, NEW change, Settle(change), NEW d \in Invoices
  PROVE  Void(d)' <=> Void(d)
  BY DEF Settle, Lifecycle, Void, TypeOK

LEMMA CommitVoids ==
  ASSUME BaseInv, NEW w \in Workers, Commit(w), NEW d \in Invoices,
         Kind(w) = "void" => request[w].invoice # d
  PROVE  Void(d)' <=> Void(d)
  <1>0. TypeOK
    BY DEF BaseInv
  <1>1. CASE \E change : Settle(change)
    BY <1>0, <1>1, SettleKeepsVoid
  <1>2. CASE UNCHANGED invState
    BY <1>2 DEF Void
  <1>3. CASE Kind(w) = "void" /\ CommitVoid(w)
    BY <1>0, <1>3 DEF CommitVoid, Void, TypeOK
  <1>4. (\E change : Settle(change)) \/ UNCHANGED invState \/ (Kind(w) = "void" /\ CommitVoid(w))
    BY DEF Commit, CommitCreate, CommitRemove, CommitSubmit, CommitAllocate, CommitCancel,
           CommitBatch, Submitted
  <1> QED BY <1>1, <1>2, <1>3, <1>4

LEMMA VoidsStep ==
  ASSUME BaseInv, VoidsOK, NEW w \in Workers, Acts(w)
  PROVE  VoidsOK'
  <1>1. \A u \in Workers \ {w} : /\ pc'[u] = pc[u] /\ request'[u] = request[u]
                                 /\ heldInvs'[u] = heldInvs[u]
    BY Frame DEF BaseInv
  <1>2. ASSUME NEW u \in Workers \ {w} PROVE VoidsOf(u)'
    <2>1. VoidsOf(u) /\ VoidsOf(w) /\ TypeOK
      BY DEF VoidsOK, BaseInv
    <2>2. ASSUME Kind(u) = "void", pc[u] \in {"post", "commit"}
          PROVE  invState'[request[u].invoice] # "cancelled"
      <3> DEFINE d == request[u].invoice
      <3>1. d \in heldInvs[u] /\ d \in Invoices /\ ~Void(d)
        BY <2>1, <2>2, WorkTyped DEF VoidsOf, Void
      <3>2. CASE UNCHANGED tables
        BY <3>1, <3>2 DEF tables, Void
      <3>3. CASE Commit(w)
        <4>1. Kind(w) = "void" => request[w].invoice # d
          <5>1. d \notin heldInvs[w]
            BY <3>1 DEF VoidsOK, Apart
          <5> QED BY <2>1, <3>3, <5>1 DEF VoidsOf, Commit
        <4>2. \A e \in Invoices : (Kind(w) = "void" => request[w].invoice # e) =>
                                  (invState'[e] = "cancelled" => invState[e] = "cancelled")
          BY <3>3, CommitVoids DEF Void
        <4> QED BY <3>1, <4>1, <4>2 DEF Void
      <3> QED BY <3>2, <3>3, TablesChange
    <2> QED BY <1>1, <2>1, <2>2 DEF VoidsOf, Kind, Void
  <1>3. Apart(heldInvs')
    <2> SUFFICES ASSUME NEW u \in Workers, u # w, NEW d \in heldInvs'[u], d \in heldInvs'[w]
                 PROVE  FALSE
      BY <1>1 DEF VoidsOK, Apart
    <2>1. d \in heldInvs[u]
      BY <1>1
    <2>2. d \notin heldInvs[w]
      BY <2>1 DEF VoidsOK, Apart
    <2>3. InvBlockers(w, d) = {}
      BY <2>2, OwnVoids
    <2> QED BY <2>1, <2>3 DEF InvBlockers
  <1>4. VoidsOf(w)'
    BY OwnVoids
  <1> QED BY <1>2, <1>3, <1>4 DEF VoidsOK, Apart

LEMMA VoidsAlways == Spec => []VoidsOK
  <1>1. Init => VoidsOK
    BY DEF Init, VoidsOK, VoidsOf, Apart
  <1>2. BaseInv /\ VoidsOK /\ [Next]_vars => VoidsOK'
    <2> SUFFICES ASSUME BaseInv, VoidsOK, [Next]_vars PROVE VoidsOK'
      OBVIOUS
    <2>1. CASE UNCHANGED vars
      BY <2>1 DEF vars, tables, locks, batch, VoidsOK, VoidsOf, Apart, Kind
    <2> QED BY <2>1, VoidsStep, StepIsActs
  <1> QED BY <1>1, <1>2, BaseAlways, PTL DEF Spec

-------------------------------------------------------------------------------
(***************************************************************************)
(* Lines weighed with the rates of their invoices.                         *)
(***************************************************************************)
Weighed(lines) == LinesSum(lines, LAMBDA l : (l.amount + l.discount) * InvRate[l.invoice])

LEMMA Times == \A m, n \in Int : m * n \in Int /\ m * n = n * m
  OBVIOUS

LEMMA WeighedType ==
  ASSUME NEW lines \in Seq(Line)
  PROVE  Weighed(lines) \in Int
  <1> DEFINE f == [i \in DOMAIN lines |->
                     (lines[i].amount + lines[i].discount) * InvRate[lines[i].invoice]]
  <1>1. ASSUME NEW i \in DOMAIN lines PROVE f[i] \in Int
    <2>1. lines[i].amount + lines[i].discount \in Int /\ InvRate[lines[i].invoice] \in Int
      BY LinesAre, PaymentAssumption
    <2> QED BY <2>1
  <1>2. Weighed(lines) = SumFunction(f) /\ DOMAIN f = DOMAIN lines
    BY DEF Weighed, LinesSum
  <1> HIDE DEF f
  <1> QED BY <1>1, <1>2, LinesSumType

(* Whether they are weighed one by one or by invoice.                      *)
LEMMA CreditsWeighed ==
  ASSUME NEW lines \in Seq(Line)
  PROVE  SumFunctionOnSet([d \in Invoices |-> InvRate[d] * CreditsOn(d, lines)], Invoices)
           = Weighed(lines)
  <1> DEFINE D == DOMAIN lines
             k == [i \in D |-> lines[i].invoice]
             f == [i \in D |-> lines[i].amount + lines[i].discount]
             h == [d \in Invoices |-> InvRate[d] * CreditsOn(d, lines)]
             g == [i \in D |-> (lines[i].amount + lines[i].discount) * InvRate[lines[i].invoice]]
  <1>1. IsFiniteSet(D) /\ IsFiniteSet(Invoices)
    BY LinesAre, PaymentAssumption
  <1>2. \A i \in D : k[i] \in Invoices /\ f[i] \in Int
    BY LinesAre
  <1>3. \A d \in Invoices : InvRate[d] \in Int
    BY PaymentAssumption
  <1>4. \A d \in Invoices : h[d] = InvRate[d] * KeySum(k, f, D, d)
    <2> SUFFICES ASSUME NEW d \in Invoices PROVE CreditsOn(d, lines) = KeySum(k, f, D, d)
      OBVIOUS
    <2> DEFINE e == [i \in D |-> IF lines[i].invoice = d THEN lines[i].amount + lines[i].discount
                                 ELSE 0]
               c == [i \in D |-> IF k[i] = d THEN f[i] ELSE 0]
    <2>1. CreditsOn(d, lines) = SumFunction(e)
      BY DEF CreditsOn, SumOn, LinesSum
    <2>2. e = c /\ DOMAIN e = D
      OBVIOUS
    <2>3. KeySum(k, f, D, d) = SumFunctionOnSet(c, D)
      BY DEF KeySum
    <2> HIDE DEF e, c
    <2> QED BY <2>1, <2>2, <2>3 DEF SumFunction
  <1>5. \A i \in D : g[i] = InvRate[k[i]] * f[i]
    <2> SUFFICES ASSUME NEW i \in D
                 PROVE  (lines[i].amount + lines[i].discount) * InvRate[lines[i].invoice]
                          = InvRate[lines[i].invoice] * (lines[i].amount + lines[i].discount)
      OBVIOUS
    <2>1. lines[i].amount + lines[i].discount \in Int /\ InvRate[lines[i].invoice] \in Int
      BY LinesAre, PaymentAssumption
    <2> QED BY <2>1, Times
  <1>6. Weighed(lines) = SumFunctionOnSet(g, D)
    <2>1. Weighed(lines) = SumFunction(g) /\ DOMAIN g = D
      BY DEF Weighed, LinesSum
    <2> HIDE DEF g
    <2> QED BY <2>1 DEF SumFunction
  <1> HIDE DEF D, k, f, h, g
  <1>7. SumFunctionOnSet(h, Invoices) = SumFunctionOnSet(g, D)
    <2>1. Keyed(D, Invoices, k, f, InvRate, h, g)
      BY <1>1, <1>2, <1>3, <1>4, <1>5 DEF Keyed
    <2> QED BY <2>1, SumByKey
  <1> QED BY <1>6, <1>7 DEF h

LEMMA LateDropsWeighed ==
  ASSUME NEW w, Payment(w) \in Payments, NEW lines \in Seq(Line)
  PROVE  LateDrops(w, lines) = Weighed(lines) - Amounts(lines) * PayRate[Payment(w)]
  <1> DEFINE D == DOMAIN lines
             r == PayRate[Payment(w)]
             f == [i \in D |-> (lines[i].amount + lines[i].discount) * InvRate[lines[i].invoice]]
             a == [i \in D |-> lines[i].amount]
             b == [i \in D |-> r * lines[i].amount]
             h == [i \in D |-> (lines[i].amount + lines[i].discount) * InvRate[lines[i].invoice]
                               - lines[i].amount * r]
  <1>1. IsFiniteSet(D) /\ r \in Int
    BY LinesAre, PaymentAssumption
  <1>2. ASSUME NEW i \in D
        PROVE  a[i] \in Int /\ b[i] \in Int /\ h[i] \in Int /\ b[i] = r * a[i] /\ f[i] = h[i] + b[i]
    <2> DEFINE x == (lines[i].amount + lines[i].discount) * InvRate[lines[i].invoice]
               y == lines[i].amount
    <2>1. y \in Int /\ lines[i].amount + lines[i].discount \in Int /\ InvRate[lines[i].invoice] \in Int
      BY LinesAre, PaymentAssumption
    <2>2. x \in Int
      BY <2>1
    <2>3. a[i] = y /\ b[i] = r * y /\ h[i] = x - y * r /\ f[i] = x
      OBVIOUS
    <2> HIDE DEF x, y, a, b, h, f, r
    <2>4. y * r = r * y /\ r * y \in Int
      BY <1>1, <2>1, Times
    <2> QED BY <2>1, <2>2, <2>3, <2>4
  <1>3. /\ Weighed(lines) = SumFunction(f) /\ Amounts(lines) = SumFunction(a)
        /\ LateDrops(w, lines) = SumFunction(h)
    BY DEF Weighed, Amounts, LateDrops, LateDrop, LinesSum
  <1>4. DOMAIN f = D /\ DOMAIN a = D /\ DOMAIN h = D
    OBVIOUS
  <1> HIDE DEF D, r, f, a, b, h
  <1>5. SumFunctionOnSet(f, D) = SumFunctionOnSet(h, D) + SumFunctionOnSet(b, D)
    BY <1>1, <1>2, SumPlus
  <1>6. SumFunctionOnSet(b, D) = r * SumFunctionOnSet(a, D)
    BY <1>1, <1>2, SumScale
  <1>7. SumFunctionOnSet(h, D) \in Int /\ SumFunctionOnSet(a, D) \in Int
    BY <1>1, <1>2, SumType
  <1>8. r * SumFunctionOnSet(a, D) = SumFunctionOnSet(a, D) * r
    BY <1>1, <1>7, Times
  <1>9. SumFunctionOnSet(a, D) * r \in Int
    BY <1>1, <1>7, Times
  <1>10. SumFunctionOnSet(h, D) = SumFunctionOnSet(f, D) - SumFunctionOnSet(a, D) * r
    BY <1>5, <1>6, <1>7, <1>8, <1>9
  <1> QED BY <1>3, <1>4, <1>10 DEF SumFunction, r

-------------------------------------------------------------------------------
(***************************************************************************)
(* Lines without their discounts, which a cancellation does not give back. *)
(***************************************************************************)
Plain(lines) == [i \in DOMAIN lines |-> [lines[i] EXCEPT !.discount = 0]]
Paid(lines) == LinesSum(lines, LAMBDA l : l.amount * InvRate[l.invoice])
(* What a cancellation leaves in the receivables on account of its lines.  *)
LinesLeft(lines) == LinesSum(lines, LAMBDA l : l.amount * (InvRate[l.invoice] - 1))

LEMMA PlainLines ==
  ASSUME NEW lines \in Seq(Line)
  PROVE  /\ Plain(lines) \in Seq(Line) /\ DOMAIN Plain(lines) = DOMAIN lines
         /\ \A i \in DOMAIN lines : /\ Plain(lines)[i].invoice = lines[i].invoice
                                    /\ Plain(lines)[i].amount = lines[i].amount
                                    /\ Plain(lines)[i].discount = 0
  <1>1. Len(lines) \in Nat /\ DOMAIN lines = 1..Len(lines) /\ \A i \in DOMAIN lines : lines[i] \in Line
    BY LinesAre
  <1>2. \A i \in DOMAIN lines : /\ [lines[i] EXCEPT !.discount = 0] \in Line
                                /\ [lines[i] EXCEPT !.discount = 0].invoice = lines[i].invoice
                                /\ [lines[i] EXCEPT !.discount = 0].amount = lines[i].amount
                                /\ [lines[i] EXCEPT !.discount = 0].discount = 0
    BY <1>1 DEF Line
  <1>3. Plain(lines) \in [1..Len(lines) -> Line]
    BY <1>1, <1>2 DEF Plain
  <1>4. Plain(lines) \in Seq(Line)
    BY <1>1, <1>3, SeqDef
  <1> QED BY <1>2, <1>4 DEF Plain

LEMMA PlainCredits ==
  ASSUME NEW lines \in Seq(Line), NEW d
  PROVE  CreditsOn(d, Plain(lines)) = AmountsOn(d, lines)
  <1> DEFINE q == Plain(lines)
             f == [i \in DOMAIN q |-> IF q[i].invoice = d THEN q[i].amount + q[i].discount ELSE 0]
             g == [i \in DOMAIN lines |-> IF lines[i].invoice = d THEN lines[i].amount ELSE 0]
  <1>1. CreditsOn(d, q) = SumFunction(f) /\ AmountsOn(d, lines) = SumFunction(g)
    BY DEF CreditsOn, AmountsOn, SumOn, LinesSum
  <1>2. \A i \in DOMAIN lines : lines[i].amount \in Nat
    BY LinesAre
  <1>3. /\ DOMAIN q = DOMAIN lines
        /\ \A i \in DOMAIN lines : /\ q[i].invoice = lines[i].invoice
                                   /\ q[i].amount = lines[i].amount /\ q[i].discount = 0
    BY PlainLines
  <1> HIDE DEF q
  <1>4. f = g
    BY <1>2, <1>3
  <1> HIDE DEF f, g
  <1> QED BY <1>1, <1>4 DEF q

LEMMA PlainWeighed ==
  ASSUME NEW lines \in Seq(Line)
  PROVE  Weighed(Plain(lines)) = Paid(lines)
  <1> DEFINE q == Plain(lines)
             f == [i \in DOMAIN q |-> (q[i].amount + q[i].discount) * InvRate[q[i].invoice]]
             g == [i \in DOMAIN lines |-> lines[i].amount * InvRate[lines[i].invoice]]
  <1>1. Weighed(q) = SumFunction(f) /\ Paid(lines) = SumFunction(g)
    BY DEF Weighed, Paid, LinesSum
  <1>2. \A i \in DOMAIN lines : lines[i].amount + 0 = lines[i].amount
    BY LinesAre
  <1>3. /\ DOMAIN q = DOMAIN lines
        /\ \A i \in DOMAIN lines : /\ q[i].invoice = lines[i].invoice
                                   /\ q[i].amount = lines[i].amount /\ q[i].discount = 0
    BY PlainLines
  <1> HIDE DEF q
  <1>4. \A i \in DOMAIN lines :
          (q[i].amount + q[i].discount) * InvRate[q[i].invoice]
            = lines[i].amount * InvRate[lines[i].invoice]
    BY <1>2, <1>3
  <1>5. f = g
    BY <1>3, <1>4
  <1> HIDE DEF f, g
  <1> QED BY <1>1, <1>5 DEF q

LEMMA PaidIs ==
  ASSUME NEW lines \in Seq(Line)
  PROVE  /\ Paid(lines) = LinesLeft(lines) + Amounts(lines)
         /\ LinesLeft(lines) \in Int
  <1> DEFINE D == DOMAIN lines
             f == [i \in D |-> lines[i].amount * (InvRate[lines[i].invoice] - 1)]
             g == [i \in D |-> lines[i].amount]
             h == [i \in D |-> lines[i].amount * InvRate[lines[i].invoice]]
  <1>1. ASSUME NEW i \in D PROVE f[i] \in Int /\ g[i] \in Int /\ h[i] = f[i] + g[i]
    <2> DEFINE a == lines[i].amount
               r == InvRate[lines[i].invoice]
    <2>1. a \in Int /\ r \in Int
      BY LinesAre, PaymentAssumption
    <2>2. f[i] = a * (r - 1) /\ g[i] = a /\ h[i] = a * r
      OBVIOUS
    <2> HIDE DEF a, r, f, g, h
    <2>3. a * (r - 1) = a * r - a /\ a * r \in Int
      BY <2>1
    <2> QED BY <2>1, <2>2, <2>3
  <1>2. IsFiniteSet(D)
    BY LinesAre
  <1>3. /\ Paid(lines) = SumFunction(h) /\ LinesLeft(lines) = SumFunction(f)
        /\ Amounts(lines) = SumFunction(g)
    BY DEF Paid, LinesLeft, Amounts, LinesSum
  <1>4. DOMAIN f = D /\ DOMAIN g = D /\ DOMAIN h = D
    OBVIOUS
  <1> HIDE DEF D, f, g, h
  <1>5. SumFunctionOnSet(h, D) = SumFunctionOnSet(f, D) + SumFunctionOnSet(g, D)
    BY <1>1, <1>2, SumPlus
  <1>6. SumFunctionOnSet(f, D) \in Int
    BY <1>1, <1>2, SumType
  <1> QED BY <1>3, <1>4, <1>5, <1>6 DEF SumFunction

-------------------------------------------------------------------------------
(***************************************************************************)
(* What the receivables lose and gain.                                     *)
(***************************************************************************)
Receivables == SumFunctionOnSet([d \in Invoices |-> Receivable(d)], Invoices)

LEMMA ReceivableType ==
  ASSUME TypeOK
  PROVE  /\ \A d \in Invoices : Receivable(d) \in Int
         /\ Receivables \in Int
  <1>1. ASSUME NEW d \in Invoices PROVE Receivable(d) \in Int
    <2> DEFINE n == outstanding[d] - (IF invState[d] = "cancelled" THEN InvTotal[d] ELSE 0)
    <2>1. n \in Int /\ InvRate[d] \in Int
      BY PaymentAssumption DEF TypeOK
    <2>2. Receivable(d) = n * InvRate[d]
      BY DEF Receivable
    <2> HIDE DEF n
    <2> QED BY <2>1, <2>2
  <1> DEFINE f == [d \in Invoices |-> Receivable(d)]
  <1>2. \A d \in Invoices : f[d] \in Int
    BY <1>1
  <1> HIDE DEF f
  <1>3. SumFunctionOnSet(f, Invoices) \in Int
    BY <1>2, PaymentAssumption, SumType
  <1> QED BY <1>1, <1>3 DEF f, Receivables

LEMMA ReceivablesSettle ==
  ASSUME TypeOK, NEW change, \A d \in Invoices : change[d] \in Int, Settle(change),
         NEW g, \A d \in Invoices : g[d] = InvRate[d] * change[d]
  PROVE  Receivables' = Receivables + SumFunctionOnSet(g, Invoices)
  <1> DEFINE f == [d \in Invoices |-> Receivable(d)]
             h == [d \in Invoices |-> Receivable(d)']
  <1>1. ASSUME NEW d \in Invoices
        PROVE  f[d] \in Int /\ g[d] \in Int /\ h[d] = f[d] + g[d]
    <2> DEFINE v == IF invState[d] = "cancelled" THEN InvTotal[d] ELSE 0
               r == InvRate[d]
               o == outstanding[d]
               c == change[d]
    <2>1. v \in Int /\ r \in Int /\ o \in Int /\ c \in Int
      BY PaymentAssumption DEF TypeOK
    <2>2. outstanding'[d] = o + c
      BY DEF Settle
    <2>3. (invState'[d] = "cancelled") <=> (invState[d] = "cancelled")
      BY SettleKeepsVoid DEF Void
    <2>4. h[d] = ((o + c) - v) * r
      BY <2>2, <2>3 DEF Receivable
    <2>5. f[d] = (o - v) * r /\ g[d] = r * c
      BY DEF Receivable
    <2> HIDE DEF v, r, o, c, f, h
    <2>6. ((o + c) - v) * r = (o - v) * r + r * c
      BY <2>1
    <2>7. (o - v) * r \in Int /\ r * c \in Int
      BY <2>1
    <2> QED BY <2>4, <2>5, <2>6, <2>7
  <1>2. Receivables = SumFunctionOnSet(f, Invoices)
    BY DEF Receivables
  <1>3. Receivables' = SumFunctionOnSet(h, Invoices)
    BY DEF Receivables
  <1> HIDE DEF f, h
  <1>4. SumFunctionOnSet(h, Invoices) = SumFunctionOnSet(f, Invoices) + SumFunctionOnSet(g, Invoices)
    BY <1>1, PaymentAssumption, SumPlus
  <1> QED BY <1>2, <1>3, <1>4

LEMMA ReceivablesTaken ==
  ASSUME TypeOK, NEW lines \in Seq(Line), Settle(Taken(lines))
  PROVE  Receivables' = Receivables - Weighed(lines)
  <1> DEFINE h == [d \in Invoices |-> InvRate[d] * CreditsOn(d, lines)]
             g == [d \in Invoices |-> InvRate[d] * (-CreditsOn(d, lines))]
             change == Taken(lines)
  <1>1. ASSUME NEW d \in Invoices
        PROVE  /\ change[d] \in Int /\ h[d] \in Int /\ g[d] = InvRate[d] * change[d]
               /\ g[d] = (-1) * h[d]
    <2>1. CreditsOn(d, lines) \in Int /\ InvRate[d] \in Int
      BY CreditsOnType, PaymentAssumption
    <2>2. change[d] = -CreditsOn(d, lines)
      BY DEF Taken
    <2>3. InvRate[d] * CreditsOn(d, lines) \in Int
      BY <2>1
    <2>4. InvRate[d] * (-CreditsOn(d, lines)) = (-1) * (InvRate[d] * CreditsOn(d, lines))
      BY <2>1
    <2> QED BY <2>1, <2>2, <2>3, <2>4
  <1>2. SumFunctionOnSet(h, Invoices) = Weighed(lines)
    BY CreditsWeighed
  <1> HIDE DEF h, g, change
  <1>3. Settle(change)
    BY DEF change
  <1>4. Receivables' = Receivables + SumFunctionOnSet(g, Invoices)
    BY <1>1, <1>3, ReceivablesSettle
  <1>5. SumFunctionOnSet(g, Invoices) = (-1) * SumFunctionOnSet(h, Invoices)
    BY <1>1, PaymentAssumption, SumScale
  <1>6. Weighed(lines) \in Int /\ Receivables \in Int
    BY WeighedType, ReceivableType
  <1> QED BY <1>2, <1>4, <1>5, <1>6

LEMMA ReceivablesRestored ==
  ASSUME TypeOK, NEW lines \in Seq(Line), Settle(Restored(lines))
  PROVE  Receivables' = Receivables + Paid(lines)
  <1> DEFINE q == Plain(lines)
             h == [d \in Invoices |-> InvRate[d] * CreditsOn(d, q)]
             change == Restored(lines)
  <1>1. ASSUME NEW d \in Invoices
        PROVE  change[d] \in Int /\ h[d] = InvRate[d] * change[d]
    <2>1. CreditsOn(d, q) = AmountsOn(d, lines) /\ AmountsOn(d, lines) \in Int
      BY AmountsOnType, PlainCredits
    <2> QED BY <2>1 DEF Restored
  <1>2. q \in Seq(Line)
    BY PlainLines
  <1>3. SumFunctionOnSet(h, Invoices) = Weighed(q)
    BY <1>2, CreditsWeighed
  <1>4. Weighed(q) = Paid(lines)
    BY PlainWeighed
  <1> HIDE DEF q, h, change
  <1>5. Settle(change)
    BY DEF change
  <1>6. Receivables' = Receivables + SumFunctionOnSet(h, Invoices)
    BY <1>1, <1>5, ReceivablesSettle
  <1> QED BY <1>3, <1>4, <1>6

LEMMA ReceivablesVoid ==
  ASSUME TypeOK, NEW e \in Invoices, invState[e] # "cancelled", UNCHANGED outstanding,
         invState' = [invState EXCEPT ![e] = "cancelled"]
  PROVE  /\ Receivables' = Receivables - InvTotal[e] * InvRate[e]
         /\ InvTotal[e] * InvRate[e] \in Int
  <1> DEFINE f == [d \in Invoices |-> Receivable(d)]
             h == [d \in Invoices |-> Receivable(d)']
             n == InvTotal[e]
             r == InvRate[e]
             o == outstanding[e]
  <1>1. n \in Int /\ r \in Int /\ o \in Int
    <2>1. InvTotal[e] \in Int /\ InvRate[e] \in Int
      BY PaymentAssumption
    <2>2. outstanding[e] \in Int
      BY DEF TypeOK
    <2> QED BY <2>1, <2>2
  <1>2. f[e] = (o - 0) * r /\ h[e] = (o - n) * r
    BY DEF Receivable, TypeOK
  <1>3. \A d \in Invoices \ {e} : h[d] = f[d]
    BY DEF Receivable, TypeOK
  <1>4. \A d \in Invoices : f[d] \in Int
    BY ReceivableType
  <1>5. Receivables = SumFunctionOnSet(f, Invoices)
    BY DEF Receivables
  <1>6. Receivables' = SumFunctionOnSet(h, Invoices)
    BY DEF Receivables
  <1> HIDE DEF f, h, n, r, o
  <1>7. (o - n) * r = (o - 0) * r - n * r
    BY <1>1
  <1>8. n * r \in Int /\ (o - 0) * r \in Int /\ (o - n) * r \in Int
    BY <1>1
  <1>9. \A d \in Invoices : f[d] \in Int /\ h[d] \in Int
    BY <1>2, <1>3, <1>4, <1>8
  <1>10. SumFunctionOnSet(h, Invoices) = SumFunctionOnSet(f, Invoices) - f[e] + h[e]
    BY <1>3, <1>9, PaymentAssumption, SumExcept
  <1>11. SumFunctionOnSet(f, Invoices) \in Int
    BY <1>4, PaymentAssumption, SumType
  <1>12. Receivables' = Receivables - n * r
    BY <1>2, <1>5, <1>6, <1>7, <1>8, <1>10, <1>11
  <1> QED BY <1>8, <1>12 DEF n, r

-------------------------------------------------------------------------------
(***************************************************************************)
(* The ledger agrees with the documents.                                   *)
(***************************************************************************)
BankSum == SumFunctionOnSet([p \in Payments |-> PayTotal[p] * PayRate[p]], SubmittedOnes)
RestSum == SumFunctionOnSet([p \in Payments |-> unallocated[p] * PayRate[p]], SubmittedOnes)
(* What the cancelled payments have left behind.                           *)
Gone == Ones("cancelled")
BankLost == SumFunctionOnSet([p \in Payments |-> BankLeftover(p)], Gone)
ControlLost == SumFunctionOnSet([p \in Payments |-> ControlLeftover(p)], Gone)
BooksOK == bank = BankSum + BankLost /\ control = Receivables - RestSum - ControlLost

LEMMA BooksMean == LedgersAgree <=> (overwritten = {} => BooksOK)
  <1> DEFINE f == [d \in Invoices |-> Receivable(d)]
  <1>1. Receivables = SumFunction(f)
    <2>1. DOMAIN f = Invoices /\ Receivables = SumFunctionOnSet(f, Invoices)
      BY DEF Receivables
    <2> HIDE DEF f
    <2> QED BY <2>1 DEF SumFunction
  <1>2. BankSum = SumIn("submitted", LAMBDA p : PayTotal[p] * PayRate[p])
    BY DEF BankSum, SumIn, SubmittedOnes, Ones
  <1>3. RestSum = SumIn("submitted", LAMBDA p : unallocated[p] * PayRate[p])
    BY DEF RestSum, SumIn, SubmittedOnes, Ones
  <1>4. BankLost = SumIn("cancelled", BankLeftover)
    BY DEF BankLost, SumIn, Gone, Ones
  <1>5. ControlLost = SumIn("cancelled", ControlLeftover)
    BY DEF ControlLost, SumIn, Gone, Ones
  <1> QED BY <1>1, <1>2, <1>3, <1>4, <1>5 DEF LedgersAgree, BankAgrees, ControlAgrees, BooksOK

LEMMA LeftoverTypes ==
  ASSUME TypeOK
  PROVE  /\ \A p \in Payments : BankLeftover(p) \in Int /\ ControlLeftover(p) \in Int
         /\ BankLost \in Int /\ ControlLost \in Int
  <1>1. ASSUME NEW p \in Payments PROVE BankLeftover(p) \in Int /\ ControlLeftover(p) \in Int
    <2> DEFINE r == PayRate[p] - 1
    <2>1. PayTotal[p] \in Int /\ r \in Int /\ unallocated[p] \in Int
      BY PaymentAssumption DEF TypeOK
    <2>2. LinesLeft(allocs[p]) \in Int
      BY PaidIs DEF TypeOK
    <2>3. BankLeftover(p) = PayTotal[p] * r
      BY DEF BankLeftover
    <2>4. ControlLeftover(p) = LinesLeft(allocs[p]) + unallocated[p] * r
      BY DEF ControlLeftover, LinesLeft
    <2> HIDE DEF r
    <2>5. PayTotal[p] * r \in Int /\ unallocated[p] * r \in Int
      BY <2>1
    <2> QED BY <2>2, <2>3, <2>4, <2>5
  <1> DEFINE f == [p \in Payments |-> BankLeftover(p)]
             g == [p \in Payments |-> ControlLeftover(p)]
  <1>2. IsFiniteSet(Gone) /\ \A p \in Gone : f[p] \in Int /\ g[p] \in Int
    BY <1>1, PaymentAssumption, FS_Subset DEF Gone, Ones
  <1>3. BankLost = SumFunctionOnSet(f, Gone) /\ ControlLost = SumFunctionOnSet(g, Gone)
    BY DEF BankLost, ControlLost
  <1> HIDE DEF f, g
  <1> QED BY <1>1, <1>2, <1>3, SumType

(* Who was not cancelled is not, and nothing of who was has changed.       *)
LeavesGone ==
  \A p \in Payments :
    /\ state'[p] = "cancelled" <=> state[p] = "cancelled"
    /\ state[p] = "cancelled" => allocs'[p] = allocs[p] /\ unallocated'[p] = unallocated[p]

LEMMA LeftoversStay ==
  ASSUME TypeOK, LeavesGone
  PROVE  BankLost' = BankLost /\ ControlLost' = ControlLost
  <1> DEFINE f == [p \in Payments |-> BankLeftover(p)]
             g == [p \in Payments |-> ControlLeftover(p)]
             h == [p \in Payments |-> ControlLeftover(p)']
  <1>1. Gone' = Gone /\ IsFiniteSet(Gone) /\ Gone \subseteq Payments
    BY PaymentAssumption, FS_Subset DEF Gone, Ones, LeavesGone
  <1>2. ASSUME NEW p \in Gone PROVE ControlLeftover(p)' = ControlLeftover(p)
    <2>1. allocs'[p] = allocs[p] /\ unallocated'[p] = unallocated[p]
      BY DEF LeavesGone, Gone, Ones
    <2> QED BY <2>1 DEF ControlLeftover, LinesSum
  <1>3. \A p \in Gone : g[p] \in Int /\ h[p] = g[p]
    BY <1>1, <1>2, LeftoverTypes
  <1>4. /\ BankLost = SumFunctionOnSet(f, Gone) /\ BankLost' = SumFunctionOnSet(f, Gone')
        /\ ControlLost = SumFunctionOnSet(g, Gone) /\ ControlLost' = SumFunctionOnSet(h, Gone')
    BY DEF BankLost, ControlLost, BankLeftover
  <1> HIDE DEF f, g, h
  <1>5. SumFunctionOnSet(h, Gone) = SumFunctionOnSet(g, Gone)
    BY <1>1, <1>3, SumSame
  <1> QED BY <1>1, <1>4, <1>5

(* The part of p in a sum over the payments submitted after the step.      *)
ShareAfter(p, n) == IF state'[p] = "submitted" THEN n ELSE 0

LEMMA ValueTypes ==
  ASSUME TypeOK, NEW p \in Payments
  PROVE  /\ PayTotal[p] \in Int /\ PayRate[p] \in Int /\ unallocated[p] \in Int
         /\ PayTotal[p] * PayRate[p] \in Int /\ unallocated[p] * PayRate[p] \in Int
  <1>1. PayTotal[p] \in Int /\ PayRate[p] \in Int /\ unallocated[p] \in Int
    BY PaymentAssumption DEF TypeOK
  <1> QED BY <1>1

LEMMA BooksTypes ==
  ASSUME TypeOK
  PROVE  BankSum \in Int /\ RestSum \in Int /\ Receivables \in Int
  <1> DEFINE f == [p \in Payments |-> PayTotal[p] * PayRate[p]]
             g == [p \in Payments |-> unallocated[p] * PayRate[p]]
  <1>1. IsFiniteSet(SubmittedOnes) /\ SubmittedOnes \subseteq Payments
    BY PaymentAssumption, FS_Subset DEF SubmittedOnes, Ones
  <1>2. \A p \in Payments : f[p] \in Int /\ g[p] \in Int
    BY ValueTypes
  <1>3. BankSum = SumFunctionOnSet(f, SubmittedOnes) /\ RestSum = SumFunctionOnSet(g, SubmittedOnes)
    BY DEF BankSum, RestSum
  <1> HIDE DEF f, g
  <1>4. \A p \in SubmittedOnes : f[p] \in Int /\ g[p] \in Int
    BY <1>1, <1>2
  <1>5. SumFunctionOnSet(f, SubmittedOnes) \in Int /\ SumFunctionOnSet(g, SubmittedOnes) \in Int
    BY <1>1, <1>4, SumType
  <1> QED BY <1>3, <1>5, ReceivableType

LEMMA BooksChange ==
  ASSUME TypeOK, TypeOK', NEW p \in Payments,
         \A q \in Payments \ {p} : state'[q] = state[q] /\ unallocated'[q] = unallocated[q]
  PROVE  /\ BankSum' = BankSum - Share(p, PayTotal[p] * PayRate[p])
                       + ShareAfter(p, PayTotal[p] * PayRate[p])
         /\ RestSum' = RestSum - Share(p, unallocated[p] * PayRate[p])
                       + ShareAfter(p, unallocated'[p] * PayRate[p])
  <1> DEFINE v == [q \in Payments |-> PayTotal[q] * PayRate[q]]
             f == [q \in Payments |-> unallocated[q] * PayRate[q]]
             g == [q \in Payments |-> unallocated'[q] * PayRate[q]]
  <1>1. \A q \in Payments : v[q] \in Int /\ f[q] \in Int
    BY ValueTypes
  <1>2. \A q \in Payments : g[q] \in Int
    <2> SUFFICES ASSUME NEW q \in Payments PROVE unallocated'[q] * PayRate[q] \in Int
      OBVIOUS
    <2>1. unallocated'[q] \in Int /\ PayRate[q] \in Int
      BY PaymentAssumption DEF TypeOK
    <2> QED BY <2>1
  <1>3. \A q \in Payments \ {p} : g[q] = f[q] /\ state'[q] = state[q]
    OBVIOUS
  <1>4. /\ v[p] = PayTotal[p] * PayRate[p] /\ f[p] = unallocated[p] * PayRate[p]
        /\ g[p] = unallocated'[p] * PayRate[p]
    OBVIOUS
  <1>5. /\ BankSum = SumFunctionOnSet(v, SubmittedOnes)
        /\ BankSum' = SumFunctionOnSet(v, SubmittedOnes')
        /\ RestSum = SumFunctionOnSet(f, SubmittedOnes)
        /\ RestSum' = SumFunctionOnSet(g, SubmittedOnes')
    BY DEF BankSum, RestSum
  <1> HIDE DEF v, f, g
  <1>6. SumFunctionOnSet(v, SubmittedOnes') =
          SumFunctionOnSet(v, SubmittedOnes) - Share(p, v[p])
          + (IF state'[p] = "submitted" THEN v[p] ELSE 0)
    BY <1>1, <1>3, SubmittedChange
  <1>7. SumFunctionOnSet(g, SubmittedOnes') =
          SumFunctionOnSet(f, SubmittedOnes) - Share(p, f[p])
          + (IF state'[p] = "submitted" THEN g[p] ELSE 0)
    BY <1>1, <1>2, <1>3, SubmittedChange
  <1> QED BY <1>4, <1>5, <1>6, <1>7 DEF ShareAfter

LEMMA BooksSame ==
  ASSUME TypeOK, UNCHANGED <<allocs, unallocated, outstanding, invState, bank, control>>, BooksOK,
         \A q \in Payments : /\ state'[q] = "submitted" <=> state[q] = "submitted"
                             /\ state'[q] = "cancelled" <=> state[q] = "cancelled"
  PROVE  BooksOK'
  <1>1. SubmittedOnes' = SubmittedOnes
    BY DEF SubmittedOnes, Ones
  <1>2. Receivables' = Receivables
    BY DEF Receivables, Receivable
  <1>3. BankLost' = BankLost /\ ControlLost' = ControlLost
    BY LeftoversStay DEF LeavesGone
  <1> QED BY <1>1, <1>2, <1>3 DEF BooksOK, BankSum, RestSum

(* A submission of p, new or as it was drafted.                            *)
LEMMA SubmittedBooks ==
  ASSUME TypeOK, TypeOK', BooksOK, LeavesGone, NEW p \in Payments, NEW lines \in Seq(Line),
         \A q \in Payments \ {p} : state'[q] = state[q] /\ unallocated'[q] = unallocated[q],
         state[p] # "submitted", Submitted(p, lines),
         unallocated'[p] = PayTotal[p] - Amounts(lines)
  PROVE  BooksOK'
  <1> DEFINE x == PayTotal[p] * PayRate[p]
             y == (PayTotal[p] - Amounts(lines)) * PayRate[p]
  <1>1. x \in Int /\ y \in Int
    <2>1. PayTotal[p] \in Int /\ PayRate[p] \in Int /\ PayTotal[p] - Amounts(lines) \in Int
      BY ValueTypes, AmountsType
    <2> QED BY <2>1
  <1>2. /\ state'[p] = "submitted" /\ Settle(Taken(lines)) /\ bank' = bank + x
        /\ control' = control - (Weighed(lines) + y)
    BY DEF Submitted, ControlDrop, Weighed, TypeOK
  <1>3. BankSum' = BankSum - 0 + x
    BY <1>2, BooksChange DEF Share, ShareAfter
  <1>4. RestSum' = RestSum - 0 + y
    BY <1>2, BooksChange DEF Share, ShareAfter
  <1>5. Receivables' = Receivables - Weighed(lines)
    BY <1>2, ReceivablesTaken
  <1>6. /\ bank = BankSum + BankLost /\ control = Receivables - RestSum - ControlLost
        /\ BankLost' = BankLost /\ ControlLost' = ControlLost
    BY LeftoversStay DEF BooksOK
  <1>7. /\ BankSum \in Int /\ RestSum \in Int /\ Receivables \in Int /\ Weighed(lines) \in Int
        /\ BankLost \in Int /\ ControlLost \in Int
    BY BooksTypes, WeighedType, LeftoverTypes
  <1> HIDE DEF x, y
  <1>8. bank' = BankSum' + BankLost'
    BY <1>1, <1>2, <1>3, <1>6, <1>7
  <1>9. control' = Receivables' - RestSum' - ControlLost'
    BY <1>1, <1>2, <1>4, <1>5, <1>6, <1>7
  <1> QED BY <1>8, <1>9 DEF BooksOK

(* A late allocation. *)
LEMMA LateBooks ==
  ASSUME TypeOK, TypeOK', BooksOK, LeavesGone,
         NEW w \in Workers, NEW p \in Payments, p = Payment(w),
         NEW lines \in Seq(Line), UNCHANGED <<state, bank>>,
         \A q \in Payments \ {p} : unallocated'[q] = unallocated[q],
         state[p] = "submitted", Settle(Taken(lines)),
         control' = control - LateDrops(w, lines),
         unallocated'[p] = unallocated[p] - Amounts(lines)
  PROVE  BooksOK'
  <1> DEFINE x == PayTotal[p] * PayRate[p]
             u == unallocated[p]
             a == Amounts(lines)
             r == PayRate[p]
  <1>1. x \in Int /\ u \in Int /\ a \in Int /\ r \in Int
    BY ValueTypes, AmountsType
  <1>2. BankSum' = BankSum - x + x
    BY BooksChange DEF Share, ShareAfter
  <1>3. RestSum' = RestSum - u * r + (u - a) * r
    BY BooksChange DEF Share, ShareAfter
  <1>4. Receivables' = Receivables - Weighed(lines)
    BY ReceivablesTaken
  <1>5. control' = control - (Weighed(lines) - a * r)
    BY LateDropsWeighed
  <1>6. /\ bank = BankSum + BankLost /\ control = Receivables - RestSum - ControlLost
        /\ BankLost' = BankLost /\ ControlLost' = ControlLost /\ bank' = bank
    BY LeftoversStay DEF BooksOK
  <1>7. /\ BankSum \in Int /\ RestSum \in Int /\ Receivables \in Int /\ Weighed(lines) \in Int
        /\ BankLost \in Int /\ ControlLost \in Int
    BY BooksTypes, WeighedType, LeftoverTypes
  <1> HIDE DEF x, u, a, r
  <1>8. (u - a) * r = u * r - a * r /\ u * r \in Int /\ a * r \in Int
    BY <1>1
  <1>9. bank' = BankSum' + BankLost'
    BY <1>1, <1>2, <1>6, <1>7
  <1>10. control' = Receivables' - RestSum' - ControlLost'
    <2> DEFINE m == u * r
               n == a * r
               k == (u - a) * r
    <2>1. m \in Int /\ n \in Int /\ k = m - n
      BY <1>8
    <2>2. RestSum' = RestSum - m + k /\ control' = control - (Weighed(lines) - n)
      BY <1>3, <1>5
    <2> HIDE DEF m, n, k
    <2> QED BY <1>4, <1>6, <1>7, <2>1, <2>2
  <1> QED BY <1>9, <1>10 DEF BooksOK

(* A cancellation: what the reversal leaves out stays behind.              *)
LEMMA LeftoversGrow ==
  ASSUME TypeOK, NEW p \in Payments, \A q \in Payments \ {p} : state'[q] = state[q],
         UNCHANGED <<allocs, unallocated>>, state[p] = "submitted", state'[p] = "cancelled"
  PROVE  /\ BankLost' = BankLost + BankLeftover(p)
         /\ ControlLost' = ControlLost + ControlLeftover(p)
  <1> DEFINE f == [q \in Payments |-> BankLeftover(q)]
             g == [q \in Payments |-> ControlLeftover(q)]
  <1>1. \A q \in Payments : f[q] \in Int /\ g[q] \in Int
    BY LeftoverTypes
  <1> DEFINE h == [q \in Payments |-> ControlLeftover(q)']
  <1>0. \A q \in Payments : ControlLeftover(q)' = ControlLeftover(q)
    BY DEF ControlLeftover, LinesSum
  <1>2. /\ BankLost = SumFunctionOnSet(f, Gone) /\ BankLost' = SumFunctionOnSet(f, Gone')
        /\ ControlLost = SumFunctionOnSet(g, Gone) /\ ControlLost' = SumFunctionOnSet(g, Gone')
    <2>1. h = g
      BY <1>0
    <2>2. ControlLost' = SumFunctionOnSet(h, Gone')
      BY DEF ControlLost
    <2> QED BY <2>1, <2>2 DEF BankLost, ControlLost, BankLeftover
  <1>3. f[p] = BankLeftover(p) /\ g[p] = ControlLeftover(p)
    OBVIOUS
  <1> HIDE DEF f, g
  <1>4. /\ SumFunctionOnSet(f, Gone') = SumFunctionOnSet(f, Gone) - 0 + f[p]
        /\ SumFunctionOnSet(g, Gone') = SumFunctionOnSet(g, Gone) - 0 + g[p]
    BY <1>1, OnesChange DEF Gone
  <1>5. BankLost \in Int /\ ControlLost \in Int /\ f[p] \in Int /\ g[p] \in Int
    BY <1>1, LeftoverTypes
  <1> QED BY <1>2, <1>3, <1>4, <1>5

LEMMA CancelBooks ==
  ASSUME TypeOK, TypeOK', BooksOK, NEW p \in Payments,
         \A q \in Payments \ {p} : state'[q] = state[q],
         UNCHANGED <<allocs, unallocated>>, unallocated[p] = PayTotal[p] - Amounts(allocs[p]),
         state[p] = "submitted", state'[p] = "cancelled", Settle(Restored(allocs[p])),
         bank' = bank - PayTotal[p], control' = control + PayTotal[p]
  PROVE  BooksOK'
  <1> DEFINE t == PayTotal[p]
             u == unallocated[p]
             a == Amounts(allocs[p])
             r == PayRate[p]
             l == LinesLeft(allocs[p])
  <1>0. allocs[p] \in Seq(Line)
    BY DEF TypeOK
  <1>1. t \in Int /\ u \in Int /\ a \in Int /\ r \in Int /\ l \in Int
    BY <1>0, ValueTypes, AmountsType, PaidIs
  <1>2. BankSum' = BankSum - t * r + 0
    BY BooksChange DEF Share, ShareAfter
  <1>3. RestSum' = RestSum - u * r + 0
    BY BooksChange DEF Share, ShareAfter
  <1>4. Receivables' = Receivables + (l + a)
    BY <1>0, ReceivablesRestored, PaidIs
  <1>5. bank = BankSum + BankLost /\ control = Receivables - RestSum - ControlLost
    BY DEF BooksOK
  <1>6. /\ BankSum \in Int /\ RestSum \in Int /\ Receivables \in Int
        /\ BankLost \in Int /\ ControlLost \in Int
    BY BooksTypes, LeftoverTypes
  <1>7. u = t - a /\ bank' = bank - t /\ control' = control + t
    OBVIOUS
  <1>8. /\ BankLost' = BankLost + t * (r - 1)
        /\ ControlLost' = ControlLost + (l + u * (r - 1))
    BY LeftoversGrow DEF BankLeftover, ControlLeftover, LinesLeft
  <1> HIDE DEF t, u, a, r, l
  <1>9. /\ t * (r - 1) = t * r - t /\ t * r \in Int
        /\ u * (r - 1) = u * r - u /\ u * r \in Int
    BY <1>1
  <1> DEFINE m == t * r
             n == u * r
  <1>10. /\ m \in Int /\ n \in Int
         /\ BankSum' = BankSum - m + 0 /\ RestSum' = RestSum - n + 0
         /\ BankLost' = BankLost + (m - t) /\ ControlLost' = ControlLost + (l + (n - u))
    BY <1>2, <1>3, <1>8, <1>9
  <1> HIDE DEF m, n
  <1>11. bank' = BankSum' + BankLost'
    BY <1>1, <1>5, <1>6, <1>7, <1>10
  <1>12. control' = Receivables' - RestSum' - ControlLost'
    BY <1>1, <1>4, <1>5, <1>6, <1>7, <1>10
  <1> QED BY <1>11, <1>12 DEF BooksOK

LEMMA VoidBooks ==
  ASSUME TypeOK, BooksOK, NEW e \in Invoices, invState[e] # "cancelled",
         UNCHANGED <<state, allocs, unallocated, outstanding, bank>>,
         invState' = [invState EXCEPT ![e] = "cancelled"],
         control' = control - InvTotal[e] * InvRate[e]
  PROVE  BooksOK'
  <1> DEFINE n == InvTotal[e] * InvRate[e]
  <1>1. Receivables' = Receivables - n /\ n \in Int
    BY ReceivablesVoid
  <1>2. /\ BankSum' = BankSum /\ RestSum' = RestSum
        /\ BankLost' = BankLost /\ ControlLost' = ControlLost
    BY LeftoversStay DEF BankSum, RestSum, SubmittedOnes, Ones, LeavesGone
  <1>3. /\ bank = BankSum + BankLost /\ control = Receivables - RestSum - ControlLost
        /\ control' = control - n
    BY DEF BooksOK
  <1>4. RestSum \in Int /\ Receivables \in Int /\ ControlLost \in Int
    BY BooksTypes, LeftoverTypes
  <1> HIDE DEF n
  <1>5. control' = Receivables' - RestSum' - ControlLost'
    BY <1>1, <1>2, <1>3, <1>4
  <1> QED BY <1>2, <1>3, <1>5 DEF BooksOK

LEMMA BooksStep ==
  ASSUME BaseInv, BaseInv', Faithful, VoidsOK, UnallocatedAgrees, BooksOK,
         NEW w \in Workers, Commit(w)
  PROVE  BooksOK'
  <1> DEFINE p == Payment(w)
             lines == Lines(w)
  <1>0. TypeOK /\ TypeOK' /\ HoldsOf(w) /\ pc[w] = "commit"
    BY DEF BaseInv, HoldsOK, Commit
  <1>1. Kind(w) \in PayKinds => /\ p \in Payments /\ lines \in Seq(Line) /\ heldPays[w] = {p}
                                /\ state[p] \in AcceptedStates(Kind(w))
    BY <1>0, WorkTyped DEF HoldsOf, Working, Active
  <1>2. Kind(w) \in PayKinds =>
          \A q \in Payments \ {p} : /\ state'[q] = state[q] /\ allocs'[q] = allocs[q]
                                    /\ unallocated'[q] = unallocated[q]
    BY <1>1, CommitWrites
  <1>3. p = Payment(w)
    OBVIOUS
  <1> HIDE DEF p, lines
  <1>11. ASSUME Kind(w) \in PayKinds, state[p] # "cancelled", state'[p] # "cancelled"
         PROVE  LeavesGone /\ BankLost' = BankLost /\ ControlLost' = ControlLost
    <2>1. LeavesGone
      BY <1>1, <1>2, <1>11 DEF LeavesGone
    <2> QED BY <1>0, <2>1, LeftoversStay
  (* A payment that is not submitted before or after the step.             *)
  <1>12. ASSUME Kind(w) \in PayKinds, state[p] \notin {"submitted", "cancelled"},
                state'[p] \notin {"submitted", "cancelled"},
                UNCHANGED <<outstanding, invState, bank, control>>
         PROVE  BooksOK'
    <2>1. BankSum' = BankSum - 0 + 0 /\ RestSum' = RestSum - 0 + 0
      BY <1>0, <1>1, <1>2, <1>12, BooksChange DEF Share, ShareAfter
    <2>2. BankSum' = BankSum /\ RestSum' = RestSum
      BY <1>0, <2>1, BooksTypes
    <2>3. BankLost' = BankLost /\ ControlLost' = ControlLost
      BY <1>11, <1>12
    <2> QED BY <1>12, <2>2, <2>3 DEF BooksOK, Receivables, Receivable
  <1>4. CASE Kind(w) = "create" /\ CommitCreate(w)
    <2>1. /\ p \in Payments /\ lines \in Seq(Line) /\ state[p] = "absent"
          /\ unallocated'[p] = PayTotal[p] - Amounts(lines) /\ Kind(w) \in PayKinds
      BY <1>0, <1>1, <1>4 DEF CommitCreate, AcceptedStates, PayKinds, TypeOK, p, lines
    <2>2. CASE request[w].submit
      <3>1. Submitted(p, lines)
        BY <1>4, <2>2 DEF CommitCreate, p, lines
      <3>2. state[p] # "submitted" /\ state'[p] = "submitted"
        BY <1>0, <2>1, <3>1 DEF Submitted, TypeOK
      <3>3. LeavesGone
        BY <1>11, <2>1, <3>2
      <3> QED BY <1>0, <1>2, <2>1, <3>1, <3>2, <3>3, SubmittedBooks
    <2>3. CASE ~request[w].submit
      <3>1. state'[p] = "draft" /\ UNCHANGED <<outstanding, invState, bank, control>>
        BY <1>0, <1>4, <2>1, <2>3 DEF CommitCreate, TypeOK, p
      <3> QED BY <1>12, <2>1, <3>1
    <2> QED BY <2>2, <2>3
  <1>5. CASE Kind(w) = "remove" /\ CommitRemove(w)
    <2>1. /\ p \in Payments /\ state[p] = "draft" /\ state'[p] = "absent"
          /\ UNCHANGED <<outstanding, invState, bank, control>> /\ Kind(w) \in PayKinds
      BY <1>0, <1>1, <1>5 DEF CommitRemove, AcceptedStates, PayKinds, TypeOK, p
    <2> QED BY <1>12, <2>1
  <1>6. CASE Kind(w) = "submit" /\ CommitSubmit(w)
    <2>1. /\ p \in Payments /\ lines \in Seq(Line) /\ lines = allocs[p]
          /\ state[p] \in {"draft", "exported"}
          /\ Submitted(p, lines) /\ UNCHANGED unallocated /\ Kind(w) \in PayKinds
      BY <1>1, <1>6 DEF CommitSubmit, AcceptedStates, PayKinds, Lines, p, lines
    <2>2. unallocated'[p] = PayTotal[p] - Amounts(lines)
      BY <2>1 DEF UnallocatedAgrees
    <2>3. state[p] # "submitted" /\ state'[p] = "submitted"
      BY <1>0, <2>1 DEF Submitted, TypeOK
    <2>4. LeavesGone
      BY <1>11, <2>1, <2>3
    <2> QED BY <1>0, <1>2, <2>1, <2>2, <2>3, <2>4, SubmittedBooks
  <1>7. CASE Kind(w) = "allocate" /\ CommitAllocate(w)
    <2>1. /\ p \in Payments /\ lines \in Seq(Line) /\ state[p] \in {"draft", "submitted"}
          /\ UNCHANGED <<state, bank>> /\ Kind(w) \in PayKinds
      BY <1>1, <1>7 DEF CommitAllocate, AcceptedStates, PayKinds
    <2>2. CASE state[p] = "draft"
      <3>1. UNCHANGED <<outstanding, invState, control>>
        BY <1>7, <2>2 DEF CommitAllocate, p
      <3> QED BY <1>12, <2>1, <2>2, <3>1
    <2>3. CASE state[p] = "submitted"
      <3>1. /\ Settle(Taken(lines)) /\ control' = control - LateDrops(w, lines)
            /\ unallocated'[p] = unallocated[p] - Amounts(lines)
        BY <1>0, <1>7, <2>1, <2>3 DEF CommitAllocate, Available, TypeOK, p, lines
      <3>2. LeavesGone
        BY <1>11, <2>1, <2>3
      <3> QED BY <1>0, <1>2, <1>3, <2>1, <2>3, <3>1, <3>2, LateBooks
    <2> QED BY <2>1, <2>2, <2>3
  <1>8. CASE Kind(w) = "cancel" /\ CommitCancel(w)
    <2>1. /\ p \in Payments /\ state[p] = "submitted" /\ state'[p] = "cancelled"
          /\ Settle(Restored(allocs[p])) /\ UNCHANGED <<allocs, unallocated>>
          /\ bank' = bank - PayTotal[p] /\ control' = control + PayTotal[p]
          /\ Kind(w) \in PayKinds
      BY <1>0, <1>1, <1>8 DEF CommitCancel, AcceptedStates, PayKinds, TypeOK, p
    <2>2. unallocated[p] = PayTotal[p] - Amounts(allocs[p])
      BY <2>1 DEF UnallocatedAgrees
    <2> QED BY <1>0, <1>2, <2>1, <2>2, CancelBooks
  <1>9. CASE Kind(w) = "void" /\ CommitVoid(w)
    <2> DEFINE e == request[w].invoice
    <2>1. e \in Invoices /\ invState[e] # "cancelled"
      BY <1>0, <1>9, WorkTyped DEF VoidsOK, VoidsOf
    <2>2. /\ UNCHANGED <<state, allocs, unallocated, outstanding, bank>>
          /\ invState' = [invState EXCEPT ![e] = "cancelled"]
          /\ control' = control - InvTotal[e] * InvRate[e]
      BY <1>9 DEF CommitVoid
    <2> HIDE DEF e
    <2> QED BY <1>0, <2>1, <2>2, VoidBooks
  <1>10. CASE Kind(w) \in Batches /\ CommitBatch(w)
    <2>1. UNCHANGED <<allocs, unallocated, outstanding, invState, bank, control>>
      BY <1>10 DEF CommitBatch
    <2>2. \A q \in Payments : /\ state'[q] = "submitted" <=> state[q] = "submitted"
                              /\ state'[q] = "cancelled" <=> state[q] = "cancelled"
      BY <1>10, BatchSettlesNothing
    <2> QED BY <1>0, <2>1, <2>2, BooksSame
  <1> QED BY <1>4, <1>5, <1>6, <1>7, <1>8, <1>9, <1>10 DEF Commit

LEMMA BooksInit == Init => BooksOK
  <1> SUFFICES ASSUME Init PROVE BooksOK
    OBVIOUS
  <1> DEFINE f == [d \in Invoices |-> InvTotal[d] * InvRate[d]]
             g == [d \in Invoices |-> Receivable(d)]
  <1>1. SubmittedOnes = {} /\ Gone = {}
    BY DEF Init, SubmittedOnes, Gone, Ones
  <1>2. BankSum = 0 /\ RestSum = 0 /\ BankLost = 0 /\ ControlLost = 0
    BY <1>1, SumEmpty DEF BankSum, RestSum, BankLost, ControlLost
  <1>3. \A d \in Invoices : Receivable(d) = InvTotal[d] * InvRate[d]
    <2> SUFFICES ASSUME NEW d \in Invoices PROVE (InvTotal[d] - 0) * InvRate[d] = InvTotal[d] * InvRate[d]
      BY DEF Init, Receivable
    <2>1. InvTotal[d] - 0 = InvTotal[d]
      BY PaymentAssumption
    <2> QED BY <2>1
  <1>4. f = g /\ DOMAIN f = Invoices /\ control = SumFunction(f)
    BY <1>3 DEF Init
  <1>5. Receivables = SumFunctionOnSet(g, Invoices)
    BY DEF Receivables
  <1> HIDE DEF f, g
  <1>6. control = Receivables
    BY <1>4, <1>5 DEF SumFunction
  <1>7. Receivables \in Int
    BY TypeInit, ReceivableType
  <1> QED BY <1>2, <1>6, <1>7 DEF BooksOK, Init

(* The ledger agrees with the documents: the bank holds every submitted    *)
(* payment once, and the receivables are what the invoices have            *)
(* outstanding less what the submitted payments have not allocated, but    *)
(* for what the reversals of foreign payments leave out, and until a bank  *)
(* file writes a state over.                                               *)
THEOREM LedgersAlwaysAgree == Spec => []LedgersAgree
  <1> DEFINE Inv == overwritten = {} => BooksOK
  <1>1. BaseInv /\ BaseInv' /\ SeenInv /\ VoidsOK /\ UnallocatedAgrees /\ Inv /\ [Next]_vars => Inv'
    <2> SUFFICES ASSUME BaseInv, BaseInv', SeenInv, VoidsOK, UnallocatedAgrees, Inv, [Next]_vars,
                        overwritten' = {}
                 PROVE  BooksOK'
      OBVIOUS
    <2>1. BooksOK /\ Faithful
      BY OverwrittenGrows DEF Faithful
    <2>2. CASE UNCHANGED tables
      BY <2>1, <2>2, BooksSame DEF tables, BaseInv
    <2>3. ASSUME NEW w \in Workers, Commit(w) PROVE BooksOK'
      BY <2>1, <2>3, BooksStep
    <2> QED BY <2>2, <2>3, StepIsActs, TablesChange DEF vars
  <1>2. Init => Inv
    BY BooksInit
  <1>3. Inv <=> LedgersAgree
    BY BooksMean
  <1> QED BY <1>1, <1>2, <1>3, BaseAlways, SeenAlways, VoidsAlways, LeftOfPayments, PTL DEF Spec

-------------------------------------------------------------------------------
(***************************************************************************)
(* What the drafts promise.                                                *)
(***************************************************************************)
(* Allocations come from requests, and so do states.                       *)
Asked(p, l) ==
  \E r \in Requests : Allocates(r) /\ r.payment = p /\ \E i \in DOMAIN r.lines : r.lines[i] = l
AskedOK ==
  \A p \in Payments :
    /\ \A i \in DOMAIN allocs[p] : Asked(p, allocs[p][i])
    /\ state[p] \in {"draft", "exported"} => Draftable(p)
    /\ state[p] = "exported" => Exportable(p)

(* Bank files take up what a request exports.                              *)
ListedOf(w) ==
  Kind(w) = "export" => \A p \in heldPays[w] \cup Range(todo[w]) : Exportable(p)
ListedOK == \A w \in Workers : ListedOf(w)

(* Who changes what an invoice has outstanding, or is promised, has it     *)
(* locked.                                                                 *)
SettlesLines(w) ==
  \/ Kind(w) \in {"allocate", "cancel"} /\ pc[w] \in {"check", "post", "commit"}
  \/ Kind(w) = "submit" /\ pc[w] = "commit"
InvoicesOK == \A w \in Workers : SettlesLines(w) => InvoicesOf(Lines(w)) \subseteq heldInvs[w]

(* What an allocation found in its check still fits when it commits.       *)
Passed(w) == Kind(w) = "allocate" /\ pc[w] \in {"post", "commit"}
FitsOf(w, d) ==
  Passed(w) /\ Touches(Lines(w), d) =>
    CreditsOn(d, Lines(w)) <= outstanding[d] - OtherDrafts(w, d)
DraftSum(d) ==
  SumFunctionOnSet([p \in Payments |-> AmountsOn(d, allocs[p])],
                   {p \in Payments : state[p] = "draft"})
TestedOK(d) ==
  /\ \A w \in Workers : FitsOf(w, d)
  /\ DraftSum(d) <= outstanding[d]

OwnFits(w, d) ==
  Passed(w) /\ Touches(Lines(w), d) => CreditsOn(d, Lines(w)) <= outstanding[d]
Early(p) == state[p] \in {"absent", "draft", "exported"}
OwnedOK(d, p) ==
  /\ \A w \in Workers : OwnFits(w, d)
  /\ outstanding[d] >= 0
  /\ Early(p) => outstanding[d] = InvTotal[d] /\ CreditsOn(d, allocs[p]) <= InvTotal[d]

LEMMA OnInvoice ==
  ASSUME NEW lines \in Seq(Line), NEW d
  PROVE  /\ AmountsOn(d, lines) \in Nat /\ CreditsOn(d, lines) \in Nat
         /\ AmountsOn(d, lines) <= CreditsOn(d, lines)
         /\ ~Touches(lines, d) => AmountsOn(d, lines) = 0 /\ CreditsOn(d, lines) = 0
         /\ (\A i \in DOMAIN lines : lines[i].invoice = d => lines[i].discount = 0) =>
              CreditsOn(d, lines) = AmountsOn(d, lines)
         /\ OneLineOn(lines, d) => \A i \in DOMAIN lines : lines[i].invoice = d =>
              CreditsOn(d, lines) = lines[i].amount + lines[i].discount
  <1> DEFINE f == [i \in DOMAIN lines |-> IF lines[i].invoice = d THEN lines[i].amount ELSE 0]
             g == [i \in DOMAIN lines |->
                     IF lines[i].invoice = d THEN lines[i].amount + lines[i].discount ELSE 0]
             D == DOMAIN lines
  <1>1. /\ IsFiniteSet(D) /\ DOMAIN f = D /\ DOMAIN g = D
        /\ \A i \in D : lines[i].amount \in Nat /\ lines[i].discount \in Nat
    BY LinesAre
  <1>2. /\ \A i \in D : f[i] \in Nat /\ g[i] \in Nat
        /\ \A i \in D : f[i] \in Int /\ g[i] \in Int /\ f[i] <= g[i]
    BY <1>1
  <1>3. AmountsOn(d, lines) = SumFunctionOnSet(f, D) /\ CreditsOn(d, lines) = SumFunctionOnSet(g, D)
    BY DEF AmountsOn, CreditsOn, SumOn, LinesSum, SumFunction
  <1>4. ~Touches(lines, d) => \A i \in D : f[i] = 0 /\ g[i] = 0
    BY DEF Touches
  <1>5. (\A i \in D : lines[i].invoice = d => lines[i].discount = 0) => g = f
    BY <1>1
  <1>6. ASSUME OneLineOn(lines, d), NEW i \in D, lines[i].invoice = d
        PROVE  g[i] = lines[i].amount + lines[i].discount /\ \A j \in D \ {i} : g[j] = 0
    BY <1>6 DEF OneLineOn
  <1> HIDE DEF f, g, D
  <1>7. SumFunctionOnSet(f, D) \in Nat /\ SumFunctionOnSet(g, D) \in Nat
    BY <1>1, <1>2, SumNatural
  <1>8. SumFunctionOnSet(f, D) <= SumFunctionOnSet(g, D)
    BY <1>1, <1>2, SumOrder
  <1>9. ~Touches(lines, d) => SumFunctionOnSet(f, D) = 0 /\ SumFunctionOnSet(g, D) = 0
    BY <1>1, <1>4, SumZero
  <1>10. ASSUME OneLineOn(lines, d), NEW i \in D, lines[i].invoice = d
         PROVE  SumFunctionOnSet(g, D) = lines[i].amount + lines[i].discount
    BY <1>1, <1>2, <1>6, <1>10, SumOne
  <1> QED BY <1>3, <1>5, <1>7, <1>8, <1>9, <1>10 DEF D

(***************************************************************************)
(* Sums of promises.                                                       *)
(***************************************************************************)
PromiseIn(st, al, p, d) == IF st[p] = "draft" THEN AmountsOn(d, al[p]) ELSE 0
PromiseOf(p, d) == PromiseIn(state, allocs, p, d)
TotalIn(st, al, S, d) == SumFunctionOnSet([p \in Payments |-> PromiseIn(st, al, p, d)], S)
Promised(d) == TotalIn(state, allocs, Payments, d)

LEMMA PromiseNat ==
  ASSUME NEW st, NEW al \in [Payments -> Seq(Line)], NEW d, NEW p \in Payments
  PROVE  PromiseIn(st, al, p, d) \in Nat
  BY OnInvoice DEF PromiseIn

LEMMA DraftsSum ==
  ASSUME NEW st, NEW al \in [Payments -> Seq(Line)], NEW d, NEW S \in SUBSET Payments
  PROVE  SumFunctionOnSet([p \in Payments |-> AmountsOn(d, al[p])], {p \in S : st[p] = "draft"})
           = TotalIn(st, al, S, d)
  <1> DEFINE f == [p \in Payments |-> AmountsOn(d, al[p])]
             g == [p \in Payments |-> PromiseIn(st, al, p, d)]
             T == {p \in S : st[p] = "draft"}
  <1>1. IsFiniteSet(S) /\ T \in SUBSET S
    BY PaymentAssumption, FS_Subset
  <1>2. \A p \in T : f[p] \in Int /\ g[p] = f[p]
    BY OnInvoice DEF PromiseIn
  <1>3. \A p \in S \ T : g[p] = 0
    BY DEF PromiseIn
  <1>4. TotalIn(st, al, S, d) = SumFunctionOnSet(g, S)
    BY DEF TotalIn
  <1> HIDE DEF f, g, T
  <1>5. SumFunctionOnSet(g, S) = SumFunctionOnSet(f, T)
    BY <1>1, <1>2, <1>3, SumWhere
  <1> QED BY <1>4, <1>5 DEF f, T

LEMMA TotalLess ==
  ASSUME NEW st, NEW al \in [Payments -> Seq(Line)], NEW d, NEW q \in Payments
  PROVE  /\ TotalIn(st, al, Payments \ {q}, d) =
              TotalIn(st, al, Payments, d) - PromiseIn(st, al, q, d)
         /\ TotalIn(st, al, Payments, d) \in Nat
         /\ PromiseIn(st, al, q, d) \in Nat
         /\ TotalIn(st, al, Payments \ {q}, d) \in Nat
  <1> DEFINE g == [p \in Payments |-> PromiseIn(st, al, p, d)]
             R == Payments \ {q}
  <1>1. IsFiniteSet(Payments) /\ IsFiniteSet(R)
    BY PaymentAssumption, FS_RemoveElement
  <1>2. \A p \in Payments : g[p] \in Nat /\ g[p] \in Int
    BY PromiseNat
  <1>3. \A S : TotalIn(st, al, S, d) = SumFunctionOnSet(g, S)
    BY DEF TotalIn
  <1>4. g[q] = PromiseIn(st, al, q, d)
    OBVIOUS
  <1>5. R \subseteq Payments
    OBVIOUS
  <1> HIDE DEF g
  <1>6. SumFunctionOnSet(g, Payments) = g[q] + SumFunctionOnSet(g, R)
    BY <1>1, <1>2, SumRemove
  <1> HIDE DEF R
  <1>7. SumFunctionOnSet(g, Payments) \in Nat /\ SumFunctionOnSet(g, R) \in Nat
    BY <1>1, <1>2, <1>5, SumNatural
  <1> QED BY <1>2, <1>3, <1>4, <1>6, <1>7 DEF R

(* The sums of the specification, now and after a step.                    *)
LEMMA PromisesAre ==
  ASSUME TypeOK, TypeOK', NEW d \in Invoices
  PROVE  /\ DraftSum(d) = Promised(d) /\ DraftSum(d)' = Promised(d)'
         /\ Promised(d) \in Nat /\ Promised(d)' \in Nat
         /\ \A p \in Payments : PromiseOf(p, d) \in Nat /\ PromiseOf(p, d)' \in Nat
         /\ \A w \in Workers :
              /\ Payment(w) \in Payments => OtherDrafts(w, d) = Promised(d) - PromiseOf(Payment(w), d)
              /\ Payment(w)' \in Payments =>
                   OtherDrafts(w, d)' = Promised(d)' - PromiseIn(state', allocs', Payment(w)', d)
  <1>1. allocs \in [Payments -> Seq(Line)] /\ allocs' \in [Payments -> Seq(Line)]
    BY DEF TypeOK
  <1>2. DraftSum(d) = Promised(d) /\ DraftSum(d)' = Promised(d)'
    BY <1>1, DraftsSum DEF DraftSum, Promised
  <1>3. \A p \in Payments : PromiseOf(p, d) \in Nat /\ PromiseOf(p, d)' \in Nat
    BY <1>1, PromiseNat DEF PromiseOf
  <1>4. Promised(d) \in Nat /\ Promised(d)' \in Nat
    <2>1. \A p \in Payments : TotalIn(state, allocs, Payments, d) \in Nat
                              /\ TotalIn(state', allocs', Payments, d) \in Nat
      BY <1>1, TotalLess
    <2>2. CASE Payments = {}
      <3>1. \A st, al : TotalIn(st, al, Payments, d) = 0
        BY <2>2, SumEmpty DEF TotalIn
      <3> QED BY <3>1 DEF Promised
    <2> QED BY <2>1, <2>2 DEF Promised
  <1>5. ASSUME NEW w \in Workers, Payment(w) \in Payments
        PROVE  OtherDrafts(w, d) = Promised(d) - PromiseOf(Payment(w), d)
    <2> DEFINE q == Payment(w)
    <2>1. OtherDrafts(w, d) = SumFunctionOnSet([p \in Payments |-> AmountsOn(d, allocs[p])],
                                 {p \in Payments \ {q} : state[p] = "draft"})
      BY DEF OtherDrafts
    <2> HIDE DEF q
    <2>2. OtherDrafts(w, d) = TotalIn(state, allocs, Payments \ {q}, d)
      BY <1>1, <2>1, DraftsSum
    <2> QED BY <1>1, <1>5, <2>2, TotalLess DEF Promised, PromiseOf, q
  <1>6. ASSUME NEW w \in Workers, Payment(w)' \in Payments
        PROVE  OtherDrafts(w, d)' = Promised(d)' - PromiseIn(state', allocs', Payment(w)', d)
    <2> DEFINE q == Payment(w)'
    <2>1. OtherDrafts(w, d)' = SumFunctionOnSet([p \in Payments |-> AmountsOn(d, allocs'[p])],
                                 {p \in Payments \ {q} : state'[p] = "draft"})
      BY DEF OtherDrafts
    <2>2. q \in Payments
      BY <1>6
    <2> HIDE DEF q
    <2>3. OtherDrafts(w, d)' = TotalIn(state', allocs', Payments \ {q}, d)
      BY <1>1, <2>1, DraftsSum
    <2> QED BY <1>1, <2>2, <2>3, TotalLess DEF Promised, q
  <1> QED BY <1>2, <1>3, <1>4, <1>5, <1>6

LEMMA PromisesEase ==
  ASSUME TypeOK, TypeOK', NEW d \in Invoices,
         \A p \in Payments : PromiseOf(p, d)' <= PromiseOf(p, d)
  PROVE  Promised(d)' <= Promised(d)
  <1> DEFINE f == [p \in Payments |-> PromiseIn(state', allocs', p, d)]
             g == [p \in Payments |-> PromiseIn(state, allocs, p, d)]
  <1>1. \A p \in Payments : f[p] \in Int /\ g[p] \in Int /\ f[p] <= g[p]
    BY PromisesAre DEF PromiseOf
  <1>2. Promised(d)' = SumFunctionOnSet(f, Payments) /\ Promised(d) = SumFunctionOnSet(g, Payments)
    BY DEF Promised, TotalIn
  <1> HIDE DEF f, g
  <1> QED BY <1>1, <1>2, SumOrder, PaymentAssumption

LEMMA PromisesChange ==
  ASSUME TypeOK, TypeOK', NEW d \in Invoices, NEW q \in Payments,
         \A p \in Payments \ {q} : PromiseOf(p, d)' = PromiseOf(p, d)
  PROVE  Promised(d)' = Promised(d) - PromiseOf(q, d) + PromiseIn(state', allocs', q, d)
  <1> DEFINE f == [p \in Payments |-> PromiseIn(state', allocs', p, d)]
             g == [p \in Payments |-> PromiseIn(state, allocs, p, d)]
  <1>1. \A p \in Payments : f[p] \in Int /\ g[p] \in Int
    BY PromisesAre DEF PromiseOf
  <1>2. Promised(d)' = SumFunctionOnSet(f, Payments) /\ Promised(d) = SumFunctionOnSet(g, Payments)
    BY DEF Promised, TotalIn
  <1>3. \A p \in Payments \ {q} : f[p] = g[p]
    BY DEF PromiseOf
  <1>4. f[q] = PromiseIn(state', allocs', q, d) /\ g[q] = PromiseOf(q, d)
    BY DEF PromiseOf
  <1> HIDE DEF f, g
  <1>5. SumFunctionOnSet(f, Payments) = SumFunctionOnSet(g, Payments) - g[q] + f[q]
    BY <1>1, <1>3, SumExcept, PaymentAssumption
  <1> QED BY <1>2, <1>4, <1>5
(***************************************************************************)
(* What a commit does to payments and to the outstanding amounts.          *)
(***************************************************************************)
Took(lines) == \A d \in Invoices : outstanding'[d] = outstanding[d] - CreditsOn(d, lines)
TookNothing == \A d \in Invoices : outstanding'[d] = outstanding[d]

CreatesDraft(w) ==
  /\ Kind(w) = "create" /\ ~request[w].submit
  /\ state[Payment(w)] = "absent" /\ state'[Payment(w)] = "draft"
  /\ allocs'[Payment(w)] = Lines(w) /\ TookNothing
CreatesSubmitted(w) ==
  /\ Kind(w) = "create"
  /\ state[Payment(w)] = "absent" /\ state'[Payment(w)] = "submitted"
  /\ allocs'[Payment(w)] = Lines(w) /\ Took(Lines(w))
Removes(w) ==
  /\ Kind(w) = "remove"
  /\ state[Payment(w)] = "draft" /\ state'[Payment(w)] = "absent"
  /\ allocs'[Payment(w)] = <<>> /\ TookNothing
Submits(w) ==
  /\ Kind(w) = "submit" /\ Lines(w) = allocs[Payment(w)]
  /\ state[Payment(w)] \in {"draft", "exported"} /\ state'[Payment(w)] = "submitted"
  /\ allocs'[Payment(w)] = Lines(w) /\ Took(Lines(w))
AllocatesDraft(w) ==
  /\ Kind(w) = "allocate"
  /\ state[Payment(w)] = "draft" /\ state'[Payment(w)] = "draft"
  /\ allocs'[Payment(w)] = Lines(w) /\ TookNothing
AllocatesLate(w) ==
  /\ Kind(w) = "allocate"
  /\ state[Payment(w)] = "submitted" /\ state'[Payment(w)] = "submitted"
  /\ allocs'[Payment(w)] = allocs[Payment(w)] \o Lines(w) /\ Took(Lines(w))
Cancels(w) ==
  /\ Kind(w) = "cancel"
  /\ state[Payment(w)] = "submitted" /\ state'[Payment(w)] = "cancelled"
  /\ allocs'[Payment(w)] = allocs[Payment(w)]
  /\ \A d \in Invoices : outstanding'[d] = outstanding[d] + AmountsOn(d, allocs[Payment(w)])
OfPayment(w) ==
  /\ Payment(w) \in Payments /\ Lines(w) \in Seq(Line) /\ heldPays[w] = {Payment(w)}
  /\ \A q \in Payments \ {Payment(w)} : state'[q] = state[q] /\ allocs'[q] = allocs[q]
  /\ \/ CreatesDraft(w) \/ CreatesSubmitted(w) \/ Removes(w) \/ Submits(w)
     \/ AllocatesDraft(w) \/ AllocatesLate(w) \/ Cancels(w)
Exports(w, q) ==
  /\ Kind(w) = "export" /\ q \in heldPays[w]
  /\ state[q] = "draft" /\ state'[q] = "exported"
Rejects(q) == state[q] = "exported" /\ state'[q] = "draft"
OfOthers(w) ==
  /\ Kind(w) \notin PayKinds
  /\ \A q \in Payments : /\ allocs'[q] = allocs[q]
                         /\ state'[q] = state[q] \/ Exports(w, q) \/ Rejects(q)
  /\ TookNothing

LEMMA CommitShape ==
  ASSUME BaseInv, Faithful, NEW w \in Workers, Commit(w)
  PROVE  OfPayment(w) \/ OfOthers(w)
  <1> DEFINE p == Payment(w)
             lines == Lines(w)
  <1>0. TypeOK /\ HoldsOf(w) /\ pc[w] = "commit"
    BY DEF BaseInv, HoldsOK, Commit
  <1>1. Kind(w) \in PayKinds => /\ p \in Payments /\ lines \in Seq(Line) /\ heldPays[w] = {p}
                                /\ state[p] \in AcceptedStates(Kind(w))
    BY <1>0, WorkTyped DEF HoldsOf, Working, Active
  <1>2. ASSUME Kind(w) \in PayKinds,
               \/ CreatesDraft(w) \/ CreatesSubmitted(w) \/ Removes(w) \/ Submits(w)
               \/ AllocatesDraft(w) \/ AllocatesLate(w) \/ Cancels(w)
        PROVE  OfPayment(w)
    BY <1>1, <1>2, CommitWrites DEF OfPayment
  <1>3. ASSUME NEW change, Settle(change), NEW d \in Invoices
        PROVE  outstanding'[d] = outstanding[d] + change[d]
    BY <1>3 DEF Settle
  <1>4. ASSUME Submitted(p, lines), lines \in Seq(Line), p \in Payments
        PROVE  Took(lines) /\ state'[p] = "submitted"
    <2>1. \A d \in Invoices : outstanding'[d] = outstanding[d] + (-CreditsOn(d, lines))
      BY <1>3, <1>4 DEF Submitted, Taken
    <2>2. \A d \in Invoices : outstanding[d] \in Int /\ CreditsOn(d, lines) \in Int
      BY <1>0, <1>4, CreditsOnType DEF TypeOK
    <2> QED BY <1>0, <1>4, <2>1, <2>2 DEF Submitted, Took, TypeOK
  <1>5. CASE Kind(w) = "create" /\ CommitCreate(w)
    <2>1. /\ p \in Payments /\ lines \in Seq(Line) /\ state[p] = "absent" /\ allocs'[p] = lines
          /\ Kind(w) \in PayKinds
      BY <1>0, <1>1, <1>5 DEF CommitCreate, AcceptedStates, PayKinds, TypeOK
    <2>2. CASE request[w].submit
      <3>1. Submitted(p, lines)
        BY <1>5, <2>2 DEF CommitCreate
      <3> QED BY <1>2, <1>4, <1>5, <2>1, <3>1 DEF CreatesSubmitted
    <2>3. CASE ~request[w].submit
      <3>1. state'[p] = "draft" /\ TookNothing
        BY <1>0, <1>5, <2>1, <2>3 DEF CommitCreate, TypeOK, TookNothing
      <3> QED BY <1>2, <1>5, <2>1, <2>3, <3>1 DEF CreatesDraft
    <2> QED BY <2>2, <2>3
  <1>6. CASE Kind(w) = "remove" /\ CommitRemove(w)
    <2>1. Removes(w) /\ Kind(w) \in PayKinds
      BY <1>0, <1>1, <1>6 DEF CommitRemove, AcceptedStates, PayKinds, TypeOK, TookNothing, Removes
    <2> QED BY <1>2, <2>1
  <1>7. CASE Kind(w) = "submit" /\ CommitSubmit(w)
    <2>1. /\ p \in Payments /\ lines \in Seq(Line) /\ lines = allocs[p] /\ Submitted(p, lines)
          /\ state[p] \in {"draft", "exported"} /\ allocs'[p] = lines /\ Kind(w) \in PayKinds
      BY <1>1, <1>7 DEF CommitSubmit, AcceptedStates, PayKinds, Lines
    <2> QED BY <1>2, <1>4, <1>7, <2>1 DEF Submits
  <1>8. CASE Kind(w) = "allocate" /\ CommitAllocate(w)
    <2>1. /\ p \in Payments /\ lines \in Seq(Line) /\ state[p] \in {"draft", "submitted"}
          /\ allocs'[p] = KeptAllocs(p) \o lines /\ state'[p] = state[p] /\ Kind(w) \in PayKinds
      BY <1>0, <1>1, <1>8 DEF CommitAllocate, AcceptedStates, PayKinds, TypeOK
    <2>2. CASE state[p] = "draft"
      <3>1. <<>> \o lines = lines
        BY <2>1, ConcatEmptySeq
      <3>2. TookNothing
        BY <1>8, <2>2 DEF CommitAllocate, TookNothing
      <3> QED BY <1>2, <1>8, <2>1, <2>2, <3>1, <3>2 DEF AllocatesDraft, KeptAllocs
    <2>3. CASE state[p] = "submitted"
      <3>1. Settle(Taken(lines))
        BY <1>8, <2>3 DEF CommitAllocate
      <3>2. \A d \in Invoices : outstanding'[d] = outstanding[d] + (-CreditsOn(d, lines))
        BY <1>3, <3>1 DEF Taken
      <3>3. \A d \in Invoices : outstanding[d] \in Int /\ CreditsOn(d, lines) \in Int
        BY <1>0, <2>1, CreditsOnType DEF TypeOK
      <3>4. Took(lines)
        BY <3>2, <3>3 DEF Took
      <3> QED BY <1>2, <1>8, <2>1, <2>3, <3>4 DEF AllocatesLate, KeptAllocs
    <2> QED BY <2>1, <2>2, <2>3
  <1>9. CASE Kind(w) = "cancel" /\ CommitCancel(w)
    <2>1. /\ p \in Payments /\ state[p] = "submitted" /\ state'[p] = "cancelled"
          /\ Settle(Restored(allocs[p])) /\ UNCHANGED allocs /\ Kind(w) \in PayKinds
      BY <1>0, <1>1, <1>9 DEF CommitCancel, AcceptedStates, PayKinds, TypeOK
    <2>2. \A d \in Invoices : outstanding'[d] = outstanding[d] + AmountsOn(d, allocs[p])
      BY <1>3, <2>1 DEF Restored
    <2> QED BY <1>2, <1>9, <2>1, <2>2 DEF Cancels
  <1>10. CASE Kind(w) = "void" /\ CommitVoid(w)
    BY <1>10 DEF CommitVoid, OfOthers, TookNothing, PayKinds
  <1>11. CASE Kind(w) \in Batches /\ CommitBatch(w)
    <2>1. Kind(w) \notin PayKinds /\ UNCHANGED <<allocs, outstanding>>
      BY <1>11 DEF CommitBatch, PayKinds, Batches
    <2>2. ASSUME NEW q \in Payments, state'[q] # state[q]
          PROVE  Exports(w, q) \/ Rejects(q)
      <3>1. /\ q \in heldPays[w] /\ state'[q] = BatchState(w)
            /\ BatchState(w) \in Transitions[state[q]]
        BY <1>11, <2>2, BatchWrites DEF Faithful
      <3>2. state[q] \in PayStates
        BY <1>0 DEF TypeOK
      <3>3. CASE Kind(w) = "export"
        BY <3>1, <3>2, <3>3 DEF BatchState, Transitions, PayStates, Exports
      <3>4. CASE Kind(w) = "reject"
        BY <3>1, <3>2, <3>4 DEF BatchState, Transitions, PayStates, Rejects
      <3> QED BY <1>11, <3>3, <3>4 DEF Batches
    <2> QED BY <2>1, <2>2 DEF OfOthers, TookNothing
  <1> QED BY <1>5, <1>6, <1>7, <1>8, <1>9, <1>10, <1>11 DEF Commit

(***************************************************************************)
(* Allocations come from requests, ...                                     *)
(***************************************************************************)
LEMMA OwnAsked ==
  ASSUME TypeOK, NEW w \in Workers, Allocates(request[w]), NEW i \in DOMAIN Lines(w)
  PROVE  Asked(Payment(w), Lines(w)[i])
  BY DEF TypeOK, Asked, Allocates, Payment, Lines, Kind

LEMMA AskedStep ==
  ASSUME BaseInv, Faithful, ListedOK, AskedOK, NEW w \in Workers, Commit(w)
  PROVE  AskedOK'
  <1> DEFINE p == Payment(w)
             lines == Lines(w)
             Good(q) == /\ \A i \in DOMAIN allocs'[q] : Asked(q, allocs'[q][i])
                        /\ state'[q] \in {"draft", "exported"} => Draftable(q)
                        /\ state'[q] = "exported" => Exportable(q)
  <1>0. TypeOK /\ request[w] \in Requests
    BY DEF BaseInv, TypeOK
  <1>1. SUFFICES ASSUME NEW q \in Payments PROVE Good(q)
    BY DEF AskedOK
  <1>2. /\ \A i \in DOMAIN allocs[q] : Asked(q, allocs[q][i])
        /\ state[q] \in {"draft", "exported"} => Draftable(q)
        /\ state[q] = "exported" => Exportable(q)
    BY DEF AskedOK
  <1>3. CASE OfOthers(w)
    <2>1. CASE state'[q] = state[q]
      BY <1>2, <1>3, <2>1 DEF OfOthers
    <2>2. CASE Exports(w, q)
      BY <1>2, <1>3, <2>2 DEF OfOthers, Exports, ListedOK, ListedOf
    <2>3. CASE Rejects(q)
      BY <1>2, <1>3, <2>3 DEF OfOthers, Rejects
    <2> QED BY <1>3, <2>1, <2>2, <2>3 DEF OfOthers
  <1>4. CASE OfPayment(w) /\ q # p
    BY <1>2, <1>4 DEF OfPayment
  <1>5. CASE OfPayment(w) /\ q = p
    <2>1. lines \in Seq(Line) /\ allocs[p] \in Seq(Line)
      BY <1>0, <1>5 DEF OfPayment, TypeOK
    <2>2. Allocates(request[w]) => \A i \in DOMAIN lines : Asked(p, lines[i])
      BY <1>0, OwnAsked
    <2>3. CASE CreatesDraft(w)
      <3>1. Draftable(p) /\ Allocates(request[w])
        BY <1>0, <2>3 DEF CreatesDraft, Draftable, Kind, Payment, Allocates
      <3> QED BY <1>5, <2>2, <2>3, <3>1 DEF CreatesDraft
    <2>4. CASE CreatesSubmitted(w)
      BY <1>5, <2>2, <2>4 DEF CreatesSubmitted, Allocates, Kind
    <2>5. CASE Removes(w)
      BY <1>5, <2>5 DEF Removes
    <2>6. CASE Submits(w)
      BY <1>2, <1>5, <2>6 DEF Submits
    <2>7. CASE AllocatesDraft(w)
      BY <1>2, <1>5, <2>2, <2>7 DEF AllocatesDraft, Allocates, Kind
    <2>8. CASE AllocatesLate(w)
      <3>1. \A i \in DOMAIN lines : Asked(p, lines[i])
        BY <2>2, <2>8 DEF AllocatesLate, Allocates, Kind
      <3>2. \A i \in DOMAIN (allocs[p] \o lines) : Asked(p, (allocs[p] \o lines)[i])
        BY <1>2, <1>5, <2>1, <3>1, ConcatLines
      <3> QED BY <1>5, <2>8, <3>2 DEF AllocatesLate
    <2>9. CASE Cancels(w)
      BY <1>2, <1>5, <2>9 DEF Cancels
    <2> QED BY <1>5, <2>3, <2>4, <2>5, <2>6, <2>7, <2>8, <2>9 DEF OfPayment
  <1> QED BY <1>3, <1>4, <1>5, CommitShape

LEMMA OwnListed ==
  ASSUME BaseInv, NEW w \in Workers, ListedOf(w), Acts(w)
  PROVE  ListedOf(w)'
  <1>0. TypeOK /\ ControlOf(w) /\ HoldsOf(w)
    BY DEF BaseInv, ControlOK, HoldsOK
  <1>1. CASE Ends(w)
    <2>1. heldPays'[w] = {} /\ todo'[w] = <<>>
      BY <1>0, <1>1, EndsFinish DEF Finish, TypeOK
    <2> QED BY <2>1 DEF ListedOf, Range
  <1>2. CASE Begin(w)
    <2>1. heldPays'[w] = {} /\ (Kind(w)' = "export" => todo'[w] = <<>>)
      BY <1>0, <1>2 DEF Begin, Idle, HoldsOf, locks, Kind, TypeOK
    <2> QED BY <2>1 DEF ListedOf, Range
  <1>3. CASE LockPayment(w) \/ LockInvoice(w) \/ InvoicesLocked(w) \/ Check(w) \/ TakeLedger(w)
    <2>1. Kind(w) \notin Batches /\ UNCHANGED request
      BY <1>0, <1>3 DEF LockPayment, LockInvoice, InvoicesLocked, Check, TakeLedger, ControlOf,
                        PayKinds, Batches
    <2> QED BY <2>1 DEF ListedOf, Kind, Batches
  <1>4. CASE ReadBatch(w)
    <2>1. /\ request' = request /\ heldPays' = heldPays
          /\ \E ps \in Orders(Found(w)) : todo'[w] = ps
      BY <1>0, <1>4 DEF ReadBatch, tables, locks, TypeOK
    <2>2. Range(todo'[w]) \subseteq Range(request[w].payments)
      BY <2>1 DEF Orders, Found
    <2>3. request[w] \in Requests
      BY <1>0 DEF TypeOK
    <2> QED BY <2>1, <2>2, <2>3 DEF ListedOf, Exportable, Kind
  <1>5. CASE ReadState(w)
    BY <1>5 DEF ReadState, locks, ListedOf, Kind
  <1>6. CASE WriteState(w)
    <2>1. /\ request' = request /\ heldPays'[w] = heldPays[w] \cup {Head(todo[w])}
          /\ todo'[w] = Tail(todo[w])
      BY <1>0, <1>6 DEF WriteState, TypeOK
    <2>2. todo[w] \in Seq(Payments) /\ todo[w] # <<>>
      BY <1>0, <1>6 DEF WriteState, ControlOf, TypeOK
    <2>3. Head(todo[w]) \in Range(todo[w]) /\ Range(Tail(todo[w])) \subseteq Range(todo[w])
      BY <2>2 DEF Range
    <2> QED BY <2>1, <2>3 DEF ListedOf, Kind
  <1> QED BY <1>1, <1>2, <1>3, <1>4, <1>5, <1>6 DEF Acts, Step, Ends

LEMMA ListedStep ==
  ASSUME BaseInv, ListedOK, NEW w \in Workers, Acts(w)
  PROVE  ListedOK'
  <1>1. ASSUME NEW u \in Workers \ {w} PROVE ListedOf(u)'
    <2>1. request'[u] = request[u] /\ todo'[u] = todo[u] /\ heldPays'[u] = heldPays[u]
      BY Frame DEF BaseInv
    <2> QED BY <2>1 DEF ListedOK, ListedOf, Kind
  <1> QED BY <1>1, OwnListed DEF ListedOK

(***************************************************************************)
(* ... and who settles invoices has locked them.                           *)
(***************************************************************************)
LEMMA OwnInvoices ==
  ASSUME BaseInv, NEW w \in Workers, InvoicesOK, Acts(w), SettlesLines(w)'
  PROVE  (InvoicesOf(Lines(w)) \subseteq heldInvs[w])'
  <1>0. TypeOK /\ ControlOf(w) /\ pc'[w] \in {"check", "post", "commit"}
    BY DEF BaseInv, ControlOK, SettlesLines
  <1>1. ~Ends(w)
    BY <1>0, EndsFinish, Finished
  <1>2. ASSUME SettlesLines(w), UNCHANGED <<tables, request>>, heldInvs[w] \subseteq heldInvs'[w]
        PROVE  (InvoicesOf(Lines(w)) \subseteq heldInvs[w])'
    BY <1>2 DEF InvoicesOK, tables, Lines, Kind, Payment
  <1>3. CASE Begin(w)
    BY <1>0, <1>3 DEF Begin, Goto, FirstStep, TypeOK
  <1>4. CASE LockPayment(w)
    <2>1. Kind(w) \in PayKinds /\ pc'[w] = AfterPayment(w) /\ UNCHANGED request
      BY <1>0, <1>4 DEF LockPayment, Goto, TypeOK, ControlOf
    <2> QED BY <1>0, <2>1 DEF AfterPayment, SettlesLines, Kind
  <1>5. CASE LockInvoice(w)
    BY <1>0, <1>5 DEF LockInvoice
  <1>6. CASE InvoicesLocked(w)
    <2>1. /\ UNCHANGED <<tables, request, heldInvs>> /\ InvoicesNeeded(w) \subseteq heldInvs[w]
      BY <1>0, <1>6 DEF InvoicesLocked, AllLocked, InvoicesLeft, locks
    <2>2. Kind(w) # "void"
      BY <2>1 DEF SettlesLines, Kind
    <2> QED BY <2>1, <2>2 DEF InvoicesNeeded, Lines, Kind, Payment, tables
  <1>7. CASE Check(w) \/ TakeLedger(w)
    <2>1. /\ UNCHANGED <<tables, request, heldInvs>>
          /\ pc[w] \in {"check", "post"} /\ pc'[w] \in {"post", "settle", "commit"}
          /\ Kind(w) = "submit" => pc'[w] # "commit"
      BY <1>0, <1>7 DEF Check, TakeLedger, locks, Goto, ControlOf, TypeOK
    <2>2. SettlesLines(w)
      BY <2>1 DEF SettlesLines, Kind
    <2> QED BY <1>2, <2>1, <2>2
  <1>8. CASE ReadBatch(w) \/ ReadState(w) \/ WriteState(w)
    <2>1. Kind(w) \in Batches /\ UNCHANGED request
      BY <1>0, <1>8 DEF ReadBatch, ReadState, WriteState, ControlOf
    <2> QED BY <2>1 DEF SettlesLines, Kind, Batches
  <1> QED BY <1>1, <1>3, <1>4, <1>5, <1>6, <1>7, <1>8 DEF Acts, Step, Ends

(* The lines that others are at work on stay.                              *)
LEMMA LinesStay ==
  ASSUME BaseInv, NEW w \in Workers, Acts(w), NEW u \in Workers, u # w,
         Kind(u) \in PayKinds, pc[u] \in Active \ {"payment"}
  PROVE  /\ Lines(u)' = Lines(u) /\ Payment(u)' = Payment(u) /\ Payment(u) \in heldPays[u]
         /\ state'[Payment(u)] = state[Payment(u)] /\ allocs'[Payment(u)] = allocs[Payment(u)]
  <1>1. Payment(u) \in heldPays[u] /\ Payment(u) \in Payments
    BY WorkTyped DEF BaseInv, HoldsOK, HoldsOf, Working
  <1>2. Payment(u) \notin heldPays[w]
    BY <1>1 DEF BaseInv, HoldsOK, Apart
  <1>3. state'[Payment(u)] = state[Payment(u)] /\ allocs'[Payment(u)] = allocs[Payment(u)]
    BY <1>1, <1>2, TablesChange, CommitWrites DEF tables
  <1>4. request'[u] = request[u]
    BY Frame DEF BaseInv
  <1> QED BY <1>1, <1>3, <1>4 DEF Lines, Payment, Kind

LEMMA InvoicesStep ==
  ASSUME BaseInv, InvoicesOK, NEW w \in Workers, Acts(w)
  PROVE  InvoicesOK'
  <1> SUFFICES ASSUME NEW u \in Workers, SettlesLines(u)'
               PROVE  (InvoicesOf(Lines(u)) \subseteq heldInvs[u])'
    BY DEF InvoicesOK
  <1>1. CASE u = w
    BY <1>1, OwnInvoices
  <1>2. CASE u # w
    <2>1. pc'[u] = pc[u] /\ request'[u] = request[u] /\ heldInvs'[u] = heldInvs[u]
      BY <1>2, Frame DEF BaseInv
    <2>2. SettlesLines(u)
      BY <2>1 DEF SettlesLines, Kind
    <2>3. Lines(u)' = Lines(u)
      BY <1>2, <2>2, LinesStay DEF SettlesLines, PayKinds, Active
    <2>4. InvoicesOf(Lines(u)) \subseteq heldInvs[u]
      BY <2>2 DEF InvoicesOK
    <2> QED BY <2>1, <2>3, <2>4 DEF InvoicesOf
  <1> QED BY <1>1, <1>2

(***************************************************************************)
(* Invoices whose promises are all tested.                                 *)
(***************************************************************************)
LEMMA TestedLines ==
  ASSUME TypeOK, AskedOK, NEW d \in Invoices, Tested(d), NEW p \in Payments
  PROVE  /\ state[p] = "exported" => ~Touches(allocs[p], d)
         /\ state[p] = "draft" => CreditsOn(d, allocs[p]) = AmountsOn(d, allocs[p])
  <1>1. allocs[p] \in Seq(Line)
    BY DEF TypeOK
  <1>2. ASSUME NEW i \in DOMAIN allocs[p], allocs[p][i].invoice = d
        PROVE  ~Exportable(p) /\ (Draftable(p) => allocs[p][i].discount = 0)
    <2>1. PICK r \in Requests : /\ Allocates(r) /\ r.payment = p
                                /\ \E j \in DOMAIN r.lines : r.lines[j] = allocs[p][i]
      BY DEF AskedOK, Asked
    <2>2. Touches(r.lines, d)
      BY <1>2, <2>1 DEF Touches
    <2> QED BY <1>2, <2>1, <2>2 DEF Tested
  <1>3. state[p] = "exported" => ~Touches(allocs[p], d)
    BY <1>2 DEF AskedOK, Touches
  <1>4. state[p] = "draft" => \A i \in DOMAIN allocs[p] : allocs[p][i].invoice = d =>
                                                          allocs[p][i].discount = 0
    BY <1>2 DEF AskedOK
  <1> QED BY <1>1, <1>3, <1>4, OnInvoice

LEMMA TestedRequest ==
  ASSUME TypeOK, AskedOK, NEW d \in Invoices, Tested(d), NEW w \in Workers
  PROVE  /\ Kind(w) = "create" => ~Touches(Lines(w), d)
         /\ Kind(w) = "allocate" =>
              /\ OneLineOn(Lines(w), d)
              /\ state[Payment(w)] = "draft" => CreditsOn(d, Lines(w)) = AmountsOn(d, Lines(w))
  <1>1. request[w] \in Requests /\ (Kind(w) \in PayKinds => Payment(w) \in Payments)
    BY WorkTyped DEF TypeOK
  <1>2. CASE Kind(w) = "create"
    BY <1>1, <1>2 DEF Tested, Allocates, Kind, Lines
  <1>3. CASE Kind(w) = "allocate"
    <2>1. Lines(w) = request[w].lines /\ Allocates(request[w]) /\ Lines(w) \in Seq(Line)
      BY <1>3, WorkTyped DEF Lines, Allocates, Kind, PayKinds
    <2>2. CASE Touches(Lines(w), d)
      <3>1. OneLineOn(Lines(w), d)
        BY <1>1, <2>1, <2>2 DEF Tested
      <3>2. ASSUME state[Payment(w)] = "draft"
            PROVE  \A i \in DOMAIN Lines(w) : Lines(w)[i].invoice = d => Lines(w)[i].discount = 0
        <4>1. Draftable(request[w].payment)
          BY <1>1, <1>3, <3>2 DEF AskedOK, Payment, PayKinds
        <4> QED BY <1>1, <2>1, <2>2, <4>1 DEF Tested
      <3> QED BY <1>3, <2>1, <3>1, <3>2, OnInvoice
    <2>3. CASE ~Touches(Lines(w), d)
      BY <1>3, <2>1, <2>3, OnInvoice DEF OneLineOn, Touches
    <2> QED BY <2>2, <2>3
  <1> QED BY <1>2, <1>3

(* A commit leaves room on the invoice, or the one that holds it takes     *)
(* what its check found, or submits what its draft promised.               *)
Eases(d) ==
  /\ outstanding'[d] >= outstanding[d]
  /\ \A q \in Payments : PromiseOf(q, d)' <= PromiseOf(q, d)
Takes(w, d) ==
  /\ Kind(w) = "allocate" /\ Touches(Lines(w), d)
  /\ Promised(d)' - outstanding'[d] =
       Promised(d) - PromiseOf(Payment(w), d) + CreditsOn(d, Lines(w)) - outstanding[d]
Honours(w, d) ==
  /\ Kind(w) = "submit" /\ Touches(Lines(w), d)
  /\ Promised(d)' - outstanding'[d] = Promised(d) - outstanding[d]

LEMMA CommitPromises ==
  ASSUME BaseInv, BaseInv', Faithful, AskedOK, NEW d \in Invoices, Tested(d),
         NEW w \in Workers, Commit(w)
  PROVE  Eases(d) \/ Takes(w, d) \/ Honours(w, d)
  <1> DEFINE p == Payment(w)
             lines == Lines(w)
             after == PromiseIn(state', allocs', p, d)
  <1>0. TypeOK /\ TypeOK' /\ outstanding[d] \in Int
    BY DEF BaseInv, TypeOK
  <1>1. \A q \in Payments : PromiseOf(q, d) \in Nat /\ PromiseOf(q, d)' \in Nat
    BY <1>0, PromisesAre
  <1>2. CASE OfOthers(w)
    <2>1. outstanding'[d] = outstanding[d]
      BY <1>2 DEF OfOthers, TookNothing
    <2>2. ASSUME NEW q \in Payments PROVE PromiseOf(q, d)' <= PromiseOf(q, d)
      <3>1. CASE state'[q] = state[q]
        <4>1. PromiseOf(q, d)' = PromiseOf(q, d)
          BY <1>2, <3>1 DEF OfOthers, PromiseOf, PromiseIn
        <4> QED BY <1>1, <4>1
      <3>2. CASE Exports(w, q)
        <4>1. PromiseOf(q, d)' = 0
          BY <3>2 DEF Exports, PromiseOf, PromiseIn
        <4> QED BY <1>1, <4>1
      <3>3. CASE Rejects(q)
        <4>1. ~Touches(allocs[q], d) /\ allocs[q] \in Seq(Line) /\ allocs'[q] = allocs[q]
          BY <1>0, <1>2, <3>3, TestedLines DEF Rejects, OfOthers, TypeOK
        <4>2. AmountsOn(d, allocs'[q]) = 0
          BY <4>1, OnInvoice
        <4>3. PromiseOf(q, d)' = 0
          BY <4>2 DEF PromiseOf, PromiseIn
        <4> QED BY <1>1, <4>3
      <3> QED BY <1>2, <3>1, <3>2, <3>3 DEF OfOthers
    <2> QED BY <1>0, <2>1, <2>2 DEF Eases
  <1>3. CASE OfPayment(w)
    <2>1. /\ p \in Payments /\ lines \in Seq(Line) /\ allocs[p] \in Seq(Line)
          /\ \A q \in Payments \ {p} : PromiseOf(q, d)' = PromiseOf(q, d)
      BY <1>0, <1>3 DEF OfPayment, PromiseOf, PromiseIn, TypeOK
    <2>2. ASSUME outstanding'[d] >= outstanding[d], after <= PromiseOf(p, d)
          PROVE  Eases(d)
      BY <1>1, <2>1, <2>2 DEF Eases, PromiseOf
    <2>3. /\ PromiseOf(p, d) \in Nat
          /\ Promised(d) \in Nat /\ CreditsOn(d, lines) \in Nat
          /\ Promised(d)' = Promised(d) - PromiseOf(p, d) + after
      BY <1>0, <1>1, <2>1, PromisesAre, PromisesChange, OnInvoice
    <2>4. after =
            IF state'[p] = "draft" THEN AmountsOn(d, allocs'[p]) ELSE 0
      BY DEF PromiseIn
    <2>6. state'[p] # "draft" => after <= PromiseOf(p, d)
      BY <2>3, <2>4
    <2>7. ~Touches(lines, d) => CreditsOn(d, lines) = 0 /\ AmountsOn(d, lines) = 0
      BY <2>1, OnInvoice
    <2>8. TookNothing => outstanding'[d] = outstanding[d]
      BY DEF TookNothing
    <2>9. Took(lines) => outstanding'[d] = outstanding[d] - CreditsOn(d, lines)
      BY DEF Took
    <2>10. ASSUME TookNothing \/ (Took(lines) /\ ~Touches(lines, d)) PROVE outstanding'[d] >= outstanding[d]
      BY <1>0, <2>7, <2>8, <2>9, <2>10
    <2>11. CASE CreatesDraft(w)
      <3>1. ~Touches(lines, d)
        BY <1>0, <2>11, TestedRequest DEF CreatesDraft
      <3>2. after = 0
        BY <2>4, <2>7, <2>11, <3>1 DEF CreatesDraft
      <3> QED BY <2>2, <2>3, <2>10, <2>11, <3>2 DEF CreatesDraft
    <2>12. CASE CreatesSubmitted(w)
      <3>1. ~Touches(lines, d)
        BY <1>0, <2>12, TestedRequest DEF CreatesSubmitted
      <3> QED BY <2>2, <2>6, <2>10, <2>12, <3>1 DEF CreatesSubmitted
    <2>13. CASE Removes(w)
      BY <2>2, <2>6, <2>10, <2>13 DEF Removes
    <2>14. CASE Submits(w)
      <3>1. CASE Touches(lines, d)
        <4>1. state[p] = "draft" /\ lines = allocs[p]
          BY <1>0, <2>1, <2>14, <3>1, TestedLines DEF Submits
        <4>2. PromiseOf(p, d) = CreditsOn(d, lines)
          BY <1>0, <2>1, <4>1, TestedLines DEF PromiseOf, PromiseIn
        <4>3. after = 0
          BY <2>4, <2>14 DEF Submits
        <4>4. Promised(d)' - outstanding'[d] = Promised(d) - outstanding[d]
          <5>1. outstanding'[d] = outstanding[d] - CreditsOn(d, lines)
            BY <2>9, <2>14 DEF Submits
          <5> QED BY <1>0, <2>3, <4>2, <4>3, <5>1
        <4> QED BY <2>14, <3>1, <4>4 DEF Honours, Submits
      <3>2. CASE ~Touches(lines, d)
        BY <2>2, <2>6, <2>10, <2>14, <3>2 DEF Submits
      <3> QED BY <3>1, <3>2
    <2>15. CASE AllocatesDraft(w)
      <3>1. CreditsOn(d, lines) = AmountsOn(d, lines)
        BY <1>0, <2>15, TestedRequest DEF AllocatesDraft
      <3>2. after = CreditsOn(d, lines)
        BY <2>4, <2>15, <3>1 DEF AllocatesDraft
      <3>3. CASE Touches(lines, d)
        <4>1. outstanding'[d] = outstanding[d]
          BY <2>8, <2>15 DEF AllocatesDraft
        <4>2. Promised(d)' - outstanding'[d] =
                Promised(d) - PromiseOf(p, d) + CreditsOn(d, lines) - outstanding[d]
          BY <1>0, <2>3, <3>2, <4>1
        <4> QED BY <2>15, <3>3, <4>2 DEF Takes, AllocatesDraft
      <3>4. CASE ~Touches(lines, d)
        BY <2>2, <2>3, <2>7, <2>10, <2>15, <3>2, <3>4 DEF AllocatesDraft
      <3> QED BY <3>3, <3>4
    <2>16. CASE AllocatesLate(w)
      <3>1. after = 0 /\ PromiseOf(p, d) = 0
        BY <2>4, <2>16 DEF AllocatesLate, PromiseOf, PromiseIn
      <3>2. CASE Touches(lines, d)
        <4>1. outstanding'[d] = outstanding[d] - CreditsOn(d, lines)
          BY <2>9, <2>16 DEF AllocatesLate
        <4>2. Promised(d)' - outstanding'[d] =
                Promised(d) - PromiseOf(p, d) + CreditsOn(d, lines) - outstanding[d]
          BY <1>0, <2>3, <3>1, <4>1
        <4> QED BY <2>16, <3>2, <4>2 DEF Takes, AllocatesLate
      <3>3. CASE ~Touches(lines, d)
        BY <2>2, <2>6, <2>10, <2>16, <3>3 DEF AllocatesLate
      <3> QED BY <3>2, <3>3
    <2>17. CASE Cancels(w)
      <3>1. outstanding'[d] = outstanding[d] + AmountsOn(d, allocs[p]) /\ AmountsOn(d, allocs[p]) \in Nat
        BY <2>1, <2>17, OnInvoice DEF Cancels
      <3>2. outstanding'[d] >= outstanding[d]
        BY <1>0, <3>1
      <3> QED BY <2>2, <2>6, <2>17, <3>2 DEF Cancels
    <2> QED BY <1>3, <2>11, <2>12, <2>13, <2>14, <2>15, <2>16, <2>17 DEF OfPayment
  <1> QED BY <1>2, <1>3, CommitShape

(* An allocation has passed its check, or passes it now.                   *)
LEMMA OwnPassed ==
  ASSUME BaseInv, NEW w \in Workers, Acts(w), Passed(w)'
  PROVE  /\ UNCHANGED tables /\ request'[w] = request[w] /\ Kind(w) = "allocate"
         /\ Passed(w) \/ CheckPassed(w)
  <1>0. TypeOK /\ ControlOf(w) /\ pc'[w] \in {"post", "commit"} /\ request'[w].kind = "allocate"
    BY DEF BaseInv, ControlOK, Passed, Kind
  <1>1. ~Ends(w)
    BY <1>0, EndsFinish, Finished
  <1>2. CASE Begin(w)
    BY <1>0, <1>2 DEF Begin, Goto, FirstStep, TypeOK
  <1>3. CASE LockPayment(w)
    BY <1>0, <1>3 DEF LockPayment, Goto, AfterPayment, Kind, TypeOK
  <1>4. CASE LockInvoice(w)
    BY <1>0, <1>4 DEF LockInvoice
  <1>5. CASE InvoicesLocked(w)
    BY <1>0, <1>5 DEF InvoicesLocked, Goto, ControlOf, Kind, TypeOK
  <1>6. CASE Check(w)
    BY <1>0, <1>6 DEF Check, Kind
  <1>7. CASE TakeLedger(w)
    BY <1>0, <1>7 DEF TakeLedger, Passed, Kind
  <1>8. CASE ReadBatch(w) \/ ReadState(w) \/ WriteState(w)
    BY <1>0, <1>8 DEF ReadBatch, ReadState, WriteState, ControlOf, Kind, Batches
  <1> QED BY <1>1, <1>2, <1>3, <1>4, <1>5, <1>6, <1>7, <1>8 DEF Acts, Step, Ends

(* One line on an invoice is compared with all that there is.              *)
LEMMA CheckedFits ==
  ASSUME TypeOK, NEW w \in Workers, Kind(w) = "allocate", CheckPassed(w),
         NEW d \in Invoices, Touches(Lines(w), d), OneLineOn(Lines(w), d)
  PROVE  CreditsOn(d, Lines(w)) <= outstanding[d] - OtherDrafts(w, d)
  <1>1. PICK i \in DOMAIN Lines(w) : Lines(w)[i].invoice = d
    BY DEF Touches
  <1>2. Lines(w)[i].amount + Lines(w)[i].discount <= outstanding[d] - OtherDrafts(w, d)
    BY <1>1 DEF CheckPassed, LineAccepted, Range
  <1>3. Lines(w) \in Seq(Line)
    BY WorkTyped DEF PayKinds
  <1> QED BY <1>1, <1>2, <1>3, OnInvoice

(* While an allocation waits, others make no promise on what it found.     *)
LEMMA OthersFit ==
  ASSUME BaseInv, BaseInv', Faithful, VoidsOK, InvoicesOK, AskedOK, NEW d \in Invoices, Tested(d),
         NEW w \in Workers, Commit(w), NEW u \in Workers, u # w, FitsOf(u, d)
  PROVE  FitsOf(u, d)'
  <1>0. TypeOK /\ TypeOK' /\ Acts(w) /\ pc[w] = "commit"
    BY DEF BaseInv, Acts, Step, Commit
  <1>1. pc'[u] = pc[u] /\ request'[u] = request[u]
    BY <1>0, Frame
  <1> SUFFICES ASSUME Passed(u), Touches(Lines(u), d)'
               PROVE  (CreditsOn(d, Lines(u)) <= outstanding[d] - OtherDrafts(u, d))'
    BY <1>1 DEF FitsOf, Passed, Kind
  <1>2. Kind(u) = "allocate" /\ pc[u] \in {"post", "commit"}
    BY DEF Passed
  <1>3. /\ Lines(u)' = Lines(u) /\ Payment(u)' = Payment(u) /\ Payment(u) \in heldPays[u]
        /\ state'[Payment(u)] = state[Payment(u)] /\ allocs'[Payment(u)] = allocs[Payment(u)]
    BY <1>0, <1>2, LinesStay DEF PayKinds, Active
  <1>4. Touches(Lines(u), d) /\ Payment(u) \in Payments /\ Lines(u) \in Seq(Line)
    BY <1>0, <1>2, <1>3, WorkTyped DEF Touches, PayKinds
  <1>5. d \in heldInvs[u]
    BY <1>2, <1>4 DEF InvoicesOK, SettlesLines, Touches, InvoicesOf, Range
  <1>6. ~(Kind(w) \in {"allocate", "submit"} /\ Touches(Lines(w), d))
    BY <1>0, <1>5 DEF VoidsOK, Apart, InvoicesOK, SettlesLines, Touches, InvoicesOf, Range
  <1>7. Eases(d)
    BY <1>6, CommitPromises DEF Takes, Honours
  <1>8. Promised(d)' <= Promised(d)
    BY <1>0, <1>7, PromisesEase DEF Eases
  <1>9. CreditsOn(d, Lines(u)) <= outstanding[d] - OtherDrafts(u, d)
    BY <1>4 DEF FitsOf
  <1> DEFINE q == Payment(u)
             mine == PromiseOf(q, d)
             room == OtherDrafts(u, d)
             room2 == OtherDrafts(u, d)'
             credits == CreditsOn(d, Lines(u))
  <1>10. room = Promised(d) - mine /\ room2 = Promised(d)' - PromiseIn(state', allocs', q, d)
    BY <1>0, <1>3, <1>4, PromisesAre
  <1>11. PromiseIn(state', allocs', q, d) = mine
    BY <1>3 DEF PromiseOf, PromiseIn
  <1>12. Promised(d) \in Nat /\ Promised(d)' \in Nat /\ mine \in Nat /\ credits \in Nat
         /\ outstanding[d] \in Int /\ outstanding'[d] \in Int /\ outstanding'[d] >= outstanding[d]
    BY <1>0, <1>4, <1>7, PromisesAre, OnInvoice DEF Eases, TypeOK
  <1>13. CreditsOn(d, Lines(u))' = credits
    BY <1>3
  <1> HIDE DEF mine, room, room2, credits
  <1>14. credits <= outstanding'[d] - room2
    BY <1>8, <1>9, <1>10, <1>11, <1>12 DEF credits, room
  <1> QED BY <1>13, <1>14 DEF room2

LEMMA TestedStep ==
  ASSUME BaseInv, BaseInv', Faithful, VoidsOK, InvoicesOK, AskedOK, NEW d \in Invoices, Tested(d),
         TestedOK(d), NEW w \in Workers, Acts(w)
  PROVE  TestedOK(d)'
  <1>0. TypeOK /\ TypeOK' /\ outstanding[d] \in Int /\ outstanding'[d] \in Int
    BY DEF BaseInv, TypeOK
  <1>1. CASE UNCHANGED tables
    <2>1. DraftSum(d)' = DraftSum(d) /\ outstanding'[d] = outstanding[d]
      BY <1>1 DEF tables, DraftSum
    <2>2. ASSUME NEW u \in Workers, request'[u] = request[u], Passed(u)',
                 Passed(u) \/ CheckPassed(u)
          PROVE  FitsOf(u, d)'
      <3>1. /\ Lines(u)' = Lines(u) /\ OtherDrafts(u, d)' = OtherDrafts(u, d)
            /\ Kind(u) = "allocate"
        BY <1>1, <2>2 DEF tables, Lines, Payment, Kind, OtherDrafts, Passed
      <3>2. ASSUME Touches(Lines(u), d)
            PROVE  CreditsOn(d, Lines(u)) <= outstanding[d] - OtherDrafts(u, d)
        <4>1. CASE Passed(u)
          BY <3>2, <4>1 DEF TestedOK, FitsOf
        <4>2. CASE CheckPassed(u)
          BY <1>0, <3>1, <3>2, <4>2, CheckedFits, TestedRequest
        <4> QED BY <2>2, <4>1, <4>2
      <3> QED BY <2>1, <3>1, <3>2 DEF FitsOf
    <2>3. ASSUME NEW u \in Workers PROVE FitsOf(u, d)'
      <3>1. CASE ~Passed(u)'
        BY <3>1 DEF FitsOf
      <3>2. CASE Passed(u)' /\ u = w
        BY <2>2, <3>2, OwnPassed
      <3>3. CASE Passed(u)' /\ u # w
        <4>1. pc'[u] = pc[u] /\ request'[u] = request[u]
          BY <1>0, <3>3, Frame
        <4> QED BY <2>2, <3>3, <4>1 DEF Passed, Kind
      <3> QED BY <3>1, <3>2, <3>3
    <2> QED BY <2>1, <2>3 DEF TestedOK
  <1>2. CASE Commit(w)
    <2>1. ASSUME NEW u \in Workers PROVE FitsOf(u, d)'
      <3>1. CASE u = w
        <4>1. pc'[w] = "idle"
          BY <1>0, <1>2, Finished DEF Commit
        <4> QED BY <3>1, <4>1 DEF FitsOf, Passed
      <3>2. CASE u # w
        BY <1>2, <3>2, OthersFit DEF TestedOK
      <3> QED BY <3>1, <3>2
    <2>2. /\ DraftSum(d) = Promised(d) /\ DraftSum(d)' = Promised(d)'
          /\ Promised(d) \in Nat /\ Promised(d)' \in Nat /\ Promised(d) <= outstanding[d]
      BY <1>0, PromisesAre DEF TestedOK
    <2>3. CASE Eases(d)
      <3>1. Promised(d)' <= Promised(d)
        BY <1>0, <2>3, PromisesEase DEF Eases
      <3>2. Promised(d)' <= outstanding'[d]
        BY <1>0, <2>2, <2>3, <3>1 DEF Eases
      <3> QED BY <2>1, <2>2, <3>2 DEF TestedOK
    <2>4. CASE Takes(w, d)
      <3>1. Passed(w)
        BY <1>2, <2>4 DEF Takes, Passed, Commit
      <3>2. CreditsOn(d, Lines(w)) <= outstanding[d] - OtherDrafts(w, d)
        BY <2>4, <3>1 DEF TestedOK, FitsOf, Takes
      <3>3. Payment(w) \in Payments /\ Lines(w) \in Seq(Line)
        BY <1>0, <2>4, WorkTyped DEF Takes, PayKinds
      <3>4. /\ OtherDrafts(w, d) = Promised(d) - PromiseOf(Payment(w), d)
            /\ PromiseOf(Payment(w), d) \in Nat /\ CreditsOn(d, Lines(w)) \in Nat
        BY <1>0, <3>3, PromisesAre, OnInvoice
      <3> DEFINE mine == PromiseOf(Payment(w), d)
                 credits == CreditsOn(d, Lines(w))
                 others == OtherDrafts(w, d)
      <3>5. Promised(d)' - outstanding'[d] = Promised(d) - mine + credits - outstanding[d]
        BY <2>4 DEF Takes
      <3>6. credits <= outstanding[d] - others /\ others = Promised(d) - mine
            /\ mine \in Nat /\ credits \in Nat
        BY <3>2, <3>4
      <3> HIDE DEF mine, credits, others
      <3>7. Promised(d)' <= outstanding'[d]
        BY <1>0, <2>2, <3>5, <3>6
      <3> QED BY <2>1, <2>2, <3>7 DEF TestedOK
    <2>5. CASE Honours(w, d)
      <3>1. Promised(d)' <= outstanding'[d]
        BY <1>0, <2>2, <2>5 DEF Honours
      <3> QED BY <2>1, <2>2, <3>1 DEF TestedOK
    <2> QED BY <1>2, <2>3, <2>4, <2>5, CommitPromises
  <1> QED BY <1>1, <1>2, TablesChange

(***************************************************************************)
(* Invoices that one payment only is allocated to.                         *)
(***************************************************************************)
LEMMA OwnedLines ==
  ASSUME TypeOK, AskedOK, NEW d \in Invoices, NEW p \in Payments, OwnedBy(d, p)
  PROVE  /\ \A q \in Payments \ {p} : ~Touches(allocs[q], d)
         /\ \A w \in Workers :
              /\ Kind(w) \in {"create", "allocate"} /\ Touches(Lines(w), d) => Payment(w) = p
              /\ Kind(w) = "create" => CreditsOn(d, Lines(w)) <= InvTotal[d]
              /\ Kind(w) = "allocate" /\ Touches(Lines(w), d) => OneLineOn(Lines(w), d)
  <1>1. ASSUME NEW q \in Payments \ {p}, Touches(allocs[q], d) PROVE FALSE
    <2>1. PICK i \in DOMAIN allocs[q] : allocs[q][i].invoice = d
      BY <1>1 DEF Touches
    <2>2. PICK r \in Requests : /\ Allocates(r) /\ r.payment = q
                                /\ \E j \in DOMAIN r.lines : r.lines[j] = allocs[q][i]
      BY DEF AskedOK, Asked
    <2>3. Touches(r.lines, d)
      BY <2>1, <2>2 DEF Touches
    <2> QED BY <2>2, <2>3 DEF OwnedBy
  <1>2. ASSUME NEW w \in Workers, Kind(w) \in {"create", "allocate"}
        PROVE  /\ Touches(Lines(w), d) => Payment(w) = p
               /\ Kind(w) = "create" => CreditsOn(d, Lines(w)) <= InvTotal[d]
               /\ Kind(w) = "allocate" /\ Touches(Lines(w), d) => OneLineOn(Lines(w), d)
    <2>1. /\ request[w] \in Requests /\ Allocates(request[w]) /\ Lines(w) = request[w].lines
          /\ Lines(w) \in Seq(Line) /\ InvTotal[d] \in Nat
      BY <1>2, WorkTyped, PaymentAssumption DEF TypeOK, Allocates, Kind, Lines, PayKinds
    <2>2. CASE Touches(Lines(w), d)
      BY <2>1, <2>2 DEF OwnedBy, Payment, Kind
    <2>3. CASE ~Touches(Lines(w), d)
      <3>1. CreditsOn(d, Lines(w)) = 0
        BY <2>1, <2>3, OnInvoice
      <3> QED BY <2>1, <2>3, <3>1
    <2> QED BY <2>2, <2>3
  <1> QED BY <1>1, <1>2

(* No promise, and no credit, is more than the invoice has outstanding.    *)
LEMMA OwnedCommit ==
  ASSUME BaseInv, BaseInv', Faithful, AskedOK, NEW d \in Invoices, NEW p \in Payments,
         OwnedBy(d, p), OwnedOK(d, p), NEW w \in Workers, Commit(w)
  PROVE  OwnedOK(d, p)'
  <1> DEFINE lines == Lines(w)
             credits == CreditsOn(d, lines)
             left == outstanding[d]
  <1>0. TypeOK /\ TypeOK' /\ pc[w] = "commit" /\ pc'[w] = "idle" /\ Acts(w)
    BY Finished DEF BaseInv, Commit, Acts, Step
  <1>1. /\ left \in Int /\ left >= 0 /\ InvTotal[d] \in Nat /\ allocs[p] \in Seq(Line)
        /\ CreditsOn(d, allocs[p]) \in Nat
        /\ Early(p) => left = InvTotal[d] /\ CreditsOn(d, allocs[p]) <= InvTotal[d]
    BY <1>0, PaymentAssumption, OnInvoice DEF TypeOK, OwnedOK
  <1>2. TookNothing => outstanding'[d] = left
    BY DEF TookNothing
  <1>3. Took(lines) => outstanding'[d] = left - credits
    BY DEF Took
  (* Who has passed its check for d works on p, and holds it. *)
  <1>4. ASSUME NEW u \in Workers, u # w, Passed(u)', Touches(Lines(u), d)'
        PROVE  /\ Payment(u) = p /\ p \in heldPays[u] /\ Passed(u) /\ Lines(u)' = Lines(u)
               /\ Touches(Lines(u), d)
    <2>1. pc'[u] = pc[u] /\ request'[u] = request[u]
      BY <1>0, <1>4, Frame
    <2>2. Passed(u) /\ Kind(u) = "allocate" /\ pc[u] \in {"post", "commit"}
      BY <1>4, <2>1 DEF Passed, Kind
    <2>3. Lines(u)' = Lines(u) /\ Payment(u) \in heldPays[u]
      BY <1>0, <1>4, <2>2, LinesStay DEF PayKinds, Active
    <2>4. Touches(Lines(u), d)
      BY <1>4, <2>3 DEF Touches
    <2> QED BY <1>0, <2>2, <2>3, <2>4, OwnedLines
  <1>5. ~Passed(w)'
    BY <1>0 DEF Passed
  <1>6. CASE OfOthers(w)
    <2>1. outstanding'[d] = left /\ allocs'[p] = allocs[p] /\ (Early(p)' => Early(p))
      BY <1>2, <1>6 DEF OfOthers, Exports, Rejects, Early
    <2>2. ASSUME NEW u \in Workers PROVE OwnFits(u, d)'
      BY <1>4, <1>5, <2>1 DEF OwnFits, OwnedOK
    <2> QED BY <1>1, <2>1, <2>2 DEF OwnedOK
  <1>7. CASE OfPayment(w) /\ Payment(w) # p
    <2>1. allocs'[p] = allocs[p] /\ state'[p] = state[p] /\ Payment(w) \in Payments
      BY <1>7 DEF OfPayment
    <2>2. outstanding'[d] = left
      <3>1. lines \in Seq(Line) /\ allocs[Payment(w)] \in Seq(Line)
            /\ ~Touches(allocs[Payment(w)], d)
        BY <1>0, <1>7, <2>1, OwnedLines DEF OfPayment, TypeOK
      <3>2. CreditsOn(d, allocs[Payment(w)]) = 0 /\ AmountsOn(d, allocs[Payment(w)]) = 0
        BY <3>1, OnInvoice
      <3>3. Kind(w) \in {"create", "allocate"} => ~Touches(lines, d)
        BY <1>0, <1>7, OwnedLines
      <3>4. Kind(w) \in {"create", "allocate"} => credits = 0
        BY <3>1, <3>3, OnInvoice
      <3> HIDE DEF lines, credits, left
      <3>5. Submits(w) => credits = 0
        BY <3>2 DEF Submits, credits, lines
      <3>6. Took(lines) /\ credits = 0 => outstanding'[d] = left
        BY <1>1, <1>3
      <3>7. CreatesSubmitted(w) \/ AllocatesLate(w) \/ Submits(w) => Took(lines) /\ credits = 0
        BY <3>4, <3>5 DEF CreatesSubmitted, AllocatesLate, Submits, lines
      <3>8. Cancels(w) => outstanding'[d] = left
        BY <1>1, <3>2 DEF Cancels, left
      <3>9. CreatesDraft(w) \/ Removes(w) \/ AllocatesDraft(w) => TookNothing
        BY DEF CreatesDraft, Removes, AllocatesDraft
      <3> QED BY <1>2, <1>7, <3>6, <3>7, <3>8, <3>9 DEF OfPayment
    <2>3. ASSUME NEW u \in Workers PROVE OwnFits(u, d)'
      BY <1>4, <1>5, <2>2 DEF OwnFits, OwnedOK
    <2> QED BY <1>1, <2>1, <2>2, <2>3 DEF OwnedOK, Early
  <1>8. CASE OfPayment(w) /\ Payment(w) = p
    <2>1. ASSUME NEW u \in Workers PROVE OwnFits(u, d)'
      <3>1. p \in heldPays[w]
        BY <1>8 DEF OfPayment
      <3> QED BY <1>4, <1>5, <3>1 DEF OwnFits, BaseInv, HoldsOK, Apart
    <2>2. lines \in Seq(Line) /\ credits \in Nat
      BY <1>8, OnInvoice DEF OfPayment
    <2>3. Kind(w) = "create" => credits <= InvTotal[d]
      BY <1>0, OwnedLines
    <2>4. Kind(w) = "allocate" => credits <= left
      <3>1. CASE Touches(lines, d)
        BY <1>0, <3>1 DEF OwnedOK, OwnFits, Passed
      <3>2. CASE ~Touches(lines, d)
        <4>1. credits = 0
          BY <2>2, <3>2, OnInvoice
        <4> QED BY <1>1, <4>1
      <3> QED BY <3>1, <3>2
    <2>5. ASSUME outstanding'[d] >= 0,
                 Early(p)' => /\ outstanding'[d] = InvTotal[d]
                              /\ CreditsOn(d, allocs'[p]) <= InvTotal[d]
          PROVE  OwnedOK(d, p)'
      BY <2>1, <2>5 DEF OwnedOK
    <2>6. AmountsOn(d, allocs[p]) \in Nat /\ CreditsOn(d, <<>>) = 0
      <3>1. <<>> \in Seq(Line) /\ ~Touches(<<>>, d)
        BY EmptySeq DEF Touches
      <3> QED BY <1>1, <3>1, OnInvoice
    <2> HIDE DEF credits, left
    <2>7. CASE CreatesDraft(w)
      BY <1>1, <1>2, <1>8, <2>2, <2>3, <2>5, <2>7 DEF CreatesDraft, Early, credits
    <2>8. CASE CreatesSubmitted(w)
      BY <1>1, <1>3, <1>8, <2>2, <2>3, <2>5, <2>8 DEF CreatesSubmitted, Early
    <2>9. CASE Removes(w)
      BY <1>1, <1>2, <1>8, <2>5, <2>6, <2>9 DEF Removes, Early
    <2>10. CASE Submits(w)
      <3>1. credits = CreditsOn(d, allocs[p]) /\ Early(p) /\ ~Early(p)' /\ Took(lines)
        BY <1>8, <2>10 DEF Submits, Early, credits
      <3> QED BY <1>1, <1>3, <2>2, <2>5, <3>1
    <2>11. CASE AllocatesDraft(w)
      <3>1. Early(p) /\ TookNothing /\ CreditsOn(d, allocs'[p]) = credits /\ Kind(w) = "allocate"
        BY <1>8, <2>11 DEF AllocatesDraft, Early, credits
      <3> QED BY <1>1, <1>2, <2>2, <2>4, <2>5, <3>1
    <2>12. CASE AllocatesLate(w)
      <3>1. ~Early(p)' /\ Took(lines) /\ Kind(w) = "allocate"
        BY <1>8, <2>12 DEF AllocatesLate, Early
      <3> QED BY <1>1, <1>3, <2>2, <2>4, <2>5, <3>1
    <2>13. CASE Cancels(w)
      <3>1. ~Early(p)' /\ outstanding'[d] = left + AmountsOn(d, allocs[p])
        BY <1>8, <2>13 DEF Cancels, Early, left
      <3> QED BY <1>1, <2>5, <2>6, <3>1
    <2> QED BY <1>8, <2>7, <2>8, <2>9, <2>10, <2>11, <2>12, <2>13 DEF OfPayment
  <1> QED BY <1>6, <1>7, <1>8, CommitShape

LEMMA OthersNat ==
  ASSUME TypeOK, NEW w \in Workers, Payment(w) \in Payments, NEW d \in Invoices
  PROVE  OtherDrafts(w, d) \in Nat
  <1> DEFINE q == Payment(w)
  <1>1. allocs \in [Payments -> Seq(Line)]
    BY DEF TypeOK
  <1>2. OtherDrafts(w, d) = SumFunctionOnSet([p \in Payments |-> AmountsOn(d, allocs[p])],
                              {p \in Payments \ {q} : state[p] = "draft"})
    BY DEF OtherDrafts
  <1>3. q \in Payments
    OBVIOUS
  <1> HIDE DEF q
  <1>4. OtherDrafts(w, d) = TotalIn(state, allocs, Payments \ {q}, d)
    BY <1>1, <1>2, DraftsSum
  <1>5. \A x \in Payments : TotalIn(state, allocs, Payments \ {x}, d) \in Nat
    BY <1>1, TotalLess
  <1> QED BY <1>3, <1>4, <1>5

LEMMA OwnedStep ==
  ASSUME BaseInv, BaseInv', Faithful, AskedOK, NEW d \in Invoices, NEW p \in Payments,
         OwnedBy(d, p), OwnedOK(d, p), NEW w \in Workers, Acts(w)
  PROVE  OwnedOK(d, p)'
  <1>0. TypeOK
    BY DEF BaseInv
  <1>1. CASE Commit(w)
    BY <1>1, OwnedCommit
  <1>2. CASE UNCHANGED tables
    <2>1. ASSUME NEW u \in Workers, request'[u] = request[u], Passed(u)',
                 Passed(u) \/ CheckPassed(u)
          PROVE  OwnFits(u, d)'
      <3>1. Lines(u)' = Lines(u) /\ Kind(u) = "allocate" /\ outstanding'[d] = outstanding[d]
        BY <1>2, <2>1 DEF tables, Lines, Payment, Kind, Passed
      <3>2. ASSUME Touches(Lines(u), d) PROVE CreditsOn(d, Lines(u)) <= outstanding[d]
        <4>1. CASE Passed(u)
          BY <3>2, <4>1 DEF OwnedOK, OwnFits
        <4>2. CASE CheckPassed(u)
          <5>1. Payment(u) \in Payments /\ Lines(u) \in Seq(Line) /\ OneLineOn(Lines(u), d)
            BY <1>0, <3>1, <3>2, WorkTyped, OwnedLines DEF PayKinds
          <5>2. OtherDrafts(u, d) \in Nat /\ CreditsOn(d, Lines(u)) \in Nat
                /\ outstanding[d] \in Int
            BY <1>0, <5>1, OthersNat, OnInvoice DEF TypeOK
          <5>3. CreditsOn(d, Lines(u)) <= outstanding[d] - OtherDrafts(u, d)
            BY <1>0, <3>1, <3>2, <4>2, <5>1, CheckedFits
          <5> QED BY <5>2, <5>3
        <4> QED BY <2>1, <4>1, <4>2
      <3> QED BY <3>1, <3>2 DEF OwnFits
    <2>2. ASSUME NEW u \in Workers PROVE OwnFits(u, d)'
      <3>1. CASE ~Passed(u)'
        BY <3>1 DEF OwnFits
      <3>2. CASE Passed(u)' /\ u = w
        BY <2>1, <3>2, OwnPassed
      <3>3. CASE Passed(u)' /\ u # w
        <4>1. pc'[u] = pc[u] /\ request'[u] = request[u]
          BY <1>0, <3>3, Frame
        <4> QED BY <2>1, <3>3, <4>1 DEF Passed, Kind
      <3> QED BY <3>1, <3>2, <3>3
    <2> QED BY <1>2, <2>2 DEF OwnedOK, tables, Early
  <1> QED BY <1>1, <1>2, TablesChange

LEMMA OwnedFits ==
  ASSUME TypeOK, AskedOK, NEW d \in Invoices, NEW p \in Payments, OwnedBy(d, p), OwnedOK(d, p)
  PROVE  DraftSum(d) <= outstanding[d]
  <1> DEFINE f == [q \in Payments |-> PromiseIn(state, allocs, q, d)]
  <1>1. allocs \in [Payments -> Seq(Line)] /\ outstanding[d] \in Int /\ outstanding[d] >= 0
    BY DEF TypeOK, OwnedOK
  <1>2. \A q \in Payments \ {p} : f[q] = 0
    <2>1. \A q \in Payments \ {p} : AmountsOn(d, allocs[q]) = 0
      BY <1>1, OwnedLines, OnInvoice
    <2> QED BY <2>1 DEF PromiseIn
  <1>3. f[p] \in Int /\ f[p] <= outstanding[d]
    <2>1. /\ AmountsOn(d, allocs[p]) \in Nat /\ CreditsOn(d, allocs[p]) \in Nat
          /\ AmountsOn(d, allocs[p]) <= CreditsOn(d, allocs[p])
      BY <1>1, OnInvoice
    <2>2. InvTotal[d] \in Nat
      BY PaymentAssumption
    <2> QED BY <1>1, <2>1, <2>2 DEF PromiseIn, OwnedOK, Early
  <1>4. DraftSum(d) = SumFunctionOnSet(f, Payments)
    <2>1. DraftSum(d) = TotalIn(state, allocs, Payments, d)
      BY <1>1, DraftsSum DEF DraftSum
    <2> QED BY <2>1 DEF TotalIn
  <1> HIDE DEF f
  <1> QED BY <1>2, <1>3, <1>4, SumOne, PaymentAssumption

(***************************************************************************)
(* All of it together.                                                     *)
(***************************************************************************)
PromisesInv ==
  /\ AskedOK /\ ListedOK /\ InvoicesOK
  /\ \A d \in Invoices : /\ Tested(d) => TestedOK(d)
                         /\ \A p \in Payments : OwnedBy(d, p) => OwnedOK(d, p)

LEMMA PromisesInit == Init => PromisesInv
  <1> SUFFICES ASSUME Init PROVE PromisesInv
    OBVIOUS
  <1>1. AskedOK /\ ListedOK /\ InvoicesOK
    BY DEF Init, AskedOK, ListedOK, ListedOf, Range, InvoicesOK, SettlesLines
  <1>2. \A w \in Workers : ~Passed(w)
    BY DEF Init, Passed
  <1>3. ASSUME NEW d \in Invoices PROVE TestedOK(d)
    <2>1. {p \in Payments : state[p] = "draft"} = {}
      BY DEF Init
    <2>2. DraftSum(d) = 0
      BY <2>1, SumEmpty DEF DraftSum
    <2>3. outstanding[d] \in Nat
      BY PaymentAssumption DEF Init
    <2> QED BY <1>2, <2>2, <2>3 DEF TestedOK, FitsOf
  <1>4. ASSUME NEW d \in Invoices, NEW p \in Payments PROVE OwnedOK(d, p)
    <2>1. allocs[p] = <<>> /\ outstanding[d] = InvTotal[d] /\ InvTotal[d] \in Nat
      BY PaymentAssumption DEF Init
    <2>2. <<>> \in Seq(Line) /\ ~Touches(<<>>, d)
      BY EmptySeq DEF Touches
    <2>3. CreditsOn(d, allocs[p]) = 0
      BY <2>1, <2>2, OnInvoice
    <2> QED BY <1>2, <2>1, <2>3 DEF OwnedOK, OwnFits
  <1> QED BY <1>1, <1>3, <1>4 DEF PromisesInv

LEMMA PromisesStep ==
  ASSUME BaseInv, BaseInv', Faithful, VoidsOK, PromisesInv, [Next]_vars
  PROVE  PromisesInv'
  <1>1. CASE UNCHANGED vars
    <2>1. AskedOK' /\ ListedOK' /\ InvoicesOK'
      BY <1>1 DEF vars, tables, locks, batch, PromisesInv, AskedOK, ListedOK, ListedOf, InvoicesOK,
                  SettlesLines, Lines, Kind, Payment
    <2>2. ASSUME NEW d \in Invoices, Tested(d) PROVE TestedOK(d)'
      BY <1>1, <2>2 DEF vars, tables, PromisesInv, TestedOK, FitsOf, Passed, Lines, Kind, Payment,
                        OtherDrafts, DraftSum
    <2>3. ASSUME NEW d \in Invoices, NEW p \in Payments, OwnedBy(d, p) PROVE OwnedOK(d, p)'
      BY <1>1, <2>3 DEF vars, tables, PromisesInv, OwnedOK, OwnFits, Passed, Lines, Kind, Payment,
                        Early
    <2> QED BY <2>1, <2>2, <2>3 DEF PromisesInv
  <1>2. ASSUME NEW w \in Workers, Acts(w) PROVE PromisesInv'
    <2>1. AskedOK'
      BY <1>2, TablesChange, AskedStep DEF PromisesInv, tables, AskedOK
    <2>2. InvoicesOK' /\ ListedOK'
      BY <1>2, InvoicesStep, ListedStep DEF PromisesInv
    <2>3. ASSUME NEW d \in Invoices, Tested(d) PROVE TestedOK(d)'
      BY <1>2, <2>3, TestedStep DEF PromisesInv
    <2>4. ASSUME NEW d \in Invoices, NEW p \in Payments, OwnedBy(d, p) PROVE OwnedOK(d, p)'
      BY <1>2, <2>4, OwnedStep DEF PromisesInv
    <2> QED BY <2>1, <2>2, <2>3, <2>4 DEF PromisesInv
  <1> QED BY <1>1, <1>2, StepIsActs

(* The drafts never promise more of an invoice than is outstanding, where  *)
(* every promise is tested or the invoice is promised by one payment only, *)
(* whatever allocations, submissions, cancellations and bank files are     *)
(* under way and whoever of them dies, until a bank file writes a state    *)
(* over.                                                                   *)
THEOREM PromisesAreKept ==
  ASSUME PromisesTested
  PROVE  Spec => []PromisesFit
  <1> DEFINE Inv == overwritten = {} => PromisesInv
  <1>1. BaseInv /\ BaseInv' /\ SeenInv /\ VoidsOK /\ Inv /\ [Next]_vars => Inv'
    <2> SUFFICES ASSUME BaseInv, BaseInv', SeenInv, VoidsOK, Inv, [Next]_vars, overwritten' = {}
                 PROVE  PromisesInv'
      OBVIOUS
    <2>1. PromisesInv /\ Faithful
      BY OverwrittenGrows DEF Faithful
    <2> QED BY <2>1, PromisesStep
  <1>2. TypeOK /\ Inv => PromisesFit
    <2> SUFFICES ASSUME TypeOK, PromisesInv, NEW d \in Invoices PROVE DraftSum(d) <= outstanding[d]
      BY DEF PromisesFit, DraftSum, SumIn
    <2>1. CASE Tested(d)
      BY <2>1 DEF PromisesInv, TestedOK
    <2>2. CASE Uncontested(d)
      BY <2>2, OwnedFits DEF PromisesInv, Uncontested
    <2> QED BY <2>1, <2>2 DEF PromisesTested
  <1>3. Init => Inv
    BY PromisesInit
  <1> QED BY <1>1, <1>2, <1>3, BaseAlways, SeenAlways, VoidsAlways, Typing, PTL DEF Spec

(* Submitted payments never take more off an invoice than its total: the   *)
(* drafts promise what is outstanding, and what is outstanding is the      *)
(* total less what was taken.  A submission does not compare the amounts   *)
(* again.                                                                  *)
NeverOverpaid ==
  overwritten = {} =>
    \A d \in Invoices : outstanding[d] >= 0 /\ Settled(d) \in 0..InvTotal[d]

THEOREM InvoicesNeverOverpaid ==
  ASSUME CancelsUndiscounted, PromisesTested
  PROVE  Spec => []NeverOverpaid
  <1>1. TypeOK /\ PromisesFit /\ OutstandingExplained => NeverOverpaid
    <2> SUFFICES ASSUME TypeOK, PromisesFit, OutstandingExplained, overwritten = {},
                        NEW d \in Invoices
                 PROVE  outstanding[d] >= 0 /\ Settled(d) \in 0..InvTotal[d]
      BY DEF NeverOverpaid
    <2> DEFINE f == [p \in Payments |-> AmountsOn(d, allocs[p])]
               g == [p \in Payments |-> CreditsOn(d, allocs[p])]
               D == {p \in Payments : state[p] = "draft"}
               S == {p \in Payments : state[p] = "submitted"}
    <2>1. \A p \in Payments : f[p] \in Nat /\ g[p] \in Nat
      BY OnInvoice DEF TypeOK
    <2>2. IsFiniteSet(D) /\ IsFiniteSet(S) /\ D \subseteq Payments /\ S \subseteq Payments
      BY FS_Subset, PaymentAssumption
    <2>3. SumFunctionOnSet(f, D) <= outstanding[d] /\ Settled(d) = SumFunctionOnSet(g, S)
      BY DEF PromisesFit, SumIn, Settled
    <2> HIDE DEF f, g, D, S
    <2>4. SumFunctionOnSet(f, D) \in Nat /\ SumFunctionOnSet(g, S) \in Nat
      BY <2>1, <2>2, SumNatural
    <2>5. outstanding[d] = InvTotal[d] - Settled(d) /\ InvTotal[d] \in Nat
      BY PaymentAssumption DEF OutstandingExplained
    <2> QED BY <2>3, <2>4, <2>5
  <1> QED BY <1>1, Typing, PromisesAreKept, OutstandingIsExplained, PTL
===============================================================================
