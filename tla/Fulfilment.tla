------------------------------ MODULE Fulfilment -------------------------------
(***************************************************************************)
(* Picking and shipping of a confirmed sales order: pickLine, cancelPick,  *)
(* createShipment with executeDispatch, cancelShipment, and the life cycle *)
(* rules of the order that they evaluate.                                  *)
(*                                                                         *)
(* A request checks what it reads without a lock, and then moves stock,    *)
(* which locks the rows of bin_contents in the order of the movement.      *)
(* Then it reads the picks that it changes, and what it makes of them is   *)
(* written in its commit: the row locks of the picks would only make a     *)
(* second writer wait for the first.                                       *)
(*                                                                         *)
(* Each line of the order is of a product of its own, sold by its base     *)
(* unit, with one storage bin and one SHIPPING bin in each location. A     *)
(* pick fills the SHIPPING bin of the location that fulfils the line,      *)
(* whatever bin it is taken from; its reversal empties that of the bin's   *)
(* own location. Negative stock is allowed, so that a movement is not      *)
(* refused.                                                                *)
(* Non-stock lines, invoices, prices and events are left out, and the      *)
(* draft of a shipment, which no other transaction sees.                   *)
(***************************************************************************)
EXTENDS Integers, Sequences, FiniteSets, SequencesExt, Functions

CONSTANTS
  Workers,   \* database connections, each running one request at a time
  Lines, Ordered, UnitCost, \* the order
  Locations,
  Home,      \* the location that fulfils a line
  Requests,  \* the requests clients send
  Perpetual, \* inventory accounting posts each dispatch
  MaxPicks, MaxShipments, \* bounds: rows after which no request begins
  NoWorker

Parts == [Lines -> Nat] \* the quantity of each line in a shipment
Request ==
  [kind : {"pick"}, line : Lines, qty : Nat \ {0}, from : Locations]
  \cup [kind : {"ship"}, parts : Parts]
  \cup [kind : {"unpick", "unship"}, id : Nat \ {0}]

ASSUME FulfilmentAssumption ==
  /\ Lines # {} /\ IsFiniteSet(Lines) \* the rules pass over an order without lines
  /\ Ordered \in [Lines -> Nat \ {0}] /\ UnitCost \in [Lines -> Nat]
  /\ IsFiniteSet(Locations) /\ Home \in [Lines -> Locations]
  /\ Requests \subseteq Request /\ Requests # {}
  /\ Perpetual \in BOOLEAN
  /\ MaxPicks \in Nat /\ MaxShipments \in Nat
  /\ NoWorker \notin Workers

VARIABLES
  \* Committed state.
  orderState,  \* sales_orders.state_code
  picks,       \* sales_order_picks
  shipments,   \* sales_order_shipments with their lines
  staged,      \* bin_contents of the SHIPPING bins, by line and location
  netPicked,   \* what the SO_PICK entries of the ledger sum up to there
  cogs,        \* balance of cost of goods sold
  \* The transaction of each worker.
  pc, request,
  seen,        \* the quantity of the pick, as cancelPick read it
  taken,       \* what it takes of each pick it found
  held         \* rows and locks it holds

tables == <<orderState, picks, shipments, staged, netPicked, cogs>>
vars   == <<tables, pc, request, seen, taken, held>>

OrderStates == {"confirmed", "picking", "shipped"}
PickStates  == {"picked", "shipped", "cancelled"}
ShipmentStates == {"dispatched", "cancelled"}
Active == {"check", "move", "ledger", "change", "order", "commit"}

(* SALES_ORDER_PICK_TRANSITIONS. *)
PickTransitions ==
  [picked |-> {"shipped", "cancelled"}, shipped |-> {"picked", "cancelled"}, cancelled |-> {}]

(* The rows and locks that requests compete for. *)
Shelf(l, c) == <<"shelf", l, c>>
Staging(l, c) == <<"staging", l, c>>
Order == <<"order">>
Ledger == <<"ledger">>
Resources == ({"shelf", "staging"} \X Lines \X Locations) \cup {Order, Ledger}

NoRequest == CHOOSE r \in Requests : TRUE \* of an idle worker: never looked at

Init ==
  /\ orderState = "confirmed"
  /\ picks = <<>> /\ shipments = <<>>
  /\ staged = [l \in Lines |-> [c \in Locations |-> 0]]
  /\ netPicked = [l \in Lines |-> [c \in Locations |-> 0]]
  /\ cogs = 0
  /\ pc = [w \in Workers |-> "idle"]
  /\ request = [w \in Workers |-> NoRequest]
  /\ seen = [w \in Workers |-> 0]
  /\ taken = [w \in Workers |-> <<>>]
  /\ held = [w \in Workers |-> {}]

Kind(w) == request[w].kind
Goto(w, label) == pc' = [pc EXCEPT ![w] = label]

Finish(w) ==
  /\ Goto(w, "idle")
  /\ request' = [request EXCEPT ![w] = NoRequest]
  /\ seen' = [seen EXCEPT ![w] = 0]
  /\ taken' = [taken EXCEPT ![w] = <<>>]
  /\ held' = [held EXCEPT ![w] = {}]
Abort(w) == Finish(w) /\ UNCHANGED tables

(***************************************************************************)
(* Quantities of the order.                                                *)
(***************************************************************************)
PicksIn(ps, l, states) == {i \in DOMAIN ps : ps[i].line = l /\ ps[i].state \in states}
PickSum(ps, l, states) ==
  SumFunctionOnSet([i \in DOMAIN ps |-> ps[i].qty], PicksIn(ps, l, states))

ShipmentSum(ss, l) ==
  SumFunctionOnSet([i \in DOMAIN ss |-> ss[i].parts[l]],
                   {i \in DOMAIN ss : ss[i].state # "cancelled"})

Larger(m, n) == IF m > n THEN m ELSE n
Smaller(m, n) == IF m < n THEN m ELSE n

Committed(ps, ss, l) == Larger(ShipmentSum(ss, l), PickSum(ps, l, {"shipped"}))

FullyShipped(ps, ss) == \A l \in Lines : Committed(ps, ss, l) >= Ordered[l]

(***************************************************************************)
(* A request arrives, and reads what it checks.                            *)
(***************************************************************************)
Room == Len(picks) < MaxPicks /\ Len(shipments) < MaxShipments
Begin(w) ==
  /\ pc[w] = "idle"
  /\ \E r \in Requests :
       (Room \/ r.kind = "unpick") /\ request' = [request EXCEPT ![w] = r]
  /\ Goto(w, "check")
  /\ UNCHANGED <<tables, seen, taken, held>>

Open == orderState \in {"confirmed", "picking"}

PickAccepted(r) ==
  Open /\ PickSum(picks, r.line, {"picked", "shipped"}) + r.qty <= Ordered[r.line]
UnpickAccepted(r) == r.id \in DOMAIN picks /\ picks[r.id].state = "picked"

(* assertShipmentQtyAvailable, and the history of picks that               *)
(* executeDispatch goes through, which dispatches do not reduce.  Of the   *)
(* SHIPPING bins only the one that picks of the line fill can have any.    *)
Shippable(l, qty) ==
  /\ qty <= PickSum(picks, l, {"picked", "shipped"}) - Committed(picks, shipments, l)
  /\ qty <= netPicked[l][Home[l]]
ShipAccepted(r) == Open /\ \A l \in Lines : r.parts[l] > 0 => Shippable(l, r.parts[l])

Dispatched(id) == id \in DOMAIN shipments /\ shipments[id].state = "dispatched"

Accepted(w) ==
  CASE Kind(w) = "pick" -> PickAccepted(request[w])
    [] Kind(w) = "unpick" -> UnpickAccepted(request[w])
    [] Kind(w) = "ship" -> ShipAccepted(request[w])
    [] Kind(w) = "unship" -> Dispatched(request[w].id)

Check(w) ==
  /\ pc[w] = "check" /\ Accepted(w)
  /\ seen' = [seen EXCEPT ![w] = IF Kind(w) = "unpick" THEN picks[request[w].id].qty ELSE 0]
  /\ Goto(w, "move")
  /\ UNCHANGED <<tables, request, taken, held>>

Refuse(w) == pc[w] = "check" /\ ~Accepted(w) /\ Abort(w)

(***************************************************************************)
(* Locks: the rows of the movement, in its order; the lock of the general  *)
(* ledger; the row of the order.                                           *)
(***************************************************************************)
PartsOf(w) ==
  IF Kind(w) = "unship" THEN shipments[request[w].id].parts ELSE request[w].parts
Needed(w) ==
  CASE Kind(w) = "pick" ->
         LET r == request[w] IN {Shelf(r.line, r.from), Staging(r.line, Home[r.line])}
    [] Kind(w) = "unpick" ->
         LET p == picks[request[w].id] IN {Shelf(p.line, p.from), Staging(p.line, p.from)}
    [] OTHER -> {Staging(l, Home[l]) : l \in {m \in Lines : PartsOf(w)[m] > 0}}
RowsLeft(w) == Needed(w) \ held[w]

(* A movement writes the bin it takes from before the bin it fills; the    *)
(* lines of a shipment come in any order.                                  *)
NextRows(w) ==
  CASE Kind(w) = "pick" /\ held[w] = {} -> {r \in RowsLeft(w) : r[1] = "shelf"}
    [] Kind(w) = "unpick" /\ held[w] = {} -> {r \in RowsLeft(w) : r[1] = "staging"}
    [] OTHER -> RowsLeft(w)

Blockers(w, r) == {v \in Workers \ {w} : r \in held[v]}
Take(w, r) == Blockers(w, r) = {} /\ held' = [held EXCEPT ![w] = @ \cup {r}]

LockRow(w) ==
  /\ pc[w] = "move"
  /\ \E r \in NextRows(w) : Take(w, r)
  /\ UNCHANGED <<tables, pc, request, seen, taken>>

Moved(w) ==
  /\ pc[w] = "move" /\ RowsLeft(w) = {}
  /\ Goto(w, CASE Kind(w) = "pick" -> "order"
               [] Kind(w) \in {"ship", "unship"} /\ Perpetual -> "ledger"
               [] OTHER -> "change")
  /\ UNCHANGED <<tables, request, seen, taken, held>>

(* Mutant: each transaction numbers its journal entry by itself. *)
LedgerBlockersNone(w) == {}
LedgerBlockers(w) == Blockers(w, Ledger)

(* postJournalEntry, for the cost of the goods. *)
TakeLedger(w) ==
  /\ pc[w] = "ledger" /\ LedgerBlockers(w) = {}
  /\ held' = [held EXCEPT ![w] = @ \cup {Ledger}]
  /\ Goto(w, "change")
  /\ UNCHANGED <<tables, request, seen, taken>>

(***************************************************************************)
(* What the transaction makes of the picks and shipments.                  *)
(***************************************************************************)
(* Of each line its picks in one state, one after the other, until the     *)
(* quantity is reached: the last one is split.  Too few are not an error.  *)
TakenOf(ps, parts, from) ==
  [i \in DOMAIN ps |->
     IF ps[i].state # from THEN 0
     ELSE LET before == {j \in PicksIn(ps, ps[i].line, {from}) : j < i}
              left == parts[ps[i].line] - SumFunctionOnSet([j \in DOMAIN ps |-> ps[j].qty], before)
          IN Smaller(ps[i].qty, Larger(0, left))]
Found(w) ==
  CASE Kind(w) = "ship" -> TakenOf(picks, PartsOf(w), "picked")
    [] Kind(w) = "unship" -> TakenOf(picks, PartsOf(w), "shipped")
    [] OTHER -> <<>>

(* Mutant: a pick that is taken whole is split as well. *)
SplitPicksWhole(ps, took) == {i \in DOMAIN took : took[i] \in 1..ps[i].qty}
SplitPicks(ps, took) == {i \in DOMAIN took : took[i] \in 1..(ps[i].qty - 1)}
Converted(ps, took, to) ==
  LET split == SplitPicks(ps, took)
      order == SetToSeq(split)
  IN [i \in DOMAIN ps |->
        IF i \in split THEN [ps[i] EXCEPT !.qty = @ - took[i]]
        ELSE IF i \in DOMAIN took /\ took[i] > 0 THEN [ps[i] EXCEPT !.state = to]
        ELSE ps[i]]
     \o [k \in DOMAIN order |-> [ps[order[k]] EXCEPT !.qty = took[order[k]], !.state = to]]

NewPick(r) == [line |-> r.line, from |-> r.from, qty |-> r.qty, state |-> "picked"]
NewPicks(w, took) ==
  CASE Kind(w) = "pick" -> Append(picks, NewPick(request[w]))
    [] Kind(w) = "unpick" -> [picks EXCEPT ![request[w].id].state = "cancelled"]
    [] Kind(w) = "ship" -> Converted(picks, took, "shipped")
    [] Kind(w) = "unship" -> Converted(picks, took, "picked")
NewShipments(w) ==
  CASE Kind(w) = "ship" ->
         Append(shipments, [parts |-> PartsOf(w), state |-> "dispatched"])
    [] Kind(w) = "unship" -> [shipments EXCEPT ![request[w].id].state = "cancelled"]
    [] OTHER -> shipments

(***************************************************************************)
(* "change": the state of the pick or shipment is read again, by now under *)
(* the lock of its bin, and so are the picks to take; the rules look at    *)
(* the order, whose row nobody locks for them.  A pick that was shipped    *)
(* since may be cancelled as well.                                         *)
(***************************************************************************)
(* Mutant: the states are those of the first check. *)
StillAllowedAlways(w) == TRUE
StillAllowed(w) ==
  CASE Kind(w) = "unpick" -> "cancelled" \in PickTransitions[picks[request[w].id].state]
    [] Kind(w) = "unship" -> Dispatched(request[w].id)
    [] OTHER -> TRUE

FullAfter(w) == \E ps \in {NewPicks(w, Found(w))} : FullyShipped(ps, NewShipments(w))

(* autoShipWhenFullyShipped, revertToPickingOnShipmentCancel. *)
RuleFires(w) ==
  \/ Kind(w) = "ship" /\ Open /\ FullAfter(w)
  \/ Kind(w) = "unship" /\ orderState # "picking" /\ ~FullAfter(w)

Change(w) ==
  /\ pc[w] = "change" /\ StillAllowed(w)
  /\ taken' = [taken EXCEPT ![w] = Found(w)]
  /\ Goto(w, IF Kind(w) = "unpick" \/ RuleFires(w) THEN "order" ELSE "commit")
  /\ UNCHANGED <<tables, request, seen, held>>

RefuseChange(w) == pc[w] = "change" /\ ~StillAllowed(w) /\ Abort(w)

LockOrder(w) ==
  /\ pc[w] = "order"
  /\ Take(w, Order)
  /\ Goto(w, "commit")
  /\ UNCHANGED <<tables, request, seen, taken>>

(***************************************************************************)
(* "commit".                                                               *)
(***************************************************************************)
(* What a transaction adds to a SHIPPING bin; a reversal takes back what    *)
(* cancelPick read, and a cancelled dispatch goes back where it came from.  *)
StagedChange(w, l, c) ==
  CASE Kind(w) = "pick" -> IF request[w].line = l /\ c = Home[l] THEN request[w].qty ELSE 0
    [] Kind(w) = "unpick" ->
         LET p == picks[request[w].id] IN IF p.line = l /\ c = p.from THEN -seen[w] ELSE 0
    [] Kind(w) = "ship" -> IF c = Home[l] THEN -PartsOf(w)[l] ELSE 0
    [] Kind(w) = "unship" -> IF c = Home[l] THEN PartsOf(w)[l] ELSE 0

CostOf(parts) == SumFunction([l \in Lines |-> parts[l] * UnitCost[l]])
CogsChange(w) ==
  CASE ~Perpetual -> 0
    [] Kind(w) = "ship" -> CostOf(PartsOf(w))
    [] Kind(w) = "unship" -> -CostOf(PartsOf(w))
    [] OTHER -> 0

(* startPickingOnFirstPick reads the order under its lock. *)
NewOrderState(w) ==
  CASE Kind(w) = "pick" -> IF orderState = "confirmed" THEN "picking" ELSE orderState
    [] Kind(w) = "ship" /\ Order \in held[w] -> "shipped"
    [] Kind(w) = "unship" /\ Order \in held[w] -> "picking"
    [] OTHER -> orderState

Commit(w) ==
  /\ pc[w] = "commit"
  /\ picks' = NewPicks(w, taken[w])
  /\ shipments' = NewShipments(w)
  /\ staged' = [l \in Lines |-> [c \in Locations |-> staged[l][c] + StagedChange(w, l, c)]]
  /\ netPicked' = [l \in Lines |-> [c \in Locations |->
       IF Kind(w) \in {"pick", "unpick"} THEN netPicked[l][c] + StagedChange(w, l, c)
       ELSE netPicked[l][c]]]
  /\ cogs' = cogs + CogsChange(w)
  /\ orderState' = NewOrderState(w)
  /\ Finish(w)

(***************************************************************************)
(* Waiting, deadlocks and failures.                                        *)
(***************************************************************************)
Waits(w, v) ==
  \/ /\ pc[w] = "move" /\ RowsLeft(w) # {}
     /\ \A r \in NextRows(w) : Blockers(w, r) # {}
     /\ \E r \in NextRows(w) : v \in Blockers(w, r)
  \/ pc[w] = "ledger" /\ v \in Blockers(w, Ledger)
  \/ pc[w] = "order" /\ v \in Blockers(w, Order)

(* Mutant: nobody looks for cycles. *)
DeadlockedNever(w) == FALSE
Deadlocked(w) ==
  \E S \in SUBSET Workers :
    /\ w \in S
    /\ \A u \in S : (\E v \in S : Waits(u, v)) /\ (\E v \in S : Waits(v, u))
ResolveDeadlock(w) == Deadlocked(w) /\ Abort(w)

(* The connection or the API process dies. *)
Lose(w) == pc[w] \in Active /\ Abort(w)

Step(w) ==
  \/ Check(w) \/ Refuse(w) \/ LockRow(w) \/ Moved(w) \/ TakeLedger(w)
  \/ Change(w) \/ RefuseChange(w) \/ LockOrder(w) \/ Commit(w)

Next == \E w \in Workers : Begin(w) \/ Step(w) \/ ResolveDeadlock(w) \/ Lose(w)

(* Postgres and the event loop drive an open transaction on, and who waits *)
(* for a lock gets it in turn.                                             *)
Fairness ==
  /\ \A w \in Workers : SF_vars(Step(w))
  /\ WF_vars(\E w \in Workers : ResolveDeadlock(w))

Spec == Init /\ [][Next]_vars
FairSpec == Spec /\ Fairness

-------------------------------------------------------------------------------
(***************************************************************************)
(* Properties.                                                             *)
(***************************************************************************)
Pick == [line : Lines, from : Locations, qty : Nat \ {0}, state : PickStates]
Shipment == [parts : Parts, state : ShipmentStates]

(* Tables, programs and locks have their types.                            *)
TypeOK ==
  /\ orderState \in OrderStates
  /\ picks \in Seq(Pick) /\ shipments \in Seq(Shipment)
  /\ staged \in [Lines -> [Locations -> Int]]
  /\ netPicked \in [Lines -> [Locations -> Int]]
  /\ cogs \in Int
  /\ pc \in [Workers -> {"idle"} \cup Active]
  /\ request \in [Workers -> Requests]
  /\ seen \in [Workers -> Nat]
  /\ taken \in [Workers -> Seq(Nat)]
  /\ held \in [Workers -> SUBSET Resources]

(* Whatever picks, dispatches and their cancellations interleave:          *)
(* - each SHIPPING bin holds what the history of picks put there and no    *)
(*   dispatch took, and the cost of goods sold is that of the dispatches:  *)
(*   a shipment is never reversed twice;                                   *)
(* - no more picks count as shipped than the shipments took, and the       *)
(*   history of picks, from which executeDispatch lets goods leave, never  *)
(*   shows more than the picks do.  Until a line is first dispatched the   *)
(*   two agree: a pick is not put back twice.  Afterwards a cancellation   *)
(*   may put back more than the pick still was, because cancelPick read it *)
(*   before a dispatch split it.                                           *)
Departed(l, c) == IF c = Home[l] THEN ShipmentSum(shipments, l) ELSE 0
StagedAgrees == \A l \in Lines, c \in Locations : staged[l][c] = netPicked[l][c] - Departed(l, c)
CogsIsDispatched ==
  Perpetual =>
    cogs = SumFunction([l \in Lines |-> ShipmentSum(shipments, l) * UnitCost[l]])

NetPicked(l) == SumFunction(netPicked[l])
NeverDispatched(ss, l) == \A i \in DOMAIN ss : ss[i].parts[l] = 0
PicksCover ==
  \A l \in Lines :
    /\ PickSum(picks, l, {"shipped"}) <= ShipmentSum(shipments, l)
    /\ NetPicked(l) <= PickSum(picks, l, {"picked", "shipped"})
    /\ NeverDispatched(shipments, l) => NetPicked(l) = PickSum(picks, l, {"picked", "shipped"})
PicksAgree == StagedAgrees /\ CogsIsDispatched /\ PicksCover

(* "Only 'picked' lines can be cancelled", cancelPick says: goods that     *)
(* left are not put back on the shelf.                                     *)
OnlyPickedIsCancelled ==
  [][\A i \in DOMAIN picks : picks[i].state = "shipped" => picks'[i].state # "cancelled"]_vars

(* The order is shipped exactly when all its lines are, although the rules *)
(* read shipments of other lines that may be under way and nobody locks    *)
(* the order first: transactions that dispatch or cancel are serialised by *)
(* the lock of the general ledger, which they hold from posting the cost   *)
(* of the goods to their end.  For perpetual inventory accounting.         *)
OrderStateAgrees == orderState = "shipped" <=> FullyShipped(picks, shipments)

(* A request that was started ends, although a pick locks the shelf before *)
(* the SHIPPING bin and its reversal the other way round.                  *)
FulfilmentEnds == \A w \in Workers : []<>(pc[w] = "idle")
===============================================================================
