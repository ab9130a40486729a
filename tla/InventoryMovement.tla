--------------------------- MODULE InventoryMovement ---------------------------
(***************************************************************************)
(* The inventory ledger engine of the API: moveStock, adjustStock,         *)
(* quarantineStock and putaway (goods-receipt lines) of                    *)
(* InventoryMovementService, submitReconciliation and changeState of       *)
(* StocktakesWriteService, and recordInventoryMovement, through which each *)
(* of them writes stock.  Every request is one Postgres transaction at     *)
(* READ COMMITTED: a statement sees what was committed when it starts plus *)
(* the transaction's own writes, a row that was written stays locked until *)
(* the end, and a read takes no lock.  One action is one statement, or a   *)
(* group of statements whose reads no other transaction can change.        *)
(*                                                                         *)
(* Quantities are whole base units (the code's 0.001 tolerance is          *)
(* exactness) and every product costs one currency unit.  A bin_contents   *)
(* row at zero is deleted by the code and read back as 0, so a row is its  *)
(* quantity.  A stocktake's counts are in the body of its submission.      *)
(* Moves and counts name their unit, and are given in base units here; a   *)
(* receipt line is in the unit it was bought in.  Zones, memos and events  *)
(* are left out.                                                           *)
(***************************************************************************)
EXTENDS Integers, Sequences, FiniteSets, Functions

CONSTANTS
  Txs,           \* HTTP requests, each one database transaction
  MaxOpen,       \* bound: how many transactions may be open at a time
  Products,
  Bins,
  BinType,       \* bins.bin_type of each bin
  Location,      \* the location of each bin's zone
  HandlingBins,  \* bins of the system zone HANDLING
  ReceivingBins, \* bins whose number is RECEIVING
  QuarantineBin, \* the HANDLING bin numbered QUARANTINE
  PutLines,      \* goods-receipt lines
  LineProduct,
  LineQty,       \* goods_received_lines.quantity_received
  LineRatio,     \* base units in the unit that line was bought in
  DockBin,       \* the RECEIVING bin of each line's receipt
  MatchedLines,  \* lines whose match_status is matched
  Stocktakes,    \* stocktakes that are open
  DocNumber,     \* PUT-<receipt>-<first 4 characters of the line's id>, or
                 \* ADJ-<number of the stocktake>
  InitialStock,  \* bin_contents before the first request
  Dtos,          \* the request bodies clients send
  AllowNegative, \* the allow_negative_inventory setting
  NoBin, NoLine, NoTotal  \* an optional field that is missing

Rows == Bins \X Products
Leg  == [row : Rows, qty : Int]

BinTypes == {"storage", "pick", "bulk", "staging", "quarantine", "in_transit",
             "wip", "project"}
Unchecked == {"wip", "in_transit", "staging"}
StocktakeStates == {"draft", "open", "review", "submitted", "cancelled"}
Statuses ==
  {"awaiting_matching", "pending_putaway", "quarantined", "completed"} \cup StocktakeStates

(* STOCKTAKE_TRANSITIONS. *)
StocktakeTransitions ==
  [draft |-> {"open", "cancelled"}, open |-> {"review", "draft", "cancelled"},
   review |-> {"open", "submitted", "cancelled"}, submitted |-> {}, cancelled |-> {"draft"}]

Docs == PutLines \cup Stocktakes  \* the documents whose status requests change

MoveLine == [product : Products, source : Bins, target : Bins, qty : Int]
MoveDto == [kind : {"move"}, lines : Seq(MoveLine)]
AdjustLine == [product : Products, bin : Bins, newQty : Int]
AdjustDto == [kind : {"adjust"}, lines : Seq(AdjustLine)]
PutawayLine == [line : PutLines, dest : Bins, qty : Int, newTotal : Int \cup {NoTotal}]
PutawayDto == [kind : {"putaway"}, lines : Seq(PutawayLine)]
QuarantineDto ==
  [kind : {"quarantine"}, line : PutLines \cup {NoLine}, product : Products,
   source : Bins \cup {NoBin}, target : Bins \cup {NoBin}, qty : Int]
StocktakeDto == [kind : {"stocktake"}, line : Stocktakes, lines : Seq(AdjustLine)]
StateDto == [kind : {"state"}, line : Stocktakes, to : StocktakeStates \ {"submitted"}]

(* What the model assumes of its parameters: the bodies have the shape the *)
(* DTO validators enforce.                                                 *)
ASSUME ShapeAssumption ==
  /\ BinType \in [Bins -> BinTypes]
  /\ DockBin \in [PutLines -> Bins]
  /\ QuarantineBin \in Bins
  /\ \A l \in PutLines : Location[DockBin[l]] = Location[QuarantineBin]
  /\ NoBin \notin Bins /\ NoLine \notin Docs /\ NoTotal \notin Int
  /\ LineProduct \in [PutLines -> Products]
  /\ LineQty \in [PutLines -> Int] /\ LineRatio \in [PutLines -> Int]
  /\ PutLines \cap Stocktakes = {}
  /\ InitialStock \in [Rows -> Int]
  /\ Dtos # {}
  /\ Dtos \subseteq MoveDto \cup AdjustDto \cup PutawayDto \cup QuarantineDto
                    \cup StocktakeDto \cup StateDto
  /\ \A d \in Dtos : d.kind \in {"move", "adjust", "putaway"} => d.lines # <<>>
  /\ AllowNegative \in BOOLEAN
  /\ MaxOpen \in Nat

VARIABLES
  \* Committed state: the tables.
  actual,        \* bin_contents.actual_quantity
  ledger,        \* SUM(inventory_ledger.quantity), the lines being append-only
  status,        \* goods_received_lines.putaway_status, stocktakes.state_code
  entryNumbers,  \* the PUT- and ADJ- numbers in inventory_entries (unique)
  shrinkage,     \* balance of the GL shrinkage account
  \* The program of each transaction.
  pc,            \* its next statement, or how it ended
  dto,           \* the request body
  item,          \* the putaway line being processed
  route,         \* source and target bin a line-based request resolved
  legs,          \* the lines handed to recordInventoryMovement
  todo,          \* the legs not yet upserted
  \* Its uncommitted writes, which are also its locks.
  holds,         \* bin_contents rows it has written
  mine,          \* their uncommitted quantities
  posted,        \* sum of its uncommitted ledger lines
  headers,       \* PUT- and ADJ- entry numbers it has inserted
  marks          \* document statuses it has locked or written

tables  == <<actual, ledger, status, entryNumbers, shrinkage>>
program == <<dto, item, route, legs, todo>>
writes  == <<holds, mine, posted, headers, marks>>
vars    == <<tables, pc, program, writes>>

Ended  == {"done", "refused", "duplicate", "deadlocked", "lost"}
Active == {"line", "stock", "header", "check", "upsert", "mark", "commit"}
NoMark == "none"
NoRoute == [source |-> NoBin, target |-> NoBin]

Init ==
  /\ actual = InitialStock
  /\ ledger = InitialStock
  /\ status = [d \in Docs |->
       IF d \in Stocktakes THEN "open"
       ELSE IF d \in MatchedLines THEN "pending_putaway" ELSE "awaiting_matching"]
  /\ entryNumbers = {}
  /\ shrinkage = 0
  /\ pc = [t \in Txs |-> "idle"]
  /\ dto = [t \in Txs |-> CHOOSE d \in Dtos : TRUE]
  /\ item = [t \in Txs |-> 1]
  /\ route = [t \in Txs |-> NoRoute]
  /\ legs = [t \in Txs |-> <<>>]
  /\ todo = [t \in Txs |-> {}]
  /\ holds = [t \in Txs |-> {}]
  /\ mine = [t \in Txs |-> [r \in Rows |-> 0]]
  /\ posted = [t \in Txs |-> [r \in Rows |-> 0]]
  /\ headers = [t \in Txs |-> {}]
  /\ marks = [t \in Txs |-> [d \in Docs |-> NoMark]]

(***************************************************************************)
(* What a statement of transaction t reads.                                *)
(***************************************************************************)
QtyAt(t, r) == IF r \in holds[t] THEN mine[t][r] ELSE actual[r]
StatusAt(t, d) == IF marks[t][d] = NoMark THEN status[d] ELSE marks[t][d]

Kind(t) == dto[t].kind
Document(t) ==
  IF Kind(t) = "putaway" THEN dto[t].lines[item[t]].line
  ELSE IF Kind(t) \in {"quarantine", "stocktake", "state"} THEN dto[t].line
  ELSE NoLine
(* Mutant: a putaway numbered at random, as moves and quarantines are. *)
EntryKeyRandom(t) == {}
EntryKey(t) ==
  IF Kind(t) \in {"putaway", "stocktake"} THEN {DocNumber[Document(t)]} ELSE {}

Goto(t, step) == pc' = [pc EXCEPT ![t] = step]

(* ROLLBACK: the writes vanish with their locks. *)
Abort(t, why) ==
  /\ Goto(t, why)
  /\ legs' = [legs EXCEPT ![t] = <<>>]
  /\ todo' = [todo EXCEPT ![t] = {}]
  /\ holds' = [holds EXCEPT ![t] = {}]
  /\ mine' = [mine EXCEPT ![t] = [r \in Rows |-> 0]]
  /\ posted' = [posted EXCEPT ![t] = [r \in Rows |-> 0]]
  /\ headers' = [headers EXCEPT ![t] = {}]
  /\ marks' = [marks EXCEPT ![t] = [d \in Docs |-> NoMark]]
  /\ route' = [route EXCEPT ![t] = NoRoute]
  /\ UNCHANGED <<tables, dto, item>>

(* A request arrives.  One that names a document first reads it. *)
Begin(t) ==
  /\ pc[t] = "idle"
  /\ Cardinality({u \in Txs : pc[u] \in Active}) < MaxOpen
  /\ \E d \in Dtos :
       /\ dto' = [dto EXCEPT ![t] = d]
       /\ \/ /\ \/ d.kind \in {"putaway", "stocktake", "state"}
                \/ d.kind = "quarantine" /\ d.line # NoLine
             /\ Goto(t, "line")
             /\ UNCHANGED route
          \/ /\ d.kind = "quarantine" /\ d.line = NoLine
             /\ Goto(t, "stock")
             /\ route' = [route EXCEPT ![t] = [source |-> d.source, target |-> d.target]]
          \/ /\ d.kind \in {"move", "adjust"}
             /\ Goto(t, "stock")
             /\ UNCHANGED route
  /\ UNCHANGED <<tables, item, legs, todo, writes>>

(***************************************************************************)
(* "line": read the document that a request names: a line to put away,     *)
(* whose bins it resolves, or a stocktake.                                 *)
(***************************************************************************)
StagedIn(t, l) == IF StatusAt(t, l) = "quarantined" THEN QuarantineBin ELSE DockBin[l]

LineRoute(t) ==
  LET l == Document(t) IN
  IF Kind(t) = "putaway"
  THEN [source |-> StagedIn(t, l), target |-> dto[t].lines[item[t]].dest]
  ELSE [source |-> IF dto[t].source # NoBin THEN dto[t].source ELSE StagedIn(t, l),
        target |-> IF dto[t].target # NoBin THEN dto[t].target
                   ELSE IF StatusAt(t, l) = "quarantined" THEN DockBin[l]
                   ELSE QuarantineBin]

(* Mutant: no test for a line that is already put away. *)
LineAcceptedAgain(t) ==
  Kind(t) = "putaway" =>
    /\ Document(t) \in MatchedLines
    /\ Location[LineRoute(t).target] = Location[DockBin[Document(t)]]

LineAccepted(t) ==
  LET l == Document(t) IN
  /\ StatusAt(t, l) # "completed"
  /\ Kind(t) = "putaway" =>
       /\ l \in MatchedLines
       /\ Location[LineRoute(t).target] = Location[DockBin[l]]

(* A stocktake is submitted from every state but two; changeState asks     *)
(* STOCKTAKE_TRANSITIONS.                                                  *)
Accepted(t) ==
  CASE Kind(t) = "stocktake" -> StatusAt(t, Document(t)) \notin {"submitted", "cancelled"}
    [] Kind(t) = "state" -> dto[t].to \in StocktakeTransitions[StatusAt(t, Document(t))]
    [] OTHER -> LineAccepted(t)

(* Who holds the row of the document, for an update or to the commit. *)
MarkBlockers(t) == {u \in Txs \ {t} : marks[u][Document(t)] # NoMark}

ReadLine(t) ==
  /\ pc[t] = "line" /\ Kind(t) \in {"putaway", "quarantine"}
  /\ Accepted(t)
  /\ route' = [route EXCEPT ![t] = LineRoute(t)]
  /\ Goto(t, "stock")
  /\ UNCHANGED <<tables, dto, item, legs, todo, writes>>

(* submitReconciliation: SELECT ... FOR UPDATE, which waits for the row. *)
RowFree(t) == Kind(t) = "stocktake" => MarkBlockers(t) = {}
LockStocktake(t) ==
  /\ pc[t] = "line" /\ Kind(t) = "stocktake"
  /\ RowFree(t) /\ Accepted(t)
  /\ marks' = [marks EXCEPT ![t][Document(t)] = StatusAt(t, Document(t))]
  /\ Goto(t, "stock")
  /\ UNCHANGED <<tables, program, holds, mine, posted, headers>>

(* changeState: a read that takes no lock, and then the update. *)
ReadStocktake(t) ==
  /\ pc[t] = "line" /\ Kind(t) = "state"
  /\ Accepted(t)
  /\ Goto(t, "mark")
  /\ UNCHANGED <<tables, program, writes>>

(***************************************************************************)
(* "stock": read bin_contents, validate the request, build the movement.   *)
(***************************************************************************)
Pair(p, from, to, q) ==
  <<[row |-> <<from, p>>, qty |-> -q], [row |-> <<to, p>>, qty |-> q]>>

(* Mutant: the largest negative line of a row instead of their sum. *)
DeductionLargest(s, r) ==
  LET taken == {-s[i].qty : i \in {j \in DOMAIN s : s[j].row = r}}
  IN CHOOSE q \in taken : \A x \in taken : x <= q

(* What the negative lines of a movement take from a row; the positive     *)
(* ones are not set off against them.                                      *)
Deduction(s, r) ==
  SumFunctionOnSet([i \in DOMAIN s |-> -s[i].qty],
                   {i \in DOMAIN s : s[i].row = r /\ s[i].qty < 0})

Covered(t, s, checked) ==
  \A i \in DOMAIN s :
    LET r == s[i].row IN
    s[i].qty < 0 /\ BinType[r[1]] \in checked => Deduction(s, r) <= QtyAt(t, r)

MoveLegs(lines) ==
  [k \in 1..(2 * Len(lines)) |->
     LET m == lines[(k + 1) \div 2] IN
     Pair(m.product, m.source, m.target, m.qty)[IF k % 2 = 1 THEN 1 ELSE 2]]

MoveAccepted(t, s) ==
  /\ \A i \in DOMAIN dto[t].lines :
       LET m == dto[t].lines[i] IN
       /\ Location[m.source] = Location[m.target]
       /\ m.target \notin HandlingBins
       /\ m.source \notin ReceivingBins
       /\ m.qty > 0
  /\ Covered(t, s, BinTypes)

AdjustLegs(t) ==
  [i \in DOMAIN dto[t].lines |->
     LET a == dto[t].lines[i] r == <<a.bin, a.product>> IN
     [row |-> r, qty |-> a.newQty - QtyAt(t, r)]]

(* Mutant: the number of the line moved as base units, and no correction. *)
PutawayLegsBare(t) ==
  LET p == dto[t].lines[item[t]]
  IN Pair(LineProduct[p.line], route[t].source, p.dest, p.qty)

(* A putaway moves dto.quantity, whatever the line's own quantity is, and  *)
(* corrects the destination when the operator counted it.  Every leg is    *)
(* converted from the line's unit when it is recorded, the correction too, *)
(* although the stock it was computed from is in base units.               *)
PutawayLegs(t) ==
  LET p == dto[t].lines[item[t]]
      dest == <<p.dest, LineProduct[p.line]>>
      counted == p.newTotal - (QtyAt(t, dest) + p.qty)
      pair == Pair(LineProduct[p.line], route[t].source, p.dest, p.qty * LineRatio[p.line])
  IN IF p.newTotal = NoTotal \/ counted = 0 THEN pair
     ELSE Append(pair, [row |-> dest, qty |-> counted * LineRatio[p.line]])

(* A quarantine moves the number that the line has, or the body, as base   *)
(* units.                                                                  *)
QuarantineQty(t) ==
  IF dto[t].qty = 0 /\ dto[t].line # NoLine THEN LineQty[dto[t].line] ELSE dto[t].qty

Unquarantining(t) == BinType[route[t].source] = "quarantine"

QuarantineTargets(t) ==
  IF route[t].target # NoBin THEN {route[t].target}
  ELSE IF Unquarantining(t) THEN {}
  ELSE {b \in Bins : BinType[b] = "quarantine" /\ Location[b] = Location[route[t].source]}

QuarantineAccepted(t, target) ==
  /\ QuarantineQty(t) > 0
  /\ Location[target] = Location[route[t].source]
  /\ Unquarantining(t) <=> BinType[target] # "quarantine"
  /\ QuarantineQty(t) <= QtyAt(t, <<route[t].source, dto[t].product>>)

(* With the stock written, the status of the document is.                  *)
AfterMovement(t) == IF Document(t) = NoLine THEN "commit" ELSE "mark"

(* adjustStock and the submission of a stocktake book the difference. *)
Adjusts(t) == Kind(t) \in {"adjust", "stocktake"}

(* The movements the request may make of what it reads now; empty when it  *)
(* is refused.                                                             *)
Movements(t) ==
  IF Kind(t) = "move" THEN {s \in {MoveLegs(dto[t].lines)} : MoveAccepted(t, s)}
  ELSE IF Adjusts(t) THEN {AdjustLegs(t)}
  ELSE IF Kind(t) = "putaway" THEN {PutawayLegs(t)}
  ELSE IF route[t].source = NoBin THEN {}
  ELSE {Pair(dto[t].product, route[t].source, b, QuarantineQty(t)) :
          b \in {q \in QuarantineTargets(t) : QuarantineAccepted(t, q)}}

(* Both drop the lines that change nothing, and with none left they record *)
(* no movement.                                                            *)
ReadStock(t) ==
  /\ pc[t] = "stock"
  /\ \E s \in Movements(t) :
       /\ legs' = [legs EXCEPT ![t] = s]
       /\ todo' = [todo EXCEPT ![t] =
                      {i \in DOMAIN s : Adjusts(t) => s[i].qty # 0}]
       /\ Goto(t, IF todo'[t] # {} THEN "header" ELSE AfterMovement(t))
  /\ UNCHANGED <<tables, dto, item, route, writes>>

(***************************************************************************)
(* recordInventoryMovement.                                                *)
(***************************************************************************)
(* The header's entry_number is unique: the insert waits for a transaction *)
(* that holds the same number and fails when the number is committed.      *)
HeaderBlockers(t) == {u \in Txs \ {t} : EntryKey(t) \cap headers[u] # {}}
HeaderTaken(t) == EntryKey(t) \cap (entryNumbers \cup headers[t]) # {}

InsertHeader(t) ==
  /\ pc[t] = "header"
  /\ HeaderBlockers(t) = {}
  /\ ~HeaderTaken(t)
  /\ headers' = [headers EXCEPT ![t] = @ \cup EntryKey(t)]
  /\ Goto(t, "check")
  /\ UNCHANGED <<tables, program, holds, mine, posted, marks>>

DuplicateHeader(t) ==
  /\ pc[t] = "header"
  /\ HeaderBlockers(t) = {}
  /\ HeaderTaken(t)
  /\ Abort(t, "duplicate")

(* validateNegativeInventory: reads bin_contents, locks nothing. *)
StockSuffices(t) == AllowNegative \/ Covered(t, legs[t], BinTypes \ Unchecked)

ValidateStock(t) ==
  /\ pc[t] = "check"
  /\ StockSuffices(t)
  /\ Goto(t, "upsert")
  /\ UNCHANGED <<tables, program, writes>>

(* One ledger line and the upsert of its bin_contents row: it waits for    *)
(* the row's lock and adds to the newest committed quantity.  The ledger   *)
(* line is inserted a statement earlier, which nobody can see.             *)
NextLeg(t) == CHOOSE i \in todo[t] : \A j \in todo[t] : i <= j
NextRow(t) == legs[t][NextLeg(t)].row
(* Mutant: the quantity read and written back without a row lock. *)
RowBlockersNone(t) == {}
RowBlockers(t) == {u \in Txs \ {t} : NextRow(t) \in holds[u]}

UpsertedQty(t) == QtyAt(t, NextRow(t)) + legs[t][NextLeg(t)].qty

Upsert(t) ==
  /\ pc[t] = "upsert"
  /\ RowBlockers(t) = {}
  /\ mine' = [mine EXCEPT ![t][NextRow(t)] = UpsertedQty(t)]
  /\ posted' = [posted EXCEPT ![t][NextRow(t)] = @ + legs[t][NextLeg(t)].qty]
  /\ holds' = [holds EXCEPT ![t] = @ \cup {NextRow(t)}]
  /\ todo' = [todo EXCEPT ![t] = @ \ {NextLeg(t)}]
  /\ IF todo'[t] # {} THEN UNCHANGED pc
     ELSE Goto(t, AfterMovement(t))
  /\ UNCHANGED <<tables, dto, item, route, legs, headers, marks>>

(***************************************************************************)
(* "mark": the status of the document, then the next line of a bulk        *)
(* putaway or the end.                                                     *)
(***************************************************************************)
(* Mutant: the bin's type written where its status belongs. *)
NewStatusBinType(t) ==
  BinType[IF route[t].target = NoBin THEN QuarantineBin ELSE route[t].target]

NewStatus(t) ==
  CASE Kind(t) = "putaway" ->
         IF BinType[route[t].target] = "quarantine" THEN "quarantined" ELSE "completed"
    [] Kind(t) = "stocktake" -> "submitted"
    [] Kind(t) = "state" -> dto[t].to
    [] OTHER -> IF Unquarantining(t) THEN "pending_putaway" ELSE "quarantined"

MarkLine(t) ==
  /\ pc[t] = "mark"
  /\ MarkBlockers(t) = {}
  /\ marks' = [marks EXCEPT ![t][Document(t)] = NewStatus(t)]
  /\ IF Kind(t) = "putaway" /\ item[t] < Len(dto[t].lines)
     THEN Goto(t, "line") /\ item' = [item EXCEPT ![t] = @ + 1]
     ELSE Goto(t, "commit") /\ UNCHANGED item
  /\ UNCHANGED <<tables, dto, route, legs, todo, holds, mine, posted, headers>>

(* Mutant: gains booked as losses. *)
ShrinkageUnsigned(t) ==
  IF Adjusts(t)
  THEN SumFunction([i \in DOMAIN legs[t] |->
                      IF legs[t][i].qty < 0 THEN -legs[t][i].qty ELSE legs[t][i].qty])
  ELSE 0

(* A manual adjustment and a stocktake also post the value they removed, at *)
(* cost, to the GL shrinkage account, in the same transaction.             *)
ShrinkageOf(t) ==
  IF Adjusts(t) THEN -SumFunction([i \in DOMAIN legs[t] |-> legs[t][i].qty]) ELSE 0

Commit(t) ==
  /\ pc[t] = "commit"
  /\ actual' = [r \in Rows |-> QtyAt(t, r)]
  /\ ledger' = [r \in Rows |-> ledger[r] + posted[t][r]]
  /\ status' = [d \in Docs |-> StatusAt(t, d)]
  /\ entryNumbers' = entryNumbers \cup headers[t]
  /\ shrinkage' = shrinkage + ShrinkageOf(t)
  /\ Goto(t, "done")
  /\ legs' = [legs EXCEPT ![t] = <<>>]
  /\ holds' = [holds EXCEPT ![t] = {}]
  /\ mine' = [mine EXCEPT ![t] = [r \in Rows |-> 0]]
  /\ posted' = [posted EXCEPT ![t] = [r \in Rows |-> 0]]
  /\ headers' = [headers EXCEPT ![t] = {}]
  /\ marks' = [marks EXCEPT ![t] = [d \in Docs |-> NoMark]]
  /\ route' = [route EXCEPT ![t] = NoRoute]
  /\ UNCHANGED <<dto, item, todo>>

(***************************************************************************)
(* The ways a transaction ends without committing.                         *)
(***************************************************************************)
Refuse(t) ==
  /\ \/ pc[t] = "line" /\ RowFree(t) /\ ~Accepted(t)
     \/ pc[t] = "stock" /\ Movements(t) = {}
     \/ pc[t] = "check" /\ ~StockSuffices(t)
  /\ Abort(t, "refused")

Waits(t, u) ==
  \/ pc[t] = "line" /\ ~RowFree(t) /\ u \in MarkBlockers(t)
  \/ pc[t] = "header" /\ u \in HeaderBlockers(t)
  \/ pc[t] = "upsert" /\ u \in RowBlockers(t)
  \/ pc[t] = "mark" /\ u \in MarkBlockers(t)

(* Mutant: nobody looks for cycles. *)
DeadlockedNever(t) == FALSE

(* Postgres aborts a transaction that waits in a cycle. *)
Deadlocked(t) ==
  \E S \in SUBSET Txs :
    /\ t \in S
    /\ \A u \in S : (\E v \in S : Waits(u, v)) /\ (\E v \in S : Waits(v, u))

ResolveDeadlock(t) == Deadlocked(t) /\ Abort(t, "deadlocked")

(* The connection or the API process dies. *)
Lose(t) == pc[t] \in Active /\ Abort(t, "lost")

Step(t) ==
  \/ ReadLine(t) \/ LockStocktake(t) \/ ReadStocktake(t) \/ ReadStock(t)
  \/ InsertHeader(t) \/ DuplicateHeader(t) \/ ValidateStock(t) \/ Upsert(t)
  \/ MarkLine(t) \/ Commit(t) \/ Refuse(t)

Next == \E t \in Txs : Begin(t) \/ Step(t) \/ ResolveDeadlock(t) \/ Lose(t)

(* Postgres and the event loop drive open transactions on: of the          *)
(* statements that can run, some does.  Nobody owes the API a request, and *)
(* nothing makes a connection fail.                                        *)
Fairness == WF_vars(\E t \in Txs : Step(t) \/ ResolveDeadlock(t))

Spec == Init /\ [][Next]_vars
FairSpec == Spec /\ Fairness

-------------------------------------------------------------------------------
(***************************************************************************)
(* Properties.                                                             *)
(***************************************************************************)
(* Every table cell and every field of a transaction has its type, and a   *)
(* transaction has read what its next statement needs.                     *)
TablesOK ==
  /\ actual \in [Rows -> Int]
  /\ ledger \in [Rows -> Int]
  /\ status \in [Docs -> Statuses]
ProgramOK ==
  /\ pc \in [Txs -> {"idle"} \cup Active \cup Ended]
  /\ dto \in [Txs -> Dtos]
  /\ item \in [Txs -> Nat \ {0}]
  /\ route \in [Txs -> [source : Bins \cup {NoBin}, target : Bins \cup {NoBin}]]
  /\ legs \in [Txs -> Seq(Leg)]
  /\ todo \in [Txs -> SUBSET Nat]
ProgressOK(t) ==
  /\ pc[t] = "idle" => item[t] = 1
  /\ Kind(t) = "putaway" => item[t] <= Len(dto[t].lines)
  /\ pc[t] = "line" => Document(t) # NoLine
  /\ pc[t] = "stock" =>
       Kind(t) # "state" /\ (Kind(t) = "putaway" => route[t].source # NoBin)
  /\ todo[t] \subseteq DOMAIN legs[t]
  /\ todo[t] # {} <=> pc[t] \in {"header", "check", "upsert"}
DocNumbers == {DocNumber[d] : d \in Docs}
WritesOK ==
  /\ headers \in [Txs -> SUBSET DocNumbers]
  /\ holds \in [Txs -> SUBSET Rows]
  /\ mine \in [Txs -> [Rows -> Int]]
  /\ posted \in [Txs -> [Rows -> Int]]
  /\ marks \in [Txs -> [Docs -> Statuses \cup {NoMark}]]
TypeOK == TablesOK /\ ProgramOK /\ (\A t \in Txs : ProgressOK(t)) /\ WritesOK

(* A row that was written is locked, by one transaction only, and the      *)
(* quantity it will commit is the committed one plus its own ledger lines: *)
(* the reason no update is lost.                                           *)
WritesAreLocked ==
  /\ \A t, u \in Txs : t # u => holds[t] \cap holds[u] = {}
  /\ \A t \in Txs, r \in Rows :
       /\ r \in holds[t] => mine[t][r] = actual[r] + posted[t][r]
       /\ r \notin holds[t] => posted[t][r] = 0

(* The fast cache bin_contents never drifts from the immutable ledger,     *)
(* whatever transactions interleave, abort or are lost.                    *)
CacheIsLedger == \A r \in Rows : actual[r] = ledger[r]

(* To its callers the engine is AtomicStock: a request adds to the stock   *)
(* in one step, whole or not at all, what its body asks for, although it   *)
(* runs as many statements among those of other requests.                  *)
Completed == {t \in Txs : pc[t] = "done"}
StagingBins == [l \in PutLines |-> {DockBin[l], QuarantineBin}]
Atomic == INSTANCE AtomicStock WITH
  Requests <- Txs, Bodies <- Dtos, Product <- LineProduct, Ratio <- LineRatio,
  Sources <- StagingBins,
  stock <- actual, writtenOff <- shrinkage, body <- dto, done <- Completed,
  reconciled <- {s \in Stocktakes : DocNumber[s] \in entryNumbers}
RequestsAreAtomic == Atomic!Spec

(* A receipt line is put away into stock by at most one request, also when *)
(* several operators confirm the same line at once.                        *)
Stocked(t) ==
  IF pc[t] = "done" /\ Kind(t) = "putaway"
  THEN {i \in DOMAIN dto[t].lines : BinType[dto[t].lines[i].dest] # "quarantine"}
  ELSE {}
CompletedOnce ==
  \A t, u \in Txs : \A i \in Stocked(t), j \in Stocked(u) :
    dto[t].lines[i].line = dto[u].lines[j].line => t = u /\ i = j

(* No transaction waits forever: requests that were started all end.       *)
RequestsFinish ==
  (\E t \in Txs : pc[t] \in Active) ~> \A t \in Txs : pc[t] \notin Active

(* With the setting off, no stocked bin goes below zero.                   *)
NoNegativeStock == \A r \in Rows : BinType[r[1]] \notin Unchecked => actual[r] >= 0

(* What waits on the dock or in quarantine is exactly the receipt lines    *)
(* whose status says so, bin by bin for a product that was only bought in  *)
(* its base unit.  A line bought in another unit is received and put away  *)
(* as so many base units but quarantined as its bare number, which leaves  *)
(* the dock and quarantine right only taken together.                      *)
StagedBins == ReceivingBins \cup {QuarantineBin}
LineStock == [l \in PutLines |-> LineQty[l] * LineRatio[l]]
StagedQty(b, p) ==
  SumFunctionOnSet(LineStock, {l \in PutLines :
    /\ LineProduct[l] = p
    /\ \/ status[l] \in {"awaiting_matching", "pending_putaway"} /\ DockBin[l] = b
       \/ status[l] = "quarantined" /\ QuarantineBin = b})
OtherStock(b, p) ==
  InitialStock[<<b, p>>] -
    SumFunctionOnSet(LineStock, {l \in PutLines : DockBin[l] = b /\ LineProduct[l] = p})
Unexplained(p) ==
  [b \in StagedBins |-> actual[<<b, p>>] - OtherStock(b, p) - StagedQty(b, p)]
InBaseUnit(p) == \A l \in PutLines : LineProduct[l] = p => LineRatio[l] = 1
LinesAccountForStagedStock ==
  \A p \in Products :
    /\ InBaseUnit(p) => \A b \in StagedBins : Unexplained(p)[b] = 0
    /\ SumFunction(Unexplained(p)) = 0

(* A line that was put away stays so, and so does a stocktake that was     *)
(* submitted.                                                              *)
CompletedIsFinal ==
  [][\A d \in Docs : status[d] \in {"completed", "submitted"} => status'[d] = status[d]]_vars
-------------------------------------------------------------------------------
(***************************************************************************)
(* What some of the properties rely on the callers for.                    *)
(***************************************************************************)
StockFinite == IsFiniteSet(Bins) /\ IsFiniteSet(Products)
(* The numbers of stocktakes are their own: ADJ- and a unique number.      *)
NumbersApart == \A s \in Stocktakes, d \in Docs : DocNumber[s] = DocNumber[d] => s = d

(* Only putaways and quarantines of whole receipt lines reach the bins     *)
(* where lines wait.  moveStock refuses to move anything into these bins   *)
(* or out of the receiving ones, but not out of quarantine.                *)
StagingLayout ==
  /\ IsFiniteSet(PutLines) /\ IsFiniteSet(StagedBins)
  /\ ReceivingBins \subseteq Bins \ {QuarantineBin}
  /\ StagedBins \subseteq HandlingBins
  /\ BinType[QuarantineBin] = "quarantine"
  /\ \A l \in PutLines : DockBin[l] \in ReceivingBins /\ BinType[DockBin[l]] # "quarantine"

WholeLine(p) ==
  /\ p.qty = LineQty[p.line]
  /\ p.dest \notin ReceivingBins
  /\ BinType[p.dest] = "quarantine" => p.dest = QuarantineBin /\ p.newTotal = NoTotal
WholeQuarantine(d) ==
  /\ d.product = LineProduct[d.line]
  /\ d.qty \in {0, LineQty[d.line]}
  /\ d.source = NoBin /\ d.target = NoBin
LooseQuarantine(d) ==
  \/ d.source = NoBin \/ d.qty <= 0
  \/ d.target # NoBin /\ d.source \notin StagedBins /\ d.target \notin StagedBins
StagedByLine ==
  \A d \in Dtos :
    /\ d.kind = "move" => \A i \in DOMAIN d.lines : d.lines[i].source # QuarantineBin
    /\ d.kind \in {"adjust", "stocktake"} => \A i \in DOMAIN d.lines : d.lines[i].bin \notin StagedBins
    /\ d.kind = "putaway" => \A i \in DOMAIN d.lines : WholeLine(d.lines[i])
    /\ d.kind = "quarantine" => IF d.line = NoLine THEN LooseQuarantine(d) ELSE WholeQuarantine(d)
===============================================================================
