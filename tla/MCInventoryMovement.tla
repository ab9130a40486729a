-------------------------- MODULE MCInventoryMovement --------------------------
(* One warehouse with a dock, a quarantine bin and two shelves, receipt      *)
(* lines waiting on the dock, and a few request bodies.  Product p2 was      *)
(* bought by the pair.                                                       *)
EXTENDS InventoryMovement, TLC

CONSTANTS dock, quar, shelfA, shelfB, far, p1, p2, l1, l2, l3, l4, s1

MCBins == {dock, quar, shelfA, shelfB, far}
MCBinType == [b \in MCBins |->
  CASE b = dock -> "staging" [] b = quar -> "quarantine" [] OTHER -> "storage"]
MCLocation == [b \in MCBins |-> IF b = far THEN "remote" ELSE "main"]
MCProducts == {p1, p2}
MCLines == {l1, l2, l3, l4}
MCLineProduct == [l \in MCLines |-> IF l = l4 THEN p2 ELSE p1]
MCLineQty == [l \in MCLines |-> IF l = l1 THEN 2 ELSE 1]
MCLineRatio == [l \in MCLines |-> IF l = l4 THEN 2 ELSE 1]
MCDocNumber == [d \in MCLines \cup {s1} |-> d]
MCDock == [l \in MCLines |-> dock]
MCInitialStock == [r \in MCBins \X MCProducts |->
  IF r[2] = p2 THEN (CASE r[1] = dock -> 2 [] r[1] = quar -> 1 [] OTHER -> 0)
  ELSE (CASE r[1] = dock -> 4 [] r[1] = quar -> 0 [] r[1] = shelfA -> 2 [] OTHER -> 1)]

Moved(from, to, q) == [product |-> p1, source |-> from, target |-> to, qty |-> q]
Move(lines) == [kind |-> "move", lines |-> lines]
Counted(b, q) == [product |-> p1, bin |-> b, newQty |-> q]
Adjust(lines) == [kind |-> "adjust", lines |-> lines]
Put(l, b) == [line |-> l, dest |-> b, qty |-> MCLineQty[l], newTotal |-> NoTotal]
PutCounted(l, b, n) == [line |-> l, dest |-> b, qty |-> MCLineQty[l], newTotal |-> n]
Putaway(lines) == [kind |-> "putaway", lines |-> lines]
Toggle(l) == [kind |-> "quarantine", line |-> l, product |-> MCLineProduct[l],
              source |-> NoBin, target |-> NoBin, qty |-> 0]
Quarantine(from, to, q) == [kind |-> "quarantine", line |-> NoLine, product |-> p1,
              source |-> from, target |-> to, qty |-> q]

Stocktake(lines) == [kind |-> "stocktake", line |-> s1, lines |-> lines]
ChangeState(to) == [kind |-> "state", line |-> s1, to |-> to]

(* Requests whose transactions meet on the same rows in opposite orders.   *)
ConcurrentDtos == {
  Move(<<Moved(shelfB, shelfA, 1), Moved(shelfA, shelfB, 1)>>),
  Adjust(<<Counted(shelfB, 3), Counted(shelfA, 2)>>),
  Putaway(<<Put(l2, shelfB), Put(l1, shelfB)>>),
  Putaway(<<Put(l1, shelfB)>>),
  Toggle(l1),
  Stocktake(<<Counted(shelfA, 1)>>),
  Stocktake(<<Counted(shelfB, 2), Counted(shelfA, 2)>>),
  ChangeState("review")}

(* Requests of every form, one after the other: batches that draw twice on *)
(* one bin, counts that change nothing or fall below zero, lines sent      *)
(* twice, put into quarantine, taken out of it, not matched, or bought by  *)
(* the pair.                                                               *)
SerialDtos == {
  Move(<<Moved(shelfA, shelfB, 1), Moved(shelfA, shelfB, 1)>>),
  Move(<<Moved(shelfB, shelfA, 2)>>),
  Move(<<Moved(shelfA, far, 1)>>),
  Move(<<Moved(dock, shelfA, 1)>>),
  Move(<<Moved(shelfA, dock, 1)>>),
  Adjust(<<Counted(shelfA, 0), Counted(shelfB, 1)>>),
  Adjust(<<Counted(shelfB, 3)>>),
  Adjust(<<Counted(shelfB, -1)>>),
  Putaway(<<Put(l1, shelfA), Put(l2, shelfB)>>),
  Putaway(<<Put(l1, shelfA), Put(l1, shelfB)>>),
  Putaway(<<Put(l2, quar)>>),
  Putaway(<<Put(l2, shelfA)>>),
  Putaway(<<PutCounted(l1, shelfA, 3)>>),
  Putaway(<<PutCounted(l1, shelfB, 2)>>),
  Putaway(<<Put(l3, shelfA)>>),
  Putaway(<<PutCounted(l4, shelfB, 2)>>),
  Toggle(l1), Toggle(l2), Toggle(l4),
  Quarantine(shelfA, quar, 0),
  Quarantine(NoBin, quar, 1),
  Stocktake(<<Counted(shelfA, 1), Counted(shelfB, 1)>>),
  Stocktake(<<Counted(shelfB, 1)>>),
  ChangeState("review"), ChangeState("cancelled"), ChangeState("draft")}

(* Two withdrawals from one shelf that holds enough for either.            *)
OverdrawDtos == {Move(<<Moved(shelfA, shelfB, 2)>>), Adjust(<<Counted(shelfA, 0)>>)}

(* What the theorems assume holds of these requests. *)
ASSUME Apart == StockFinite /\ NumbersApart
ASSUME WholeLines == MaxOpen <= 1 => StagingLayout /\ StagedByLine
===============================================================================
