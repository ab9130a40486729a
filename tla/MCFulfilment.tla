----------------------------- MODULE MCFulfilment -----------------------------
(* An order of two lines: two pieces of one product, one of another. *)
EXTENDS Fulfilment, TLC

CONSTANTS a, b, l1, l2, near, far

MCOrdered == [l \in Lines |-> IF l = l1 THEN 2 ELSE 1]
MCHome == [l \in Lines |-> near]
MCUnitCost == [l \in Lines |-> IF l = l1 THEN 1 ELSE 3]

PickOf(l, qty, c) == [kind |-> "pick", line |-> l, qty |-> qty, from |-> c]
UnpickOf(id) == [kind |-> "unpick", id |-> id]
ShipOf(n1, n2) == [kind |-> "ship", parts |-> [l \in Lines |-> IF l = l1 THEN n1 ELSE n2]]
UnshipOf(id) == [kind |-> "unship", id |-> id]

OrderRequests == {
  PickOf(l1, 2, near), PickOf(l2, 1, far), UnpickOf(1),
  ShipOf(1, 1), ShipOf(2, 0), ShipOf(0, 1), UnshipOf(1), UnshipOf(2)}
===============================================================================
