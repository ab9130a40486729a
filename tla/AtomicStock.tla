------------------------------ MODULE AtomicStock ------------------------------
(***************************************************************************)
(* What the inventory engine promises to its callers, without statements,  *)
(* locks and transactions: a request takes effect in one step, whole or    *)
(* not at all, and adds to the stock exactly what its body asks for,       *)
(* whatever else happened since it arrived.  Only a manual adjustment and  *)
(* a stocktake change how much there is, and then the general ledger books *)
(* as much.  A stocktake changes the stock at most once, although it may   *)
(* be submitted again.                                                     *)
(***************************************************************************)
EXTENDS Integers, Sequences, Functions

CONSTANTS
  Requests, Bodies, Rows, Bins,
  Product,  \* of each goods-receipt line
  Ratio,    \* base units in the unit of each goods-receipt line
  Sources   \* the bins from which a line's goods can be put away

VARIABLES
  stock, writtenOff, body, done,
  reconciled  \* stocktakes whose counts have changed the stock

vars == <<stock, writtenOff, body, done, reconciled>>

Init ==
  /\ stock \in [Rows -> Int]
  /\ writtenOff = 0
  /\ DOMAIN body = Requests
  /\ done = {}
  /\ reconciled = {}

Arrive(t) ==
  /\ t \notin done
  /\ \E d \in Bodies : body' = [body EXCEPT ![t] = d]
  /\ UNCHANGED <<stock, writtenOff, done, reconciled>>

(* What moving q of product p between two bins does to row r. *)
Shift(r, p, from, to, q) ==
  (IF r = <<to, p>> THEN q ELSE 0) - (IF r = <<from, p>> THEN q ELSE 0)

Moves(lines, change) ==
  change = [r \in Rows |->
    SumFunction([i \in DOMAIN lines |->
      Shift(r, lines[i].product, lines[i].source, lines[i].target, lines[i].qty)])]

Counts(lines, change) ==
  \A r \in Rows :
    change[r] # 0 => \E i \in DOMAIN lines : r = <<lines[i].bin, lines[i].product>>

(* Each line of a bulk putaway leaves one of the bins it can be in; what a *)
(* destination that was counted ends at is not promised.                   *)
Counted(lines) ==
  {<<lines[i].dest, Product[lines[i].line]>> :
     i \in {j \in DOMAIN lines : lines[j].newTotal \in Int}}
PutsAway(lines, change) ==
  \E from \in [DOMAIN lines -> Bins] :
    /\ \A i \in DOMAIN lines : from[i] \in Sources[lines[i].line]
    /\ \A r \in Rows \ Counted(lines) : change[r] =
         SumFunction([i \in DOMAIN lines |->
           Shift(r, Product[lines[i].line], from[i], lines[i].dest,
                 lines[i].qty * Ratio[lines[i].line])])

Relocates(p, change) ==
  \E from, to \in Bins :
    change = [r \in Rows |-> Shift(r, p, from, to, change[<<to, p>>])]

Effect(d, change) ==
  \/ d.kind = "move" /\ Moves(d.lines, change)
  \/ d.kind = "adjust" /\ Counts(d.lines, change)
  \/ d.kind = "putaway" /\ PutsAway(d.lines, change)
  \/ d.kind = "quarantine" /\ Relocates(d.product, change)
  \/ d.kind = "stocktake" /\ Counts(d.lines, change)
  \/ d.kind = "state" /\ \A r \in Rows : change[r] = 0

Reconciles(d) ==
  /\ d.kind = "stocktake"
  /\ d.line \notin reconciled
  /\ reconciled' = reconciled \cup {d.line}

TakeEffect(t) ==
  LET change == [r \in Rows |-> stock'[r] - stock[r]]
  IN /\ t \notin done
     /\ done' = done \cup {t}
     /\ Effect(body[t], change)
     /\ \/ Reconciles(body[t])
        \/ /\ body[t].kind = "stocktake" => \A r \in Rows : change[r] = 0
           /\ UNCHANGED reconciled
     /\ writtenOff' =
          IF body[t].kind \in {"adjust", "stocktake"} THEN writtenOff - SumFunction(change)
          ELSE writtenOff
     /\ UNCHANGED body

Next == \E t \in Requests : Arrive(t) \/ TakeEffect(t)

Spec == Init /\ [][Next]_vars
===============================================================================
