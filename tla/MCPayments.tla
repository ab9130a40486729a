------------------------------- MODULE MCPayments -------------------------------
(* Two payments that compete for one invoice, one of them foreign, a foreign *)
(* payment with a foreign invoice of its own at another rate, and p4, an id  *)
(* of no payment.                                                            *)
EXTENDS Payments, TLC

CONSTANTS a, b, p1, p2, p3, p4, d1, d2

MCPayTotal == [p \in Payments |-> IF p = p3 THEN 3 ELSE 2]
MCPayRate  == [p \in Payments |-> CASE p = p1 -> 2 [] p = p3 -> 3 [] OTHER -> 1]
MCInvTotal == [d \in Invoices |-> 3]
MCInvRate  == [d \in Invoices |-> IF d = d2 THEN 2 ELSE 1]
MCMaxDiscount == [d \in Invoices |-> 1]

Alloc(d, amount, discount) == [invoice |-> d, amount |-> amount, discount |-> discount]
Create(p, lines, submit) == [kind |-> "create", payment |-> p, lines |-> lines, submit |-> submit]
Allocate(p, lines) == [kind |-> "allocate", payment |-> p, lines |-> lines]
Submit(p) == [kind |-> "submit", payment |-> p]
Cancel(p) == [kind |-> "cancel", payment |-> p]
Discard(p) == [kind |-> "remove", payment |-> p]
Export(ps) == [kind |-> "export", payments |-> ps]
Reject(ps) == [kind |-> "reject", payments |-> ps]
Void(d) == [kind |-> "void", invoice |-> d]

(* p1 and p2 compete for d1, a draft with a late allocation; p1 is         *)
(* cancelled at its foreign rate; p3 is exported, and is allocated late    *)
(* with a discount.                                                        *)
DailyRequests == {
  Create(p1, <<>>, FALSE), Create(p2, <<>>, TRUE),
  Create(p3, <<Alloc(d2, 1, 0)>>, FALSE),
  Allocate(p1, <<Alloc(d1, 2, 0)>>),
  Allocate(p2, <<Alloc(d1, 2, 0)>>),
  Allocate(p3, <<Alloc(d2, 1, 1)>>),
  Submit(p1), Submit(p3), Cancel(p1), Discard(p1),
  Export(<<p4, p3>>), Reject(<<p3>>), Void(d1)}

(* A payment with a discount that is submitted and cancelled. *)
CancelRequests == {
  Create(p1, <<>>, FALSE), Allocate(p1, <<Alloc(d1, 2, 1)>>), Submit(p1), Cancel(p1),
  Create(p2, <<>>, TRUE), Allocate(p2, <<Alloc(d1, 2, 0)>>)}

(* What the theorems assume holds of the daily requests. *)
ASSUME WellBehaved ==
  Requests = DailyRequests => CancelsUndiscounted /\ PromisesTested
===============================================================================
