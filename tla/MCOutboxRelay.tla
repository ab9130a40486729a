----------------------------- MODULE MCOutboxRelay -----------------------------
(* Events of one type; every webhook takes e1, nobody takes the others.      *)
EXTENDS OutboxRelay

CONSTANTS e1, e2, w1, w2, invoiced

MCEventType == [e \in Events |-> invoiced]
MCSubscribed == [e \in Events |-> IF e = e1 THEN Webhooks ELSE {}]
===============================================================================
