----------------------------- MODULE EventDelivery -----------------------------
(***************************************************************************)
(* What the transactional outbox promises, without its queue, its locks    *)
(* and its crashes: an event exists once its transaction has committed; it *)
(* reaches the webhooks that subscribed to it, any number of times and     *)
(* nobody else; and it is marked processed only when all of them have it.  *)
(***************************************************************************)
CONSTANTS Events, Webhooks, Subscribed

VARIABLES
  emitted,   \* events whose transaction has committed
  received,  \* what each webhook has received
  processed  \* events marked processed

vars == <<emitted, received, processed>>

Init ==
  /\ emitted = {}
  /\ received = [w \in Webhooks |-> {}]
  /\ processed = {}

Emit(e) ==
  /\ e \notin emitted
  /\ emitted' = emitted \cup {e}
  /\ UNCHANGED <<received, processed>>

Deliver(e, w) ==
  /\ e \in emitted /\ w \in Subscribed[e]
  /\ received' = [received EXCEPT ![w] = @ \cup {e}]
  /\ UNCHANGED <<emitted, processed>>

Complete(e) ==
  /\ e \in emitted
  /\ \A w \in Subscribed[e] : e \in received[w]
  /\ processed' = processed \cup {e}
  /\ UNCHANGED <<emitted, received>>

(* The administrator clears rows. *)
Forget ==
  /\ processed' \subseteq processed
  /\ UNCHANGED <<emitted, received>>

Next ==
  \/ \E e \in Events : Emit(e) \/ Complete(e) \/ (\E w \in Webhooks : Deliver(e, w))
  \/ Forget

Spec == Init /\ [][Next]_vars
===============================================================================
