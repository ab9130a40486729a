----------------------------- MODULE MCEmailRelay -----------------------------
(* Three mails, one of them of an entity, and polls that take two at most. *)
EXTENDS EmailRelay, TLC

CONSTANTS m1, m2, m3
===============================================================================
