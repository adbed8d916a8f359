----------------------------- MODULE MCPresence -----------------------------
(* Presence with two operators, one tab each.  One tick is a heartbeat       *)
(* interval, so the time to live is three ticks.                             *)
EXTENDS Presence

CONSTANTS a, b, pa, pb

MCUsers == {a, b}
MCPages == {pa, pb}
MCOwner == [p \in MCPages |-> IF p = pa THEN a ELSE b]
=============================================================================
