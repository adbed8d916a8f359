----------------------------- MODULE MCSessions -----------------------------
(* Sessions with one account, two devices and two concurrent requests. *)
EXTENDS Sessions

CONSTANTS u1, k1, k2, r1, r2

MCUsers == {u1}
MCTokens == {k1, k2}
MCRequests == {r1, r2}
=============================================================================
