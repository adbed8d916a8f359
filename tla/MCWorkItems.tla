---------------------------- MODULE MCWorkItems ----------------------------
(* WorkItems on two tickets, one operator and one asset. *)
EXTENDS WorkItems, TLC

CONSTANTS i1, i2, u1, x1

MCItems == {i1, i2}
MCStaff == {u1}
MCAssets == {x1}
MCCodes == {7, 8}
MCSymmetry == Permutations(MCItems)
=============================================================================
