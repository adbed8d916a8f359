------------------------------ MODULE MCStartUp ------------------------------
(* StartUp with the three migrations of the repository: 0002 and 0003 alter  *)
(* tables of 0001, which alone can run twice.  Two processes of the current   *)
(* build and one of a build that had only the first two.                      *)
EXTENDS StartUp

CONSTANTS old, new1, new2

MCProcesses == {old, new1, new2}
MCEmbedded == [p \in MCProcesses |-> IF p = old THEN 2 ELSE 3]
MCNeeds == <<{}, {1}, {1}>>
=============================================================================
