---------------------------- MODULE MC_ActionServer ----------------------------
(* TLC instances of ActionServer: two overlapping requests, used again and again. *)
EXTENDS ActionServer, TLC
CONSTANTS S1, S2
Slots == {S1, S2}
Symmetry == Permutations(Slots)
===============================================================================
