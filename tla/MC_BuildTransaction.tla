------------------------- MODULE MC_BuildTransaction -------------------------
(* TLC instances of BuildTransaction. *)
EXTENDS BuildTransaction
CONSTANTS G1, G2
Generations == {G1, G2}
AllPlaces == Places
===============================================================================
