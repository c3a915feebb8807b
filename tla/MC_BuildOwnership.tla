-------------------------- MODULE MC_BuildOwnership --------------------------
(* TLC instances of BuildOwnership. *)
EXTENDS BuildOwnership
CONSTANTS P1, P2, P3, P4
Two == {P1, P2}
Four == {P1, P2, P3, P4}
Nobody == {}
===============================================================================
