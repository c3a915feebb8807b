------------------------ MODULE MC_DocumentResponse ------------------------
(* TLC instances of DocumentResponse. *)
EXTENDS DocumentResponse
CONSTANTS K1, K2, K3, R1, R2, R3, R4
Keys == {K1, K2, K3}
Readers == {R1, R2, R3, R4}
===============================================================================
