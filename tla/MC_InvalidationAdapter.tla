----------------------- MODULE MC_InvalidationAdapter -----------------------
(* TLC instances of InvalidationAdapter: short paths, more than the hint     *)
(* limit, and one whose bytes alone pass the byte limit.                     *)
EXTENDS InvalidationAdapter
CONSTANTS A, B, C, Long, Raw, Dotted
Paths == {A, B, C, Long}
Spellings == {Raw, Dotted}
Sizes == [p \in Paths |-> IF p = Long THEN 4 ELSE 1]
===============================================================================
