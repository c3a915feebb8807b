----------------------------- MODULE AtomicOutput -----------------------------
(***************************************************************************)
(* What a build promises about a project's production output: there is one *)
(* output, it is replaced as a whole or not at all, and once accepted it   *)
(* is never lost.  A project's first output appears provisionally: until   *)
(* it is accepted it may be withdrawn, and only then may it be damaged.    *)
(* New output is one generation, unless the emission that made it          *)
(* overlapped with an earlier one: then it may hold files of both.         *)
(***************************************************************************)
CONSTANTS Generation, Absent, Broken, Mixed
VARIABLES output, provisional,
          overlapped          \* set by the environment

Whole == Generation \cup {Mixed}
New == Generation \cup (IF overlapped THEN {Mixed} ELSE {})
Init == output \in Whole \cup {Absent} /\ provisional = FALSE

Appear == /\ output = Absent /\ ~provisional
          /\ output' \in New \cup {Broken} /\ provisional' = TRUE
Withdraw == provisional /\ output' = Absent /\ provisional' = FALSE
Accept == /\ provisional /\ output \in Whole
          /\ provisional' = FALSE /\ UNCHANGED output
Replace == /\ ~provisional /\ output \in Whole
           /\ output' \in New /\ UNCHANGED provisional

Next == Appear \/ Withdraw \/ Accept \/ Replace
Spec == Init /\ [][Next]_<<output, provisional>>
===============================================================================
