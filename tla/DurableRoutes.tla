----------------------------- MODULE DurableRoutes -----------------------------
(***************************************************************************)
(* What a refresh promises about a project's generated routes: it asks for *)
(* one version and then either that version is the durable one, or the     *)
(* durable one is what it was; a failed or interrupted refresh, whatever   *)
(* it had replaced by then, leaves no trace that a restart would keep.     *)
(***************************************************************************)
CONSTANTS Version, Absent
VARIABLES routes, asked

Init == routes \in Version \cup {Absent} /\ asked = Absent

Ask == asked = Absent /\ asked' \in Version /\ UNCHANGED routes
Succeed == asked # Absent /\ routes' = asked /\ asked' = Absent
Fail == asked # Absent /\ asked' = Absent /\ UNCHANGED routes

Next == Ask \/ Succeed \/ Fail
Spec == Init /\ [][Next]_<<routes, asked>>
===============================================================================
