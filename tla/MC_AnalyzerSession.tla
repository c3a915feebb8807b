-------------------------- MODULE MC_AnalyzerSession --------------------------
(* TLC instances of AnalyzerSession: two documents and two graph nodes. *)
EXTENDS AnalyzerSession, TLC
CONSTANTS D1, D2, T1, T2
Docs == {D1, D2}
Texts == {T1, T2}
Node(owner, deps) == [owner |-> owner, deps |-> deps]
Asked == {<<Node(d, {})>> : d \in Docs} \cup {<<Node(d, {}), Node(e, deps)>> : <<d, e>> \in {p \in Docs \X Docs : p[1] # p[2]}, deps \in {{1}}}
Symmetry == Permutations(Docs) \cup Permutations(Texts)
===============================================================================
