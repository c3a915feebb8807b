------------------------ MODULE MC_AnalyzerCoordinator ------------------------
(* TLC instances of AnalyzerCoordinator. *)
EXTENDS AnalyzerCoordinator
=============================================================================
