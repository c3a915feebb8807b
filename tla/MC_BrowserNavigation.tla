------------------------- MODULE MC_BrowserNavigation -------------------------
(* TLC instances of BrowserNavigation: one tab and two resources. *)
EXTENDS BrowserNavigation, TLC
CONSTANTS U1, U2
Urls == {U1, U2}
Symmetry == Permutations(Urls)
===============================================================================
