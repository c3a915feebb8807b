-------------------------- MODULE MC_RouteApplication --------------------------
(* The TLC instance of RouteApplication: three versions of the sources; a   *)
(* file the routes are generated from, a file of the project the compiler   *)
(* does not list (its configuration), and an installed one.                *)
EXTENDS RouteApplication
CONSTANTS V1, V2, V3, Route, Config, Package
Versions == {V1, V2, V3}
Sources == {Route}
Owned == {Route, Config}
Listed == {Route, Package}
===============================================================================
