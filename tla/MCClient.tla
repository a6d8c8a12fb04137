------------------------------ MODULE MCClient ------------------------------
(* Instances of Client: a get of a graph with one target, or a starmap of   *)
(* two tasks in its place.                                                  *)
EXTENDS Client

CONSTANTS f1, f2, main, other

OneStarmap == {[kind |-> "starmap", futures |-> {f1, f2}]}
OneGet == {[kind |-> "get", futures |-> {f1, f2}, umbrella |-> f2]}
GetOrStarmap == OneGet \cup OneStarmap
=============================================================================
