----------------------------- MODULE MCObjects -----------------------------
(* The instances of Objects. *)
EXTENDS Objects

CONSTANTS ser, none, c1, c2

ThreeIds == 1..3
=============================================================================
