-------------------------- MODULE MCGraphController --------------------------
(* Instances of GraphController for TLC. *)
EXTENDS GraphController, TLC

CONSTANTS a, b, c

ThreeNodes == {a, b, c}
\* b and c need the result of a
Shared     == (a :> {}) @@ (b :> {a}) @@ (c :> {a})

Bounds(cancels, disconnects, losses) ==
    [e \in Bounded |-> CASE e = "cancel" -> cancels [] e = "disconnect" -> disconnects [] e = "loss" -> losses]
OneCancel == Bounds(1, 0, 0)
OneOfEach == Bounds(1, 1, 1)
OneDisconnect == Bounds(0, 1, 0)
==============================================================================
