--------------------------- MODULE MCObjectStorage ---------------------------
(* Instances of ObjectStorage for TLC: a processor p, an agent a and the    *)
(* scheduler s.  The objects x and z are set by the agent, x is duplicated to *)
(* y by the scheduler; r is the result of the processor.  The three contents *)
(* have one length, so that nothing but the protocol keeps them apart.      *)
EXTENDS ObjectStorage

CONSTANTS store_r, set_x, set_z, get_y, get_y_again, copy_x, delete_x

Call(c, t, n, f) == [client |-> c, type |-> t, name |-> n, from |-> f]
MCWork ==
    [j \in Job |->
        CASE j = store_r                -> Call("p", "set", "r", "r")
          [] j = set_x                  -> Call("a", "set", "x", "x")
          [] j = set_z                  -> Call("a", "set", "z", "z")
          [] j \in {get_y, get_y_again} -> Call("a", "get", "y", "y")
          [] j = copy_x                 -> Call("s", "duplicate", "y", "x")
          [] j = delete_x               -> Call("s", "delete", "x", "x")]
MCContent == [x |-> "X", y |-> "X", z |-> "Z", r |-> "R"]
MCSize    == [d \in {"X", "Z", "R"} |-> 100]

\* The two equal calls can be exchanged.
Symmetry == Permutations({get_y, get_y_again})
=============================================================================
