------------------------------ MODULE MCScaling ------------------------------
(* Instances of Scaling for TLC: the manager "a" has room for MaxA workers  *)
(* and comes first in the waterfall; "b" has room for one, on a GPU host.   *)
EXTENDS Scaling

CONSTANTS MaxA, CapA

Gpu == {<<"gpu", -1>>}
MCKind == {Generic, Gpu}
MCMaxConcurrency == [m \in Manager |-> IF m = "a" THEN MaxA ELSE 1]
MCSlots == [m \in Manager |-> MCMaxConcurrency[m] + 1]
MCCaps == [m \in Manager |-> IF m = "a" THEN Generic ELSE Gpu]
MCRules == <<[id |-> "a", priority |-> 1, cap |-> CapA],
             [id |-> "b", priority |-> 2, cap |-> Omitted]>>

\* The worker that dies is one of "a", which has more than one; the manager that crashes is "b".
MCEvents == {<<"die", "a">>, <<"stop", "a">>, <<"crash", "b">>, <<"silence", "b">>, <<"shutdown">>}
=============================================================================
