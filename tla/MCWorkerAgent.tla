---------------------------- MODULE MCWorkerAgent ----------------------------
(* Instances of WorkerAgent for TLC.                                       *)
EXTENDS WorkerAgent

CONSTANTS
    Urgent,         \* the tasks of the higher priority
    Deaths, Duplicates, Gentle, Force

MCPriority == [t \in Task |-> IF t \in Urgent THEN 1 ELSE 0]
MCLimit    == [k \in Bounded |->
                 CASE k = "death" -> Deaths [] k = "duplicate" -> Duplicates
                   [] k = "gentle" -> Gentle [] k = "force" -> Force]
=============================================================================
