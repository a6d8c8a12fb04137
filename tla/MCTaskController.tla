--------------------------- MODULE MCTaskController ---------------------------
(* Instances of TaskController for TLC.                                    *)
EXTENDS TaskController, TLC

CONSTANTS
    Capacity,       \* the queue size of every worker
    SpecialTask, SpecialWorker, \* under the capability policy only this worker can run this task
    Timeouts, Cancels, Disconnects, Rounds, Faults

MCQueueSize == [w \in Worker |-> Capacity]
MCCapable   == [t \in Task |-> Worker]
MCOneCapable == [t \in Task |-> IF t = SpecialTask THEN {SpecialWorker} ELSE Worker]
MCLimit     == [k \in Bounded |->
                  CASE k = "timeout" -> Timeouts [] k = "cancel" -> Cancels
                    [] k = "disconnect" -> Disconnects [] k = "round" -> Rounds
                    [] k = "fault" -> Faults]

AllTimers   == {"workerTimer", "clientTimer", "balanceTimer"}
NoBalancing == {"workerTimer", "clientTimer"}

Symmetry == Permutations(Task) \cup Permutations(Worker)
=============================================================================
