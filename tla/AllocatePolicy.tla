---------------------------- MODULE AllocatePolicy ----------------------------
(***************************************************************************)
(* The allocation policies of the scheduler, as operators on one value, the *)
(* policy's books:                                                         *)
(*                                                                         *)
(*   registered  the workers that add_worker has entered                   *)
(*   queue[w]    the tasks counted against the queue of worker w           *)
(*   holder[t]   the worker that task t is mapped to, or NoWorker          *)
(*                                                                         *)
(* queue and holder are two dictionaries of the code, updated separately;  *)
(* nothing here forces them to agree.  A call of a policy is atomic in the *)
(* scheduler (no await), so every operator maps books to books.            *)
(*                                                                         *)
(* The even_load policy keeps the workers in a priority queue keyed by the *)
(* number of their tasks; equal keys are left to chance here.  The         *)
(* capability policy takes min() over a set, whose order is chance too.    *)
(***************************************************************************)
EXTENDS Integers, FiniteSets

CONSTANTS
    Task,           \* task ids
    Worker,         \* worker ids
    NoWorker,       \* WorkerID.invalid_worker_id()
    QueueSize,      \* QueueSize[w]: the queueSize worker w reports in its heartbeat
    Policy,         \* "even_load" or "capability"
    Capable         \* Capable[t]: the workers that offer every capability task t asks for

ASSUME WorkerAssumption   == NoWorker \notin Worker
ASSUME PolicyAssumption   == Policy \in {"even_load", "capability"}
ASSUME QueueAssumption    == QueueSize \in [Worker -> Nat \ {0}]
ASSUME CapableAssumption  == Capable \in [Task -> SUBSET Worker]

Books == [registered : SUBSET Worker,
          queue      : [Worker -> SUBSET Task],
          holder     : [Task -> Worker \cup {NoWorker}]]

NoBooks == [registered |-> {},
            queue      |-> [w \in Worker |-> {}],
            holder     |-> [t \in Task |-> NoWorker]]

Load(b, w) == Cardinality(b.queue[w])

-----------------------------------------------------------------------------
(* add_worker: a worker that is already registered is left alone.          *)
AddWorker(b, w) ==
    IF w \in b.registered THEN b
    ELSE [b EXCEPT !.registered = @ \cup {w}, !.queue[w] = {}]

(* The mutant takes a full queue for one with room.                        *)
Candidates_OffByOne(b, t) ==
    {w \in b.registered \cap Capable[t] : Load(b, w) <= QueueSize[w]}

(* The workers assign_task chooses among.  even_load looks at all of them  *)
(* and only then at the room of the one it took from the queue; capability *)
(* filters by capability and by room first.                                *)
Candidates(b, t) ==
    IF Policy = "even_load" THEN b.registered
    ELSE {w \in b.registered \cap Capable[t] : Load(b, w) < QueueSize[w]}

LeastLoaded(b, S) == {w \in S : \A v \in S : Load(b, w) <= Load(b, v)}

(* The mutant places a task again that is already placed.                  *)
AssignTask_Again(b, t) ==
    IF Candidates(b, t) = {} THEN {NoWorker}
    ELSE {IF Policy = "even_load" /\ Load(b, w) = QueueSize[w] THEN NoWorker ELSE w :
            w \in LeastLoaded(b, Candidates(b, t))}

(* assign_task: every worker the call can return, NoWorker for the invalid *)
(* id.  even_load answers a task that is already mapped with its worker;   *)
(* capability places it again.                                             *)
AssignTask(b, t) ==
    IF Policy = "even_load" /\ b.holder[t] # NoWorker THEN {b.holder[t]}
    ELSE IF Candidates(b, t) = {} THEN {NoWorker}
    ELSE {IF Policy = "even_load" /\ Load(b, w) = QueueSize[w] THEN NoWorker ELSE w :
            w \in LeastLoaded(b, Candidates(b, t))}

(* What assign_task writes when it returns the worker w.                   *)
Assigned(b, t, w) ==
    [b EXCEPT !.holder[t] = w, !.queue[w] = @ \cup {t}]

(* remove_task: the task leaves the queue of the worker it is mapped to.   *)
RemoveTask(b, t) ==
    IF b.holder[t] = NoWorker THEN b
    ELSE [b EXCEPT !.holder[t] = NoWorker,
                   !.queue[b.holder[t]] = @ \ {t}]

(* remove_worker pops the mapping of every task in the worker's queue; a   *)
(* task in the queue without a mapping makes that pop raise KeyError.      *)
RemoveWorkerRaises(b, w) ==
    \E t \in b.queue[w] : b.holder[t] = NoWorker

(* The books after remove_worker popped the mappings of the tasks popped:  *)
(* all of the queue, or the ones before the KeyError.                      *)
WithoutWorker(b, w, popped) ==
    [registered |-> b.registered \ {w},
     queue      |-> [b.queue EXCEPT ![w] = {}],
     holder     |-> [t \in Task |-> IF t \in popped THEN NoWorker ELSE b.holder[t]]]

(* balance() of either policy does nothing unless a worker is idle.        *)
HasIdleWorkers(b) == \E w \in b.registered : b.queue[w] = {}

(* Neither policy takes the last task of a worker: even_load counts all but *)
(* one, capability takes from workers above a target of at least one.      *)
LeavesOne(b, advice) ==
    \A w \in b.registered : b.queue[w] = {} \/ ~ (b.queue[w] \subseteq advice)

(* What balance() may advise to take back.  How many tasks of which worker *)
(* the policies pick is left open: any advice within these limits.         *)
BalanceAdvice(b) ==
    IF ~ HasIdleWorkers(b) THEN {}
    ELSE {advice \in SUBSET UNION {b.queue[w] : w \in b.registered} :
            advice # {} /\ LeavesOne(b, advice)}
=============================================================================
