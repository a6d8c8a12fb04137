----------------------------- MODULE WorkerAgent -----------------------------
(***************************************************************************)
(* The agent of a worker: VanillaTaskManager and VanillaProcessorManager,  *)
(* the heartbeat's look at the processors, and the processors themselves.  *)
(*                                                                         *)
(* The agent is one asyncio event loop.  Its coroutines are the receiver   *)
(* of the scheduler's messages, the receiver of the processors' messages,  *)
(* the heartbeat and the task loop.  A handler runs to its end in one      *)
(* step, with two exceptions that yield: the task loop, which waits for    *)
(* _can_accept_task_lock and then for the queue, and on_failing_processor, *)
(* which stores the failure before it reports it.  An exception in any of  *)
(* them ends the agent (create_async_loop_routine re-raises).              *)
(***************************************************************************)
EXTENDS Integers, Sequences, FiniteSets

CONSTANTS
    Task,           \* task ids
    NoTask,         \* None
    Priority,       \* Priority[t]: the priority in the flags of task t
    MaxProcs,       \* bound: processors that exist at the same time
    Fragile,        \* the phases in which a process may die
    Forcible,       \* the tasks that a client cancels by force
    Limit           \* bounds: how often each environment event may happen

Proc    == 1..MaxProcs
NoProc  == 0
Phase   == {"free", "starting", "idle", "busy", "dead"}
Bounded == {"death", "duplicate", "gentle", "force"}

ASSUME NoTaskAssumption   == NoTask \notin Task /\ "init" \notin Task
ASSUME PriorityAssumption == Priority \in [Task -> Nat]
ASSUME ProcsAssumption    == MaxProcs \in Nat \ {0}
ASSUME FragileAssumption  == Fragile \subseteq {"starting", "idle", "busy"}
ASSUME ForcibleAssumption == Forcible \subseteq Task
ASSUME AgentLimitAssumption == Limit \in [Bounded -> Nat]

VARIABLES
    up,          \* FALSE once an exception ended the agent
    entries,     \* _queued_task_ids, in the order of the insertions
    payload,     \* the keys of _queued_task_id_to_task
    processing,  \* _processing_task_ids
    current,     \* _current_holder
    suspended,   \* suspended[t]: _suspended_holders_by_task_id
    initialized, \* the holders in _holders_by_processor_id
    htask,       \* htask[p]: the task of the holder p
    locked,      \* _can_accept_task_lock
    looping,     \* where the task loop awaits: "lock", "queue" or "storing"
    storing,     \* storing[c]: the task whose failure coroutine c is storing
    process,     \* process[p]: the phase of the OS process
    channel,     \* channel[p]: messages of p the agent has not received
    known,       \* known[t]: "new", "held", "returned" or "ended", as the scheduler sees t
    sent,        \* what was sent to the scheduler
    budget       \* how many more of each Bounded event may happen

queue    == <<entries, payload>>
holders  == <<current, suspended, initialized, htask>>
waits    == <<locked, looping, storing>>
os       == <<process, channel>>
outside  == <<known, sent>>
vars     == <<up, queue, processing, holders, waits, os, outside, budget>>

(* initialize() takes the lock before the task loop asks for it.           *)
Init ==
    /\ up = TRUE
    /\ entries = <<>> /\ payload = {} /\ processing = {}
    /\ current = NoProc
    /\ suspended = [t \in Task |-> NoProc]
    /\ initialized = {}
    /\ htask = [p \in Proc |-> NoTask]
    /\ locked = TRUE /\ looping = "lock"
    /\ storing = [c \in {"heartbeat", "loop"} |-> NoTask]
    /\ process = [p \in Proc |-> "free"]
    /\ channel = [p \in Proc |-> <<>>]
    /\ known = [t \in Task |-> "new"]
    /\ sent = <<>>
    /\ budget = Limit

-----------------------------------------------------------------------------
(* The queue: __enqueue_task and the StablePriorityQueue.                  *)

Entry(t, isSuspended) == [task |-> t, suspended |-> isSuspended]

QueuePriority(e) == -(Priority[e.task] * 10 + (IF e.suspended THEN 1 ELSE 0))

(* get: the lowest key, the oldest of equal keys.                          *)
IsHead(q, i) ==
    \A j \in DOMAIN q :
        \/ QueuePriority(q[i]) < QueuePriority(q[j])
        \/ QueuePriority(q[i]) = QueuePriority(q[j]) /\ i <= j

Drop(q, i) == [j \in 1..(Len(q) - 1) |-> IF j < i THEN q[j] ELSE q[j + 1]]

(* remove: the locator knows the latest entry of a task.                   *)
Remove(t) ==
    /\ \E i \in DOMAIN entries :
          /\ entries[i].task = t
          /\ \A j \in DOMAIN entries : entries[j].task = t => j <= i
          /\ entries' = Drop(entries, i)
    /\ payload' = payload \ {t}

-----------------------------------------------------------------------------
(* Helpers                                                                 *)

CurrentTask == IF current = NoProc THEN NoTask ELSE htask[current]

(* A process whose messages are all received and that nobody refers to.    *)
Unused ==
    {p \in Proc : /\ process[p] = "free" /\ channel[p] = <<>>
                  /\ p # current}

Spend(kind) ==
    /\ budget[kind] > 0
    /\ budget' = [budget EXCEPT ![kind] = @ - 1]

Send(kind, t) == sent' = Append(sent, [kind |-> kind, task |-> t])

(* An exception: the agent tears down, and nothing it keeps matters.       *)
Raise ==
    /\ up' = FALSE
    /\ UNCHANGED <<queue, processing, holders, waits, process, sent>>

(* __start_new_processor, after the process of victim (if any) was killed. *)
StartNewProcessor(victim) ==
    \E new \in Unused :
        /\ \A p \in Unused : new <= p
        /\ current' = new
        /\ initialized' = initialized \ {victim}
        /\ htask' = [p \in Proc |-> IF p = victim THEN NoTask ELSE htask[p]]
        /\ process' = [p \in Proc |-> CASE p = victim -> "free" [] p = new -> "starting"
                                        [] OTHER -> process[p]]

KillProcessor(p) ==
    /\ initialized' = initialized \ {p}
    /\ htask' = [htask EXCEPT ![p] = NoTask]
    /\ process' = [process EXCEPT ![p] = "free"]

-----------------------------------------------------------------------------
(* Messages of the scheduler.                                              *)

Initialize ==
    /\ up /\ current = NoProc
    /\ StartNewProcessor(NoProc)
    /\ UNCHANGED <<up, queue, processing, suspended, waits, channel, outside, budget>>

(* on_suspend_task: the process waits, a new processor takes over.         *)
OnSuspendTask(t) ==
    /\ suspended' = [suspended EXCEPT ![t] = current]
    /\ StartNewProcessor(NoProc)

(* on_task_new with __suspend_if_priority_is_higher.                       *)
OnTaskNew(t) ==
    /\ IF CurrentTask = NoTask \/ Priority[t] <= Priority[CurrentTask]
       THEN /\ entries' = Append(entries, Entry(t, FALSE))
            /\ payload' = payload \cup {t}
            /\ UNCHANGED <<holders, process>>
       ELSE /\ entries' = entries \o <<Entry(t, FALSE), Entry(CurrentTask, TRUE)>>
            /\ payload' = payload \cup {t, CurrentTask}
            /\ OnSuspendTask(CurrentTask)
    /\ UNCHANGED <<up, processing, waits, channel, sent>>

(* The scheduler sends a task it has not sent before or got back, and, if  *)
(* it took the worker for dead meanwhile, one that the worker still holds. *)
ReceiveTask(t) ==
    /\ up
    /\ \/ known[t] \in {"new", "returned"} /\ UNCHANGED budget
       \/ known[t] = "held" /\ Spend("duplicate")
    /\ known' = [known EXCEPT ![t] = "held"]
    /\ OnTaskNew(t)

(* ProcessorManager.on_cancel_task *)
OnCancelProcessing(t) ==
    CASE CurrentTask = t ->
            StartNewProcessor(current) /\ UNCHANGED suspended
      [] CurrentTask # t /\ suspended[t] # NoProc ->
            /\ KillProcessor(suspended[t])
            /\ suspended' = [suspended EXCEPT ![t] = NoProc]
            /\ UNCHANGED current
      [] OTHER -> UNCHANGED <<holders, process>>

(* The mutant forgets the force flag: a running task is always given up.   *)
OnCancelTask_IgnoresForce(t, force) ==
    /\ t \in processing
    /\ processing' = processing \ {t}
    /\ OnCancelProcessing(t)
    /\ Send("canceled", t)
    /\ UNCHANGED <<up, queue, waits>>

(* TaskManager.on_cancel_task *)
OnCancelTask(t, force) ==
    /\ CASE t \notin processing /\ t \notin payload ->
              /\ Send("cancelNotFound", t)
              /\ UNCHANGED <<queue, processing, holders, process>>
         [] t \in processing /\ ~ force ->
              /\ Send("cancelFailed", t)
              /\ UNCHANGED <<queue, processing, holders, process>>
         [] t \in processing /\ force ->
              /\ processing' = processing \ {t}
              /\ OnCancelProcessing(t)
              /\ Send("canceled", t)
              /\ UNCHANGED queue
         [] OTHER ->
              /\ Remove(t)
              /\ Send("canceled", t)
              /\ UNCHANGED <<processing, holders, process>>
    /\ UNCHANGED <<up, waits>>

ReceiveCancel(t, force) ==
    /\ up
    /\ known[t] # "new"
    /\ force => t \in Forcible
    /\ Spend(IF force THEN "force" ELSE "gentle")
    /\ OnCancelTask(t, force)
    /\ known' = IF sent'[Len(sent')].kind = "canceled"
                THEN [known EXCEPT ![t] = IF force THEN "ended" ELSE "returned"]
                ELSE known
    /\ UNCHANGED channel

-----------------------------------------------------------------------------
(* Messages of the processors.                                             *)

(* TaskManager.on_task_result; the set's remove raises on a task that is   *)
(* not in it.                                                              *)
TaskManagerResult(t) ==
    /\ IF t \in payload
       THEN Remove(t)
       ELSE UNCHANGED queue
    /\ processing' = processing \ {t}
    /\ Send("result", t)

(* The mutant forgets to release the lock.                                 *)
OnProcessorInitialized_KeepsLock(p) ==
    /\ initialized' = initialized \cup {current}
    /\ UNCHANGED <<up, queue, processing, current, suspended, htask, waits, process, sent>>

(* on_processor_initialized takes the sender for the current holder.       *)
OnProcessorInitialized(p) ==
    IF current \in initialized
    THEN UNCHANGED <<up, queue, processing, holders, waits, process, sent>>
    ELSE IF ~ locked THEN Raise
    ELSE /\ initialized' = initialized \cup {current}
         /\ locked' = FALSE
         /\ UNCHANGED <<up, queue, processing, current, suspended, htask,
                        looping, storing, process, sent>>

(* The mutant releases the lock for a task that was suspended, too.        *)
OnTaskResult_ReleasesAlways(p, t) ==
    IF CurrentTask = t
    THEN /\ htask' = [htask EXCEPT ![p] = NoTask] /\ locked' = FALSE
         /\ TaskManagerResult(t)
         /\ UNCHANGED <<up, current, suspended, initialized, looping, storing, process>>
    ELSE IF suspended[t] # NoProc
    THEN /\ KillProcessor(suspended[t]) /\ locked' = FALSE
         /\ suspended' = [suspended EXCEPT ![t] = NoProc]
         /\ TaskManagerResult(t)
         /\ UNCHANGED <<up, current, looping, storing>>
    ELSE UNCHANGED <<up, queue, processing, holders, waits, process, sent>>

(* ProcessorManager.on_task_result: from the current processor, from one   *)
(* that was being suspended, or from one that is no more.                  *)
OnTaskResult(p, t) ==
    CASE CurrentTask = t ->
            IF current # p \/ ~ locked \/ t \notin processing THEN Raise
            ELSE /\ htask' = [htask EXCEPT ![current] = NoTask]
                 /\ TaskManagerResult(t)
                 /\ locked' = FALSE
                 /\ UNCHANGED <<up, current, suspended, initialized, looping, storing, process>>
      [] CurrentTask # t /\ suspended[t] # NoProc ->
            IF suspended[t] # p \/ t \notin processing THEN Raise
            ELSE /\ KillProcessor(p)
                 /\ suspended' = [suspended EXCEPT ![t] = NoProc]
                 /\ TaskManagerResult(t)
                 /\ UNCHANGED <<up, current, waits>>
      [] OTHER -> UNCHANGED <<up, queue, processing, holders, waits, process, sent>>

(* A result ends the task for the scheduler, whoever sends it.             *)
Ended == known' = [t \in Task |-> IF sent' # sent /\ sent'[Len(sent')].task = t
                                  THEN "ended" ELSE known[t]]

ReceiveFromProcessor(p) ==
    /\ up
    /\ channel[p] # <<>>
    /\ channel' = [channel EXCEPT ![p] = Tail(@)]
    /\ LET m == Head(channel[p])
       IN  IF m = "init" THEN OnProcessorInitialized(p) ELSE OnTaskResult(p, m)
    /\ Ended
    /\ UNCHANGED budget

-----------------------------------------------------------------------------
(* The heartbeat and the failure path.                                     *)

(* The mutant restarts the current processor whoever died.                 *)
OnFailingProcessor_RestartsCurrent(c, p) ==
    /\ suspended' = [u \in Task |-> IF u = htask[p] THEN NoProc ELSE suspended[u]]
    /\ StartNewProcessor(p)
    /\ storing' = [storing EXCEPT ![c] = htask[p]]

(* on_failing_processor up to the storage: the dead holder p loses its     *)
(* task, is replaced if it is the current one, and is killed.              *)
OnFailingProcessor(c, p) ==
    LET t == htask[p] IN
    /\ suspended' = [u \in Task |-> IF u = t THEN NoProc ELSE suspended[u]]
    /\ IF p = current THEN StartNewProcessor(p) ELSE KillProcessor(p) /\ UNCHANGED current
    /\ storing' = [storing EXCEPT ![c] = t]

(* The mutant only restarts the processor and forgets its task.            *)
DetectDeath_ForgetsTask(p) ==
    /\ up
    /\ storing["heartbeat"] = NoTask
    /\ p \in initialized /\ process[p] = "dead"
    /\ suspended' = [u \in Task |-> IF u = htask[p] THEN NoProc ELSE suspended[u]]
    /\ IF p = current THEN StartNewProcessor(p) ELSE KillProcessor(p) /\ UNCHANGED current
    /\ UNCHANGED <<up, queue, processing, waits, channel, outside, budget>>

(* The heartbeat's routine finds a zombie among the initialized holders.   *)
DetectDeath(p) ==
    /\ up
    /\ storing["heartbeat"] = NoTask
    /\ p \in initialized /\ process[p] = "dead"
    /\ OnFailingProcessor("heartbeat", p)
    /\ UNCHANGED <<up, queue, processing, locked, looping, channel, outside, budget>>

(* The mutant forgets the task before it reports it.                       *)
FailureStored_Resets(c) ==
    /\ up
    /\ storing[c] # NoTask
    /\ storing' = [storing EXCEPT ![c] = NoTask]
    /\ Send("result", storing'[c])
    /\ UNCHANGED <<up, queue, processing, holders, locked, looping, os, known, budget>>

(* The failure is stored: report it.  After a failed resume the task loop  *)
(* then releases the lock.                                                 *)
FailureStored(c) ==
    /\ up
    /\ storing[c] # NoTask
    /\ IF storing[c] \notin processing \/ (c = "loop" /\ ~ locked) THEN Raise
       ELSE /\ TaskManagerResult(storing[c])
            /\ storing' = [storing EXCEPT ![c] = NoTask]
            /\ locked' = IF c = "loop" THEN FALSE ELSE locked
            /\ looping' = IF c = "loop" THEN "lock" ELSE looping
            /\ UNCHANGED <<up, holders, process>>
    /\ Ended
    /\ UNCHANGED <<channel, budget>>

-----------------------------------------------------------------------------
(* The task loop: __processing_task.                                       *)

WaitUntilCanAcceptTask ==
    /\ up
    /\ looping = "lock" /\ ~ locked
    /\ locked' = TRUE /\ looping' = "queue"
    /\ UNCHANGED <<up, queue, processing, holders, storing, os, outside, budget>>

(* ProcessorManager.on_task; a task sent to a dead process is lost.        *)
OnTask(t) ==
    /\ processing' = processing \cup {t}
    /\ htask' = [htask EXCEPT ![current] = t]
    /\ process' = IF process[current] = "idle" THEN [process EXCEPT ![current] = "busy"]
                                               ELSE process
    /\ looping' = "lock"
    /\ UNCHANGED <<current, suspended, initialized, locked, storing>>

(* The mutant resumes without giving up the processor that is current.     *)
OnResumeTask_KeepsCurrent(t) ==
    /\ looping' = "lock"
    /\ current' = IF suspended[t] = NoProc THEN current ELSE suspended[t]
    /\ UNCHANGED <<processing, suspended, initialized, htask, process, locked, storing>>

(* ProcessorManager.on_resume_task *)
OnResumeTask(t) ==
    LET s == suspended[t] IN
    /\ UNCHANGED processing
    /\ CASE CurrentTask # NoTask \/ s = NoProc ->
              /\ looping' = "lock"
              /\ UNCHANGED <<holders, process, locked, storing>>
         [] CurrentTask = NoTask /\ s # NoProc /\ process[s] = "dead" ->
              /\ OnFailingProcessor("loop", s)
              /\ looping' = "storing"
              /\ UNCHANGED locked
         [] OTHER ->
              /\ KillProcessor(current)
              /\ current' = s
              /\ suspended' = [suspended EXCEPT ![t] = NoProc]
              /\ looping' = "lock"
              /\ UNCHANGED <<locked, storing>>

Ready == locked /\ current \in initialized

(* The mutant takes the oldest task, whatever its priority.                *)
TakeTask_Oldest ==
    LET t == entries[1].task IN
    /\ up
    /\ looping = "queue" /\ entries # <<>>
    /\ entries' = Tail(entries) /\ payload' = payload \ {t}
    /\ IF t \in processing THEN OnResumeTask(t) ELSE OnTask(t)
    /\ UNCHANGED <<up, channel, outside, budget>>

TakeTask ==
    /\ up
    /\ looping = "queue"
    /\ \E i \in DOMAIN entries :
          LET t == entries[i].task IN
          /\ IsHead(entries, i)
          /\ IF t \notin payload \/ ~ Ready \/ (t \notin processing /\ CurrentTask # NoTask)
             THEN Raise
             ELSE /\ entries' = Drop(entries, i)
                  /\ payload' = payload \ {t}
                  /\ IF t \in processing THEN OnResumeTask(t) ELSE OnTask(t)
                  /\ UNCHANGED <<up, sent>>
    /\ UNCHANGED <<channel, known, budget>>

-----------------------------------------------------------------------------
(* The processes.                                                          *)

Boot(p) ==
    /\ process[p] = "starting"
    /\ process' = [process EXCEPT ![p] = "idle"]
    /\ channel' = [channel EXCEPT ![p] = Append(@, "init")]
    /\ UNCHANGED <<up, queue, processing, holders, waits, outside, budget>>

(* A process that is being suspended may still get its result out.         *)
Finish(p) ==
    /\ process[p] = "busy"
    /\ process' = [process EXCEPT ![p] = "idle"]
    /\ channel' = [channel EXCEPT ![p] = Append(@, htask[p])]
    /\ UNCHANGED <<up, queue, processing, holders, waits, outside, budget>>

Die(p) ==
    /\ process[p] \in Fragile
    /\ Spend("death")
    /\ process' = [process EXCEPT ![p] = "dead"]
    /\ UNCHANGED <<up, queue, processing, holders, waits, channel, outside>>

-----------------------------------------------------------------------------
Agent ==
    \/ Initialize
    \/ \E p \in Proc : ReceiveFromProcessor(p) \/ DetectDeath(p)
    \/ \E c \in {"heartbeat", "loop"} : FailureStored(c)
    \/ WaitUntilCanAcceptTask
    \/ TakeTask

Environment ==
    \/ \E t \in Task : ReceiveTask(t) \/ \E force \in BOOLEAN : ReceiveCancel(t, force)
    \/ \E p \in Proc : Boot(p) \/ Finish(p) \/ Die(p)

(* The agent waits for the scheduler, or it has ended.                     *)
Quiet ==
    /\ ~ up \/ \A t \in Task : known[t] # "held"
    /\ UNCHANGED vars

Next == Agent \/ (up /\ Environment) \/ Quiet

Spec == Init /\ [][Next]_vars

(* asyncio resumes what is ready, the heartbeat looks at every processor   *)
(* and a process that is not suspended works on.                           *)
Fairness ==
    /\ WF_vars(Initialize) /\ WF_vars(WaitUntilCanAcceptTask) /\ WF_vars(TakeTask)
    /\ \A c \in {"heartbeat", "loop"} : WF_vars(FailureStored(c))
    /\ \A p \in Proc :
          /\ WF_vars(ReceiveFromProcessor(p))
          /\ WF_vars(DetectDeath(p))
          /\ WF_vars(up /\ Boot(p))
          /\ WF_vars(up /\ p = current /\ Finish(p))

FairSpec == Spec /\ Fairness
-----------------------------------------------------------------------------
(* Properties *)

TypeOK ==
    /\ up \in BOOLEAN /\ locked \in BOOLEAN
    /\ entries \in Seq([task : Task, suspended : BOOLEAN])
    /\ payload \subseteq Task /\ processing \subseteq Task
    /\ current \in Proc \cup {NoProc}
    /\ suspended \in [Task -> Proc \cup {NoProc}]
    /\ initialized \subseteq Proc
    /\ htask \in [Proc -> Task \cup {NoTask}]
    /\ looping \in {"lock", "queue", "storing"}
    /\ storing \in [{"heartbeat", "loop"} -> Task \cup {NoTask}]
    /\ process \in [Proc -> Phase]
    /\ channel \in [Proc -> Seq(Task \cup {"init"})]
    /\ known \in [Task -> {"new", "held", "returned", "ended"}]
    /\ sent \in Seq([kind : {"result", "canceled", "cancelFailed", "cancelNotFound"},
                     task : Task])
    /\ budget \in [Bounded -> Nat]

(* The lock is taken for exactly one reason: the current processor is      *)
(* starting, it works on a task, or the task loop holds it.  A lock taken  *)
(* for no reason is never released; one released too early lets the loop   *)
(* send a second task to a busy processor.                                 *)
LockSound ==
    LET starting == current \notin initialized
        busy     == CurrentTask # NoTask
        looped   == looping # "lock"
    IN  /\ locked <=> starting \/ busy \/ looped
        /\ looped => ~ starting /\ ~ busy

(* No task waits behind one of a lower priority that is running.           *)
PriorityRespected ==
    CurrentTask # NoTask =>
        \A i \in DOMAIN entries : Priority[entries[i].task] <= Priority[CurrentTask]

(* A suspended task is both processing and queued, and its processor works *)
(* on it and is not the current one.  So the queue is at least as long as  *)
(* the suspended processors are many, as the heartbeat asserts.            *)
SuspendedIsQueued ==
    /\ \A t \in Task : suspended[t] # NoProc =>
          /\ t \in processing \cap payload
          /\ htask[suspended[t]] = t
          /\ suspended[t] # current
    /\ Cardinality({t \in Task : suspended[t] # NoProc}) <= Len(entries)

(* on_processor_initialized never looks at the sender: the ProcessorInitialized *)
(* it receives is from the current holder, which waits for it.             *)
InitializedIsCurrent ==
    up => \A p \in Proc : (\E i \in DOMAIN channel[p] : channel[p][i] = "init") =>
              p = current /\ p \notin initialized

(* No process is left behind: each is the current or a suspended one.      *)
NoAbandonedProcess ==
    \A p \in Proc : process[p] # "free" =>
        p = current \/ \E t \in Task : suspended[t] = p

(* A task in processing is the current one, suspended, or its failure is   *)
(* being stored; and no such task is missing from the set.                 *)
ProcessingHeld ==
    up => processing = {t \in Task : \/ CurrentTask = t
                                     \/ suspended[t] # NoProc
                                     \/ \E c \in DOMAIN storing : storing[c] = t}

(* The books of the processors are sound: suspended tasks are queued, the  *)
(* agent knows who initializes, leaves no process behind and knows which   *)
(* tasks are in processing.                                                *)
ProcessorsSound ==
    TypeOK /\ SuspendedIsQueued /\ InitializedIsCurrent /\ NoAbandonedProcess /\ ProcessingHeld

(* The agent does what TaskController takes a worker to do.                *)
Holds ==
    [t \in Task |-> CASE up /\ t \in processing -> "processing"
                     [] up /\ t \in payload \ processing -> "queued"
                     [] OTHER -> "absent"]

Contract == INSTANCE WorkerContract WITH holds <- Holds

ImplementsContract == Contract!Spec

(* Every task sent to the agent is answered: by a result or as canceled.   *)
EveryTaskAnswered == \A t \in Task : known[t] = "held" ~> known[t] # "held"

-----------------------------------------------------------------------------
(* What the code's assertions, tests and protocol claim and the code does  *)
(* not keep.                                                               *)

(* on_task and on_resume_task assert that the lock is locked and that the  *)
(* current processor is initialized, which wait_until_can_accept_task      *)
(* "makes sure": it holds whenever the task loop takes an entry.           *)
ProcessorReady == up /\ looping = "queue" /\ entries # <<>> => Ready

(* TaskCancelConfirmType.canceled: "if cancel success".                    *)
CanceledNeverRuns ==
    \A p \in Proc : process[p] = "busy" => known[htask[p]] # "ended"
=============================================================================
