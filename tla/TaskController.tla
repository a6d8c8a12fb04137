---------------------------- MODULE TaskController ----------------------------
(***************************************************************************)
(* The life of tasks in the scheduler: VanillaTaskController with the parts *)
(* of the worker, client and balance controllers that drive it.            *)
(*                                                                         *)
(* The scheduler is one asyncio event loop with four coroutines that reach *)
(* the router (__route): the binder, which handles one message at a time,  *)
(* and the timers that disconnect silent workers, disconnect silent        *)
(* clients and balance the load.  Control passes between them only where   *)
(* an await really yields: while a lock is acquired, while the HasCapacity *)
(* children of __retry_unassignable run under asyncio.gather (the parent   *)
(* keeps its task's lock and has not committed yet), and while the storage *)
(* is written on the fault path.  Sends are detached and never yield.      *)
(*                                                                         *)
(* A worker is modelled by what WorkerContract promises, which WorkerAgent *)
(* implements: each task is absent, queued or being processed.  A message  *)
(* to a worker takes effect when it is sent and the answers wait in a FIFO *)
(* outbox: a delay on the way there and a delay on the way back cannot be  *)
(* told apart by the scheduler.                                            *)
(***************************************************************************)
EXTENDS AllocatePolicy, Sequences

CONSTANTS
    Results,        \* the result types workers report
    Timers,         \* the timers that are not switched off by the configuration
    Mortal,         \* the workers that may crash or leave
    Limit           \* bounds: how often each environment event may happen

ResultType  == {"success", "failed", "failedWorkerDied"}
LiveState   == {"inactive", "running", "canceling", "balanceCanceling"}
Terminal    == ResultType \cup {"canceled", "canceledNotFound"}
TaskState   == {"new"} \cup LiveState \cup Terminal
Coroutine   == {"binder", "workerTimer", "clientTimer", "balanceTimer"}
Bounded     == {"timeout", "cancel", "disconnect", "round", "fault"}

ASSUME ResultsAssumption  == Results \subseteq ResultType
ASSUME TimersAssumption   == Timers \subseteq Coroutine \ {"binder"}
ASSUME MortalAssumption   == Mortal \subseteq Worker
ASSUME LimitAssumption    == Limit \in [Bounded -> Nat]
ASSUME NamesAssumption    == Task \cap (Coroutine \cup {"none"}) = {}

WorkerReported == {"TaskResultReceived", "CancelConfirmCanceled",
                   "CancelConfirmFailed", "CancelConfirmNotFound"}
EventKind == WorkerReported \cup {"HasCapacity", "TaskCancelRequested",
                                  "BalanceCancelRequested", "WorkerDisconnected"}

(* arg is the result type of a result and the force flag of a cancel.      *)
Event ==
    [kind : {"TaskResultReceived"}, task : Task, worker : Worker, arg : ResultType]
    \cup
    [kind : EventKind \ {"TaskResultReceived"}, task : Task,
     worker : Worker \cup {NoWorker}, arg : {"force", "gentle", "none"}]

NewEvent(k, t, w, a) == [kind |-> k, task |-> t, worker |-> w, arg |-> a]

Grant   == [task : Task, worker : Worker, by : Task \cup {"binder"}]

(* A transition that awaits with its task's lock held: where it will       *)
(* commit to, and the coroutine or the parent transition that awaits it.   *)
Transit    == [target : Terminal \cup {"reporting", "none"},
               by     : Task \cup Coroutine \cup {"none"}]
NoTransit  == [target |-> "none", by |-> "none"]

VARIABLES
    books,      \* the allocation policy's books
    state,      \* state[t]: the state machine; it exists while state[t] is a LiveState
    owned,      \* the tasks in _client_to_task_ids
    told,       \* told[t]: what the client was sent about t; "absent" answers a cancel too late
    unassigned, \* the queue of tasks on hold
    alive,      \* the workers in _worker_alive_since
    dead,       \* what is left of the list __clean_workers computed
    connecting, \* the worker whose first heartbeat awaits on_worker_connect
    calls,      \* calls[c]: the events coroutine c still has to route, one after the other
    grants,     \* the HasCapacity children that asyncio.gather is running
    transit,    \* transit[t]: the transition of t that awaits with the lock held
    life,       \* life[w]: "up", "leaving" (its notification is on the way) or "gone"
    wtask,      \* wtask[w][t]: what worker w does with task t
    outbox,     \* outbox[w]: the reports of w that the binder has not received
    budget      \* how many more of each Bounded event may happen

loop     == <<calls, grants, transit>>
task     == <<state, owned, told, unassigned>>
presence == <<alive, dead, connecting>>
worker   == <<life, wtask, outbox>>
vars     == <<books, task, presence, loop, worker, budget>>

Init ==
    /\ books = NoBooks
    /\ state = [t \in Task |-> "new"]
    /\ owned = {}
    /\ told = [t \in Task |-> <<>>]
    /\ unassigned = <<>>
    /\ alive = {} /\ dead = {} /\ connecting = NoWorker
    /\ calls = [c \in Coroutine |-> {}]
    /\ grants = {}
    /\ transit = [t \in Task |-> NoTransit]
    /\ life = [w \in Worker |-> "up"]
    /\ wtask = [w \in Worker |-> [t \in Task |-> "absent"]]
    /\ outbox = [w \in Worker |-> <<>>]
    /\ budget = Limit

-----------------------------------------------------------------------------
(* Helpers                                                                 *)

InQueue(t, u) == \E i \in DOMAIN u : u[i] = t

(* deque.remove: the first occurrence of t goes.                           *)
Without(u, t) ==
    IF InQueue(t, u)
    THEN LET i == CHOOSE i \in DOMAIN u : u[i] = t
         IN  [j \in 1..(Len(u) - 1) |-> IF j < i THEN u[j] ELSE u[j + 1]]
    ELSE u

Awaiting(x) ==
    \/ \E g \in grants : g.by = x
    \/ \E t \in Task : transit[t].by = x

Idle(c) ==
    /\ calls[c] = {}
    /\ ~ Awaiting(c)
    /\ c = "workerTimer" => dead = {}
    /\ c = "binder" => connecting = NoWorker

(* The mutant routes without the lock.                                     *)
LockAvailable_Unlocked(e) == TRUE

(* No transition of the task awaits with its lock held.  on_task_new asks  *)
(* for the lock of its new machine before any other event of that task     *)
(* exists, so its HasCapacity is first in line.                            *)
LockAvailable(e) ==
    /\ transit[e.task] = NoTransit
    /\ \/ e.kind = "HasCapacity"
       \/ ~ \E d \in calls["binder"] : d.kind = "HasCapacity" /\ d.task = e.task

Spend(kind) ==
    /\ budget[kind] > 0
    /\ budget' = [budget EXCEPT ![kind] = @ - 1]

(* A task sent to a worker is queued there; a worker that is gone loses it. *)
SendTaskToWorker(w, t) ==
    /\ wtask' = IF life[w] = "up" /\ wtask[w][t] = "absent"
                THEN [wtask EXCEPT ![w][t] = "queued"] ELSE wtask
    /\ UNCHANGED outbox

(* How a worker answers a cancel: VanillaTaskManager.on_cancel_task.       *)
CancelAnswer(w, t, force) ==
    CASE wtask[w][t] = "absent" -> "CancelConfirmNotFound"
      [] wtask[w][t] = "processing" /\ force # "force" -> "CancelConfirmFailed"
      [] OTHER -> "CancelConfirmCanceled"

SendTaskCancelToWorker(w, t, force) ==
    LET answer == CancelAnswer(w, t, force) IN
    IF life[w] # "up" THEN UNCHANGED <<wtask, outbox>>
    ELSE /\ wtask' = IF answer = "CancelConfirmCanceled"
                     THEN [wtask EXCEPT ![w][t] = "absent"] ELSE wtask
         /\ outbox' = [outbox EXCEPT ![w] = Append(@, NewEvent(answer, t, w, "none"))]

-----------------------------------------------------------------------------
(* __acquire_workers: from the head of the queue, until a task gets none.  *)

(* The books after the first i tasks of the queue u went to f[1] .. f[i].  *)
Granted(b, u, f, i) ==
    [registered |-> b.registered,
     queue  |-> [w \in Worker |-> b.queue[w] \cup {u[j] : j \in {j \in 1..i : f[j] = w}}],
     holder |-> [t \in Task |->
                   IF \E j \in 1..i : u[j] = t
                   THEN f[CHOOSE j \in 1..i : u[j] = t] ELSE b.holder[t]]]

AcquireWorkers(b, u, f, k) ==
    /\ \A i \in 1..k : f[i] \in AssignTask(Granted(b, u, f, i - 1), u[i])
    /\ k < Len(u) => NoWorker \in AssignTask(Granted(b, u, f, k), u[k + 1])

(* The mutant takes a task off the queue before it knows of a worker.      *)
RetryUnassignable_PopsFirst(by, rest, b, u) ==
    \E k \in 0..Len(u) : \E f \in [1..k -> Worker] :
        /\ AcquireWorkers(b, u, f, k)
        /\ books' = Granted(b, u, f, k)
        /\ unassigned' = IF k < Len(u) THEN SubSeq(u, k + 2, Len(u)) ELSE <<>>
        /\ grants' = rest \cup {[task |-> u[i], worker |-> f[i], by |-> by] : i \in 1..k}

(* The mutant looks at the head of the queue and never takes it off.       *)
RetryUnassignable_Peeks(by, rest, b, u) ==
    \E k \in 0..Len(u) : \E f \in [1..k -> Worker] :
        /\ AcquireWorkers(b, u, f, k)
        /\ books' = Granted(b, u, f, k)
        /\ unassigned' = u
        /\ grants' = rest \cup {[task |-> u[i], worker |-> f[i], by |-> by] : i \in 1..k}

(* __retry_unassignable up to its gather: by is who awaits the children,   *)
(* rest the children of other gathers.                                     *)
RetryUnassignable(by, rest, b, u) ==
    \E k \in 0..Len(u) : \E f \in [1..k -> Worker] :
        /\ AcquireWorkers(b, u, f, k)
        /\ books' = Granted(b, u, f, k)
        /\ unassigned' = SubSeq(u, k + 1, Len(u))
        /\ grants' = rest \cup {[task |-> u[i], worker |-> f[i], by |-> by] : i \in 1..k}

GathersNext(x) == \E g \in grants' : g.by = x

Tell(t, reply) == told' = [told EXCEPT ![t] = Append(@, reply)]

(* The end of every terminal arm: __send_task_result_to_client and         *)
(* __send_task_cancel_confirm_to_client.  The client is told, the capacity *)
(* goes to tasks on hold, and only then does the router commit.            *)
SettleFor(owners, by, rest, t, outcome, b, u) ==
    /\ owned' = owners \ {t}
    /\ IF t \in owners THEN Tell(t, outcome) ELSE UNCHANGED told
    /\ RetryUnassignable(t, rest, b, u)
    /\ IF GathersNext(t)
       THEN /\ transit' = [transit EXCEPT ![t] = [target |-> outcome, by |-> by]]
            /\ UNCHANGED state
       ELSE /\ state' = [state EXCEPT ![t] = outcome]
            /\ UNCHANGED transit
    /\ UNCHANGED <<wtask, outbox>>

Settle(by, rest, t, outcome, b, u) == SettleFor(owned, by, rest, t, outcome, b, u)

(* __acquire_and_dispatch *)
AcquireAndDispatch(rest, t, b) ==
    \E w \in AssignTask(b, t) :
        /\ IF w = NoWorker
           THEN /\ unassigned' = Append(unassigned, t)
                /\ books' = b
                /\ state' = [state EXCEPT ![t] = "inactive"]
                /\ UNCHANGED <<wtask, outbox>>
           ELSE /\ books' = Assigned(b, t, w)
                /\ state' = [state EXCEPT ![t] = "running"]
                /\ SendTaskToWorker(w, t)
                /\ UNCHANGED unassigned
        /\ grants' = rest
        /\ UNCHANGED <<owned, told, transit>>

Become(rest, t, s) ==
    /\ state' = [state EXCEPT ![t] = s]
    /\ grants' = rest
    /\ UNCHANGED <<books, told, unassigned, transit>>

(* An event that is dropped, refused by its arm, or not from the holder.   *)
Refuse(rest) ==
    /\ grants' = rest
    /\ UNCHANGED <<books, state, owned, told, unassigned, transit, wtask, outbox>>

-----------------------------------------------------------------------------
(* The arms of the router.  by is the coroutine or the parent transition   *)
(* that awaits this one.                                                   *)

OnHasCapacity(rest, e) ==
    IF state[e.task] = "inactive"
    THEN /\ SendTaskToWorker(e.worker, e.task)
         /\ Become(rest, e.task, "running")
         /\ UNCHANGED owned
    ELSE Refuse(rest)

\* Mutant: the granted task keeps its worker.
OnTaskCancel_KeepsWorker(by, rest, e) ==
    LET t == e.task IN
    IF state[t] = "inactive"
    THEN Settle(by, rest, t, "canceled", books, Without(unassigned, t))
    ELSE Refuse(rest)

OnTaskCancel(by, rest, e) ==
    LET t == e.task
        h == books.holder[t]
    IN
    CASE state[t] = "inactive" ->
            IF InQueue(t, unassigned)
            THEN Settle(by, rest, t, "canceled", books, Without(unassigned, t))
            ELSE Settle(by, rest, t, "canceled", RemoveTask(books, t), unassigned)
      [] state[t] = "running" /\ h # NoWorker ->
            /\ owned' = owned \cup {t}
            /\ SendTaskCancelToWorker(h, t, e.arg)
            /\ Become(rest, t, "canceling")
      [] state[t] = "running" /\ h = NoWorker ->
            SettleFor(owned \cup {t}, by, rest, t, "canceledNotFound", books, unassigned)
      [] state[t] = "balanceCanceling" ->
            Become(rest, t, "canceling") /\ UNCHANGED <<owned, wtask, outbox>>
      [] OTHER -> Refuse(rest)

OnBalanceTaskCancel(rest, e) ==
    LET t == e.task
        h == books.holder[t]
    IN
    IF state[t] = "running" /\ h # NoWorker
    THEN /\ SendTaskCancelToWorker(h, t, "gentle")
         /\ Become(rest, t, "balanceCanceling")
         /\ UNCHANGED owned
    ELSE Refuse(rest)

(* The mutant puts a task whose worker died on hold again while the result *)
(* is passed on.                                                           *)
OnTaskResult_Requeues(by, rest, e) ==
    IF state[e.task] \in {"running", "balanceCanceling"}
    THEN Settle(by, rest, e.task, e.arg, RemoveTask(books, e.task),
                Append(unassigned, e.task))
    ELSE Refuse(rest)

OnTaskResult(by, rest, e) ==
    IF state[e.task] \in {"running", "balanceCanceling"}
    THEN Settle(by, rest, e.task, e.arg, RemoveTask(books, e.task), unassigned)
    ELSE Refuse(rest)

(* __on_cancel_confirm_canceled and __on_cancel_confirm_not_found differ   *)
(* in the outcome they tell the client.                                    *)
OnCancelConfirm(by, rest, e, outcome) ==
    LET released == RemoveTask(books, e.task) IN
    CASE state[e.task] = "canceling" ->
            Settle(by, rest, e.task, outcome, released, unassigned)
      [] state[e.task] = "balanceCanceling" ->
            AcquireAndDispatch(rest, e.task, released)
      [] OTHER -> Refuse(rest)

(* The mutant takes a refused balance cancel for a confirmed one.          *)
OnCancelConfirmFailed_Reroutes(rest, e) ==
    IF state[e.task] = "balanceCanceling"
    THEN AcquireAndDispatch(rest, e.task, RemoveTask(books, e.task))
    ELSE Refuse(rest)

OnCancelConfirmFailed(rest, e) ==
    IF state[e.task] \in {"canceling", "balanceCanceling"}
    THEN Become(rest, e.task, "running") /\ UNCHANGED <<owned, wtask, outbox>>
    ELSE Refuse(rest)

OnWorkerDisconnect(by, rest, e) ==
    CASE state[e.task] \in {"running", "balanceCanceling"} ->
            AcquireAndDispatch(rest, e.task, books)
      [] state[e.task] = "canceling" ->
            Settle(by, rest, e.task, "canceled", books, unassigned)
      [] OTHER -> Refuse(rest)

Arm(by, rest, e) ==
    CASE e.kind = "HasCapacity"            -> OnHasCapacity(rest, e)
      [] e.kind = "TaskCancelRequested"    -> OnTaskCancel(by, rest, e)
      [] e.kind = "BalanceCancelRequested" -> OnBalanceTaskCancel(rest, e)
      [] e.kind = "TaskResultReceived"     -> OnTaskResult(by, rest, e)
      [] e.kind = "CancelConfirmCanceled"  -> OnCancelConfirm(by, rest, e, "canceled")
      [] e.kind = "CancelConfirmNotFound"  -> OnCancelConfirm(by, rest, e, "canceledNotFound")
      [] e.kind = "CancelConfirmFailed"    -> OnCancelConfirmFailed(rest, e)
      [] e.kind = "WorkerDisconnected"     -> OnWorkerDisconnect(by, rest, e)

(* __is_task_owned_by_worker: only another, valid holder disproves it.     *)
IsTaskOwnedByWorker(e) ==
    e.kind \in WorkerReported => books.holder[e.task] \in {NoWorker, e.worker}

(* The mutant leaves the faulted task in the queue.                        *)
Teardown_StaysQueued(by, rest, t, b) ==
    /\ state' = [state EXCEPT ![t] = "failed"]
    /\ grants' = rest /\ books' = RemoveTask(b, t)
    /\ transit' = [transit EXCEPT ![t] = NoTransit]
    /\ UNCHANGED unassigned

(* __fail_task_to_client after the report: release, commit, redistribute.  *)
(* The lock is held until the gather ends, though the machine is gone.     *)
Teardown(by, rest, t, b) ==
    /\ state' = [state EXCEPT ![t] = "failed"]
    /\ RetryUnassignable(t, rest, RemoveTask(b, t), Without(unassigned, t))
    /\ transit' = [transit EXCEPT ![t] =
                     IF GathersNext(t) THEN [target |-> "failed", by |-> by] ELSE NoTransit]

(* The action of an event raised.  Either it had done nothing, or it was a *)
(* result that had already been passed on to the client; only in the first *)
(* case is there still a client to report the fault to, and the report     *)
(* awaits the object storage.                                              *)
Fault(by, rest, e) ==
    LET t == e.task IN
    /\ Spend("fault")
    /\ owned' = owned \ {t}
    /\ \/ /\ t \in owned
          /\ transit' = [transit EXCEPT ![t] = [target |-> "reporting", by |-> by]]
          /\ grants' = rest
          /\ UNCHANGED <<books, state, told, unassigned>>
       \/ /\ e.kind = "TaskResultReceived"
          /\ state[t] \in {"running", "balanceCanceling"}
          /\ IF t \in owned THEN Tell(t, e.arg) ELSE UNCHANGED told
          /\ Teardown(by, rest, t, books)
    /\ UNCHANGED <<wtask, outbox>>

(* __route: nothing for a machine that is gone, the arm otherwise.         *)
Route(by, rest, e) ==
    /\ \/ state[e.task] \notin LiveState /\ Refuse(rest) /\ UNCHANGED budget
       \/ /\ state[e.task] \in LiveState
          /\ ~ IsTaskOwnedByWorker(e)
          /\ Refuse(rest) /\ UNCHANGED budget
       \/ /\ state[e.task] \in LiveState
          /\ IsTaskOwnedByWorker(e)
          /\ \/ Arm(by, rest, e) /\ UNCHANGED budget
             \/ Fault(by, rest, e)
    /\ UNCHANGED <<presence, life>>

-----------------------------------------------------------------------------
(* Steps of the event loop.                                                *)

(* Coroutine c gets the lock for its next event and runs the transition.   *)
RouteCall(c, e) ==
    /\ e \in calls[c]
    /\ ~ Awaiting(c)
    /\ LockAvailable(e)
    /\ calls' = [calls EXCEPT ![c] = @ \ {e}]
    /\ Route(c, grants, e)

(* The cancel loop of a disconnecting client calls on_task_cancel for each *)
(* task in turn; one that has ended by then is answered as absent.         *)
CancelOfEndedTask(c, e) ==
    /\ e \in calls[c]
    /\ ~ Awaiting(c)
    /\ e.kind = "TaskCancelRequested" /\ e.arg = "gentle"
    /\ state[e.task] \notin LiveState
    /\ calls' = [calls EXCEPT ![c] = @ \ {e}]
    /\ Tell(e.task, "absent")
    /\ UNCHANGED <<books, state, owned, unassigned, presence, grants, transit, worker, budget>>

(* One HasCapacity child of a gather gets its task's lock.                 *)
RouteGrant(g) ==
    LET e == NewEvent("HasCapacity", g.task, g.worker, "none") IN
    /\ g \in grants
    /\ LockAvailable(e)
    /\ Route(g.by, grants \ {g}, e)
    /\ UNCHANGED calls

(* The mutant commits a fault whose report is still being stored.          *)
Commit_WhileReporting(t) ==
    /\ transit[t].target # "none"
    /\ ~ Awaiting(t)
    /\ state' = [state EXCEPT ![t] = transit[t].target]
    /\ transit' = [transit EXCEPT ![t] = NoTransit]
    /\ UNCHANGED <<books, owned, told, unassigned, presence, calls, grants, worker, budget>>

(* The gather of a terminal transition is over: commit, drop the machine.  *)
Commit(t) ==
    /\ transit[t].target \in Terminal
    /\ ~ Awaiting(t)
    /\ state' = [state EXCEPT ![t] = transit[t].target]
    /\ transit' = [transit EXCEPT ![t] = NoTransit]
    /\ UNCHANGED <<books, owned, told, unassigned, presence, calls, grants, worker, budget>>

(* The storage holds the error object of a faulted task: tell the client.  *)
FaultReported(t) ==
    /\ transit[t].target = "reporting"
    /\ Tell(t, "failed")
    /\ Teardown(transit[t].by, grants, t, books)
    /\ UNCHANGED <<owned, presence, calls, worker, budget>>

-----------------------------------------------------------------------------
(* Messages to the binder.                                                 *)

OnTaskNew(t) ==
    /\ Idle("binder")
    /\ state[t] = "new"
    /\ state' = [state EXCEPT ![t] = "inactive"]
    /\ owned' = owned \cup {t}
    /\ \E w \in AssignTask(books, t) :
          IF w = NoWorker
          THEN /\ unassigned' = Append(unassigned, t)
               /\ UNCHANGED <<books, calls>>
          ELSE /\ books' = Assigned(books, t, w)
               /\ calls' = [calls EXCEPT !["binder"] =
                              {NewEvent("HasCapacity", t, w, "none")}]
               /\ UNCHANGED unassigned
    /\ UNCHANGED <<told, presence, grants, transit, worker, budget>>

(* A TaskCancel of the client, which always sets the force flag.           *)
ReceiveTaskCancel(t) ==
    /\ Idle("binder")
    /\ state[t] # "new"
    /\ Spend("cancel")
    /\ IF state[t] \in LiveState
       THEN /\ calls' = [calls EXCEPT !["binder"] =
                           {NewEvent("TaskCancelRequested", t, NoWorker, "force")}]
            /\ UNCHANGED told
       ELSE Tell(t, "absent") /\ UNCHANGED calls
    /\ UNCHANGED <<books, state, owned, unassigned, presence, grants, transit, worker>>

(* on_task_result and on_task_cancel_confirm.                              *)
ReceiveReport(w) ==
    /\ Idle("binder")
    /\ outbox[w] # <<>>
    /\ outbox' = [outbox EXCEPT ![w] = Tail(@)]
    /\ calls' = [calls EXCEPT !["binder"] = {Head(outbox[w])}]
    /\ UNCHANGED <<books, task, presence, grants, transit, life, wtask, budget>>

(* The mutant forgets on_worker_connect.                                   *)
OnHeartbeat_NoRetry(w) ==
    /\ Idle("binder")
    /\ life[w] = "up"
    /\ w \notin books.registered
    /\ books' = AddWorker(books, w)
    /\ alive' = alive \cup {w}
    /\ UNCHANGED <<task, dead, connecting, loop, worker, budget>>

(* The heartbeat of a worker the policy does not know.  One of a worker it *)
(* knows only refreshes a time stamp.                                      *)
OnHeartbeat(w) ==
    /\ Idle("binder")
    /\ life[w] = "up"
    /\ w \notin books.registered
    /\ RetryUnassignable("binder", grants, AddWorker(books, w), unassigned)
    /\ IF GathersNext("binder")
       THEN connecting' = w /\ UNCHANGED alive
       ELSE alive' = alive \cup {w} /\ UNCHANGED connecting
    /\ UNCHANGED <<state, owned, told, dead, calls, transit, worker, budget>>

WorkerConnected ==
    /\ connecting # NoWorker
    /\ ~ Awaiting("binder")
    /\ alive' = alive \cup {connecting}
    /\ connecting' = NoWorker
    /\ UNCHANGED <<books, task, dead, loop, worker, budget>>

(* The mutant drops the tasks of the worker.                               *)
DisconnectWorker_NoReroute(c, w) ==
    /\ alive' = alive \ {w}
    /\ books' = WithoutWorker(books, w, books.queue[w])
    /\ UNCHANGED calls

(* __disconnect_worker up to its first await: the books forget the worker  *)
(* at once, the tasks it held are routed one after the other.              *)
DisconnectWorker(c, w) ==
    /\ alive' = alive \ {w}
    /\ IF RemoveWorkerRaises(books, w)
       THEN /\ \E popped \in SUBSET {t \in books.queue[w] : books.holder[t] # NoWorker} :
                  books' = WithoutWorker(books, w, popped)
            /\ UNCHANGED calls
       ELSE /\ books' = WithoutWorker(books, w, books.queue[w])
            /\ calls' = [calls EXCEPT ![c] =
                           {NewEvent("WorkerDisconnected", t, w, "none") : t \in books.queue[w]}]

OnDisconnectNotification(w) ==
    /\ Idle("binder")
    /\ life[w] = "leaving"
    /\ outbox[w] = <<>>
    /\ life' = [life EXCEPT ![w] = "gone"]
    /\ IF w \in alive THEN DisconnectWorker("binder", w)
       ELSE UNCHANGED <<books, alive, calls>>
    /\ UNCHANGED <<task, dead, connecting, grants, transit, wtask, outbox, budget>>

-----------------------------------------------------------------------------
(* Timers.                                                                 *)

(* One worker of the list of dead workers; what is left of the list is     *)
(* lost when remove_worker raises out of the loop.                         *)
CleanWorker(w, rest) ==
    IF w \in alive
    THEN /\ DisconnectWorker("workerTimer", w)
         /\ dead' = IF RemoveWorkerRaises(books, w) THEN {} ELSE rest
    ELSE dead' = rest /\ UNCHANGED <<books, alive, calls>>

(* __clean_workers computes the whole list before it disconnects the       *)
(* first.  A worker that is up is on it if its heartbeats were held up.    *)
CleanWorkers(late) ==
    /\ "workerTimer" \in Timers
    /\ Idle("workerTimer")
    /\ \E w \in late : CleanWorker(w, late \ {w})
    /\ IF \A w \in late : life[w] # "up" THEN UNCHANGED budget ELSE Spend("timeout")
    /\ UNCHANGED <<task, connecting, grants, transit, worker>>

CleanNextWorker(w) ==
    /\ w \in dead
    /\ calls["workerTimer"] = {}
    /\ ~ Awaiting("workerTimer")
    /\ CleanWorker(w, dead \ {w})
    /\ UNCHANGED <<task, connecting, grants, transit, worker, budget>>

(* __cancel_client_all_tasks, for a ClientDisconnect message or because    *)
(* the client's heartbeats stopped.                                        *)
CancelClientAllTasks(c) ==
    /\ c = "binder" \/ c \in {"clientTimer"} \cap Timers
    /\ Idle(c)
    /\ owned # {}
    /\ Spend("disconnect")
    /\ calls' = [calls EXCEPT ![c] =
                   {NewEvent("TaskCancelRequested", t, NoWorker, "gentle") : t \in owned}]
    /\ UNCHANGED <<books, task, presence, grants, transit, worker>>

Balance(advice) ==
    /\ "balanceTimer" \in Timers
    /\ Idle("balanceTimer")
    /\ Spend("round")
    /\ calls' = [calls EXCEPT !["balanceTimer"] =
                   {NewEvent("BalanceCancelRequested", t, NoWorker, "none") : t \in advice}]
    /\ UNCHANGED <<books, task, presence, grants, transit, worker>>

-----------------------------------------------------------------------------
(* Workers.                                                                *)

(* A worker that suspended a task for a more urgent one has several in     *)
(* processing.                                                             *)
Start(w, t) ==
    /\ life[w] = "up"
    /\ wtask[w][t] = "queued"
    /\ wtask' = [wtask EXCEPT ![w][t] = "processing"]
    /\ UNCHANGED <<books, task, presence, loop, life, outbox, budget>>

Finish(w, t, r) ==
    /\ life[w] = "up"
    /\ wtask[w][t] = "processing"
    /\ wtask' = [wtask EXCEPT ![w][t] = "absent"]
    /\ outbox' = [outbox EXCEPT ![w] = Append(@, NewEvent("TaskResultReceived", t, w, r))]
    /\ UNCHANGED <<books, task, presence, loop, life, budget>>

(* A crash loses the tasks and some of the last reports; a worker that     *)
(* leaves sends its notification after them.                               *)
Crash(w) ==
    /\ w \in Mortal /\ life[w] = "up"
    /\ life' = [life EXCEPT ![w] = "gone"]
    /\ wtask' = [wtask EXCEPT ![w] = [t \in Task |-> "absent"]]
    /\ \E n \in 0..Len(outbox[w]) : outbox' = [outbox EXCEPT ![w] = SubSeq(@, 1, n)]
    /\ UNCHANGED <<books, task, presence, loop, budget>>

Leave(w) ==
    /\ w \in Mortal /\ life[w] = "up"
    /\ life' = [life EXCEPT ![w] = "leaving"]
    /\ wtask' = [wtask EXCEPT ![w] = [t \in Task |-> "absent"]]
    /\ UNCHANGED <<books, task, presence, loop, outbox, budget>>

-----------------------------------------------------------------------------
Loop ==
    \/ \E c \in Coroutine : \E e \in calls[c] : RouteCall(c, e) \/ CancelOfEndedTask(c, e)
    \/ \E g \in grants : RouteGrant(g)
    \/ \E t \in Task : Commit(t) \/ FaultReported(t)
    \/ WorkerConnected
    \/ \E w \in dead : CleanNextWorker(w)

Environment ==
    \/ \E t \in Task : OnTaskNew(t) \/ ReceiveTaskCancel(t)
    \/ \E w \in Worker : \/ ReceiveReport(w) \/ OnHeartbeat(w)
                         \/ OnDisconnectNotification(w)
                         \/ Crash(w) \/ Leave(w)
    \/ \E late \in SUBSET alive : CleanWorkers(late)
    \/ \E c \in Coroutine : CancelClientAllTasks(c)
    \/ \E advice \in BalanceAdvice(books) : Balance(advice)
    \/ \E w \in Worker, t \in Task : Start(w, t) \/ \E r \in Results : Finish(w, t, r)

(* Nothing is under way: the scheduler may wait for ever.                  *)
Quiet ==
    /\ \A c \in Coroutine : Idle(c)
    /\ grants = {}
    /\ \A w \in Worker : outbox[w] = <<>>
    /\ UNCHANGED vars

Next == Loop \/ Environment \/ Quiet

Spec == Init /\ [][Next]_vars

(* asyncio resumes what is ready in the order it became ready; the binder  *)
(* receives what was sent; a worker sends heartbeats, works through its    *)
(* queue, and a worker that is gone misses worker_timeout_seconds.         *)
Fairness ==
    /\ WF_vars(Loop)
    /\ WF_vars(\E w \in Worker : ReceiveReport(w) \/ OnDisconnectNotification(w))
    /\ WF_vars(\E w \in Worker : OnHeartbeat(w))
    /\ WF_vars(\E w \in alive : life[w] = "gone" /\ CleanWorkers({w}))
    /\ WF_vars(\E w \in Worker, t \in Task :
                  Start(w, t) \/ \E r \in Results : Finish(w, t, r))

FairSpec == Spec /\ Fairness

-----------------------------------------------------------------------------
(* Properties *)

TypeOK ==
    /\ books \in Books
    /\ state \in [Task -> TaskState]
    /\ owned \subseteq Task
    /\ told \in [Task -> Seq(Terminal \cup {"absent"})]
    /\ unassigned \in Seq(Task)
    /\ alive \subseteq Worker /\ dead \subseteq Worker
    /\ connecting \in Worker \cup {NoWorker}
    /\ calls \in [Coroutine -> SUBSET Event]
    /\ grants \subseteq Grant
    /\ transit \in [Task -> Transit]
    /\ life \in [Worker -> {"up", "leaving", "gone"}]
    /\ wtask \in [Worker -> [Task -> {"absent", "queued", "processing"}]]
    /\ outbox \in [Worker -> Seq(Event)]
    /\ budget \in [Bounded -> Nat]

Placed(t)  == books.holder[t] # NoWorker
Settling(t) == transit[t].target # "none"
HasGrant(t) ==
    \/ \E g \in grants : g.task = t
    \/ \E e \in calls["binder"] : e.kind = "HasCapacity" /\ e.task = t

(* The client is told exactly one outcome of a task: none while its machine *)
(* lives, one when it is gone, and after it only answers to cancels that   *)
(* came too late.  Without faults it is the outcome the machine committed. *)
OutcomeOnce ==
    \A t \in Task :
        /\ state[t] \in {"new"} \cup LiveState /\ ~ Settling(t) => told[t] = <<>>
        /\ state[t] \in Terminal =>
              /\ told[t] # <<>> /\ told[t][1] # "absent"
              /\ Limit["fault"] = 0 => told[t][1] = state[t]
        /\ \A i \in 2..Len(told[t]) : told[t][i] = "absent"

(* No task is stranded: a task without a worker to run on is in the queue  *)
(* or a HasCapacity for it is under way.                                   *)
NeverStranded ==
    \A t \in Task : state[t] = "inactive" /\ ~ Settling(t) =>
                        InQueue(t, unassigned) \/ HasGrant(t)

(* The queue holds live tasks, each of them once and none with a           *)
(* HasCapacity under way: the KeyError of __acquire_workers on a task      *)
(* without a payload and the double grant cannot happen.                   *)
OnHoldSound ==
    \A i \in DOMAIN unassigned :
        /\ state[unassigned[i]] = "inactive"
        /\ transit[unassigned[i]].target \in {"none", "reporting"}
        /\ ~ HasGrant(unassigned[i])
        /\ \A j \in DOMAIN unassigned : unassigned[i] = unassigned[j] => i = j

(* A worker is granted to a task at most once: no two HasCapacity events   *)
(* are under way for one task, and none for a task that already runs, so   *)
(* the capacity that __acquire_workers takes is never taken twice.         *)
GrantedOnce ==
    /\ \A g, h \in grants : g.task = h.task => g = h
    /\ \A g \in grants : state[g.task] \in {"inactive"} \cup Terminal
    /\ \A e \in calls["binder"] : e.kind = "HasCapacity" =>
          /\ calls["binder"] = {e}
          /\ state[e.task] \in {"inactive"} \cup Terminal
          /\ \A g \in grants : g.task # e.task

(* The queue on hold is correct: it loses no task, holds none twice, and   *)
(* __acquire_workers grants a worker to each of them once.                 *)
QueueSound == NeverStranded /\ OnHoldSound /\ GrantedOnce

(* The wait-for graph of the locks has no cycle: in no set of tasks does   *)
(* every transition await another member of the set.                       *)
LockAcyclic ==
    \A S \in (SUBSET Task) \ {{}} :
        \E t \in S : /\ \A g \in grants : g.by = t => g.task \notin S
                     /\ \A u \in S : transit[u].by # t

(* The two dictionaries of the policy agree: a task mapped to a worker is  *)
(* in the queue of that worker, the worker is registered, a worker that is *)
(* not registered has no queue, and no queue is longer than its size.      *)
BooksAgree ==
    /\ \A t \in Task : Placed(t) =>
          /\ books.holder[t] \in books.registered
          /\ t \in books.queue[books.holder[t]]
    /\ \A w \in Worker :
          /\ w \notin books.registered => books.queue[w] = {}
          /\ Load(books, w) <= QueueSize[w]

(* The converse: a queue slot belongs to the worker its task is mapped to. *)
(* A task placed twice would run on two workers and leak the slot of the   *)
(* first, the race __on_balance_task_cancel is written to avoid.  It holds *)
(* under even_load, whose assign_task answers a task it has already placed *)
(* with its worker; capability places it again.                            *)
SlotsAgree ==
    \A w \in Worker : \A t \in books.queue[w] : books.holder[t] = w

(* No slot is leaked: one is taken only for a task that has not ended and  *)
(* does not wait for a slot.                                               *)
NoSlotLeak ==
    \A w \in Worker : \A t \in books.queue[w] :
        /\ state[t] \in LiveState
        /\ transit[t].target \in {"none", "reporting"}
        /\ InQueue(t, unassigned) => transit[t].target = "reporting"

(* While a task is on hold every worker is full: capacity that is released *)
(* reaches the queue in the step that releases it.                         *)
WorkConserving ==
    unassigned # <<>> => \A w \in books.registered : Load(books, w) = QueueSize[w]

(* A task that runs is held by a worker, or the loss of its worker is on   *)
(* its way to the router.                                                  *)
RunningIsHeld ==
    \A t \in Task : state[t] \in LiveState \ {"inactive"} /\ ~ Settling(t) =>
        \/ Placed(t)
        \/ \E c \in Coroutine : \E e \in calls[c] :
              e.kind = "WorkerDisconnected" /\ e.task = t

(* No two workers hold the same task.                                      *)
OneWorkerPerTask ==
    \A t \in Task : \A v, w \in Worker :
        wtask[v][t] # "absent" /\ wtask[w][t] # "absent" => v = w

(* What runs, runs on one worker: every running task has its holder, or    *)
(* the loss of it is being routed, and no task is on two workers.          *)
HeldByOne == RunningIsHeld /\ OneWorkerPerTask

(* A task is never sent to a worker after its client was told an outcome,  *)
(* and a machine that is gone does not come back.                          *)
NoWorkAfterOutcome ==
    [][\A t \in Task :
          /\ state[t] \in Terminal => state'[t] = state[t]
          /\ told[t] # <<>> =>
                \A w \in Worker : wtask[w][t] = "absent" => wtask'[w][t] = "absent"]_vars

(* Every coroutine returns from what it is doing: no handler and no timer  *)
(* hangs on a lock or on a gather.                                         *)
EveryCallReturns == \A c \in Coroutine : ~ Idle(c) ~> Idle(c)

(* Every task a client submits ends.                                       *)
EveryTaskEnds == \A t \in Task : state[t] \in LiveState ~> state[t] \in Terminal

(* The scheduler makes progress: no coroutine hangs and every task ends.   *)
Progress == EveryCallReturns /\ EveryTaskEnds

-----------------------------------------------------------------------------
(* What the code's comments claim and the code does not keep.              *)

(* __on_worker_disconnect, from inactive: "the task holds no worker to     *)
(* lose".                                                                  *)
InactiveHoldsNoWorkerToLose ==
    \A c \in Coroutine : \A e \in calls[c] :
        e.kind = "WorkerDisconnected" /\ state[e.task] = "inactive" /\ LockAvailable(e) =>
            ~ \E g \in grants : g.task = e.task /\ g.worker = e.worker
=============================================================================
