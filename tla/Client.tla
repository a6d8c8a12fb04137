------------------------------- MODULE Client -------------------------------
(***************************************************************************)
(* The client: the user's threads, the futures they hold, and the agent    *)
(* thread that settles those futures from what the scheduler and the       *)
(* object storage answer.                                                  *)
(*                                                                         *)
(* One future stands for one task.  A call is a set of futures and how     *)
(* they are made: "submit" makes one and returns it, "get" makes those of  *)
(* a graph's targets and of its umbrella and returns the targets' (with    *)
(* block=True it waits for them in turn: that is result() of each, by any  *)
(* thread), and "starmap" makes one per task and waits for all of them     *)
(* itself.  The methods of Client are called by one thread, Main           *)
(* (ObjectBuffer takes no lock); every thread may use a future it was      *)
(* given.                                                                  *)
(*                                                                         *)
(* A step of a thread is what it does between two points at which others   *)
(* may run: the condition of a future is held while the future is looked   *)
(* at and changed, and the agent handles a message without yielding.       *)
(***************************************************************************)
EXTENDS Integers, Sequences, FiniteSets

CONSTANTS Futures,      \* the tasks of a behaviour
          Calls,        \* the calls Main may make
          Main, Users,  \* the thread that calls Client, those that use futures
          Events, Budget    \* which of EventKinds happen, and how often in all

EventKinds == {"closed", "timeout", "storage", "clear"}

ASSUME CallsAssumption ==
    \A c \in Calls :
        /\ c.kind \in {"submit", "get", "starmap"} /\ c.futures \subseteq Futures /\ c.futures # {}
        /\ c.kind = "submit" => Cardinality(c.futures) = 1
        /\ c.kind = "get" => c.umbrella \in c.futures
ASSUME NamesAssumption == IsFiniteSet(Futures) /\ Main \notin Futures \cup Users
ASSUME BudgetAssumption == Events \subseteq EventKinds /\ Budget \in Nat

VARIABLES
    fut,        \* the fields of every ScalerFuture
    manager,    \* ClientFutureManager._task_id_to_future
    thread,     \* what every user thread is doing
    agent,      \* ClientAgent: its phase, the exception that ended it, the task
                \* manager's _task_ids, and the future taken out of the manager
                \* that is about to be settled
    jobs,       \* the coroutines run_in_agent() put on the agent's loop
    net,        \* pipe: the connector between Main and the agent; the messages
                \* client -> agent -> scheduler -> agent
    held,       \* the tasks the scheduler works on, and (stray) the subtasks it
                \* answered for when it aborted their graph and left running
    budget,
    log         \* history of every future: the outcomes user code saw, how often
                \* its callback ran and its object was asked for, and whether it
                \* was registered after the agent had settled all futures (late)
                \* or by a call that raised before it sent the task (unsent)

vars == <<fut, manager, thread, agent, jobs, net, held, budget, log>>

Threads == Users \cup {Main}
Members(g) == {f \in Futures : fut[f].group = g}     \* of a cancel that names g
Umbrellas == {f \in Futures : fut[f].call = "get" /\ fut[f].group = f}
Delayed(f) == fut[f].call # "starmap"       \* its object is fetched on demand
Outcomes == {"value", "error", "cancelled"}

\* The exceptions __get_loops turns into an exception of every future.
Handled == {"quit", "shutdown", "timeout", "closed"}

NewFuture == [state |-> "pending", call |-> "none", group |-> Main, oid |-> FALSE, received |-> FALSE, outcome |-> "none",
              fetching |-> FALSE, requested |-> FALSE, callbacks |-> 0, given |-> FALSE]
Idle == [op |-> "idle", todo |-> {}, next |-> "none", sent |-> {}]

\* The state has its types.
TypeOK ==
    /\ fut \in [Futures -> [state : {"pending", "running", "finished", "cancelled"},
                            call : {"none", "submit", "get", "starmap"}, group : Futures \cup {Main},
                            oid : BOOLEAN, received : BOOLEAN,
                            outcome : Outcomes \cup {"none"}, fetching : BOOLEAN,
                            requested : BOOLEAN, callbacks : 0..1, given : BOOLEAN]]
    /\ manager \subseteq Futures /\ agent.taskIds \subseteq Futures /\ held.tasks \cup held.stray \subseteq Futures
    /\ \A t \in Threads : thread[t].todo \subseteq Futures
    /\ agent.phase \in {"running", "stopping", "destroyed", "settled", "drained", "closed"}
    /\ agent.ended \in Handled \cup {"none", "storage", "invalid"}
    /\ net.pipe \in {"open", "closing", "closed", "destroyed"}
    /\ jobs \subseteq {<<"upload", Main>>} \cup ({"fetch"} \X Futures)

Init ==
    /\ fut = [f \in Futures |-> NewFuture]
    /\ manager = {} /\ jobs = {} /\ held = [tasks |-> {}, stray |-> {}]
    /\ thread = [t \in Threads |-> Idle]
    /\ agent = [phase |-> "running", ended |-> "none", taskIds |-> {}, settling |-> <<>>]
    /\ net = [pipe |-> "open", inbox |-> <<>>, outbox |-> <<>>, answers |-> <<>>]
    /\ budget = Budget
    /\ log = [f \in Futures |-> [seen |-> {}, called |-> 0, fetched |-> 0, late |-> FALSE, unsent |-> FALSE]]

-----------------------------------------------------------------------------
(* ScalerFuture.                                                           *)

Done(f) == fut[f].state \in {"finished", "cancelled"}
Cancelled(f) == fut[f].state = "cancelled"

\* _start_result_object_fetch: is the object asked for now?
StartsFetch_Again(r) == r.oid /\ r.state # "cancelled" /\ ~r.received
StartsFetch(r) == r.oid /\ r.state # "cancelled" /\ ~r.received /\ ~r.fetching

\* set_result, set_exception, set_canceled, force_set_canceled: the outcome is
\* there and the callbacks run.
Settled(f, state, outcome) ==
    [fut[f] EXCEPT !.state = state, !.received = TRUE, !.outcome = outcome,
                   !.requested = @ \/ state = "cancelled"]
CallbacksRun(f, outcome) ==
    IF fut[f].callbacks = 0 THEN log[f]
    ELSE [log[f] EXCEPT !.called = @ + 1, !.seen = @ \cup {outcome}]
Settle(f, state, outcome) ==
    /\ fut' = [fut EXCEPT ![f] = Settled(f, state, outcome)]
    /\ log' = [log EXCEPT ![f] = CallbacksRun(f, outcome)]

\* set_result_ready: the object is named; it is fetched now unless the future is
\* delayed and nobody listens to it.
FetchesNow_Lazy(f) == ~Delayed(f)
FetchesNow(f) == ~Delayed(f) \/ fut[f].callbacks > 0
SetResultReady(f, outcome) ==
    LET ready == [fut[f] EXCEPT !.state = "finished", !.oid = f \notin Umbrellas, !.outcome = outcome]
        now == FetchesNow(f) /\ StartsFetch(ready)
    IN  /\ fut' = [fut EXCEPT ![f] = [ready EXCEPT !.fetching = @ \/ now]]
        /\ jobs' = IF now THEN jobs \cup {<<"fetch", f>>} ELSE jobs
        /\ log' = IF now THEN [log EXCEPT ![f].fetched = @ + 1] ELSE log

-----------------------------------------------------------------------------
(* The user's threads.                                                     *)

stopEvent == agent.phase # "running"

At(t, op) == thread[t].op = op
GoTo(t, state) == thread' = [thread EXCEPT ![t] = state]

\* SyncConnector.send: raises on a socket that knows its peer is gone; reaches
\* nobody when it does not know yet, or when destroy() has been called.
Raises == net.pipe = "closed"
Sent(message) == IF net.pipe = "open" THEN [net EXCEPT !.inbox = Append(@, message)] ELSE net

\* clear(), disconnect() and shutdown() cancel all futures first, unless the agent
\* is gone.  cancel_all_futures: a snapshot of the manager, without its lock.
CancelsAll_ClearOnly(next) ==
    IF (next = "disconnect" /\ stopEvent) \/ (next = "shutdown" /\ agent.phase = "closed")
    THEN [Idle EXCEPT !.op = "join"]
    ELSE [Idle EXCEPT !.op = "cancelall", !.todo = IF next = "clear" THEN {} ELSE manager, !.next = next]
CancelsAll(next) ==
    IF (next = "disconnect" /\ stopEvent) \/ (next = "shutdown" /\ agent.phase = "closed")
    THEN [Idle EXCEPT !.op = "join"]
    ELSE [Idle EXCEPT !.op = "cancelall", !.todo = manager, !.next = next]

\* submit(), starmap() and get(): the futures are registered, the objects are
\* committed, the tasks are sent, and only then the call goes on.
Submit(c) ==
    /\ At(Main, "idle") /\ ~stopEvent
    /\ \A f \in c.futures : fut[f].state = "pending"
    /\ fut' = [f \in Futures |->
                 IF f \notin c.futures THEN fut[f]
                 ELSE [fut[f] EXCEPT !.call = c.kind, !.group = IF c.kind = "get" THEN c.umbrella ELSE f]]
    /\ GoTo(Main, [Idle EXCEPT !.op = "add", !.todo = c.futures])
    /\ UNCHANGED <<manager, agent, jobs, net, held, budget, log>>

Unregistered == {f \in thread[Main].todo : fut[f].state = "pending"}

AddFuture(f) ==
    /\ At(Main, "add") /\ f \in Unregistered
    /\ fut[f].group \in Unregistered => f = fut[f].group       \* the umbrella's first
    /\ fut' = [fut EXCEPT ![f].state = "running"]
    /\ manager' = manager \cup {f}
    /\ log' = [log EXCEPT ![f].late = agent.phase \in {"settled", "drained", "closed"}]
    /\ GoTo(Main, [thread[Main] EXCEPT !.op = IF Unregistered = {f} THEN "commit" ELSE "add"])
    /\ UNCHANGED <<agent, jobs, net, held, budget>>

\* starmap() makes its tasks one by one: an argument that cannot be serialized,
\* or a reference that is no longer valid, raises with the futures of the tasks
\* before it registered.
Abandon ==
    /\ At(Main, "add") /\ Unregistered # thread[Main].todo
    /\ \A f \in Unregistered : fut[f].call = "starmap"
    /\ GoTo(Main, Idle)
    /\ log' = [f \in Futures |-> [log[f] EXCEPT !.unsent = @ \/ f \in thread[Main].todo \ Unregistered]]
    /\ UNCHANGED <<fut, manager, agent, jobs, net, held, budget>>

\* commit_send_objects: everything was uploaded before, or the uploads run on
\* the agent's loop; a closed loop raises and leaves the futures registered.
Commit(upload) ==
    /\ At(Main, "commit")
    /\ GoTo(Main, IF ~upload THEN [thread[Main] EXCEPT !.op = "send"]
                  ELSE IF agent.phase = "closed" THEN Idle
                  ELSE [thread[Main] EXCEPT !.op = "upload"])
    /\ jobs' = IF upload /\ agent.phase # "closed" THEN jobs \cup {<<"upload", Main>>} ELSE jobs
    /\ UNCHANGED <<fut, manager, agent, net, held, budget, log>>

Returned == [f \in Futures |->      \* a starmap keeps its futures to itself
               [fut[f] EXCEPT !.given = @ \/ (f \in thread[Main].todo \ Umbrellas /\ Delayed(f))]]
SendTask(g) ==
    /\ At(Main, "send") /\ g \in {fut[f].group : f \in thread[Main].todo} \ thread[Main].sent
    /\ net' = Sent(<<"task", g>>)
    /\ LET sent == thread[Main].sent \cup {g}
           last == sent = {fut[f].group : f \in thread[Main].todo}
       IN  /\ fut' = IF last /\ ~Raises THEN Returned ELSE fut
           /\ GoTo(Main, IF ~last /\ ~Raises THEN [thread[Main] EXCEPT !.sent = sent]
                         ELSE IF Raises \/ \A f \in thread[Main].todo : Delayed(f) THEN Idle
                         ELSE [Idle EXCEPT !.op = "collect", !.todo = thread[Main].todo])
    /\ UNCHANGED <<manager, agent, jobs, held, budget, log>>

\* starmap() waits for its futures in turn, and disconnects when one failed.
Collect ==
    /\ At(Main, "collect")
    /\ LET f == CHOOSE f \in thread[Main].todo : TRUE
       IN  /\ fut[f].received
           /\ log' = [log EXCEPT ![f].seen = @ \cup {fut[f].outcome}]
           /\ GoTo(Main, IF fut[f].outcome # "value" THEN CancelsAll("disconnect")
                         ELSE IF thread[Main].todo = {f} THEN Idle
                         ELSE [thread[Main] EXCEPT !.todo = @ \ {f}])
    /\ UNCHANGED <<fut, manager, agent, jobs, net, held, budget>>

\* ScalerFuture.cancel up to its wait: the agent is asked once, however many
\* threads cancel.
Cancel(t, f, waiting, raised) ==
    LET asks == ~Done(f) /\ ~fut[f].requested
    IN  /\ net' = IF asks THEN Sent(<<"cancel", fut[f].group>>) ELSE net
        /\ fut' = IF asks /\ ~Raises THEN [fut EXCEPT ![f].requested = TRUE] ELSE fut
        /\ GoTo(t, IF asks /\ Raises THEN raised ELSE waiting)

UserCancel(t, f) ==
    /\ At(t, "idle") /\ fut[f].given /\ ~Done(f)
    /\ Cancel(t, f, [Idle EXCEPT !.op = "canceling", !.todo = {f}], Idle)
    /\ UNCHANGED <<manager, agent, jobs, held, budget, log>>

\* _wait_result_ready: whoever makes the future done notifies.
CancelReturns(t, f) ==
    /\ At(t, "canceling") /\ thread[t].todo = {f} /\ Done(f)
    /\ GoTo(t, Idle)
    /\ UNCHANGED <<fut, manager, agent, jobs, net, held, budget, log>>

\* Asks the agent for the object of a finished future; a closed loop raises.
AskFor(t, f, then) ==
    LET starts == StartsFetch(fut[f]) /\ agent.phase # "closed"
    IN  /\ fut' = IF starts THEN [fut EXCEPT ![f].fetching = TRUE] ELSE fut
        /\ jobs' = IF starts THEN jobs \cup {<<"fetch", f>>} ELSE jobs
        /\ GoTo(t, IF StartsFetch(fut[f]) /\ ~starts THEN Idle ELSE then)
        /\ log' = IF starts THEN [log EXCEPT ![f].fetched = @ + 1] ELSE log

\* result() and exception(): wait until the future is done, ask for the object
\* of a delayed one, wait until it is there.  A thread that has seen the outcome
\* does not ask again until it changes (bound).
Result(t, f) ==
    /\ At(t, "idle") /\ fut[f].given /\ fut[f].outcome \notin log[f].seen
    /\ GoTo(t, [Idle EXCEPT !.op = "result", !.todo = {f}])
    /\ UNCHANGED <<fut, manager, agent, jobs, net, held, budget, log>>

ResultReady(t, f) ==
    /\ At(t, "result") /\ thread[t].todo = {f} /\ Done(f)
    /\ LET waiting == [thread[t] EXCEPT !.op = "object"]
       IN  IF Delayed(f) THEN AskFor(t, f, waiting)
           ELSE GoTo(t, waiting) /\ UNCHANGED <<fut, jobs, log>>
    /\ UNCHANGED <<manager, agent, net, held, budget>>

ResultReturns(t, f) ==
    /\ At(t, "object") /\ thread[t].todo = {f} /\ fut[f].received
    /\ log' = [log EXCEPT ![f].seen = @ \cup {fut[f].outcome}]
    /\ GoTo(t, Idle)
    /\ UNCHANGED <<fut, manager, agent, jobs, net, held, budget>>

\* add_done_callback on a future that is not done.  (On one that is done the
\* caller runs its callback itself: that is Result.)
AddDoneCallback(t, f) ==
    /\ At(t, "idle") /\ fut[f].given /\ ~Done(f)
    /\ fut' = [fut EXCEPT ![f].callbacks = 1]
    /\ UNCHANGED <<manager, thread, agent, jobs, net, held, budget, log>>

CancelAll(next) ==
    /\ At(Main, "idle")
    /\ next = "clear" => "clear" \in Events /\ budget > 0 /\ ~Raises
    /\ budget' = IF next = "clear" THEN budget - 1 ELSE budget
    /\ GoTo(Main, CancelsAll(next))
    /\ UNCHANGED <<fut, manager, agent, jobs, net, held, log>>

CancelNext(f) ==
    /\ At(Main, "cancelall") /\ f \in thread[Main].todo
    /\ LET waiting == [thread[Main] EXCEPT !.op = "forcing", !.next = <<f, thread[Main].next>>]
       IN  Cancel(Main, f, waiting, [waiting EXCEPT !.op = "forced"])
    /\ UNCHANGED <<manager, agent, jobs, held, budget, log>>

\* cancel() returned or raised: what is not cancelled by now is made so.
ForceCanceled(f) ==
    /\ \/ At(Main, "forcing") /\ Done(f)
       \/ At(Main, "forced")
    /\ thread[Main].next[1] = f
    /\ IF Cancelled(f) THEN UNCHANGED <<fut, log>> ELSE Settle(f, "cancelled", "cancelled")
    /\ GoTo(Main, [Idle EXCEPT !.op = "cancelall", !.todo = thread[Main].todo \ {f}, !.next = thread[Main].next[2]])
    /\ UNCHANGED <<manager, agent, jobs, net, held, budget>>

\* ObjectBuffer.clear: what is cleared is everything submitted so far.
SendClear ==
    /\ At(Main, "cancelall") /\ thread[Main].todo = {} /\ thread[Main].next = "clear"
    /\ net' = Sent(<<"clear", {f \in Futures : fut[f].state # "pending"}>>)
    /\ GoTo(Main, Idle)
    /\ UNCHANGED <<fut, manager, agent, jobs, held, budget, log>>

\* The request to quit, then __destroy: wait for the agent, close the connector.
\* disconnect() goes on when the connector raises, shutdown() does not.
SendQuit(next) ==
    /\ At(Main, "cancelall") /\ thread[Main].todo = {} /\ thread[Main].next = next
    /\ net' = Sent(<<next, Main>>)
    /\ GoTo(Main, IF next = "shutdown" /\ Raises THEN Idle
                  ELSE [Idle EXCEPT !.op = "join"])
    /\ UNCHANGED <<fut, manager, agent, jobs, held, budget, log>>

Destroy ==
    /\ At(Main, "join") /\ agent.phase = "closed"
    /\ net' = [net EXCEPT !.pipe = "destroyed"]
    /\ GoTo(Main, [Idle EXCEPT !.op = "destroyed"])
    /\ UNCHANGED <<fut, manager, agent, jobs, held, budget, log>>

-----------------------------------------------------------------------------
(* The agent's loop.                                                       *)

Running == agent.phase = "running" /\ agent.settling = <<>>
Ends(exception) == agent' = [agent EXCEPT !.phase = "stopping", !.ended = exception, !.settling = <<>>]

FromClient_ForgetsTargets ==
    /\ Running /\ net.inbox # <<>>
    /\ LET kind == Head(net.inbox)[1]
           what == Head(net.inbox)[2]
       IN  /\ net' = [net EXCEPT !.inbox = Tail(@),
                                 !.outbox = IF kind = "cancel" /\ what \notin agent.taskIds THEN @
                                            ELSE Append(@, Head(net.inbox))]
           /\ CASE kind = "task" -> agent' = [agent EXCEPT !.taskIds = @ \cup {what}]
                [] kind = "disconnect" -> Ends("quit")
                [] OTHER -> UNCHANGED agent
    /\ UNCHANGED <<fut, manager, thread, jobs, held, budget, log>>
\* __on_receive_from_client.
FromClient ==
    /\ Running /\ net.inbox # <<>>
    /\ LET kind == Head(net.inbox)[1]
           what == Head(net.inbox)[2]
       IN  /\ net' = [net EXCEPT !.inbox = Tail(@),
                                 !.outbox = IF kind = "cancel" /\ what \notin agent.taskIds THEN @
                                            ELSE Append(@, Head(net.inbox))]
           /\ CASE kind = "task" -> agent' = [agent EXCEPT !.taskIds = @ \cup Members(what)]
                [] kind = "disconnect" -> Ends("quit")
                [] OTHER -> UNCHANGED agent
    /\ UNCHANGED <<fut, manager, thread, jobs, held, budget, log>>

\* __on_receive_from_scheduler, on_task_result: the future leaves the manager
\* under its lock and is settled after the lock is released.
FromScheduler_Unfiltered ==
    /\ Running /\ net.answers # <<>>
    /\ net' = [net EXCEPT !.answers = Tail(@)]
    /\ LET kind == Head(net.answers)[1]
           f == Head(net.answers)[2]
       IN  /\ manager' = manager \ {f}
           /\ IF kind = "shutdown" THEN Ends("shutdown")
              ELSE agent' = [agent EXCEPT !.taskIds = @ \ {f},
                                          !.settling = IF kind = "confirm" THEN @ ELSE <<f, kind>>]
           /\ IF kind = "confirm" /\ ~Done(f)
              THEN Settle(f, "cancelled", "cancelled") ELSE UNCHANGED <<fut, log>>
    /\ UNCHANGED <<thread, jobs, held, budget>>
FromScheduler ==
    /\ Running /\ net.answers # <<>>
    /\ net' = [net EXCEPT !.answers = Tail(@)]
    /\ LET kind == Head(net.answers)[1]
           f == Head(net.answers)[2]
           known == f \in agent.taskIds
       IN  /\ manager' = IF known THEN manager \ {f} ELSE manager
           /\ IF kind = "shutdown" THEN Ends("shutdown")
              ELSE agent' = [agent EXCEPT
                               !.taskIds = @ \ {f},
                               !.settling = IF known /\ f \in manager /\ kind # "confirm"
                                            THEN <<f, kind>> ELSE @]
           /\ IF kind = "confirm" /\ known /\ f \in manager /\ ~Done(f)
              THEN Settle(f, "cancelled", "cancelled") ELSE UNCHANGED <<fut, log>>
    /\ UNCHANGED <<thread, jobs, held, budget>>

ApplyResult_DiedAsResult ==
    /\ agent.phase = "running" /\ agent.settling # <<>>
    /\ LET f == agent.settling[1]
       IN  IF Done(f) THEN Ends("invalid") /\ UNCHANGED <<fut, jobs, log>>
           ELSE /\ agent' = [agent EXCEPT !.settling = <<>>]
                /\ SetResultReady(f, agent.settling[2])
    /\ UNCHANGED <<manager, thread, net, held, budget>>
\* The second half of on_task_result.  A future that is done already raises into
\* the agent's loop.
ApplyResult ==
    /\ agent.phase = "running" /\ agent.settling # <<>>
    /\ LET f == agent.settling[1]
           kind == agent.settling[2]
       IN  IF Cancelled(f) \/ (IF kind = "died" THEN fut[f].received ELSE Done(f))
           THEN Ends("invalid") /\ UNCHANGED <<fut, jobs, log>>
           ELSE /\ agent' = [agent EXCEPT !.settling = <<>>]
                /\ IF kind = "died" THEN Settle(f, "finished", "error") /\ UNCHANGED jobs
                   ELSE SetResultReady(f, kind)
    /\ UNCHANGED <<manager, thread, net, held, budget>>

JobDone_Overwrites(job) ==
    /\ agent.phase = "running" /\ job \in jobs
    /\ jobs' = jobs \ {job}
    /\ IF job[1] = "upload"
       THEN GoTo(Main, [thread[Main] EXCEPT !.op = "send"]) /\ UNCHANGED <<fut, log>>
       ELSE UNCHANGED thread /\ Settle(job[2], "finished", "value")
    /\ UNCHANGED <<manager, agent, net, held, budget>>
\* The object storage answered: uploads let Main go on, a fetched object settles
\* its future unless that was canceled meanwhile.
JobDone(job) ==
    /\ agent.phase = "running" /\ job \in jobs
    /\ jobs' = jobs \ {job}
    /\ IF job[1] = "upload"
       THEN GoTo(Main, [thread[Main] EXCEPT !.op = "send"]) /\ UNCHANGED <<fut, log>>
       ELSE /\ UNCHANGED thread
            /\ LET f == job[2]
               IN  IF fut[f].received THEN UNCHANGED <<fut, log>>
                   ELSE Settle(f, "finished", fut[f].outcome)
    /\ UNCHANGED <<manager, agent, net, held, budget>>

\* What ends the loop from outside: the scheduler closes the connection, is
\* silent for too long, or the object storage's connection fails.
LoopFails(kind) ==
    /\ Running /\ kind \in Events /\ budget > 0
    /\ budget' = budget - 1
    /\ Ends(kind)
    /\ UNCHANGED <<fut, manager, thread, jobs, net, held, log>>

\* The rest of __get_loops: connectors destroyed, futures failed.  What the
\* scheduler holds is of no more interest.
DestroyConnectors ==
    /\ agent.phase = "stopping"
    /\ agent' = [agent EXCEPT !.phase = "destroyed"]
    /\ net' = [pipe |-> "closing", inbox |-> <<>>, outbox |-> <<>>, answers |-> <<>>]
    /\ held' = [tasks |-> {}, stray |-> {}]
    /\ UNCHANGED <<fut, manager, thread, jobs, budget, log>>

FailsWith_QuitOnly == {"quit", "shutdown", "closed"}
FailsWith == Handled
SetAllFutures ==
    /\ agent.phase = "destroyed"
    /\ agent' = [agent EXCEPT !.phase = "settled"]
    /\ LET failing == {f \in manager : agent.ended \in FailsWith /\ ~Cancelled(f) /\ ~fut[f].received}
       IN  /\ fut' = [f \in Futures |-> IF f \in failing THEN Settled(f, "finished", "error") ELSE fut[f]]
           /\ log' = [f \in Futures |-> IF f \in failing THEN CallbacksRun(f, "error") ELSE log[f]]
           /\ manager' = IF agent.ended \in FailsWith THEN {} ELSE manager
    /\ UNCHANGED <<thread, jobs, net, held, budget>>

\* run_task_forever: what is still on the loop is cancelled, then the loop is
\* closed.  A coroutine put on it in between never runs.
CancelPending ==
    /\ agent.phase = "settled"
    /\ agent' = [agent EXCEPT !.phase = "drained"]
    /\ LET failing == {f \in Futures : <<"fetch", f>> \in jobs /\ ~fut[f].received}
       IN  /\ fut' = [f \in Futures |-> IF f \in failing THEN Settled(f, "finished", "error") ELSE fut[f]]
           /\ log' = [f \in Futures |-> IF f \in failing THEN CallbacksRun(f, "error") ELSE log[f]]
    /\ GoTo(Main, IF <<"upload", Main>> \in jobs THEN Idle ELSE thread[Main])
    /\ jobs' = {}
    /\ UNCHANGED <<manager, net, held, budget>>

CloseLoop ==
    /\ agent.phase = "drained"
    /\ agent' = [agent EXCEPT !.phase = "closed"]
    /\ UNCHANGED <<fut, manager, thread, jobs, net, held, budget, log>>

\* Main's socket hears that the agent's is gone.
PipeCloses ==
    /\ net.pipe = "closing"
    /\ net' = [net EXCEPT !.pipe = "closed"]
    /\ UNCHANGED <<fut, manager, thread, agent, jobs, held, budget, log>>

-----------------------------------------------------------------------------
(* The scheduler, as the client meets it: once the agent's loop has ended  *)
(* nothing it does reaches anybody.                                        *)

Confirms(S) ==      \* the tasks of a graph before the graph itself
    LET targets == S \ Umbrellas
        all == {<<"confirm", f>> : f \in targets}
        order == CHOOSE q \in [1..Cardinality(all) -> all] : {q[i] : i \in DOMAIN q} = all
    IN  order \o (IF S \cap Umbrellas = {} THEN <<>>
                  ELSE <<<<"confirm", CHOOSE u \in S \cap Umbrellas : TRUE>>>>)

SchedulerReceives ==
    /\ ~stopEvent /\ net.outbox # <<>>
    /\ LET kind == Head(net.outbox)[1]
           what == Head(net.outbox)[2]
           mine == IF kind \in {"task", "cancel"} THEN held.tasks \cap Members(what) ELSE {}
           Answer(as) == net' = [net EXCEPT !.outbox = Tail(@), !.answers = @ \o as]
       IN  CASE kind = "task" -> held' = [held EXCEPT !.tasks = @ \cup Members(what)] /\ Answer(<<>>)
             [] kind = "cancel" ->
                  \/ mine # {} /\ held' = [held EXCEPT !.tasks = @ \ mine] /\ Answer(Confirms(mine))
                  \/ mine # {} /\ UNCHANGED held /\ Answer(<<>>)
                  \/ mine = {} /\ UNCHANGED held /\ Answer(<<<<"confirm", what>>>>)
             [] kind = "shutdown" -> UNCHANGED held /\ Answer(<<<<"shutdown", Main>>>>)
             [] OTHER -> UNCHANGED held /\ Answer(<<>>)      \* clear: of objects, not of tasks
    /\ UNCHANGED <<fut, manager, thread, agent, jobs, budget, log>>

Answered(as) == ~stopEvent /\ net' = [net EXCEPT !.answers = @ \o as]

\* A task is over; a graph is over when its targets are.
SchedulerAnswers(f, outcome) ==
    /\ f \in held.tasks
    /\ f \in Umbrellas => held.tasks \cap Members(f) = {f}
    /\ held' = [held EXCEPT !.tasks = @ \ {f}]
    /\ Answered(<<<<outcome, f>>>>)
    /\ UNCHANGED <<fut, manager, thread, agent, jobs, budget, log>>

\* A failed subtask, or one whose worker died, aborts its graph: every target and
\* the graph are answered alike, and the targets that are running are not canceled.
SchedulerAborts(u, outcome, running) ==
    /\ u \in Umbrellas \cap held.tasks
    /\ LET mine == held.tasks \cap Members(u)
           failed == [i \in DOMAIN Confirms(mine) |-> <<outcome, Confirms(mine)[i][2]>>]
       IN  /\ running \subseteq mine \ {u}
           /\ held' = [tasks |-> held.tasks \ mine, stray |-> held.stray \cup running]
           /\ Answered(failed)
    /\ UNCHANGED <<fut, manager, thread, agent, jobs, budget, log>>

\* What was left running ends, and is answered a second time.  (With whatever outcome:
\* the agent does not know the task any more, so one stands for all.)
StrayEnds(f) ==
    /\ f \in held.stray
    /\ held' = [held EXCEPT !.stray = @ \ {f}]
    /\ Answered(<<<<"value", f>>>>)
    /\ UNCHANGED <<fut, manager, thread, agent, jobs, budget, log>>

-----------------------------------------------------------------------------
Api ==
    \/ \E c \in Calls : Submit(c)
    \/ \E f \in Futures : AddFuture(f) \/ CancelNext(f) \/ ForceCanceled(f)
    \/ \E upload \in BOOLEAN : Commit(upload)
    \/ \E g \in Futures : SendTask(g)
    \/ Abandon \/ Collect \/ SendClear \/ Destroy
    \/ \E next \in {"clear", "disconnect", "shutdown"} : CancelAll(next)
    \/ \E next \in {"disconnect", "shutdown"} : SendQuit(next)

GetsOut(t, f) == CancelReturns(t, f) \/ ResultReady(t, f) \/ ResultReturns(t, f)

User(t) == \E f \in Futures : UserCancel(t, f) \/ Result(t, f) \/ AddDoneCallback(t, f) \/ GetsOut(t, f)

AgentLoop ==
    \/ FromClient \/ FromScheduler \/ ApplyResult
    \/ \E job \in jobs : JobDone(job)

Teardown == DestroyConnectors \/ SetAllFutures \/ CancelPending \/ CloseLoop \/ PipeCloses

Scheduler ==
    \/ SchedulerReceives
    \/ \E f \in Futures, outcome \in {"value", "error", "died"} : SchedulerAnswers(f, outcome)
    \/ \E u \in Futures, outcome \in {"error", "died"}, running \in SUBSET Futures : SchedulerAborts(u, outcome, running)
    \/ \E f \in Futures : StrayEnds(f)

Next ==
    \/ Api
    \/ \E t \in Users : User(t)
    \/ AgentLoop \/ Teardown \/ Scheduler
    \/ \E kind \in EventKinds \ {"clear"} : LoopFails(kind)

\* The agent's loop and the scheduler keep going, every upload and every fetch is
\* answered, and a thread that can go on inside a call does.  Nobody is obliged to
\* make a call.
Fairness ==
    /\ WF_vars(FromClient) /\ WF_vars(FromScheduler) /\ WF_vars(ApplyResult)
    /\ \A f \in Futures : WF_vars(JobDone(<<"fetch", f>>))
    /\ WF_vars(JobDone(<<"upload", Main>>))
    /\ WF_vars(Teardown)
    /\ WF_vars(SchedulerReceives)
    /\ \A f \in Futures : WF_vars(\E outcome \in {"value", "error"} : SchedulerAnswers(f, outcome))
    /\ \A t \in Users, f \in Futures : WF_vars(GetsOut(t, f))
    /\ WF_vars(\E f \in Futures : AddFuture(f) \/ CancelNext(f) \/ ForceCanceled(f))
    /\ WF_vars((\E upload \in BOOLEAN : Commit(upload)) \/ (\E g \in Futures : SendTask(g)) \/ Collect \/ SendClear \/ Destroy)
    /\ WF_vars(\E next \in {"disconnect", "shutdown"} : SendQuit(next))

Spec == Init /\ [][Next]_vars
FairSpec == Spec /\ Fairness

-----------------------------------------------------------------------------
(* Properties.                                                             *)

\* The object of a result is asked for at most once, whoever gets there first: the
\* agent when the task ends, a callback, or any thread in result().  The fetch of a
\* simple task deletes the object, so a second one would wait for ever.
FetchedOnce == \A f \in Futures : log[f].fetched <= 1

\* Whatever the order in which answers, cancels, disconnects and failures meet, no
\* future is settled twice in a way that raises InvalidStateError into the agent's
\* loop: that would end the agent and leave every other future unsettled.
AgentSurvives == agent.ended # "invalid"

\* An outcome is final: an object that arrives late, a second answer or the end of
\* the agent never replaces it.  Only canceling everything overrides it.
OutcomeFinal ==
    [][\A f \in Futures :
          fut[f].received => fut'[f].outcome \in {fut[f].outcome, "cancelled"}]_vars

\* clear() waits for every future before it lets the objects go, and the clear does
\* not overtake a task or a cancel on its way: of the tasks submitted before it, the
\* scheduler works at most on subtasks of a graph it has aborted and answered for as
\* a whole, whose futures are done although they run (ClearAfterTasks is the claim
\* without this exception).
LeftRunning(f) == f \in held.stray \ held.tasks /\ fut[f].group # f /\ fut[f].group \notin held.tasks
ClearAfterFutures ==
    \A i \in DOMAIN net.outbox :
        net.outbox[i][1] = "clear" =>
            \A f \in net.outbox[i][2] \cap (held.tasks \cup held.stray) : LeftRunning(f)

\* When the agent ends for a reason it knows, every future that was registered by
\* then is done: no thread is left waiting for the scheduler.
NoneLeftRunning ==
    agent.phase = "closed" /\ agent.ended \in Handled
        => \A f \in Futures : fut[f].state = "running" => log[f].late

\* Every future is settled once: its object is fetched once, nothing settles it a
\* second time, and the end of the agent leaves none behind.
SettledOnce == TypeOK /\ FetchedOnce /\ AgentSurvives /\ NoneLeftRunning

\* A fetch put on the loop after its coroutines were cancelled: it never ends.
Orphaned(f) == agent.phase \in {"drained", "closed"} /\ <<"fetch", f>> \in jobs

\* A thread inside cancel(), result() or exception() gets out, also when the
\* agent ends under it; so does Main, waiting for what its call made or for what
\* it cancels, unless a call that raised had left the future behind.
Unanswerable(f) == log[f].late \/ log[f].unsent \/ Orphaned(f)
WaitsOn(t) == IF thread[t].op = "forcing" THEN {thread[t].next[1]} ELSE thread[t].todo
Waits(t) ==
    /\ thread[t].op \in {"canceling", "result", "object", "forcing", "collect"}
    /\ \A f \in WaitsOn(t) : ~Unanswerable(f)
WaitersReturn == \A t \in Threads : Waits(t) ~> ~Waits(t)

\* A callback runs, also on a delayed future nobody asks for its result.
CallbackDue(f) == fut[f].callbacks = 1 /\ log[f].called = 0 /\ ~Unanswerable(f)
CallbacksCome == (\E f \in Futures : CallbackDue(f)) ~> ~(\E f \in Futures : CallbackDue(f))

\* Nobody waits in vain: threads return from their calls and callbacks run.
EverybodyAnswered == WaitersReturn /\ CallbacksCome

-----------------------------------------------------------------------------
(* What the code's comments claim and the code does not keep.              *)

\* What clear() says of its wait, "all running futures are cancelled/finished before
\* clearing object, or else we might end up with tasks indefinitely waiting on no
\* longer existing objects": when the agent passes a clear on, the scheduler works on
\* no task submitted before it.
ClearAfterTasks ==
    \A i \in DOMAIN net.outbox :
        net.outbox[i][1] = "clear" => net.outbox[i][2] \cap (held.tasks \cup held.stray) = {}

\* What cancel() says of its wait, "for the answer from the server, can either be a
\* cancel confirmation, or the results": whoever cancels everything (clear,
\* disconnect, shutdown) gets an answer for every future and goes on.
CancelAnswered == thread[Main].op = "forcing" ~> thread[Main].op # "forcing"
=============================================================================
