--------------------------- MODULE GraphController ---------------------------
(***************************************************************************)
(* VanillaGraphTaskController: one graph of tasks, its nodes as subtasks   *)
(* of the task controller, and the coroutines of the scheduler that meet   *)
(* in it.  The task controller appears with what concerns a subtask: its   *)
(* machine, the lock of the machine, and the arms of __route that call     *)
(* back into the graph controller.                                         *)
(*                                                                         *)
(* The scheduler is one asyncio event loop.  stack[c] holds the frames in  *)
(* which coroutine c is suspended, innermost first.  A coroutine that has  *)
(* not reached an await that yields is in hot, and no other one may run.   *)
(* Awaits that yield: the lock of a machine, asyncio.gather of anything,   *)
(* the duplication of an object.  A detached send does not.                *)
(***************************************************************************)
EXTENDS Integers, Sequences, FiniteSets

CONSTANTS
    Node,       \* ids of the subtasks
    Umbrella,   \* id of the graph task
    Deps,       \* Deps[n]: the nodes whose results are arguments of n
    Targets,    \* the nodes whose results the client asked for
    Limit       \* bounds: how often each environment event may happen

Id        == Node \cup {Umbrella}
Nobody    == "nobody"
\* the graph routine, the receiver of messages, the timers of the client and worker controllers
Loop      == {"graph", "binder", "clients", "workers"}
\* the children of asyncio.gather are named after the subtasks that they cancel
Coroutine == Loop \cup Node
Bounded   == {"cancel", "disconnect", "loss"}
NodeState == {"Inactive", "Running", "Canceled", "Failed", "Success"}
Status    == {"absent", "queued", "Running", "Canceling", "Aborting", "gone"}
Machine   == {"none", "inactive", "running", "canceling", "cancelingSoft", "ended"}
Canceling == {"canceling", "cancelingSoft"}

ASSUME IdAssumption    == Umbrella \notin Node /\ (Loop \cup {Nobody}) \cap Node = {}
ASSUME DepsAssumption  == Deps \in [Node -> SUBSET Node] /\ Targets \subseteq Node
\* Client.__check_graph rejects a graph with a cycle before it is sent
ASSUME DagAssumption   == \A s \in (SUBSET Node) \ {{}} : \E n \in s : Deps[n] \cap s = {}
ASSUME GraphLimitAssumption == Limit \in [Bounded -> Nat]

VARIABLES
    g,          \* the graph and what its handlers change elsewhere, see TypeOK
    machine,    \* machine[n]: state of the subtask in the task controller
    stack,      \* stack[c]: frames of coroutine c, innermost first
    hot,        \* the coroutine that runs, or Nobody
    connected,  \* the client is known to the client controller
    cleaned,    \* clean_client was called for it
    raised,     \* the coroutines that an exception of a handler has ended
    budget      \* how many more of each Bounded event may happen

loops == <<stack, hot, raised>>
world == <<connected, cleaned, budget>>
vars  == <<g, machine, loops, world>>

------------------------------------------------------------------------------
(* Frames: where a coroutine continues. *)

Frame(at, i, event, todo, seen) == [at |-> at, id |-> i, event |-> event, todo |-> todo, seen |-> seen]
RouteFrame(n, event)   == Frame("route", n, event, {}, {})         \* waits for the lock of n
CommitFrame(n)         == Frame("commit", n, "", {}, {})           \* __retry_unassignable, then commit
StartFrame(todo)       == Frame("start", Umbrella, "", todo, {})   \* the loop of __check_one_graph
CancelFrame(n)         == Frame("cancel", n, "", {}, {})           \* a child of the gather, not started
GatherFrame(todo)      == Frame("gather", Umbrella, "", todo, {})
SweepFrame(seen)       == Frame("sweep", Umbrella, "", {}, seen)   \* __cancel_whole_graph after the gather
AbortFrame(todo, seen) == Frame("abort", Umbrella, "", todo, seen) \* the loops of __abort_whole_graph
EndFrame(what)         == Frame("end", Umbrella, what, {}, {})     \* the messages about the nodes are gathered
DuplicateFrame(n)      == Frame("duplicate", n, "", {}, {})
ConfirmFrame(i)        == Frame("confirm", i, "", {}, {})          \* the end of on_task_cancel
CancelAllFrame(todo)   == Frame("cancelAll", Umbrella, "", todo, {})

Yields(f) ==
    \/ f.at \in {"route", "commit", "cancel", "duplicate", "end"}
    \/ f.at = "gather" /\ f.todo # {}

------------------------------------------------------------------------------
(* The topological sorter. *)

IsActive(s) == Cardinality(s.done) < Cardinality(s.visited) \/ s.ready # {}

CanBeDone(s, n) == n \in s.visited \ s.done

SorterDone(s, n) ==
    LET done == s.done \cup {n}
        new  == {m \in Node \ s.visited : Deps[m] \subseteq done}
    IN  [s EXCEPT !.done = done, !.visited = @ \cup new, !.ready = @ \cup new]

------------------------------------------------------------------------------
(* A handler maps g to a new value and the frames in which it goes on; ok  *)
(* is FALSE if it raises.                                                  *)

HasGraph(s) == s.status \in {"Running", "Canceling", "Aborting"}

IsGraphFinished(s) == ~HasGraph(s) \/ (~IsActive(s) /\ s.running = {})

Go(s, frames)  == [s |-> s, push |-> frames, ok |-> TRUE]
Fail(s)        == [s |-> s, push |-> <<>>, ok |-> FALSE]

Tell(s, ids, what) == [s EXCEPT !.told = [i \in Id |-> IF i \in ids THEN Append(@[i], what) ELSE @[i]]]

EndUmbrella_NotPopped(s, what) == Go(Tell(s, {Umbrella}, what), <<>>)

EndUmbrella_KeepsIds(s, what) ==
    IF Umbrella \in s.ids
    THEN Go(Tell([s EXCEPT !.ids = @ \ {Umbrella}, !.status = "gone", !.owned = @ \ {Umbrella}], {Umbrella}, what), <<>>)
    ELSE Fail(s)

\* __pop_graph and the message about the umbrella task
EndUmbrella(s, what) ==
    IF Umbrella \in s.ids
    THEN Go(Tell([s EXCEPT !.ids = {}, !.status = "gone", !.owned = @ \ {Umbrella}], {Umbrella}, what), <<>>)
    ELSE Fail([s EXCEPT !.owned = @ \ {Umbrella}])


CleanIntermediateResult_Never(s, n) == [s EXCEPT !.pairs = {p \in @ : p[2] # n}]

\* the pairs of ManyToManyDict that n leaves behind, and the results nobody needs any more
CleanIntermediateResult(s, n) ==
    LET pairs  == {p \in s.pairs : p[2] # n}
        unused == {d \in Deps[n] : d \notin Targets /\ ~\E p \in pairs : p[1] = d}
    IN  [s EXCEPT !.pairs = pairs, !.objects = @ \ unused]

MarkNodeDone(s, n, type) ==
    IF n \notin s.ids \/ ~HasGraph(s) THEN Fail([s EXCEPT !.ids = @ \ {n}])
    ELSE LET marked == CleanIntermediateResult(
                           [s EXCEPT !.ids = @ \ {n}, !.result[n] = type,
                                     !.node[n] = IF type = "success" THEN "Success" ELSE "Failed"], n)
         IN  IF CanBeDone(s, n)
             THEN Go([SorterDone(marked, n) EXCEPT !.running = @ \ {n}], <<>>)
             ELSE Fail(marked)

MarkNodeCanceled(s, i) ==
    IF i \notin Node THEN Go(s, <<>>)
    ELSE LET marked == [s EXCEPT !.node[i] = "Canceled"]
         IN  IF CanBeDone(s, i)
             THEN Go([SorterDone(marked, i) EXCEPT !.running = @ \ {i}], <<>>)
             ELSE Fail(marked)

CheckOneGraph(s) ==
    IF ~IsActive(s) THEN EndUmbrella(s, "success")
    ELSE Go([s EXCEPT !.ready = {}], IF s.ready = {} THEN <<>> ELSE <<StartFrame(s.ready)>>)

CancelWholeGraph_Self(s) ==
    IF IsGraphFinished(s) THEN EndUmbrella(s, "canceled")
    ELSE IF s.status \in {"Canceling", "Aborting"} THEN Go(s, <<>>)
    ELSE Go([s EXCEPT !.status = "Canceling"],
            <<GatherFrame({n \in Node : s.node[n] \in {"Running", "Canceled"}}), SweepFrame({})>>)

CancelWholeGraph(s) ==
    IF IsGraphFinished(s) THEN EndUmbrella(s, "canceled")
    ELSE IF s.status \in {"Canceling", "Aborting"} THEN Go(s, <<>>)
    ELSE Go([s EXCEPT !.status = "Canceling"], <<GatherFrame(s.running), SweepFrame({})>>)

AbortWholeGraph(s) ==
    IF IsGraphFinished(s) THEN EndUmbrella(s, "failed")
    ELSE Go([s EXCEPT !.status = "Aborting"], <<AbortFrame(s.running, {})>>)

OnGraphSubTaskCancelConfirm(s, i) ==
    IF ~(i \in s.ids /\ HasGraph(s)) THEN Go(s, <<>>)
    ELSE LET m == MarkNodeCanceled(s, i)
         IN  IF m.ok THEN CancelWholeGraph(m.s) ELSE m

OnGraphSubTaskResult_NoAbort(s, n, type) ==
    IF ~(n \in s.ids /\ HasGraph(s)) THEN Go(s, <<>>)
    ELSE IF s.status = "Canceling" THEN OnGraphSubTaskCancelConfirm(s, n)
    ELSE LET m == MarkNodeDone(s, n, type) IN IF m.ok THEN CheckOneGraph(m.s) ELSE m

OnGraphSubTaskResult(s, n, type) ==
    IF ~(n \in s.ids /\ HasGraph(s)) THEN Go(s, <<>>)
    ELSE IF s.status = "Canceling" THEN OnGraphSubTaskCancelConfirm(s, n)
    ELSE LET m == MarkNodeDone(s, n, type)
         IN  IF ~m.ok THEN m
             ELSE IF type = "success" THEN CheckOneGraph(m.s)
             ELSE AbortWholeGraph(m.s)

------------------------------------------------------------------------------
(* Running a coroutine up to its next await that yields. *)

Runs(c)    == hot \in {Nobody, c} /\ stack[c] # <<>>
Idle(c)    == hot = Nobody /\ stack[c] = <<>>
Top(c)     == Head(stack[c])
At(c, at)  == Runs(c) /\ Top(c).at = at
Below(c)   == Tail(stack[c])

\* the lock of a machine is held from an arm that settles the task to its commit
Locked(n) == \E c \in Coroutine : \E k \in 1..Len(stack[c]) : stack[c][k] = CommitFrame(n)

\* coroutine c goes on with frames; asyncio.gather makes a task of every child
Continue(c, frames) ==
    LET kids == IF frames # <<>> /\ Head(frames).at = "gather" THEN Head(frames).todo ELSE {}
    IN  /\ stack' = [d \in Coroutine |-> IF d = c THEN frames
                                        ELSE IF d \in kids THEN <<CancelFrame(d)>>
                                        ELSE stack[d]]
        /\ hot' = IF frames = <<>> \/ Yields(Head(frames)) THEN Nobody ELSE c

\* An exception is caught by the innermost __route, which fails its task, or
\* by the loop of the coroutine.  A child of a gather passes it to its parent.
Catchers(frames) == {k \in 1..Len(frames) : frames[k].at = "commit"}
Catcher(frames)  == CHOOSE k \in Catchers(frames) : \A j \in Catchers(frames) : k <= j
Unwound(frames)  == IF Catchers(frames) = {} THEN <<>>
                    ELSE SubSeq(frames, Catcher(frames) + 1, Len(frames))

Raise(c, frames) ==
    LET left   == [d \in Coroutine |-> IF d = c THEN frames ELSE stack[d]]
        passed == {d \in Coroutine : /\ c \in Node /\ Catchers(frames) = {}
                                     /\ stack[d] # <<>> /\ Top(d).at = "gather" /\ c \in Top(d).todo}
        hit    == {c} \cup passed
        failed == {left[d][Catcher(left[d])].id : d \in {e \in hit : Catchers(left[e]) # {}}}
    IN  /\ stack' = [d \in Coroutine |-> IF d \in hit THEN Unwound(left[d]) ELSE left[d]]
        /\ hot' = Nobody
        /\ machine' = [n \in Node |-> IF n \in failed THEN "ended" ELSE machine[n]]
        /\ raised' = raised \cup {d \in hit : Catchers(left[d]) = {}}

\* c runs a handler and then goes on with the frames below
Perform(c, out, below) ==
    /\ g' = out.s
    /\ IF out.ok
       THEN Continue(c, out.push \o below) /\ UNCHANGED <<machine, raised>>
       ELSE Raise(c, below)

------------------------------------------------------------------------------
(* The task controller, as far as subtasks and the graph are concerned. *)

\* on_task_cancel: route the event, or answer for a task without a machine
OnTaskCancel(c, i, event, below) ==
    IF i \in Node /\ machine[i] \notin {"none", "ended"}
    THEN Continue(c, <<RouteFrame(i, event)>> \o below) /\ UNCHANGED <<g, machine, raised>>
    ELSE Perform(c, OnGraphSubTaskCancelConfirm(g, i), <<ConfirmFrame(i)>> \o below)

\* __send_task_result_to_client and __send_task_cancel_confirm_to_client with the lock held
Settle(c, n, what) ==
    LET s == Tell([g EXCEPT !.owned = @ \ {n}], g.owned \cap {n}, what)
    IN  Perform(c, IF what \in {"success", "failed"} THEN OnGraphSubTaskResult(s, n, what)
                   ELSE OnGraphSubTaskCancelConfirm(s, n),
                <<CommitFrame(n)>> \o Below(c))

Commits(c, n, state) ==
    /\ machine' = [machine EXCEPT ![n] = state]
    /\ Continue(c, Below(c))
    /\ UNCHANGED <<g, raised>>

RouteHasCapacity(c, n, event) ==
    event = "capacity" /\ machine[n] = "inactive" /\ Commits(c, n, "running")

RouteTaskCancel(c, n, event) ==
    /\ event \in {"cancel", "softCancel"}
    /\ \/ machine[n] = "inactive" /\ Settle(c, n, "canceled")
       \/ /\ machine[n] = "running"
          /\ IF \E d \in Coroutine : d = "workers" /\ stack[d] # <<>> /\ Top(d).id = n
             THEN Settle(c, n, "notFound")   \* remove_worker ran, no worker holds the task
             ELSE /\ machine' = [machine EXCEPT ![n] = IF event = "cancel" THEN "canceling" ELSE "cancelingSoft"]
                  /\ g' = [g EXCEPT !.owned = @ \cup {n}]
                  /\ Continue(c, Below(c))
                  /\ UNCHANGED raised

RouteTaskResult(c, n, event) ==
    event \in {"success", "failed"} /\ machine[n] = "running" /\ Settle(c, n, event)

RouteCancelConfirm(c, n, event) ==
    /\ machine[n] \in Canceling
    /\ \/ event = "confirm" /\ Settle(c, n, "canceled")
       \/ event = "refused" /\ Commits(c, n, "running")

RouteWorkerDisconnect(c, n, event) ==
    /\ event = "lost"
    /\ \/ machine[n] = "running" /\ \E to \in {"inactive", "running"} : Commits(c, n, to)
       \/ machine[n] \in Canceling /\ Settle(c, n, "canceled")

\* the arms of __route; an event that is not permitted changes nothing
Arm(c, n, event) ==
    \/ RouteHasCapacity(c, n, event) \/ RouteTaskCancel(c, n, event)
    \/ RouteTaskResult(c, n, event) \/ RouteCancelConfirm(c, n, event)
    \/ RouteWorkerDisconnect(c, n, event)

Permitted(n, event) ==
    CASE event = "capacity"               -> machine[n] = "inactive"
      [] event \in {"cancel", "softCancel"} -> machine[n] \in {"inactive", "running"}
      [] event \in {"success", "failed"}  -> machine[n] = "running"
      [] event \in {"confirm", "refused"} -> machine[n] \in Canceling
      [] event = "lost"                   -> machine[n] \in {"running"} \cup Canceling

Route(c) ==
    /\ At(c, "route")
    /\ ~Locked(Top(c).id)
    /\ IF Permitted(Top(c).id, Top(c).event)
       THEN Arm(c, Top(c).id, Top(c).event)
       ELSE Continue(c, Below(c)) /\ UNCHANGED <<g, machine, raised>>
    /\ UNCHANGED world

Commit(c) ==
    /\ At(c, "commit")
    /\ Commits(c, Top(c).id, "ended")
    /\ UNCHANGED world

\* a child of the gather runs on_task_cancel with force
CancelChild(c) ==
    /\ At(c, "cancel")
    /\ OnTaskCancel(c, Top(c).id, "cancel", Below(c))
    /\ UNCHANGED world

Confirm(c) ==
    /\ At(c, "confirm")
    /\ g' = Tell(g, {Top(c).id}, "notFound")
    /\ Continue(c, Below(c))
    /\ UNCHANGED <<machine, raised, world>>

Grant_NodeState(n) ==
    /\ hot = Nobody /\ ~Locked(n)
    /\ machine[n] = "inactive"
    /\ machine' = [machine EXCEPT ![n] = "Running"]
    /\ UNCHANGED <<g, loops, world>>

\* __retry_unassignable or on_worker_connect finds a worker for a subtask on hold
Grant(n) ==
    /\ hot = Nobody /\ ~Locked(n)
    /\ machine[n] = "inactive"
    /\ ~\E c \in Coroutine : stack[c] # <<>> /\ Top(c) = RouteFrame(n, "capacity")
    /\ machine' = [machine EXCEPT ![n] = "running"]
    /\ UNCHANGED <<g, loops, world>>

------------------------------------------------------------------------------
(* The graph controller. *)

AddNewGraph ==
    /\ Idle("graph") /\ g.status = "queued"
    /\ LET roots == {n \in Node : Deps[n] = {}}
           new   == [g EXCEPT !.status = "Running", !.ids = Id, !.owned = @ \cup {Umbrella},
                              !.ready = roots, !.visited = roots]
       IN  Perform("graph", CheckOneGraph(new), <<>>)
    /\ UNCHANGED world

\* one turn of the loop in __check_one_graph: start a subtask with on_task_new
StartSubtask(c) ==
    /\ At(c, "start")
    /\ \E n \in Top(c).todo :
          LET rest  == Top(c).todo \ {n}
              below == (IF rest = {} THEN <<>> ELSE <<StartFrame(rest)>>) \o Below(c)
              begun == [g EXCEPT !.node[n] = "Running", !.running = @ \cup {n}]
          IN  IF \E d \in Deps[n] : ~HasGraph(g) \/ g.result[d] = "none"
              THEN g' = begun /\ Raise(c, below)
              ELSE /\ g' = [begun EXCEPT !.owned = @ \cup {n}]
                   /\ machine' = [machine EXCEPT ![n] = "inactive"]
                   /\ \/ Continue(c, below)                                \* on hold
                      \/ Continue(c, <<RouteFrame(n, "capacity")>> \o below)
                   /\ UNCHANGED raised
    /\ UNCHANGED world

GatherDone(c) ==
    /\ At(c, "gather")
    /\ \A n \in Top(c).todo : stack[n] = <<>>
    /\ Continue(c, Below(c))
    /\ UNCHANGED <<g, machine, raised, world>>

\* if the graph is finished, tell what became of it
EndIfFinished(s, what) == IF IsGraphFinished(s) THEN EndUmbrella(s, what) ELSE Go(s, <<>>)

\* send the messages about the nodes in ids; gathering any of them yields
SendAndEnd(s, ids, what) ==
    IF ids = {} THEN EndIfFinished(s, what)
    ELSE Go(Tell(s, ids, what), <<EndFrame(what)>>)

\* cancel the inactive nodes in the order in which they become ready
SweepInactive(c) ==
    /\ At(c, "sweep")
    /\ IF IsActive(g) /\ g.ready # {}
       THEN \E n \in g.ready :
               Perform(c, MarkNodeCanceled([g EXCEPT !.ready = @ \ {n}], n),
                       <<SweepFrame(Top(c).seen \cup {n})>> \o Below(c))
       ELSE Perform(c, SendAndEnd(g, Top(c).seen, "canceled"), Below(c))
    /\ UNCHANGED world

End(c) ==
    /\ At(c, "end")
    /\ Perform(c, EndIfFinished(g, Top(c).event), Below(c))
    /\ UNCHANGED world

AbortNodes_RunningOnly(c) ==
    /\ At(c, "abort")
    /\ LET seen == Top(c).seen
       IN  IF Top(c).todo # {}
           THEN /\ \E n \in Top(c).todo :
                      Continue(c, <<DuplicateFrame(n), AbortFrame(Top(c).todo \ {n}, seen \cup {n})>> \o Below(c))
                /\ UNCHANGED <<g, machine, raised>>
           ELSE Perform(c, SendAndEnd(g, seen, "failed"), Below(c))
    /\ UNCHANGED world

AbortNodes(c) ==
    /\ At(c, "abort")
    /\ LET seen == Top(c).seen
       IN  IF Top(c).todo # {}
           THEN /\ \E n \in Top(c).todo :
                      Continue(c, <<DuplicateFrame(n), AbortFrame(Top(c).todo \ {n}, seen \cup {n})>> \o Below(c))
                /\ UNCHANGED <<g, machine, raised>>
           ELSE IF IsActive(g) /\ g.ready # {}
           THEN Perform(c, Go([g EXCEPT !.ready = {}], <<AbortFrame(g.ready, seen)>>), Below(c))
           ELSE Perform(c, SendAndEnd(g, seen, "failed"), Below(c))
    /\ UNCHANGED world

\* the copy of the error object is there: mark the node
Duplicated(c) ==
    /\ At(c, "duplicate")
    /\ LET n == Top(c).id
       IN  Perform(c, MarkNodeDone([g EXCEPT !.objects = @ \cup {n}], n, "failed"), Below(c))
    /\ UNCHANGED world

------------------------------------------------------------------------------
(* Messages and timers. *)

Spend(event) == budget[event] > 0 /\ budget' = [budget EXCEPT ![event] = @ - 1]

OnGraphTask ==
    /\ Idle("binder") /\ connected /\ g.status = "absent"
    /\ g' = [g EXCEPT !.status = "queued"]
    /\ UNCHANGED <<machine, loops, world>>

\* TaskCancel from the client, for the graph or for one of its nodes
ReceiveTaskCancel(i) ==
    /\ Idle("binder") /\ connected /\ g.status # "absent"
    /\ Spend("cancel")
    /\ IF i \in g.ids
       THEN Perform("binder", IF HasGraph(g) THEN CancelWholeGraph(g) ELSE Go(g, <<>>), <<>>)
       ELSE OnTaskCancel("binder", i, "cancel", <<>>)
    /\ UNCHANGED <<connected, cleaned>>

\* a worker reports a result, whose object it announced before, or answers a cancel
ReceiveReport(n, event) ==
    /\ Idle("binder")
    /\ \/ machine[n] = "running" /\ event \in {"success", "failed"}
       \/ machine[n] \in Canceling /\ event = "confirm"
       \/ machine[n] = "cancelingSoft" /\ event = "refused"
    /\ g' = [g EXCEPT !.objects = IF connected /\ event \in {"success", "failed"} THEN @ \cup {n} ELSE @]
    /\ Continue("binder", <<RouteFrame(n, event)>>)
    /\ UNCHANGED <<machine, raised, world>>

\* the worker that holds n is removed; its tasks are routed one by one
LoseWorker(n) ==
    /\ Idle("workers") /\ machine[n] \in {"running"} \cup Canceling
    /\ Spend("loss")
    /\ Continue("workers", <<RouteFrame(n, "lost")>>)
    /\ UNCHANGED <<g, machine, raised, connected, cleaned>>

\* the client says goodbye or is silent for too long: cancel its tasks, then clean its objects
OnClientDisconnect ==
    /\ Idle("clients") /\ connected
    /\ Spend("disconnect")
    /\ connected' = FALSE
    /\ Continue("clients", <<CancelAllFrame(g.owned)>>)
    /\ UNCHANGED <<g, machine, raised, cleaned>>

CancelAllTasks(c) ==
    /\ At(c, "cancelAll")
    /\ IF Top(c).todo = {}
       THEN /\ g' = [g EXCEPT !.objects = {}]
            /\ cleaned' = TRUE
            /\ Continue(c, Below(c))
            /\ UNCHANGED <<machine, raised>>
       ELSE /\ \E i \in Top(c).todo :
                  OnTaskCancel(c, i, "softCancel", <<CancelAllFrame(Top(c).todo \ {i})>> \o Below(c))
            /\ UNCHANGED cleaned
    /\ UNCHANGED <<connected, budget>>

------------------------------------------------------------------------------
Init ==
    /\ g = [status |-> "absent", ids |-> {}, ready |-> {}, visited |-> {}, done |-> {},
            node |-> [n \in Node |-> "Inactive"], running |-> {},
            pairs |-> {p \in Node \X Node : p[1] \in Deps[p[2]]},
            result |-> [n \in Node |-> "none"],
            owned |-> {}, objects |-> {}, told |-> [i \in Id |-> <<>>]]
    /\ machine = [n \in Node |-> "none"]
    /\ stack = [c \in Coroutine |-> <<>>]
    /\ hot = Nobody
    /\ connected = TRUE /\ cleaned = FALSE
    /\ raised = {}
    /\ budget = Limit

Resume(c) ==
    \/ Route(c) \/ Commit(c) \/ CancelChild(c) \/ Confirm(c)
    \/ StartSubtask(c) \/ GatherDone(c) \/ SweepInactive(c) \/ End(c)
    \/ AbortNodes(c) \/ Duplicated(c) \/ CancelAllTasks(c)

Report(n) == \E event \in {"success", "failed", "confirm", "refused"} : ReceiveReport(n, event)

Quiet == /\ g.status # "queued"
         /\ \A c \in Coroutine : stack[c] = <<>>
         /\ \A n \in Node : machine[n] \in {"none", "ended"}
         /\ UNCHANGED vars

Next ==
    \/ \E c \in Coroutine : Resume(c)
    \/ \E n \in Node : Grant(n) \/ Report(n) \/ LoseWorker(n)
    \/ \E i \in Id : ReceiveTaskCancel(i)
    \/ AddNewGraph \/ OnGraphTask \/ OnClientDisconnect
    \/ Quiet

Spec == Init /\ [][Next]_vars

------------------------------------------------------------------------------
(* Properties. *)

Outcomes(i) == SelectSeq(g.told[i], LAMBDA what : what # "notFound")
Ended(i)    == Outcomes(i) # <<>>

\* Every variable has its type: the graph's record, the machines of its nodes, the
\* coroutine that runs, and the client's connection.
TypeOK ==
    /\ g \in [status : Status, ids : SUBSET Id, ready : SUBSET Node, visited : SUBSET Node, done : SUBSET Node,
              node : [Node -> NodeState], running : SUBSET Node, pairs : SUBSET (Node \X Node),
              result : [Node -> {"none", "success", "failed"}],
              owned : SUBSET Id, objects : SUBSET Node,
              told : [Id -> Seq({"success", "failed", "canceled", "notFound"})]]
    /\ machine \in [Node -> Machine]
    /\ hot \in Coroutine \cup {Nobody}
    /\ connected \in BOOLEAN /\ cleaned \in BOOLEAN
    /\ raised \subseteq Coroutine

\* The client is told about the graph once, and about a node once unless the
\* graph is aborted: the failure that __abort_whole_graph sends for a running
\* node is followed by what its worker reports.
ToldOnce ==
    /\ Len(Outcomes(Umbrella)) <= 1
    /\ \A n \in Node : Len(Outcomes(n)) > 1 => g.node[n] = "Failed" /\ Outcomes(n)[1] = "failed"

\* A graph is reported as a success only if all of its nodes succeeded, and
\* as canceled only if none failed: __done_graph_umbrella_task and
\* __cancel_graph_umbrella_task come last, and tell a client that is still
\* there what became of the nodes.
UmbrellaTruthful ==
    connected =>
        /\ Outcomes(Umbrella) = <<"success">>  => \A n \in Node : g.node[n] = "Success"
        /\ Outcomes(Umbrella) = <<"canceled">> => \A n \in Node : g.node[n] \in {"Success", "Canceled"}

\* The client is told once, and the truth.
ToldTruth == ToldOnce /\ UmbrellaTruthful


\* A graph that succeeded leaves the results of its targets, nothing else.
OnlyTargetsRemain ==
    connected /\ Outcomes(Umbrella) = <<"success">> => g.objects \subseteq Targets

\* No id of a graph outlives it, and as long as its client is there none of
\* its nodes is started or marked after it is gone (__pop_graph;
\* __check_one_graph and __abort_whole_graph go on after awaits).
NothingLeftBehind ==
    g.status = "gone" =>
        /\ g.ids = {} /\ Umbrella \notin g.owned
        /\ connected => \A d \in Coroutine : \A k \in 1..Len(stack[d]) :
                           stack[d][k].at \notin {"start", "abort", "duplicate"}

\* A graph ends cleanly: its record stays well formed while its handlers
\* interleave, and nothing is left of it but the results of its targets.
CleanEnd == TypeOK /\ OnlyTargetsRemain /\ NothingLeftBehind

\* A coroutine waits for the holder of a lock, or for the children it gathers.
WaitsFor(d, e) ==
    stack[d] # <<>> /\ \/ Top(d).at = "gather" /\ e \in Top(d).todo /\ stack[e] # <<>>
                       \/ Top(d).at = "route" /\ \E k \in 1..Len(stack[e]) : stack[e][k] = CommitFrame(Top(d).id)

\* Handlers that cancel the other subtasks with the lock of one held do not
\* wait for each other in a cycle (the comment in __cancel_whole_graph).
WaitAcyclic ==
    LET waiting == {d \in Coroutine : \E e \in Coroutine : WaitsFor(d, e)}
    IN  \A cycle \in (SUBSET waiting) \ {{}} : \E d \in cycle : \A e \in cycle : ~WaitsFor(d, e)

Underway == \/ \E d \in Coroutine : stack[d] # <<>>
            \/ \E n \in Node : machine[n] \notin {"none", "ended"}

\* A graph that nobody canceled is never left with nothing under way that
\* could end it, though its nodes end and start in handlers that interleave.
NeverForgotten == g.status \in {"Running", "Aborting"} /\ connected => Underway

\* A graph makes progress: its handlers do not wait for each other, and something
\* is under way that ends it.
NeverStuck == WaitAcyclic /\ NeverForgotten

-----------------------------------------------------------------------------
(* What the code's comments claim and the code does not keep.              *)

\* Canceling a graph reaches every node: it is never forgotten half canceled.
CancelReachesAll == g.status = "Canceling" => Underway

\* When the coroutine that disconnects a client has ended, the objects of the
\* client were given up.
CleanDisconnect ==
    ~connected /\ stack["clients"] = <<>> => cleaned

=============================================================================
