------------------------- MODULE TaskControllerProofs -------------------------
(***************************************************************************)
(* Theorems about TaskController for any set of tasks and workers, any     *)
(* queue sizes, either policy and any bounds on the environment.           *)
(***************************************************************************)
EXTENDS TaskController, FiniteSetTheorems, TLAPS

-----------------------------------------------------------------------------
(* The allocation policy maps books to books.                              *)

(* add_worker keeps the shape of the books.                                *)
LEMMA AddWorkerType ==
    ASSUME NEW b \in Books, NEW w \in Worker
    PROVE  AddWorker(b, w) \in Books
  BY DEF Books, AddWorker

(* assign_task answers a worker or the invalid id.                         *)
LEMMA AssignTaskType ==
    ASSUME NEW b \in Books, NEW t \in Task
    PROVE  AssignTask(b, t) \subseteq Worker \cup {NoWorker}
  <1>1. b.registered \subseteq Worker /\ b.holder[t] \in Worker \cup {NoWorker}
    BY DEF Books
  <1>2. Candidates(b, t) \subseteq Worker
    BY <1>1 DEF Candidates
  <1>3. LeastLoaded(b, Candidates(b, t)) \subseteq Worker
    BY <1>2 DEF LeastLoaded
  <1> QED  BY <1>1, <1>3 DEF AssignTask

(* What assign_task writes keeps the shape of the books.                   *)
LEMMA AssignedType ==
    ASSUME NEW b \in Books, NEW t \in Task, NEW w \in Worker
    PROVE  Assigned(b, t, w) \in Books
  BY DEF Books, Assigned

(* remove_task keeps the shape of the books.                               *)
LEMMA RemoveTaskType ==
    ASSUME NEW b \in Books, NEW t \in Task
    PROVE  RemoveTask(b, t) \in Books
  BY DEF Books, RemoveTask

(* remove_worker keeps the shape of the books.                             *)
LEMMA WithoutWorkerType ==
    ASSUME NEW b \in Books, NEW w \in Worker, NEW popped
    PROVE  WithoutWorker(b, w, popped) \in Books
  BY DEF Books, WithoutWorker

(* The grants of __acquire_workers keep the shape of the books.            *)
LEMMA GrantedType ==
    ASSUME NEW b \in Books, NEW u \in Seq(Task), NEW k \in 0..Len(u),
           NEW f \in [1..k -> Worker], NEW n \in 0..k
    PROVE  Granted(b, u, f, n) \in Books
  <1>1. \A j \in 1..n : u[j] \in Task /\ f[j] \in Worker
    OBVIOUS
  <1>2. \A w \in Worker :
          b.queue[w] \cup {u[j] : j \in {j \in 1..n : f[j] = w}} \in SUBSET Task
    BY <1>1 DEF Books
  <1>3. \A t \in Task :
          (IF \E j \in 1..n : u[j] = t THEN f[CHOOSE j \in 1..n : u[j] = t]
           ELSE b.holder[t]) \in Worker \cup {NoWorker}
    BY <1>1 DEF Books
  <1> QED  BY <1>2, <1>3 DEF Books, Granted

(* deque.remove leaves a queue of tasks.                                   *)
LEMMA WithoutType ==
    ASSUME NEW u \in Seq(Task), NEW t \in Task
    PROVE  Without(u, t) \in Seq(Task)
  <1>1. CASE InQueue(t, u)
    <2> DEFINE i == CHOOSE i \in DOMAIN u : u[i] = t
    <2>1. i \in DOMAIN u
      BY <1>1 DEF InQueue
    <2>2. Len(u) - 1 \in Nat
      BY <2>1
    <2>3. [j \in 1..(Len(u) - 1) |-> IF j < i THEN u[j] ELSE u[j + 1]]
             \in [1..(Len(u) - 1) -> Task]
      BY <2>1
    <2> QED  BY <1>1, <2>2, <2>3, SMT DEF Without
  <1>2. CASE ~ InQueue(t, u)
    BY <1>2 DEF Without
  <1> QED  BY <1>1, <1>2

(* __retry_unassignable keeps the types of what it writes.                 *)
LEMMA RetryType ==
    ASSUME NEW by \in Task \cup {"binder"}, NEW rest \in SUBSET Grant,
           NEW b \in Books, NEW u \in Seq(Task),
           RetryUnassignable(by, rest, b, u)
    PROVE  books' \in Books /\ unassigned' \in Seq(Task) /\ grants' \subseteq Grant
  <1>1. PICK k \in 0..Len(u) : \E f \in [1..k -> Worker] :
            /\ books' = Granted(b, u, f, k)
            /\ unassigned' = SubSeq(u, k + 1, Len(u))
            /\ grants' = rest \cup {[task |-> u[i], worker |-> f[i], by |-> by] : i \in 1..k}
    BY DEF RetryUnassignable
  <1>2. PICK f \in [1..k -> Worker] :
            /\ books' = Granted(b, u, f, k)
            /\ unassigned' = SubSeq(u, k + 1, Len(u))
            /\ grants' = rest \cup {[task |-> u[i], worker |-> f[i], by |-> by] : i \in 1..k}
    BY <1>1
  <1>3. books' \in Books
    BY <1>2, GrantedType
  <1>4. unassigned' \in Seq(Task)
    BY <1>2
  <1>5. \A i \in 1..k : u[i] \in Task /\ f[i] \in Worker
    OBVIOUS
  <1>6. grants' \subseteq Grant
    BY <1>2, <1>5 DEF Grant
  <1> QED  BY <1>3, <1>4, <1>6

-----------------------------------------------------------------------------
(* Type correctness.  The router writes everything but the calls, which    *)
(* belong to the step that routes.                                         *)

RoutedTypes ==
    /\ books \in Books
    /\ state \in [Task -> TaskState]
    /\ owned \subseteq Task
    /\ told \in [Task -> Seq(Terminal \cup {"absent"})]
    /\ unassigned \in Seq(Task)
    /\ grants \subseteq Grant
    /\ transit \in [Task -> Transit]
    /\ wtask \in [Worker -> [Task -> {"absent", "queued", "processing"}]]
    /\ outbox \in [Worker -> Seq(Event)]

OtherTypes ==
    /\ alive \subseteq Worker /\ dead \subseteq Worker
    /\ connecting \in Worker \cup {NoWorker}
    /\ life \in [Worker -> {"up", "leaving", "gone"}]
    /\ budget \in [Bounded -> Nat]

(* TypeOK is the two groups and the type of the calls.                     *)
LEMMA TypeSplit ==
    TypeOK <=> RoutedTypes /\ OtherTypes /\ calls \in [Coroutine -> SUBSET Event]
  BY DEF TypeOK, RoutedTypes, OtherTypes

(* A step that leaves the routed variables alone keeps their types.        *)
LEMMA RoutedUnchanged ==
    ASSUME RoutedTypes,
           UNCHANGED <<books, task, grants, transit, wtask, outbox>>
    PROVE  RoutedTypes'
  BY DEF RoutedTypes, task

(* Telling the client keeps the type of told.                              *)
LEMMA TellType ==
    ASSUME told \in [Task -> Seq(Terminal \cup {"absent"})], NEW t \in Task,
           NEW reply \in Terminal \cup {"absent"}, Tell(t, reply)
    PROVE  told' \in [Task -> Seq(Terminal \cup {"absent"})]
  BY DEF Tell

(* Sending a task keeps the types of the workers.                          *)
LEMMA SendTaskType ==
    ASSUME RoutedTypes, NEW t \in Task, NEW w, SendTaskToWorker(w, t)
    PROVE  /\ wtask' \in [Worker -> [Task -> {"absent", "queued", "processing"}]]
           /\ outbox' \in [Worker -> Seq(Event)]
  <1> QED  BY DEF RoutedTypes, SendTaskToWorker

(* Sending a cancel keeps the types of the workers.                        *)
LEMMA SendCancelType ==
    ASSUME RoutedTypes, NEW t \in Task, NEW w \in Worker, NEW force,
           SendTaskCancelToWorker(w, t, force)
    PROVE  /\ wtask' \in [Worker -> [Task -> {"absent", "queued", "processing"}]]
           /\ outbox' \in [Worker -> Seq(Event)]
  <1> DEFINE answer == CancelAnswer(w, t, force)
  <1>1. answer \in {"CancelConfirmNotFound", "CancelConfirmFailed", "CancelConfirmCanceled"}
    BY DEF CancelAnswer
  <1>2. NewEvent(answer, t, w, "none") \in Event
    BY <1>1 DEF NewEvent, Event, EventKind, WorkerReported
  <1> HIDE DEF answer
  <1>3. CASE life[w] # "up"
    BY <1>3 DEF RoutedTypes, SendTaskCancelToWorker
  <1>4. CASE life[w] = "up"
    <2>1. /\ wtask' = IF answer = "CancelConfirmCanceled"
                      THEN [wtask EXCEPT ![w][t] = "absent"] ELSE wtask
          /\ outbox' = [outbox EXCEPT ![w] = Append(@, NewEvent(answer, t, w, "none"))]
      BY <1>4 DEF SendTaskCancelToWorker, answer
    <2>2. outbox' \in [Worker -> Seq(Event)]
      BY <1>2, <2>1 DEF RoutedTypes
    <2>3. wtask' \in [Worker -> [Task -> {"absent", "queued", "processing"}]]
      BY <2>1 DEF RoutedTypes
    <2> QED  BY <2>2, <2>3
  <1> QED  BY <1>3, <1>4

(* A terminal arm keeps the types.                                         *)
LEMMA SettleType ==
    ASSUME RoutedTypes, NEW owners \in SUBSET Task, NEW by \in Task \cup Coroutine,
           NEW rest \in SUBSET Grant, NEW t \in Task, NEW outcome \in Terminal,
           NEW b \in Books, NEW u \in Seq(Task),
           SettleFor(owners, by, rest, t, outcome, b, u)
    PROVE  RoutedTypes'
  <1>1. owned' \subseteq Task
    BY DEF SettleFor
  <1>2. told' \in [Task -> Seq(Terminal \cup {"absent"})]
    BY TellType DEF SettleFor, RoutedTypes
  <1>3. books' \in Books /\ unassigned' \in Seq(Task) /\ grants' \subseteq Grant
    BY RetryType DEF SettleFor
  <1>4. [target |-> outcome, by |-> by] \in Transit
    BY DEF Transit
  <1>5. transit' \in [Task -> Transit] /\ state' \in [Task -> TaskState]
    BY <1>4 DEF SettleFor, RoutedTypes, TaskState
  <1> QED  BY <1>1, <1>2, <1>3, <1>5 DEF SettleFor, RoutedTypes

(* Placing a task again keeps the types.                                   *)
LEMMA DispatchType ==
    ASSUME RoutedTypes, NEW rest \in SUBSET Grant, NEW t \in Task, NEW b \in Books,
           AcquireAndDispatch(rest, t, b)
    PROVE  RoutedTypes'
  <1>1. PICK w \in AssignTask(b, t) :
           /\ IF w = NoWorker
              THEN /\ unassigned' = Append(unassigned, t)
                   /\ books' = b
                   /\ state' = [state EXCEPT ![t] = "inactive"]
                   /\ UNCHANGED <<wtask, outbox>>
              ELSE /\ books' = Assigned(b, t, w)
                   /\ state' = [state EXCEPT ![t] = "running"]
                   /\ SendTaskToWorker(w, t)
                   /\ UNCHANGED unassigned
           /\ grants' = rest
           /\ UNCHANGED <<owned, told, transit>>
    BY DEF AcquireAndDispatch
  <1>2. w \in Worker \cup {NoWorker}
    BY AssignTaskType
  <1>3. state' \in [Task -> TaskState]
    BY <1>1 DEF RoutedTypes, TaskState, LiveState
  <1>4. CASE w = NoWorker
    <2>1. unassigned \in Seq(Task)
      BY DEF RoutedTypes
    <2>2. unassigned' = Append(unassigned, t)
      BY <1>1, <1>4
    <2>3. unassigned' \in Seq(Task)
      BY <2>1, <2>2
    <2> QED  BY <1>1, <1>3, <1>4, <2>3 DEF RoutedTypes
  <1>5. CASE w # NoWorker
    <2>1. books' \in Books
      BY <1>1, <1>2, <1>5, AssignedType
    <2>2. /\ wtask' \in [Worker -> [Task -> {"absent", "queued", "processing"}]]
          /\ outbox' \in [Worker -> Seq(Event)]
      BY <1>1, <1>5, SendTaskType
    <2> QED  BY <1>1, <1>3, <1>5, <2>1, <2>2 DEF RoutedTypes
  <1> QED  BY <1>4, <1>5

(* Moving a task between live states keeps the types of what it writes.    *)
LEMMA BecomeType ==
    ASSUME RoutedTypes, NEW rest \in SUBSET Grant, NEW t \in Task, NEW s \in LiveState,
           Become(rest, t, s), owned' \subseteq Task,
           wtask' \in [Worker -> [Task -> {"absent", "queued", "processing"}]],
           outbox' \in [Worker -> Seq(Event)]
    PROVE  RoutedTypes'
  BY DEF Become, RoutedTypes, TaskState

(* Refusing an event keeps the types.                                      *)
LEMMA RefuseType ==
    ASSUME RoutedTypes, NEW rest \in SUBSET Grant, Refuse(rest)
    PROVE  RoutedTypes'
  BY DEF Refuse, RoutedTypes

(* The end of a faulted task keeps the types.                              *)
LEMMA TeardownType ==
    ASSUME RoutedTypes, NEW by \in Task \cup Coroutine, NEW rest \in SUBSET Grant,
           NEW t \in Task, NEW b \in Books, Teardown(by, rest, t, b),
           owned' \subseteq Task,
           told' \in [Task -> Seq(Terminal \cup {"absent"})],
           UNCHANGED <<wtask, outbox>>
    PROVE  RoutedTypes'
  <1>1. RemoveTask(b, t) \in Books /\ Without(unassigned, t) \in Seq(Task)
    BY RemoveTaskType, WithoutType DEF RoutedTypes
  <1>2. books' \in Books /\ unassigned' \in Seq(Task) /\ grants' \subseteq Grant
    BY <1>1, RetryType DEF Teardown
  <1>3. [target |-> "failed", by |-> by] \in Transit /\ NoTransit \in Transit
    BY DEF Transit, NoTransit, Terminal, ResultType
  <1>4. transit' \in [Task -> Transit] /\ state' \in [Task -> TaskState]
    BY <1>3 DEF Teardown, RoutedTypes, TaskState, Terminal, ResultType
  <1> QED  BY <1>2, <1>4 DEF RoutedTypes

(* Every arm of the router keeps the types.                                *)
LEMMA ArmType ==
    ASSUME RoutedTypes, NEW by \in Task \cup Coroutine, NEW rest \in SUBSET Grant,
           NEW e \in Event, Arm(by, rest, e)
    PROVE  RoutedTypes'
  <1> DEFINE t == e.task
  <1>1. /\ t \in Task /\ e.kind \in EventKind
        /\ e.kind = "TaskResultReceived" => e.arg \in Terminal
    BY DEF Event, EventKind, WorkerReported, Terminal
  <1>2. /\ RemoveTask(books, t) \in Books /\ books \in Books
        /\ Without(unassigned, t) \in Seq(Task) /\ unassigned \in Seq(Task)
        /\ owned \in SUBSET Task /\ owned \cup {t} \in SUBSET Task
        /\ books.holder[t] \in Worker \cup {NoWorker}
    BY <1>1, RemoveTaskType, WithoutType DEF RoutedTypes, Books
  <1>3. /\ "canceled" \in Terminal /\ "canceledNotFound" \in Terminal
        /\ {"running", "canceling", "balanceCanceling"} \subseteq LiveState
    BY DEF Terminal, LiveState
  <1>4. CASE e.kind = "HasCapacity"
    <2>1. OnHasCapacity(rest, e)
      BY <1>4 DEF Arm
    <2>2. CASE state[t] = "inactive"
      <3>1. SendTaskToWorker(e.worker, t) /\ Become(rest, t, "running") /\ owned' = owned
        BY <2>1, <2>2 DEF OnHasCapacity
      <3>2. /\ wtask' \in [Worker -> [Task -> {"absent", "queued", "processing"}]]
            /\ outbox' \in [Worker -> Seq(Event)]
        BY <1>1, <3>1, SendTaskType
      <3> QED  BY <1>1, <1>2, <1>3, <3>1, <3>2, BecomeType
    <2> QED  BY <2>1, <2>2, RefuseType DEF OnHasCapacity
  <1>5. CASE e.kind = "TaskCancelRequested"
    <2>1. OnTaskCancel(by, rest, e)
      BY <1>5 DEF Arm
    <2>2. CASE state[t] = "inactive"
      BY <1>1, <1>2, <1>3, <2>1, <2>2, SettleType DEF OnTaskCancel, Settle
    <2>3. CASE state[t] = "running" /\ books.holder[t] # NoWorker
      <3>1. /\ SendTaskCancelToWorker(books.holder[t], t, e.arg)
            /\ Become(rest, t, "canceling") /\ owned' = owned \cup {t}
        BY <2>1, <2>3 DEF OnTaskCancel
      <3>2. /\ wtask' \in [Worker -> [Task -> {"absent", "queued", "processing"}]]
            /\ outbox' \in [Worker -> Seq(Event)]
        BY <1>1, <1>2, <2>3, <3>1, SendCancelType
      <3> QED  BY <1>1, <1>2, <1>3, <3>1, <3>2, BecomeType
    <2>4. CASE state[t] = "running" /\ books.holder[t] = NoWorker
      BY <1>1, <1>2, <1>3, <2>1, <2>4, SettleType DEF OnTaskCancel
    <2>5. CASE state[t] = "balanceCanceling"
      <3>1. Become(rest, t, "canceling") /\ UNCHANGED <<owned, wtask, outbox>>
        BY <2>1, <2>5 DEF OnTaskCancel
      <3> QED  BY <1>1, <1>3, <3>1, BecomeType DEF RoutedTypes
    <2>6. CASE state[t] \notin {"inactive", "running", "balanceCanceling"}
      BY <2>1, <2>6, RefuseType DEF OnTaskCancel
    <2> QED  BY <2>2, <2>3, <2>4, <2>5, <2>6
  <1>6. CASE e.kind = "BalanceCancelRequested"
    <2>1. OnBalanceTaskCancel(rest, e)
      BY <1>6 DEF Arm
    <2>2. CASE state[t] = "running" /\ books.holder[t] # NoWorker
      <3>1. /\ SendTaskCancelToWorker(books.holder[t], t, "gentle")
            /\ Become(rest, t, "balanceCanceling") /\ owned' = owned
        BY <2>1, <2>2 DEF OnBalanceTaskCancel
      <3>2. /\ wtask' \in [Worker -> [Task -> {"absent", "queued", "processing"}]]
            /\ outbox' \in [Worker -> Seq(Event)]
        BY <1>1, <1>2, <2>2, <3>1, SendCancelType
      <3> QED  BY <1>1, <1>2, <1>3, <3>1, <3>2, BecomeType
    <2> QED  BY <2>1, <2>2, RefuseType DEF OnBalanceTaskCancel
  <1>7. CASE e.kind = "TaskResultReceived"
    <2>1. OnTaskResult(by, rest, e)
      BY <1>7 DEF Arm
    <2> QED  BY <1>1, <1>2, <1>7, <2>1, SettleType, RefuseType DEF OnTaskResult, Settle
  <1>8. CASE e.kind = "CancelConfirmCanceled"
    <2>1. OnCancelConfirm(by, rest, e, "canceled")
      BY <1>8 DEF Arm
    <2> QED  BY <1>1, <1>2, <1>3, <2>1, SettleType, DispatchType, RefuseType
             DEF OnCancelConfirm, Settle
  <1>9. CASE e.kind = "CancelConfirmNotFound"
    <2>1. OnCancelConfirm(by, rest, e, "canceledNotFound")
      BY <1>9 DEF Arm
    <2> QED  BY <1>1, <1>2, <1>3, <2>1, SettleType, DispatchType, RefuseType
             DEF OnCancelConfirm, Settle
  <1>10. CASE e.kind = "CancelConfirmFailed"
    <2>1. OnCancelConfirmFailed(rest, e)
      BY <1>10 DEF Arm
    <2>2. CASE state[t] \in {"canceling", "balanceCanceling"}
      <3>1. Become(rest, t, "running") /\ UNCHANGED <<owned, wtask, outbox>>
        BY <2>1, <2>2 DEF OnCancelConfirmFailed
      <3> QED  BY <1>1, <1>3, <3>1, BecomeType DEF RoutedTypes
    <2> QED  BY <2>1, <2>2, RefuseType DEF OnCancelConfirmFailed
  <1>11. CASE e.kind = "WorkerDisconnected"
    <2>1. OnWorkerDisconnect(by, rest, e)
      BY <1>11 DEF Arm
    <2> QED  BY <1>1, <1>2, <1>3, <2>1, SettleType, DispatchType, RefuseType
             DEF OnWorkerDisconnect, Settle
  <1> QED  BY <1>1, <1>4, <1>5, <1>6, <1>7, <1>8, <1>9, <1>10, <1>11
           DEF EventKind, WorkerReported

(* A fault keeps the types.                                                *)
LEMMA FaultType ==
    ASSUME RoutedTypes, budget \in [Bounded -> Nat], NEW by \in Task \cup Coroutine,
           NEW rest \in SUBSET Grant, NEW e \in Event, Fault(by, rest, e)
    PROVE  RoutedTypes' /\ budget' \in [Bounded -> Nat]
  <1> DEFINE t == e.task
  <1>1. /\ t \in Task
        /\ e.kind = "TaskResultReceived" => e.arg \in Terminal
    BY DEF Event, Terminal
  <1>2. budget' \in [Bounded -> Nat]
    BY DEF Fault, Spend, Bounded
  <1>3. owned' \subseteq Task /\ UNCHANGED <<wtask, outbox>>
    BY DEF Fault, RoutedTypes
  <1>4. CASE /\ transit' = [transit EXCEPT ![t] = [target |-> "reporting", by |-> by]]
             /\ grants' = rest
             /\ UNCHANGED <<books, state, told, unassigned>>
    <2>1. [target |-> "reporting", by |-> by] \in Transit
      BY DEF Transit
    <2> QED  BY <1>1, <1>2, <1>3, <1>4, <2>1 DEF RoutedTypes
  <1>5. CASE /\ e.kind = "TaskResultReceived"
             /\ IF t \in owned THEN Tell(t, e.arg) ELSE UNCHANGED told
             /\ Teardown(by, rest, t, books)
    <2>1. told' \in [Task -> Seq(Terminal \cup {"absent"})]
      BY <1>1, <1>5, TellType DEF RoutedTypes
    <2>2. books \in Books
      BY DEF RoutedTypes
    <2>3. RoutedTypes'
      BY <1>1, <1>3, <1>5, <2>1, <2>2, TeardownType
    <2> QED  BY <1>2, <2>3
  <1> QED  BY <1>4, <1>5 DEF Fault

(* The router keeps the types.                                             *)
LEMMA RouteType ==
    ASSUME RoutedTypes, OtherTypes, NEW by \in Task \cup Coroutine,
           NEW rest \in SUBSET Grant, NEW e \in Event, Route(by, rest, e)
    PROVE  RoutedTypes' /\ OtherTypes'
  <1>1. UNCHANGED <<presence, life>>
    BY DEF Route
  <1>2. CASE Refuse(rest) /\ UNCHANGED budget
    <2>1. RoutedTypes'
      BY <1>2, RefuseType
    <2> QED  BY <1>1, <1>2, <2>1 DEF OtherTypes, presence
  <1>3. CASE Arm(by, rest, e) /\ UNCHANGED budget
    <2>1. RoutedTypes'
      BY <1>3, ArmType
    <2> QED  BY <1>1, <1>3, <2>1 DEF OtherTypes, presence
  <1>4. CASE Fault(by, rest, e)
    <2>1. RoutedTypes' /\ budget' \in [Bounded -> Nat]
      BY <1>4, FaultType DEF OtherTypes
    <2> QED  BY <1>1, <2>1 DEF OtherTypes, presence
  <1> QED  BY <1>2, <1>3, <1>4 DEF Route

(* __disconnect_worker keeps the types of the books and the calls.         *)
LEMMA DisconnectType ==
    ASSUME TypeOK, NEW c \in Coroutine, NEW w \in Worker, DisconnectWorker(c, w)
    PROVE  /\ books' \in Books /\ alive' \subseteq Worker
           /\ calls' \in [Coroutine -> SUBSET Event]
  <1>1. books \in Books /\ alive \subseteq Worker /\ calls \in [Coroutine -> SUBSET Event]
    BY DEF TypeOK
  <1>2. books.queue[w] \subseteq Task
    BY <1>1 DEF Books
  <1>3. \A t \in books.queue[w] : NewEvent("WorkerDisconnected", t, w, "none") \in Event
    BY <1>2 DEF NewEvent, Event, EventKind, WorkerReported
  <1>4. {NewEvent("WorkerDisconnected", t, w, "none") : t \in books.queue[w]} \subseteq Event
    BY <1>3
  <1>5. alive' \subseteq Worker
    BY <1>1 DEF DisconnectWorker
  <1>6. CASE RemoveWorkerRaises(books, w)
    BY <1>1, <1>5, <1>6, WithoutWorkerType DEF DisconnectWorker
  <1>7. CASE ~ RemoveWorkerRaises(books, w)
    <2>1. books' \in Books
      BY <1>1, <1>7, WithoutWorkerType DEF DisconnectWorker
    <2>2. calls' = [calls EXCEPT ![c] =
                     {NewEvent("WorkerDisconnected", t, w, "none") : t \in books.queue[w]}]
      BY <1>7 DEF DisconnectWorker
    <2> QED  BY <1>1, <1>4, <1>5, <2>1, <2>2
  <1> QED  BY <1>6, <1>7

(* Every step of the event loop keeps the types.                           *)
LEMMA LoopType == TypeOK /\ Loop => TypeOK'
  <1> SUFFICES ASSUME TypeOK, Loop PROVE TypeOK'
    OBVIOUS
  <1>1. RoutedTypes /\ OtherTypes /\ calls \in [Coroutine -> SUBSET Event]
    BY TypeSplit
  <1>2. ASSUME NEW c \in Coroutine, NEW e \in calls[c], RouteCall(c, e) PROVE TypeOK'
    <2>1. e \in Event /\ grants \in SUBSET Grant
      BY <1>1 DEF RoutedTypes
    <2>2. RoutedTypes' /\ OtherTypes'
      BY <1>1, <1>2, <2>1, RouteType DEF RouteCall
    <2>3. calls' \in [Coroutine -> SUBSET Event]
      BY <1>1, <1>2 DEF RouteCall
    <2> QED  BY <2>2, <2>3 DEF TypeOK, RoutedTypes, OtherTypes
  <1>3. ASSUME NEW c \in Coroutine, NEW e \in calls[c], CancelOfEndedTask(c, e) PROVE TypeOK'
    <2>1. e.task \in Task
      BY <1>1 DEF Event
    <2>2. told' \in [Task -> Seq(Terminal \cup {"absent"})]
      BY <1>1, <1>3, <2>1, TellType DEF CancelOfEndedTask, RoutedTypes
    <2>3. calls' \in [Coroutine -> SUBSET Event]
      BY <1>1, <1>3 DEF CancelOfEndedTask
    <2> QED  BY <1>3, <2>2, <2>3 DEF CancelOfEndedTask, TypeOK, presence, worker
  <1>4. ASSUME NEW g \in grants, RouteGrant(g) PROVE TypeOK'
    <2> DEFINE e == NewEvent("HasCapacity", g.task, g.worker, "none")
    <2>1. g \in Grant /\ grants \ {g} \in SUBSET Grant
      BY <1>1 DEF RoutedTypes
    <2>2. e \in Event /\ g.by \in Task \cup Coroutine
      BY <2>1 DEF Grant, NewEvent, Event, EventKind, WorkerReported, Coroutine
    <2>3. Route(g.by, grants \ {g}, e) /\ UNCHANGED calls
      BY <1>4 DEF RouteGrant
    <2>4. RoutedTypes' /\ OtherTypes'
      BY <1>1, <2>1, <2>2, <2>3, RouteType
    <2> QED  BY <1>1, <2>3, <2>4 DEF TypeOK, RoutedTypes, OtherTypes
  <1>5. ASSUME NEW t \in Task, Commit(t) PROVE TypeOK'
    <2>1. transit[t].target \in TaskState /\ NoTransit \in Transit
      BY <1>5 DEF Commit, TaskState, NoTransit, Transit
    <2> QED  BY <1>5, <2>1 DEF Commit, TypeOK, presence, worker
  <1>6. ASSUME NEW t \in Task, FaultReported(t) PROVE TypeOK'
    <2>1. transit[t].by \in Task \cup Coroutine \cup {"none"} /\ transit[t] \in Transit
      BY <1>1 DEF RoutedTypes, Transit
    <2>2. told' \in [Task -> Seq(Terminal \cup {"absent"})]
      BY <1>1, <1>6, TellType DEF FaultReported, RoutedTypes, Terminal, ResultType
    <2>3. RemoveTask(books, t) \in Books /\ Without(unassigned, t) \in Seq(Task)
      BY <1>1, RemoveTaskType, WithoutType DEF RoutedTypes
    <2>4. books' \in Books /\ unassigned' \in Seq(Task) /\ grants' \subseteq Grant
      BY <1>1, <1>6, <2>3, RetryType DEF FaultReported, Teardown, RoutedTypes
    <2>5. [target |-> "failed", by |-> transit[t].by] \in Transit /\ NoTransit \in Transit
      BY <2>1 DEF Transit, NoTransit, Terminal, ResultType
    <2>6. transit' \in [Task -> Transit] /\ state' \in [Task -> TaskState]
      BY <1>1, <1>6, <2>5
      DEF FaultReported, Teardown, RoutedTypes, TaskState, Terminal, ResultType
    <2> QED  BY <1>6, <2>2, <2>4, <2>6 DEF FaultReported, TypeOK, presence, worker
  <1>7. ASSUME WorkerConnected PROVE TypeOK'
    BY <1>7 DEF WorkerConnected, TypeOK, task, loop, worker
  <1>8. ASSUME NEW w \in dead, CleanNextWorker(w) PROVE TypeOK'
    <2>1. w \in Worker
      BY DEF TypeOK
    <2>2. /\ books' \in Books /\ alive' \subseteq Worker
          /\ calls' \in [Coroutine -> SUBSET Event]
      BY <1>8, <2>1, DisconnectType DEF CleanNextWorker, CleanWorker, TypeOK, Coroutine
    <2>3. dead' \subseteq Worker
      BY <1>8 DEF CleanNextWorker, CleanWorker, TypeOK
    <2> QED  BY <1>8, <2>2, <2>3 DEF CleanNextWorker, TypeOK, task, worker
  <1> QED  BY <1>2, <1>3, <1>4, <1>5, <1>6, <1>7, <1>8 DEF Loop

(* Spending one of the bounded events keeps the type of the budget.        *)
LEMMA SpendType ==
    ASSUME budget \in [Bounded -> Nat], NEW kind \in Bounded, Spend(kind)
    PROVE  budget' \in [Bounded -> Nat]
  BY DEF Spend

(* Every message, timer and worker step keeps the types.                   *)
LEMMA EnvironmentType == TypeOK /\ Environment => TypeOK'
  <1> SUFFICES ASSUME TypeOK, Environment PROVE TypeOK'
    OBVIOUS
  <1>0. "binder" \in Coroutine /\ "balanceTimer" \in Coroutine /\ "workerTimer" \in Coroutine
    BY DEF Coroutine
  <1>1. ASSUME NEW t \in Task, OnTaskNew(t) PROVE TypeOK'
    <2>1. PICK w \in AssignTask(books, t) :
             IF w = NoWorker
             THEN unassigned' = Append(unassigned, t) /\ UNCHANGED <<books, calls>>
             ELSE /\ books' = Assigned(books, t, w)
                  /\ calls' = [calls EXCEPT !["binder"] =
                                 {NewEvent("HasCapacity", t, w, "none")}]
                  /\ UNCHANGED unassigned
      BY <1>1 DEF OnTaskNew
    <2>2. w \in Worker \cup {NoWorker}
      BY AssignTaskType DEF TypeOK
    <2>3. NewEvent("HasCapacity", t, w, "none") \in Event
      BY <2>2 DEF NewEvent, Event, EventKind, WorkerReported
    <2>4. unassigned \in Seq(Task) /\ books \in Books /\ calls \in [Coroutine -> SUBSET Event]
      BY DEF TypeOK
    <2>5. Append(unassigned, t) \in Seq(Task)
      BY <2>4
    <2>6. CASE w = NoWorker
      BY <1>1, <2>1, <2>4, <2>5, <2>6 DEF OnTaskNew, TypeOK, TaskState, LiveState, presence, worker
    <2>7. CASE w # NoWorker
      <3>1. books' \in Books
        BY <2>1, <2>2, <2>4, <2>7, AssignedType
      <3>2. calls' \in [Coroutine -> SUBSET Event]
        BY <1>0, <2>1, <2>3, <2>4, <2>7
      <3> QED  BY <1>1, <2>1, <2>7, <3>1, <3>2
               DEF OnTaskNew, TypeOK, TaskState, LiveState, presence, worker
    <2> QED  BY <2>6, <2>7
  <1>2. ASSUME NEW t \in Task, ReceiveTaskCancel(t) PROVE TypeOK'
    <2>1. NewEvent("TaskCancelRequested", t, NoWorker, "force") \in Event
      BY DEF NewEvent, Event, EventKind, WorkerReported
    <2>5. calls \in [Coroutine -> SUBSET Event]
      BY DEF TypeOK
    <2>6. \/ calls' = calls
          \/ calls' = [calls EXCEPT !["binder"] =
                         {NewEvent("TaskCancelRequested", t, NoWorker, "force")}]
      BY <1>2 DEF ReceiveTaskCancel
    <2>2. calls' \in [Coroutine -> SUBSET Event]
      BY <1>0, <2>1, <2>5, <2>6
    <2>3. told' \in [Task -> Seq(Terminal \cup {"absent"})]
      BY <1>2, TellType DEF ReceiveTaskCancel, TypeOK
    <2>4. budget' \in [Bounded -> Nat]
      BY <1>2, SpendType DEF ReceiveTaskCancel, TypeOK, Bounded
    <2> QED  BY <1>2, <2>2, <2>3, <2>4 DEF ReceiveTaskCancel, TypeOK, presence, worker
  <1>3. ASSUME NEW w \in Worker, ReceiveReport(w) PROVE TypeOK'
    <2>1. outbox[w] \in Seq(Event) /\ outbox[w] # <<>>
      BY <1>3 DEF ReceiveReport, TypeOK
    <2>2. Head(outbox[w]) \in Event /\ Tail(outbox[w]) \in Seq(Event)
      BY <2>1
    <2> QED  BY <1>0, <1>3, <2>2 DEF ReceiveReport, TypeOK, task, presence
  <1>4. ASSUME NEW w \in Worker, OnHeartbeat(w) PROVE TypeOK'
    <2>1. books \in Books /\ AddWorker(books, w) \in Books
      BY AddWorkerType DEF TypeOK
    <2>2. books' \in Books /\ unassigned' \in Seq(Task) /\ grants' \subseteq Grant
      BY <1>4, <2>1, RetryType DEF OnHeartbeat, TypeOK
    <2>3. connecting' \in Worker \cup {NoWorker} /\ alive' \subseteq Worker
      BY <1>4 DEF OnHeartbeat, TypeOK
    <2> QED  BY <1>4, <2>2, <2>3 DEF OnHeartbeat, TypeOK, worker
  <1>5. ASSUME NEW w \in Worker, OnDisconnectNotification(w) PROVE TypeOK'
    <2>1. /\ books' \in Books /\ alive' \subseteq Worker
          /\ calls' \in [Coroutine -> SUBSET Event]
      BY <1>0, <1>5, DisconnectType DEF OnDisconnectNotification, TypeOK
    <2> QED  BY <1>5, <2>1 DEF OnDisconnectNotification, TypeOK, task
  <1>6. ASSUME NEW w \in Worker, Crash(w) PROVE TypeOK'
    <2>1. outbox[w] \in Seq(Event)
      BY DEF TypeOK
    <2>2. \A n \in 0..Len(outbox[w]) : SubSeq(outbox[w], 1, n) \in Seq(Event)
      BY <2>1
    <2>3. outbox' \in [Worker -> Seq(Event)]
      BY <1>6, <2>2 DEF Crash, TypeOK
    <2> QED  BY <1>6, <2>3 DEF Crash, TypeOK, task, presence, loop
  <1>7. ASSUME NEW w \in Worker, Leave(w) PROVE TypeOK'
    BY <1>7 DEF Leave, TypeOK, task, presence, loop
  <1>8. ASSUME NEW late \in SUBSET alive, CleanWorkers(late) PROVE TypeOK'
    <2>1. PICK w \in late : CleanWorker(w, late \ {w})
      BY <1>8 DEF CleanWorkers
    <2>2. w \in Worker
      BY DEF TypeOK
    <2>3. /\ books' \in Books /\ alive' \subseteq Worker
          /\ calls' \in [Coroutine -> SUBSET Event]
      BY <1>0, <2>1, <2>2, DisconnectType DEF CleanWorker, TypeOK
    <2>4. dead' \subseteq Worker
      BY <2>1 DEF CleanWorker, TypeOK
    <2>5. budget' \in [Bounded -> Nat]
      BY <1>8, SpendType DEF CleanWorkers, TypeOK, Bounded
    <2> QED  BY <1>8, <2>3, <2>4, <2>5 DEF CleanWorkers, TypeOK, task, worker
  <1>9. ASSUME NEW c \in Coroutine, CancelClientAllTasks(c) PROVE TypeOK'
    <2>1. {NewEvent("TaskCancelRequested", t, NoWorker, "gentle") : t \in owned} \subseteq Event
      BY DEF NewEvent, Event, EventKind, WorkerReported, TypeOK
    <2>2. calls' \in [Coroutine -> SUBSET Event]
      BY <1>9, <2>1 DEF CancelClientAllTasks, TypeOK
    <2>3. budget' \in [Bounded -> Nat]
      BY <1>9, SpendType DEF CancelClientAllTasks, TypeOK, Bounded
    <2> QED  BY <1>9, <2>2, <2>3 DEF CancelClientAllTasks, TypeOK, task, presence, worker
  <1>10. ASSUME NEW advice \in BalanceAdvice(books), Balance(advice) PROVE TypeOK'
    <2>1. advice \subseteq UNION {books.queue[w] : w \in books.registered}
      BY DEF BalanceAdvice
    <2>2. advice \subseteq Task
      BY <2>1 DEF TypeOK, Books
    <2>3. {NewEvent("BalanceCancelRequested", t, NoWorker, "none") : t \in advice} \subseteq Event
      BY <2>2 DEF NewEvent, Event, EventKind, WorkerReported
    <2>4. calls' \in [Coroutine -> SUBSET Event]
      BY <1>0, <1>10, <2>3 DEF Balance, TypeOK
    <2>5. budget' \in [Bounded -> Nat]
      BY <1>10, SpendType DEF Balance, TypeOK, Bounded
    <2> QED  BY <1>10, <2>4, <2>5 DEF Balance, TypeOK, task, presence, worker
  <1>11. ASSUME NEW w \in Worker, NEW t \in Task, Start(w, t) PROVE TypeOK'
    BY <1>11 DEF Start, TypeOK, task, presence, loop
  <1>12. ASSUME NEW w \in Worker, NEW t \in Task, NEW r \in Results, Finish(w, t, r)
         PROVE  TypeOK'
    <2>1. NewEvent("TaskResultReceived", t, w, r) \in Event
      BY ResultsAssumption DEF NewEvent, Event
    <2>2. outbox' \in [Worker -> Seq(Event)]
      BY <1>12, <2>1 DEF Finish, TypeOK
    <2>3. wtask' \in [Worker -> [Task -> {"absent", "queued", "processing"}]]
      BY <1>12 DEF Finish, TypeOK
    <2> QED  BY <1>12, <2>2, <2>3 DEF Finish, TypeOK, task, presence, loop
  <1> QED  BY <1>1, <1>2, <1>3, <1>4, <1>5, <1>6, <1>7, <1>8, <1>9, <1>10, <1>11, <1>12
           DEF Environment

(* Type correctness: whatever the messages, timers, crashes and faults, the *)
(* scheduler's tables, its pending events and its awaiting transitions keep *)
(* their types; in particular a task is always in a state of the machine.  *)
THEOREM TypeCorrect == Spec => []TypeOK
  <1>1. Init => TypeOK
    BY LimitAssumption
    DEF Init, TypeOK, NoBooks, Books, NoTransit, Transit, TaskState
  <1>2. TypeOK /\ [Next]_vars => TypeOK'
    <2> SUFFICES ASSUME TypeOK, [Next]_vars PROVE TypeOK'
      OBVIOUS
    <2>1. CASE UNCHANGED vars
      BY <2>1 DEF vars, task, presence, loop, worker, TypeOK
    <2>2. CASE Quiet
      BY <2>1, <2>2 DEF Quiet, vars, task, presence, loop, worker, TypeOK
    <2> QED  BY <2>1, <2>2, LoopType, EnvironmentType DEF Next
  <1> QED  BY <1>1, <1>2, PTL DEF Spec

-----------------------------------------------------------------------------
(***************************************************************************)
(* The queue of tasks on hold, for any instance of TaskController: no task *)
(* is stranded, the queue holds live tasks once, and no task is granted a  *)
(* worker twice.                                                           *)
(*                                                                         *)
(* None of the three is inductive alone.  A task is put on hold when its   *)
(* worker is lost; that it is not in the queue already follows from its    *)
(* state, and that no HasCapacity is under way for it from GrantedOnce;    *)
(* and a granted task is not granted again because it left the queue,      *)
(* which held it once.  The proof carries them together, as predicates on  *)
(* the values the router writes.                                           *)
(***************************************************************************)

Distinct(u) == \A i, j \in DOMAIN u : u[i] = u[j] => i = j

(* OnHoldSound and GrantedOnce, of a state st, transitions tr, a queue u,  *)
(* grants gs and the tasks P whose first HasCapacity the binder holds.     *)
Sound(st, tr, u, gs, P) ==
    /\ Distinct(u)
    /\ \A t \in Task : InQueue(t, u) =>
          /\ st[t] = "inactive" /\ tr[t].target \in {"none", "reporting"}
          /\ t \notin P
          /\ \A g \in gs : g.task # t
    /\ \A g \in gs : st[g.task] \in {"inactive"} \cup Terminal /\ g.task \notin P
    /\ \A g, h \in gs : g.task = h.task => g = h
    /\ \A t \in P : st[t] \in {"inactive"} \cup Terminal
    /\ \A t \in Task : st[t] = "new" => tr[t].target = "none"

(* NeverStranded, of one task.                                             *)
Reachable(t, st, tr, u, gs, P) ==
    st[t] = "inactive" /\ tr[t].target = "none" =>
        InQueue(t, u) \/ t \in P \/ \E g \in gs : g.task = t

Pending == {t \in Task : \E e \in calls["binder"] : e.kind = "HasCapacity" /\ e.task = t}

(* Where HasCapacity events may be: alone with the binder.                 *)
CapacityCalls ==
    \A c \in Coroutine : \A e \in calls[c] :
        e.kind = "HasCapacity" => c = "binder" /\ calls[c] = {e}

(* Workers report results and confirms.                                    *)
Reports == \A w \in Worker : \A i \in DOMAIN outbox[w] : outbox[w][i].kind \in WorkerReported

QueueInv ==
    /\ CapacityCalls
    /\ Reports
    /\ Sound(state, transit, unassigned, grants, Pending)
    /\ \A t \in Task : Reachable(t, state, transit, unassigned, grants, Pending)

-----------------------------------------------------------------------------
(* Queues.                                                                 *)

(* Appending puts one more task in the queue.                              *)
LEMMA AppendQueue ==
    ASSUME NEW u \in Seq(Task), NEW t \in Task
    PROVE  /\ \A x \in Task : InQueue(x, Append(u, t)) <=> InQueue(x, u) \/ x = t
           /\ Distinct(u) /\ ~ InQueue(t, u) => Distinct(Append(u, t))
  <1>1. /\ DOMAIN u = 1..Len(u) /\ DOMAIN Append(u, t) = 1..(Len(u) + 1) /\ Len(u) \in Nat
        /\ \A i \in 1..Len(u) : Append(u, t)[i] = u[i]
        /\ Append(u, t)[Len(u) + 1] = t
    OBVIOUS
  <1>2. \A x \in Task : InQueue(x, Append(u, t)) <=> InQueue(x, u) \/ x = t
    BY <1>1 DEF InQueue
  <1>3. Distinct(u) /\ ~ InQueue(t, u) => Distinct(Append(u, t))
    BY <1>1 DEF InQueue, Distinct
  <1> QED  BY <1>2, <1>3

(* Removing a task from a queue that holds it once removes it, and only it. *)
LEMMA WithoutQueue ==
    ASSUME NEW u \in Seq(Task), NEW t \in Task, Distinct(u)
    PROVE  /\ \A x \in Task : InQueue(x, Without(u, t)) <=> InQueue(x, u) /\ x # t
           /\ Distinct(Without(u, t))
  <1>1. CASE InQueue(t, u)
    <2> DEFINE i == CHOOSE i \in DOMAIN u : u[i] = t
               v == [j \in 1..(Len(u) - 1) |-> IF j < i THEN u[j] ELSE u[j + 1]]
    <2>1. i \in 1..Len(u) /\ u[i] = t /\ DOMAIN u = 1..Len(u) /\ Len(u) \in Nat
      BY <1>1 DEF InQueue
    <2>2. Without(u, t) = v
      BY <1>1 DEF Without
    <2> HIDE DEF i
    <2>3. DOMAIN v = 1..(Len(u) - 1)
      OBVIOUS
    <2>4. \A j \in 1..(Len(u) - 1) : v[j] = IF j < i THEN u[j] ELSE u[j + 1]
      OBVIOUS
    <2> HIDE DEF v
    <2>5. Distinct(v)
      BY <2>1, <2>3, <2>4 DEF Distinct
    <2>6. ASSUME NEW x \in Task, InQueue(x, v) PROVE InQueue(x, u) /\ x # t
      <3>1. PICK j \in 1..(Len(u) - 1) : v[j] = x
        BY <2>3, <2>6 DEF InQueue
      <3>2. CASE j < i
        BY <2>1, <2>4, <3>1, <3>2 DEF InQueue, Distinct
      <3>3. CASE ~ (j < i)
        BY <2>1, <2>4, <3>1, <3>3 DEF InQueue, Distinct
      <3> QED  BY <3>2, <3>3
    <2>7. ASSUME NEW x \in Task, InQueue(x, u), x # t PROVE InQueue(x, v)
      <3>1. PICK j \in 1..Len(u) : u[j] = x
        BY <2>1, <2>7 DEF InQueue
      <3>2. CASE j < i
        <4>1. j \in 1..(Len(u) - 1) /\ v[j] = x
          BY <2>1, <2>4, <3>1, <3>2
        <4> QED  BY <2>3, <4>1 DEF InQueue
      <3>3. CASE ~ (j < i)
        <4>1. j > i
          BY <2>1, <2>7, <3>1, <3>3
        <4>2. j - 1 \in 1..(Len(u) - 1) /\ v[j - 1] = x
          BY <2>1, <2>4, <3>1, <4>1
        <4> QED  BY <2>3, <4>2 DEF InQueue
      <3> QED  BY <3>2, <3>3
    <2> QED  BY <2>2, <2>5, <2>6, <2>7
  <1>2. CASE ~ InQueue(t, u)
    BY <1>2 DEF Without
  <1> QED  BY <1>1, <1>2

(* __retry_unassignable moves the head of the queue into grants: a task of *)
(* the queue stays in it or is granted, and not both.                      *)
LEMMA RetryQueue ==
    ASSUME NEW by, NEW rest, NEW b, NEW u \in Seq(Task), Distinct(u),
           RetryUnassignable(by, rest, b, u)
    PROVE  /\ Distinct(unassigned')
           /\ rest \subseteq grants'
           /\ \A x \in Task : InQueue(x, unassigned') =>
                 InQueue(x, u) /\ \A g \in grants' \ rest : g.task # x
           /\ \A x \in Task : InQueue(x, u) =>
                 InQueue(x, unassigned') \/ \E g \in grants' : g.task = x
           /\ \A g \in grants' \ rest : g.task \in Task /\ InQueue(g.task, u)
           /\ \A g, h \in grants' \ rest : g.task = h.task => g = h
  <1>1. PICK k \in 0..Len(u) : \E f \in [1..k -> Worker] :
            /\ unassigned' = SubSeq(u, k + 1, Len(u))
            /\ grants' = rest \cup {[task |-> u[i], worker |-> f[i], by |-> by] : i \in 1..k}
    BY DEF RetryUnassignable
  <1>2. PICK f \in [1..k -> Worker] :
            /\ unassigned' = SubSeq(u, k + 1, Len(u))
            /\ grants' = rest \cup {[task |-> u[i], worker |-> f[i], by |-> by] : i \in 1..k}
    BY <1>1
  <1> DEFINE v == SubSeq(u, k + 1, Len(u))
  <1>3. /\ DOMAIN u = 1..Len(u) /\ Len(u) \in Nat /\ k \in Nat /\ k <= Len(u)
        /\ \A i \in 1..Len(u) : u[i] \in Task
    OBVIOUS
  <1>4. DOMAIN v = 1..(Len(u) - k) /\ \A j \in 1..(Len(u) - k) : v[j] = u[j + k]
    BY <1>3
  <1>5. v = unassigned'
    BY <1>2
  <1> HIDE DEF v
  <1>6. Distinct(v)
    BY <1>3, <1>4 DEF Distinct
  <1>7. \A g \in grants' \ rest : \E i \in 1..k :
           g = [task |-> u[i], worker |-> f[i], by |-> by]
    BY <1>2
  <1>8. \A g \in grants' \ rest : g.task \in Task /\ InQueue(g.task, u)
    BY <1>3, <1>7 DEF InQueue
  <1>9. \A g, h \in grants' \ rest : g.task = h.task => g = h
    <2> SUFFICES ASSUME NEW g \in grants' \ rest, NEW h \in grants' \ rest, g.task = h.task
                 PROVE  g = h
      OBVIOUS
    <2>1. PICK i \in 1..k : g = [task |-> u[i], worker |-> f[i], by |-> by]
      BY <1>7
    <2>2. PICK j \in 1..k : h = [task |-> u[j], worker |-> f[j], by |-> by]
      BY <1>7
    <2>3. u[i] = u[j] /\ i \in DOMAIN u /\ j \in DOMAIN u
      BY <1>3, <2>1, <2>2
    <2>4. i = j
      BY <2>3 DEF Distinct
    <2> QED  BY <2>1, <2>2, <2>4
  <1>10. ASSUME NEW x \in Task, InQueue(x, v)
         PROVE  InQueue(x, u) /\ \A g \in grants' \ rest : g.task # x
    <2>1. PICK j \in 1..(Len(u) - k) : u[j + k] = x
      BY <1>4, <1>10 DEF InQueue
    <2>2. j + k \in 1..Len(u)
      BY <1>3
    <2>3. InQueue(x, u)
      BY <1>3, <2>1, <2>2 DEF InQueue
    <2>4. ASSUME NEW g \in grants' \ rest, g.task = x PROVE FALSE
      <3>1. PICK i \in 1..k : g = [task |-> u[i], worker |-> f[i], by |-> by]
        BY <1>7
      <3>2. u[i] = u[j + k] /\ i \in 1..Len(u)
        BY <1>3, <2>1, <2>4, <3>1
      <3>3. i = j + k
        BY <1>3, <2>2, <3>2 DEF Distinct
      <3> QED  BY <1>3, <3>3
    <2> QED  BY <2>3, <2>4
  <1>11. ASSUME NEW x \in Task, InQueue(x, u)
         PROVE  InQueue(x, v) \/ \E g \in grants' : g.task = x
    <2>1. PICK j \in 1..Len(u) : u[j] = x
      BY <1>3, <1>11 DEF InQueue
    <2>2. CASE j \in 1..k
      <3>1. [task |-> u[j], worker |-> f[j], by |-> by] \in grants'
        BY <1>2, <2>2
      <3> QED  BY <2>1, <3>1
    <2>3. CASE j \notin 1..k
      <3>1. j - k \in 1..(Len(u) - k)
        BY <1>3, <2>3
      <3>2. v[j - k] = x
        BY <1>3, <1>4, <2>1, <3>1
      <3> QED  BY <1>4, <3>1, <3>2 DEF InQueue
    <2> QED  BY <2>2, <2>3
  <1>12. rest \subseteq grants'
    BY <1>2
  <1> QED  BY <1>5, <1>6, <1>8, <1>9, <1>10, <1>11, <1>12

-----------------------------------------------------------------------------
(* The router.  t is the task of the event and rest the grants that stay;  *)
(* every other task is assumed reachable, t only where it has to be.       *)

(* A terminal arm: t leaves the queue for good, released capacity goes to  *)
(* tasks that were in it.                                                  *)
LEMMA SettleQueue ==
    ASSUME RoutedTypes, NEW owners, NEW by, NEW rest \in SUBSET Grant, NEW t \in Task,
           NEW outcome \in Terminal, NEW b, NEW u \in Seq(Task), NEW P \in SUBSET Task,
           Sound(state, transit, unassigned, rest, P),
           \A x \in Task \ {t} : Reachable(x, state, transit, unassigned, rest, P),
           Distinct(u), \A x \in Task : InQueue(x, u) <=> InQueue(x, unassigned) /\ x # t,
           state[t] \in LiveState, SettleFor(owners, by, rest, t, outcome, b, u)
    PROVE  /\ Sound(state', transit', unassigned', grants', P)
           /\ \A x \in Task : Reachable(x, state', transit', unassigned', grants', P)
  <1>1. RetryUnassignable(t, rest, b, u)
    BY DEF SettleFor
  <1>2. /\ Distinct(unassigned')
        /\ rest \subseteq grants'
        /\ \A x \in Task : InQueue(x, unassigned') =>
              InQueue(x, u) /\ \A g \in grants' \ rest : g.task # x
        /\ \A x \in Task : InQueue(x, u) =>
              InQueue(x, unassigned') \/ \E g \in grants' : g.task = x
        /\ \A g \in grants' \ rest : g.task \in Task /\ InQueue(g.task, u)
        /\ \A g, h \in grants' \ rest : g.task = h.task => g = h
    BY <1>1, RetryQueue
  <1>3. \A x \in Task \ {t} : state'[x] = state[x] /\ transit'[x] = transit[x]
    BY DEF SettleFor, RoutedTypes
  <1>4. \/ state'[t] = state[t] /\ transit'[t].target = outcome
        \/ state'[t] = outcome
    BY DEF SettleFor, RoutedTypes
  <1>5. \A g \in rest : g.task \in Task
    BY DEF Grant
  <1>6. outcome \notin {"inactive", "none", "reporting"}
    BY DEF Terminal, ResultType
  <1>7. Sound(state', transit', unassigned', grants', P)
    <2>1. \A x \in Task : InQueue(x, unassigned') =>
             /\ state'[x] = "inactive" /\ transit'[x].target \in {"none", "reporting"}
             /\ x \notin P
             /\ \A g \in grants' : g.task # x
      BY <1>2, <1>3 DEF Sound
    <2>2. \A g \in grants' : state'[g.task] \in {"inactive"} \cup Terminal /\ g.task \notin P
      BY <1>2, <1>3, <1>4, <1>5 DEF Sound
    <2>3. \A g, h \in grants' : g.task = h.task => g = h
      BY <1>2, <1>5 DEF Sound
    <2>4. \A x \in P : state'[x] \in {"inactive"} \cup Terminal
      BY <1>3, <1>4 DEF Sound
    <2>5. \A x \in Task : state'[x] = "new" => transit'[x].target = "none"
      BY <1>3, <1>4 DEF Sound, LiveState, Terminal, ResultType
    <2> QED  BY <1>2, <2>1, <2>2, <2>3, <2>4, <2>5 DEF Sound
  <1>8. \A x \in Task \ {t} : Reachable(x, state', transit', unassigned', grants', P)
    BY <1>2, <1>3 DEF Reachable
  <1>9. Reachable(t, state', transit', unassigned', grants', P)
    BY <1>4, <1>6 DEF Reachable
  <1> QED  BY <1>7, <1>8, <1>9

(* Moving t to another live state than inactive; t had no HasCapacity left. *)
LEMMA BecomeQueue ==
    ASSUME RoutedTypes, NEW rest \in SUBSET Grant, NEW t \in Task, NEW s \in LiveState,
           s # "inactive", NEW P \in SUBSET Task,
           Sound(state, transit, unassigned, rest, P),
           \A x \in Task \ {t} : Reachable(x, state, transit, unassigned, rest, P),
           ~ InQueue(t, unassigned), t \notin P, \A g \in rest : g.task # t,
           Become(rest, t, s)
    PROVE  /\ Sound(state', transit', unassigned', grants', P)
           /\ \A x \in Task : Reachable(x, state', transit', unassigned', grants', P)
  <1>1. /\ \A x \in Task \ {t} : state'[x] = state[x]
        /\ state'[t] = s
        /\ transit' = transit /\ unassigned' = unassigned /\ grants' = rest
    BY DEF Become, RoutedTypes
  <1>2. \A g \in rest : g.task \in Task
    BY DEF Grant
  <1>3. Sound(state', transit', unassigned', grants', P)
    BY <1>1, <1>2 DEF Sound, LiveState
  <1>4. \A x \in Task : Reachable(x, state', transit', unassigned', grants', P)
    BY <1>1 DEF Reachable
  <1> QED  BY <1>3, <1>4

(* Placing t again: it goes to a worker or to the end of the queue.        *)
LEMMA DispatchQueue ==
    ASSUME RoutedTypes, NEW rest \in SUBSET Grant, NEW t \in Task, NEW b,
           NEW P \in SUBSET Task, transit[t].target = "none",
           Sound(state, transit, unassigned, rest, P),
           \A x \in Task \ {t} : Reachable(x, state, transit, unassigned, rest, P),
           ~ InQueue(t, unassigned), t \notin P, \A g \in rest : g.task # t,
           AcquireAndDispatch(rest, t, b)
    PROVE  /\ Sound(state', transit', unassigned', grants', P)
           /\ \A x \in Task : Reachable(x, state', transit', unassigned', grants', P)
  <1>1. /\ grants' = rest /\ transit' = transit
        /\ \/ unassigned' = Append(unassigned, t) /\ state' = [state EXCEPT ![t] = "inactive"]
           \/ unassigned' = unassigned /\ state' = [state EXCEPT ![t] = "running"]
    BY DEF AcquireAndDispatch
  <1>2. \A x \in Task \ {t} : state'[x] = state[x]
    BY <1>1 DEF RoutedTypes
  <1>3. \A g \in rest : g.task \in Task
    BY DEF Grant
  <1>4. CASE unassigned' = Append(unassigned, t) /\ state' = [state EXCEPT ![t] = "inactive"]
    <2>1. state'[t] = "inactive"
      BY <1>4 DEF RoutedTypes
    <2>2. unassigned \in Seq(Task) /\ Distinct(unassigned)
      BY DEF RoutedTypes, Sound
    <2>3. /\ \A x \in Task : InQueue(x, unassigned') <=> InQueue(x, unassigned) \/ x = t
          /\ Distinct(unassigned')
      BY <1>4, <2>2, AppendQueue
    <2>4. Sound(state', transit', unassigned', grants', P)
      BY <1>1, <1>2, <1>3, <2>1, <2>3 DEF Sound
    <2>5. \A x \in Task : Reachable(x, state', transit', unassigned', grants', P)
      BY <1>1, <1>2, <2>3 DEF Reachable
    <2> QED  BY <2>4, <2>5
  <1>5. CASE unassigned' = unassigned /\ state' = [state EXCEPT ![t] = "running"]
    <2>1. state'[t] = "running"
      BY <1>5 DEF RoutedTypes
    <2>2. Sound(state', transit', unassigned', grants', P)
      BY <1>1, <1>2, <1>3, <1>5, <2>1 DEF Sound
    <2>3. \A x \in Task : Reachable(x, state', transit', unassigned', grants', P)
      BY <1>1, <1>2, <1>5, <2>1 DEF Reachable
    <2> QED  BY <2>2, <2>3
  <1> QED  BY <1>1, <1>4, <1>5

(* The end of a faulted task: like a terminal arm, but committed first.    *)
LEMMA TeardownQueue ==
    ASSUME RoutedTypes, NEW by, NEW rest \in SUBSET Grant, NEW t \in Task, NEW b,
           NEW P \in SUBSET Task,
           Sound(state, transit, unassigned, rest, P),
           \A x \in Task \ {t} : Reachable(x, state, transit, unassigned, rest, P),
           Teardown(by, rest, t, b)
    PROVE  /\ Sound(state', transit', unassigned', grants', P)
           /\ \A x \in Task : Reachable(x, state', transit', unassigned', grants', P)
  <1> DEFINE u == Without(unassigned, t)
  <1>1. unassigned \in Seq(Task) /\ Distinct(unassigned)
    BY DEF RoutedTypes, Sound
  <1>2. /\ u \in Seq(Task) /\ Distinct(u)
        /\ \A x \in Task : InQueue(x, u) <=> InQueue(x, unassigned) /\ x # t
    BY <1>1, WithoutQueue, WithoutType
  <1>3. RetryUnassignable(t, rest, RemoveTask(b, t), u)
    BY DEF Teardown
  <1> HIDE DEF u
  <1>4. /\ Distinct(unassigned')
        /\ rest \subseteq grants'
        /\ \A x \in Task : InQueue(x, unassigned') =>
              InQueue(x, u) /\ \A g \in grants' \ rest : g.task # x
        /\ \A x \in Task : InQueue(x, u) =>
              InQueue(x, unassigned') \/ \E g \in grants' : g.task = x
        /\ \A g \in grants' \ rest : g.task \in Task /\ InQueue(g.task, u)
        /\ \A g, h \in grants' \ rest : g.task = h.task => g = h
    BY <1>2, <1>3, RetryQueue
  <1>5. /\ \A x \in Task \ {t} : state'[x] = state[x] /\ transit'[x] = transit[x]
        /\ state'[t] = "failed"
    BY DEF Teardown, RoutedTypes
  <1>6. "failed" \in Terminal /\ \A g \in rest : g.task \in Task
    BY DEF Grant, Terminal, ResultType
  <1>7. Sound(state', transit', unassigned', grants', P)
    <2>1. \A x \in Task : InQueue(x, unassigned') =>
             /\ state'[x] = "inactive" /\ transit'[x].target \in {"none", "reporting"}
             /\ x \notin P
             /\ \A g \in grants' : g.task # x
      BY <1>2, <1>4, <1>5 DEF Sound
    <2>2. \A g \in grants' : state'[g.task] \in {"inactive"} \cup Terminal /\ g.task \notin P
      BY <1>2, <1>4, <1>5, <1>6 DEF Sound
    <2>3. \A g, h \in grants' : g.task = h.task => g = h
      BY <1>2, <1>4, <1>6 DEF Sound
    <2>4. \A x \in P : state'[x] \in {"inactive"} \cup Terminal
      BY <1>5, <1>6 DEF Sound
    <2>5. \A x \in Task : state'[x] = "new" => transit'[x].target = "none"
      BY <1>5 DEF Sound
    <2> QED  BY <1>4, <2>1, <2>2, <2>3, <2>4, <2>5 DEF Sound
  <1>8. \A x \in Task : Reachable(x, state', transit', unassigned', grants', P)
    BY <1>2, <1>4, <1>5 DEF Reachable
  <1> QED  BY <1>7, <1>8

(* Refusing an event moves nothing.                                        *)
LEMMA RefuseQueue ==
    ASSUME NEW rest, NEW t \in Task, NEW P, Refuse(rest),
           Sound(state, transit, unassigned, rest, P),
           \A x \in Task \ {t} : Reachable(x, state, transit, unassigned, rest, P),
           Reachable(t, state, transit, unassigned, rest, P) \/ state[t] # "inactive"
    PROVE  /\ Sound(state', transit', unassigned', grants', P)
           /\ \A x \in Task : Reachable(x, state', transit', unassigned', grants', P)
  <1>1. /\ state' = state /\ transit' = transit
        /\ unassigned' = unassigned /\ grants' = rest
    BY DEF Refuse
  <1>2. \A x \in Task : Reachable(x, state, transit, unassigned, rest, P)
    BY DEF Reachable
  <1> QED  BY <1>1, <1>2

(* What a routed event finds: the lock of its task is free, and the        *)
(* HasCapacity of a task is the only one and finds it off the queue.       *)
Routable(e, rest, P) ==
    /\ transit[e.task] = NoTransit
    /\ Sound(state, transit, unassigned, rest, P)
    /\ \A x \in Task \ {e.task} : Reachable(x, state, transit, unassigned, rest, P)
    /\ IF e.kind = "HasCapacity"
       THEN /\ ~ InQueue(e.task, unassigned) /\ e.task \notin P
            /\ \A g \in rest : g.task # e.task
       ELSE Reachable(e.task, state, transit, unassigned, rest, P)

(* Every arm of the router keeps the queue sound and the tasks reachable.  *)
LEMMA ArmQueue ==
    ASSUME RoutedTypes, NEW by, NEW rest \in SUBSET Grant, NEW e \in Event,
           NEW P \in SUBSET Task, Routable(e, rest, P), state[e.task] \in LiveState,
           Arm(by, rest, e)
    PROVE  /\ Sound(state', transit', unassigned', grants', P)
           /\ \A x \in Task : Reachable(x, state', transit', unassigned', grants', P)
  <1> DEFINE t == e.task
             Goal == /\ Sound(state', transit', unassigned', grants', P)
                     /\ \A x \in Task : Reachable(x, state', transit', unassigned', grants', P)
  <1>1. /\ t \in Task /\ e.kind \in EventKind
        /\ e.kind = "TaskResultReceived" => e.arg \in Terminal
    BY DEF Event, EventKind, WorkerReported, Terminal
  <1>2. /\ Sound(state, transit, unassigned, rest, P)
        /\ \A x \in Task \ {t} : Reachable(x, state, transit, unassigned, rest, P)
        /\ transit[t].target = "none"
    BY DEF Routable, NoTransit
  <1>3. /\ "canceled" \in Terminal /\ "canceledNotFound" \in Terminal
        /\ {"running", "canceling", "balanceCanceling"} \subseteq LiveState
    BY DEF Terminal, LiveState
  <1>4. unassigned \in Seq(Task) /\ Distinct(unassigned)
    BY <1>2 DEF RoutedTypes, Sound
  <1>5. state[t] # "inactive" =>
          ~ InQueue(t, unassigned) /\ t \notin P /\ \A g \in rest : g.task # t
    BY <1>1, <1>2 DEF Sound, LiveState, Terminal, ResultType
  <1>6. ASSUME Refuse(rest), e.kind # "HasCapacity" \/ state[t] # "inactive" PROVE Goal
    BY <1>1, <1>2, <1>6, RefuseQueue DEF Routable
  <1>7. ASSUME NEW s \in {"running", "canceling", "balanceCanceling"},
               state[t] # "inactive" \/ e.kind = "HasCapacity", Become(rest, t, s)
        PROVE  Goal
    <2>1. ~ InQueue(t, unassigned) /\ t \notin P /\ \A g \in rest : g.task # t
      BY <1>5, <1>7 DEF Routable
    <2> QED  BY <1>1, <1>2, <1>3, <1>7, <2>1, BecomeQueue
  <1>8. ASSUME NEW owners, NEW outcome \in Terminal, NEW b, ~ InQueue(t, unassigned),
               SettleFor(owners, by, rest, t, outcome, b, unassigned)
        PROVE  Goal
    <2>1. \A x \in Task : InQueue(x, unassigned) <=> InQueue(x, unassigned) /\ x # t
      BY <1>8
    <2> QED  BY <1>1, <1>2, <1>4, <1>8, <2>1, SettleQueue
  <1>9. ASSUME NEW b, state[t] # "inactive", AcquireAndDispatch(rest, t, b) PROVE Goal
    BY <1>1, <1>2, <1>5, <1>9, DispatchQueue
  <1>10. CASE e.kind = "HasCapacity"
    <2>1. OnHasCapacity(rest, e)
      BY <1>10 DEF Arm
    <2> QED  BY <1>6, <1>7, <1>10, <2>1 DEF OnHasCapacity
  <1>11. CASE e.kind = "TaskCancelRequested"
    <2>1. OnTaskCancel(by, rest, e)
      BY <1>11 DEF Arm
    <2>2. CASE state[t] = "inactive" /\ InQueue(t, unassigned)
      <3> DEFINE u == Without(unassigned, t)
      <3>1. SettleFor(owned, by, rest, t, "canceled", books, u)
        BY <2>1, <2>2 DEF OnTaskCancel, Settle
      <3>2. /\ u \in Seq(Task) /\ Distinct(u)
            /\ \A x \in Task : InQueue(x, u) <=> InQueue(x, unassigned) /\ x # t
        BY <1>1, <1>4, WithoutQueue, WithoutType
      <3> HIDE DEF u
      <3> QED  BY <1>1, <1>2, <1>3, <3>1, <3>2, SettleQueue
    <2>3. CASE state[t] = "inactive" /\ ~ InQueue(t, unassigned)
      BY <1>3, <1>8, <2>1, <2>3 DEF OnTaskCancel, Settle
    <2>4. CASE state[t] = "running" /\ books.holder[t] # NoWorker
      BY <1>7, <2>1, <2>4 DEF OnTaskCancel
    <2>5. CASE state[t] = "running" /\ books.holder[t] = NoWorker
      BY <1>3, <1>5, <1>8, <2>1, <2>5 DEF OnTaskCancel
    <2>6. CASE state[t] = "balanceCanceling"
      BY <1>7, <2>1, <2>6 DEF OnTaskCancel
    <2>7. CASE state[t] \notin {"inactive", "running", "balanceCanceling"}
      BY <1>6, <2>1, <2>7 DEF OnTaskCancel
    <2> QED  BY <2>2, <2>3, <2>4, <2>5, <2>6, <2>7
  <1>12. CASE e.kind = "BalanceCancelRequested"
    <2>1. OnBalanceTaskCancel(rest, e)
      BY <1>12 DEF Arm
    <2> QED  BY <1>6, <1>7, <1>12, <2>1 DEF OnBalanceTaskCancel
  <1>13. CASE e.kind = "TaskResultReceived"
    <2>1. OnTaskResult(by, rest, e)
      BY <1>13 DEF Arm
    <2> QED  BY <1>1, <1>5, <1>6, <1>8, <1>13, <2>1 DEF OnTaskResult, Settle
  <1>14. ASSUME NEW outcome \in {"canceled", "canceledNotFound"}, e.kind # "HasCapacity",
                OnCancelConfirm(by, rest, e, outcome)
         PROVE  Goal
    <2>1. CASE state[t] = "canceling"
      BY <1>3, <1>5, <1>8, <1>14, <2>1 DEF OnCancelConfirm, Settle
    <2>2. CASE state[t] = "balanceCanceling"
      BY <1>9, <1>14, <2>2 DEF OnCancelConfirm
    <2>3. CASE state[t] \notin {"canceling", "balanceCanceling"}
      BY <1>6, <1>14, <2>3 DEF OnCancelConfirm
    <2> QED  BY <2>1, <2>2, <2>3
  <1>15. CASE e.kind \in {"CancelConfirmCanceled", "CancelConfirmNotFound"}
    BY <1>14, <1>15 DEF Arm
  <1>16. CASE e.kind = "CancelConfirmFailed"
    <2>1. OnCancelConfirmFailed(rest, e)
      BY <1>16 DEF Arm
    <2> QED  BY <1>6, <1>7, <1>16, <2>1 DEF OnCancelConfirmFailed
  <1>17. CASE e.kind = "WorkerDisconnected"
    <2>1. OnWorkerDisconnect(by, rest, e)
      BY <1>17 DEF Arm
    <2>2. CASE state[t] \in {"running", "balanceCanceling"}
      BY <1>9, <2>1, <2>2 DEF OnWorkerDisconnect
    <2>3. CASE state[t] = "canceling"
      BY <1>3, <1>5, <1>8, <2>1, <2>3 DEF OnWorkerDisconnect, Settle
    <2>4. CASE state[t] \notin {"running", "balanceCanceling", "canceling"}
      BY <1>6, <1>17, <2>1, <2>4 DEF OnWorkerDisconnect
    <2> QED  BY <2>2, <2>3, <2>4
  <1> QED  BY <1>1, <1>10, <1>11, <1>12, <1>13, <1>15, <1>16, <1>17
           DEF EventKind, WorkerReported

(* The router keeps the queue sound and the tasks reachable, faults        *)
(* included: a faulted task may stay in the queue while its report is      *)
(* stored.                                                                 *)
LEMMA RouteQueue ==
    ASSUME RoutedTypes, NEW by, NEW rest \in SUBSET Grant, NEW e \in Event,
           NEW P \in SUBSET Task, Routable(e, rest, P), Route(by, rest, e)
    PROVE  /\ Sound(state', transit', unassigned', grants', P)
           /\ \A x \in Task : Reachable(x, state', transit', unassigned', grants', P)
  <1> DEFINE t == e.task
  <1>1. t \in Task
    BY DEF Event
  <1>2. /\ Sound(state, transit, unassigned, rest, P)
        /\ \A x \in Task \ {t} : Reachable(x, state, transit, unassigned, rest, P)
        /\ transit[t].target = "none"
    BY DEF Routable, NoTransit
  <1>3. CASE state[t] \notin LiveState /\ Refuse(rest)
    BY <1>1, <1>2, <1>3, RefuseQueue DEF LiveState
  <1>4. CASE ~ IsTaskOwnedByWorker(e) /\ Refuse(rest)
    <2>1. e.kind # "HasCapacity"
      BY <1>4 DEF IsTaskOwnedByWorker, WorkerReported
    <2> QED  BY <1>1, <1>2, <1>4, <2>1, RefuseQueue DEF Routable
  <1>5. CASE state[t] \in LiveState /\ Arm(by, rest, e)
    BY <1>5, ArmQueue
  <1>6. CASE /\ state[t] \in LiveState
             /\ transit' = [transit EXCEPT ![t] = [target |-> "reporting", by |-> by]]
             /\ grants' = rest
             /\ UNCHANGED <<books, state, told, unassigned>>
    <2>1. /\ \A x \in Task \ {t} : transit'[x] = transit[x]
          /\ transit'[t].target = "reporting"
      BY <1>1, <1>6 DEF RoutedTypes
    <2>2. Sound(state', transit', unassigned', grants', P)
      BY <1>2, <1>6, <2>1 DEF Sound, LiveState
    <2>3. \A x \in Task : Reachable(x, state', transit', unassigned', grants', P)
      BY <1>2, <1>6, <2>1 DEF Reachable
    <2> QED  BY <2>2, <2>3
  <1>7. CASE Teardown(by, rest, t, books)
    BY <1>1, <1>2, <1>7, TeardownQueue
  <1> QED  BY <1>3, <1>4, <1>5, <1>6, <1>7 DEF Route, Fault

-----------------------------------------------------------------------------
(* Steps.                                                                  *)

(* One more report is a result or a confirm too.                           *)
LEMMA AppendReports ==
    ASSUME outbox \in [Worker -> Seq(Event)], Reports, NEW w \in Worker, NEW e \in Event,
           e.kind \in WorkerReported, outbox' = [outbox EXCEPT ![w] = Append(@, e)]
    PROVE  Reports'
  <1>1. \A v \in Worker : outbox[v] \in Seq(Event)
    OBVIOUS
  <1>2. \A v \in Worker \ {w} : outbox'[v] = outbox[v]
    OBVIOUS
  <1>3. outbox'[w] = Append(outbox[w], e)
    OBVIOUS
  <1>4. \A i \in DOMAIN outbox'[w] : outbox'[w][i].kind \in WorkerReported
    BY <1>1, <1>3 DEF Reports
  <1> QED  BY <1>2, <1>4 DEF Reports

(* A cancel sent to a worker is answered with a confirm.                   *)
LEMMA CancelReports ==
    ASSUME RoutedTypes, Reports, NEW w \in Worker, NEW t \in Task, NEW force,
           SendTaskCancelToWorker(w, t, force)
    PROVE  Reports'
  <1> DEFINE answer == CancelAnswer(w, t, force)
             e == NewEvent(answer, t, w, "none")
  <1>1. answer \in {"CancelConfirmNotFound", "CancelConfirmFailed", "CancelConfirmCanceled"}
    BY DEF CancelAnswer
  <1>2. e \in Event /\ e.kind \in WorkerReported
    BY <1>1 DEF NewEvent, Event, EventKind, WorkerReported
  <1>3. \/ outbox' = outbox
        \/ outbox' = [outbox EXCEPT ![w] = Append(@, e)]
    BY DEF SendTaskCancelToWorker
  <1> HIDE DEF e
  <1> QED  BY <1>2, <1>3, AppendReports DEF RoutedTypes, Reports

(* The router makes a worker report confirms only.                         *)
LEMMA RouteReports ==
    ASSUME RoutedTypes, Reports, NEW by, NEW rest, NEW e \in Event, Route(by, rest, e)
    PROVE  Reports'
  <1>1. e.task \in Task /\ books.holder[e.task] \in Worker \cup {NoWorker}
    BY DEF Event, RoutedTypes, Books
  <1>2. CASE outbox' = outbox
    BY <1>2 DEF Reports
  <1>3. CASE \E force : /\ books.holder[e.task] # NoWorker
                        /\ SendTaskCancelToWorker(books.holder[e.task], e.task, force)
    BY <1>1, <1>3, CancelReports
  <1>4. ASSUME Arm(by, rest, e) PROVE Reports'
    <2>1. CASE e.kind = "HasCapacity"
      BY <1>2, <1>4, <2>1 DEF Arm, OnHasCapacity, SendTaskToWorker, Refuse
    <2>2. CASE e.kind = "TaskCancelRequested"
      <3>1. OnTaskCancel(by, rest, e)
        BY <1>4, <2>2 DEF Arm
      <3> QED  BY <1>2, <1>3, <3>1 DEF OnTaskCancel, Settle, SettleFor, Refuse
    <2>3. CASE e.kind = "BalanceCancelRequested"
      BY <1>2, <1>3, <1>4, <2>3 DEF Arm, OnBalanceTaskCancel, Refuse
    <2>4. CASE e.kind = "TaskResultReceived"
      BY <1>2, <1>4, <2>4 DEF Arm, OnTaskResult, Settle, SettleFor, Refuse
    <2>5. CASE e.kind \in {"CancelConfirmCanceled", "CancelConfirmNotFound"}
      <3>1. \E outcome : OnCancelConfirm(by, rest, e, outcome)
        BY <1>4, <2>5 DEF Arm
      <3> QED  BY <1>2, <3>1
               DEF OnCancelConfirm, Settle, SettleFor, AcquireAndDispatch, SendTaskToWorker, Refuse
    <2>6. CASE e.kind = "CancelConfirmFailed"
      BY <1>2, <1>4, <2>6 DEF Arm, OnCancelConfirmFailed, Refuse
    <2>7. CASE e.kind = "WorkerDisconnected"
      <3>1. OnWorkerDisconnect(by, rest, e)
        BY <1>4, <2>7 DEF Arm
      <3> QED  BY <1>2, <3>1
               DEF OnWorkerDisconnect, Settle, SettleFor, AcquireAndDispatch, SendTaskToWorker, Refuse
    <2> QED  BY <2>1, <2>2, <2>3, <2>4, <2>5, <2>6, <2>7 DEF Event, EventKind, WorkerReported
  <1> QED  BY <1>2, <1>4 DEF Route, Refuse, Fault

(* A step that only hands a coroutine events other than HasCapacity.       *)
LEMMA HandOver ==
    ASSUME TypeOK, QueueInv, NEW c \in Coroutine, NEW E \in SUBSET Event,
           \A e \in E : e.kind # "HasCapacity", c = "binder" => calls[c] = {},
           calls' = [calls EXCEPT ![c] = E], Reports',
           UNCHANGED <<state, transit, unassigned, grants>>
    PROVE  QueueInv'
  <1>1. calls \in [Coroutine -> SUBSET Event] /\ "binder" \in Coroutine
    BY DEF TypeOK, Coroutine
  <1>2. Pending' = Pending
    BY <1>1 DEF Pending
  <1>3. \A d \in Coroutine : \A e \in calls'[d] :
           e.kind = "HasCapacity" => d = "binder" /\ calls'[d] = {e}
    BY <1>1 DEF QueueInv, CapacityCalls
  <1> QED  BY <1>2, <1>3 DEF QueueInv, CapacityCalls

(* A step that touches neither the queue nor the calls.                    *)
LEMMA Aside ==
    ASSUME QueueInv, Reports', UNCHANGED <<state, transit, unassigned, grants, calls>>
    PROVE  QueueInv'
  <1>1. Pending' = Pending
    BY DEF Pending
  <1> QED  BY <1>1 DEF QueueInv, CapacityCalls

(* A worker that is disconnected leaves WorkerDisconnected events.         *)
LEMMA DisconnectQueue ==
    ASSUME TypeOK, QueueInv, NEW c \in Coroutine, NEW w \in Worker, calls[c] = {},
           DisconnectWorker(c, w), Reports', UNCHANGED <<state, transit, unassigned, grants>>
    PROVE  QueueInv'
  <1> DEFINE E == {NewEvent("WorkerDisconnected", t, w, "none") : t \in books.queue[w]}
  <1>1. books.queue[w] \subseteq Task
    BY DEF TypeOK, Books
  <1>2. \A t \in books.queue[w] : /\ NewEvent("WorkerDisconnected", t, w, "none") \in Event
                                  /\ NewEvent("WorkerDisconnected", t, w, "none").kind # "HasCapacity"
    BY <1>1 DEF NewEvent, Event, EventKind, WorkerReported
  <1>3. E \in SUBSET Event /\ \A e \in E : e.kind # "HasCapacity"
    BY <1>2
  <1>4. calls' = calls \/ calls' = [calls EXCEPT ![c] = E]
    BY DEF DisconnectWorker
  <1> HIDE DEF E
  <1> QED  BY <1>3, <1>4, HandOver, Aside

(* Every step of the event loop keeps the invariant.                       *)
LEMMA LoopQueue == TypeOK /\ QueueInv /\ Loop => QueueInv'
  <1> SUFFICES ASSUME TypeOK, QueueInv, Loop PROVE QueueInv'
    OBVIOUS
  <1>1. /\ RoutedTypes /\ calls \in [Coroutine -> SUBSET Event] /\ grants \in SUBSET Grant
        /\ "binder" \in Coroutine /\ "workerTimer" \in Coroutine
    BY TypeSplit DEF RoutedTypes, Coroutine
  <1>2. /\ CapacityCalls /\ Reports /\ Pending \in SUBSET Task
        /\ Sound(state, transit, unassigned, grants, Pending)
        /\ \A t \in Task : Reachable(t, state, transit, unassigned, grants, Pending)
    BY DEF QueueInv, Pending
  <1>3. ASSUME NEW c \in Coroutine, NEW e \in calls[c], RouteCall(c, e) PROVE QueueInv'
    <2>1. /\ e \in Event /\ e.task \in Task /\ transit[e.task] = NoTransit
          /\ Route(c, grants, e) /\ calls' = [calls EXCEPT ![c] = @ \ {e}]
      BY <1>1, <1>3 DEF RouteCall, LockAvailable, Event
    <2>2. Reports'
      BY <1>1, <1>2, <2>1, RouteReports
    <2>3. CapacityCalls'
      BY <1>1, <1>2, <2>1 DEF CapacityCalls
    <2>4. Pending' \in SUBSET Task
      BY DEF Pending
    <2>5. Routable(e, grants, Pending')
      <3>1. CASE e.kind = "HasCapacity"
        <4>1. c = "binder" /\ calls["binder"] = {e}
          BY <1>2, <1>3, <3>1 DEF CapacityCalls
        <4>2. Pending = {e.task}
          BY <2>1, <3>1, <4>1 DEF Pending
        <4>3. Pending' = {}
          BY <1>1, <2>1, <4>1 DEF Pending
        <4>4. /\ ~ InQueue(e.task, unassigned)
              /\ \A g \in grants : g.task # e.task
              /\ Sound(state, transit, unassigned, grants, {})
          BY <1>2, <2>1, <4>2 DEF Sound
        <4>5. \A x \in Task \ {e.task} : Reachable(x, state, transit, unassigned, grants, {})
          BY <1>2, <4>2 DEF Reachable
        <4> QED  BY <2>1, <3>1, <4>3, <4>4, <4>5 DEF Routable
      <3>2. CASE e.kind # "HasCapacity"
        <4>1. Pending' = Pending
          BY <1>1, <2>1, <3>2 DEF Pending
        <4> QED  BY <1>2, <2>1, <3>2, <4>1 DEF Routable
      <3> QED  BY <3>1, <3>2
    <2>6. /\ Sound(state', transit', unassigned', grants', Pending')
          /\ \A x \in Task : Reachable(x, state', transit', unassigned', grants', Pending')
      BY <1>1, <2>1, <2>4, <2>5, RouteQueue
    <2> QED  BY <2>2, <2>3, <2>6 DEF QueueInv
  <1>4. ASSUME NEW c \in Coroutine, NEW e \in calls[c], CancelOfEndedTask(c, e) PROVE QueueInv'
    <2>1. /\ e.kind # "HasCapacity" /\ calls' = [calls EXCEPT ![c] = @ \ {e}]
          /\ UNCHANGED <<state, transit, unassigned, grants, outbox>>
      BY <1>4 DEF CancelOfEndedTask, worker
    <2>2. Pending' = Pending
      BY <1>1, <2>1 DEF Pending
    <2>3. CapacityCalls'
      BY <1>1, <1>2, <2>1 DEF CapacityCalls
    <2>4. Reports'
      BY <1>2, <2>1 DEF Reports
    <2> QED  BY <1>2, <2>1, <2>2, <2>3, <2>4 DEF QueueInv
  <1>5. ASSUME NEW g \in grants, RouteGrant(g) PROVE QueueInv'
    <2> DEFINE e == NewEvent("HasCapacity", g.task, g.worker, "none")
               rest == grants \ {g}
    <2>1. g \in Grant /\ rest \in SUBSET Grant
      BY <1>1
    <2>2. e \in Event /\ e.task = g.task /\ e.kind = "HasCapacity" /\ g.task \in Task
      BY <2>1 DEF Grant, NewEvent, Event, EventKind, WorkerReported
    <2>3. Route(g.by, rest, e) /\ calls' = calls /\ transit[g.task] = NoTransit
      BY <1>5, <2>2 DEF RouteGrant, LockAvailable
    <2> HIDE DEF e
    <2>4. Pending' = Pending
      BY <2>3 DEF Pending
    <2>5. /\ ~ InQueue(g.task, unassigned) /\ g.task \notin Pending
          /\ \A h \in rest : h.task # g.task
          /\ Sound(state, transit, unassigned, rest, Pending)
      BY <1>2, <2>2 DEF Sound
    <2>6. \A x \in Task \ {g.task} : Reachable(x, state, transit, unassigned, rest, Pending)
      BY <1>2 DEF Reachable
    <2>7. Routable(e, rest, Pending)
      BY <2>2, <2>3, <2>5, <2>6 DEF Routable
    <2>8. /\ Sound(state', transit', unassigned', grants', Pending)
          /\ \A x \in Task : Reachable(x, state', transit', unassigned', grants', Pending)
      BY <1>1, <1>2, <2>1, <2>2, <2>3, <2>7, RouteQueue
    <2>9. Reports'
      BY <1>1, <1>2, <2>2, <2>3, RouteReports
    <2>10. CapacityCalls'
      BY <1>2, <2>3 DEF CapacityCalls
    <2> QED  BY <2>4, <2>8, <2>9, <2>10 DEF QueueInv
  <1>6. ASSUME NEW t \in Task, Commit(t) PROVE QueueInv'
    <2>1. /\ transit[t].target \in Terminal
          /\ state' = [state EXCEPT ![t] = transit[t].target]
          /\ transit' = [transit EXCEPT ![t] = NoTransit]
          /\ UNCHANGED <<unassigned, grants, calls, outbox>>
      BY <1>6 DEF Commit, worker
    <2>2. /\ state'[t] = transit[t].target /\ transit'[t].target = "none"
          /\ \A x \in Task \ {t} : state'[x] = state[x] /\ transit'[x] = transit[x]
      BY <1>1, <2>1 DEF RoutedTypes, NoTransit
    <2>3. state'[t] \notin {"inactive", "new"} /\ transit[t].target \notin {"none", "reporting"}
      BY <2>1, <2>2 DEF Terminal, ResultType
    <2>4. Pending' = Pending
      BY <2>1 DEF Pending
    <2>5. \A g \in grants : g.task \in Task
      BY <1>1 DEF Grant
    <2>6. Sound(state', transit', unassigned', grants', Pending)
      BY <1>2, <2>1, <2>2, <2>3, <2>5 DEF Sound
    <2>7. \A x \in Task : Reachable(x, state', transit', unassigned', grants', Pending)
      BY <1>2, <2>1, <2>2, <2>3 DEF Reachable
    <2>8. CapacityCalls' /\ Reports'
      BY <1>2, <2>1 DEF CapacityCalls, Reports
    <2> QED  BY <2>4, <2>6, <2>7, <2>8 DEF QueueInv
  <1>7. ASSUME NEW t \in Task, FaultReported(t) PROVE QueueInv'
    <2>1. Teardown(transit[t].by, grants, t, books) /\ UNCHANGED <<calls, outbox>>
      BY <1>7 DEF FaultReported, worker
    <2>2. /\ Sound(state', transit', unassigned', grants', Pending)
          /\ \A x \in Task : Reachable(x, state', transit', unassigned', grants', Pending)
      BY <1>1, <1>2, <2>1, TeardownQueue
    <2>3. Pending' = Pending
      BY <2>1 DEF Pending
    <2>4. CapacityCalls' /\ Reports'
      BY <1>2, <2>1 DEF CapacityCalls, Reports
    <2> QED  BY <2>2, <2>3, <2>4 DEF QueueInv
  <1>8. ASSUME WorkerConnected PROVE QueueInv'
    <2>1. UNCHANGED <<state, transit, unassigned, grants, calls, outbox>>
      BY <1>8 DEF WorkerConnected, task, loop, worker
    <2> QED  BY <1>2, <2>1, Aside DEF Reports
  <1>9. ASSUME NEW w \in dead, CleanNextWorker(w) PROVE QueueInv'
    <2>1. UNCHANGED <<state, transit, unassigned, grants, outbox>> /\ calls["workerTimer"] = {}
      BY <1>9 DEF CleanNextWorker, task, worker
    <2>2. Reports' /\ w \in Worker
      BY <1>2, <2>1 DEF Reports, TypeOK
    <2>3. CASE UNCHANGED calls
      BY <2>1, <2>2, <2>3, Aside
    <2>4. CASE DisconnectWorker("workerTimer", w)
      BY <1>1, <2>1, <2>2, <2>4, DisconnectQueue
    <2> QED  BY <1>9, <2>3, <2>4 DEF CleanNextWorker, CleanWorker
  <1> QED  BY <1>3, <1>4, <1>5, <1>6, <1>7, <1>8, <1>9 DEF Loop

(* A new task goes to a worker, its HasCapacity with the binder, or on hold. *)
LEMMA NewTaskQueue ==
    ASSUME TypeOK, QueueInv, NEW t \in Task, OnTaskNew(t)
    PROVE  QueueInv'
  <1>1. /\ state \in [Task -> TaskState] /\ unassigned \in Seq(Task)
        /\ calls \in [Coroutine -> SUBSET Event] /\ grants \in SUBSET Grant
        /\ "binder" \in Coroutine
    BY DEF TypeOK, Coroutine
  <1>2. /\ calls["binder"] = {} /\ state[t] = "new"
        /\ state' = [state EXCEPT ![t] = "inactive"]
        /\ UNCHANGED <<transit, grants, outbox>>
    BY DEF OnTaskNew, Idle, worker
  <1>3. /\ CapacityCalls /\ Reports /\ Distinct(unassigned)
        /\ Sound(state, transit, unassigned, grants, Pending)
        /\ \A x \in Task : Reachable(x, state, transit, unassigned, grants, Pending)
    BY DEF QueueInv, Sound
  <1>4. Pending = {} /\ Reports'
    BY <1>2, <1>3 DEF Pending, Reports
  <1>5. /\ ~ InQueue(t, unassigned) /\ transit[t].target = "none"
        /\ \A g \in grants : g.task \in Task \ {t}
    BY <1>1, <1>2, <1>3 DEF Sound, Grant, Terminal, ResultType
  <1>6. state'[t] = "inactive" /\ \A x \in Task \ {t} : state'[x] = state[x]
    BY <1>1, <1>2
  <1>7. CASE unassigned' = Append(unassigned, t) /\ calls' = calls
    <2>1. /\ \A x \in Task : InQueue(x, unassigned') <=> InQueue(x, unassigned) \/ x = t
          /\ Distinct(unassigned')
      BY <1>1, <1>3, <1>5, <1>7, AppendQueue
    <2>2. Pending' = {}
      BY <1>2, <1>7 DEF Pending
    <2>3. Sound(state', transit', unassigned', grants', {})
      BY <1>2, <1>3, <1>4, <1>5, <1>6, <2>1 DEF Sound
    <2>4. \A x \in Task : Reachable(x, state', transit', unassigned', grants', {})
      BY <1>2, <1>3, <1>4, <1>6, <2>1 DEF Reachable
    <2>5. CapacityCalls'
      BY <1>3, <1>7 DEF CapacityCalls
    <2> QED  BY <1>4, <2>2, <2>3, <2>4, <2>5 DEF QueueInv
  <1>8. ASSUME NEW w, unassigned' = unassigned,
               calls' = [calls EXCEPT !["binder"] = {NewEvent("HasCapacity", t, w, "none")}]
        PROVE  QueueInv'
    <2> DEFINE e == NewEvent("HasCapacity", t, w, "none")
    <2>1. e.kind = "HasCapacity" /\ e.task = t
      BY DEF NewEvent
    <2>2. calls' = [calls EXCEPT !["binder"] = {e}]
      BY <1>8
    <2> HIDE DEF e
    <2>3. /\ calls'["binder"] = {e}
          /\ \A c \in Coroutine \ {"binder"} : calls'[c] = calls[c]
      BY <1>1, <2>2
    <2>4. Pending' = {t}
      BY <2>1, <2>3 DEF Pending
    <2>5. Sound(state', transit', unassigned', grants', {t})
      BY <1>2, <1>3, <1>4, <1>5, <1>6, <1>8 DEF Sound
    <2>6. \A x \in Task : Reachable(x, state', transit', unassigned', grants', {t})
      BY <1>2, <1>3, <1>4, <1>6, <1>8 DEF Reachable
    <2>7. CapacityCalls'
      BY <1>3, <2>3 DEF CapacityCalls
    <2> QED  BY <1>4, <2>4, <2>5, <2>6, <2>7 DEF QueueInv
  <1> QED  BY <1>7, <1>8 DEF OnTaskNew

(* The first heartbeat of a worker grants it to tasks on hold.             *)
LEMMA HeartbeatQueue ==
    ASSUME TypeOK, QueueInv, NEW w \in Worker, OnHeartbeat(w)
    PROVE  QueueInv'
  <1>1. /\ RetryUnassignable("binder", grants, AddWorker(books, w), unassigned)
        /\ UNCHANGED <<state, transit, calls, outbox>>
    BY DEF OnHeartbeat, worker
  <1>2. /\ CapacityCalls /\ Reports /\ Distinct(unassigned) /\ unassigned \in Seq(Task)
        /\ Sound(state, transit, unassigned, grants, Pending)
        /\ \A x \in Task : Reachable(x, state, transit, unassigned, grants, Pending)
        /\ \A g \in grants : g.task \in Task
    BY DEF QueueInv, Sound, TypeOK, Grant
  <1>3. /\ Distinct(unassigned')
        /\ grants \subseteq grants'
        /\ \A x \in Task : InQueue(x, unassigned') =>
              InQueue(x, unassigned) /\ \A g \in grants' \ grants : g.task # x
        /\ \A x \in Task : InQueue(x, unassigned) =>
              InQueue(x, unassigned') \/ \E g \in grants' : g.task = x
        /\ \A g \in grants' \ grants : g.task \in Task /\ InQueue(g.task, unassigned)
        /\ \A g, h \in grants' \ grants : g.task = h.task => g = h
    BY <1>1, <1>2, RetryQueue
  <1>4. Pending' = Pending /\ CapacityCalls' /\ Reports'
    BY <1>1, <1>2 DEF Pending, CapacityCalls, Reports
  <1>5. Sound(state, transit, unassigned', grants', Pending)
    BY <1>2, <1>3 DEF Sound
  <1>6. \A x \in Task : Reachable(x, state, transit, unassigned', grants', Pending)
    BY <1>2, <1>3 DEF Reachable
  <1> QED  BY <1>1, <1>4, <1>5, <1>6 DEF QueueInv

(* Every message, timer and worker step keeps the invariant.               *)
LEMMA EnvironmentQueue == TypeOK /\ QueueInv /\ Environment => QueueInv'
  <1> SUFFICES ASSUME TypeOK, QueueInv, Environment PROVE QueueInv'
    OBVIOUS
  <1>1. /\ calls \in [Coroutine -> SUBSET Event] /\ outbox \in [Worker -> Seq(Event)]
        /\ "binder" \in Coroutine /\ "workerTimer" \in Coroutine
        /\ "balanceTimer" \in Coroutine /\ Reports
    BY DEF TypeOK, Coroutine, QueueInv
  <1>2. \A c \in Coroutine : Idle(c) => calls[c] = {}
    BY DEF Idle
  <1>3. ASSUME NEW t \in Task, ReceiveTaskCancel(t) PROVE QueueInv'
    <2> DEFINE e == NewEvent("TaskCancelRequested", t, NoWorker, "force")
    <2>1. e \in Event /\ e.kind # "HasCapacity"
      BY DEF NewEvent, Event, EventKind, WorkerReported
    <2>2. /\ calls["binder"] = {} /\ UNCHANGED <<state, transit, unassigned, grants, outbox>>
          /\ calls' = calls \/ calls' = [calls EXCEPT !["binder"] = {e}]
      BY <1>1, <1>2, <1>3 DEF ReceiveTaskCancel, worker
    <2>3. Reports'
      BY <1>1, <2>2 DEF Reports
    <2> HIDE DEF e
    <2> QED  BY <1>1, <2>1, <2>2, <2>3, HandOver, Aside
  <1>4. ASSUME NEW w \in Worker, ReceiveReport(w) PROVE QueueInv'
    <2> DEFINE e == Head(outbox[w])
    <2>1. /\ calls["binder"] = {} /\ UNCHANGED <<state, transit, unassigned, grants>>
          /\ calls' = [calls EXCEPT !["binder"] = {e}]
          /\ outbox' = [outbox EXCEPT ![w] = Tail(@)]
          /\ outbox[w] # <<>> /\ outbox[w] \in Seq(Event)
      BY <1>1, <1>2, <1>4 DEF ReceiveReport, task
    <2>2. e \in Event /\ e.kind # "HasCapacity"
      <3>1. e = outbox[w][1] /\ 1 \in DOMAIN outbox[w] /\ e \in Event
        BY <2>1
      <3> QED  BY <1>1, <3>1 DEF Reports, WorkerReported
    <2>3. \A i \in DOMAIN Tail(outbox[w]) :
             Tail(outbox[w])[i] = outbox[w][i + 1] /\ i + 1 \in DOMAIN outbox[w]
      BY <2>1
    <2>4. outbox'[w] = Tail(outbox[w]) /\ \A v \in Worker \ {w} : outbox'[v] = outbox[v]
      BY <1>1, <2>1
    <2>5. \A i \in DOMAIN outbox'[w] : outbox'[w][i].kind \in WorkerReported
      BY <1>1, <2>3, <2>4 DEF Reports
    <2>6. Reports'
      BY <1>1, <2>4, <2>5 DEF Reports
    <2>7. /\ calls["binder"] = {} /\ UNCHANGED <<state, transit, unassigned, grants>>
          /\ calls' = [calls EXCEPT !["binder"] = {e}]
      BY <2>1
    <2> HIDE DEF e
    <2>8. {e} \in SUBSET Event /\ \A d \in {e} : d.kind # "HasCapacity"
      BY <2>2
    <2> QED  BY <1>1, <2>6, <2>7, <2>8, HandOver
  <1>5. ASSUME NEW w \in Worker, OnDisconnectNotification(w) PROVE QueueInv'
    <2>1. /\ calls["binder"] = {} /\ UNCHANGED <<state, transit, unassigned, grants, outbox>>
          /\ DisconnectWorker("binder", w) \/ calls' = calls
      BY <1>1, <1>2, <1>5 DEF OnDisconnectNotification, task
    <2>2. Reports'
      BY <1>1, <2>1 DEF Reports
    <2> QED  BY <1>1, <2>1, <2>2, DisconnectQueue, Aside
  <1>6. ASSUME NEW w \in Worker, Crash(w) PROVE QueueInv'
    <2>1. PICK n \in 0..Len(outbox[w]) : outbox' = [outbox EXCEPT ![w] = SubSeq(@, 1, n)]
      BY <1>6 DEF Crash
    <2>2. outbox[w] \in Seq(Event)
      BY <1>1
    <2>3. \A i \in DOMAIN SubSeq(outbox[w], 1, n) :
             SubSeq(outbox[w], 1, n)[i] = outbox[w][i] /\ i \in DOMAIN outbox[w]
      BY <2>2
    <2>4. /\ outbox'[w] = SubSeq(outbox[w], 1, n)
          /\ \A v \in Worker \ {w} : outbox'[v] = outbox[v]
      BY <1>1, <2>1
    <2>5. \A i \in DOMAIN outbox'[w] : outbox'[w][i].kind \in WorkerReported
      BY <1>1, <2>3, <2>4 DEF Reports
    <2>6. Reports'
      BY <1>1, <2>4, <2>5 DEF Reports
    <2> QED  BY <1>6, <2>6, Aside DEF Crash, task, loop
  <1>7. ASSUME NEW w \in Worker, Leave(w) PROVE QueueInv'
    <2>1. Reports'
      BY <1>1, <1>7 DEF Leave, Reports
    <2> QED  BY <1>7, <2>1, Aside DEF Leave, task, loop
  <1>8. ASSUME NEW late \in SUBSET alive, CleanWorkers(late) PROVE QueueInv'
    <2>1. /\ calls["workerTimer"] = {} /\ UNCHANGED <<state, transit, unassigned, grants, outbox>>
          /\ \E w \in late : DisconnectWorker("workerTimer", w) \/ calls' = calls
      BY <1>1, <1>2, <1>8 DEF CleanWorkers, CleanWorker, task, worker
    <2>2. PICK w \in late : DisconnectWorker("workerTimer", w) \/ calls' = calls
      BY <2>1
    <2>3. w \in Worker /\ Reports'
      BY <1>1, <2>1 DEF TypeOK, Reports
    <2> QED  BY <1>1, <2>1, <2>2, <2>3, DisconnectQueue, Aside
  <1>9. ASSUME NEW c \in Coroutine, CancelClientAllTasks(c) PROVE QueueInv'
    <2> DEFINE E == {NewEvent("TaskCancelRequested", t, NoWorker, "gentle") : t \in owned}
    <2>1. E \in SUBSET Event /\ \A e \in E : e.kind # "HasCapacity"
      BY DEF NewEvent, Event, EventKind, WorkerReported, TypeOK
    <2>2. /\ calls[c] = {} /\ UNCHANGED <<state, transit, unassigned, grants, outbox>>
          /\ calls' = [calls EXCEPT ![c] = E]
      BY <1>2, <1>9 DEF CancelClientAllTasks, task, worker
    <2>3. Reports'
      BY <1>1, <2>2 DEF Reports
    <2> HIDE DEF E
    <2> QED  BY <2>1, <2>2, <2>3, HandOver
  <1>10. ASSUME NEW advice \in BalanceAdvice(books), Balance(advice) PROVE QueueInv'
    <2> DEFINE E == {NewEvent("BalanceCancelRequested", t, NoWorker, "none") : t \in advice}
    <2>1. advice \subseteq Task
      BY DEF BalanceAdvice, TypeOK, Books
    <2>2. E \in SUBSET Event /\ \A e \in E : e.kind # "HasCapacity"
      BY <2>1 DEF NewEvent, Event, EventKind, WorkerReported
    <2>3. /\ calls["balanceTimer"] = {} /\ UNCHANGED <<state, transit, unassigned, grants, outbox>>
          /\ calls' = [calls EXCEPT !["balanceTimer"] = E]
      BY <1>1, <1>2, <1>10 DEF Balance, task, worker
    <2>4. Reports'
      BY <1>1, <2>3 DEF Reports
    <2> HIDE DEF E
    <2> QED  BY <1>1, <2>2, <2>3, <2>4, HandOver
  <1>11. ASSUME NEW w \in Worker, NEW t \in Task, Start(w, t) PROVE QueueInv'
    <2>1. Reports'
      BY <1>1, <1>11 DEF Start, Reports
    <2> QED  BY <1>11, <2>1, Aside DEF Start, task, loop
  <1>12. ASSUME NEW w \in Worker, NEW t \in Task, NEW r \in Results, Finish(w, t, r)
         PROVE  QueueInv'
    <2> DEFINE e == NewEvent("TaskResultReceived", t, w, r)
    <2>1. e \in Event /\ e.kind \in WorkerReported
      BY ResultsAssumption DEF NewEvent, Event, WorkerReported
    <2>2. outbox' = [outbox EXCEPT ![w] = Append(@, e)]
      BY <1>12 DEF Finish
    <2> HIDE DEF e
    <2>3. Reports'
      BY <1>1, <2>1, <2>2, AppendReports
    <2> QED  BY <1>12, <2>3, Aside DEF Finish, task, loop
  <1> QED  BY <1>3, <1>4, <1>5, <1>6, <1>7, <1>8, <1>9, <1>10, <1>11, <1>12,
              NewTaskQueue, HeartbeatQueue DEF Environment

-----------------------------------------------------------------------------
(* The inductive invariant implies the three properties.                   *)
LEMMA QueueInvImplies == TypeOK /\ QueueInv => QueueSound
  <1> SUFFICES ASSUME TypeOK, QueueInv PROVE QueueSound
    OBVIOUS
  <1>1. /\ CapacityCalls /\ Sound(state, transit, unassigned, grants, Pending)
        /\ \A x \in Task : Reachable(x, state, transit, unassigned, grants, Pending)
        /\ "binder" \in Coroutine
    BY DEF QueueInv, Coroutine
  <1>2. \A t \in Task : HasGrant(t) <=> t \in Pending \/ \E g \in grants : g.task = t
    BY DEF HasGrant, Pending
  <1>3. NeverStranded
    BY <1>1, <1>2 DEF NeverStranded, Reachable, Settling
  <1>4. \A i \in DOMAIN unassigned : unassigned[i] \in Task /\ InQueue(unassigned[i], unassigned)
    BY DEF TypeOK, InQueue
  <1>5. OnHoldSound
    BY <1>1, <1>2, <1>4 DEF OnHoldSound, Sound, Distinct
  <1>6. \A e \in calls["binder"] : e.task \in Task
    BY <1>1 DEF TypeOK, Event
  <1>7. \A e \in calls["binder"] : e.kind = "HasCapacity" => e.task \in Pending
    BY <1>6 DEF Pending
  <1>8. GrantedOnce
    BY <1>1, <1>7 DEF GrantedOnce, Sound, CapacityCalls
  <1> QED  BY <1>3, <1>5, <1>8 DEF QueueSound

(* The strengthening is an invariant.                                      *)
LEMMA QueueInvCorrect == Spec => []QueueInv
  <1>1. Init => QueueInv
    BY DEF Init, QueueInv, CapacityCalls, Reports, Sound, Distinct, Reachable, Pending,
           InQueue, NoTransit, Coroutine
  <1>2. TypeOK /\ QueueInv /\ [Next]_vars => QueueInv'
    <2> SUFFICES ASSUME TypeOK, QueueInv, [Next]_vars PROVE QueueInv'
      OBVIOUS
    <2>1. ASSUME UNCHANGED vars PROVE QueueInv'
      <3>1. UNCHANGED <<state, transit, unassigned, grants, calls, outbox>>
        BY <2>1 DEF vars, task, loop, worker
      <3>2. Reports'
        BY <3>1 DEF QueueInv, Reports
      <3> QED  BY <3>1, <3>2, Aside
    <2> QED  BY <2>1, LoopQueue, EnvironmentQueue DEF Next, Quiet
  <1> QED  BY <1>1, <1>2, TypeCorrect, PTL DEF Spec

(* The queue on hold is correct, whatever the messages, timers, crashes    *)
(* and faults: a task without a worker is in the queue or about to be sent *)
(* to one, the queue holds only live tasks and each once, and no worker's  *)
(* capacity is granted to a task twice.                                    *)
THEOREM QueueCorrect == Spec => []QueueSound
  BY TypeCorrect, QueueInvCorrect, QueueInvImplies, PTL

-----------------------------------------------------------------------------
(***************************************************************************)
(* What the client hears of a task, and who awaits whose lock, for any     *)
(* instance of TaskController.                                             *)
(*                                                                         *)
(* OutcomeOnce is inductive once it says what a machine still has to do:   *)
(* a live task is owned until the step that tells its client or hands it   *)
(* to the fault path, so the two ways to end it (the settling transition   *)
(* and the report of a fault) exclude each other.                          *)
(*                                                                         *)
(* LockAcyclic is inductive because a transition only ever starts to await *)
(* tasks of the queue, and a task of the queue awaits nobody: what is new  *)
(* in the wait-for graph leads to sinks.                                   *)
(***************************************************************************)

(* What a task in state s whose transition commits to target has told its  *)
(* client.                                                                 *)
OutcomeOf(s, target, replies, isOwned) ==
    /\ s = "new" => target = "none" /\ replies = <<>> /\ ~ isOwned
    /\ s \in LiveState =>
          \/ target = "none" /\ replies = <<>> /\ isOwned
          \/ target = "reporting" /\ replies = <<>> /\ ~ isOwned /\ Limit["fault"] # 0
          \/ target \in Terminal /\ replies = <<target>> /\ ~ isOwned
    /\ s \in Terminal =>
          /\ target = "none" \/ (target = "failed" /\ s = "failed")
          /\ ~ isOwned
          /\ replies # <<>> /\ replies[1] \in Terminal
          /\ Limit["fault"] = 0 => replies[1] = s
          /\ \A i \in 2..Len(replies) : replies[i] = "absent"

Outcome(t) == OutcomeOf(state[t], transit[t].target, told[t], t \in owned)

(* A cancel under way is one of a task that was submitted.                 *)
CancelsKnown ==
    \A c \in Coroutine : \A e \in calls[c] :
        e.kind = "TaskCancelRequested" => state[e.task] # "new"

OutcomeInv ==
    /\ \A t \in Task : Outcome(t)
    /\ CancelsKnown
    /\ Reports
    /\ budget["fault"] <= Limit["fault"]

-----------------------------------------------------------------------------
(* Outcomes.  A step about the task t does not touch another task.         *)

Untouched(x) ==
    /\ state'[x] = state[x] /\ transit'[x] = transit[x] /\ told'[x] = told[x]
    /\ x \in owned' <=> x \in owned
    /\ \A w \in Worker : wtask[w][x] = "absent" => wtask'[w][x] = "absent"

(* What a step about t may do with t.                                      *)
Advanced(t) ==
    /\ Outcome(t)'
    /\ state'[t] = "new" => state[t] = "new"
    /\ state[t] \in Terminal => state'[t] = state[t]
    /\ told[t] # <<>> =>
          \A w \in Worker : wtask[w][t] = "absent" => wtask'[w][t] = "absent"

StepAbout(t) == Advanced(t) /\ \A x \in Task \ {t} : Untouched(x)

(* Sending a task or a cancel of t gives no worker another task.           *)
LEMMA SendsOnlyIt ==
    ASSUME RoutedTypes, NEW t \in Task, NEW w,
           \/ SendTaskToWorker(w, t)
           \/ \E force : SendTaskCancelToWorker(w, t, force)
    PROVE  \A x \in Task \ {t} : \A v \in Worker : wtask'[v][x] = wtask[v][x]
  <1>1. \/ wtask' = wtask
        \/ wtask' = [wtask EXCEPT ![w][t] = "queued"]
        \/ wtask' = [wtask EXCEPT ![w][t] = "absent"]
    BY DEF SendTaskToWorker, SendTaskCancelToWorker
  <1> QED  BY <1>1 DEF RoutedTypes

(* A live task whose lock is free has told nothing and is owned.           *)
LEMMA FreeTask ==
    ASSUME NEW t \in Task, state[t] \in LiveState, transit[t].target = "none", Outcome(t)
    PROVE  told[t] = <<>> /\ t \in owned /\ state[t] # "new" /\ state[t] \notin Terminal
  BY DEF Outcome, OutcomeOf, LiveState, Terminal, ResultType

(* A terminal arm tells the outcome it will commit.                        *)
LEMMA SettleOutcome ==
    ASSUME RoutedTypes, NEW t \in Task, NEW owners \in {owned, owned \cup {t}}, NEW by,
           NEW rest, NEW outcome \in Terminal, NEW b, NEW u,
           state[t] \in LiveState, transit[t].target = "none", Outcome(t),
           SettleFor(owners, by, rest, t, outcome, b, u)
    PROVE  StepAbout(t)
  <1>1. told[t] = <<>> /\ t \in owned /\ state[t] # "new" /\ state[t] \notin Terminal
    BY FreeTask
  <1>2. t \notin owned' /\ \A x \in Task \ {t} : x \in owned' <=> x \in owned
    BY DEF SettleFor
  <1>3. told'[t] = <<outcome>> /\ \A x \in Task \ {t} : told'[x] = told[x]
    BY <1>1 DEF SettleFor, Tell, RoutedTypes
  <1>4. /\ \A x \in Task \ {t} : state'[x] = state[x] /\ transit'[x] = transit[x]
        /\ \/ state'[t] = state[t] /\ transit'[t].target = outcome
           \/ state'[t] = outcome /\ transit'[t].target = "none"
    BY DEF SettleFor, RoutedTypes
  <1>5. wtask' = wtask
    BY DEF SettleFor
  <1>6. outcome # "new" /\ outcome \notin LiveState
    BY DEF Terminal, ResultType, LiveState
  <1>7. \A i \in 2..Len(told'[t]) : told'[t][i] = "absent"
    BY <1>3
  <1>8. told'[t] # <<>> /\ told'[t][1] = outcome
    BY <1>3
  <1>9. Outcome(t)'
    BY <1>1, <1>2, <1>3, <1>4, <1>6, <1>7, <1>8 DEF Outcome, OutcomeOf
  <1> QED  BY <1>1, <1>2, <1>3, <1>4, <1>5, <1>6, <1>9 DEF StepAbout, Advanced, Untouched

(* A move between live states tells nothing.                               *)
LEMMA MoveOutcome ==
    ASSUME RoutedTypes, NEW t \in Task, NEW s \in LiveState,
           state[t] \in LiveState, transit[t].target = "none", Outcome(t),
           state' = [state EXCEPT ![t] = s], UNCHANGED <<told, transit>>,
           owned' \in {owned, owned \cup {t}},
           \A x \in Task \ {t} : \A v \in Worker : wtask'[v][x] = wtask[v][x]
    PROVE  StepAbout(t)
  <1>1. told[t] = <<>> /\ t \in owned /\ state[t] # "new" /\ state[t] \notin Terminal
    BY FreeTask
  <1>2. s # "new" /\ s \notin Terminal
    BY DEF LiveState, Terminal, ResultType
  <1>3. state'[t] = s /\ \A x \in Task \ {t} : state'[x] = state[x]
    BY DEF RoutedTypes
  <1>4. Outcome(t)'
    BY <1>1, <1>2, <1>3 DEF Outcome, OutcomeOf
  <1> QED  BY <1>1, <1>2, <1>3, <1>4 DEF StepAbout, Advanced, Untouched

(* Placing a task again tells nothing.                                     *)
LEMMA DispatchOutcome ==
    ASSUME RoutedTypes, NEW t \in Task, NEW rest, NEW b,
           state[t] \in LiveState, transit[t].target = "none", Outcome(t),
           AcquireAndDispatch(rest, t, b)
    PROVE  StepAbout(t)
  <1>1. PICK w : \/ /\ state' = [state EXCEPT ![t] = "inactive"]
                    /\ wtask' = wtask
                 \/ /\ state' = [state EXCEPT ![t] = "running"]
                    /\ SendTaskToWorker(w, t)
    BY DEF AcquireAndDispatch
  <1>2. UNCHANGED <<owned, told, transit>>
    BY DEF AcquireAndDispatch
  <1>3. \A x \in Task \ {t} : \A v \in Worker : wtask'[v][x] = wtask[v][x]
    BY <1>1, SendsOnlyIt
  <1>4. "inactive" \in LiveState /\ "running" \in LiveState
    BY DEF LiveState
  <1> QED  BY <1>1, <1>2, <1>3, <1>4, MoveOutcome

(* Refusing an event tells nothing.                                        *)
LEMMA RefuseOutcome ==
    ASSUME NEW t \in Task, NEW rest, Outcome(t), Refuse(rest)
    PROVE  StepAbout(t)
  BY DEF Refuse, StepAbout, Advanced, Untouched, Outcome

(* Every arm of the router tells its client at most the outcome.           *)
LEMMA ArmOutcome ==
    ASSUME RoutedTypes, NEW by, NEW rest, NEW e \in Event, state[e.task] \in LiveState,
           transit[e.task].target = "none", Outcome(e.task), Arm(by, rest, e)
    PROVE  StepAbout(e.task)
  <1> DEFINE t == e.task
  <1>1. /\ t \in Task /\ e.kind \in EventKind
        /\ e.kind = "TaskResultReceived" => e.arg \in Terminal
    BY DEF Event, EventKind, WorkerReported, Terminal
  <1>2. /\ "canceled" \in Terminal /\ "canceledNotFound" \in Terminal
        /\ {"running", "canceling", "balanceCanceling"} \subseteq LiveState
    BY DEF Terminal, LiveState
  <1>3. ASSUME Refuse(rest) PROVE StepAbout(t)
    BY <1>1, <1>3, RefuseOutcome
  <1>4. ASSUME NEW s \in {"running", "canceling", "balanceCanceling"}, Become(rest, t, s),
               owned' \in {owned, owned \cup {t}},
               \/ \E w : \/ SendTaskToWorker(w, t)
                         \/ \E force : SendTaskCancelToWorker(w, t, force)
               \/ wtask' = wtask
        PROVE  StepAbout(t)
    <2>1. \A x \in Task \ {t} : \A v \in Worker : wtask'[v][x] = wtask[v][x]
      BY <1>1, <1>4, SendsOnlyIt
    <2>2. state' = [state EXCEPT ![t] = s] /\ UNCHANGED <<told, transit>>
      BY <1>4 DEF Become
    <2> QED  BY <1>1, <1>2, <1>4, <2>1, <2>2, MoveOutcome
  <1>5. ASSUME NEW owners \in {owned, owned \cup {t}}, NEW outcome \in Terminal, NEW b, NEW u,
               SettleFor(owners, by, rest, t, outcome, b, u)
        PROVE  StepAbout(t)
    BY <1>1, <1>5, SettleOutcome
  <1>6. ASSUME NEW b, AcquireAndDispatch(rest, t, b) PROVE StepAbout(t)
    BY <1>1, <1>6, DispatchOutcome
  <1>7. CASE e.kind = "HasCapacity"
    <2>1. OnHasCapacity(rest, e)
      BY <1>7 DEF Arm
    <2> QED  BY <1>3, <1>4, <2>1 DEF OnHasCapacity
  <1>8. CASE e.kind = "TaskCancelRequested"
    <2>1. OnTaskCancel(by, rest, e)
      BY <1>8 DEF Arm
    <2>2. CASE state[t] = "inactive"
      BY <1>2, <1>5, <2>1, <2>2 DEF OnTaskCancel, Settle
    <2>3. CASE state[t] = "running" /\ books.holder[t] # NoWorker
      BY <1>4, <2>1, <2>3 DEF OnTaskCancel
    <2>4. CASE state[t] = "running" /\ books.holder[t] = NoWorker
      BY <1>2, <1>5, <2>1, <2>4 DEF OnTaskCancel
    <2>5. CASE state[t] = "balanceCanceling"
      BY <1>4, <2>1, <2>5 DEF OnTaskCancel
    <2>6. CASE state[t] \notin {"inactive", "running", "balanceCanceling"}
      BY <1>3, <2>1, <2>6 DEF OnTaskCancel
    <2> QED  BY <2>2, <2>3, <2>4, <2>5, <2>6
  <1>9. CASE e.kind = "BalanceCancelRequested"
    <2>1. OnBalanceTaskCancel(rest, e)
      BY <1>9 DEF Arm
    <2> QED  BY <1>3, <1>4, <2>1 DEF OnBalanceTaskCancel
  <1>10. CASE e.kind = "TaskResultReceived"
    <2>1. OnTaskResult(by, rest, e)
      BY <1>10 DEF Arm
    <2> QED  BY <1>1, <1>3, <1>5, <1>10, <2>1 DEF OnTaskResult, Settle
  <1>11. ASSUME NEW outcome \in {"canceled", "canceledNotFound"},
                OnCancelConfirm(by, rest, e, outcome)
         PROVE  StepAbout(t)
    <2>1. CASE state[t] = "canceling"
      BY <1>2, <1>5, <1>11, <2>1 DEF OnCancelConfirm, Settle
    <2>2. CASE state[t] = "balanceCanceling"
      BY <1>6, <1>11, <2>2 DEF OnCancelConfirm
    <2>3. CASE state[t] \notin {"canceling", "balanceCanceling"}
      BY <1>3, <1>11, <2>3 DEF OnCancelConfirm
    <2> QED  BY <2>1, <2>2, <2>3
  <1>12. CASE e.kind \in {"CancelConfirmCanceled", "CancelConfirmNotFound"}
    BY <1>11, <1>12 DEF Arm
  <1>13. CASE e.kind = "CancelConfirmFailed"
    <2>1. OnCancelConfirmFailed(rest, e)
      BY <1>13 DEF Arm
    <2> QED  BY <1>3, <1>4, <2>1 DEF OnCancelConfirmFailed
  <1>14. CASE e.kind = "WorkerDisconnected"
    <2>1. OnWorkerDisconnect(by, rest, e)
      BY <1>14 DEF Arm
    <2>2. CASE state[t] \in {"running", "balanceCanceling"}
      BY <1>6, <2>1, <2>2 DEF OnWorkerDisconnect
    <2>3. CASE state[t] = "canceling"
      BY <1>2, <1>5, <2>1, <2>3 DEF OnWorkerDisconnect, Settle
    <2>4. CASE state[t] \notin {"running", "balanceCanceling", "canceling"}
      BY <1>3, <2>1, <2>4 DEF OnWorkerDisconnect
    <2> QED  BY <2>2, <2>3, <2>4
  <1> QED  BY <1>1, <1>7, <1>8, <1>9, <1>10, <1>12, <1>13, <1>14 DEF EventKind, WorkerReported

(* The end of a faulted task, of which reply was just told.                *)
LEMMA TeardownOutcome ==
    ASSUME RoutedTypes, NEW t \in Task, NEW by, NEW rest, NEW b, NEW reply \in Terminal,
           Limit["fault"] # 0, told[t] = <<>>, state[t] \in LiveState, Tell(t, reply),
           Teardown(by, rest, t, b), t \notin owned',
           \A x \in Task \ {t} : x \in owned' <=> x \in owned, wtask' = wtask
    PROVE  StepAbout(t)
  <1>1. told'[t] = <<reply>> /\ \A x \in Task \ {t} : told'[x] = told[x]
    BY DEF Tell, RoutedTypes
  <1>2. /\ \A x \in Task \ {t} : state'[x] = state[x] /\ transit'[x] = transit[x]
        /\ state'[t] = "failed" /\ transit'[t].target \in {"failed", "none"}
    BY DEF Teardown, RoutedTypes, NoTransit
  <1>3. "failed" \in Terminal /\ "failed" \notin LiveState /\ state[t] \notin Terminal
    BY DEF Terminal, ResultType, LiveState
  <1>4. told'[t] # <<>> /\ told'[t][1] = reply /\ \A i \in 2..Len(told'[t]) : told'[t][i] = "absent"
    BY <1>1
  <1>5. Outcome(t)'
    BY <1>1, <1>2, <1>3, <1>4 DEF Outcome, OutcomeOf
  <1> QED  BY <1>1, <1>2, <1>3, <1>5 DEF StepAbout, Advanced, Untouched

(* A fault is told by its report, or was told with the result.             *)
LEMMA FaultOutcome ==
    ASSUME RoutedTypes, budget \in [Bounded -> Nat], budget["fault"] <= Limit["fault"],
           NEW by, NEW rest, NEW e \in Event, state[e.task] \in LiveState,
           transit[e.task].target = "none", Outcome(e.task), Fault(by, rest, e)
    PROVE  StepAbout(e.task) /\ budget'["fault"] <= Limit["fault"]
  <1> DEFINE t == e.task
  <1>1. t \in Task /\ (e.kind = "TaskResultReceived" => e.arg \in Terminal)
    BY DEF Event, Terminal
  <1>2. told[t] = <<>> /\ t \in owned /\ state[t] # "new" /\ state[t] \notin Terminal
    BY <1>1, FreeTask
  <1>3. /\ t \notin owned' /\ \A x \in Task \ {t} : x \in owned' <=> x \in owned
        /\ wtask' = wtask
    BY DEF Fault
  <1>4. Limit["fault"] \in Nat /\ "fault" \in Bounded
    BY LimitAssumption DEF Bounded
  <1>5. Limit["fault"] # 0 /\ budget'["fault"] <= Limit["fault"]
    BY <1>4 DEF Fault, Spend
  <1>6. CASE /\ transit' = [transit EXCEPT ![t] = [target |-> "reporting", by |-> by]]
             /\ UNCHANGED <<state, told>>
    <2>1. transit'[t].target = "reporting" /\ \A x \in Task \ {t} : transit'[x] = transit[x]
      BY <1>1, <1>6 DEF RoutedTypes
    <2>2. Outcome(t)'
      BY <1>2, <1>3, <1>5, <1>6, <2>1 DEF Outcome, OutcomeOf
    <2> QED  BY <1>2, <1>3, <1>5, <1>6, <2>1, <2>2 DEF StepAbout, Advanced, Untouched
  <1>7. CASE /\ e.kind = "TaskResultReceived"
             /\ IF t \in owned THEN Tell(t, e.arg) ELSE UNCHANGED told
             /\ Teardown(by, rest, t, books)
    BY <1>1, <1>2, <1>3, <1>5, <1>7, TeardownOutcome
  <1> QED  BY <1>6, <1>7 DEF Fault

(* The router is a step about the task of its event.                       *)
LEMMA RouteOutcome ==
    ASSUME RoutedTypes, budget \in [Bounded -> Nat], budget["fault"] <= Limit["fault"],
           NEW by, NEW rest, NEW e \in Event, transit[e.task] = NoTransit,
           Outcome(e.task), Route(by, rest, e)
    PROVE  StepAbout(e.task) /\ budget'["fault"] <= Limit["fault"]
  <1>1. e.task \in Task /\ transit[e.task].target = "none"
    BY DEF Event, NoTransit
  <1>2. CASE Refuse(rest) /\ UNCHANGED budget
    BY <1>1, <1>2, RefuseOutcome
  <1>3. CASE state[e.task] \in LiveState /\ Arm(by, rest, e) /\ UNCHANGED budget
    BY <1>1, <1>3, ArmOutcome
  <1>4. CASE state[e.task] \in LiveState /\ Fault(by, rest, e)
    BY <1>1, <1>4, FaultOutcome
  <1> QED  BY <1>2, <1>3, <1>4 DEF Route

(* What a step may never do with a task, for the action property.          *)
Preserved(t) ==
    /\ state[t] \in Terminal => state'[t] = state[t]
    /\ told[t] # <<>> =>
          \A w \in Worker : wtask[w][t] = "absent" => wtask'[w][t] = "absent"

(* A step about t that hands over no cancel keeps the invariant.           *)
LEMMA AboutInv ==
    ASSUME OutcomeInv, NEW t \in Task, StepAbout(t), Reports',
           \A c \in Coroutine : calls'[c] \subseteq calls[c],
           \A c \in Coroutine : \A e \in calls[c] : e.task \in Task,
           budget'["fault"] <= Limit["fault"]
    PROVE  OutcomeInv' /\ \A x \in Task : Preserved(x)
  <1>1. \A x \in Task : Outcome(x)'
    BY DEF OutcomeInv, StepAbout, Advanced, Untouched, Outcome
  <1>2. \A x \in Task : state'[x] = "new" => state[x] = "new"
    BY DEF StepAbout, Advanced, Untouched
  <1>3. CancelsKnown'
    BY <1>2 DEF OutcomeInv, CancelsKnown
  <1>4. \A x \in Task : Preserved(x)
    BY DEF StepAbout, Advanced, Untouched, Preserved
  <1> QED  BY <1>1, <1>3, <1>4 DEF OutcomeInv

(* Answering a cancel that came too late adds an "absent" to a task that   *)
(* has ended.                                                              *)
LEMMA AbsentOutcome ==
    ASSUME TypeOK, NEW t \in Task, Outcome(t), state[t] \notin LiveState, state[t] # "new",
           Tell(t, "absent"), UNCHANGED <<state, owned, transit, wtask>>
    PROVE  StepAbout(t)
  <1>1. state[t] \in Terminal
    BY DEF TypeOK, TaskState
  <1>2. told[t] \in Seq(Terminal \cup {"absent"})
    BY DEF TypeOK
  <1>3. told'[t] = Append(told[t], "absent") /\ \A x \in Task \ {t} : told'[x] = told[x]
    BY DEF Tell, TypeOK
  <1>4. /\ told[t] # <<>> /\ told[t][1] \in Terminal
        /\ Limit["fault"] = 0 => told[t][1] = state[t]
        /\ \A i \in 2..Len(told[t]) : told[t][i] = "absent"
    BY <1>1 DEF Outcome, OutcomeOf
  <1>5. told'[t] # <<>> /\ told'[t][1] = told[t][1]
    BY <1>2, <1>3, <1>4
  <1>6. \A i \in 2..Len(told'[t]) : told'[t][i] = "absent"
    BY <1>2, <1>3, <1>4
  <1>7. Outcome(t)'
    BY <1>1, <1>4, <1>5, <1>6 DEF Outcome, OutcomeOf
  <1> QED  BY <1>3, <1>7 DEF StepAbout, Advanced, Untouched

(* A step that tells nobody anything, moves no task and hands over no      *)
(* cancel keeps the invariant.                                             *)
LEMMA AsideOutcome ==
    ASSUME OutcomeInv, Reports', UNCHANGED <<state, owned, told, transit>>,
           \/ UNCHANGED calls
           \/ \A c \in Coroutine : \A e \in calls'[c] :
                 e \in calls[c] \/ e.kind # "TaskCancelRequested",
           \/ UNCHANGED wtask
           \/ \A w \in Worker : \A x \in Task :
                 wtask[w][x] = "absent" => wtask'[w][x] = "absent",
           UNCHANGED budget \/ budget'["fault"] <= Limit["fault"]
    PROVE  OutcomeInv' /\ \A x \in Task : Preserved(x)
  BY DEF OutcomeInv, Outcome, CancelsKnown, Preserved

(* Disconnecting a worker hands over no cancel.                            *)
LEMMA DisconnectCalls ==
    ASSUME calls \in [Coroutine -> SUBSET Event], NEW c \in Coroutine, NEW w,
           DisconnectWorker(c, w)
    PROVE  \A d \in Coroutine : \A e \in calls'[d] :
              e \in calls[d] \/ e.kind # "TaskCancelRequested"
  <1> DEFINE E == {NewEvent("WorkerDisconnected", t, w, "none") : t \in books.queue[w]}
  <1>1. calls' = calls \/ calls' = [calls EXCEPT ![c] = E]
    BY DEF DisconnectWorker
  <1>2. \A e \in E : e.kind # "TaskCancelRequested"
    BY DEF NewEvent
  <1> HIDE DEF E
  <1> QED  BY <1>1, <1>2

(* Every step of the event loop keeps the invariant.                       *)
LEMMA LoopOutcome ==
    ASSUME TypeOK, OutcomeInv, Loop
    PROVE  OutcomeInv' /\ \A x \in Task : Preserved(x)
  <1>1. /\ RoutedTypes /\ budget \in [Bounded -> Nat]
        /\ calls \in [Coroutine -> SUBSET Event]
    BY DEF TypeOK, RoutedTypes
  <1>2. /\ \A t \in Task : Outcome(t)
        /\ CancelsKnown /\ Reports /\ budget["fault"] <= Limit["fault"]
        /\ \A c \in Coroutine : \A e \in calls[c] : e \in Event /\ e.task \in Task
    BY <1>1 DEF OutcomeInv, Event
  <1>3. ASSUME NEW c \in Coroutine, NEW e \in calls[c], RouteCall(c, e)
        PROVE  OutcomeInv' /\ \A x \in Task : Preserved(x)
    <2>1. transit[e.task] = NoTransit /\ Route(c, grants, e)
      BY <1>3 DEF RouteCall, LockAvailable
    <2>2. StepAbout(e.task) /\ budget'["fault"] <= Limit["fault"]
      BY <1>1, <1>2, <2>1, RouteOutcome
    <2>3. Reports'
      BY <1>1, <1>2, <2>1, RouteReports
    <2>4. \A d \in Coroutine : calls'[d] \subseteq calls[d]
      BY <1>1, <1>3 DEF RouteCall
    <2> QED  BY <1>2, <2>2, <2>3, <2>4, AboutInv
  <1>4. ASSUME NEW c \in Coroutine, NEW e \in calls[c], CancelOfEndedTask(c, e)
        PROVE  OutcomeInv' /\ \A x \in Task : Preserved(x)
    <2>1. /\ state[e.task] \notin LiveState /\ Tell(e.task, "absent")
          /\ e.kind = "TaskCancelRequested"
          /\ UNCHANGED <<state, owned, transit, wtask, outbox, budget>>
      BY <1>4 DEF CancelOfEndedTask, worker
    <2>2. state[e.task] # "new"
      BY <1>2, <2>1 DEF CancelsKnown
    <2>3. StepAbout(e.task)
      BY <1>2, <2>1, <2>2, AbsentOutcome
    <2>4. \A d \in Coroutine : calls'[d] \subseteq calls[d]
      BY <1>1, <1>4 DEF CancelOfEndedTask
    <2>5. Reports'
      BY <1>2, <2>1 DEF Reports
    <2> QED  BY <1>2, <2>1, <2>3, <2>4, <2>5, AboutInv
  <1>5. ASSUME NEW g \in grants, RouteGrant(g)
        PROVE  OutcomeInv' /\ \A x \in Task : Preserved(x)
    <2> DEFINE e == NewEvent("HasCapacity", g.task, g.worker, "none")
    <2>1. e \in Event /\ e.task \in Task
      BY <1>1 DEF RoutedTypes, Grant, NewEvent, Event, EventKind, WorkerReported
    <2>2. /\ transit[e.task] = NoTransit /\ Route(g.by, grants \ {g}, e)
          /\ UNCHANGED calls
      BY <1>5 DEF RouteGrant, LockAvailable
    <2> HIDE DEF e
    <2>3. StepAbout(e.task) /\ budget'["fault"] <= Limit["fault"]
      BY <1>1, <1>2, <2>1, <2>2, RouteOutcome
    <2>4. Reports'
      BY <1>1, <1>2, <2>1, <2>2, RouteReports
    <2> QED  BY <1>2, <2>1, <2>2, <2>3, <2>4, AboutInv
  <1>6. ASSUME NEW t \in Task, Commit(t)
        PROVE  OutcomeInv' /\ \A x \in Task : Preserved(x)
    <2>1. /\ transit[t].target \in Terminal
          /\ state' = [state EXCEPT ![t] = transit[t].target]
          /\ transit' = [transit EXCEPT ![t] = NoTransit]
          /\ UNCHANGED <<owned, told, calls, wtask, outbox, budget>>
      BY <1>6 DEF Commit, worker
    <2>2. /\ state'[t] = transit[t].target /\ transit'[t].target = "none"
          /\ \A x \in Task \ {t} : state'[x] = state[x] /\ transit'[x] = transit[x]
      BY <1>1, <2>1 DEF RoutedTypes, NoTransit
    <2>3. transit[t].target \notin {"new", "none", "reporting"} \cup LiveState
      BY <2>1 DEF Terminal, ResultType, LiveState
    <2>4. ASSUME state[t] \in LiveState PROVE StepAbout(t)
      <3>1. told[t] = <<transit[t].target>> /\ t \notin owned /\ state[t] \notin Terminal
        BY <1>2, <2>3, <2>4 DEF Outcome, OutcomeOf, LiveState, Terminal, ResultType
      <3>2. /\ told[t] # <<>> /\ told[t][1] = transit[t].target
            /\ \A i \in 2..Len(told[t]) : told[t][i] = "absent"
        BY <3>1
      <3>3. Outcome(t)'
        BY <2>1, <2>2, <2>3, <3>1, <3>2 DEF Outcome, OutcomeOf
      <3> QED  BY <2>1, <2>2, <2>3, <3>1, <3>3 DEF StepAbout, Advanced, Untouched
    <2>5. ASSUME state[t] \in Terminal PROVE StepAbout(t)
      <3>1. state[t] = transit[t].target
        BY <1>2, <2>3, <2>5 DEF Outcome, OutcomeOf
      <3>2. Outcome(t)'
        BY <1>2, <2>1, <2>2, <2>3, <2>5, <3>1 DEF Outcome, OutcomeOf
      <3> QED  BY <2>1, <2>2, <2>3, <3>1, <3>2 DEF StepAbout, Advanced, Untouched
    <2>6. state[t] # "new"
      BY <1>2, <2>3 DEF Outcome, OutcomeOf
    <2>7. state[t] \in LiveState \cup Terminal
      BY <1>1, <2>6 DEF RoutedTypes, TaskState
    <2>8. Reports'
      BY <1>2, <2>1 DEF Reports
    <2>9. StepAbout(t)
      BY <2>4, <2>5, <2>7
    <2> QED  BY <1>2, <2>1, <2>8, <2>9, AboutInv
  <1>7. ASSUME NEW t \in Task, FaultReported(t)
        PROVE  OutcomeInv' /\ \A x \in Task : Preserved(x)
    <2>1. /\ transit[t].target = "reporting" /\ Tell(t, "failed")
          /\ Teardown(transit[t].by, grants, t, books)
          /\ UNCHANGED <<owned, calls, wtask, outbox, budget>>
      BY <1>7 DEF FaultReported, worker
    <2>2. told[t] = <<>> /\ t \notin owned /\ state[t] \in LiveState /\ Limit["fault"] # 0
      BY <1>1, <1>2, <2>1 DEF Outcome, OutcomeOf, RoutedTypes, TaskState, Terminal, ResultType
    <2>3. "failed" \in Terminal
      BY DEF Terminal, ResultType
    <2>5. StepAbout(t)
      BY <1>1, <2>1, <2>2, <2>3, TeardownOutcome
    <2>6. Reports'
      BY <1>2, <2>1 DEF Reports
    <2> QED  BY <1>2, <2>1, <2>5, <2>6, AboutInv
  <1>8. ASSUME WorkerConnected PROVE OutcomeInv' /\ \A x \in Task : Preserved(x)
    <2>1. UNCHANGED <<state, owned, told, transit, wtask, calls, outbox, budget>>
      BY <1>8 DEF WorkerConnected, task, loop, worker
    <2>2. Reports'
      BY <1>2, <2>1 DEF Reports
    <2> QED  BY <2>1, <2>2, AsideOutcome
  <1>9. ASSUME NEW w \in dead, CleanNextWorker(w)
        PROVE  OutcomeInv' /\ \A x \in Task : Preserved(x)
    <2>1. /\ UNCHANGED <<state, owned, told, transit, wtask, outbox, budget>>
          /\ DisconnectWorker("workerTimer", w) \/ UNCHANGED calls
      BY <1>9 DEF CleanNextWorker, CleanWorker, task, worker
    <2>2. Reports' /\ "workerTimer" \in Coroutine
      BY <1>2, <2>1 DEF Reports, Coroutine
    <2>3. \A c \in Coroutine : \A e \in calls'[c] :
             e \in calls[c] \/ e.kind # "TaskCancelRequested"
      BY <1>1, <2>1, <2>2, DisconnectCalls
    <2> QED  BY <2>1, <2>2, <2>3, AsideOutcome
  <1> QED  BY <1>3, <1>4, <1>5, <1>6, <1>7, <1>8, <1>9 DEF Loop

(* Every message, timer and worker step keeps the invariant.               *)
LEMMA EnvironmentOutcome ==
    ASSUME TypeOK, OutcomeInv, Environment
    PROVE  OutcomeInv' /\ \A x \in Task : Preserved(x)
  <1>1. /\ RoutedTypes /\ budget \in [Bounded -> Nat]
        /\ calls \in [Coroutine -> SUBSET Event] /\ outbox \in [Worker -> Seq(Event)]
        /\ "binder" \in Coroutine /\ "workerTimer" \in Coroutine
        /\ "balanceTimer" \in Coroutine
    BY DEF TypeOK, RoutedTypes, Coroutine
  <1>2. /\ \A t \in Task : Outcome(t)
        /\ CancelsKnown /\ Reports /\ budget["fault"] <= Limit["fault"]
        /\ \A c \in Coroutine : \A e \in calls[c] : e \in Event /\ e.task \in Task
    BY <1>1 DEF OutcomeInv, Event
  <1>3. Limit["fault"] \in Nat
    BY LimitAssumption DEF Bounded
  <1>4. ASSUME NEW k \in Bounded \ {"fault"}, Spend(k) PROVE budget'["fault"] <= Limit["fault"]
    BY <1>1, <1>2, <1>4 DEF Spend, Bounded
  <1>5. ASSUME NEW t \in Task, OnTaskNew(t)
        PROVE  OutcomeInv' /\ \A x \in Task : Preserved(x)
    <2>1. /\ state[t] = "new" /\ state' = [state EXCEPT ![t] = "inactive"]
          /\ owned' = owned \cup {t}
          /\ UNCHANGED <<told, transit, wtask, outbox, budget>>
      BY <1>5 DEF OnTaskNew, worker
    <2>2. told[t] = <<>> /\ transit[t].target = "none"
      BY <1>2, <2>1 DEF Outcome, OutcomeOf
    <2>3. state'[t] = "inactive" /\ \A x \in Task \ {t} : state'[x] = state[x]
      BY <1>1, <2>1 DEF RoutedTypes
    <2>4. \A x \in Task : Outcome(x)'
      BY <1>2, <2>1, <2>2, <2>3 DEF Outcome, OutcomeOf, LiveState, Terminal, ResultType
    <2>5. \A c \in Coroutine : \A e \in calls'[c] :
             e \in calls[c] \/ e.kind # "TaskCancelRequested"
      <3>1. PICK w : \/ calls' = calls
                     \/ calls' = [calls EXCEPT !["binder"] =
                                    {NewEvent("HasCapacity", t, w, "none")}]
        BY <1>5 DEF OnTaskNew
      <3>2. NewEvent("HasCapacity", t, w, "none").kind = "HasCapacity"
        BY DEF NewEvent
      <3> QED  BY <1>1, <3>1, <3>2
    <2>6. CancelsKnown'
      BY <1>2, <2>3, <2>5 DEF CancelsKnown
    <2>7. \A x \in Task : Preserved(x)
      BY <2>1, <2>3 DEF Preserved, Terminal, ResultType
    <2>8. Reports'
      BY <1>2, <2>1 DEF Reports
    <2> QED  BY <1>2, <2>1, <2>4, <2>6, <2>7, <2>8 DEF OutcomeInv
  <1>6. ASSUME NEW t \in Task, ReceiveTaskCancel(t)
        PROVE  OutcomeInv' /\ \A x \in Task : Preserved(x)
    <2> DEFINE e == NewEvent("TaskCancelRequested", t, NoWorker, "force")
    <2>1. /\ state[t] # "new" /\ Spend("cancel")
          /\ UNCHANGED <<state, owned, transit, wtask, outbox>>
      BY <1>6 DEF ReceiveTaskCancel, worker
    <2>2. Reports' /\ budget'["fault"] <= Limit["fault"]
      BY <1>2, <1>4, <2>1 DEF Reports, Bounded
    <2>3. CASE state[t] \in LiveState
      <3>1. calls' = [calls EXCEPT !["binder"] = {e}] /\ told' = told
        BY <1>6, <2>3 DEF ReceiveTaskCancel
      <3>2. e.task = t
        BY DEF NewEvent
      <3> HIDE DEF e
      <3>3. CancelsKnown'
        BY <1>1, <1>2, <2>1, <3>1, <3>2 DEF CancelsKnown
      <3> QED  BY <1>2, <2>1, <2>2, <3>1, <3>3 DEF OutcomeInv, Outcome, Preserved
    <2>4. CASE state[t] \notin LiveState
      <3>1. Tell(t, "absent") /\ UNCHANGED calls
        BY <1>6, <2>4 DEF ReceiveTaskCancel
      <3>2. StepAbout(t)
        BY <1>2, <2>1, <2>4, <3>1, AbsentOutcome
      <3> QED  BY <1>2, <2>2, <3>1, <3>2, AboutInv
    <2> QED  BY <2>3, <2>4
  <1>7. ASSUME NEW w \in Worker, ReceiveReport(w)
        PROVE  OutcomeInv' /\ \A x \in Task : Preserved(x)
    <2> DEFINE e == Head(outbox[w])
    <2>1. /\ UNCHANGED <<state, owned, told, transit, wtask, budget>>
          /\ calls' = [calls EXCEPT !["binder"] = {e}]
          /\ outbox' = [outbox EXCEPT ![w] = Tail(@)]
          /\ outbox[w] # <<>> /\ outbox[w] \in Seq(Event)
      BY <1>1, <1>7 DEF ReceiveReport, task
    <2>2. e.kind # "TaskCancelRequested"
      <3>1. e = outbox[w][1] /\ 1 \in DOMAIN outbox[w]
        BY <2>1
      <3> QED  BY <1>2, <3>1 DEF Reports, WorkerReported
    <2>3. \A i \in DOMAIN Tail(outbox[w]) :
             Tail(outbox[w])[i] = outbox[w][i + 1] /\ i + 1 \in DOMAIN outbox[w]
      BY <2>1
    <2>4. outbox'[w] = Tail(outbox[w]) /\ \A v \in Worker \ {w} : outbox'[v] = outbox[v]
      BY <1>1, <2>1
    <2>5. \A i \in DOMAIN outbox'[w] : outbox'[w][i].kind \in WorkerReported
      BY <1>2, <2>3, <2>4 DEF Reports
    <2>6. Reports'
      BY <1>2, <2>4, <2>5 DEF Reports
    <2>7. /\ UNCHANGED <<state, owned, told, transit, wtask, budget>>
          /\ calls' = [calls EXCEPT !["binder"] = {e}]
      BY <2>1
    <2> HIDE DEF e
    <2>8. \A c \in Coroutine : \A d \in calls'[c] :
             d \in calls[c] \/ d.kind # "TaskCancelRequested"
      BY <1>1, <2>2, <2>7
    <2> QED  BY <2>6, <2>7, <2>8, AsideOutcome
  <1>8. ASSUME NEW w \in Worker, OnHeartbeat(w)
        PROVE  OutcomeInv' /\ \A x \in Task : Preserved(x)
    <2>1. UNCHANGED <<state, owned, told, transit, wtask, calls, outbox, budget>>
      BY <1>8 DEF OnHeartbeat, worker
    <2>2. Reports'
      BY <1>2, <2>1 DEF Reports
    <2> QED  BY <2>1, <2>2, AsideOutcome
  <1>9. ASSUME NEW w \in Worker, OnDisconnectNotification(w)
        PROVE  OutcomeInv' /\ \A x \in Task : Preserved(x)
    <2>1. /\ UNCHANGED <<state, owned, told, transit, wtask, outbox, budget>>
          /\ DisconnectWorker("binder", w) \/ UNCHANGED calls
      BY <1>9 DEF OnDisconnectNotification, task
    <2>2. Reports'
      BY <1>2, <2>1 DEF Reports
    <2>3. \A c \in Coroutine : \A e \in calls'[c] :
             e \in calls[c] \/ e.kind # "TaskCancelRequested"
      BY <1>1, <2>1, DisconnectCalls
    <2> QED  BY <2>1, <2>2, <2>3, AsideOutcome
  <1>10. ASSUME NEW w \in Worker, Crash(w)
         PROVE  OutcomeInv' /\ \A x \in Task : Preserved(x)
    <2>1. PICK n \in 0..Len(outbox[w]) : outbox' = [outbox EXCEPT ![w] = SubSeq(@, 1, n)]
      BY <1>10 DEF Crash
    <2>2. outbox[w] \in Seq(Event)
      BY <1>1
    <2>3. \A i \in DOMAIN SubSeq(outbox[w], 1, n) :
             SubSeq(outbox[w], 1, n)[i] = outbox[w][i] /\ i \in DOMAIN outbox[w]
      BY <2>2
    <2>4. /\ outbox'[w] = SubSeq(outbox[w], 1, n)
          /\ \A v \in Worker \ {w} : outbox'[v] = outbox[v]
      BY <1>1, <2>1
    <2>5. \A i \in DOMAIN outbox'[w] : outbox'[w][i].kind \in WorkerReported
      BY <1>2, <2>3, <2>4 DEF Reports
    <2>6. Reports'
      BY <1>2, <2>4, <2>5 DEF Reports
    <2>7. /\ UNCHANGED <<state, owned, told, transit, calls, budget>>
          /\ wtask' = [wtask EXCEPT ![w] = [t \in Task |-> "absent"]]
      BY <1>10 DEF Crash, task, loop
    <2>8. \A v \in Worker : \A x \in Task : wtask[v][x] = "absent" => wtask'[v][x] = "absent"
      BY <1>1, <2>7 DEF RoutedTypes
    <2> QED  BY <2>6, <2>7, <2>8, AsideOutcome
  <1>11. ASSUME NEW w \in Worker, Leave(w)
         PROVE  OutcomeInv' /\ \A x \in Task : Preserved(x)
    <2>1. /\ UNCHANGED <<state, owned, told, transit, calls, outbox, budget>>
          /\ wtask' = [wtask EXCEPT ![w] = [t \in Task |-> "absent"]]
      BY <1>11 DEF Leave, task, loop
    <2>2. \A v \in Worker : \A x \in Task : wtask[v][x] = "absent" => wtask'[v][x] = "absent"
      BY <1>1, <2>1 DEF RoutedTypes
    <2>3. Reports'
      BY <1>2, <2>1 DEF Reports
    <2> QED  BY <2>1, <2>2, <2>3, AsideOutcome
  <1>12. ASSUME NEW late \in SUBSET alive, CleanWorkers(late)
         PROVE  OutcomeInv' /\ \A x \in Task : Preserved(x)
    <2>1. PICK w \in late : CleanWorker(w, late \ {w})
      BY <1>12 DEF CleanWorkers
    <2>2. /\ UNCHANGED <<state, owned, told, transit, wtask, outbox>>
          /\ DisconnectWorker("workerTimer", w) \/ UNCHANGED calls
      BY <1>12, <2>1 DEF CleanWorkers, CleanWorker, task, worker
    <2>3. budget'["fault"] <= Limit["fault"]
      BY <1>2, <1>4, <1>12 DEF CleanWorkers, Bounded
    <2>4. Reports'
      BY <1>2, <2>2 DEF Reports
    <2>5. \A c \in Coroutine : \A e \in calls'[c] :
             e \in calls[c] \/ e.kind # "TaskCancelRequested"
      BY <1>1, <2>2, DisconnectCalls
    <2> QED  BY <2>2, <2>3, <2>4, <2>5, AsideOutcome
  <1>13. ASSUME NEW c \in Coroutine, CancelClientAllTasks(c)
         PROVE  OutcomeInv' /\ \A x \in Task : Preserved(x)
    <2> DEFINE E == {NewEvent("TaskCancelRequested", t, NoWorker, "gentle") : t \in owned}
    <2>1. /\ UNCHANGED <<state, owned, told, transit, wtask, outbox>>
          /\ calls' = [calls EXCEPT ![c] = E] /\ Spend("disconnect")
      BY <1>13 DEF CancelClientAllTasks, task, worker
    <2>2. \A e \in E : e.task \in owned
      BY DEF NewEvent
    <2>3. \A t \in owned : state[t] # "new"
      BY <1>1, <1>2 DEF Outcome, OutcomeOf, RoutedTypes
    <2> HIDE DEF E
    <2>4. CancelsKnown'
      BY <1>1, <1>2, <2>1, <2>2, <2>3 DEF CancelsKnown
    <2>5. Reports' /\ budget'["fault"] <= Limit["fault"]
      BY <1>2, <1>4, <2>1 DEF Reports, Bounded
    <2> QED  BY <1>2, <2>1, <2>4, <2>5 DEF OutcomeInv, Outcome, Preserved
  <1>14. ASSUME NEW advice \in BalanceAdvice(books), Balance(advice)
         PROVE  OutcomeInv' /\ \A x \in Task : Preserved(x)
    <2> DEFINE E == {NewEvent("BalanceCancelRequested", t, NoWorker, "none") : t \in advice}
    <2>1. /\ UNCHANGED <<state, owned, told, transit, wtask, outbox>>
          /\ calls' = [calls EXCEPT !["balanceTimer"] = E] /\ Spend("round")
      BY <1>14 DEF Balance, task, worker
    <2>2. \A e \in E : e.kind # "TaskCancelRequested"
      BY DEF NewEvent
    <2> HIDE DEF E
    <2>3. \A d \in Coroutine : \A e \in calls'[d] :
             e \in calls[d] \/ e.kind # "TaskCancelRequested"
      BY <1>1, <2>1, <2>2
    <2>4. Reports' /\ budget'["fault"] <= Limit["fault"]
      BY <1>2, <1>4, <2>1 DEF Reports, Bounded
    <2> QED  BY <2>1, <2>3, <2>4, AsideOutcome
  <1>15. ASSUME NEW w \in Worker, NEW t \in Task, Start(w, t)
         PROVE  OutcomeInv' /\ \A x \in Task : Preserved(x)
    <2>1. /\ UNCHANGED <<state, owned, told, transit, calls, outbox, budget>>
          /\ wtask[w][t] = "queued" /\ wtask' = [wtask EXCEPT ![w][t] = "processing"]
      BY <1>15 DEF Start, task, loop
    <2>2. \A v \in Worker : \A x \in Task : wtask[v][x] = "absent" => wtask'[v][x] = "absent"
      BY <1>1, <2>1 DEF RoutedTypes
    <2>3. Reports'
      BY <1>2, <2>1 DEF Reports
    <2> QED  BY <2>1, <2>2, <2>3, AsideOutcome
  <1>16. ASSUME NEW w \in Worker, NEW t \in Task, NEW r \in Results, Finish(w, t, r)
         PROVE  OutcomeInv' /\ \A x \in Task : Preserved(x)
    <2> DEFINE e == NewEvent("TaskResultReceived", t, w, r)
    <2>1. e \in Event /\ e.kind \in WorkerReported
      BY ResultsAssumption DEF NewEvent, Event, WorkerReported
    <2>2. /\ UNCHANGED <<state, owned, told, transit, calls, budget>>
          /\ wtask' = [wtask EXCEPT ![w][t] = "absent"]
          /\ outbox' = [outbox EXCEPT ![w] = Append(@, e)]
      BY <1>16 DEF Finish, task, loop
    <2> HIDE DEF e
    <2>3. Reports'
      BY <1>1, <1>2, <2>1, <2>2, AppendReports
    <2>4. \A v \in Worker : \A x \in Task : wtask[v][x] = "absent" => wtask'[v][x] = "absent"
      BY <1>1, <2>2 DEF RoutedTypes
    <2> QED  BY <2>2, <2>3, <2>4, AsideOutcome
  <1> QED  BY <1>5, <1>6, <1>7, <1>8, <1>9, <1>10, <1>11, <1>12, <1>13, <1>14, <1>15, <1>16
           DEF Environment

(* Every step keeps the invariant and what the client was promised.        *)
LEMMA NextOutcome ==
    ASSUME TypeOK, OutcomeInv, [Next]_vars
    PROVE  OutcomeInv' /\ \A x \in Task : Preserved(x)
  <1>1. ASSUME UNCHANGED vars PROVE OutcomeInv' /\ \A x \in Task : Preserved(x)
    <2>1. UNCHANGED <<state, owned, told, transit, calls, wtask, outbox, budget>>
      BY <1>1 DEF vars, task, loop, worker
    <2>2. Reports'
      BY <2>1 DEF OutcomeInv, Reports
    <2> QED  BY <2>1, <2>2, AsideOutcome
  <1> QED  BY <1>1, LoopOutcome, EnvironmentOutcome DEF Next, Quiet

(* The invariant implies the property.                                     *)
LEMMA OutcomeInvImplies == TypeOK /\ OutcomeInv => OutcomeOnce
  <1> SUFFICES ASSUME TypeOK, OutcomeInv, NEW t \in Task
               PROVE  /\ state[t] \in {"new"} \cup LiveState /\ ~ Settling(t) => told[t] = <<>>
                      /\ state[t] \in Terminal =>
                            /\ told[t] # <<>> /\ told[t][1] # "absent"
                            /\ Limit["fault"] = 0 => told[t][1] = state[t]
                      /\ \A i \in 2..Len(told[t]) : told[t][i] = "absent"
    BY DEF OutcomeOnce
  <1>1. Outcome(t) /\ state[t] \in {"new"} \cup LiveState \cup Terminal
    BY DEF OutcomeInv, TypeOK, TaskState
  <1>2. "absent" \notin Terminal /\ "none" \notin Terminal
    BY DEF Terminal, ResultType
  <1>3. state[t] \in {"new"} \cup LiveState /\ ~ Settling(t) => told[t] = <<>>
    BY <1>1, <1>2 DEF Outcome, OutcomeOf, Settling
  <1>4. state[t] \in Terminal =>
          /\ told[t] # <<>> /\ told[t][1] # "absent"
          /\ Limit["fault"] = 0 => told[t][1] = state[t]
    BY <1>1, <1>2 DEF Outcome, OutcomeOf
  <1>5. CASE state[t] \in Terminal
    BY <1>1, <1>3, <1>4, <1>5 DEF Outcome, OutcomeOf
  <1>6. CASE state[t] \notin Terminal
    <2>1. told[t] = <<>> \/ told[t] = <<transit[t].target>>
      BY <1>1, <1>6 DEF Outcome, OutcomeOf
    <2>2. \A i \in 2..Len(told[t]) : told[t][i] = "absent"
      BY <2>1
    <2> QED  BY <1>3, <1>4, <2>2
  <1> QED  BY <1>5, <1>6

(* The initial state satisfies the invariant.                              *)
LEMMA InitOutcome == Init => OutcomeInv
  <1> SUFFICES ASSUME Init PROVE OutcomeInv
    OBVIOUS
  <1>1. \A t \in Task : Outcome(t)
    BY DEF Init, Outcome, OutcomeOf, NoTransit, LiveState, Terminal, ResultType
  <1>2. CancelsKnown
    BY DEF Init, CancelsKnown
  <1>3. Reports
    BY DEF Init, Reports
  <1>4. budget["fault"] <= Limit["fault"]
    BY LimitAssumption DEF Init, Bounded
  <1> QED  BY <1>1, <1>2, <1>3, <1>4 DEF OutcomeInv

(* The client is told exactly one outcome of each of its tasks, the one    *)
(* the machine commits when nothing faults, and after it only that a       *)
(* cancel came too late: whatever the messages, timers, crashes and faults *)
(* that race for the task.                                                 *)
THEOREM OutcomeCorrect == Spec => []OutcomeOnce
  <1>1. TypeOK /\ OutcomeInv /\ [Next]_vars => OutcomeInv'
    BY NextOutcome
  <1> QED  BY <1>1, InitOutcome, TypeCorrect, OutcomeInvImplies, PTL DEF Spec

(* After its client was told an outcome a task is never sent to a worker   *)
(* again, and a machine that is gone does not come back.                   *)
THEOREM NoWorkCorrect == Spec => NoWorkAfterOutcome
  <1>1. TypeOK /\ OutcomeInv /\ [Next]_vars => OutcomeInv'
    BY NextOutcome
  <1>2. TypeOK /\ OutcomeInv /\ [Next]_vars =>
           [\A t \in Task :
              /\ state[t] \in Terminal => state'[t] = state[t]
              /\ told[t] # <<>> =>
                    \A w \in Worker : wtask[w][t] = "absent" => wtask'[w][t] = "absent"]_vars
    BY NextOutcome DEF Preserved
  <1> QED  BY <1>1, <1>2, InitOutcome, TypeCorrect, PTL DEF Spec, NoWorkAfterOutcome

-----------------------------------------------------------------------------
(* Locks.                                                                  *)

(* The transition of a, or its gather, awaits the lock of b.               *)
Edge(gs, tr, a, b) ==
    \/ \E g \in gs : g.by = a /\ g.task = b
    \/ tr[b].by = a

(* LockAcyclic, of grants gs and transitions tr.                           *)
Acyclic(gs, tr) ==
    \A S \in (SUBSET Task) \ {{}} : \E t \in S : \A u \in S : ~ Edge(gs, tr, t, u)

LockInv ==
    /\ Acyclic(grants, transit)
    /\ \A x \in Task : Awaiting(x) => transit[x].target \in Terminal

(* The tasks on hold are inactive, each is in the queue once, and none of  *)
(* them awaits anybody.                                                    *)
OnHoldFree ==
    /\ Distinct(unassigned)
    /\ \A x \in Task : InQueue(x, unassigned) =>
          state[x] = "inactive" /\ transit[x].target \in {"none", "reporting"}

(* A graph stays acyclic when every new edge leads to a sink.              *)
LEMMA NewEdgesToSinks ==
    ASSUME NEW gs, NEW tr, NEW gs2, NEW tr2, Acyclic(gs, tr),
           \A a, b \in Task : Edge(gs2, tr2, a, b) =>
              Edge(gs, tr, a, b) \/ \A c \in Task : ~ Edge(gs2, tr2, b, c)
    PROVE  Acyclic(gs2, tr2)
  <1> SUFFICES ASSUME NEW S \in SUBSET Task, S # {}
               PROVE  \E t \in S : \A u \in S : ~ Edge(gs2, tr2, t, u)
    BY DEF Acyclic
  <1>1. CASE \E t \in S : \A u \in Task : ~ Edge(gs2, tr2, t, u)
    BY <1>1
  <1>2. CASE \A t \in S : \E u \in Task : Edge(gs2, tr2, t, u)
    <2>1. PICK t \in S : \A u \in S : ~ Edge(gs, tr, t, u)
      BY DEF Acyclic
    <2>2. \A u \in S : ~ Edge(gs2, tr2, t, u)
      BY <1>2, <2>1
    <2> QED  BY <2>2
  <1> QED  BY <1>1, <1>2

(* A graph without edges is acyclic.                                       *)
LEMMA NoEdges ==
    ASSUME NEW gs, NEW tr, \A a, b \in Task : ~ Edge(gs, tr, a, b)
    PROVE  Acyclic(gs, tr)
  <1> SUFFICES ASSUME NEW S \in (SUBSET Task) \ {{}}
               PROVE  \E t \in S : \A u \in S : ~ Edge(gs, tr, t, u)
    BY DEF Acyclic
  <1>1. S # {} /\ S \subseteq Task
    OBVIOUS
  <1>2. PICK t \in S : t \in Task
    BY <1>1
  <1>3. \A u \in S : ~ Edge(gs, tr, t, u)
    BY <1>1, <1>2
  <1> QED  BY <1>3

(* What a step about t may do with the locks: its transition is awaited by *)
(* by, and it awaits tasks of the queue.                                   *)
LocksAbout(by, rest, t) ==
    /\ \A x \in Task \ {t} : transit'[x] = transit[x]
    /\ transit'[t].by \in {"none", by, transit[t].by}
    /\ \A g \in grants' \ rest :
          /\ g.by = t
          /\ g.task \in Task \ {t} /\ InQueue(g.task, unassigned)
          /\ transit'[t].target \in Terminal

(* Such a step keeps the invariant.                                        *)
LEMMA AboutLocks ==
    ASSUME LockInv, OnHoldFree, NEW t \in Task, NEW by, NEW rest \in SUBSET grants,
           transit[t].target \in {"none", "reporting"},
           by \in Task => Edge(grants, transit, by, t), LocksAbout(by, rest, t)
    PROVE  LockInv'
  <1>1. "none" \notin Task
    BY NamesAssumption
  <1>2. "none" \notin Terminal /\ "reporting" \notin Terminal
    BY DEF Terminal, ResultType
  <1>3. \A x \in Task : transit[x].target \in {"none", "reporting"} =>
           \A y \in Task : ~ Edge(grants, transit, x, y)
    BY <1>2 DEF LockInv, Awaiting, Edge
  <1>4. \A y \in Task : ~ Edge(grants, transit, t, y)
    BY <1>3
  <1>5. by # t
    BY <1>4
  <1>6. \A y \in Task : transit'[y].by \in Task =>
           Edge(grants, transit, transit'[y].by, y)
    BY <1>1 DEF LocksAbout, Edge
  <1>7. \A g \in grants' : g \in grants \/ (g.by = t /\ g.task \in Task /\ InQueue(g.task, unassigned))
    BY DEF LocksAbout
  <1>8. ASSUME NEW b \in Task, InQueue(b, unassigned), b # t, NEW c \in Task
        PROVE  ~ Edge(grants', transit', b, c)
    <2>1. \A y \in Task : ~ Edge(grants, transit, b, y)
      BY <1>3, <1>8 DEF OnHoldFree
    <2> QED  BY <1>6, <1>7, <1>8, <2>1 DEF Edge
  <1>9. \A a, b \in Task : Edge(grants', transit', a, b) =>
           Edge(grants, transit, a, b) \/ \A c \in Task : ~ Edge(grants', transit', b, c)
    BY <1>6, <1>8 DEF Edge, LocksAbout
  <1>10. Acyclic(grants', transit')
    BY <1>9, NewEdgesToSinks DEF LockInv
  <1>11. ASSUME NEW x \in Task, Awaiting(x)' PROVE transit'[x].target \in Terminal
    <2>1. CASE x = t
      <3>1. ~ \E y \in Task : transit'[y].by = t
        BY <1>4, <1>6
      <3>2. PICK g \in grants' : g.by = t
        BY <1>11, <2>1, <3>1 DEF Awaiting
      <3>3. CASE g \in rest
        BY <1>2, <3>2, <3>3 DEF LockInv, Awaiting
      <3>4. CASE g \notin rest
        BY <2>1, <3>2, <3>4 DEF LocksAbout
      <3> QED  BY <3>3, <3>4
    <2>2. CASE x # t
      <3>1. Awaiting(x)
        <4>1. CASE \E g \in grants' : g.by = x
          BY <1>7, <2>2, <4>1 DEF Awaiting
        <4>2. CASE \E y \in Task : transit'[y].by = x
          <5>1. PICK y \in Task : transit'[y].by = x
            BY <4>2
          <5>2. Edge(grants, transit, x, y)
            BY <1>6, <5>1
          <5> QED  BY <5>2 DEF Edge, Awaiting
        <4> QED  BY <1>11, <4>1, <4>2 DEF Awaiting
      <3> QED  BY <2>2, <3>1 DEF LockInv, LocksAbout
    <2> QED  BY <2>1, <2>2
  <1> QED  BY <1>10, <1>11 DEF LockInv

(* __retry_unassignable awaits tasks of the queue it is given.             *)
LEMMA RetryGrants ==
    ASSUME NEW by, NEW rest, NEW b, NEW u \in Seq(Task), RetryUnassignable(by, rest, b, u)
    PROVE  \A g \in grants' \ rest : g.by = by /\ g.task \in Task /\ InQueue(g.task, u)
  <1>1. PICK k \in 0..Len(u) : \E f \in [1..k -> Worker] :
            grants' = rest \cup {[task |-> u[i], worker |-> f[i], by |-> by] : i \in 1..k}
    BY DEF RetryUnassignable
  <1>2. PICK f \in [1..k -> Worker] :
            grants' = rest \cup {[task |-> u[i], worker |-> f[i], by |-> by] : i \in 1..k}
    BY <1>1
  <1>3. DOMAIN u = 1..Len(u) /\ \A i \in 1..k : i \in 1..Len(u) /\ u[i] \in Task
    OBVIOUS
  <1>4. \A g \in grants' \ rest : \E i \in 1..k :
           g = [task |-> u[i], worker |-> f[i], by |-> by]
    BY <1>2
  <1> QED  BY <1>3, <1>4 DEF InQueue

(* A terminal arm of t awaits tasks of the queue, and never t.             *)
LEMMA SettleLocks ==
    ASSUME RoutedTypes, NEW owners, NEW by, NEW rest, NEW t \in Task, NEW outcome \in Terminal,
           NEW b, NEW u \in Seq(Task),
           \A x \in Task : InQueue(x, u) => InQueue(x, unassigned) /\ x # t,
           SettleFor(owners, by, rest, t, outcome, b, u)
    PROVE  LocksAbout(by, rest, t)
  <1>1. \A g \in grants' \ rest : g.by = t /\ g.task \in Task /\ InQueue(g.task, u)
    BY RetryGrants DEF SettleFor
  <1>2. /\ \A x \in Task \ {t} : transit'[x] = transit[x]
        /\ transit'[t] = IF GathersNext(t) THEN [target |-> outcome, by |-> by] ELSE transit[t]
    BY DEF SettleFor, RoutedTypes
  <1>3. \A g \in grants' \ rest : GathersNext(t)
    BY <1>1 DEF GathersNext
  <1> QED  BY <1>1, <1>2, <1>3 DEF LocksAbout

(* So does the end of a faulted task.                                      *)
LEMMA TeardownLocks ==
    ASSUME RoutedTypes, OnHoldFree, NEW by, NEW rest, NEW t \in Task, NEW b,
           Teardown(by, rest, t, b)
    PROVE  LocksAbout(by, rest, t)
  <1> DEFINE u == Without(unassigned, t)
  <1>1. /\ u \in Seq(Task)
        /\ \A x \in Task : InQueue(x, u) <=> InQueue(x, unassigned) /\ x # t
    BY WithoutQueue, WithoutType DEF RoutedTypes, OnHoldFree
  <1>2. RetryUnassignable(t, rest, RemoveTask(b, t), u)
    BY DEF Teardown
  <1> HIDE DEF u
  <1>3. \A g \in grants' \ rest : g.by = t /\ g.task \in Task /\ InQueue(g.task, u)
    BY <1>1, <1>2, RetryGrants
  <1>4. /\ \A x \in Task \ {t} : transit'[x] = transit[x]
        /\ transit'[t] = IF GathersNext(t) THEN [target |-> "failed", by |-> by] ELSE NoTransit
    BY DEF Teardown, RoutedTypes
  <1>5. \A g \in grants' \ rest : GathersNext(t)
    BY <1>3 DEF GathersNext
  <1> QED  BY <1>1, <1>3, <1>4, <1>5 DEF LocksAbout, NoTransit, Terminal, ResultType

(* The router is such a step about the task of its event.                  *)
LEMMA RouteLocks ==
    ASSUME RoutedTypes, OnHoldFree, NEW by, NEW rest, NEW e \in Event, Route(by, rest, e)
    PROVE  LocksAbout(by, rest, e.task)
  <1> DEFINE t == e.task
  <1>1. /\ t \in Task /\ e.kind \in EventKind
        /\ e.kind = "TaskResultReceived" => e.arg \in Terminal
    BY DEF Event, EventKind, WorkerReported, Terminal
  <1>2. /\ "canceled" \in Terminal /\ "canceledNotFound" \in Terminal
        /\ unassigned \in Seq(Task)
    BY DEF Terminal, RoutedTypes
  <1>3. ASSUME UNCHANGED transit, grants' = rest PROVE LocksAbout(by, rest, t)
    BY <1>1, <1>3 DEF LocksAbout
  <1>4. ASSUME NEW owners, NEW outcome \in Terminal, NEW b,
               state[t] # "inactive" \/ ~ InQueue(t, unassigned),
               SettleFor(owners, by, rest, t, outcome, b, unassigned)
        PROVE  LocksAbout(by, rest, t)
    <2>1. \A x \in Task : InQueue(x, unassigned) => x # t
      BY <1>4 DEF OnHoldFree
    <2> QED  BY <1>1, <1>2, <1>4, <2>1, SettleLocks
  <1>5. ASSUME Arm(by, rest, e) PROVE LocksAbout(by, rest, t)
    <2>1. CASE e.kind = "HasCapacity"
      BY <1>3, <1>5, <2>1 DEF Arm, OnHasCapacity, Become, Refuse
    <2>2. CASE e.kind = "TaskCancelRequested"
      <3>1. OnTaskCancel(by, rest, e)
        BY <1>5, <2>2 DEF Arm
      <3>2. CASE state[t] = "inactive" /\ InQueue(t, unassigned)
        <4> DEFINE u == Without(unassigned, t)
        <4>1. SettleFor(owned, by, rest, t, "canceled", books, u)
          BY <3>1, <3>2 DEF OnTaskCancel, Settle
        <4>2. /\ u \in Seq(Task)
              /\ \A x \in Task : InQueue(x, u) <=> InQueue(x, unassigned) /\ x # t
          BY <1>1, <1>2, WithoutQueue, WithoutType DEF OnHoldFree
        <4> HIDE DEF u
        <4> QED  BY <1>1, <1>2, <4>1, <4>2, SettleLocks
      <3>3. CASE state[t] = "inactive" /\ ~ InQueue(t, unassigned)
        BY <1>2, <1>4, <3>1, <3>3 DEF OnTaskCancel, Settle
      <3>4. CASE state[t] = "running" /\ books.holder[t] # NoWorker
        BY <1>3, <3>1, <3>4 DEF OnTaskCancel, Become
      <3>5. CASE state[t] = "running" /\ books.holder[t] = NoWorker
        BY <1>2, <1>4, <3>1, <3>5 DEF OnTaskCancel
      <3>6. CASE state[t] = "balanceCanceling"
        BY <1>3, <3>1, <3>6 DEF OnTaskCancel, Become
      <3>7. CASE state[t] \notin {"inactive", "running", "balanceCanceling"}
        BY <1>3, <3>1, <3>7 DEF OnTaskCancel, Refuse
      <3> QED  BY <3>2, <3>3, <3>4, <3>5, <3>6, <3>7
    <2>3. CASE e.kind = "BalanceCancelRequested"
      BY <1>3, <1>5, <2>3 DEF Arm, OnBalanceTaskCancel, Become, Refuse
    <2>4. CASE e.kind = "TaskResultReceived"
      <3>1. OnTaskResult(by, rest, e)
        BY <1>5, <2>4 DEF Arm
      <3> QED  BY <1>1, <1>3, <1>4, <2>4, <3>1 DEF OnTaskResult, Settle, Refuse
    <2>5. CASE e.kind \in {"CancelConfirmCanceled", "CancelConfirmNotFound"}
      <3>1. PICK outcome \in {"canceled", "canceledNotFound"} :
               OnCancelConfirm(by, rest, e, outcome)
        BY <1>5, <2>5 DEF Arm
      <3>2. CASE state[t] = "canceling"
        BY <1>2, <1>4, <3>1, <3>2 DEF OnCancelConfirm, Settle
      <3>3. CASE state[t] = "balanceCanceling"
        BY <1>3, <3>1, <3>3 DEF OnCancelConfirm, AcquireAndDispatch
      <3>4. CASE state[t] \notin {"canceling", "balanceCanceling"}
        BY <1>3, <3>1, <3>4 DEF OnCancelConfirm, Refuse
      <3> QED  BY <3>2, <3>3, <3>4
    <2>6. CASE e.kind = "CancelConfirmFailed"
      BY <1>3, <1>5, <2>6 DEF Arm, OnCancelConfirmFailed, Become, Refuse
    <2>7. CASE e.kind = "WorkerDisconnected"
      <3>1. OnWorkerDisconnect(by, rest, e)
        BY <1>5, <2>7 DEF Arm
      <3>2. CASE state[t] \in {"running", "balanceCanceling"}
        BY <1>3, <3>1, <3>2 DEF OnWorkerDisconnect, AcquireAndDispatch
      <3>3. CASE state[t] = "canceling"
        BY <1>2, <1>4, <3>1, <3>3 DEF OnWorkerDisconnect, Settle
      <3>4. CASE state[t] \notin {"running", "balanceCanceling", "canceling"}
        BY <1>3, <3>1, <3>4 DEF OnWorkerDisconnect, Refuse
      <3> QED  BY <3>2, <3>3, <3>4
    <2> QED  BY <1>1, <2>1, <2>2, <2>3, <2>4, <2>5, <2>6, <2>7 DEF EventKind, WorkerReported
  <1>6. CASE /\ transit' = [transit EXCEPT ![t] = [target |-> "reporting", by |-> by]]
             /\ grants' = rest
    <2>1. /\ \A x \in Task \ {t} : transit'[x] = transit[x]
          /\ transit'[t].by = by
      BY <1>1, <1>6 DEF RoutedTypes
    <2> QED  BY <1>6, <2>1 DEF LocksAbout
  <1>7. CASE Teardown(by, rest, t, books)
    BY <1>1, <1>7, TeardownLocks
  <1> QED  BY <1>3, <1>5, <1>6, <1>7 DEF Route, Refuse, Fault

(* Every step keeps the wait-for graph acyclic.                            *)
LEMMA NextLocks ==
    ASSUME TypeOK, QueueInv, LockInv, [Next]_vars
    PROVE  LockInv'
  <1>1. /\ RoutedTypes /\ grants \in SUBSET Grant /\ transit \in [Task -> Transit]
        /\ calls \in [Coroutine -> SUBSET Event]
    BY DEF TypeOK, RoutedTypes
  <1>2. OnHoldFree
    BY DEF QueueInv, Sound, OnHoldFree
  <1>3. ASSUME UNCHANGED <<grants, transit>> PROVE LockInv'
    BY <1>3 DEF LockInv, Awaiting
  <1>4. ASSUME NEW c \in Coroutine, NEW e \in calls[c], RouteCall(c, e) PROVE LockInv'
    <2>1. /\ e \in Event /\ e.task \in Task /\ c \notin Task
          /\ transit[e.task].target = "none" /\ Route(c, grants, e)
      BY <1>1, <1>4, NamesAssumption DEF RouteCall, LockAvailable, NoTransit, Event
    <2>2. LocksAbout(c, grants, e.task)
      BY <1>1, <1>2, <2>1, RouteLocks
    <2> QED  BY <1>2, <2>1, <2>2, AboutLocks
  <1>5. ASSUME NEW g \in grants, RouteGrant(g) PROVE LockInv'
    <2> DEFINE e == NewEvent("HasCapacity", g.task, g.worker, "none")
    <2>1. e \in Event /\ e.task = g.task /\ g.task \in Task
      BY <1>1 DEF Grant, NewEvent, Event, EventKind, WorkerReported
    <2>2. transit[e.task] = NoTransit /\ Route(g.by, grants \ {g}, e)
      BY <1>5 DEF RouteGrant, LockAvailable
    <2> HIDE DEF e
    <2>3. LocksAbout(g.by, grants \ {g}, e.task)
      BY <1>1, <1>2, <2>1, <2>2, RouteLocks
    <2>4. Edge(grants, transit, g.by, e.task) /\ transit[e.task].target = "none"
      BY <2>1, <2>2 DEF Edge, NoTransit
    <2> QED  BY <1>2, <2>1, <2>3, <2>4, AboutLocks
  <1>6. ASSUME NEW t \in Task, Commit(t) PROVE LockInv'
    <2>1. /\ ~ Awaiting(t) /\ grants' = grants
          /\ \A x \in Task \ {t} : transit'[x] = transit[x]
          /\ transit'[t].by = "none"
      BY <1>1, <1>6 DEF Commit, NoTransit
    <2>2. "none" \notin Task
      BY NamesAssumption
    <2>3. \A a, b \in Task : Edge(grants', transit', a, b) => Edge(grants, transit, a, b)
      BY <2>1, <2>2 DEF Edge
    <2>4. Acyclic(grants', transit')
      BY <2>3, NewEdgesToSinks DEF LockInv
    <2>5. \A x \in Task : Awaiting(x)' => Awaiting(x)
      BY <2>1, <2>2 DEF Awaiting
    <2>6. \A x \in Task : Awaiting(x)' => transit'[x].target \in Terminal
      BY <2>1, <2>5 DEF LockInv
    <2> QED  BY <2>4, <2>6 DEF LockInv
  <1>7. ASSUME NEW t \in Task, FaultReported(t) PROVE LockInv'
    <2>1. transit[t].target = "reporting" /\ Teardown(transit[t].by, grants, t, books)
      BY <1>7 DEF FaultReported
    <2>2. LocksAbout(transit[t].by, grants, t)
      BY <1>1, <1>2, <2>1, TeardownLocks
    <2>3. Edge(grants, transit, transit[t].by, t)
      BY DEF Edge
    <2> QED  BY <1>2, <2>1, <2>2, <2>3, AboutLocks
  <1>8. ASSUME NEW w \in Worker, OnHeartbeat(w) PROVE LockInv'
    <2>1. /\ RetryUnassignable("binder", grants, AddWorker(books, w), unassigned)
          /\ transit' = transit
      BY <1>8 DEF OnHeartbeat
    <2>2. \A g \in grants' \ grants : g.by = "binder"
      BY <1>1, <2>1, RetryGrants DEF RoutedTypes
    <2>3. "binder" \notin Task
      BY NamesAssumption DEF Coroutine
    <2>4. \A a, b \in Task : Edge(grants', transit', a, b) => Edge(grants, transit, a, b)
      BY <2>1, <2>2, <2>3 DEF Edge
    <2>5. Acyclic(grants', transit')
      BY <2>4, NewEdgesToSinks DEF LockInv
    <2>6. \A x \in Task : Awaiting(x)' => Awaiting(x)
      BY <2>1, <2>2, <2>3 DEF Awaiting
    <2> QED  BY <2>1, <2>5, <2>6 DEF LockInv
  <1>9. CASE Loop
    <2>1. ASSUME NEW c \in Coroutine, NEW e \in calls[c], CancelOfEndedTask(c, e)
          PROVE  UNCHANGED <<grants, transit>>
      BY <2>1 DEF CancelOfEndedTask
    <2>2. ASSUME NEW w \in dead, CleanNextWorker(w) PROVE UNCHANGED <<grants, transit>>
      BY <2>2 DEF CleanNextWorker
    <2>3. ASSUME WorkerConnected PROVE UNCHANGED <<grants, transit>>
      BY <2>3 DEF WorkerConnected, loop
    <2> QED  BY <1>3, <1>4, <1>5, <1>6, <1>7, <1>9, <2>1, <2>2, <2>3 DEF Loop
  <1>10. CASE Environment
    <2>1. \/ \E w \in Worker : OnHeartbeat(w)
          \/ UNCHANGED <<grants, transit>>
      BY <1>10 DEF Environment, OnTaskNew, ReceiveTaskCancel, ReceiveReport,
                   OnDisconnectNotification, Crash, Leave, CleanWorkers,
                   CancelClientAllTasks, Balance, Start, Finish, loop
    <2> QED  BY <1>3, <1>8, <2>1
  <1>11. CASE UNCHANGED vars
    BY <1>3, <1>11 DEF vars, loop
  <1> QED  BY <1>9, <1>10, <1>11 DEF Next, Quiet

(* The locks never deadlock: no set of tasks has transitions that all      *)
(* await one another, however the gathers of __retry_unassignable nest and *)
(* whichever of their children fault.                                      *)
THEOREM LocksCorrect == Spec => []LockAcyclic
  <1>1. Init => LockInv
    <2> SUFFICES ASSUME Init PROVE LockInv
      OBVIOUS
    <2>1. grants = {} /\ \A t \in Task : transit[t].by = "none" /\ "none" \notin Task
      BY NamesAssumption DEF Init, NoTransit
    <2>2. \A a, b \in Task : ~ Edge(grants, transit, a, b)
      BY <2>1 DEF Edge
    <2>3. Acyclic(grants, transit)
      BY <2>2, NoEdges
    <2>4. \A x \in Task : ~ Awaiting(x)
      BY <2>1 DEF Awaiting
    <2> QED  BY <2>3, <2>4 DEF LockInv
  <1>2. TypeOK /\ QueueInv /\ LockInv /\ [Next]_vars => LockInv'
    BY NextLocks
  <1>3. LockInv => LockAcyclic
    <2> SUFFICES ASSUME LockInv, NEW S \in (SUBSET Task) \ {{}}
                 PROVE  \E t \in S : /\ \A g \in grants : g.by = t => g.task \notin S
                                     /\ \A u \in S : transit[u].by # t
      BY DEF LockAcyclic
    <2>1. PICK t \in S : \A u \in S : ~ Edge(grants, transit, t, u)
      BY DEF LockInv, Acyclic
    <2> QED  BY <2>1 DEF Edge
  <1> QED  BY <1>1, <1>2, <1>3, TypeCorrect, QueueInvCorrect, PTL DEF Spec

-----------------------------------------------------------------------------
(***************************************************************************)
(* The books of the even_load policy, for any instance of TaskController   *)
(* that uses it.  Its two dictionaries agree in both directions, no worker *)
(* is given more tasks than its queue holds, and remove_worker never       *)
(* raises; when the workers report equal queue sizes, no task is on hold   *)
(* while a worker has room.                                                *)
(*                                                                         *)
(* Neither holds of every instance.  capability places a task again that   *)
(* is already placed; and even_load looks at the least loaded worker only, *)
(* which may be full while one with a longer queue and more tasks is not.  *)
(*                                                                         *)
(* __acquire_workers is a loop: its books after i grants are those after   *)
(* i - 1 with one more assign_task, which is why the queue must not hold a *)
(* task twice (QueueInv).                                                  *)
(***************************************************************************)

(* BooksAgree and SlotsAgree of the books b; the queues are finite.        *)
BooksSound(b) ==
    /\ \A t \in Task : b.holder[t] # NoWorker =>
          b.holder[t] \in b.registered /\ t \in b.queue[b.holder[t]]
    /\ \A w \in Worker : \A t \in b.queue[w] : b.holder[t] = w
    /\ \A w \in Worker : w \notin b.registered => b.queue[w] = {}
    /\ \A w \in Worker : IsFiniteSet(b.queue[w]) /\ Load(b, w) <= QueueSize[w]

(* No registered worker has room.                                          *)
Full(b) == \A w \in b.registered : Load(b, w) = QueueSize[w]

(* The workers report the same queue size.                                 *)
EqualSizes == \A v, w \in Worker : QueueSize[v] = QueueSize[w]

-----------------------------------------------------------------------------
(* The operations of the policy.                                           *)

(* A set of numbers that is not empty has a least member.                  *)
LEMMA Least ==
    ASSUME NEW T \in SUBSET Nat, T # {}
    PROVE  \E n \in T : \A m \in T : n <= m
  <1>1. IsWellFoundedOn(OpToRel(<, Nat), Nat)
    BY NatLessThanWellFounded
  <1>2. \E x \in T : \A y \in T : ~ (<<y, x>> \in OpToRel(<, Nat))
    BY <1>1, WFMin
  <1>3. PICK x \in T : \A y \in T : ~ (<<y, x>> \in OpToRel(<, Nat))
    BY <1>2
  <1>4. \A y \in T : ~ (y < x)
    BY <1>3 DEF OpToRel
  <1> QED  BY <1>4

(* A finite queue has a length.                                            *)
LEMMA LoadType ==
    ASSUME NEW b, BooksSound(b), NEW w \in Worker
    PROVE  Load(b, w) \in Nat /\ QueueSize[w] \in Nat
  BY FS_CardinalityType, QueueAssumption DEF BooksSound, Load

(* add_worker registers a worker whose queue is empty.                     *)
LEMMA AddWorkerSound ==
    ASSUME NEW b \in Books, BooksSound(b), NEW w \in Worker
    PROVE  BooksSound(AddWorker(b, w))
  <1>1. CASE w \in b.registered
    BY <1>1 DEF AddWorker
  <1>2. CASE w \notin b.registered
    <2> DEFINE c == AddWorker(b, w)
    <2>1. c.registered = b.registered \cup {w} /\ c.holder = b.holder
      BY <1>2 DEF AddWorker, Books
    <2>2. \A v \in Worker : c.queue[v] = b.queue[v]
      BY <1>2 DEF AddWorker, Books, BooksSound
    <2>3. \A v \in Worker : Load(c, v) = Load(b, v)
      BY <2>2 DEF Load
    <2>4. \A t \in Task : b.holder[t] \in Worker \cup {NoWorker}
      BY DEF Books
    <2> HIDE DEF c
    <2>5. BooksSound(c)
      BY <2>1, <2>2, <2>3, <2>4 DEF BooksSound
    <2> QED  BY <2>5 DEF c
  <1> QED  BY <1>1, <1>2

(* What remove_task changes.                                               *)
LEMMA RemoveTaskEffect ==
    ASSUME NEW b \in Books, NEW t \in Task, b.holder[t] # NoWorker
    PROVE  /\ RemoveTask(b, t).registered = b.registered
           /\ \A x \in Task : RemoveTask(b, t).holder[x] =
                 IF x = t THEN NoWorker ELSE b.holder[x]
           /\ \A w \in Worker : RemoveTask(b, t).queue[w] =
                 IF w = b.holder[t] THEN b.queue[w] \ {t} ELSE b.queue[w]
  BY DEF RemoveTask, Books

(* remove_task frees the one slot of the task.                             *)
LEMMA RemoveTaskSound ==
    ASSUME NEW b \in Books, BooksSound(b), NEW t \in Task
    PROVE  BooksSound(RemoveTask(b, t))
  <1>1. CASE b.holder[t] = NoWorker
    BY <1>1 DEF RemoveTask
  <1>2. CASE b.holder[t] # NoWorker
    <2> DEFINE c == RemoveTask(b, t)
    <2>1. /\ c.registered = b.registered
          /\ \A x \in Task : c.holder[x] = IF x = t THEN NoWorker ELSE b.holder[x]
          /\ \A w \in Worker : c.queue[w] =
                IF w = b.holder[t] THEN b.queue[w] \ {t} ELSE b.queue[w]
      BY <1>2, RemoveTaskEffect
    <2>2. \A x \in Task : b.holder[x] \in Worker \cup {NoWorker}
      BY DEF Books
    <2>3. \A w \in Worker : b.queue[w] \subseteq Task
      BY DEF Books
    <2> HIDE DEF c
    <2>4. \A w \in Worker : t \in b.queue[w] => w = b.holder[t]
      BY DEF BooksSound
    <2>5. \A w \in Worker : IsFiniteSet(c.queue[w]) /\ Load(c, w) <= QueueSize[w]
      <3> SUFFICES ASSUME NEW w \in Worker
                   PROVE  IsFiniteSet(c.queue[w]) /\ Load(c, w) <= QueueSize[w]
        OBVIOUS
      <3>1. c.queue[w] \in SUBSET b.queue[w]
        BY <2>1
      <3>2. IsFiniteSet(b.queue[w]) /\ Cardinality(b.queue[w]) <= QueueSize[w]
        BY DEF BooksSound, Load
      <3>3. IsFiniteSet(c.queue[w]) /\ Cardinality(c.queue[w]) <= Cardinality(b.queue[w])
        BY <3>1, <3>2, FS_Subset
      <3>4. Cardinality(b.queue[w]) \in Nat /\ Cardinality(c.queue[w]) \in Nat
        BY <3>2, <3>3, FS_CardinalityType
      <3> QED  BY <3>2, <3>3, <3>4, QueueAssumption DEF Load
    <2>6. \A x \in Task : c.holder[x] # NoWorker =>
             c.holder[x] \in c.registered /\ x \in c.queue[c.holder[x]]
      <3> SUFFICES ASSUME NEW x \in Task, c.holder[x] # NoWorker
                   PROVE  c.holder[x] \in c.registered /\ x \in c.queue[c.holder[x]]
        OBVIOUS
      <3>1. x # t /\ c.holder[x] = b.holder[x] /\ b.holder[x] \in Worker
        BY <2>1, <2>2
      <3>2. b.holder[x] \in b.registered /\ x \in b.queue[b.holder[x]]
        BY <3>1 DEF BooksSound
      <3>3. x \in c.queue[b.holder[x]]
        BY <2>1, <3>1, <3>2
      <3> QED  BY <2>1, <3>1, <3>2, <3>3
    <2>7. \A w \in Worker : \A x \in c.queue[w] : c.holder[x] = w
      <3> SUFFICES ASSUME NEW w \in Worker, NEW x \in c.queue[w] PROVE c.holder[x] = w
        OBVIOUS
      <3>1. x \in b.queue[w] /\ x # t /\ x \in Task
        BY <2>1, <2>3, <2>4
      <3> QED  BY <2>1, <3>1 DEF BooksSound
    <2>8. \A w \in Worker : w \notin c.registered => c.queue[w] = {}
      BY <2>1 DEF BooksSound
    <2>9. BooksSound(c)
      BY <2>5, <2>6, <2>7, <2>8 DEF BooksSound
    <2> QED  BY <2>9 DEF c
  <1> QED  BY <1>1, <1>2

(* remove_worker pops the mapping of every task of the queue: it finds one *)
(* for each, and leaves the other workers alone.                           *)
LEMMA WithoutWorkerSound ==
    ASSUME NEW b \in Books, BooksSound(b), NEW w \in Worker
    PROVE  /\ ~ RemoveWorkerRaises(b, w)
           /\ BooksSound(WithoutWorker(b, w, b.queue[w]))
           /\ Full(b) => Full(WithoutWorker(b, w, b.queue[w]))
  <1> DEFINE c == WithoutWorker(b, w, b.queue[w])
  <1>1. ~ RemoveWorkerRaises(b, w)
    BY WorkerAssumption DEF RemoveWorkerRaises, BooksSound
  <1>2. /\ c.registered = b.registered \ {w}
        /\ \A x \in Task : c.holder[x] = IF x \in b.queue[w] THEN NoWorker ELSE b.holder[x]
        /\ \A v \in Worker : c.queue[v] = IF v = w THEN {} ELSE b.queue[v]
    BY DEF WithoutWorker, Books
  <1>3. /\ \A x \in Task : b.holder[x] \in Worker \cup {NoWorker}
        /\ \A v \in Worker : b.queue[v] \subseteq Task
        /\ b.registered \subseteq Worker
    BY DEF Books
  <1> HIDE DEF c
  <1>4. \A v \in Worker : IsFiniteSet(c.queue[v]) /\ Load(c, v) <= QueueSize[v]
    <2>1. IsFiniteSet({}) /\ Cardinality({}) = 0
      BY FS_EmptySet
    <2> QED  BY <1>2, <2>1, QueueAssumption DEF BooksSound, Load
  <1>5. \A x \in Task : c.holder[x] # NoWorker =>
           c.holder[x] \in c.registered /\ x \in c.queue[c.holder[x]]
    BY <1>2, <1>3 DEF BooksSound
  <1>6. \A v \in Worker : \A x \in c.queue[v] : c.holder[x] = v
    BY <1>2, <1>3 DEF BooksSound
  <1>7. \A v \in Worker : v \notin c.registered => c.queue[v] = {}
    BY <1>2 DEF BooksSound
  <1>8. BooksSound(c)
    BY <1>4, <1>5, <1>6, <1>7 DEF BooksSound
  <1>9. Full(b) => Full(c)
    BY <1>2, <1>3 DEF Full, Load
  <1> QED  BY <1>1, <1>8, <1>9 DEF c

(* What assign_task writes.                                                *)
LEMMA AssignedEffect ==
    ASSUME NEW b \in Books, NEW t \in Task, NEW w \in Worker
    PROVE  /\ Assigned(b, t, w).registered = b.registered
           /\ \A x \in Task : Assigned(b, t, w).holder[x] = IF x = t THEN w ELSE b.holder[x]
           /\ \A v \in Worker : Assigned(b, t, w).queue[v] =
                 IF v = w THEN b.queue[v] \cup {t} ELSE b.queue[v]
  BY DEF Assigned, Books

(* assign_task is asked for a worker.  even_load answers a task that is    *)
(* placed with its worker; capability places it again, so it must not be.  *)
MayAssign(b, t) == Policy = "even_load" \/ b.holder[t] = NoWorker

(* A worker that assign_task answers either holds the task or has room.    *)
LEMMA AssignTaskRoom ==
    ASSUME NEW b \in Books, BooksSound(b), NEW t \in Task, MayAssign(b, t),
           NEW w \in AssignTask(b, t), w # NoWorker
    PROVE  /\ w \in Worker /\ w \in b.registered
           /\ \/ b.holder[t] = w
              \/ b.holder[t] = NoWorker /\ Load(b, w) < QueueSize[w]
  <1>1. b.registered \subseteq Worker /\ b.holder[t] \in Worker \cup {NoWorker}
    BY DEF Books
  <1>2. CASE b.holder[t] # NoWorker
    BY <1>1, <1>2 DEF AssignTask, BooksSound, MayAssign
  <1>3. CASE b.holder[t] = NoWorker
    <2>1. /\ w \in LeastLoaded(b, Candidates(b, t))
          /\ Policy = "even_load" => Load(b, w) # QueueSize[w]
      BY <1>3 DEF AssignTask
    <2>2. w \in b.registered /\ (Policy # "even_load" => Load(b, w) < QueueSize[w])
      BY <2>1 DEF LeastLoaded, Candidates
    <2>3. Load(b, w) <= QueueSize[w]
      BY <1>1, <2>2 DEF BooksSound
    <2> QED  BY <1>1, <1>3, <2>1, <2>2, <2>3, LoadType
  <1> QED  BY <1>2, <1>3

(* assign_task keeps the books sound.                                      *)
LEMMA AssignedSound ==
    ASSUME NEW b \in Books, BooksSound(b), NEW t \in Task, MayAssign(b, t),
           NEW w \in AssignTask(b, t), w # NoWorker
    PROVE  BooksSound(Assigned(b, t, w))
  <1> DEFINE c == Assigned(b, t, w)
  <1>1. /\ w \in Worker /\ w \in b.registered
        /\ \/ b.holder[t] = w
           \/ b.holder[t] = NoWorker /\ Load(b, w) < QueueSize[w]
    BY AssignTaskRoom
  <1>2. /\ c.registered = b.registered
        /\ \A x \in Task : c.holder[x] = IF x = t THEN w ELSE b.holder[x]
        /\ \A v \in Worker : c.queue[v] = IF v = w THEN b.queue[v] \cup {t} ELSE b.queue[v]
    <2>1. w \in Worker
      BY <1>1
    <2>2. /\ Assigned(b, t, w).registered = b.registered
          /\ \A x \in Task : Assigned(b, t, w).holder[x] = IF x = t THEN w ELSE b.holder[x]
          /\ \A v \in Worker : Assigned(b, t, w).queue[v] =
                IF v = w THEN b.queue[v] \cup {t} ELSE b.queue[v]
      BY <2>1 DEF Assigned, Books
    <2> QED  BY <2>2
  <1>3. /\ \A x \in Task : b.holder[x] \in Worker \cup {NoWorker}
        /\ \A v \in Worker : b.queue[v] \subseteq Task
        /\ b.registered \subseteq Worker
    BY DEF Books
  <1> HIDE DEF c
  <1>4. \A v \in Worker : IsFiniteSet(c.queue[v]) /\ Load(c, v) <= QueueSize[v]
    <2>1. ASSUME NEW v \in Worker, v # w
          PROVE  IsFiniteSet(c.queue[v]) /\ Load(c, v) <= QueueSize[v]
      BY <1>2, <2>1 DEF BooksSound, Load
    <2>2. /\ IsFiniteSet(c.queue[w])
          /\ Load(c, w) = IF t \in b.queue[w] THEN Load(b, w) ELSE Load(b, w) + 1
      <3>1. c.queue[w] = b.queue[w] \cup {t} /\ IsFiniteSet(b.queue[w])
        BY <1>1, <1>2 DEF BooksSound
      <3> QED  BY <3>1, FS_AddElement DEF Load
    <2>3. b.holder[t] = w => t \in b.queue[w]
      BY <1>1, WorkerAssumption DEF BooksSound
    <2>4. Load(b, w) <= QueueSize[w] /\ Load(b, w) \in Nat /\ QueueSize[w] \in Nat
      BY <1>1, LoadType DEF BooksSound
    <2>5. Load(c, w) <= QueueSize[w]
      BY <1>1, <2>2, <2>3, <2>4
    <2> QED  BY <2>1, <2>2, <2>5
  <1>5. \A x \in Task : c.holder[x] # NoWorker =>
           c.holder[x] \in c.registered /\ x \in c.queue[c.holder[x]]
    <2> SUFFICES ASSUME NEW x \in Task, c.holder[x] # NoWorker
                 PROVE  c.holder[x] \in c.registered /\ x \in c.queue[c.holder[x]]
      OBVIOUS
    <2>1. CASE x = t
      BY <1>1, <1>2, <2>1
    <2>2. CASE x # t
      <3>1. c.holder[x] = b.holder[x] /\ b.holder[x] \in Worker
        BY <1>2, <1>3, <2>2
      <3>2. b.holder[x] \in b.registered /\ x \in b.queue[b.holder[x]]
        BY <3>1 DEF BooksSound
      <3>3. x \in c.queue[b.holder[x]]
        BY <1>2, <3>1, <3>2
      <3> QED  BY <1>2, <3>1, <3>2, <3>3
    <2> QED  BY <2>1, <2>2
  <1>6. \A v \in Worker : \A x \in c.queue[v] : c.holder[x] = v
    <2> SUFFICES ASSUME NEW v \in Worker, NEW x \in c.queue[v] PROVE c.holder[x] = v
      OBVIOUS
    <2>1. CASE x = t
      <3>1. CASE v = w
        BY <1>2, <2>1, <3>1
      <3>2. CASE v # w
        <4>1. t \in b.queue[v]
          BY <1>2, <2>1, <3>2
        <4>2. b.holder[t] = v
          BY <4>1 DEF BooksSound
        <4> QED  BY <1>1, <3>2, <4>2, WorkerAssumption
      <3> QED  BY <3>1, <3>2
    <2>2. CASE x # t
      <3>1. x \in b.queue[v] /\ x \in Task
        BY <1>2, <1>3, <2>2
      <3> QED  BY <1>2, <2>2, <3>1 DEF BooksSound
    <2> QED  BY <2>1, <2>2
  <1>7. \A v \in Worker : v \notin c.registered => c.queue[v] = {}
    BY <1>1, <1>2 DEF BooksSound
  <1> QED  BY <1>4, <1>5, <1>6, <1>7 DEF BooksSound, c

(* A task that even_load puts on hold meets full workers only.             *)
LEMMA OnHoldFull ==
    ASSUME Policy = "even_load", EqualSizes, NEW b \in Books, BooksSound(b), NEW t \in Task,
           NoWorker \in AssignTask(b, t)
    PROVE  Full(b) /\ b.holder[t] = NoWorker
  <1>1. b.registered \subseteq Worker /\ b.holder[t] \in Worker \cup {NoWorker}
    BY DEF Books
  <1>2. b.holder[t] = NoWorker
    BY DEF AssignTask
  <1>3. Candidates(b, t) = b.registered
    BY DEF Candidates
  <1>4. CASE b.registered = {}
    BY <1>2, <1>4 DEF Full
  <1>5. CASE b.registered # {}
    <2>1. PICK w \in LeastLoaded(b, b.registered) :
             NoWorker = IF Load(b, w) = QueueSize[w] THEN NoWorker ELSE w
      BY <1>2, <1>3, <1>5 DEF AssignTask
    <2>2. w \in Worker /\ \A v \in b.registered : Load(b, w) <= Load(b, v)
      BY <1>1 DEF LeastLoaded
    <2>3. Load(b, w) = QueueSize[w]
      BY <2>1, <2>2, WorkerAssumption
    <2>4. ASSUME NEW v \in b.registered PROVE Load(b, v) = QueueSize[v]
      <3>1. /\ v \in Worker /\ Load(b, v) \in Nat /\ QueueSize[v] \in Nat
            /\ Load(b, v) <= QueueSize[v]
        BY <1>1, LoadType DEF BooksSound
      <3>2. QueueSize[v] = QueueSize[w]
        BY <2>2, <3>1 DEF EqualSizes
      <3> QED  BY <2>2, <2>3, <3>1, <3>2
    <2> QED  BY <1>2, <2>4 DEF Full
  <1> QED  BY <1>4, <1>5

(* The books b and c record the same.                                      *)
Same(b, c) ==
    /\ b.registered = c.registered
    /\ \A t \in Task : b.holder[t] = c.holder[t]
    /\ \A w \in Worker : b.queue[w] = c.queue[w]

(* Soundness depends on what the books record.                             *)
LEMMA SameSound ==
    ASSUME NEW b, NEW c \in Books, Same(b, c), BooksSound(c)
    PROVE  BooksSound(b)
  <1>1. /\ \A t \in Task : c.holder[t] \in Worker \cup {NoWorker}
        /\ \A w \in Worker : c.queue[w] \subseteq Task
    BY DEF Books
  <1>2. \A w \in Worker : Load(b, w) = Load(c, w)
    BY DEF Load, Same
  <1> QED  BY <1>1, <1>2 DEF BooksSound, Same

(* One more grant of __acquire_workers is one more assign_task.            *)
LEMMA GrantedStep ==
    ASSUME NEW b \in Books, NEW u \in Seq(Task), Distinct(u), NEW k \in 0..Len(u),
           NEW f \in [1..k -> Worker], NEW n \in 1..k
    PROVE  Same(Granted(b, u, f, n), Assigned(Granted(b, u, f, n - 1), u[n], f[n]))
  <1> DEFINE g == Granted(b, u, f, n - 1)
             h == Granted(b, u, f, n)
             a == Assigned(g, u[n], f[n])
             To(m, w) == {u[j] : j \in {j \in 1..m : f[j] = w}}
             In(m, t) == \E j \in 1..m : u[j] = t
             At(m, t) == CHOOSE j \in 1..m : u[j] = t
  <1>1. /\ n \in DOMAIN u /\ u[n] \in Task /\ f[n] \in Worker /\ DOMAIN u = 1..Len(u)
        /\ 1..n = (1..(n - 1)) \cup {n} /\ n \in Int /\ Len(u) \in Nat /\ n <= Len(u)
        /\ 1..n \subseteq DOMAIN u /\ n - 1 \in 0..k
    OBVIOUS
  <1>2. /\ g.registered = b.registered
        /\ \A w \in Worker : g.queue[w] = b.queue[w] \cup To(n - 1, w)
        /\ \A t \in Task : g.holder[t] =
              IF In(n - 1, t) THEN f[At(n - 1, t)] ELSE b.holder[t]
    BY DEF Granted
  <1>3. /\ h.registered = b.registered
        /\ \A w \in Worker : h.queue[w] = b.queue[w] \cup To(n, w)
        /\ \A t \in Task : h.holder[t] = IF In(n, t) THEN f[At(n, t)] ELSE b.holder[t]
    BY DEF Granted
  <1>4. g \in Books
    BY <1>1, GrantedType
  <1> HIDE DEF g
  <1>5. /\ a.registered = g.registered
        /\ \A t \in Task : a.holder[t] = IF t = u[n] THEN f[n] ELSE g.holder[t]
        /\ \A w \in Worker : a.queue[w] =
              IF w = f[n] THEN g.queue[w] \cup {u[n]} ELSE g.queue[w]
    <2>1. u[n] \in Task /\ f[n] \in Worker
      BY <1>1
    <2> HIDE DEF To, In, At, h
    <2> QED  BY <1>4, <2>1 DEF Assigned, Books
  <1> HIDE DEF h, a
  <1>6. \A w \in Worker :
          To(n, w) = IF w = f[n] THEN To(n - 1, w) \cup {u[n]} ELSE To(n - 1, w)
    BY <1>1
  <1>8. \A i, j \in 1..n : u[i] = u[j] => i = j
    BY <1>1 DEF Distinct
  <1>12. \A t \in Task : In(n, t) <=> t = u[n] \/ In(n - 1, t)
    BY <1>1
  <1>13. At(n, u[n]) = n
    BY <1>1, <1>8
  <1>14. \A t \in Task : In(n - 1, t) => t # u[n] /\ At(n, t) = At(n - 1, t)
    <2> SUFFICES ASSUME NEW t \in Task, In(n - 1, t)
                 PROVE  t # u[n] /\ At(n, t) = At(n - 1, t)
      OBVIOUS
    <2>1. PICK i \in 1..(n - 1) : u[i] = t
      OBVIOUS
    <2>2. i \in 1..n /\ i # n /\ n \in 1..n
      BY <1>1
    <2>3. At(n, t) = i
      BY <1>8, <2>1, <2>2
    <2>4. At(n - 1, t) = i
      BY <1>1, <1>8, <2>1
    <2> QED  BY <1>8, <2>1, <2>2, <2>3, <2>4
  <1> HIDE DEF To, In, At
  <1>7. \A w \in Worker : h.queue[w] = a.queue[w]
    <2> SUFFICES ASSUME NEW w \in Worker PROVE h.queue[w] = a.queue[w]
      OBVIOUS
    <2>1. /\ h.queue[w] = b.queue[w] \cup To(n, w)
          /\ g.queue[w] = b.queue[w] \cup To(n - 1, w)
      BY <1>2, <1>3
    <2>2. CASE w = f[n]
      <3>1. a.queue[w] = g.queue[w] \cup {u[n]}
        BY <1>5, <2>2
      <3>2. To(n, w) = To(n - 1, w) \cup {u[n]}
        BY <1>6, <2>2
      <3> QED  BY <2>1, <3>1, <3>2
    <2>3. CASE w # f[n]
      <3>1. a.queue[w] = g.queue[w]
        BY <1>5, <2>3
      <3>2. To(n, w) = To(n - 1, w)
        BY <1>6, <2>3
      <3> QED  BY <2>1, <3>1, <3>2
    <2> QED  BY <2>2, <2>3
  <1>9. \A t \in Task : h.holder[t] = a.holder[t]
    BY <1>1, <1>2, <1>3, <1>5, <1>12, <1>13, <1>14
  <1>10. Same(h, a)
    BY <1>2, <1>3, <1>5, <1>7, <1>9 DEF Same
  <1> QED  BY <1>10 DEF g, h, a

(* A task keeps its worker until it is granted one.                        *)
LEMMA GrantedBefore ==
    ASSUME NEW b \in Books, NEW u \in Seq(Task), Distinct(u), NEW k \in 0..Len(u),
           NEW f \in [1..k -> Worker], NEW n \in 1..k
    PROVE  Granted(b, u, f, n - 1).holder[u[n]] = b.holder[u[n]]
  <1>1. \A j \in 1..(n - 1) : j \in DOMAIN u /\ n \in DOMAIN u /\ j # n
    OBVIOUS
  <1>2. ~ \E j \in 1..(n - 1) : u[j] = u[n]
    BY <1>1 DEF Distinct
  <1>3. u[n] \in Task
    OBVIOUS
  <1> QED  BY <1>2, <1>3 DEF Granted

(* The books stay sound through the grants of __acquire_workers.           *)
LEMMA GrantedSound ==
    ASSUME NEW b \in Books, BooksSound(b), NEW u \in Seq(Task),
           Distinct(u), \A t \in Task : InQueue(t, u) => MayAssign(b, t), NEW k \in 0..Len(u), NEW f \in [1..k -> Worker],
           \A i \in 1..k : f[i] \in AssignTask(Granted(b, u, f, i - 1), u[i])
    PROVE  BooksSound(Granted(b, u, f, k))
  <1> DEFINE T == {i \in 0..k : ~ BooksSound(Granted(b, u, f, i))}
  <1>1. SUFFICES ASSUME T # {} PROVE FALSE
    OBVIOUS
  <1>2. T \in SUBSET Nat
    OBVIOUS
  <1>3. PICK n \in T : \A m \in T : n <= m
    BY <1>1, <1>2, Least
  <1>4. n \in 0..k /\ ~ BooksSound(Granted(b, u, f, n))
    OBVIOUS
  <1>5. CASE n = 0
    <2>1. Same(Granted(b, u, f, 0), b)
      BY DEF Granted, Same
    <2> QED  BY <1>4, <1>5, <2>1, SameSound
  <1>6. CASE n # 0
    <2> DEFINE c == Granted(b, u, f, n - 1)
    <2>1. n - 1 \in 0..k /\ n \in 1..k /\ n - 1 < n
      BY <1>4, <1>6
    <2>2. BooksSound(c)
      BY <1>3, <2>1
    <2>3. c \in Books
      BY <2>1, GrantedType
    <2>4. u[n] \in Task /\ f[n] \in Worker /\ f[n] \in AssignTask(c, u[n])
      BY <2>1
    <2>5. Same(Granted(b, u, f, n), Assigned(c, u[n], f[n]))
      BY <2>1, GrantedStep
    <2>7. MayAssign(c, u[n])
      <3>1. n \in DOMAIN u
        BY <2>1
      <3>2. MayAssign(b, u[n])
        BY <2>4, <3>1 DEF InQueue
      <3>3. c.holder[u[n]] = b.holder[u[n]]
        BY <2>1, GrantedBefore
      <3> QED  BY <3>2, <3>3 DEF MayAssign
    <2> HIDE DEF c
    <2>6. BooksSound(Assigned(c, u[n], f[n])) /\ Assigned(c, u[n], f[n]) \in Books
      BY <2>2, <2>3, <2>4, <2>7, AssignedSound, AssignedType, WorkerAssumption
    <2> QED  BY <1>4, <2>5, <2>6, SameSound
  <1> QED  BY <1>5, <1>6

(* __retry_unassignable keeps the books sound, and leaves a task on hold   *)
(* only when no worker has room.                                           *)
LEMMA RetryBooks ==
    ASSUME Policy = "even_load", NEW by, NEW rest, NEW b \in Books, BooksSound(b),
           NEW u \in Seq(Task), Distinct(u), RetryUnassignable(by, rest, b, u)
    PROVE  /\ BooksSound(books')
           /\ EqualSizes => (unassigned' # <<>> => Full(books'))
  <1>1. PICK k \in 0..Len(u) : \E f \in [1..k -> Worker] :
            /\ AcquireWorkers(b, u, f, k)
            /\ books' = Granted(b, u, f, k)
            /\ unassigned' = SubSeq(u, k + 1, Len(u))
    BY DEF RetryUnassignable
  <1>2. PICK f \in [1..k -> Worker] :
            /\ AcquireWorkers(b, u, f, k)
            /\ books' = Granted(b, u, f, k)
            /\ unassigned' = SubSeq(u, k + 1, Len(u))
    BY <1>1
  <1>3. BooksSound(books')
    <2>1. \A t \in Task : InQueue(t, u) => MayAssign(b, t)
      BY DEF MayAssign
    <2> QED  BY <1>2, <2>1, GrantedSound DEF AcquireWorkers
  <1>4. books' \in Books
    BY <1>2, GrantedType
  <1>5. ASSUME EqualSizes, unassigned' # <<>> PROVE Full(books')
    <2>1. k < Len(u)
      BY <1>2, <1>5
    <2>2. k + 1 \in 1..Len(u) /\ u[k + 1] \in Task
      BY <2>1
    <2>3. NoWorker \in AssignTask(books', u[k + 1])
      BY <1>2, <2>1 DEF AcquireWorkers
    <2> QED  BY <1>3, <1>4, <1>5, <2>2, <2>3, OnHoldFull
  <1> QED  BY <1>3, <1>5

(* assign_task for a task, after remove_task or not: the capacity it takes *)
(* while tasks are on hold is the slot the task itself had.                *)
LEMMA PlaceBooks ==
    ASSUME Policy = "even_load", books \in Books, BooksSound(books), NEW t \in Task,
           NEW b \in {books, RemoveTask(books, t)}, NEW w \in AssignTask(b, t)
    PROVE  /\ b \in Books /\ BooksSound(b)
           /\ w = NoWorker /\ EqualSizes => Full(b)
           /\ w # NoWorker =>
                /\ BooksSound(Assigned(b, t, w))
                /\ Full(books) => Full(Assigned(b, t, w))
  <1>1. b \in Books /\ BooksSound(b) /\ MayAssign(b, t)
    BY RemoveTaskSound, RemoveTaskType DEF MayAssign
  <1>2. ASSUME w = NoWorker, EqualSizes PROVE Full(b)
    BY <1>1, <1>2, OnHoldFull
  <1>3. ASSUME w # NoWorker PROVE BooksSound(Assigned(b, t, w))
    BY <1>1, <1>3, AssignedSound
  <1>4. ASSUME w # NoWorker, Full(books) PROVE Full(Assigned(b, t, w))
    <2>1. /\ w \in Worker /\ w \in b.registered
          /\ \/ b.holder[t] = w
             \/ b.holder[t] = NoWorker /\ Load(b, w) < QueueSize[w]
      BY <1>1, <1>4, AssignTaskRoom
    <2> DEFINE c == Assigned(b, t, w)
    <2>2. /\ c.registered = b.registered
          /\ \A v \in Worker : c.queue[v] = IF v = w THEN b.queue[v] \cup {t} ELSE b.queue[v]
      BY <1>1, <2>1, AssignedEffect
    <2> HIDE DEF c
    <2>3. books.registered \subseteq Worker /\ books.holder[t] \in Worker \cup {NoWorker}
      BY DEF Books
    <2>4. \A v \in Worker : Load(books, v) \in Nat /\ QueueSize[v] \in Nat
      BY LoadType
    <2>5. b.registered = books.registered /\ \A v \in Worker : c.queue[v] = books.queue[v]
      <3>1. CASE b = books
        <4>1. Load(books, w) = QueueSize[w]
          BY <1>4, <2>1, <3>1 DEF Full
        <4>2. books.holder[t] = w
          BY <2>1, <2>4, <3>1, <4>1
        <4>3. t \in books.queue[w]
          BY <2>1, <3>1, <4>2, WorkerAssumption DEF BooksSound
        <4> QED  BY <2>2, <3>1, <4>3
      <3>2. CASE b # books
        <4>1. b = RemoveTask(books, t) /\ books.holder[t] # NoWorker
          BY <3>2 DEF RemoveTask
        <4>2. /\ b.registered = books.registered
              /\ b.holder[t] = NoWorker
              /\ \A v \in Worker : b.queue[v] =
                    IF v = books.holder[t] THEN books.queue[v] \ {t} ELSE books.queue[v]
          BY <4>1, RemoveTaskEffect
        <4>3. t \in books.queue[books.holder[t]] /\ books.holder[t] \in Worker
          BY <2>3, <4>1 DEF BooksSound
        <4>4. Load(b, w) < QueueSize[w]
          BY <1>4, <2>1, <4>2
        <4>5. w = books.holder[t]
          <5>1. SUFFICES ASSUME w # books.holder[t] PROVE FALSE
            OBVIOUS
          <5>2. Load(b, w) = Load(books, w)
            BY <2>1, <4>2, <5>1 DEF Load
          <5>3. Load(books, w) = QueueSize[w]
            BY <1>4, <2>1, <4>2 DEF Full
          <5> QED  BY <2>1, <2>4, <4>4, <5>2, <5>3
        <4> QED  BY <2>2, <4>2, <4>3, <4>5
      <3> QED  BY <3>1, <3>2
    <2>6. \A v \in Worker : Load(c, v) = Load(books, v)
      BY <2>5 DEF Load
    <2>7. Full(c)
      BY <1>4, <2>2, <2>3, <2>5, <2>6 DEF Full
    <2> QED  BY <2>7 DEF c
  <1> QED  BY <1>1, <1>2, <1>3, <1>4

-----------------------------------------------------------------------------
(* Steps.  A step leaves the books alone, hands released capacity to the   *)
(* queue, places one task, or forgets a worker.                            *)

BooksInv ==
    /\ BooksSound(books)
    /\ EqualSizes => (unassigned # <<>> => Full(books))

Retries ==
    \E by, rest : \E b \in Books : \E u \in Seq(Task) :
        BooksSound(b) /\ Distinct(u) /\ RetryUnassignable(by, rest, b, u)

Places ==
    \E t \in Task : \E b \in {books, RemoveTask(books, t)} : \E w \in AssignTask(b, t) :
        IF w = NoWorker THEN unassigned' = Append(unassigned, t) /\ books' = b
        ELSE unassigned' = unassigned /\ books' = Assigned(b, t, w)

Forgets ==
    /\ unassigned' = unassigned
    /\ \E w \in Worker : books' = WithoutWorker(books, w, books.queue[w])

BooksStep == Retries \/ Places \/ Forgets \/ UNCHANGED <<books, unassigned>>

(* Each of them keeps the invariant.                                       *)
LEMMA BooksStepInv ==
    ASSUME Policy = "even_load", TypeOK, BooksInv, BooksStep
    PROVE  BooksInv'
  <1>1. books \in Books /\ unassigned \in Seq(Task) /\ BooksSound(books)
    BY DEF TypeOK, BooksInv
  <1>2. ASSUME Retries PROVE BooksInv'
    <2>0. PICK by, rest : \E b \in Books : \E u \in Seq(Task) :
             BooksSound(b) /\ Distinct(u) /\ RetryUnassignable(by, rest, b, u)
      BY <1>2 DEF Retries
    <2>1. PICK b \in Books, u \in Seq(Task) :
             BooksSound(b) /\ Distinct(u) /\ RetryUnassignable(by, rest, b, u)
      BY <2>0
    <2>2. BooksSound(books') /\ (EqualSizes => (unassigned' # <<>> => Full(books')))
      BY <2>1, RetryBooks
    <2> QED  BY <2>2 DEF BooksInv, BooksSound, Full, Load, EqualSizes
  <1>3. ASSUME Places PROVE BooksInv'
    <2>1. PICK t \in Task : \E b \in {books, RemoveTask(books, t)} :
             \E w \in AssignTask(b, t) :
                IF w = NoWorker THEN unassigned' = Append(unassigned, t) /\ books' = b
                ELSE unassigned' = unassigned /\ books' = Assigned(b, t, w)
      BY <1>3 DEF Places
    <2>2. PICK b \in {books, RemoveTask(books, t)} : \E w \in AssignTask(b, t) :
                IF w = NoWorker THEN unassigned' = Append(unassigned, t) /\ books' = b
                ELSE unassigned' = unassigned /\ books' = Assigned(b, t, w)
      BY <2>1
    <2>3. PICK w \in AssignTask(b, t) :
                IF w = NoWorker THEN unassigned' = Append(unassigned, t) /\ books' = b
                ELSE unassigned' = unassigned /\ books' = Assigned(b, t, w)
      BY <2>2
    <2>4. /\ b \in Books /\ BooksSound(b)
          /\ w = NoWorker /\ EqualSizes => Full(b)
          /\ w # NoWorker =>
                /\ BooksSound(Assigned(b, t, w))
                /\ Full(books) => Full(Assigned(b, t, w))
      BY <1>1, PlaceBooks
    <2>5. BooksSound(books') /\ (EqualSizes => (unassigned' # <<>> => Full(books')))
      BY <2>3, <2>4 DEF BooksInv
    <2> QED  BY <2>5 DEF BooksInv, BooksSound, Full, Load, EqualSizes
  <1>4. ASSUME Forgets PROVE BooksInv'
    <2>1. PICK w \in Worker : books' = WithoutWorker(books, w, books.queue[w])
      BY <1>4 DEF Forgets
    <2>2. BooksSound(books') /\ (Full(books) => Full(books'))
      BY <1>1, <2>1, WithoutWorkerSound
    <2>3. BooksSound(books') /\ (EqualSizes => (unassigned' # <<>> => Full(books')))
      BY <1>4, <2>2 DEF Forgets, BooksInv
    <2> QED  BY <2>3 DEF BooksInv, BooksSound, Full, Load, EqualSizes
  <1>5. ASSUME UNCHANGED <<books, unassigned>> PROVE BooksInv'
    BY <1>5 DEF BooksInv, BooksSound, Full, Load, EqualSizes
  <1> QED  BY <1>2, <1>3, <1>4, <1>5 DEF BooksStep

(* The router takes one of these steps.                                    *)
LEMMA RouteBooks ==
    ASSUME TypeOK, Distinct(unassigned), BooksSound(books), NEW by, NEW rest,
           NEW e \in Event, Route(by, rest, e)
    PROVE  BooksStep
  <1> DEFINE t == e.task
  <1>1. /\ t \in Task /\ e.kind \in EventKind
        /\ books \in Books /\ unassigned \in Seq(Task)
    BY DEF TypeOK, Event, EventKind, WorkerReported
  <1>2. /\ RemoveTask(books, t) \in Books /\ BooksSound(RemoveTask(books, t))
        /\ Without(unassigned, t) \in Seq(Task) /\ Distinct(Without(unassigned, t))
    BY <1>1, RemoveTaskSound, RemoveTaskType, WithoutType, WithoutQueue
  <1> HIDE DEF t
  <1>3. ASSUME NEW owners, NEW by2, NEW outcome, NEW b \in {books, RemoveTask(books, t)},
               NEW u \in {unassigned, Without(unassigned, t)},
               SettleFor(owners, by2, rest, t, outcome, b, u)
        PROVE  BooksStep
    <2>1. b \in Books /\ BooksSound(b) /\ u \in Seq(Task) /\ Distinct(u)
      BY <1>1, <1>2
    <2> QED  BY <1>3, <2>1 DEF SettleFor, BooksStep, Retries
  <1>4. ASSUME Teardown(by, rest, t, books) PROVE BooksStep
    BY <1>2, <1>4 DEF Teardown, BooksStep, Retries
  <1>5. ASSUME NEW b \in {books, RemoveTask(books, t)}, AcquireAndDispatch(rest, t, b)
        PROVE  BooksStep
    BY <1>1, <1>5 DEF AcquireAndDispatch, BooksStep, Places
  <1>6. ASSUME NEW s, Become(rest, t, s) PROVE BooksStep
    BY <1>6 DEF Become, BooksStep
  <1>7. ASSUME Refuse(rest) PROVE BooksStep
    BY <1>7 DEF Refuse, BooksStep
  <1>8. ASSUME Arm(by, rest, e) PROVE BooksStep
    <2>1. CASE e.kind = "HasCapacity"
      BY <1>6, <1>7, <1>8, <2>1 DEF Arm, OnHasCapacity, t
    <2>2. CASE e.kind = "TaskCancelRequested"
      <3>1. OnTaskCancel(by, rest, e)
        BY <1>8, <2>2 DEF Arm
      <3>2. CASE state[t] = "inactive" /\ InQueue(t, unassigned)
        BY <1>3, <3>1, <3>2 DEF OnTaskCancel, Settle, t
      <3>3. CASE state[t] = "inactive" /\ ~ InQueue(t, unassigned)
        BY <1>3, <3>1, <3>3 DEF OnTaskCancel, Settle, t
      <3>4. CASE state[t] = "running" /\ books.holder[t] # NoWorker
        BY <1>6, <3>1, <3>4 DEF OnTaskCancel, t
      <3>5. CASE state[t] = "running" /\ books.holder[t] = NoWorker
        BY <1>3, <3>1, <3>5 DEF OnTaskCancel, t
      <3>6. CASE state[t] = "balanceCanceling"
        BY <1>6, <3>1, <3>6 DEF OnTaskCancel, t
      <3>7. CASE state[t] \notin {"inactive", "running", "balanceCanceling"}
        BY <1>7, <3>1, <3>7 DEF OnTaskCancel, t
      <3> QED  BY <3>2, <3>3, <3>4, <3>5, <3>6, <3>7
    <2>3. CASE e.kind = "BalanceCancelRequested"
      BY <1>6, <1>7, <1>8, <2>3 DEF Arm, OnBalanceTaskCancel, t
    <2>4. CASE e.kind = "TaskResultReceived"
      BY <1>3, <1>7, <1>8, <2>4 DEF Arm, OnTaskResult, Settle, t
    <2>5. ASSUME NEW outcome, OnCancelConfirm(by, rest, e, outcome) PROVE BooksStep
      <3>1. CASE state[t] = "canceling"
        BY <1>3, <2>5, <3>1 DEF OnCancelConfirm, Settle, t
      <3>2. CASE state[t] = "balanceCanceling"
        BY <1>5, <2>5, <3>2 DEF OnCancelConfirm, t
      <3>3. CASE state[t] \notin {"canceling", "balanceCanceling"}
        BY <1>7, <2>5, <3>3 DEF OnCancelConfirm, t
      <3> QED  BY <3>1, <3>2, <3>3
    <2>6. CASE e.kind \in {"CancelConfirmCanceled", "CancelConfirmNotFound"}
      BY <1>8, <2>5, <2>6 DEF Arm
    <2>7. CASE e.kind = "CancelConfirmFailed"
      BY <1>6, <1>7, <1>8, <2>7 DEF Arm, OnCancelConfirmFailed, t
    <2>8. CASE e.kind = "WorkerDisconnected"
      <3>1. OnWorkerDisconnect(by, rest, e)
        BY <1>8, <2>8 DEF Arm
      <3>2. CASE state[t] \in {"running", "balanceCanceling"}
        BY <1>5, <3>1, <3>2 DEF OnWorkerDisconnect, t
      <3>3. CASE state[t] = "canceling"
        BY <1>3, <3>1, <3>3 DEF OnWorkerDisconnect, Settle, t
      <3>4. CASE state[t] \notin {"running", "balanceCanceling", "canceling"}
        BY <1>7, <3>1, <3>4 DEF OnWorkerDisconnect, t
      <3> QED  BY <3>2, <3>3, <3>4
    <2> QED  BY <1>1, <2>1, <2>2, <2>3, <2>4, <2>6, <2>7, <2>8 DEF EventKind, WorkerReported
  <1>9. ASSUME Fault(by, rest, e) PROVE BooksStep
    BY <1>4, <1>9 DEF Fault, BooksStep, t
  <1> QED  BY <1>7, <1>8, <1>9 DEF Route

(* remove_worker never raises: a worker that is disconnected is forgotten. *)
LEMMA DisconnectBooks ==
    ASSUME TypeOK, BooksSound(books), NEW c, NEW w \in Worker, DisconnectWorker(c, w),
           UNCHANGED unassigned
    PROVE  BooksStep
  <1>1. ~ RemoveWorkerRaises(books, w)
    BY WithoutWorkerSound DEF TypeOK
  <1> QED  BY <1>1 DEF DisconnectWorker, BooksStep, Forgets

(* Every step of the scheduler and its environment is one of them.         *)
LEMMA NextBooks ==
    ASSUME TypeOK, QueueInv, BooksSound(books), [Next]_vars
    PROVE  BooksStep
  <1>1. /\ Distinct(unassigned) /\ unassigned \in Seq(Task) /\ books \in Books
        /\ calls \in [Coroutine -> SUBSET Event] /\ grants \in SUBSET Grant
        /\ alive \subseteq Worker /\ dead \subseteq Worker
    BY DEF TypeOK, QueueInv, Sound
  <1>2. ASSUME UNCHANGED <<books, unassigned>> PROVE BooksStep
    BY <1>2 DEF BooksStep
  <1>3. ASSUME NEW c, NEW w \in Worker, DisconnectWorker(c, w), UNCHANGED unassigned
        PROVE  BooksStep
    BY <1>3, DisconnectBooks
  <1>4. ASSUME NEW w \in Worker, NEW rest, CleanWorker(w, rest), UNCHANGED unassigned
        PROVE  BooksStep
    BY <1>2, <1>3, <1>4 DEF CleanWorker
  <1>5. ASSUME Loop PROVE BooksStep
    <2>1. ASSUME NEW c \in Coroutine, NEW e \in calls[c], RouteCall(c, e) PROVE BooksStep
      <3>1. e \in Event /\ Route(c, grants, e)
        BY <1>1, <2>1 DEF RouteCall
      <3> QED  BY <1>1, <3>1, RouteBooks
    <2>2. ASSUME NEW c \in Coroutine, NEW e \in calls[c], CancelOfEndedTask(c, e)
          PROVE  BooksStep
      BY <1>2, <2>2 DEF CancelOfEndedTask
    <2>3. ASSUME NEW g \in grants, RouteGrant(g) PROVE BooksStep
      <3> DEFINE e == NewEvent("HasCapacity", g.task, g.worker, "none")
      <3>1. g \in Grant
        BY <1>1
      <3>2. e \in Event
        BY <3>1 DEF Grant, NewEvent, Event, EventKind, WorkerReported
      <3>3. Route(g.by, grants \ {g}, e)
        BY <2>3 DEF RouteGrant
      <3> HIDE DEF e
      <3> QED  BY <1>1, <3>2, <3>3, RouteBooks
    <2>4. ASSUME NEW t \in Task, Commit(t) PROVE BooksStep
      BY <1>2, <2>4 DEF Commit
    <2>5. ASSUME NEW t \in Task, FaultReported(t) PROVE BooksStep
      <3>1. /\ RemoveTask(books, t) \in Books /\ BooksSound(RemoveTask(books, t))
            /\ Without(unassigned, t) \in Seq(Task) /\ Distinct(Without(unassigned, t))
        BY <1>1, RemoveTaskSound, RemoveTaskType, WithoutType, WithoutQueue
      <3> QED  BY <2>5, <3>1 DEF FaultReported, Teardown, BooksStep, Retries
    <2>6. ASSUME WorkerConnected PROVE BooksStep
      BY <1>2, <2>6 DEF WorkerConnected, task
    <2>7. ASSUME NEW w \in dead, CleanNextWorker(w) PROVE BooksStep
      BY <1>1, <1>4, <2>7 DEF CleanNextWorker, task
    <2> QED  BY <1>5, <2>1, <2>2, <2>3, <2>4, <2>5, <2>6, <2>7 DEF Loop
  <1>6. ASSUME Environment PROVE BooksStep
    <2>1. ASSUME NEW t \in Task, OnTaskNew(t) PROVE BooksStep
      BY <2>1 DEF OnTaskNew, BooksStep, Places
    <2>2. ASSUME NEW t \in Task, ReceiveTaskCancel(t) PROVE BooksStep
      BY <1>2, <2>2 DEF ReceiveTaskCancel
    <2>3. ASSUME NEW w \in Worker, ReceiveReport(w) PROVE BooksStep
      BY <1>2, <2>3 DEF ReceiveReport, task
    <2>4. ASSUME NEW w \in Worker, OnHeartbeat(w) PROVE BooksStep
      <3>1. AddWorker(books, w) \in Books /\ BooksSound(AddWorker(books, w))
        BY <1>1, AddWorkerSound, AddWorkerType
      <3> QED  BY <1>1, <2>4, <3>1 DEF OnHeartbeat, BooksStep, Retries
    <2>5. ASSUME NEW w \in Worker, OnDisconnectNotification(w) PROVE BooksStep
      BY <1>2, <1>3, <2>5 DEF OnDisconnectNotification, task
    <2>6. ASSUME NEW w \in Worker, Crash(w) \/ Leave(w) PROVE BooksStep
      BY <1>2, <2>6 DEF Crash, Leave, task
    <2>7. ASSUME NEW late \in SUBSET alive, CleanWorkers(late) PROVE BooksStep
      BY <1>1, <1>4, <2>7 DEF CleanWorkers, task
    <2>8. ASSUME NEW c \in Coroutine, CancelClientAllTasks(c) PROVE BooksStep
      BY <1>2, <2>8 DEF CancelClientAllTasks, task
    <2>9. ASSUME NEW advice, Balance(advice) PROVE BooksStep
      BY <1>2, <2>9 DEF Balance, task
    <2>10. ASSUME NEW w \in Worker, NEW t \in Task,
                  Start(w, t) \/ \E r \in Results : Finish(w, t, r)
           PROVE  BooksStep
      BY <1>2, <2>10 DEF Start, Finish, task
    <2> QED  BY <1>6, <2>1, <2>2, <2>3, <2>4, <2>5, <2>6, <2>7, <2>8, <2>9, <2>10
             DEF Environment
  <1>7. ASSUME Quiet \/ UNCHANGED vars PROVE BooksStep
    BY <1>2, <1>7 DEF Quiet, vars, task
  <1> QED  BY <1>5, <1>6, <1>7 DEF Next

-----------------------------------------------------------------------------
(* The empty books are sound.                                              *)
LEMMA InitBooks == Init => BooksInv
  <1> SUFFICES ASSUME Init PROVE BooksInv
    OBVIOUS
  <1>1. /\ \A t \in Task : books.holder[t] = NoWorker
        /\ \A w \in Worker : books.queue[w] = {}
        /\ unassigned = <<>>
    BY DEF Init, NoBooks
  <1>2. \A w \in Worker : IsFiniteSet(books.queue[w]) /\ Load(books, w) = 0
    BY <1>1, FS_EmptySet DEF Load
  <1> QED  BY <1>1, <1>2, QueueAssumption DEF BooksInv, BooksSound

(* What the invariant says in the terms of the model's properties.         *)
LEMMA BooksInvImplies ==
    ASSUME TypeOK, BooksInv
    PROVE  /\ BooksAgree /\ SlotsAgree
           /\ EqualSizes => WorkConserving
  BY DEF BooksInv, BooksSound, Full, BooksAgree, SlotsAgree, WorkConserving, Placed

(* Under even_load the invariant holds in every reachable state.           *)
LEMMA BooksInvCorrect ==
    ASSUME Policy = "even_load"
    PROVE  Spec => [](TypeOK /\ BooksInv)
  <1>1. TypeOK /\ QueueInv /\ BooksInv /\ [Next]_vars => BooksInv'
    <2> SUFFICES ASSUME TypeOK, QueueInv, BooksInv, [Next]_vars PROVE BooksInv'
      OBVIOUS
    <2>1. BooksStep
      BY NextBooks DEF BooksInv
    <2> QED  BY <2>1, BooksStepInv
  <1> QED  BY <1>1, InitBooks, TypeCorrect, QueueInvCorrect, PTL DEF Spec

(* even_load keeps its dictionaries in agreement, in both directions, and  *)
(* within the queue sizes the workers report, whatever order messages,     *)
(* timers, crashes and faults come in: no slot is counted for a worker     *)
(* that does not have the task, and no task is placed on two workers.      *)
THEOREM EvenLoadBooks ==
    ASSUME Policy = "even_load"
    PROVE  Spec => [](BooksAgree /\ SlotsAgree)
  <1>1. TypeOK /\ BooksInv => BooksAgree /\ SlotsAgree
    BY BooksInvImplies
  <1> QED  BY <1>1, BooksInvCorrect, PTL

(* With even_load and equal queue sizes no worker has room while a task is *)
(* on hold: each handler that frees a slot gives it away before it ends.   *)
THEOREM EvenLoadConserves ==
    ASSUME Policy = "even_load", EqualSizes
    PROVE  Spec => []WorkConserving
  <1>1. TypeOK /\ BooksInv => WorkConserving
    BY BooksInvImplies
  <1> QED  BY <1>1, BooksInvCorrect, PTL

-----------------------------------------------------------------------------
(***************************************************************************)
(* The slots of either policy while no load is balanced.  A slot is taken  *)
(* only for a task that has not ended and does not wait for one, and the   *)
(* dictionaries agree under the capability policy too: assign_task, which  *)
(* places a task that is already placed once more, never meets one.        *)
(*                                                                         *)
(* The argument is about the tasks of a worker that is lost.  Between the  *)
(* moment the books forget the worker and the moment WorkerDisconnected is *)
(* routed, such a task has neither a worker nor a place in the queue, and  *)
(* only that event may give it one; so it is lost once, and the event      *)
(* finds it without a worker.  A balance round breaks this: the confirm of *)
(* its cancel places the task first.                                       *)
(***************************************************************************)

(* The balance timer is off or has no round to make.                       *)
Unbalanced == "balanceTimer" \notin Timers \/ Limit["round"] = 0

(* A task that holds a slot has neither ended nor does it wait for one.    *)
SlotOf(t, b, st, tr, u) ==
    /\ b.holder[t] # NoWorker =>
          /\ st[t] \in {"inactive", "running", "canceling"}
          /\ tr[t].target \in {"none", "reporting"}
          /\ ~ InQueue(t, u)
    /\ st[t] # "balanceCanceling"

(* Neither a worker nor a place in the queue.                              *)
Loose(t, b, st, u) == b.holder[t] = NoWorker /\ ~ InQueue(t, u) /\ st[t] # "new"

IsLoss(e) == e.kind = "WorkerDisconnected"

LossesLoose ==
    \A c \in Coroutine : \A e \in calls[c] :
        /\ IsLoss(e) => Loose(e.task, books, state, unassigned)
        /\ e.kind # "BalanceCancelRequested"

LostOnce ==
    \A c, d \in Coroutine : \A e \in calls[c], f \in calls[d] :
        IsLoss(e) /\ IsLoss(f) /\ e.task = f.task => c = d /\ e = f

NoRounds == "balanceTimer" \in Timers => budget["round"] = 0

SlotInv ==
    /\ BooksSound(books)
    /\ \A t \in Task : SlotOf(t, books, state, transit, unassigned)
    /\ LossesLoose /\ LostOnce /\ NoRounds

(* What another task's transition does to x: nothing, or x is taken off    *)
(* the queue and given a worker.                                           *)
Passes(x, b, u, c, v) ==
    \/ c.holder[x] = b.holder[x] /\ (InQueue(x, v) <=> InQueue(x, u))
    \/ InQueue(x, u) /\ ~ InQueue(x, v)

(* __retry_unassignable for either policy.                                 *)
LEMMA RetrySlots ==
    ASSUME NEW by, NEW rest, NEW b \in Books, BooksSound(b), NEW u \in Seq(Task), Distinct(u),
           \A t \in Task : InQueue(t, u) => b.holder[t] = NoWorker,
           RetryUnassignable(by, rest, b, u)
    PROVE  /\ BooksSound(books')
           /\ \A x \in Task : Passes(x, b, u, books', unassigned')
  <1>1. PICK k \in 0..Len(u) : \E f \in [1..k -> Worker] :
            /\ AcquireWorkers(b, u, f, k)
            /\ books' = Granted(b, u, f, k)
            /\ unassigned' = SubSeq(u, k + 1, Len(u))
    BY DEF RetryUnassignable
  <1>2. PICK f \in [1..k -> Worker] :
            /\ AcquireWorkers(b, u, f, k)
            /\ books' = Granted(b, u, f, k)
            /\ unassigned' = SubSeq(u, k + 1, Len(u))
    BY <1>1
  <1>3. BooksSound(books')
    <2>1. \A t \in Task : InQueue(t, u) => MayAssign(b, t)
      BY DEF MayAssign
    <2> QED  BY <1>2, <2>1, GrantedSound DEF AcquireWorkers
  <1> DEFINE v == SubSeq(u, k + 1, Len(u))
  <1>4. /\ DOMAIN u = 1..Len(u) /\ Len(u) \in Nat /\ k \in Nat /\ k <= Len(u)
        /\ DOMAIN v = 1..(Len(u) - k) /\ \A j \in 1..(Len(u) - k) : v[j] = u[j + k]
    OBVIOUS
  <1> HIDE DEF v
  <1>5. ASSUME NEW x \in Task
        PROVE  Passes(x, b, u, books', unassigned')
    <2>1. CASE \E j \in 1..k : u[j] = x
      <3>1. PICK j \in 1..k : u[j] = x
        BY <2>1
      <3>2. j \in DOMAIN u
        BY <1>4
      <3>3. InQueue(x, u)
        BY <3>1, <3>2 DEF InQueue
      <3>4. ASSUME InQueue(x, v) PROVE FALSE
        <4>1. PICK i \in 1..(Len(u) - k) : u[i + k] = x
          BY <1>4, <3>4 DEF InQueue
        <4>2. i + k \in DOMAIN u /\ i + k # j
          BY <1>4
        <4> QED  BY <3>1, <3>2, <4>1, <4>2 DEF Distinct
      <3> QED  BY <1>2, <3>3, <3>4 DEF Passes, v
    <2>2. CASE ~ \E j \in 1..k : u[j] = x
      <3>1. books'.holder[x] = b.holder[x]
        BY <1>2, <2>2 DEF Granted
      <3>2. InQueue(x, v) => InQueue(x, u)
        <4> SUFFICES ASSUME InQueue(x, v) PROVE InQueue(x, u)
          OBVIOUS
        <4>1. PICK i \in 1..(Len(u) - k) : u[i + k] = x
          BY <1>4 DEF InQueue
        <4>2. i + k \in DOMAIN u
          BY <1>4
        <4> QED  BY <4>1, <4>2 DEF InQueue
      <3>3. InQueue(x, u) => InQueue(x, v)
        <4> SUFFICES ASSUME InQueue(x, u) PROVE InQueue(x, v)
          OBVIOUS
        <4>1. PICK j \in 1..Len(u) : u[j] = x
          BY <1>4 DEF InQueue
        <4>2. j \notin 1..k
          BY <2>2, <4>1
        <4>3. j - k \in 1..(Len(u) - k)
          BY <1>4, <4>2
        <4>4. v[j - k] = x
          BY <1>4, <4>1, <4>3
        <4> QED  BY <1>4, <4>3, <4>4 DEF InQueue
      <3> QED  BY <1>2, <3>1, <3>2, <3>3 DEF Passes, v
    <2> QED  BY <2>1, <2>2
  <1> QED  BY <1>3, <1>5

-----------------------------------------------------------------------------
(* The router.                                                             *)

(* A transition of t: t has its slot rightly or none, what it releases     *)
(* goes to tasks of the queue, and other machines are left alone.          *)
Turn(t) ==
    /\ BooksSound(books')
    /\ \A x \in Task \ {t} : /\ state'[x] = state[x] /\ transit'[x] = transit[x]
                             /\ Passes(x, books, unassigned, books', unassigned')
    /\ SlotOf(t, books', state', transit', unassigned')

LooseNow(t)  == Loose(t, books, state, unassigned)
LooseNext(t) == Loose(t, books', state', unassigned')

(* The books b and the queue u differ from the present ones in t only,     *)
(* which has neither.                                                      *)
Released(t, b, u) ==
    /\ b \in Books /\ BooksSound(b) /\ u \in Seq(Task) /\ Distinct(u)
    /\ \A x \in Task \ {t} : /\ b.holder[x] = books.holder[x]
                             /\ InQueue(x, u) <=> InQueue(x, unassigned)
    /\ b.holder[t] = NoWorker /\ ~ InQueue(t, u)

(* remove_task, and leaving the queue, release a task.                     *)
LEMMA ReleasedBy ==
    ASSUME TypeOK, QueueInv, SlotInv, NEW t \in Task
    PROVE  /\ ~ InQueue(t, unassigned) => Released(t, RemoveTask(books, t), unassigned)
           /\ Released(t, RemoveTask(books, t), Without(unassigned, t))
           /\ books.holder[t] = NoWorker =>
                 /\ Released(t, books, Without(unassigned, t))
                 /\ ~ InQueue(t, unassigned) => Released(t, books, unassigned)
  <1>1. /\ books \in Books /\ BooksSound(books) /\ unassigned \in Seq(Task) /\ Distinct(unassigned)
    BY DEF TypeOK, SlotInv, QueueInv, Sound
  <1>2. PICK r \in Books : r = RemoveTask(books, t)
    BY <1>1, RemoveTaskType
  <1>3. BooksSound(r)
    BY <1>1, <1>2, RemoveTaskSound
  <1>4. \A x \in Task : r.holder[x] = IF x = t THEN NoWorker ELSE books.holder[x]
    <2>1. CASE books.holder[t] = NoWorker
      BY <1>2, <2>1 DEF RemoveTask
    <2>2. CASE books.holder[t] # NoWorker
      BY <1>1, <1>2, <2>2, RemoveTaskEffect
    <2> QED  BY <2>1, <2>2
  <1>5. PICK v \in Seq(Task) : v = Without(unassigned, t)
    BY <1>1, WithoutType
  <1>6. Distinct(v) /\ \A x \in Task : InQueue(x, v) <=> InQueue(x, unassigned) /\ x # t
    BY <1>1, <1>5, WithoutQueue
  <1> QED  BY <1>1, <1>2, <1>3, <1>4, <1>5, <1>6 DEF Released

(* What a released slot becomes.                                           *)
LEMMA ReleaseSlots ==
    ASSUME TypeOK, QueueInv, SlotInv, NEW t \in Task, NEW b, NEW u, Released(t, b, u),
           NEW by, NEW rest, RetryUnassignable(by, rest, b, u)
    PROVE  /\ BooksSound(books') /\ books'.holder[t] = NoWorker /\ ~ InQueue(t, unassigned')
           /\ \A x \in Task \ {t} : Passes(x, books, unassigned, books', unassigned')
  <1>1. b \in Books /\ BooksSound(b) /\ u \in Seq(Task) /\ Distinct(u)
    BY DEF Released
  <1>2. \A x \in Task : InQueue(x, u) => b.holder[x] = NoWorker
    BY DEF Released, SlotInv, SlotOf
  <1>3. BooksSound(books') /\ \A x \in Task : Passes(x, b, u, books', unassigned')
    BY <1>1, <1>2, RetrySlots
  <1> QED  BY <1>3 DEF Passes, Released

(* A terminal arm.                                                         *)
LEMMA SettleSlots ==
    ASSUME TypeOK, QueueInv, SlotInv, NEW t \in Task, NEW b, NEW u, Released(t, b, u),
           state[t] # "new", NEW owners, NEW by, NEW rest, NEW outcome \in Terminal,
           SettleFor(owners, by, rest, t, outcome, b, u)
    PROVE  Turn(t) /\ LooseNext(t)
  <1>1. /\ BooksSound(books') /\ books'.holder[t] = NoWorker /\ ~ InQueue(t, unassigned')
        /\ \A x \in Task \ {t} : Passes(x, books, unassigned, books', unassigned')
    BY ReleaseSlots DEF SettleFor
  <1>2. state \in [Task -> TaskState] /\ transit \in [Task -> Transit]
    BY DEF TypeOK
  <1>3. \A x \in Task \ {t} : state'[x] = state[x] /\ transit'[x] = transit[x]
    BY <1>2 DEF SettleFor
  <1>4. state'[t] # "balanceCanceling" /\ state'[t] # "new"
    BY <1>2 DEF SettleFor, Terminal, ResultType, SlotInv, SlotOf
  <1> QED  BY <1>1, <1>3, <1>4 DEF Turn, LooseNext, Loose, SlotOf

(* The end of the fault path.                                              *)
LEMMA TeardownSlots ==
    ASSUME TypeOK, QueueInv, SlotInv, NEW t \in Task, NEW by, NEW rest,
           Teardown(by, rest, t, books)
    PROVE  Turn(t) /\ LooseNext(t)
  <1>1. Released(t, RemoveTask(books, t), Without(unassigned, t))
    BY ReleasedBy
  <1>2. PICK b, u : b = RemoveTask(books, t) /\ u = Without(unassigned, t)
    OBVIOUS
  <1>3. RetryUnassignable(t, rest, b, u)
    BY <1>2 DEF Teardown
  <1>4. /\ BooksSound(books') /\ books'.holder[t] = NoWorker /\ ~ InQueue(t, unassigned')
        /\ \A x \in Task \ {t} : Passes(x, books, unassigned, books', unassigned')
    BY <1>1, <1>2, <1>3, ReleaseSlots
  <1>5. state \in [Task -> TaskState] /\ transit \in [Task -> Transit]
    BY DEF TypeOK
  <1>6. /\ \A x \in Task \ {t} : state'[x] = state[x] /\ transit'[x] = transit[x]
        /\ state'[t] = "failed"
    BY <1>5 DEF Teardown
  <1> QED  BY <1>4, <1>6 DEF Turn, LooseNext, Loose, SlotOf

(* A step that leaves books, queue and transitions alone.                  *)
LEMMA StaySlots ==
    ASSUME TypeOK, SlotInv, NEW t \in Task, UNCHANGED <<books, unassigned, transit>>,
           \/ UNCHANGED state
           \/ state[t] # "new" /\ \E s \in {"running", "canceling"} : state' = [state EXCEPT ![t] = s]
    PROVE  Turn(t) /\ (LooseNow(t) => LooseNext(t))
  <1>1. state \in [Task -> TaskState] /\ BooksSound(books) /\ BooksSound(books')
    BY DEF TypeOK, SlotInv
  <1>2. \A x \in Task : Passes(x, books, unassigned, books', unassigned')
    BY DEF Passes
  <1>3. \A x \in Task \ {t} : state'[x] = state[x] /\ transit'[x] = transit[x]
    BY <1>1
  <1>4. state'[t] = state[t] \/ state'[t] \in {"running", "canceling"}
    BY <1>1
  <1>5. SlotOf(t, books, state, transit, unassigned)
    BY DEF SlotInv
  <1>6. SlotOf(t, books', state', transit', unassigned')
    BY <1>4, <1>5 DEF SlotOf
  <1>7. LooseNow(t) => LooseNext(t)
    BY <1>4 DEF LooseNow, LooseNext, Loose
  <1> QED  BY <1>1, <1>2, <1>3, <1>6, <1>7 DEF Turn

(* __acquire_and_dispatch of a task whose worker is lost.                  *)
LEMMA DispatchSlots ==
    ASSUME TypeOK, QueueInv, SlotInv, NEW t \in Task, LooseNow(t), transit[t] = NoTransit,
           NEW rest, AcquireAndDispatch(rest, t, books)
    PROVE  Turn(t)
  <1>1. /\ books \in Books /\ BooksSound(books) /\ unassigned \in Seq(Task)
        /\ state \in [Task -> TaskState] /\ books.holder[t] = NoWorker /\ ~ InQueue(t, unassigned)
    BY DEF TypeOK, SlotInv, LooseNow, Loose
  <1>2. PICK w \in AssignTask(books, t) :
          /\ IF w = NoWorker
             THEN /\ unassigned' = Append(unassigned, t)
                  /\ books' = books
                  /\ state' = [state EXCEPT ![t] = "inactive"]
             ELSE /\ books' = Assigned(books, t, w)
                  /\ state' = [state EXCEPT ![t] = "running"]
                  /\ UNCHANGED unassigned
          /\ UNCHANGED transit
    BY DEF AcquireAndDispatch
  <1>3. \A x \in Task \ {t} : state'[x] = state[x] /\ transit'[x] = transit[x]
    BY <1>1, <1>2
  <1>4. CASE w = NoWorker
    <2>0. unassigned' = Append(unassigned, t)
      BY <1>2, <1>4
    <2>1. \A x \in Task : InQueue(x, unassigned') <=> InQueue(x, unassigned) \/ x = t
      <3>1. \A x \in Task : InQueue(x, Append(unassigned, t)) <=> InQueue(x, unassigned) \/ x = t
        BY <1>1, AppendQueue
      <3> QED  BY <2>0, <3>1
    <2>2. state'[t] = "inactive" /\ books' = books
      BY <1>1, <1>2, <1>4
    <2> QED  BY <1>1, <1>3, <2>1, <2>2 DEF Turn, Passes, SlotOf
  <1>5. CASE w # NoWorker
    <2>1. MayAssign(books, t)
      BY <1>1 DEF MayAssign
    <2>2. w \in Worker /\ BooksSound(Assigned(books, t, w))
      BY <1>1, <1>5, <2>1, AssignTaskRoom, AssignedSound
    <2>3. \A x \in Task : books'.holder[x] = IF x = t THEN w ELSE books.holder[x]
      BY <1>1, <1>2, <1>5, <2>2, AssignedEffect
    <2>4. state'[t] = "running" /\ books' = Assigned(books, t, w) /\ unassigned' = unassigned
      BY <1>1, <1>2, <1>5
    <2>5. transit'[t].target = "none"
      BY <1>2 DEF NoTransit
    <2> QED  BY <1>1, <1>3, <2>2, <2>3, <2>4, <2>5 DEF Turn, Passes, SlotOf
  <1> QED  BY <1>4, <1>5

(* The arms.                                                               *)
LEMMA ArmSlots ==
    ASSUME TypeOK, QueueInv, SlotInv, NEW e \in Event, transit[e.task] = NoTransit,
           e.kind # "BalanceCancelRequested", IsLoss(e) => LooseNow(e.task),
           state[e.task] \in LiveState, NEW by, NEW rest, Arm(by, rest, e)
    PROVE  Turn(e.task) /\ (LooseNow(e.task) /\ ~ IsLoss(e) => LooseNext(e.task))
  <1>1. PICK t \in Task : t = e.task
    BY DEF Event
  <1>2. state[t] # "new" /\ state[t] # "balanceCanceling" /\ e.kind \in EventKind
    BY <1>1 DEF LiveState, SlotInv, SlotOf, Event, EventKind, WorkerReported
  <1>3. /\ InQueue(t, unassigned) => state[t] = "inactive"
        /\ InQueue(t, unassigned) => books.holder[t] = NoWorker
    BY <1>1 DEF QueueInv, Sound, SlotInv, SlotOf
  <1> DEFINE G == Turn(t) /\ (LooseNow(t) /\ ~ IsLoss(e) => LooseNext(t))
  <1> SUFFICES G
    BY <1>1
  <1>4. ASSUME NEW s \in {"running", "canceling"}, Become(rest, t, s)
        PROVE  G
    BY <1>2, <1>4, StaySlots DEF Become
  <1>5. ASSUME Refuse(rest)
        PROVE  G
    BY <1>5, StaySlots DEF Refuse
  <1>6. ASSUME NEW b, NEW u, Released(t, b, u), NEW owners, NEW outcome \in Terminal,
               SettleFor(owners, by, rest, t, outcome, b, u)
        PROVE  G
    BY <1>2, <1>6, SettleSlots
  <1>7. \A outcome \in {"canceled", "canceledNotFound"} : outcome \in Terminal
    BY DEF Terminal
  <1> HIDE DEF G
  <1>8. CASE e.kind = "HasCapacity"
    BY <1>1, <1>4, <1>5, <1>8 DEF Arm, OnHasCapacity
  <1>9. CASE e.kind = "TaskCancelRequested"
    <2>1. OnTaskCancel(by, rest, e)
      BY <1>9 DEF Arm
    <2>2. CASE state[t] = "inactive" /\ InQueue(t, unassigned)
      <3>1. Settle(by, rest, t, "canceled", books, Without(unassigned, t))
        BY <1>1, <2>1, <2>2 DEF OnTaskCancel
      <3>2. PICK b, u : b = books /\ u = Without(unassigned, t)
        OBVIOUS
      <3>3. Released(t, b, u)
        BY <1>3, <2>2, <3>2, ReleasedBy
      <3>4. PICK o : o = owned
        OBVIOUS
      <3>5. SettleFor(o, by, rest, t, "canceled", b, u)
        BY <3>1, <3>2, <3>4 DEF Settle
      <3> QED  BY <1>6, <1>7, <3>3, <3>5
    <2>3. CASE state[t] = "inactive" /\ ~ InQueue(t, unassigned)
      <3>1. Settle(by, rest, t, "canceled", RemoveTask(books, t), unassigned)
        BY <1>1, <2>1, <2>3 DEF OnTaskCancel
      <3>2. PICK b, u : b = RemoveTask(books, t) /\ u = unassigned
        OBVIOUS
      <3>3. Released(t, b, u)
        BY <2>3, <3>2, ReleasedBy
      <3>4. PICK o : o = owned
        OBVIOUS
      <3>5. SettleFor(o, by, rest, t, "canceled", b, u)
        BY <3>1, <3>2, <3>4 DEF Settle
      <3> QED  BY <1>6, <1>7, <3>3, <3>5
    <2>4. CASE state[t] = "running" /\ books.holder[t] # NoWorker
      <3>1. Become(rest, t, "canceling")
        BY <1>1, <2>1, <2>4 DEF OnTaskCancel
      <3> QED  BY <1>4, <3>1
    <2>5. CASE state[t] = "running" /\ books.holder[t] = NoWorker
      <3>1. SettleFor(owned \cup {t}, by, rest, t, "canceledNotFound", books, unassigned)
        BY <1>1, <2>1, <2>5 DEF OnTaskCancel
      <3>2. PICK b, u, o : b = books /\ u = unassigned /\ o = owned \cup {t}
        OBVIOUS
      <3>3. Released(t, b, u)
        BY <1>3, <2>5, <3>2, ReleasedBy
      <3>4. SettleFor(o, by, rest, t, "canceledNotFound", b, u)
        BY <3>1, <3>2
      <3> QED  BY <1>6, <1>7, <3>3, <3>4
    <2>6. CASE state[t] \notin {"inactive", "running", "balanceCanceling"}
      BY <1>1, <1>5, <2>1, <2>6 DEF OnTaskCancel
    <2> QED  BY <1>2, <2>2, <2>3, <2>4, <2>5, <2>6
  <1>10. ASSUME NEW outcome \in Terminal, state[t] \in {"running", "canceling"},
                Settle(by, rest, t, outcome, RemoveTask(books, t), unassigned)
         PROVE  G
    <2>1. PICK b, u, o : b = RemoveTask(books, t) /\ u = unassigned /\ o = owned
      OBVIOUS
    <2>2. Released(t, b, u)
      BY <1>3, <1>10, <2>1, ReleasedBy
    <2>3. SettleFor(o, by, rest, t, outcome, b, u)
      BY <1>10, <2>1 DEF Settle
    <2> QED  BY <1>6, <2>2, <2>3
  <1>11. CASE e.kind = "TaskResultReceived"
    <2>1. e.arg \in Terminal
      BY <1>11 DEF Event, EventKind, Terminal
    <2>2. CASE state[t] = "running"
      <3>1. Settle(by, rest, t, e.arg, RemoveTask(books, t), unassigned)
        BY <1>1, <1>11, <2>2 DEF Arm, OnTaskResult
      <3> QED  BY <1>10, <2>1, <2>2, <3>1
    <2>3. CASE state[t] # "running"
      BY <1>1, <1>2, <1>5, <1>11, <2>3 DEF Arm, OnTaskResult
    <2> QED  BY <2>2, <2>3
  <1>12. ASSUME NEW outcome \in Terminal, OnCancelConfirm(by, rest, e, outcome)
         PROVE  G
    <2>1. CASE state[t] = "canceling"
      <3>1. Settle(by, rest, t, outcome, RemoveTask(books, t), unassigned)
        BY <1>1, <1>12, <2>1 DEF OnCancelConfirm
      <3> QED  BY <1>10, <2>1, <3>1
    <2>2. CASE state[t] # "canceling"
      BY <1>1, <1>2, <1>5, <1>12, <2>2 DEF OnCancelConfirm
    <2> QED  BY <2>1, <2>2
  <1>13. CASE e.kind \in {"CancelConfirmCanceled", "CancelConfirmNotFound"}
    BY <1>7, <1>12, <1>13 DEF Arm
  <1>14. CASE e.kind = "CancelConfirmFailed"
    BY <1>1, <1>4, <1>5, <1>14 DEF Arm, OnCancelConfirmFailed
  <1>15. CASE e.kind = "WorkerDisconnected"
    <2>1. OnWorkerDisconnect(by, rest, e) /\ LooseNow(t) /\ IsLoss(e)
      BY <1>1, <1>15 DEF Arm, IsLoss
    <2>2. CASE state[t] = "running"
      <3>1. AcquireAndDispatch(rest, t, books)
        BY <1>1, <2>1, <2>2 DEF OnWorkerDisconnect
      <3>2. Turn(t)
        BY <1>1, <2>1, <3>1, DispatchSlots
      <3> QED  BY <2>1, <3>2 DEF G
    <2>3. CASE state[t] = "canceling"
      <3>1. Settle(by, rest, t, "canceled", books, unassigned)
        BY <1>1, <2>1, <2>3 DEF OnWorkerDisconnect
      <3>2. PICK b, u, o : b = books /\ u = unassigned /\ o = owned
        OBVIOUS
      <3>3. Released(t, b, u)
        BY <2>1, <3>2, ReleasedBy DEF LooseNow, Loose
      <3>4. SettleFor(o, by, rest, t, "canceled", b, u)
        BY <3>1, <3>2 DEF Settle
      <3> QED  BY <1>6, <1>7, <3>3, <3>4
    <2>4. CASE state[t] \notin {"running", "balanceCanceling", "canceling"}
      BY <1>1, <1>5, <2>1, <2>4 DEF OnWorkerDisconnect
    <2> QED  BY <1>2, <2>2, <2>3, <2>4
  <1> QED  BY <1>2, <1>8, <1>9, <1>11, <1>13, <1>14, <1>15 DEF EventKind, WorkerReported

(* No event but a balance round spends the rounds.                         *)
LEMMA RoundsKept ==
    ASSUME TypeOK, NoRounds,
           UNCHANGED budget \/ \E k \in Bounded \ {"round"} : Spend(k)
    PROVE  NoRounds'
  BY DEF TypeOK, NoRounds, Spend, Bounded

(* __route, for a task whose lock is free.                                 *)
LEMMA RouteSlots ==
    ASSUME TypeOK, QueueInv, SlotInv, NEW e \in Event, transit[e.task] = NoTransit,
           e.kind # "BalanceCancelRequested", IsLoss(e) => LooseNow(e.task),
           NEW by, NEW rest, Route(by, rest, e)
    PROVE  /\ Turn(e.task) /\ (LooseNow(e.task) /\ ~ IsLoss(e) => LooseNext(e.task))
           /\ NoRounds'
  <1>1. PICK t \in Task : t = e.task
    BY DEF Event
  <1>2. NoRounds'
    <2>1. UNCHANGED budget \/ Spend("fault")
      BY DEF Route, Fault
    <2> QED  BY <2>1, RoundsKept DEF SlotInv, Bounded
  <1> DEFINE G == Turn(t) /\ (LooseNow(t) /\ ~ IsLoss(e) => LooseNext(t))
  <1>3. SUFFICES G
    BY <1>1, <1>2
  <1>4. CASE Refuse(rest)
    BY <1>4, StaySlots DEF Refuse
  <1>5. CASE state[e.task] \in LiveState /\ Arm(by, rest, e)
    BY <1>1, <1>5, ArmSlots
  <1>6. CASE state[e.task] \in LiveState /\ Fault(by, rest, e)
    <2>1. CASE /\ transit' = [transit EXCEPT ![t] = [target |-> "reporting", by |-> by]]
               /\ UNCHANGED <<books, state, unassigned>>
      <3>1. BooksSound(books') /\ SlotOf(t, books, state, transit, unassigned)
        BY <2>1 DEF SlotInv
      <3>2. \A x \in Task : Passes(x, books, unassigned, books', unassigned')
        BY <2>1 DEF Passes
      <3>3. transit'[t].target = "reporting" /\ \A x \in Task \ {t} : transit'[x] = transit[x]
        BY <2>1 DEF TypeOK
      <3>4. SlotOf(t, books', state', transit', unassigned')
        BY <2>1, <3>1, <3>3 DEF SlotOf
      <3> QED  BY <2>1, <3>1, <3>2, <3>3, <3>4 DEF Turn, LooseNow, LooseNext
    <2>2. CASE Teardown(by, rest, t, books)
      BY <2>2, TeardownSlots
    <2> QED  BY <1>1, <1>6, <2>1, <2>2 DEF Fault
  <1> QED  BY <1>4, <1>5, <1>6 DEF Route

-----------------------------------------------------------------------------
(* Steps.                                                                  *)

(* Tasks outside T pass, tasks in T keep the invariant, and no loss is     *)
(* added to what the coroutines still have to route.                       *)
LEMMA PassInv ==
    ASSUME TypeOK, QueueInv, SlotInv, NoRounds', BooksSound(books'), NEW T,
           \A x \in Task \ T : /\ state'[x] = state[x] /\ transit'[x] = transit[x]
                               /\ Passes(x, books, unassigned, books', unassigned'),
           \A x \in T : SlotOf(x, books', state', transit', unassigned'),
           \A c \in Coroutine : \A f \in calls'[c] :
              f \in calls[c] \/ f.kind \notin {"WorkerDisconnected", "BalanceCancelRequested"},
           \A c \in Coroutine : \A f \in calls[c] :
              f \in calls'[c] /\ IsLoss(f) /\ f.task \in T => LooseNext(f.task)
    PROVE  SlotInv'
  <1>1. ASSUME NEW x \in Task PROVE SlotOf(x, books', state', transit', unassigned')
    <2>1. CASE x \in T
      BY <2>1
    <2>2. CASE x \notin T
      <3>1. SlotOf(x, books, state, transit, unassigned)
        BY DEF SlotInv
      <3>2. InQueue(x, unassigned) =>
              state[x] = "inactive" /\ transit[x].target \in {"none", "reporting"}
        BY DEF QueueInv, Sound
      <3> QED  BY <2>2, <3>1, <3>2 DEF SlotOf, Passes
    <2> QED  BY <2>1, <2>2
  <1>2. \A c \in Coroutine : \A f \in calls'[c] : IsLoss(f) => f \in calls[c] /\ f.task \in Task
    <2>1. \A c \in Coroutine : \A f \in calls[c] : f.task \in Task
      BY DEF TypeOK, Event
    <2> QED  BY <2>1 DEF IsLoss
  <1>3. ASSUME NEW c \in Coroutine, NEW f \in calls'[c], IsLoss(f)
        PROVE  Loose(f.task, books', state', unassigned')
    <2>1. f \in calls[c] /\ f.task \in Task
      BY <1>2, <1>3
    <2>2. Loose(f.task, books, state, unassigned)
      BY <1>3, <2>1 DEF SlotInv, LossesLoose
    <2>3. CASE f.task \in T
      BY <1>3, <2>1, <2>3 DEF LooseNext
    <2>4. CASE f.task \notin T
      BY <2>1, <2>2, <2>4 DEF Loose, Passes
    <2> QED  BY <2>3, <2>4
  <1>4. \A c \in Coroutine : \A f \in calls'[c] : f.kind # "BalanceCancelRequested"
    BY DEF SlotInv, LossesLoose
  <1>5. LossesLoose'
    BY <1>3, <1>4 DEF LossesLoose, IsLoss, Loose, InQueue
  <1>6. LostOnce'
    BY <1>2 DEF SlotInv, LostOnce, IsLoss
  <1> QED  BY <1>1, <1>5, <1>6 DEF SlotInv, BooksSound, SlotOf, InQueue, Load

(* A transition of one task.                                               *)
LEMMA TurnInv ==
    ASSUME TypeOK, QueueInv, SlotInv, NoRounds', NEW t \in Task, Turn(t),
           \A c \in Coroutine : calls'[c] \subseteq calls[c],
           \A c \in Coroutine : \A f \in calls'[c] : IsLoss(f) /\ f.task = t => LooseNext(t)
    PROVE  SlotInv'
  <1>1. /\ BooksSound(books')
        /\ \A x \in Task \ {t} : /\ state'[x] = state[x] /\ transit'[x] = transit[x]
                                 /\ Passes(x, books, unassigned, books', unassigned')
        /\ \A x \in {t} : SlotOf(x, books', state', transit', unassigned')
    BY DEF Turn
  <1>2. \A c \in Coroutine : \A f \in calls[c] :
           f \in calls'[c] /\ IsLoss(f) /\ f.task \in {t} => LooseNext(f.task)
    OBVIOUS
  <1>3. \A c \in Coroutine : \A f \in calls'[c] : f \in calls[c]
    OBVIOUS
  <1> QED  BY <1>1, <1>2, <1>3, PassInv

(* A step that only hands the coroutines other events.                     *)
LEMMA AsideSlots ==
    ASSUME TypeOK, QueueInv, SlotInv, NoRounds', UNCHANGED <<books, state, transit, unassigned>>,
           \A c \in Coroutine : \A f \in calls'[c] :
              f \in calls[c] \/ f.kind \notin {"WorkerDisconnected", "BalanceCancelRequested"}
    PROVE  SlotInv'
  <1>1. BooksSound(books')
    BY DEF SlotInv
  <1>0. PICK T : T = {}
    OBVIOUS
  <1>2. \A x \in Task \ T : /\ state'[x] = state[x] /\ transit'[x] = transit[x]
                             /\ Passes(x, books, unassigned, books', unassigned')
    BY DEF Passes
  <1>3. /\ \A x \in T : SlotOf(x, books', state', transit', unassigned')
        /\ \A c \in Coroutine : \A f \in calls[c] :
              f \in calls'[c] /\ IsLoss(f) /\ f.task \in T => LooseNext(f.task)
    BY <1>0
  <1> QED  BY <1>1, <1>2, <1>3, PassInv

(* A worker is lost: its tasks lose their slots, each for the first time.  *)
LEMMA DisconnectSlots ==
    ASSUME TypeOK, QueueInv, SlotInv, NoRounds', UNCHANGED <<state, transit, unassigned>>,
           NEW c \in Coroutine, NEW w \in Worker, DisconnectWorker(c, w)
    PROVE  SlotInv'
  <1>1. /\ books \in Books /\ BooksSound(books) /\ calls \in [Coroutine -> SUBSET Event]
        /\ books.queue[w] \subseteq Task
        /\ \A t \in Task : SlotOf(t, books, state, transit, unassigned)
        /\ LossesLoose /\ LostOnce
    BY DEF TypeOK, SlotInv, Books
  <1>2. /\ ~ RemoveWorkerRaises(books, w)
        /\ BooksSound(WithoutWorker(books, w, books.queue[w]))
    BY <1>1, WithoutWorkerSound
  <1> DEFINE E == {NewEvent("WorkerDisconnected", t, w, "none") : t \in books.queue[w]}
  <1>3. /\ books' = WithoutWorker(books, w, books.queue[w])
        /\ calls' = [calls EXCEPT ![c] = E]
    BY <1>2 DEF DisconnectWorker
  <1>4. BooksSound(books')
    BY <1>2, <1>3
  <1>5. \A t \in Task : books'.holder[t] = IF t \in books.queue[w] THEN NoWorker ELSE books.holder[t]
    BY <1>3 DEF WithoutWorker
  <1>6. \A t \in Task : SlotOf(t, books', state', transit', unassigned')
    BY <1>1, <1>5 DEF SlotOf
  <1>7. \A t \in books.queue[w] : books.holder[t] = w /\ w # NoWorker
    BY <1>1, WorkerAssumption DEF BooksSound
  <1>8. ASSUME NEW t \in books.queue[w]
        PROVE  Loose(t, books', state', unassigned') /\ ~ Loose(t, books, state, unassigned)
    <2>1. t \in Task /\ books.holder[t] # NoWorker /\ books'.holder[t] = NoWorker
      BY <1>1, <1>5, <1>7
    <2>2. ~ InQueue(t, unassigned) /\ state[t] # "new"
      BY <1>1, <2>1 DEF SlotOf
    <2> QED  BY <2>1, <2>2 DEF Loose
  <1>9. /\ calls'[c] = E /\ \A d \in Coroutine \ {c} : calls'[d] = calls[d]
    BY <1>1, <1>3
  <1>10. \A e \in E : IsLoss(e) /\ e.kind # "BalanceCancelRequested" /\ e.task \in books.queue[w]
    BY DEF NewEvent, IsLoss
  <1>11. \A e, f \in E : e.task = f.task => e = f
    BY DEF NewEvent
  <1> HIDE DEF E
  <1>12. \A d \in Coroutine : \A f \in calls[d] : IsLoss(f) => f.task \in Task \ books.queue[w]
    <2>1. \A d \in Coroutine : \A f \in calls[d] : f.task \in Task
      BY <1>1 DEF Event
    <2> QED  BY <1>1, <1>8, <2>1 DEF LossesLoose
  <1>13. LossesLoose'
    <2> SUFFICES ASSUME NEW d \in Coroutine, NEW f \in calls'[d]
                 PROVE  /\ IsLoss(f) => Loose(f.task, books', state', unassigned')
                        /\ f.kind # "BalanceCancelRequested"
      BY DEF LossesLoose, IsLoss, Loose, InQueue
    <2>1. CASE d = c
      BY <1>8, <1>9, <1>10, <2>1
    <2>2. CASE d # c
      <3>1. f \in calls[d]
        BY <1>9, <2>2
      <3>2. f.kind # "BalanceCancelRequested" /\ (IsLoss(f) => Loose(f.task, books, state, unassigned))
        BY <1>1, <3>1 DEF LossesLoose
      <3>3. IsLoss(f) => books'.holder[f.task] = books.holder[f.task]
        BY <1>5, <1>12, <3>1
      <3> QED  BY <3>2, <3>3 DEF Loose
    <2> QED  BY <2>1, <2>2
  <1>14. LostOnce'
    <2> SUFFICES ASSUME NEW a \in Coroutine, NEW d \in Coroutine, NEW e \in calls'[a],
                        NEW f \in calls'[d], IsLoss(e), IsLoss(f), e.task = f.task
                 PROVE  a = d /\ e = f
      BY DEF LostOnce, IsLoss
    <2>1. CASE a = c /\ d = c
      BY <1>9, <1>11, <2>1
    <2>2. CASE a = c /\ d # c
      BY <1>9, <1>10, <1>12, <2>2
    <2>3. CASE a # c /\ d = c
      BY <1>9, <1>10, <1>12, <2>3
    <2>4. CASE a # c /\ d # c
      BY <1>1, <1>9, <2>4 DEF LostOnce
    <2> QED  BY <2>1, <2>2, <2>3, <2>4
  <1> QED  BY <1>4, <1>6, <1>13, <1>14 DEF SlotInv, BooksSound, SlotOf, InQueue, Load

(* The steps of the event loop.                                            *)
LEMMA LoopSlots ==
    ASSUME TypeOK, QueueInv, SlotInv, Loop
    PROVE  SlotInv'
  <1>1. /\ calls \in [Coroutine -> SUBSET Event] /\ grants \in SUBSET Grant
        /\ alive \subseteq Worker /\ dead \subseteq Worker
        /\ state \in [Task -> TaskState] /\ transit \in [Task -> Transit]
        /\ LossesLoose /\ LostOnce /\ NoRounds /\ "workerTimer" \in Coroutine
    BY DEF TypeOK, SlotInv, Coroutine
  <1>2. ASSUME NEW c \in Coroutine, NEW e \in calls[c], RouteCall(c, e) PROVE SlotInv'
    <2>1. /\ e \in Event /\ transit[e.task] = NoTransit /\ e.kind # "BalanceCancelRequested"
          /\ IsLoss(e) => LooseNow(e.task)
      BY <1>1, <1>2 DEF RouteCall, LockAvailable, LossesLoose, LooseNow
    <2>2. Route(c, grants, e) /\ calls' = [calls EXCEPT ![c] = @ \ {e}]
      BY <1>2 DEF RouteCall
    <2>3. PICK rest : rest = grants
      OBVIOUS
    <2>4. PICK t \in Task : t = e.task
      BY <2>1 DEF Event
    <2>5. /\ Turn(t) /\ (LooseNow(t) /\ ~ IsLoss(e) => LooseNext(t))
          /\ NoRounds'
      BY <2>1, <2>2, <2>3, <2>4, RouteSlots
    <2>6. \A d \in Coroutine : calls'[d] \subseteq calls[d] /\ (d = c => e \notin calls'[d])
      BY <1>1, <2>2
    <2>7. ASSUME NEW d \in Coroutine, NEW f \in calls'[d], IsLoss(f), f.task = t
          PROVE  LooseNext(t)
      <3>1. f \in calls[d]
        BY <2>6, <2>7
      <3>2. LooseNow(t)
        BY <1>1, <2>7, <3>1 DEF LossesLoose, LooseNow
      <3>3. ~ IsLoss(e)
        <4>1. SUFFICES ASSUME IsLoss(e) PROVE FALSE
          OBVIOUS
        <4>2. c = d /\ e = f
          BY <1>1, <2>4, <2>7, <3>1, <4>1 DEF LostOnce
        <4> QED  BY <2>6, <2>7, <4>2
      <3> QED  BY <2>5, <3>2, <3>3
    <2> QED  BY <2>5, <2>6, <2>7, TurnInv
  <1>3. ASSUME NEW c \in Coroutine, NEW e \in calls[c], CancelOfEndedTask(c, e) PROVE SlotInv'
    <2>1. /\ UNCHANGED <<books, state, transit, unassigned>>
          /\ \A d \in Coroutine : \A f \in calls'[d] : f \in calls[d]
      BY <1>1, <1>3 DEF CancelOfEndedTask
    <2>2. NoRounds'
      BY <1>1, <1>3, RoundsKept DEF CancelOfEndedTask
    <2> QED  BY <2>1, <2>2, AsideSlots
  <1>4. ASSUME NEW g \in grants, RouteGrant(g) PROVE SlotInv'
    <2>1. g \in Grant /\ UNCHANGED calls
      BY <1>1, <1>4 DEF RouteGrant
    <2>2. PICK e : e = NewEvent("HasCapacity", g.task, g.worker, "none")
      OBVIOUS
    <2>3. e \in Event /\ e.task = g.task /\ e.kind = "HasCapacity"
      BY <2>1, <2>2 DEF Grant, NewEvent, Event, EventKind, WorkerReported
    <2>4. Route(g.by, grants \ {g}, e) /\ transit[e.task] = NoTransit
      BY <1>4, <2>2 DEF RouteGrant, LockAvailable
    <2>5. PICK rest : rest = grants \ {g}
      OBVIOUS
    <2>6. PICK t \in Task : t = e.task
      BY <2>3 DEF Event
    <2>7. /\ e.kind # "BalanceCancelRequested" /\ ~ IsLoss(e)
      BY <2>3 DEF IsLoss
    <2>8. /\ Turn(t) /\ (LooseNow(t) /\ ~ IsLoss(e) => LooseNext(t))
          /\ NoRounds'
      BY <2>3, <2>4, <2>5, <2>6, <2>7, RouteSlots
    <2>9. \A c \in Coroutine : \A f \in calls'[c] : IsLoss(f) /\ f.task = t => LooseNext(t)
      BY <1>1, <2>1, <2>7, <2>8 DEF LossesLoose, LooseNow
    <2> QED  BY <2>1, <2>8, <2>9, TurnInv
  <1>5. ASSUME NEW t \in Task, Commit(t) PROVE SlotInv'
    <2>1. /\ transit[t].target \in Terminal /\ UNCHANGED <<books, unassigned, calls, budget>>
          /\ state' = [state EXCEPT ![t] = transit[t].target]
          /\ transit' = [transit EXCEPT ![t] = NoTransit]
      BY <1>5 DEF Commit
    <2>2. /\ state'[t] = transit[t].target
          /\ \A x \in Task \ {t} : state'[x] = state[x] /\ transit'[x] = transit[x]
      BY <1>1, <2>1
    <2>3. books.holder[t] = NoWorker
      BY <2>1 DEF SlotInv, SlotOf, Terminal, ResultType
    <2>4. \A x \in Task : Passes(x, books, unassigned, books', unassigned')
      BY <2>1 DEF Passes
    <2>5. state'[t] # "balanceCanceling" /\ state'[t] # "new"
      BY <2>1, <2>2 DEF Terminal, ResultType
    <2>6. Turn(t) /\ (LooseNow(t) => LooseNext(t))
      <3>1. BooksSound(books')
        BY <2>1 DEF SlotInv
      <3>2. SlotOf(t, books', state', transit', unassigned')
        BY <2>1, <2>3, <2>5 DEF SlotOf
      <3> QED  BY <2>1, <2>2, <2>4, <2>5, <3>1, <3>2 DEF Turn, LooseNow, LooseNext, Loose
    <2>7. NoRounds'
      BY <1>1, <2>1, RoundsKept
    <2>8. \A c \in Coroutine : \A f \in calls'[c] : IsLoss(f) /\ f.task = t => LooseNext(t)
      BY <1>1, <2>1, <2>6 DEF LossesLoose, LooseNow
    <2> QED  BY <2>1, <2>6, <2>7, <2>8, TurnInv
  <1>6. ASSUME NEW t \in Task, FaultReported(t) PROVE SlotInv'
    <2>1. Teardown(transit[t].by, grants, t, books) /\ UNCHANGED <<calls, budget>>
      BY <1>6 DEF FaultReported
    <2>2. PICK by, rest : by = transit[t].by /\ rest = grants
      OBVIOUS
    <2>3. Turn(t) /\ LooseNext(t)
      BY <2>1, <2>2, TeardownSlots
    <2>4. NoRounds'
      BY <1>1, <2>1, RoundsKept
    <2> QED  BY <2>1, <2>3, <2>4, TurnInv
  <1>7. ASSUME WorkerConnected PROVE SlotInv'
    <2>1. UNCHANGED <<books, state, transit, unassigned, calls, budget>>
      BY <1>7 DEF WorkerConnected, task, loop
    <2>2. NoRounds'
      BY <1>1, <2>1, RoundsKept
    <2> QED  BY <2>1, <2>2, AsideSlots
  <1>8. ASSUME NEW w \in dead, CleanNextWorker(w) PROVE SlotInv'
    <2>1. /\ UNCHANGED <<state, transit, unassigned, budget>> /\ w \in Worker
          /\ DisconnectWorker("workerTimer", w) \/ UNCHANGED <<books, calls>>
      BY <1>1, <1>8 DEF CleanNextWorker, CleanWorker, task
    <2>2. NoRounds'
      BY <1>1, <2>1, RoundsKept
    <2> QED  BY <1>1, <2>1, <2>2, AsideSlots, DisconnectSlots
  <1> QED  BY <1>2, <1>3, <1>4, <1>5, <1>6, <1>7, <1>8 DEF Loop

(* The steps of messages, timers and workers.                              *)
LEMMA EnvironmentSlots ==
    ASSUME TypeOK, QueueInv, SlotInv, Environment
    PROVE  SlotInv'
  <1>1. /\ calls \in [Coroutine -> SUBSET Event] /\ outbox \in [Worker -> Seq(Event)]
        /\ alive \subseteq Worker /\ books \in Books /\ unassigned \in Seq(Task)
        /\ state \in [Task -> TaskState] /\ transit \in [Task -> Transit]
        /\ BooksSound(books) /\ LossesLoose /\ LostOnce /\ NoRounds
        /\ Reports /\ Distinct(unassigned)
        /\ "workerTimer" \in Coroutine /\ "binder" \in Coroutine
    BY DEF TypeOK, SlotInv, Coroutine, QueueInv, Sound
  <1>2. UNCHANGED budget => NoRounds'
    BY <1>1, RoundsKept
  <1>3. Spend("cancel") \/ Spend("disconnect") \/ Spend("timeout") => NoRounds'
    BY <1>1, RoundsKept DEF Bounded
  <1>4. ASSUME NEW t \in Task, OnTaskNew(t) PROVE SlotInv'
    <2>1. /\ state[t] = "new" /\ UNCHANGED <<transit, budget>>
          /\ state' = [state EXCEPT ![t] = "inactive"]
      BY <1>4 DEF OnTaskNew
    <2>2. /\ state'[t] = "inactive" /\ transit'[t].target = "none"
          /\ \A x \in Task \ {t} : state'[x] = state[x] /\ transit'[x] = transit[x]
      BY <1>1, <2>1 DEF QueueInv, Sound
    <2>3. books.holder[t] = NoWorker /\ ~ InQueue(t, unassigned)
      BY <2>1 DEF SlotInv, SlotOf, QueueInv, Sound
    <2>4. PICK w \in AssignTask(books, t) :
            IF w = NoWorker
            THEN unassigned' = Append(unassigned, t) /\ UNCHANGED <<books, calls>>
            ELSE /\ books' = Assigned(books, t, w) /\ UNCHANGED unassigned
                 /\ calls' = [calls EXCEPT !["binder"] = {NewEvent("HasCapacity", t, w, "none")}]
      BY <1>4 DEF OnTaskNew
    <2>5. Turn(t)
      <3>1. CASE w = NoWorker
        <4>1. unassigned' = Append(unassigned, t) /\ books' = books
          BY <2>4, <3>1
        <4>2. \A x \in Task : InQueue(x, Append(unassigned, t)) <=> InQueue(x, unassigned) \/ x = t
          BY <1>1, AppendQueue
        <4> QED  BY <1>1, <2>2, <2>3, <4>1, <4>2 DEF Turn, Passes, SlotOf
      <3>2. CASE w # NoWorker
        <4>1. MayAssign(books, t)
          BY <2>3 DEF MayAssign
        <4>2. w \in Worker /\ BooksSound(Assigned(books, t, w))
          BY <1>1, <3>2, <4>1, AssignTaskRoom, AssignedSound
        <4>3. books' = Assigned(books, t, w) /\ unassigned' = unassigned
          BY <2>4, <3>2
        <4>4. \A x \in Task : books'.holder[x] = IF x = t THEN w ELSE books.holder[x]
          BY <1>1, <4>2, <4>3, AssignedEffect
        <4> QED  BY <2>2, <2>3, <4>2, <4>3, <4>4 DEF Turn, Passes, SlotOf
      <3> QED  BY <3>1, <3>2
    <2>6. \A c \in Coroutine : \A f \in calls'[c] :
             f \in calls[c] \/ f.kind \notin {"WorkerDisconnected", "BalanceCancelRequested"}
      BY <1>1, <2>4 DEF NewEvent
    <2>7. \A c \in Coroutine : \A f \in calls[c] : IsLoss(f) => f.task # t
      BY <1>1, <2>1 DEF LossesLoose, Loose
    <2>8. PICK T : T = {t}
      OBVIOUS
    <2>9. /\ BooksSound(books')
          /\ \A x \in Task \ T : /\ state'[x] = state[x] /\ transit'[x] = transit[x]
                                 /\ Passes(x, books, unassigned, books', unassigned')
          /\ \A x \in T : SlotOf(x, books', state', transit', unassigned')
      BY <2>5, <2>8 DEF Turn
    <2>10. \A c \in Coroutine : \A f \in calls[c] :
              f \in calls'[c] /\ IsLoss(f) /\ f.task \in T => LooseNext(f.task)
      BY <2>7, <2>8
    <2> QED  BY <1>2, <2>1, <2>6, <2>9, <2>10, PassInv
  <1>5. ASSUME NEW t \in Task, ReceiveTaskCancel(t) PROVE SlotInv'
    <2>1. UNCHANGED <<books, state, transit, unassigned>> /\ NoRounds'
      BY <1>3, <1>5 DEF ReceiveTaskCancel
    <2>2. \A c \in Coroutine : \A f \in calls'[c] : f \in calls[c] \/ f.kind = "TaskCancelRequested"
      BY <1>1, <1>5 DEF ReceiveTaskCancel, NewEvent
    <2> QED  BY <2>1, <2>2, AsideSlots
  <1>6. ASSUME NEW w \in Worker, ReceiveReport(w) PROVE SlotInv'
    <2>1. UNCHANGED <<books, state, transit, unassigned, budget>>
      BY <1>6 DEF ReceiveReport, task
    <2>2. outbox[w] # <<>> /\ outbox[w] \in Seq(Event) /\ calls' = [calls EXCEPT !["binder"] = {Head(outbox[w])}]
      BY <1>1, <1>6 DEF ReceiveReport
    <2>3. Head(outbox[w]) = outbox[w][1] /\ 1 \in DOMAIN outbox[w]
      BY <2>2
    <2>4. Head(outbox[w]).kind \in WorkerReported
      BY <1>1, <2>3 DEF Reports
    <2>5. \A c \in Coroutine : \A f \in calls'[c] : f \in calls[c] \/ f.kind \in WorkerReported
      BY <1>1, <2>2, <2>4
    <2>6. \A c \in Coroutine : \A f \in calls'[c] :
             f \in calls[c] \/ f.kind \notin {"WorkerDisconnected", "BalanceCancelRequested"}
      BY <2>5 DEF WorkerReported
    <2> QED  BY <1>2, <2>1, <2>6, AsideSlots
  <1>7. ASSUME NEW w \in Worker, OnHeartbeat(w) PROVE SlotInv'
    <2>1. /\ RetryUnassignable("binder", grants, AddWorker(books, w), unassigned)
          /\ UNCHANGED <<state, transit, calls, budget>>
      BY <1>7 DEF OnHeartbeat
    <2>2. PICK b \in Books : b = AddWorker(books, w)
      BY <1>1, AddWorkerType
    <2>3. BooksSound(b) /\ b.holder = books.holder
      <3>1. BooksSound(b)
        BY <1>1, <2>2, AddWorkerSound
      <3>2. b.holder = books.holder
        BY <1>1, <2>2 DEF AddWorker, Books
      <3> QED  BY <3>1, <3>2
    <2>4. \A t \in Task : InQueue(t, unassigned) => b.holder[t] = NoWorker
      BY <2>3 DEF SlotInv, SlotOf
    <2>5. PICK u \in Seq(Task) : u = unassigned
      BY <1>1
    <2>10. PICK rest : rest = grants
      OBVIOUS
    <2>6. BooksSound(books') /\ \A x \in Task : Passes(x, b, u, books', unassigned')
      BY <1>1, <2>1, <2>2, <2>3, <2>4, <2>5, <2>10, RetrySlots
    <2>7. PICK T : T = {}
      OBVIOUS
    <2>8. \A x \in Task \ T : /\ state'[x] = state[x] /\ transit'[x] = transit[x]
                              /\ Passes(x, books, unassigned, books', unassigned')
      BY <2>1, <2>3, <2>5, <2>6 DEF Passes
    <2>9. /\ \A x \in T : SlotOf(x, books', state', transit', unassigned')
          /\ \A c \in Coroutine : \A f \in calls'[c] : f \in calls[c]
          /\ \A c \in Coroutine : \A f \in calls[c] :
                f \in calls'[c] /\ IsLoss(f) /\ f.task \in T => LooseNext(f.task)
      BY <2>1, <2>7
    <2> QED  BY <1>2, <2>1, <2>6, <2>8, <2>9, PassInv
  <1>8. ASSUME NEW w \in Worker, OnDisconnectNotification(w) PROVE SlotInv'
    <2>1. /\ UNCHANGED <<state, transit, unassigned, budget>>
          /\ DisconnectWorker("binder", w) \/ UNCHANGED <<books, calls>>
      BY <1>8 DEF OnDisconnectNotification, task
    <2> QED  BY <1>1, <1>2, <2>1, AsideSlots, DisconnectSlots
  <1>9. ASSUME UNCHANGED <<books, state, transit, unassigned, calls, budget>> PROVE SlotInv'
    BY <1>2, <1>9, AsideSlots
  <1>10. ASSUME NEW w \in Worker, Crash(w) \/ Leave(w) PROVE SlotInv'
    BY <1>9, <1>10 DEF Crash, Leave, task, loop
  <1>11. ASSUME NEW late \in SUBSET alive, CleanWorkers(late) PROVE SlotInv'
    <2>1. /\ UNCHANGED <<state, transit, unassigned>> /\ (UNCHANGED budget \/ Spend("timeout"))
          /\ \E w \in late : DisconnectWorker("workerTimer", w) \/ UNCHANGED <<books, calls>>
      BY <1>11 DEF CleanWorkers, CleanWorker, task
    <2>2. PICK w \in late : DisconnectWorker("workerTimer", w) \/ UNCHANGED <<books, calls>>
      BY <2>1
    <2>3. w \in Worker
      BY <1>1
    <2> QED  BY <1>1, <1>2, <1>3, <2>1, <2>2, <2>3, AsideSlots, DisconnectSlots
  <1>12. ASSUME NEW c \in Coroutine, CancelClientAllTasks(c) PROVE SlotInv'
    <2>1. UNCHANGED <<books, state, transit, unassigned>> /\ NoRounds'
      BY <1>3, <1>12 DEF CancelClientAllTasks, task
    <2>2. \A d \in Coroutine : \A f \in calls'[d] : f \in calls[d] \/ f.kind = "TaskCancelRequested"
      BY <1>1, <1>12 DEF CancelClientAllTasks, NewEvent
    <2> QED  BY <2>1, <2>2, AsideSlots
  <1>13. ASSUME NEW advice, Balance(advice) PROVE FALSE
    BY <1>1, <1>13 DEF Balance, Spend, NoRounds
  <1>14. ASSUME NEW w \in Worker, NEW t \in Task,
                Start(w, t) \/ \E r \in Results : Finish(w, t, r)
         PROVE  SlotInv'
    BY <1>9, <1>14 DEF Start, Finish, task, loop
  <1> QED  BY <1>4, <1>5, <1>6, <1>7, <1>8, <1>10, <1>11, <1>12, <1>13, <1>14 DEF Environment

(* Without balance rounds the invariant holds in every reachable state.    *)
LEMMA SlotInvCorrect ==
    ASSUME Unbalanced
    PROVE  Spec => [](TypeOK /\ SlotInv)
  <1>1. Init => SlotInv
    <2> SUFFICES ASSUME Init PROVE SlotInv
      OBVIOUS
    <2>1. BooksSound(books)
      BY InitBooks DEF BooksInv
    <2>2. \A t \in Task : SlotOf(t, books, state, transit, unassigned)
      BY DEF Init, NoBooks, SlotOf
    <2>3. LossesLoose /\ LostOnce
      BY DEF Init, LossesLoose, LostOnce
    <2>4. NoRounds
      BY DEF Init, NoRounds, Unbalanced
    <2> QED  BY <2>1, <2>2, <2>3, <2>4 DEF SlotInv
  <1>2. TypeOK /\ QueueInv /\ SlotInv /\ [Next]_vars => SlotInv'
    <2> SUFFICES ASSUME TypeOK, QueueInv, SlotInv, [Next]_vars PROVE SlotInv'
      OBVIOUS
    <2>1. CASE UNCHANGED vars
      <3>1. UNCHANGED <<books, state, transit, unassigned, calls, budget>>
        BY <2>1 DEF vars, task, loop
      <3>2. NoRounds'
        BY <3>1, RoundsKept DEF SlotInv
      <3> QED  BY <3>1, <3>2, AsideSlots
    <2> QED  BY <2>1, LoopSlots, EnvironmentSlots DEF Next, Quiet
  <1> QED  BY <1>1, <1>2, TypeCorrect, QueueInvCorrect, PTL DEF Spec

(* No slot is leaked while no load is balanced, under either policy and    *)
(* whatever crashes, false timeouts, cancels, disconnects and faults come  *)
(* in between: a slot belongs to a task that has not ended and does not    *)
(* wait in the queue, so the capacity of the cluster is never lost.        *)
THEOREM UnbalancedNoSlotLeak ==
    ASSUME Unbalanced
    PROVE  Spec => []NoSlotLeak
  <1>1. TypeOK /\ SlotInv => NoSlotLeak
    <2> SUFFICES ASSUME TypeOK, SlotInv, NEW w \in Worker, NEW t \in books.queue[w]
                 PROVE  /\ state[t] \in LiveState
                        /\ transit[t].target \in {"none", "reporting"}
                        /\ ~ InQueue(t, unassigned)
      BY DEF NoSlotLeak
    <2>1. t \in Task /\ books.holder[t] = w /\ w # NoWorker
      BY WorkerAssumption DEF TypeOK, Books, SlotInv, BooksSound
    <2> QED  BY <2>1 DEF SlotInv, SlotOf, LiveState
  <1> QED  BY <1>1, SlotInvCorrect, PTL

(* While no load is balanced the dictionaries of either policy agree in    *)
(* both directions and respect the queue sizes: under capability too no    *)
(* task is placed twice, and remove_worker never raises.                   *)
THEOREM UnbalancedBooks ==
    ASSUME Unbalanced
    PROVE  Spec => [](BooksAgree /\ SlotsAgree)
  <1>1. TypeOK /\ SlotInv => BooksAgree /\ SlotsAgree
    BY DEF SlotInv, BooksSound, BooksAgree, SlotsAgree, Placed
  <1> QED  BY <1>1, SlotInvCorrect, PTL
=============================================================================
