---------------------------- MODULE ClientProofs ----------------------------
(***************************************************************************)
(* Proofs about Client: every future is settled once (SettledOnce), its    *)
(* outcome is final (OutcomeFinal), and a clear() that the agent passes on *)
(* meets no task submitted before it (ClearAfterFutures), for any number of*)
(* futures, calls and user threads and any failures.                       *)
(***************************************************************************)
EXTENDS Client, FiniteSetTheorems, TLAPS

-----------------------------------------------------------------------------
(* Types, of the messages too.                                             *)

FutureType == [state : {"pending", "running", "finished", "cancelled"},
               call : {"none", "submit", "get", "starmap"}, group : Futures \cup {Main},
               oid : BOOLEAN, received : BOOLEAN,
               outcome : Outcomes \cup {"none"}, fetching : BOOLEAN,
               requested : BOOLEAN, callbacks : 0..1, given : BOOLEAN]
ThreadOps == {"idle", "add", "commit", "upload", "send", "collect", "canceling", "result", "object",
              "cancelall", "forcing", "forced", "join", "destroyed"}
Nexts == {"none", "clear", "disconnect", "shutdown"}
ThreadRecord == [op : ThreadOps, todo : SUBSET Futures, next : Nexts \cup (Futures \X Nexts), sent : SUBSET Futures]
ThreadType == {r \in ThreadRecord : /\ r.op \in {"forcing", "forced"} => r.next \in Futures \X Nexts
                                    /\ r.op = "cancelall" => r.next \in Nexts}
Names == Futures \cup {Main}
ClientMessages == (({"task", "cancel"} \X Names) \cup ({"clear"} \X (SUBSET Futures)))
                     \cup ({"disconnect", "shutdown"} \X {Main})
Answers == ({"value", "error", "died", "confirm"} \X Names) \cup ({"shutdown"} \X {Main})
AgentType == [phase : {"running", "stopping", "destroyed", "settled", "drained", "closed"},
              ended : Handled \cup {"none", "storage", "invalid"}, taskIds : SUBSET Futures,
              settling : {<<>>} \cup (Futures \X {"value", "error", "died"})]
NetType == [pipe : {"open", "closing", "closed", "destroyed"},
            inbox : Seq(ClientMessages), outbox : Seq(ClientMessages), answers : Seq(Answers)]
LogType == [seen : SUBSET (Outcomes \cup {"none"}), called : Nat, fetched : Nat, late : BOOLEAN, unsent : BOOLEAN]
JobType == {<<"upload", Main>>} \cup ({"fetch"} \X Futures)

FutTypes == fut \in [Futures -> FutureType] /\ log \in [Futures -> LogType]
ThreadTypes == thread \in [Threads -> ThreadType]
AgentTypes == agent \in AgentType /\ manager \in SUBSET Futures
NetTypes == net \in NetType /\ held \in [tasks : SUBSET Futures, stray : SUBSET Futures]
JobTypes == jobs \in SUBSET JobType
Types == FutTypes /\ ThreadTypes /\ AgentTypes /\ NetTypes /\ JobTypes

\* The types of the proofs are those of the model, and say more of threads and messages.
LEMMA TypesType == Types => TypeOK
  BY DEF Types, FutTypes, ThreadTypes, AgentTypes, NetTypes, JobTypes, TypeOK, FutureType, ThreadType, ThreadRecord,
         AgentType, NetType, JobType

\* The tasks a cancel takes away are confirmed, and nothing else.
LEMMA ConfirmsType ==
  ASSUME NEW S \in SUBSET Futures
  PROVE  /\ Confirms(S) \in Seq({"confirm"} \X S)
         /\ Confirms(S) \in Seq(Answers)
  <1> DEFINE all == {<<"confirm", f>> : f \in S \ Umbrellas}
             order == CHOOSE q \in [1..Cardinality(all) -> all] : {q[i] : i \in DOMAIN q} = all
             last == IF S \cap Umbrellas = {} THEN <<>>
                     ELSE <<<<"confirm", CHOOSE u \in S \cap Umbrellas : TRUE>>>>
  <1>1. IsFiniteSet(S \ Umbrellas)
    BY FS_Subset, NamesAssumption
  <1>2. IsFiniteSet(all)
    <2> DEFINE of == [f \in S \ Umbrellas |-> <<"confirm", f>>]
    <2>1. of \in Surjection(S \ Umbrellas, all)
      BY DEF Surjection
    <2> QED
      BY ONLY <1>1, <2>1, FS_Surjection
  <1>3. Cardinality(all) \in Nat /\ ExistsBijection(1..Cardinality(all), all)
    BY <1>2, FS_CardinalityType
  <1>4. \E q \in [1..Cardinality(all) -> all] : {q[i] : i \in DOMAIN q} = all
    <2>1. PICK q \in Bijection(1..Cardinality(all), all) : TRUE
      BY <1>3 DEF ExistsBijection
    <2>2. q \in [1..Cardinality(all) -> all] /\ \A y \in all : \E x \in 1..Cardinality(all) : q[x] = y
      BY <2>1 DEF Bijection, Surjection
    <2>3. {q[i] : i \in DOMAIN q} = all
      BY <2>2
    <2> QED
      BY <2>2, <2>3
  <1>5. order \in [1..Cardinality(all) -> all]
    BY <1>4
  <1>6. order \in Seq({"confirm"} \X S)
    <2>1. all \subseteq {"confirm"} \X S
      OBVIOUS
    <2>2. order \in [1..Cardinality(all) -> {"confirm"} \X S]
      <3> HIDE DEF order, all
      <3> QED
        BY <1>5, <2>1
    <2> HIDE DEF order, all
    <2> QED
      BY <1>3, <2>2
  <1>7. last \in Seq({"confirm"} \X S)
    OBVIOUS
  <1>8. Confirms(S) = order \o last
    BY DEF Confirms
  <1>9. Confirms(S) \in Seq({"confirm"} \X S)
    BY <1>6, <1>7, <1>8
  <1>10. {"confirm"} \X S \subseteq Answers
    BY DEF Answers, Names
  <1> QED
    BY <1>9, <1>10

-----------------------------------------------------------------------------
(* What the helpers write has its types.                                   *)

LEMMA SettledType ==
  ASSUME FutTypes, NEW f \in Futures, NEW state \in {"finished", "cancelled"}, NEW outcome \in Outcomes \cup {"none"}
  PROVE  Settled(f, state, outcome) \in FutureType /\ CallbacksRun(f, outcome) \in LogType
  <1>1. fut[f] \in FutureType /\ log[f] \in LogType
    BY DEF FutTypes
  <1>2. Settled(f, state, outcome) \in FutureType
    BY <1>1 DEF Settled, FutureType
  <1>3. CallbacksRun(f, outcome) \in LogType
    <2>1. log[f].seen \cup {outcome} \in SUBSET (Outcomes \cup {"none"}) /\ log[f].called + 1 \in Nat
      BY <1>1 DEF LogType
    <2>2. [log[f] EXCEPT !.called = @ + 1, !.seen = @ \cup {outcome}] \in LogType
      BY <1>1, <2>1 DEF LogType
    <2> QED
      BY <1>1, <2>2 DEF CallbacksRun
  <1> QED
    BY <1>2, <1>3

LEMMA SettleType ==
  ASSUME FutTypes, NEW f \in Futures, NEW state \in {"finished", "cancelled"}, NEW outcome \in Outcomes \cup {"none"},
         Settle(f, state, outcome)
  PROVE  FutTypes'
  BY SettledType DEF Settle, FutTypes

LEMMA ReadyType ==
  ASSUME FutTypes, JobTypes, NEW f \in Futures, NEW outcome \in Outcomes, SetResultReady(f, outcome)
  PROVE  FutTypes' /\ JobTypes'
  <1>1. fut[f] \in FutureType /\ log[f] \in LogType
    BY DEF FutTypes
  <1> DEFINE ready == [fut[f] EXCEPT !.state = "finished", !.oid = f \notin Umbrellas, !.outcome = outcome]
             now == FetchesNow(f) /\ StartsFetch(ready)
  <1>2. ready \in FutureType
    BY <1>1 DEF FutureType
  <1>3. now \in BOOLEAN
    BY <1>2 DEF FetchesNow, StartsFetch, FutureType, Delayed
  <1>4. /\ fut' = [fut EXCEPT ![f] = [ready EXCEPT !.fetching = @ \/ now]]
        /\ jobs' = IF now THEN jobs \cup {<<"fetch", f>>} ELSE jobs
        /\ log' = IF now THEN [log EXCEPT ![f].fetched = @ + 1] ELSE log
    BY DEF SetResultReady
  <1> HIDE DEF ready, now
  <1>5. [ready EXCEPT !.fetching = @ \/ now] \in FutureType
    BY <1>2, <1>3 DEF FutureType
  <1>6. [log[f] EXCEPT !.fetched = @ + 1] \in LogType
    BY <1>1 DEF LogType
  <1>7. fut' \in [Futures -> FutureType]
    BY <1>4, <1>5 DEF FutTypes
  <1>8. log' \in [Futures -> LogType]
    BY <1>4, <1>6 DEF FutTypes
  <1>9. JobTypes'
    BY <1>4 DEF JobTypes, JobType
  <1> QED
    BY <1>7, <1>8, <1>9 DEF FutTypes

LEMMA SentType ==
  ASSUME NetTypes, NEW message \in ClientMessages
  PROVE  Sent(message) \in NetType
  <1>1. net \in NetType /\ net.inbox \in Seq(ClientMessages)
    BY DEF NetTypes, NetType
  <1>2. Append(net.inbox, message) \in Seq(ClientMessages)
    BY <1>1
  <1> HIDE DEF ClientMessages
  <1> QED
    BY <1>1, <1>2 DEF NetType, Sent

LEMMA GoToType ==
  ASSUME ThreadTypes, NEW t \in Threads, NEW state \in ThreadType, GoTo(t, state)
  PROVE  ThreadTypes'
  BY DEF ThreadTypes, GoTo

LEMMA MainType == Main \in Threads /\ (ThreadTypes => thread[Main] \in ThreadType)
  BY DEF Threads, ThreadTypes

LEMMA IdleType ==
  /\ Idle \in ThreadType
  /\ Idle.op = "idle" /\ Idle.todo = {} /\ Idle.next = "none" /\ Idle.sent = {}
  /\ \A op \in ThreadOps \ {"forcing", "forced", "cancelall"}, todo \in SUBSET Futures :
        /\ [Idle EXCEPT !.op = op] \in ThreadType
        /\ [Idle EXCEPT !.op = op, !.todo = todo] \in ThreadType
  /\ \A todo \in SUBSET Futures, next \in Nexts :
        [Idle EXCEPT !.op = "cancelall", !.todo = todo, !.next = next] \in ThreadType
  <1>1. Idle \in ThreadRecord /\ Idle.op = "idle" /\ Idle.todo = {} /\ Idle.next = "none" /\ Idle.sent = {}
    BY DEF Idle, ThreadRecord, ThreadOps, Nexts
  <1>2. ASSUME NEW op \in ThreadOps \ {"forcing", "forced", "cancelall"}, NEW todo \in SUBSET Futures
        PROVE  /\ [Idle EXCEPT !.op = op] \in ThreadType
               /\ [Idle EXCEPT !.op = op, !.todo = todo] \in ThreadType
    BY <1>1 DEF ThreadType, ThreadRecord
  <1>3. ASSUME NEW todo \in SUBSET Futures, NEW next \in Nexts
        PROVE  [Idle EXCEPT !.op = "cancelall", !.todo = todo, !.next = next] \in ThreadType
    BY <1>1 DEF ThreadType, ThreadRecord, ThreadOps
  <1> QED
    BY <1>1, <1>2, <1>3 DEF ThreadType

LEMMA CancelsAllType ==
  ASSUME AgentTypes, NEW next \in {"clear", "disconnect", "shutdown"}
  PROVE  CancelsAll(next) \in ThreadType
  BY IdleType DEF CancelsAll, AgentTypes, ThreadOps, Nexts

LEMMA EndsType ==
  ASSUME AgentTypes, NEW exception \in Handled \cup {"storage", "invalid"}, Ends(exception)
  PROVE  agent' \in AgentType
  BY DEF AgentTypes, AgentType, Ends

\* A thread record stays one when its op changes to one without a plan for next.
LEMMA OpType ==
  ASSUME NEW r \in ThreadType, NEW op \in ThreadOps \ {"forcing", "forced", "cancelall"},
         NEW todo \in SUBSET Futures, NEW sent \in SUBSET Futures
  PROVE  /\ [r EXCEPT !.op = op] \in ThreadType
         /\ [r EXCEPT !.todo = todo] \in ThreadType
         /\ [r EXCEPT !.sent = sent] \in ThreadType
  BY DEF ThreadType, ThreadRecord

-----------------------------------------------------------------------------
(* Every step keeps the types.                                             *)

LEMMA CancelTypes ==
  ASSUME Types, NEW t \in Threads, NEW f \in Futures, NEW waiting \in ThreadType, NEW raised \in ThreadType,
         Cancel(t, f, waiting, raised)
  PROVE  fut' \in [Futures -> FutureType] /\ ThreadTypes' /\ net' \in NetType
  <1>1. FutTypes /\ fut[f] \in FutureType /\ fut[f].group \in Names /\ NetTypes /\ ThreadTypes
    BY DEF Types, FutTypes, FutureType, Names
  <1>2. [fut[f] EXCEPT !.requested = TRUE] \in FutureType
    BY <1>1 DEF FutureType
  <1>3. <<"cancel", fut[f].group>> \in ClientMessages
    BY <1>1 DEF ClientMessages
  <1>4. net' \in NetType
    BY <1>1, <1>3, SentType DEF Cancel, NetTypes
  <1>5. fut' \in [Futures -> FutureType]
    BY <1>1, <1>2 DEF Cancel, FutTypes
  <1>6. ThreadTypes'
    BY <1>1, GoToType DEF Cancel
  <1> QED
    BY <1>4, <1>5, <1>6

LEMMA ApiTypes ==
  ASSUME Types, Api
  PROVE  Types'
  <1> USE MainType, IdleType
  <1>0. /\ FutTypes /\ ThreadTypes /\ AgentTypes /\ NetTypes /\ JobTypes
        /\ thread[Main] \in ThreadType /\ thread[Main].todo \in SUBSET Futures /\ thread[Main].sent \in SUBSET Futures
    BY DEF Types, ThreadType, ThreadRecord
  <1>1. ASSUME NEW c \in Calls, Submit(c) PROVE Types'
    <2>1. c.kind \in {"submit", "get", "starmap"} /\ c.futures \in SUBSET Futures /\ (c.kind = "get" => c.umbrella \in Futures)
      BY CallsAssumption
    <2>2. FutTypes'
      <3> SUFFICES ASSUME NEW f \in Futures
                   PROVE  [fut[f] EXCEPT !.call = c.kind, !.group = IF c.kind = "get" THEN c.umbrella ELSE f] \in FutureType
        BY <1>0, <1>1 DEF Submit, FutTypes
      <3> fut[f] \in FutureType
        BY <1>0 DEF FutTypes
      <3> (IF c.kind = "get" THEN c.umbrella ELSE f) \in Futures \cup {Main}
        BY <2>1
      <3> QED
        BY <2>1 DEF FutureType
    <2>3. ThreadTypes'
      <3> [Idle EXCEPT !.op = "add", !.todo = c.futures] \in ThreadType
        BY <2>1 DEF ThreadOps
      <3> QED
        BY <1>0, <1>1, GoToType DEF Submit
    <2> QED
      BY <1>0, <1>1, <2>2, <2>3 DEF Types, Submit, AgentTypes, NetTypes, JobTypes
  <1>2. ASSUME NEW f \in Futures, AddFuture(f) PROVE Types'
    <2>1. FutTypes'
      <3> fut[f] \in FutureType /\ log[f] \in LogType
        BY <1>0 DEF FutTypes
      <3> [fut[f] EXCEPT !.state = "running"] \in FutureType
        BY DEF FutureType
      <3> \A late \in BOOLEAN : [log[f] EXCEPT !.late = late] \in LogType
        BY DEF LogType
      <3> (agent.phase \in {"settled", "drained", "closed"}) \in BOOLEAN
        BY ONLY TRUE
      <3> QED
        BY <1>0, <1>2 DEF AddFuture, FutTypes
    <2>2. ThreadTypes'
      <3> [thread[Main] EXCEPT !.op = IF Unregistered = {f} THEN "commit" ELSE "add"] \in ThreadType
        BY <1>0, OpType DEF ThreadOps
      <3> QED
        BY <1>0, <1>2, GoToType DEF AddFuture
    <2> QED
      BY <1>0, <1>2, <2>1, <2>2 DEF Types, AddFuture, AgentTypes, NetTypes, JobTypes
  <1>3. ASSUME NEW f \in Futures, CancelNext(f) PROVE Types'
    <2> DEFINE waiting == [thread[Main] EXCEPT !.op = "forcing", !.next = <<f, thread[Main].next>>]
    <2>1. thread[Main].next \in Nexts
      BY <1>0, <1>3 DEF CancelNext, At, ThreadType
    <2>2. <<f, thread[Main].next>> \in Futures \X Nexts
      BY <2>1
    <2>3. waiting \in ThreadType /\ [waiting EXCEPT !.op = "forced"] \in ThreadType
      BY <1>0, <2>2 DEF ThreadType, ThreadRecord, ThreadOps
    <2>4. Cancel(Main, f, waiting, [waiting EXCEPT !.op = "forced"])
      BY <1>3 DEF CancelNext
    <2> HIDE DEF waiting
    <2>5. fut' \in [Futures -> FutureType] /\ ThreadTypes' /\ net' \in NetType
      BY <2>3, <2>4, CancelTypes
    <2> QED
      BY <1>0, <1>3, <2>5 DEF CancelNext, Types, FutTypes, AgentTypes, NetTypes, JobTypes
  <1>4. ASSUME NEW f \in Futures, ForceCanceled(f) PROVE Types'
    <2>1. FutTypes'
      <3>1. CASE Cancelled(f)
        BY <1>0, <1>4, <3>1 DEF ForceCanceled, FutTypes
      <3>2. CASE ~Cancelled(f)
        <4> Settle(f, "cancelled", "cancelled")
          BY <1>4, <3>2 DEF ForceCanceled
        <4> QED
          BY <1>0, SettleType DEF Outcomes
      <3> QED
        BY <3>1, <3>2
    <2>2. thread[Main].next \in Futures \X Nexts
      BY <1>0, <1>4 DEF ForceCanceled, At, ThreadType
    <2>3. thread[Main].next[2] \in Nexts
      BY <2>2
    <2>4. [Idle EXCEPT !.op = "cancelall", !.todo = thread[Main].todo \ {f}, !.next = thread[Main].next[2]] \in ThreadType
      BY <1>0, <2>3
    <2>5. ThreadTypes'
      BY <1>0, <1>4, <2>4, GoToType DEF ForceCanceled
    <2> QED
      BY <1>0, <1>4, <2>1, <2>5 DEF ForceCanceled, Types, AgentTypes, NetTypes, JobTypes
  <1>5. ASSUME NEW upload \in BOOLEAN, Commit(upload) PROVE Types'
    <2>1. ThreadTypes'
      <3> [thread[Main] EXCEPT !.op = "send"] \in ThreadType /\ [thread[Main] EXCEPT !.op = "upload"] \in ThreadType
        BY <1>0, OpType DEF ThreadOps
      <3> QED
        BY <1>0, <1>5, GoToType DEF Commit
    <2> QED
      BY <1>0, <1>5, <2>1 DEF Commit, Types, FutTypes, AgentTypes, NetTypes, JobTypes, JobType
  <1>6. ASSUME NEW g \in Futures, SendTask(g) PROVE Types'
    <2>1. Returned \in [Futures -> FutureType]
      <3> SUFFICES ASSUME NEW f \in Futures
                   PROVE  [fut[f] EXCEPT !.given = @ \/ (f \in thread[Main].todo \ Umbrellas /\ Delayed(f))] \in FutureType
        BY DEF Returned
      <3> fut[f] \in FutureType
        BY <1>0 DEF FutTypes
      <3> QED
        BY DEF FutureType, Delayed
    <2>2. FutTypes'
      BY <1>0, <1>6, <2>1 DEF SendTask, FutTypes
    <2>3. NetTypes'
      <3> <<"task", g>> \in ClientMessages
        BY DEF ClientMessages, Names
      <3> QED
        BY <1>0, <1>6, SentType DEF SendTask, NetTypes
    <2>4. ThreadTypes'
      <3> thread[Main].sent \cup {g} \in SUBSET Futures
        BY <1>0
      <3> [thread[Main] EXCEPT !.sent = thread[Main].sent \cup {g}] \in ThreadType
        BY <1>0, OpType DEF ThreadOps
      <3> [Idle EXCEPT !.op = "collect", !.todo = thread[Main].todo] \in ThreadType
        BY <1>0 DEF ThreadOps
      <3> QED
        BY <1>0, <1>6, GoToType DEF SendTask
    <2> QED
      BY <1>0, <1>6, <2>2, <2>3, <2>4 DEF SendTask, Types, AgentTypes, JobTypes
  <1>7. ASSUME Abandon PROVE Types'
    <2>1. FutTypes'
      <3> SUFFICES ASSUME NEW f \in Futures
                   PROVE  [log[f] EXCEPT !.unsent = @ \/ f \in thread[Main].todo \ Unregistered] \in LogType
        BY <1>0, <1>7 DEF Abandon, FutTypes
      <3> log[f] \in LogType
        BY <1>0 DEF FutTypes
      <3> QED
        BY DEF LogType
    <2> QED
      BY <1>0, <1>7, <2>1, GoToType DEF Abandon, Types, AgentTypes, NetTypes, JobTypes
  <1>8. ASSUME Collect PROVE Types'
    <2> DEFINE f == CHOOSE f \in thread[Main].todo : TRUE
    <2>1. FutTypes'
      <3>1. CASE f \in Futures
        <4>1. fut[f] \in FutureType /\ log[f] \in LogType
          BY <1>0, <3>1 DEF FutTypes
        <4>2. log[f].seen \cup {fut[f].outcome} \in SUBSET (Outcomes \cup {"none"})
          BY <4>1 DEF FutureType, LogType
        <4>3. [log[f] EXCEPT !.seen = @ \cup {fut[f].outcome}] \in LogType
          BY <4>1, <4>2 DEF LogType
        <4> QED
          BY <1>0, <1>8, <3>1, <4>3 DEF Collect, FutTypes
      <3>2. CASE f \notin Futures
        <4> HIDE DEF f
        <4>1. log' = [log EXCEPT ![f].seen = @ \cup {fut[f].outcome}] /\ fut' = fut
          BY <1>8 DEF Collect, f
        <4>2. log' = log
          BY <1>0, <3>2, <4>1 DEF FutTypes
        <4> QED
          BY <1>0, <4>1, <4>2 DEF FutTypes
      <3> QED
        BY <3>1, <3>2
    <2>2. ThreadTypes'
      <3> CancelsAll("disconnect") \in ThreadType
        BY <1>0, CancelsAllType
      <3> thread[Main].todo \ {f} \in SUBSET Futures
        BY <1>0
      <3> [thread[Main] EXCEPT !.todo = @ \ {f}] \in ThreadType
        BY <1>0, OpType DEF ThreadOps
      <3> QED
        BY <1>0, <1>8, GoToType DEF Collect
    <2> QED
      BY <1>0, <1>8, <2>1, <2>2 DEF Collect, Types, AgentTypes, NetTypes, JobTypes
  <1>9. ASSUME SendClear PROVE Types'
    <2>1. <<"clear", {f \in Futures : fut[f].state # "pending"}>> \in ClientMessages
      BY DEF ClientMessages
    <2> QED
      BY <1>0, <1>9, <2>1, SentType, GoToType DEF SendClear, Types, FutTypes, AgentTypes, NetTypes, JobTypes
  <1>10. ASSUME Destroy PROVE Types'
    <2>1. [Idle EXCEPT !.op = "destroyed"] \in ThreadType
      BY DEF ThreadOps
    <2>2. [net EXCEPT !.pipe = "destroyed"] \in NetType
      BY <1>0 DEF NetTypes, NetType
    <2> QED
      BY <1>0, <1>10, <2>1, <2>2, GoToType DEF Destroy, Types, FutTypes, AgentTypes, NetTypes, JobTypes
  <1>11. ASSUME NEW next \in {"clear", "disconnect", "shutdown"}, CancelAll(next) PROVE Types'
    BY <1>0, <1>11, CancelsAllType, GoToType DEF CancelAll, Types, FutTypes, AgentTypes, NetTypes, JobTypes
  <1>12. ASSUME NEW next \in {"disconnect", "shutdown"}, SendQuit(next) PROVE Types'
    <2>1. <<next, Main>> \in ClientMessages
      BY DEF ClientMessages
    <2>2. [Idle EXCEPT !.op = "join"] \in ThreadType
      BY DEF ThreadOps
    <2> QED
      BY <1>0, <1>12, <2>1, <2>2, SentType, GoToType DEF SendQuit, Types, FutTypes, AgentTypes, NetTypes, JobTypes
  <1> QED
    BY <1>1, <1>2, <1>3, <1>4, <1>5, <1>6, <1>7, <1>8, <1>9, <1>10, <1>11, <1>12 DEF Api

LEMMA AskForType ==
  ASSUME Types, NEW t \in Threads, NEW f \in Futures, NEW then \in ThreadType, AskFor(t, f, then)
  PROVE  FutTypes' /\ ThreadTypes' /\ JobTypes'
  <1>1. fut[f] \in FutureType /\ log[f] \in LogType /\ FutTypes /\ ThreadTypes /\ JobTypes
    BY DEF Types, FutTypes
  <1>2. [fut[f] EXCEPT !.fetching = TRUE] \in FutureType
    BY <1>1 DEF FutureType
  <1>3. [log[f] EXCEPT !.fetched = @ + 1] \in LogType
    BY <1>1 DEF LogType
  <1>4. FutTypes'
    BY <1>1, <1>2, <1>3 DEF AskFor, FutTypes
  <1>5. JobTypes'
    BY <1>1 DEF AskFor, JobTypes, JobType
  <1>6. ThreadTypes'
    BY <1>1, IdleType, GoToType DEF AskFor
  <1> QED
    BY <1>4, <1>5, <1>6

LEMMA UserTypes ==
  ASSUME Types, NEW t \in Users, User(t)
  PROVE  Types'
  <1>0. /\ FutTypes /\ ThreadTypes /\ AgentTypes /\ NetTypes /\ JobTypes
        /\ t \in Threads /\ thread[t] \in ThreadType
    BY DEF Types, Threads, ThreadTypes
  <1> USE IdleType
  <1>a. PICK f \in Futures : UserCancel(t, f) \/ Result(t, f) \/ AddDoneCallback(t, f) \/ GetsOut(t, f)
    BY DEF User
  <1>b. fut[f] \in FutureType /\ log[f] \in LogType
    BY <1>0 DEF FutTypes
  <1>1. CASE UserCancel(t, f)
    <2>1. [Idle EXCEPT !.op = "canceling", !.todo = {f}] \in ThreadType
      BY DEF ThreadOps
    <2>2. Cancel(t, f, [Idle EXCEPT !.op = "canceling", !.todo = {f}], Idle)
      BY <1>1 DEF UserCancel
    <2>3. fut' \in [Futures -> FutureType] /\ ThreadTypes' /\ net' \in NetType
      BY <1>0, <2>1, <2>2, CancelTypes
    <2> QED
      BY <1>0, <1>1, <2>3 DEF UserCancel, Types, FutTypes, AgentTypes, NetTypes, JobTypes
  <1>2. CASE Result(t, f)
    <2>1. [Idle EXCEPT !.op = "result", !.todo = {f}] \in ThreadType
      BY DEF ThreadOps
    <2> QED
      BY <1>0, <1>2, <2>1, GoToType DEF Result, Types, FutTypes, AgentTypes, NetTypes, JobTypes
  <1>3. CASE AddDoneCallback(t, f)
    <2>0. 1 \in 0..1
      BY ONLY TRUE
    <2>1. [fut[f] EXCEPT !.callbacks = 1] \in FutureType
      BY ONLY <1>b, <2>0 DEF FutureType
    <2>2. fut' \in [Futures -> FutureType]
      BY <1>0, <1>3, <2>1 DEF AddDoneCallback, FutTypes
    <2> QED
      BY <1>0, <1>3, <2>2 DEF AddDoneCallback, Types, FutTypes, ThreadTypes, AgentTypes, NetTypes, JobTypes
  <1>4. CASE CancelReturns(t, f)
    BY <1>0, <1>4, GoToType DEF CancelReturns, Types, FutTypes, AgentTypes, NetTypes, JobTypes
  <1>5. CASE ResultReady(t, f)
    <2>1. [thread[t] EXCEPT !.op = "object"] \in ThreadType
      <3> {} \in SUBSET Futures
        OBVIOUS
      <3> QED
        BY <1>0, OpType DEF ThreadOps
    <2>2. FutTypes' /\ ThreadTypes' /\ JobTypes'
      <3>1. CASE Delayed(f)
        BY <1>0, <1>5, <2>1, <3>1, AskForType DEF ResultReady
      <3>2. CASE ~Delayed(f)
        BY <1>0, <1>5, <2>1, <3>2, GoToType DEF ResultReady, FutTypes, JobTypes
      <3> QED
        BY <3>1, <3>2
    <2> QED
      BY <1>0, <1>5, <2>2 DEF ResultReady, Types, AgentTypes, NetTypes
  <1>6. CASE ResultReturns(t, f)
    <2>1. log[f].seen \cup {fut[f].outcome} \in SUBSET (Outcomes \cup {"none"})
      BY <1>b DEF FutureType, LogType
    <2>2. [log[f] EXCEPT !.seen = @ \cup {fut[f].outcome}] \in LogType
      BY <1>b, <2>1 DEF LogType
    <2>3. log' \in [Futures -> LogType]
      BY <1>0, <1>6, <2>2 DEF ResultReturns, FutTypes
    <2> QED
      BY <1>0, <1>6, <2>3, GoToType DEF ResultReturns, Types, FutTypes, AgentTypes, NetTypes, JobTypes
  <1> QED
    BY <1>a, <1>1, <1>2, <1>3, <1>4, <1>5, <1>6 DEF GetsOut

LEMMA AgentLoopTypes ==
  ASSUME Types, AgentLoop
  PROVE  Types'
  <1>0. /\ FutTypes /\ ThreadTypes /\ AgentTypes /\ NetTypes /\ JobTypes
        /\ net \in NetType /\ agent \in AgentType /\ manager \in SUBSET Futures
        /\ net.inbox \in Seq(ClientMessages) /\ net.outbox \in Seq(ClientMessages) /\ net.answers \in Seq(Answers)
    BY DEF Types, NetTypes, NetType, AgentTypes
  <1>1. CASE FromClient
    <2> DEFINE kind == Head(net.inbox)[1]
               what == Head(net.inbox)[2]
               out == IF kind = "cancel" /\ what \notin agent.taskIds THEN net.outbox
                      ELSE Append(net.outbox, Head(net.inbox))
    <2>1. Head(net.inbox) \in ClientMessages /\ Tail(net.inbox) \in Seq(ClientMessages)
      BY <1>0, <1>1 DEF FromClient
    <2>2. out \in Seq(ClientMessages)
      BY <1>0, <2>1
    <2>3. net' = [net EXCEPT !.inbox = Tail(net.inbox), !.outbox = out]
      BY <1>1 DEF FromClient
    <2>4. net' \in NetType
      <3> HIDE DEF out
      <3> QED
        BY <1>0, <2>1, <2>2, <2>3 DEF NetType
    <2>5. agent' \in AgentType
      <3>1. CASE kind = "task"
        <4>1. agent' = [agent EXCEPT !.taskIds = @ \cup Members(what)]
          BY <1>1, <3>1 DEF FromClient
        <4>2. Members(what) \in SUBSET Futures
          BY DEF Members
        <4> QED
          BY <1>0, <4>1, <4>2 DEF AgentType
      <3>2. CASE kind = "disconnect"
        BY <1>0, <1>1, <3>2, EndsType DEF FromClient, Handled
      <3>3. CASE kind # "task" /\ kind # "disconnect"
        BY <1>0, <1>1, <3>3 DEF FromClient
      <3> QED
        BY <3>1, <3>2, <3>3
    <2> QED
      BY <1>0, <1>1, <2>4, <2>5 DEF FromClient, Types, FutTypes, ThreadTypes, AgentTypes, NetTypes, JobTypes
  <1>2. CASE FromScheduler
    <2> DEFINE kind == Head(net.answers)[1]
               f == Head(net.answers)[2]
               known == f \in agent.taskIds
    <2>1. Head(net.answers) \in Answers /\ Tail(net.answers) \in Seq(Answers)
      BY <1>0, <1>2 DEF FromScheduler
    <2>2. net' \in NetType
      <3>1. net' = [net EXCEPT !.answers = Tail(net.answers)]
        BY <1>2 DEF FromScheduler
      <3> QED
        BY <1>0, <2>1, <3>1 DEF NetType
    <2>3. agent' \in AgentType
      <3>1. CASE kind = "shutdown"
        BY <1>0, <1>2, <3>1, EndsType DEF FromScheduler, Handled
      <3>2. CASE kind # "shutdown"
        <4> DEFINE next == IF known /\ f \in manager /\ kind # "confirm" THEN <<f, kind>> ELSE agent.settling
        <4>1. agent' = [agent EXCEPT !.taskIds = agent.taskIds \ {f}, !.settling = next]
          BY <1>2, <3>2 DEF FromScheduler
        <4>2. kind \in {"value", "error", "died", "confirm"}
          BY <2>1, <3>2 DEF Answers
        <4>3. next \in {<<>>} \cup (Futures \X {"value", "error", "died"})
          BY <1>0, <4>2 DEF AgentType
        <4>4. agent.taskIds \ {f} \in SUBSET Futures
          BY <1>0 DEF AgentType
        <4> HIDE DEF next
        <4> QED
          BY <1>0, <4>1, <4>3, <4>4 DEF AgentType
      <3> QED
        BY <3>1, <3>2
    <2>4. manager' \in SUBSET Futures
      BY <1>0, <1>2 DEF FromScheduler
    <2>5. FutTypes'
      <3>1. CASE kind = "confirm" /\ known /\ f \in manager /\ ~Done(f)
        <4> Settle(f, "cancelled", "cancelled") /\ f \in Futures
          BY <1>0, <1>2, <3>1 DEF FromScheduler
        <4> QED
          BY <1>0, SettleType DEF Outcomes
      <3>2. CASE ~(kind = "confirm" /\ known /\ f \in manager /\ ~Done(f))
        BY <1>0, <1>2, <3>2 DEF FromScheduler, FutTypes
      <3> QED
        BY <3>1, <3>2
    <2> QED
      BY <1>0, <1>2, <2>2, <2>3, <2>4, <2>5 DEF FromScheduler, Types, ThreadTypes, AgentTypes, NetTypes, JobTypes
  <1>3. CASE ApplyResult
    <2> DEFINE f == agent.settling[1]
               kind == agent.settling[2]
    <2>1. f \in Futures /\ kind \in {"value", "error", "died"}
      BY <1>0, <1>3 DEF ApplyResult, AgentType
    <2> HIDE DEF f, kind
    <2>2. CASE Cancelled(f) \/ (IF kind = "died" THEN fut[f].received ELSE Done(f))
      <3> Ends("invalid") /\ UNCHANGED <<fut, jobs, log>>
        BY <1>3, <2>2 DEF ApplyResult, f, kind
      <3> QED
        BY <1>0, <1>3, EndsType DEF ApplyResult, Types, FutTypes, ThreadTypes, AgentTypes, NetTypes, JobTypes
    <2>3. CASE ~(Cancelled(f) \/ (IF kind = "died" THEN fut[f].received ELSE Done(f)))
      <3>1. /\ agent' = [agent EXCEPT !.settling = <<>>]
            /\ IF kind = "died" THEN Settle(f, "finished", "error") /\ UNCHANGED jobs
               ELSE SetResultReady(f, kind)
        BY <1>3, <2>3 DEF ApplyResult, f, kind
      <3>2. agent' \in AgentType
        BY <1>0, <3>1 DEF AgentType
      <3>3. FutTypes' /\ JobTypes'
        <4>1. CASE kind = "died"
          BY <1>0, <2>1, <3>1, <4>1, SettleType DEF Outcomes, JobTypes
        <4>2. CASE kind # "died"
          <5> kind \in Outcomes
            BY <2>1, <4>2 DEF Outcomes
          <5> QED
            BY <1>0, <2>1, <3>1, <4>2, ReadyType
        <4> QED
          BY <4>1, <4>2
      <3> QED
        BY <1>0, <1>3, <3>2, <3>3 DEF ApplyResult, Types, ThreadTypes, AgentTypes, NetTypes
    <2> QED
      BY <2>2, <2>3
  <1>4. ASSUME NEW job \in jobs, JobDone(job) PROVE Types'
    <2>1. jobs' \in SUBSET JobType
      BY <1>0, <1>4 DEF JobDone, JobTypes
    <2>2. CASE job[1] = "upload"
      <3>1. [thread[Main] EXCEPT !.op = "send"] \in ThreadType
        <4> {} \in SUBSET Futures
          OBVIOUS
        <4> QED
          BY <1>0, OpType, MainType DEF ThreadOps
      <3> QED
        BY <1>0, <1>4, <2>1, <2>2, <3>1, GoToType, MainType
        DEF JobDone, Types, FutTypes, AgentTypes, NetTypes, JobTypes
    <2>3. CASE job[1] # "upload"
      <3>1. job[2] \in Futures
        BY <1>0, <2>3 DEF JobTypes, JobType
      <3>2. fut[job[2]].outcome \in Outcomes \cup {"none"}
        BY <1>0, <3>1 DEF FutTypes, FutureType
      <3>3. FutTypes'
        <4>1. CASE fut[job[2]].received
          BY <1>0, <1>4, <2>3, <4>1 DEF JobDone, FutTypes
        <4>2. CASE ~fut[job[2]].received
          BY <1>0, <1>4, <2>3, <3>1, <3>2, <4>2, SettleType DEF JobDone
        <4> QED
          BY <4>1, <4>2
      <3> QED
        BY <1>0, <1>4, <2>1, <2>3, <3>3 DEF JobDone, Types, ThreadTypes, AgentTypes, NetTypes, JobTypes
    <2> QED
      BY <2>2, <2>3
  <1> QED
    BY <1>1, <1>2, <1>3, <1>4 DEF AgentLoop

LEMMA TeardownTypes ==
  ASSUME Types, Teardown
  PROVE  Types'
  <1>0. /\ FutTypes /\ ThreadTypes /\ AgentTypes /\ NetTypes /\ JobTypes
        /\ net \in NetType /\ agent \in AgentType /\ manager \in SUBSET Futures
    BY DEF Types, NetTypes, AgentTypes
  <1>a. \A f \in Futures : /\ fut[f] \in FutureType /\ log[f] \in LogType
                           /\ Settled(f, "finished", "error") \in FutureType
                           /\ CallbacksRun(f, "error") \in LogType
    BY <1>0, SettledType DEF FutTypes, Outcomes
  <1>1. CASE DestroyConnectors
    <2>1. agent' \in AgentType
      BY <1>0, <1>1 DEF DestroyConnectors, AgentType
    <2>2. <<>> \in Seq(ClientMessages) /\ <<>> \in Seq(Answers)
      OBVIOUS
    <2>3. [pipe |-> "closing", inbox |-> <<>>, outbox |-> <<>>, answers |-> <<>>] \in NetType
      BY <2>2 DEF NetType
    <2>4. NetTypes'
      BY <1>1, <2>3 DEF DestroyConnectors, NetTypes
    <2> QED
      BY <1>0, <1>1, <2>1, <2>4 DEF DestroyConnectors, Types, FutTypes, ThreadTypes, AgentTypes, JobTypes
  <1>2. CASE SetAllFutures
    <2>1. agent' \in AgentType /\ manager' \in SUBSET Futures
      BY <1>0, <1>2 DEF SetAllFutures, AgentType
    <2>2. FutTypes'
      BY <1>2, <1>a DEF SetAllFutures, FutTypes
    <2> QED
      BY <1>0, <1>2, <2>1, <2>2 DEF SetAllFutures, Types, ThreadTypes, AgentTypes, NetTypes, JobTypes
  <1>3. CASE CancelPending
    <2>1. agent' \in AgentType
      BY <1>0, <1>3 DEF CancelPending, AgentType
    <2>2. FutTypes'
      BY <1>3, <1>a DEF CancelPending, FutTypes
    <2>3. ThreadTypes'
      BY <1>0, <1>3, GoToType, MainType, IdleType DEF CancelPending
    <2> QED
      BY <1>0, <1>3, <2>1, <2>2, <2>3 DEF CancelPending, Types, AgentTypes, NetTypes, JobTypes
  <1>4. CASE CloseLoop
    <2>1. agent' \in AgentType
      BY <1>0, <1>4 DEF CloseLoop, AgentType
    <2> QED
      BY <1>0, <1>4, <2>1 DEF CloseLoop, Types, FutTypes, ThreadTypes, AgentTypes, NetTypes, JobTypes
  <1>5. CASE PipeCloses
    <2>1. net' \in NetType
      BY <1>0, <1>5 DEF PipeCloses, NetType
    <2> QED
      BY <1>0, <1>5, <2>1 DEF PipeCloses, Types, FutTypes, ThreadTypes, AgentTypes, NetTypes, JobTypes
  <1> QED
    BY <1>1, <1>2, <1>3, <1>4, <1>5 DEF Teardown

LEMMA ConcatType ==
  ASSUME NEW S, NEW p \in Seq(S), NEW q \in Seq(S)
  PROVE  p \o q \in Seq(S)
  OBVIOUS

\* What the scheduler does: answers are added, messages are taken, tasks move.
LEMMA SchedulerTypes ==
  ASSUME Types, Scheduler
  PROVE  Types'
  <1>0. /\ FutTypes /\ ThreadTypes /\ AgentTypes /\ NetTypes /\ JobTypes
        /\ net \in NetType /\ held \in [tasks : SUBSET Futures, stray : SUBSET Futures]
        /\ net.outbox \in Seq(ClientMessages) /\ net.answers \in Seq(Answers)
    BY DEF Types, NetTypes, NetType
  <1>a. ASSUME NEW as \in Seq(Answers), net' = [net EXCEPT !.answers = @ \o as] PROVE net' \in NetType
    <2>1. net.answers \o as \in Seq(Answers)
      BY <1>0, ConcatType
    <2> QED
      BY <1>0, <1>a, <2>1 DEF NetType
  <1>b. ASSUME NEW as \in Seq(Answers), net.outbox # <<>>,
               net' = [net EXCEPT !.outbox = Tail(@), !.answers = @ \o as]
        PROVE  net' \in NetType
    <2>1. net.answers \o as \in Seq(Answers)
      BY <1>0, ConcatType
    <2>2. Tail(net.outbox) \in Seq(ClientMessages)
      BY <1>0, <1>b
    <2> QED
      BY <1>0, <1>b, <2>1, <2>2 DEF NetType
  <1>c. <<>> \in Seq(Answers)
    OBVIOUS
  <1>d. \A kind \in {"value", "error", "died", "confirm"}, f \in Names : <<<<kind, f>>>> \in Seq(Answers)
    BY DEF Answers
  <1>e. <<<<"shutdown", Main>>>> \in Seq(Answers)
    BY DEF Answers
  <1>1. CASE SchedulerReceives
    <2> DEFINE kind == Head(net.outbox)[1]
               what == Head(net.outbox)[2]
               mine == IF kind \in {"task", "cancel"} THEN held.tasks \cap Members(what) ELSE {}
    <2>1. Head(net.outbox) \in ClientMessages /\ net.outbox # <<>>
      BY <1>0, <1>1 DEF SchedulerReceives
    <2>2. mine \in SUBSET Futures /\ Members(what) \in SUBSET Futures
      BY <1>0 DEF Members
    <2>3. kind = "cancel" => what \in Names
      BY <2>1 DEF ClientMessages
    <2>4. net' \in NetType
      <3>1. \E as \in Seq(Answers) : net' = [net EXCEPT !.outbox = Tail(@), !.answers = @ \o as]
        <4>1. CASE kind = "task"
          BY <1>1, <1>c, <4>1 DEF SchedulerReceives
        <4>2. CASE kind = "cancel"
          <5>1. Confirms(mine) \in Seq(Answers)
            BY <2>2, ConfirmsType
          <5>2. <<<<"confirm", what>>>> \in Seq(Answers)
            BY <1>d, <2>3, <4>2
          <5> QED
            BY <1>1, <1>c, <4>2, <5>1, <5>2 DEF SchedulerReceives
        <4>3. CASE kind = "shutdown"
          BY <1>1, <1>e, <4>3 DEF SchedulerReceives
        <4>4. CASE kind \notin {"task", "cancel", "shutdown"}
          BY <1>1, <1>c, <4>4 DEF SchedulerReceives
        <4> QED
          BY <4>1, <4>2, <4>3, <4>4
      <3> QED
        BY <1>b, <2>1, <3>1
    <2>5. held' \in [tasks : SUBSET Futures, stray : SUBSET Futures]
      BY <1>0, <1>1, <2>1, <2>2 DEF SchedulerReceives
    <2> QED
      BY <1>0, <1>1, <2>4, <2>5 DEF SchedulerReceives, Types, FutTypes, ThreadTypes, AgentTypes, NetTypes, JobTypes
  <1>2. ASSUME NEW f \in Futures, NEW outcome \in {"value", "error", "died"}, SchedulerAnswers(f, outcome) PROVE Types'
    <2>1. <<<<outcome, f>>>> \in Seq(Answers)
      BY <1>d DEF Names
    <2>2. net' \in NetType
      BY <1>2, <1>a, <2>1 DEF SchedulerAnswers, Answered
    <2>3. held' \in [tasks : SUBSET Futures, stray : SUBSET Futures]
      BY <1>0, <1>2 DEF SchedulerAnswers
    <2> QED
      BY <1>0, <1>2, <2>2, <2>3 DEF SchedulerAnswers, Types, FutTypes, ThreadTypes, AgentTypes, NetTypes, JobTypes
  <1>3. ASSUME NEW u \in Futures, NEW outcome \in {"error", "died"}, NEW running \in SUBSET Futures, SchedulerAborts(u, outcome, running)
        PROVE  Types'
    <2> DEFINE mine == held.tasks \cap Members(u)
               confirms == Confirms(mine)
               failed == [i \in DOMAIN confirms |-> <<outcome, confirms[i][2]>>]
    <2>1. mine \in SUBSET Futures
      BY <1>0
    <2>2. confirms \in Seq({"confirm"} \X mine)
      BY <2>1, ConfirmsType
    <2> HIDE DEF confirms
    <2>3. failed \in Seq(Answers)
      <3>1. \A i \in DOMAIN confirms : confirms[i][2] \in Futures
        BY <2>1, <2>2
      <3>2. \A i \in DOMAIN confirms : <<outcome, confirms[i][2]>> \in Answers
        BY <3>1 DEF Answers, Names
      <3>3. Len(confirms) \in Nat /\ DOMAIN confirms = 1..Len(confirms)
        BY <2>2
      <3> QED
        BY <3>2, <3>3
    <2>4. Answered(failed)
      BY <1>3 DEF SchedulerAborts, confirms
    <2>5. net' \in NetType
      <3> HIDE DEF failed
      <3> QED
        BY <1>a, <2>3, <2>4 DEF Answered
    <2>6. held' \in [tasks : SUBSET Futures, stray : SUBSET Futures]
      BY <1>0, <1>3 DEF SchedulerAborts
    <2> QED
      BY <1>0, <1>3, <2>5, <2>6 DEF SchedulerAborts, Types, FutTypes, ThreadTypes, AgentTypes, NetTypes, JobTypes
  <1>4. ASSUME NEW f \in Futures, StrayEnds(f) PROVE Types'
    <2>1. <<<<"value", f>>>> \in Seq(Answers)
      BY <1>d DEF Names
    <2>2. net' \in NetType
      BY <1>4, <1>a, <2>1 DEF StrayEnds, Answered
    <2>3. held' \in [tasks : SUBSET Futures, stray : SUBSET Futures]
      BY <1>0, <1>4 DEF StrayEnds
    <2> QED
      BY <1>0, <1>4, <2>2, <2>3 DEF StrayEnds, Types, FutTypes, ThreadTypes, AgentTypes, NetTypes, JobTypes
  <1> QED
    BY <1>1, <1>2, <1>3, <1>4 DEF Scheduler

LEMMA TypesInit == Init => Types
  <1> SUFFICES ASSUME Init PROVE Types
    OBVIOUS
  <1>1. NewFuture \in FutureType
    <2> 0 \in 0..1
      OBVIOUS
    <2> QED
      BY DEF NewFuture, FutureType
  <1>2. FutTypes
    BY <1>1 DEF Init, FutTypes, LogType
  <1>3. ThreadTypes
    BY IdleType DEF Init, ThreadTypes
  <1>4. AgentTypes
    BY DEF Init, AgentTypes, AgentType
  <1>5. NetTypes
    <2> <<>> \in Seq(ClientMessages) /\ <<>> \in Seq(Answers)
      OBVIOUS
    <2> QED
      BY DEF Init, NetTypes, NetType
  <1> QED
    BY <1>2, <1>3, <1>4, <1>5 DEF Init, Types, JobTypes

LEMMA TypesStep == Types /\ [Next]_vars => Types'
  <1> SUFFICES ASSUME Types, [Next]_vars PROVE Types'
    OBVIOUS
  <1>1. CASE Api
    BY <1>1, ApiTypes
  <1>2. ASSUME NEW t \in Users, User(t) PROVE Types'
    BY <1>2, UserTypes
  <1>3. CASE AgentLoop
    BY <1>3, AgentLoopTypes
  <1>4. CASE Teardown
    BY <1>4, TeardownTypes
  <1>5. CASE Scheduler
    BY <1>5, SchedulerTypes
  <1>6. ASSUME NEW kind \in EventKinds \ {"clear"}, LoopFails(kind) PROVE Types'
    <2>1. agent' \in AgentType
      BY <1>6, EndsType DEF LoopFails, EventKinds, Handled, Types
    <2> QED
      BY <1>6, <2>1 DEF LoopFails, Types, FutTypes, ThreadTypes, AgentTypes, NetTypes, JobTypes
  <1>7. CASE UNCHANGED vars
    BY <1>7 DEF vars, Types, FutTypes, ThreadTypes, AgentTypes, NetTypes, JobTypes
  <1> QED
    BY <1>1, <1>2, <1>3, <1>4, <1>5, <1>6, <1>7 DEF Next

-----------------------------------------------------------------------------
(* What a step does to the fields of a future.                             *)

Counted(g) == log[g].fetched = IF fut[g].fetching THEN 1 ELSE 0
Unmoved(g) ==
    /\ fut'[g].state = fut[g].state /\ fut'[g].received = fut[g].received /\ fut'[g].oid = fut[g].oid
    /\ fut'[g].outcome = fut[g].outcome /\ log'[g].late = log[g].late
    /\ Counted(g) => Counted(g)'
Identity(g) == fut'[g].call = fut[g].call /\ fut'[g].group = fut[g].group /\ fut'[g].given = fut[g].given

\* Settling a future changes nothing of the others.
LEMMA SettleMoves ==
  ASSUME FutTypes, NEW f \in Futures, NEW state, NEW outcome, Settle(f, state, outcome)
  PROVE  /\ \A g \in Futures : Identity(g) /\ (g # f => Unmoved(g))
         /\ fut'[f].state = state /\ fut'[f].received = TRUE /\ fut'[f].oid = fut[f].oid
         /\ fut'[f].outcome = outcome /\ log'[f].late = log[f].late
         /\ Counted(f) => Counted(f)'
  <1>1. fut[f] \in FutureType /\ log[f] \in LogType
    BY DEF FutTypes
  <1>2. \A g \in Futures : g # f => fut'[g] = fut[g] /\ log'[g] = log[g]
    BY DEF Settle, FutTypes
  <1>3. fut'[f] = Settled(f, state, outcome) /\ log'[f] = CallbacksRun(f, outcome)
    BY DEF Settle, FutTypes
  <1>4. /\ fut'[f].state = state /\ fut'[f].received = TRUE /\ fut'[f].oid = fut[f].oid
        /\ fut'[f].outcome = outcome /\ fut'[f].fetching = fut[f].fetching /\ Identity(f)
    BY <1>1, <1>3 DEF Settled, FutureType, Identity
  <1>5. log'[f].late = log[f].late /\ log'[f].fetched = log[f].fetched
    BY <1>1, <1>3 DEF CallbacksRun, LogType
  <1> QED
    BY <1>2, <1>4, <1>5 DEF Identity, Unmoved, Counted

\* A result that is named makes its future finished, and asks for the object at
\* most once.
LEMMA ReadyMoves ==
  ASSUME FutTypes, NEW f \in Futures, NEW outcome, SetResultReady(f, outcome)
  PROVE  /\ \A g \in Futures : Identity(g) /\ (g # f => Unmoved(g))
         /\ fut'[f].state = "finished" /\ fut'[f].received = fut[f].received
         /\ fut'[f].outcome = outcome /\ log'[f].late = log[f].late
         /\ Counted(f) => Counted(f)'
         /\ jobs' \subseteq jobs \cup {<<"fetch", f>>}
  <1>1. fut[f] \in FutureType /\ log[f] \in LogType
    BY DEF FutTypes
  <1> DEFINE ready == [fut[f] EXCEPT !.state = "finished", !.oid = f \notin Umbrellas, !.outcome = outcome]
             now == FetchesNow(f) /\ StartsFetch(ready)
  <1>2. /\ fut' = [fut EXCEPT ![f] = [ready EXCEPT !.fetching = @ \/ now]]
        /\ jobs' = IF now THEN jobs \cup {<<"fetch", f>>} ELSE jobs
        /\ log' = IF now THEN [log EXCEPT ![f].fetched = @ + 1] ELSE log
    BY DEF SetResultReady
  <1>3. /\ ready.state = "finished" /\ ready.received = fut[f].received /\ ready.outcome = outcome
        /\ ready.call = fut[f].call /\ ready.group = fut[f].group /\ ready.given = fut[f].given
        /\ ready.fetching = fut[f].fetching
    BY <1>1 DEF FutureType
  <1>4. now => ~ready.fetching
    BY DEF StartsFetch
  <1>5. \A g \in Futures : g # f => fut'[g] = fut[g] /\ log'[g] = log[g]
    BY <1>2 DEF FutTypes
  <1>6. DOMAIN ready = DOMAIN fut[f] /\ "fetching" \in DOMAIN ready
    BY <1>1 DEF FutureType
  <1> HIDE DEF ready, now
  <1>7. fut'[f] = [ready EXCEPT !.fetching = @ \/ now] /\ log'[f] = IF now THEN [log[f] EXCEPT !.fetched = @ + 1] ELSE log[f]
    BY <1>2 DEF FutTypes
  <1>8. /\ fut'[f].state = "finished" /\ fut'[f].received = fut[f].received
        /\ fut'[f].outcome = outcome /\ Identity(f)
    BY <1>3, <1>7 DEF Identity
  <1>9. fut'[f].fetching = (ready.fetching \/ now)
    BY <1>6, <1>7
  <1>10. log'[f].late = log[f].late /\ log'[f].fetched = IF now THEN log[f].fetched + 1 ELSE log[f].fetched
    BY <1>1, <1>7 DEF LogType
  <1>11. Counted(f) => Counted(f)'
    <2>1. CASE now
      <3>1. ~fut[f].fetching /\ fut'[f].fetching
        BY <1>3, <1>4, <1>9, <2>1
      <3>2. log[f].fetched \in Nat /\ log'[f].fetched = log[f].fetched + 1
        BY <1>1, <1>10, <2>1 DEF LogType
      <3> QED
        BY <3>1, <3>2 DEF Counted
    <2>2. CASE ~now
      <3> fut[f].fetching \in BOOLEAN
        BY <1>1 DEF FutureType
      <3> QED
        BY <1>3, <1>9, <1>10, <2>2 DEF Counted
    <2> QED
      BY <2>1, <2>2
  <1> QED
    BY <1>2, <1>5, <1>8, <1>10, <1>11 DEF Identity, Unmoved, Counted

\* Asking for an object is all that AskFor does to a future.
LEMMA AskForMoves ==
  ASSUME Types, NEW t, NEW f \in Futures, NEW then, AskFor(t, f, then)
  PROVE  /\ \A g \in Futures : Identity(g) /\ Unmoved(g)
         /\ jobs' \subseteq jobs \cup {<<"fetch", f>>}
  <1>1. fut[f] \in FutureType /\ log[f] \in LogType /\ FutTypes
    BY DEF FutTypes, Types
  <1> DEFINE starts == StartsFetch(fut[f]) /\ agent.phase # "closed"
  <1>2. /\ fut' = IF starts THEN [fut EXCEPT ![f].fetching = TRUE] ELSE fut
        /\ jobs' = IF starts THEN jobs \cup {<<"fetch", f>>} ELSE jobs
        /\ log' = IF starts THEN [log EXCEPT ![f].fetched = @ + 1] ELSE log
    BY DEF AskFor
  <1>3. starts => ~fut[f].fetching
    BY DEF StartsFetch
  <1> HIDE DEF starts
  <1>4. CASE ~starts
    BY <1>2, <1>4 DEF Identity, Unmoved, Counted
  <1>5. CASE starts
    <2>1. \A g \in Futures : g # f => fut'[g] = fut[g] /\ log'[g] = log[g]
      BY <1>1, <1>2, <1>5 DEF FutTypes
    <2>2. fut'[f] = [fut[f] EXCEPT !.fetching = TRUE] /\ log'[f] = [log[f] EXCEPT !.fetched = @ + 1]
      BY <1>1, <1>2, <1>5 DEF FutTypes
    <2>3. /\ Identity(f) /\ fut'[f].state = fut[f].state /\ fut'[f].received = fut[f].received
          /\ fut'[f].oid = fut[f].oid /\ fut'[f].outcome = fut[f].outcome /\ fut'[f].fetching = TRUE
      BY <1>1, <2>2 DEF Identity, FutureType
    <2>4. log'[f].late = log[f].late /\ log'[f].fetched = log[f].fetched + 1
      BY <1>1, <2>2 DEF LogType
    <2> QED
      BY <1>2, <1>3, <1>5, <2>1, <2>3, <2>4 DEF Identity, Unmoved, Counted
  <1> QED
    BY <1>4, <1>5

\* So is asking for a cancel.
LEMMA CancelMoves ==
  ASSUME Types, NEW t, NEW f \in Futures, NEW waiting, NEW raised, Cancel(t, f, waiting, raised), log' = log
  PROVE  /\ \A g \in Futures : Identity(g) /\ Unmoved(g)
         /\ net'.pipe = net.pipe /\ net'.outbox = net.outbox /\ net'.answers = net.answers
  <1>1. fut[f] \in FutureType /\ FutTypes /\ net \in NetType
    BY DEF FutTypes, Types, NetTypes
  <1>2. \A g \in Futures : g # f => fut'[g] = fut[g]
    BY <1>1 DEF Cancel, FutTypes
  <1>3. fut'[f] = fut[f] \/ fut'[f] = [fut[f] EXCEPT !.requested = TRUE]
    BY <1>1 DEF Cancel, FutTypes
  <1>4. /\ Identity(f) /\ fut'[f].state = fut[f].state /\ fut'[f].received = fut[f].received
        /\ fut'[f].oid = fut[f].oid /\ fut'[f].outcome = fut[f].outcome /\ fut'[f].fetching = fut[f].fetching
    BY <1>1, <1>3 DEF Identity, FutureType
  <1>5. net'.pipe = net.pipe /\ net'.outbox = net.outbox /\ net'.answers = net.answers
    BY <1>1 DEF Cancel, Sent, NetType
  <1> QED
    BY <1>2, <1>4, <1>5 DEF Identity, Unmoved, Counted

\* The end of the agent settles a set of futures at once.
LEMMA FailMoves ==
  ASSUME FutTypes, NEW S,
         fut' = [f \in Futures |-> IF f \in S THEN Settled(f, "finished", "error") ELSE fut[f]],
         log' = [f \in Futures |-> IF f \in S THEN CallbacksRun(f, "error") ELSE log[f]]
  PROVE  \A g \in Futures :
            /\ Identity(g) /\ (Counted(g) => Counted(g)')
            /\ g \notin S => Unmoved(g)
            /\ g \in S => /\ fut'[g].state = "finished" /\ fut'[g].received = TRUE
                          /\ fut'[g].oid = fut[g].oid /\ fut'[g].outcome = "error"
                          /\ log'[g].late = log[g].late
  <1> SUFFICES ASSUME NEW g \in Futures
               PROVE  /\ Identity(g) /\ (Counted(g) => Counted(g)')
                      /\ g \notin S => Unmoved(g)
                      /\ g \in S => /\ fut'[g].state = "finished" /\ fut'[g].received = TRUE
                                    /\ fut'[g].oid = fut[g].oid /\ fut'[g].outcome = "error"
                                    /\ log'[g].late = log[g].late
    OBVIOUS
  <1>1. fut[g] \in FutureType /\ log[g] \in LogType
    BY DEF FutTypes
  <1>2. CASE g \notin S
    <2> fut'[g] = fut[g] /\ log'[g] = log[g]
      BY <1>2
    <2> QED
      BY <1>2 DEF Identity, Unmoved, Counted
  <1>3. CASE g \in S
    <2>1. fut'[g] = Settled(g, "finished", "error") /\ log'[g] = CallbacksRun(g, "error")
      BY <1>3
    <2>2. /\ fut'[g].state = "finished" /\ fut'[g].received = TRUE /\ fut'[g].oid = fut[g].oid
          /\ fut'[g].outcome = "error" /\ fut'[g].fetching = fut[g].fetching /\ Identity(g)
      BY <1>1, <2>1 DEF Settled, FutureType, Identity
    <2>3. log'[g].late = log[g].late /\ log'[g].fetched = log[g].fetched
      BY <1>1, <2>1 DEF CallbacksRun, LogType
    <2> QED
      BY <1>3, <2>2, <2>3 DEF Counted
  <1> QED
    BY <1>2, <1>3

-----------------------------------------------------------------------------
(* Every future is settled once.                                           *)

Early == {"running", "stopping", "destroyed"}

\* While the agent runs, the manager holds running futures only.
Managed == agent.phase = "running" => \A f \in manager : fut[f].state = "running"
\* The future the agent took out of the manager is still to be settled.
InHand == agent.settling # <<>> =>
             /\ agent.phase = "running" /\ fut[agent.settling[1]].state = "running"
             /\ agent.settling[1] \notin manager
\* A future that is not done has no outcome and no object.
Fresh == \A f \in Futures :
            /\ fut[f].state \in {"pending", "running"} => ~fut[f].received /\ ~fut[f].oid
            /\ fut[f].state = "pending" => f \notin manager
\* An object is asked for once, and only when its future is done.
Fetching == \A f \in Futures :
               /\ <<"fetch", f>> \in jobs => fut[f].state \notin {"pending", "running"}
               /\ Counted(f)
\* A future is forced only over a closed pipe, which the agent closes when it ends.
Alive == /\ agent.ended # "invalid"
         /\ net.pipe # "open" => agent.phase \notin {"running", "stopping"}
         /\ At(Main, "forced") => net.pipe # "open"
\* A running future is in the manager or in the agent's hand until the agent has
\* settled all of them; after that only one registered too late is running.
Kept == /\ agent.phase \in Early =>
              \A f \in Futures : fut[f].state = "running" =>
                  f \in manager \/ (agent.settling # <<>> /\ f = agent.settling[1])
        /\ agent.phase \notin Early /\ agent.ended \in Handled =>
              \A f \in Futures : fut[f].state = "running" => log[f].late
SettleInv == Managed /\ InHand /\ Fresh /\ Fetching /\ Alive /\ Kept

\* A step that settles nothing and leaves manager, agent and pipe alone.
LEMMA QuietSettle ==
  ASSUME Types, SettleInv, \A g \in Futures : Unmoved(g), manager' = manager,
         agent'.phase = agent.phase, agent'.ended = agent.ended, agent'.settling = agent.settling,
         net'.pipe = net.pipe,
         \A f \in Futures : <<"fetch", f>> \in jobs' => <<"fetch", f>> \in jobs \/ fut[f].state \notin {"pending", "running"},
         At(Main, "forced")' => At(Main, "forced") \/ net.pipe # "open"
  PROVE  SettleInv'
  <1>0. manager \in SUBSET Futures /\ (agent.settling # <<>> => agent.settling[1] \in Futures)
    BY DEF Types, AgentTypes, AgentType
  <1>1. Managed'
    BY <1>0 DEF SettleInv, Managed, Unmoved
  <1>2. InHand'
    BY <1>0 DEF SettleInv, InHand, Unmoved
  <1>3. Fresh'
    BY DEF SettleInv, Fresh, Unmoved
  <1>4. Fetching'
    BY DEF SettleInv, Fetching, Unmoved
  <1>5. Alive'
    BY DEF SettleInv, Alive
  <1>6. Kept'
    BY DEF SettleInv, Kept, Unmoved
  <1> QED
    BY <1>1, <1>2, <1>3, <1>4, <1>5, <1>6 DEF SettleInv

\* The op of Main after a step of Main.
LEMMA MainGoes ==
  ASSUME Types, NEW state, GoTo(Main, state)
  PROVE  thread'[Main] = state
  BY MainType DEF Types, ThreadTypes, GoTo

\* Nothing that is asked to be sent changes the state of the pipe.
LEMMA SentPipe ==
  ASSUME Types, NEW message
  PROVE  /\ Sent(message).pipe = net.pipe /\ Sent(message).outbox = net.outbox /\ Sent(message).answers = net.answers
         /\ Sent(message).inbox = IF net.pipe = "open" THEN Append(net.inbox, message) ELSE net.inbox
  <1> net \in NetType
    BY DEF Types, NetTypes
  <1> QED
    BY DEF Sent, NetType

LEMMA UnchangedMoves ==
  ASSUME fut' = fut, log' = log
  PROVE  \A g \in Futures : Identity(g) /\ Unmoved(g)
  BY DEF Identity, Unmoved, Counted

LEMMA ApiSettle ==
  ASSUME Types, SettleInv, Api
  PROVE  SettleInv'
  <1>0. /\ FutTypes /\ thread[Main] \in ThreadType /\ thread[Main].todo \in SUBSET Futures /\ manager \in SUBSET Futures
        /\ \A f \in Futures : fut[f] \in FutureType /\ log[f] \in LogType
        /\ net \in NetType
    BY MainType DEF Types, ThreadType, ThreadRecord, AgentTypes, FutTypes, NetTypes
  <1>1. ASSUME NEW c \in Calls, Submit(c) PROVE SettleInv'
    <2>1. \A g \in Futures : Unmoved(g)
      <3> SUFFICES ASSUME NEW g \in Futures PROVE Unmoved(g)
        OBVIOUS
      <3>1. fut'[g] = fut[g] \/ fut'[g] = [fut[g] EXCEPT !.call = c.kind, !.group = IF c.kind = "get" THEN c.umbrella ELSE g]
        BY <1>1 DEF Submit
      <3>2. log' = log
        BY <1>1 DEF Submit
      <3>3. /\ fut'[g].state = fut[g].state /\ fut'[g].received = fut[g].received /\ fut'[g].oid = fut[g].oid
            /\ fut'[g].outcome = fut[g].outcome /\ fut'[g].fetching = fut[g].fetching
        BY <1>0, <3>1 DEF FutureType
      <3> QED
        BY <3>2, <3>3 DEF Unmoved, Counted
    <2>2. thread'[Main].op = "add"
      BY <1>1, MainGoes, IdleType DEF Submit, Idle
    <2> QED
      BY <1>1, <2>1, <2>2, QuietSettle DEF Submit, At
  <1>2. ASSUME NEW f \in Futures, AddFuture(f) PROVE SettleInv'
    <2>1. f \in thread[Main].todo /\ fut[f].state = "pending"
      BY <1>2 DEF AddFuture, Unregistered
    <2>2. \A g \in Futures : g # f => fut'[g] = fut[g] /\ log'[g] = log[g]
      BY <1>0, <1>2 DEF AddFuture, FutTypes
    <2>3. fut'[f] = [fut[f] EXCEPT !.state = "running"] /\ log'[f] = [log[f] EXCEPT !.late = agent.phase \in {"settled", "drained", "closed"}]
      BY <1>0, <1>2 DEF AddFuture, FutTypes
    <2>4. /\ fut'[f].state = "running" /\ fut'[f].received = fut[f].received /\ fut'[f].oid = fut[f].oid
          /\ fut'[f].fetching = fut[f].fetching
      BY <1>0, <2>3 DEF FutureType
    <2>5. log'[f].fetched = log[f].fetched /\ log'[f].late = (agent.phase \in {"settled", "drained", "closed"})
      BY <1>0, <2>3 DEF LogType
    <2>6. thread'[Main].op # "forced"
      <3> thread'[Main].op \in {"commit", "add"}
        BY <1>0, <1>2, MainGoes DEF AddFuture, ThreadType, ThreadRecord
      <3> QED
        OBVIOUS
    <2>7. manager' = manager \cup {f} /\ agent' = agent /\ jobs' = jobs /\ net' = net
      BY <1>2 DEF AddFuture
    <2>8. agent.settling # <<>> => agent.settling[1] \in Futures /\ agent.settling[1] # f
      BY <2>1 DEF Types, AgentTypes, AgentType, SettleInv, InHand
    <2>9. agent.phase \notin Early => agent.phase \in {"settled", "drained", "closed"}
      BY DEF Types, AgentTypes, AgentType, Early
    <2>10. Managed'
      BY <1>0, <2>2, <2>4, <2>7 DEF SettleInv, Managed
    <2>11. InHand'
      BY <2>2, <2>7, <2>8 DEF SettleInv, InHand
    <2>12. Fresh'
      BY <2>1, <2>2, <2>4, <2>7 DEF SettleInv, Fresh
    <2>13. Fetching'
      BY <2>1, <2>2, <2>4, <2>5, <2>7 DEF SettleInv, Fetching, Counted
    <2>14. Alive'
      BY <2>6, <2>7 DEF SettleInv, Alive, At
    <2>15. Kept'
      BY <2>1, <2>2, <2>4, <2>5, <2>7, <2>9 DEF SettleInv, Kept
    <2> QED
      BY <2>10, <2>11, <2>12, <2>13, <2>14, <2>15 DEF SettleInv
  <1>3. ASSUME NEW f \in Futures, CancelNext(f) PROVE SettleInv'
    <2> DEFINE waiting == [thread[Main] EXCEPT !.op = "forcing", !.next = <<f, thread[Main].next>>]
               raised == [waiting EXCEPT !.op = "forced"]
    <2>1. Cancel(Main, f, waiting, raised) /\ UNCHANGED <<manager, agent, jobs, held, budget, log>>
      BY <1>3 DEF CancelNext
    <2>2. waiting.op = "forcing"
      BY <1>0 DEF ThreadType, ThreadRecord
    <2> HIDE DEF waiting, raised
    <2>3. (\A g \in Futures : Identity(g) /\ Unmoved(g)) /\ net'.pipe = net.pipe
      BY <2>1, CancelMoves
    <2>4. thread'[Main] = waiting \/ net.pipe # "open"
      BY <2>1, MainGoes DEF Cancel, Raises
    <2> QED
      BY <2>1, <2>2, <2>3, <2>4, QuietSettle DEF At
  <1>4. ASSUME NEW f \in Futures, ForceCanceled(f) PROVE SettleInv'
    <2>1. manager' = manager /\ agent' = agent /\ jobs' = jobs /\ net' = net
      BY <1>4 DEF ForceCanceled
    <2>2. thread'[Main].op # "forced"
      BY <1>0, <1>4, MainGoes DEF ForceCanceled, Idle
    <2>3. CASE Cancelled(f)
      <3> \A g \in Futures : Unmoved(g)
        BY <1>4, <2>3, UnchangedMoves DEF ForceCanceled
      <3> QED
        BY <2>1, <2>2, QuietSettle DEF At
    <2>4. CASE ~Cancelled(f)
      <3>1. Settle(f, "cancelled", "cancelled")
        BY <1>4, <2>4 DEF ForceCanceled
      <3>2. /\ \A g \in Futures : g # f => Unmoved(g)
            /\ fut'[f].state = "cancelled" /\ (Counted(f) => Counted(f)')
        BY <1>0, <3>1, SettleMoves
      <3>3. agent.phase = "running" => fut[f].state \in {"finished", "cancelled"}
        BY <1>4 DEF ForceCanceled, Done, SettleInv, Alive
      <3>4. agent.phase = "running" => f \notin manager /\ ~(agent.settling # <<>> /\ agent.settling[1] = f)
        BY <3>3 DEF SettleInv, Managed, InHand
      <3>5. agent.settling # <<>> => agent.settling[1] \in Futures
        BY DEF Types, AgentTypes, AgentType
      <3>6. Managed'
        BY <1>0, <2>1, <3>2, <3>4 DEF SettleInv, Managed, Unmoved
      <3>7. InHand'
        BY <2>1, <3>2, <3>4, <3>5 DEF SettleInv, InHand, Unmoved
      <3>8. Fresh'
        BY <2>1, <3>2 DEF SettleInv, Fresh, Unmoved
      <3>9. Fetching'
        BY <2>1, <3>2 DEF SettleInv, Fetching, Unmoved
      <3>10. Alive'
        BY <2>1, <2>2 DEF SettleInv, Alive, At
      <3>11. Kept'
        BY <2>1, <3>2 DEF SettleInv, Kept, Unmoved
      <3> QED
        BY <3>6, <3>7, <3>8, <3>9, <3>10, <3>11 DEF SettleInv
    <2> QED
      BY <2>3, <2>4
  <1>5. ASSUME NEW upload \in BOOLEAN, Commit(upload) PROVE SettleInv'
    <2>1. \A g \in Futures : Unmoved(g)
      BY <1>5, UnchangedMoves DEF Commit
    <2>2. thread'[Main].op # "forced"
      BY <1>0, <1>5, MainGoes DEF Commit, ThreadType, ThreadRecord, Idle
    <2>3. \A f \in Futures : <<"fetch", f>> \in jobs' => <<"fetch", f>> \in jobs
      BY <1>5 DEF Commit
    <2> QED
      BY <1>5, <2>1, <2>2, <2>3, QuietSettle DEF Commit, At
  <1>6. ASSUME NEW g \in Futures, SendTask(g) PROVE SettleInv'
    <2>1. \A f \in Futures : Unmoved(f)
      <3> SUFFICES ASSUME NEW f \in Futures PROVE Unmoved(f)
        OBVIOUS
      <3>1. fut' = Returned \/ fut' = fut
        BY <1>6 DEF SendTask
      <3>2. fut'[f] = fut[f] \/ fut'[f] = [fut[f] EXCEPT !.given = @ \/ (f \in thread[Main].todo \ Umbrellas /\ Delayed(f))]
        BY <3>1 DEF Returned
      <3>3. /\ fut'[f].state = fut[f].state /\ fut'[f].received = fut[f].received /\ fut'[f].oid = fut[f].oid
            /\ fut'[f].outcome = fut[f].outcome /\ fut'[f].fetching = fut[f].fetching
        BY <1>0, <3>2 DEF FutureType
      <3>4. log' = log
        BY <1>6 DEF SendTask
      <3> QED
        BY <3>3, <3>4 DEF Unmoved, Counted
    <2>2. thread'[Main].op # "forced"
      <3>1. \/ thread'[Main] = Idle \/ thread'[Main] = [Idle EXCEPT !.op = "collect", !.todo = thread[Main].todo]
            \/ thread'[Main] = [thread[Main] EXCEPT !.sent = thread[Main].sent \cup {g}]
        BY <1>6, MainGoes DEF SendTask
      <3>2. thread[Main].op = "send"
        BY <1>6 DEF SendTask, At
      <3>3. [Idle EXCEPT !.op = "collect", !.todo = thread[Main].todo].op = "collect"
        BY DEF Idle
      <3>4. [thread[Main] EXCEPT !.sent = thread[Main].sent \cup {g}].op = "send"
        BY <1>0, <3>2 DEF ThreadType, ThreadRecord
      <3> QED
        BY <3>1, <3>3, <3>4, IdleType
    <2>3. net'.pipe = net.pipe
      BY <1>6, SentPipe DEF SendTask
    <2> QED
      BY <1>6, <2>1, <2>2, <2>3, QuietSettle DEF SendTask, At
  <1>7. ASSUME Abandon PROVE SettleInv'
    <2>1. \A g \in Futures : Unmoved(g)
      <3> SUFFICES ASSUME NEW g \in Futures PROVE Unmoved(g)
        OBVIOUS
      <3>1. log'[g] = [log[g] EXCEPT !.unsent = @ \/ g \in thread[Main].todo \ Unregistered] /\ fut' = fut
        BY <1>7 DEF Abandon
      <3>2. log'[g].fetched = log[g].fetched /\ log'[g].late = log[g].late
        BY <1>0, <3>1 DEF LogType
      <3> QED
        BY <3>1, <3>2 DEF Unmoved, Counted
    <2>2. thread'[Main].op # "forced"
      BY <1>7, MainGoes DEF Abandon, Idle
    <2> QED
      BY <1>7, <2>1, <2>2, QuietSettle DEF Abandon, At
  <1>8. ASSUME Collect PROVE SettleInv'
    <2> DEFINE f == CHOOSE f \in thread[Main].todo : TRUE
    <2>1. log' = [log EXCEPT ![f].seen = @ \cup {fut[f].outcome}] /\ fut' = fut
      BY <1>8 DEF Collect
    <2> HIDE DEF f
    <2>2. \A g \in Futures : Unmoved(g)
      <3> SUFFICES ASSUME NEW g \in Futures PROVE Unmoved(g)
        OBVIOUS
      <3>1. log'[g] = log[g] \/ log'[g] = [log[g] EXCEPT !.seen = @ \cup {fut[g].outcome}]
        BY <1>0, <2>1 DEF FutTypes
      <3>2. log'[g].fetched = log[g].fetched /\ log'[g].late = log[g].late
        BY <1>0, <3>1 DEF LogType
      <3> QED
        BY <2>1, <3>2 DEF Unmoved, Counted
    <2>3. thread'[Main].op # "forced"
      <3>1. thread'[Main] \in {CancelsAll("disconnect"), Idle, [thread[Main] EXCEPT !.todo = @ \ {f}]}
        BY <1>8, MainGoes DEF Collect, f
      <3>2. CancelsAll("disconnect").op # "forced"
        BY DEF CancelsAll, Idle
      <3>3. thread[Main].op = "collect"
        BY <1>8 DEF Collect, At
      <3> QED
        BY <1>0, <3>1, <3>2, <3>3, IdleType DEF ThreadType, ThreadRecord
    <2> QED
      BY <1>8, <2>2, <2>3, QuietSettle DEF Collect, At
  <1>9. ASSUME SendClear PROVE SettleInv'
    <2>1. (\A g \in Futures : Unmoved(g)) /\ net'.pipe = net.pipe /\ thread'[Main].op = "idle"
      BY <1>9, UnchangedMoves, SentPipe, MainGoes DEF SendClear, Idle
    <2> QED
      BY <1>9, <2>1, QuietSettle DEF SendClear, At
  <1>10. ASSUME Destroy PROVE SettleInv'
    <2>1. (\A g \in Futures : Unmoved(g)) /\ thread'[Main].op = "destroyed" /\ agent.phase = "closed" /\ agent' = agent
          /\ manager' = manager /\ jobs' = jobs
      BY <1>10, UnchangedMoves, MainGoes DEF Destroy, Idle
    <2>2. manager \in SUBSET Futures /\ (agent.settling # <<>> => agent.settling[1] \in Futures)
      BY DEF Types, AgentTypes, AgentType
    <2>3. Managed' /\ InHand'
      BY <2>1, <2>2 DEF SettleInv, Managed, InHand
    <2>4. Fresh' /\ Fetching'
      BY <2>1 DEF SettleInv, Fresh, Fetching, Unmoved
    <2>5. Alive'
      BY <2>1 DEF SettleInv, Alive, At
    <2>6. Kept'
      BY <2>1 DEF SettleInv, Kept, Unmoved
    <2> QED
      BY <2>3, <2>4, <2>5, <2>6 DEF SettleInv
  <1>11. ASSUME NEW next \in {"clear", "disconnect", "shutdown"}, CancelAll(next) PROVE SettleInv'
    <2>1. (\A g \in Futures : Unmoved(g)) /\ thread'[Main] = CancelsAll(next)
      BY <1>11, UnchangedMoves, MainGoes DEF CancelAll
    <2>2. CancelsAll(next).op # "forced"
      BY DEF CancelsAll, Idle
    <2> QED
      BY <1>11, <2>1, <2>2, QuietSettle DEF CancelAll, At
  <1>12. ASSUME NEW next \in {"disconnect", "shutdown"}, SendQuit(next) PROVE SettleInv'
    <2>1. (\A g \in Futures : Unmoved(g)) /\ net'.pipe = net.pipe
      BY <1>12, UnchangedMoves, SentPipe DEF SendQuit
    <2>2. thread'[Main].op # "forced"
      BY <1>12, MainGoes DEF SendQuit, Idle
    <2> QED
      BY <1>12, <2>1, <2>2, QuietSettle DEF SendQuit, At
  <1> QED
    BY <1>1, <1>2, <1>3, <1>4, <1>5, <1>6, <1>7, <1>8, <1>9, <1>10, <1>11, <1>12 DEF Api

LEMMA UserSettle ==
  ASSUME Types, SettleInv, NEW t \in Users, User(t)
  PROVE  SettleInv'
  <1>0. /\ FutTypes /\ ThreadTypes /\ t \in Threads /\ t # Main
        /\ \A f \in Futures : fut[f] \in FutureType /\ log[f] \in LogType
    BY NamesAssumption DEF Types, Threads, FutTypes
  <1>a. PICK f \in Futures : UserCancel(t, f) \/ Result(t, f) \/ AddDoneCallback(t, f) \/ GetsOut(t, f)
    BY DEF User
  <1>b. \A state : GoTo(t, state) => thread'[Main] = thread[Main]
    BY <1>0, MainType DEF GoTo, ThreadTypes
  <1>1. CASE UserCancel(t, f)
    <2>1. Cancel(t, f, [Idle EXCEPT !.op = "canceling", !.todo = {f}], Idle) /\ UNCHANGED <<manager, agent, jobs, held, budget, log>>
      BY <1>1 DEF UserCancel
    <2>2. (\A g \in Futures : Identity(g) /\ Unmoved(g)) /\ net'.pipe = net.pipe
      BY <2>1, CancelMoves
    <2>3. thread'[Main] = thread[Main]
      BY <1>b, <2>1 DEF Cancel
    <2> QED
      BY <2>1, <2>2, <2>3, QuietSettle DEF At
  <1>2. CASE Result(t, f) \/ CancelReturns(t, f)
    <2>1. (\A g \in Futures : Unmoved(g)) /\ thread'[Main] = thread[Main] /\ UNCHANGED <<manager, agent, jobs, net>>
      BY <1>2, <1>b, UnchangedMoves DEF Result, CancelReturns
    <2> QED
      BY <2>1, QuietSettle DEF At
  <1>3. CASE AddDoneCallback(t, f)
    <2>1. UNCHANGED <<manager, thread, agent, jobs, net, log>>
      BY <1>3 DEF AddDoneCallback
    <2>2. \A g \in Futures : Unmoved(g)
      <3> SUFFICES ASSUME NEW g \in Futures PROVE Unmoved(g)
        OBVIOUS
      <3>1. fut'[g] = fut[g] \/ fut'[g] = [fut[g] EXCEPT !.callbacks = 1]
        BY <1>0, <1>3 DEF AddDoneCallback, FutTypes
      <3>2. /\ fut'[g].state = fut[g].state /\ fut'[g].received = fut[g].received /\ fut'[g].oid = fut[g].oid
            /\ fut'[g].outcome = fut[g].outcome /\ fut'[g].fetching = fut[g].fetching
        BY <1>0, <3>1 DEF FutureType
      <3> QED
        BY <2>1, <3>2 DEF Unmoved, Counted
    <2> QED
      BY <2>1, <2>2, QuietSettle DEF At
  <1>4. CASE ResultReady(t, f)
    <2>1. UNCHANGED <<manager, agent, net>> /\ fut[f].state \in {"finished", "cancelled"}
      BY <1>4 DEF ResultReady, Done
    <2>2. CASE Delayed(f)
      <3>1. AskFor(t, f, [thread[t] EXCEPT !.op = "object"])
        BY <1>4, <2>2 DEF ResultReady
      <3>2. (\A g \in Futures : Identity(g) /\ Unmoved(g)) /\ jobs' \subseteq jobs \cup {<<"fetch", f>>}
        BY <3>1, AskForMoves
      <3>3. thread'[Main] = thread[Main]
        BY <1>b, <3>1 DEF AskFor
      <3>4. \A h \in Futures : <<"fetch", h>> \in jobs' => <<"fetch", h>> \in jobs \/ fut[h].state \notin {"pending", "running"}
        BY <2>1, <3>2
      <3> QED
        BY <2>1, <3>2, <3>3, <3>4, QuietSettle DEF At
    <2>3. CASE ~Delayed(f)
      <3>1. GoTo(t, [thread[t] EXCEPT !.op = "object"]) /\ UNCHANGED <<fut, jobs, log>>
        BY <1>4, <2>3 DEF ResultReady
      <3>2. (\A g \in Futures : Unmoved(g)) /\ thread'[Main] = thread[Main]
        BY <3>1, <1>b, UnchangedMoves
      <3> QED
        BY <2>1, <3>1, <3>2, QuietSettle DEF At
    <2> QED
      BY <2>2, <2>3
  <1>5. CASE ResultReturns(t, f)
    <2>1. UNCHANGED <<fut, manager, agent, jobs, net>> /\ thread'[Main] = thread[Main]
          /\ log' = [log EXCEPT ![f].seen = @ \cup {fut[f].outcome}]
      BY <1>5, <1>b DEF ResultReturns
    <2>2. \A g \in Futures : Unmoved(g)
      <3> SUFFICES ASSUME NEW g \in Futures PROVE Unmoved(g)
        OBVIOUS
      <3>1. log'[g] = log[g] \/ log'[g] = [log[g] EXCEPT !.seen = @ \cup {fut[g].outcome}]
        BY <1>0, <2>1 DEF FutTypes
      <3>2. log'[g].fetched = log[g].fetched /\ log'[g].late = log[g].late
        BY <1>0, <3>1 DEF LogType
      <3> QED
        BY <2>1, <3>2 DEF Unmoved, Counted
    <2> QED
      BY <2>1, <2>2, QuietSettle DEF At
  <1> QED
    BY <1>a, <1>1, <1>2, <1>3, <1>4, <1>5 DEF GetsOut

\* The agent's loop: what it settles was in its hand or is done already.
LEMMA AgentLoopSettle ==
  ASSUME Types, SettleInv, AgentLoop
  PROVE  SettleInv'
  <1>0. /\ FutTypes /\ agent \in AgentType /\ manager \in SUBSET Futures /\ net \in NetType
        /\ net.answers \in Seq(Answers)
        /\ (agent.settling # <<>> => agent.settling[1] \in Futures)
    BY DEF Types, AgentTypes, AgentType, NetTypes, NetType
  <1>e. ASSUME NEW exception \in Handled \cup {"storage"}, Ends(exception), Running, \A g \in Futures : Unmoved(g),
               manager' = manager, jobs' = jobs, net'.pipe = net.pipe, thread' = thread
        PROVE  SettleInv'
    <2>1. agent'.phase = "stopping" /\ agent'.ended = exception /\ agent'.settling = <<>>
      BY <1>0, <1>e DEF Ends, AgentType
    <2>2. agent.phase = "running" /\ agent.settling = <<>>
      BY <1>e DEF Running
    <2>3. Managed' /\ InHand'
      BY <2>1 DEF Managed, InHand
    <2>4. Fresh' /\ Fetching'
      BY <1>e DEF SettleInv, Fresh, Fetching, Unmoved
    <2>5. Alive'
      <3> exception # "invalid"
        BY DEF Handled
      <3> QED
        BY <1>e, <2>1, <2>2 DEF SettleInv, Alive, At
    <2>6. Kept'
      BY <1>e, <2>1, <2>2 DEF SettleInv, Kept, Unmoved, Early
    <2> QED
      BY <2>3, <2>4, <2>5, <2>6 DEF SettleInv
  <1>1. CASE FromClient
    <2> DEFINE kind == Head(net.inbox)[1]
               what == Head(net.inbox)[2]
    <2>1. UNCHANGED <<fut, manager, thread, jobs, log>> /\ Running
      BY <1>1 DEF FromClient
    <2>2. \A g \in Futures : Unmoved(g)
      BY <2>1, UnchangedMoves
    <2>3. net'.pipe = net.pipe
      BY <1>0, <1>1 DEF FromClient, NetType
    <2>4. CASE kind = "disconnect"
      <3> Ends("quit")
        BY <1>1, <2>4 DEF FromClient
      <3> QED
        BY <1>e, <2>1, <2>2, <2>3 DEF Handled
    <2>5. CASE kind # "disconnect"
      <3> agent'.phase = agent.phase /\ agent'.ended = agent.ended /\ agent'.settling = agent.settling
        BY <1>0, <1>1, <2>5 DEF FromClient, AgentType
      <3> QED
        BY <2>1, <2>2, <2>3, QuietSettle DEF At
    <2> QED
      BY <2>4, <2>5
  <1>2. CASE FromScheduler
    <2> DEFINE kind == Head(net.answers)[1]
               f == Head(net.answers)[2]
               known == f \in agent.taskIds
    <2>1. UNCHANGED <<thread, jobs>> /\ Running /\ net'.pipe = net.pipe
      BY <1>0, <1>2 DEF FromScheduler, NetType
    <2>2. agent.phase = "running" /\ agent.settling = <<>>
      BY <2>1 DEF Running
    <2>3. Head(net.answers) \in Answers
      BY <1>0, <1>2 DEF FromScheduler
    <2>4. CASE kind = "shutdown"
      <3>1. f = Main
        BY <2>3, <2>4 DEF Answers
      <3>2. f \notin agent.taskIds
        BY <1>0, <3>1, NamesAssumption DEF AgentType
      <3>3. manager' = manager /\ fut' = fut /\ log' = log /\ Ends("shutdown")
        BY <1>2, <2>4, <3>2 DEF FromScheduler
      <3>4. \A g \in Futures : Unmoved(g)
        BY <3>3, UnchangedMoves
      <3> QED
        BY <1>e, <2>1, <3>3, <3>4 DEF Handled
    <2>5. CASE kind # "shutdown" /\ ~(known /\ f \in manager)
      <3>1. manager' = manager /\ fut' = fut /\ log' = log
        BY <1>2, <2>5 DEF FromScheduler
      <3>2. agent' = [agent EXCEPT !.taskIds = @ \ {f}, !.settling = agent.settling]
        BY <1>2, <2>5 DEF FromScheduler
      <3>3. agent'.phase = agent.phase /\ agent'.ended = agent.ended /\ agent'.settling = agent.settling
        BY <1>0, <3>2 DEF AgentType
      <3> QED
        BY <2>1, <3>1, <3>3, UnchangedMoves, QuietSettle DEF At
    <2>6. CASE kind # "shutdown" /\ known /\ f \in manager /\ kind # "confirm"
      <3>1. manager' = manager \ {f} /\ fut' = fut /\ log' = log
        BY <1>2, <2>6 DEF FromScheduler
      <3>2. agent' = [agent EXCEPT !.taskIds = @ \ {f}, !.settling = <<f, kind>>]
        BY <1>2, <2>6 DEF FromScheduler
      <3>3. agent'.phase = agent.phase /\ agent'.ended = agent.ended /\ agent'.settling = <<f, kind>>
        BY <1>0, <3>2 DEF AgentType
      <3>4. f \in Futures /\ fut[f].state = "running"
        BY <1>0, <2>2, <2>6 DEF SettleInv, Managed
      <3>5. <<f, kind>> # <<>> /\ <<f, kind>>[1] = f
        OBVIOUS
      <3> HIDE DEF f, kind
      <3>6. Managed'
        BY <2>2, <3>1, <3>3 DEF SettleInv, Managed
      <3>7. InHand'
        BY <2>2, <3>1, <3>3, <3>4, <3>5 DEF SettleInv, InHand
      <3>8. Fresh' /\ Fetching'
        BY <2>1, <3>1 DEF SettleInv, Fresh, Fetching, Counted
      <3>9. Alive'
        BY <2>1, <2>2, <3>3 DEF SettleInv, Alive, At
      <3>10. Kept'
        BY <2>2, <3>1, <3>3, <3>5 DEF SettleInv, Kept, Early
      <3> QED
        BY <3>6, <3>7, <3>8, <3>9, <3>10 DEF SettleInv
    <2>7. CASE kind = "confirm" /\ known /\ f \in manager
      <3>4. PICK e \in Futures : e = f /\ fut[e].state = "running"
        BY <1>0, <2>2, <2>7 DEF SettleInv, Managed
      <3>1. manager' = manager \ {e} /\ Settle(e, "cancelled", "cancelled")
        BY <1>2, <2>7, <3>4 DEF FromScheduler, Done
      <3>2. agent' = [agent EXCEPT !.taskIds = @ \ {e}, !.settling = agent.settling]
        BY <1>2, <2>7, <3>4 DEF FromScheduler
      <3>3. agent'.phase = agent.phase /\ agent'.ended = agent.ended /\ agent'.settling = agent.settling
        BY <1>0, <3>2 DEF AgentType
      <3> HIDE DEF f, kind
      <3>5. /\ \A g \in Futures : g # e => Unmoved(g)
            /\ fut'[e].state = "cancelled" /\ (Counted(e) => Counted(e)')
        BY <1>0, <3>1, <3>4, SettleMoves
      <3>6. Managed'
        BY <1>0, <2>2, <3>1, <3>3, <3>5 DEF SettleInv, Managed, Unmoved
      <3>7. InHand'
        BY <2>2, <3>3 DEF InHand
      <3>8. Fresh' /\ Fetching'
        BY <2>1, <3>1, <3>5 DEF SettleInv, Fresh, Fetching, Unmoved
      <3>9. Alive'
        BY <2>1, <2>2, <3>3 DEF SettleInv, Alive, At
      <3>10. Kept'
        BY <2>2, <3>1, <3>3, <3>5 DEF SettleInv, Kept, Early, Unmoved
      <3> QED
        BY <3>6, <3>7, <3>8, <3>9, <3>10 DEF SettleInv
    <2> QED
      BY <2>4, <2>5, <2>6, <2>7
  <1>3. CASE ApplyResult
    <2>1. UNCHANGED <<manager, thread, net>> /\ agent.phase = "running" /\ agent.settling # <<>>
      BY <1>3 DEF ApplyResult
    <2>2. PICK f \in Futures : f = agent.settling[1] /\ fut[f].state = "running" /\ f \notin manager /\ ~fut[f].received
      BY <1>0, <2>1 DEF SettleInv, InHand, Fresh
    <2>0. PICK kind \in {"value", "error", "died"} : kind = agent.settling[2]
      BY <1>0, <2>1 DEF AgentType
    <2>3. ~(Cancelled(f) \/ (IF kind = "died" THEN fut[f].received ELSE Done(f)))
      BY <2>2 DEF Cancelled, Done
    <2>4. /\ agent' = [agent EXCEPT !.settling = <<>>]
          /\ \/ Settle(f, "finished", "error") /\ UNCHANGED jobs
             \/ SetResultReady(f, kind)
      BY <1>3, <2>0, <2>2, <2>3 DEF ApplyResult
    <2>5. agent'.phase = agent.phase /\ agent'.ended = agent.ended /\ agent'.settling = <<>>
      BY <1>0, <2>4 DEF AgentType
    <2>6. /\ \A g \in Futures : g # f => Unmoved(g)
          /\ fut'[f].state = "finished" /\ (Counted(f) => Counted(f)')
          /\ jobs' \subseteq jobs \cup {<<"fetch", f>>}
      <3>1. CASE Settle(f, "finished", "error") /\ UNCHANGED jobs
        BY <1>0, <2>2, <3>1, SettleMoves
      <3>2. CASE SetResultReady(f, kind)
        BY <1>0, <2>2, <3>2, ReadyMoves
      <3> QED
        BY <2>4, <3>1, <3>2
    <2>7. \A g \in manager : g # f
      BY <2>2
    <2>8. Managed'
      BY <1>0, <2>1, <2>5, <2>6, <2>7 DEF SettleInv, Managed, Unmoved
    <2>9. InHand'
      BY <2>5 DEF InHand
    <2>10. Fresh'
      BY <2>1, <2>6 DEF SettleInv, Fresh, Unmoved
    <2>11. Fetching'
      BY <2>6 DEF SettleInv, Fetching, Unmoved
    <2>12. Alive'
      BY <2>1, <2>5 DEF SettleInv, Alive, At
    <2>13. Kept'
      BY <2>1, <2>2, <2>5, <2>6 DEF SettleInv, Kept, Early, Unmoved
    <2> QED
      BY <2>8, <2>9, <2>10, <2>11, <2>12, <2>13 DEF SettleInv
  <1>4. ASSUME NEW job \in jobs, JobDone(job) PROVE SettleInv'
    <2>1. UNCHANGED <<manager, agent, net>> /\ jobs' = jobs \ {job}
      BY <1>4 DEF JobDone
    <2>2. CASE job[1] = "upload"
      <3>1. fut' = fut /\ log' = log /\ GoTo(Main, [thread[Main] EXCEPT !.op = "send"])
        BY <1>4, <2>2 DEF JobDone
      <3>2. thread'[Main].op = "send"
        BY <3>1, MainGoes, MainType DEF Types, ThreadType, ThreadRecord
      <3> QED
        BY <2>1, <3>1, <3>2, UnchangedMoves, QuietSettle DEF At
    <2>3. CASE job[1] # "upload"
      <3> DEFINE f == job[2]
      <3>1. f \in Futures /\ job = <<"fetch", f>>
        BY <2>3 DEF Types, JobTypes, JobType
      <3>2. fut[f].state \notin {"pending", "running"}
        BY <3>1 DEF SettleInv, Fetching
      <3>3. thread' = thread
        BY <1>4, <2>3 DEF JobDone
      <3>4. CASE fut[f].received
        <4> fut' = fut /\ log' = log
          BY <1>4, <2>3, <3>4 DEF JobDone
        <4> QED
          BY <2>1, <3>3, UnchangedMoves, QuietSettle DEF At
      <3>5. CASE ~fut[f].received
        <4>1. Settle(f, "finished", fut[f].outcome)
          BY <1>4, <2>3, <3>5 DEF JobDone
        <4> HIDE DEF f
        <4>2. /\ \A g \in Futures : g # f => Unmoved(g)
              /\ fut'[f].state = "finished" /\ (Counted(f) => Counted(f)')
          BY <1>0, <3>1, <4>1, SettleMoves
        <4>3. agent.phase = "running" => f \notin manager
          BY <3>2 DEF SettleInv, Managed
        <4>4. agent.settling # <<>> => agent.settling[1] # f
          BY <3>2 DEF SettleInv, InHand
        <4>5. Managed'
          BY <1>0, <2>1, <4>2, <4>3 DEF SettleInv, Managed, Unmoved
        <4>6. InHand'
          BY <1>0, <2>1, <4>2, <4>4 DEF SettleInv, InHand, Unmoved
        <4>7. Fresh'
          BY <2>1, <4>2 DEF SettleInv, Fresh, Unmoved
        <4>8. Fetching'
          BY <2>1, <4>2 DEF SettleInv, Fetching, Unmoved
        <4>9. Alive'
          BY <2>1, <3>3 DEF SettleInv, Alive, At
        <4>10. Kept'
          BY <2>1, <4>2 DEF SettleInv, Kept, Unmoved
        <4> QED
          BY <4>5, <4>6, <4>7, <4>8, <4>9, <4>10 DEF SettleInv
      <3> QED
        BY <3>4, <3>5
    <2> QED
      BY <2>2, <2>3
  <1> QED
    BY <1>1, <1>2, <1>3, <1>4 DEF AgentLoop

\* The end of the agent.
LEMMA TeardownSettle ==
  ASSUME Types, SettleInv, Teardown
  PROVE  SettleInv'
  <1>0. /\ FutTypes /\ agent \in AgentType /\ manager \in SUBSET Futures /\ net \in NetType
        /\ (agent.settling # <<>> => agent.phase = "running")
    BY DEF Types, AgentTypes, NetTypes, SettleInv, InHand
  <1>1. CASE DestroyConnectors
    <2>1. agent.phase = "stopping" /\ agent'.phase = "destroyed" /\ agent'.ended = agent.ended /\ agent'.settling = agent.settling
          /\ net'.pipe = "closing" /\ UNCHANGED <<fut, manager, thread, jobs, log>>
      BY <1>0, <1>1 DEF DestroyConnectors, AgentType
    <2> QED
      BY <1>0, <2>1 DEF SettleInv, Managed, InHand, Fresh, Fetching, Alive, Kept, Early, Counted, At
  <1>2. CASE SetAllFutures
    <2> DEFINE failing == {f \in manager : agent.ended \in FailsWith /\ ~Cancelled(f) /\ ~fut[f].received}
    <2>1. agent.phase = "destroyed" /\ agent'.phase = "settled" /\ agent'.ended = agent.ended /\ agent'.settling = agent.settling
          /\ UNCHANGED <<thread, jobs, net>>
      BY <1>0, <1>2 DEF SetAllFutures, AgentType
    <2>2. /\ fut' = [f \in Futures |-> IF f \in failing THEN Settled(f, "finished", "error") ELSE fut[f]]
          /\ log' = [f \in Futures |-> IF f \in failing THEN CallbacksRun(f, "error") ELSE log[f]]
          /\ manager' = IF agent.ended \in FailsWith THEN {} ELSE manager
      BY <1>2 DEF SetAllFutures
    <2>3. \A f \in Futures : f \in failing <=> f \in manager /\ agent.ended \in Handled /\ fut[f].state # "cancelled" /\ ~fut[f].received
      BY DEF FailsWith, Cancelled
    <2> HIDE DEF failing
    <2>4. \A g \in Futures :
            /\ Counted(g) => Counted(g)'
            /\ g \notin failing => Unmoved(g)
            /\ g \in failing => fut'[g].state = "finished"
      BY <1>0, <2>2, FailMoves
    <2>5. Managed' /\ InHand'
      BY <1>0, <2>1 DEF Managed, InHand
    <2>6. Fresh'
      BY <2>2, <2>4 DEF SettleInv, Fresh, Unmoved
    <2>7. Fetching'
      BY <2>1, <2>4 DEF SettleInv, Fetching, Unmoved
    <2>8. Alive'
      BY <2>1 DEF SettleInv, Alive, At
    <2>9. Kept'
      <3> SUFFICES ASSUME agent.ended \in Handled, NEW f \in Futures, fut'[f].state = "running" PROVE FALSE
        BY <2>1 DEF Kept, Early
      <3>1. f \notin failing /\ fut[f].state = "running"
        BY <2>4 DEF Unmoved
      <3>2. f \in manager /\ ~fut[f].received
        BY <1>0, <2>1, <3>1 DEF SettleInv, Kept, Fresh, Early
      <3> QED
        BY <2>3, <3>1, <3>2
    <2> QED
      BY <2>5, <2>6, <2>7, <2>8, <2>9 DEF SettleInv
  <1>3. CASE CancelPending
    <2> DEFINE failing == {f \in Futures : <<"fetch", f>> \in jobs /\ ~fut[f].received}
    <2>1. agent.phase = "settled" /\ agent'.phase = "drained" /\ agent'.ended = agent.ended /\ agent'.settling = agent.settling
          /\ UNCHANGED <<manager, net>> /\ jobs' = {}
      BY <1>0, <1>3 DEF CancelPending, AgentType
    <2>2. /\ fut' = [f \in Futures |-> IF f \in failing THEN Settled(f, "finished", "error") ELSE fut[f]]
          /\ log' = [f \in Futures |-> IF f \in failing THEN CallbacksRun(f, "error") ELSE log[f]]
      BY <1>3 DEF CancelPending
    <2> HIDE DEF failing
    <2>3. \A g \in Futures :
            /\ Counted(g) => Counted(g)'
            /\ g \notin failing => Unmoved(g)
            /\ g \in failing => fut'[g].state = "finished"
      BY <1>0, <2>2, FailMoves
    <2>4. thread'[Main] = Idle \/ thread'[Main] = thread[Main]
      BY <1>3, MainGoes DEF CancelPending
    <2>5. Managed' /\ InHand'
      BY <1>0, <2>1 DEF Managed, InHand
    <2>6. Fresh' /\ Fetching'
      BY <2>1, <2>3 DEF SettleInv, Fresh, Fetching, Unmoved
    <2>7. Alive'
      BY <2>1, <2>4, IdleType DEF SettleInv, Alive, At
    <2>8. Kept'
      BY <2>1, <2>3 DEF SettleInv, Kept, Unmoved, Early
    <2> QED
      BY <2>5, <2>6, <2>7, <2>8 DEF SettleInv
  <1>4. CASE CloseLoop
    <2>1. agent.phase = "drained" /\ agent'.phase = "closed" /\ agent'.ended = agent.ended /\ agent'.settling = agent.settling
          /\ UNCHANGED <<fut, manager, thread, jobs, net, log>>
      BY <1>0, <1>4 DEF CloseLoop, AgentType
    <2> QED
      BY <1>0, <2>1 DEF SettleInv, Managed, InHand, Fresh, Fetching, Alive, Kept, Early, Counted, At
  <1>5. CASE PipeCloses
    <2>1. net.pipe = "closing" /\ net'.pipe = "closed" /\ UNCHANGED <<fut, manager, thread, agent, jobs, log>>
      BY <1>0, <1>5 DEF PipeCloses, NetType
    <2> QED
      BY <2>1 DEF SettleInv, Managed, InHand, Fresh, Fetching, Alive, Kept, Counted, At
  <1> QED
    BY <1>1, <1>2, <1>3, <1>4, <1>5 DEF Teardown

LEMMA SettleInit == Init => SettleInv
  <1> SUFFICES ASSUME Init PROVE SettleInv
    OBVIOUS
  <1>1. \A f \in Futures : fut[f].state = "pending" /\ ~fut[f].received /\ ~fut[f].oid /\ ~fut[f].fetching /\ log[f].fetched = 0
    BY DEF Init, NewFuture
  <1>2. /\ manager = {} /\ jobs = {} /\ agent.phase = "running" /\ agent.ended = "none" /\ agent.settling = <<>>
        /\ net.pipe = "open" /\ thread[Main].op = "idle"
    BY MainType, IdleType DEF Init
  <1>3. Managed /\ InHand
    BY <1>2 DEF Managed, InHand
  <1>4. Fresh /\ Fetching
    BY <1>1, <1>2 DEF Fresh, Fetching, Counted
  <1>5. Alive
    BY <1>2 DEF Alive, At
  <1>6. Kept
    BY <1>1, <1>2 DEF Kept, Early
  <1> QED
    BY <1>3, <1>4, <1>5, <1>6 DEF SettleInv

LEMMA SettleStep == Types /\ SettleInv /\ [Next]_vars => SettleInv'
  <1> SUFFICES ASSUME Types, SettleInv, [Next]_vars PROVE SettleInv'
    OBVIOUS
  <1>1. CASE Api
    BY <1>1, ApiSettle
  <1>2. ASSUME NEW t \in Users, User(t) PROVE SettleInv'
    BY <1>2, UserSettle
  <1>3. CASE AgentLoop
    BY <1>3, AgentLoopSettle
  <1>4. CASE Teardown
    BY <1>4, TeardownSettle
  <1>5. CASE Scheduler
    <2>1. UNCHANGED <<fut, manager, thread, agent, jobs, log>>
      BY <1>5 DEF Scheduler, SchedulerReceives, SchedulerAnswers, SchedulerAborts, StrayEnds
    <2>2. net'.pipe = net.pipe
      <3> net \in NetType
        BY DEF Types, NetTypes
      <3> QED
        BY <1>5 DEF Scheduler, SchedulerReceives, SchedulerAnswers, SchedulerAborts, StrayEnds, Answered, NetType
    <2> QED
      BY <2>1, <2>2, UnchangedMoves, QuietSettle DEF At
  <1>6. ASSUME NEW kind \in EventKinds \ {"clear"}, LoopFails(kind) PROVE SettleInv'
    <2>1. UNCHANGED <<fut, manager, thread, jobs, net, log>> /\ agent.phase = "running" /\ agent.settling = <<>>
      BY <1>6 DEF LoopFails, Running
    <2>2. agent'.phase = "stopping" /\ agent'.ended = kind /\ agent'.settling = <<>>
      <3> agent \in AgentType
        BY DEF Types, AgentTypes
      <3> QED
        BY <1>6 DEF LoopFails, Ends, AgentType
    <2>3. kind # "invalid"
      BY DEF EventKinds
    <2>4. Managed' /\ InHand'
      BY <2>2 DEF Managed, InHand
    <2>5. Fresh' /\ Fetching'
      BY <2>1 DEF SettleInv, Fresh, Fetching, Counted
    <2>6. Alive'
      BY <2>1, <2>2, <2>3 DEF SettleInv, Alive, At
    <2>7. Kept'
      BY <2>1, <2>2 DEF SettleInv, Kept, Early
    <2> QED
      BY <2>4, <2>5, <2>6, <2>7 DEF SettleInv
  <1>7. CASE UNCHANGED vars
    BY <1>7 DEF vars, SettleInv, Managed, InHand, Fresh, Fetching, Alive, Kept, Counted, At
  <1> QED
    BY <1>1, <1>2, <1>3, <1>4, <1>5, <1>6, <1>7 DEF Next

LEMMA SettleCorrect == Spec => [](Types /\ SettleInv)
  <1>1. Init => Types /\ SettleInv
    BY TypesInit, SettleInit
  <1>2. (Types /\ SettleInv) /\ [Next]_vars => (Types /\ SettleInv)'
    BY TypesStep, SettleStep
  <1> QED
    BY <1>1, <1>2, PTL DEF Spec

\* Every future is settled once, for any futures, calls, threads, failures and
\* cancels: its object is asked for once, nothing is settled in a way that raises
\* InvalidStateError into the agent's loop, and when the agent has ended no future it
\* knew is left running.
THEOREM ClientSettlesOnce == Spec => []SettledOnce
  <1>1. Types /\ SettleInv => SettledOnce
    <2> SUFFICES ASSUME Types, SettleInv PROVE SettledOnce
      OBVIOUS
    <2>1. TypeOK
      BY TypesType
    <2>2. FetchedOnce
      <3> SUFFICES ASSUME NEW f \in Futures PROVE log[f].fetched <= 1
        BY DEF FetchedOnce
      <3>1. log[f].fetched = IF fut[f].fetching THEN 1 ELSE 0
        BY DEF SettleInv, Fetching, Counted
      <3>2. log[f].fetched \in {0, 1}
        BY <3>1
      <3> QED
        BY <3>2
    <2>3. AgentSurvives
      BY DEF SettleInv, Alive, AgentSurvives
    <2>4. NoneLeftRunning
      BY DEF SettleInv, Kept, Early, NoneLeftRunning
    <2> QED
      BY <2>1, <2>2, <2>3, <2>4 DEF SettledOnce
  <1> QED
    BY <1>1, SettleCorrect, PTL

\* The outcome of a future that has been received changes to "cancelled" or not at
\* all: no late object, second answer or end of the agent replaces it.
LEMMA FinalStep ==
  ASSUME Types, SettleInv, [Next]_vars
  PROVE  \A f \in Futures : fut[f].received => fut'[f].outcome \in {fut[f].outcome, "cancelled"}
  <1> SUFFICES ASSUME NEW f \in Futures, fut[f].received
               PROVE  fut'[f].outcome \in {fut[f].outcome, "cancelled"}
    OBVIOUS
  <1>0. /\ FutTypes /\ fut[f] \in FutureType /\ \A g \in Futures : fut[g] \in FutureType
        /\ (agent.settling # <<>> => agent.settling[1] \in Futures)
    BY DEF Types, FutTypes, AgentTypes, AgentType
  <1>1. CASE Api
    <2>1. ASSUME NEW c \in Calls, Submit(c) PROVE fut'[f].outcome = fut[f].outcome
      <3>1. fut'[f] = fut[f] \/ fut'[f] = [fut[f] EXCEPT !.call = c.kind, !.group = IF c.kind = "get" THEN c.umbrella ELSE f]
        BY <2>1 DEF Submit
      <3> QED
        BY <1>0, <3>1 DEF FutureType
    <2>2. ASSUME NEW g \in Futures, AddFuture(g) PROVE fut'[f].outcome = fut[f].outcome
      <3>1. fut'[f] = fut[f] \/ fut'[f] = [fut[f] EXCEPT !.state = "running"]
        BY <1>0, <2>2 DEF AddFuture, FutTypes
      <3> QED
        BY <1>0, <3>1 DEF FutureType
    <2>3. ASSUME NEW g \in Futures, CancelNext(g) PROVE fut'[f].outcome = fut[f].outcome
      <3>1. \E waiting, raised : Cancel(Main, g, waiting, raised) /\ log' = log
        BY <2>3 DEF CancelNext
      <3> QED
        BY <3>1, CancelMoves DEF Unmoved
    <2>4. ASSUME NEW g \in Futures, ForceCanceled(g) PROVE fut'[f].outcome \in {fut[f].outcome, "cancelled"}
      <3>1. CASE Cancelled(g)
        BY <2>4, <3>1 DEF ForceCanceled
      <3>2. CASE ~Cancelled(g)
        <4> Settle(g, "cancelled", "cancelled")
          BY <2>4, <3>2 DEF ForceCanceled
        <4> QED
          BY <1>0, SettleMoves DEF Unmoved
      <3> QED
        BY <3>1, <3>2
    <2>5. ASSUME NEW g \in Futures, SendTask(g) PROVE fut'[f].outcome = fut[f].outcome
      <3>1. fut'[f] = fut[f] \/ fut'[f] = [fut[f] EXCEPT !.given = @ \/ (f \in thread[Main].todo \ Umbrellas /\ Delayed(f))]
        BY <2>5 DEF SendTask, Returned
      <3> QED
        BY <1>0, <3>1 DEF FutureType
    <2>6. (\E upload \in BOOLEAN : Commit(upload)) \/ Abandon \/ Collect \/ SendClear \/ Destroy
             \/ (\E next \in {"clear", "disconnect", "shutdown"} : CancelAll(next))
             \/ (\E next \in {"disconnect", "shutdown"} : SendQuit(next)) => fut' = fut
      BY DEF Commit, Abandon, Collect, SendClear, Destroy, CancelAll, SendQuit
    <2> QED
      BY <1>1, <2>1, <2>2, <2>3, <2>4, <2>5, <2>6 DEF Api
  <1>2. ASSUME NEW t \in Users, User(t) PROVE fut'[f].outcome = fut[f].outcome
    <2>a. PICK g \in Futures : UserCancel(t, g) \/ Result(t, g) \/ AddDoneCallback(t, g) \/ GetsOut(t, g)
      BY <1>2 DEF User
    <2>1. CASE UserCancel(t, g)
      <3>1. \E waiting, raised : Cancel(t, g, waiting, raised) /\ log' = log
        BY <2>1 DEF UserCancel
      <3> QED
        BY <3>1, CancelMoves DEF Unmoved
    <2>2. CASE AddDoneCallback(t, g)
      <3>1. fut'[f] = fut[f] \/ fut'[f] = [fut[f] EXCEPT !.callbacks = 1]
        BY <1>0, <2>2 DEF AddDoneCallback, FutTypes
      <3> QED
        BY <1>0, <3>1 DEF FutureType
    <2>3. CASE ResultReady(t, g)
      <3>1. (\E then : AskFor(t, g, then)) \/ fut' = fut
        BY <2>3 DEF ResultReady
      <3> QED
        BY <3>1, AskForMoves DEF Unmoved
    <2>4. CASE Result(t, g) \/ CancelReturns(t, g) \/ ResultReturns(t, g)
      BY <2>4 DEF Result, CancelReturns, ResultReturns
    <2> QED
      BY <2>a, <2>1, <2>2, <2>3, <2>4 DEF GetsOut
  <1>3. CASE FromClient
    BY <1>3 DEF FromClient
  <1>4. CASE FromScheduler
    <2>1. (\E g \in manager : Settle(g, "cancelled", "cancelled")) \/ fut' = fut
      BY <1>4 DEF FromScheduler
    <2>2. manager \subseteq Futures
      BY DEF Types, AgentTypes
    <2> QED
      BY <1>0, <2>1, <2>2, SettleMoves DEF Unmoved
  <1>5. CASE ApplyResult
    <2>1. agent.settling # <<>>
      BY <1>5 DEF ApplyResult
    <2>2. PICK g \in Futures : g = agent.settling[1] /\ fut[g].state = "running" /\ ~fut[g].received
      BY <1>0, <2>1 DEF SettleInv, InHand, Fresh
    <2>3. f # g
      BY <2>2
    <2>4. fut' = fut \/ Settle(g, "finished", "error") \/ (\E kind : SetResultReady(g, kind))
      BY <1>5, <2>2 DEF ApplyResult
    <2> QED
      BY <1>0, <2>3, <2>4, SettleMoves, ReadyMoves DEF Unmoved
  <1>6. ASSUME NEW job \in jobs, JobDone(job) PROVE fut'[f].outcome = fut[f].outcome
    <2>1. CASE job[1] = "upload" \/ fut[job[2]].received
      BY <1>6, <2>1 DEF JobDone
    <2>2. CASE job[1] # "upload" /\ ~fut[job[2]].received
      <3>1. PICK g \in Futures : g = job[2]
        BY <2>2 DEF Types, JobTypes, JobType
      <3>2. Settle(g, "finished", fut[g].outcome)
        BY <1>6, <2>2, <3>1 DEF JobDone
      <3>3. \A h \in Futures : h # g => Unmoved(h)
        BY <1>0, <3>2, SettleMoves
      <3>4. f # g
        BY <2>2, <3>1
      <3> QED
        BY <3>3, <3>4 DEF Unmoved
    <2> QED
      BY <2>1, <2>2
  <1>7. CASE Teardown
    <2>1. CASE SetAllFutures
      <3> DEFINE failing == {g \in manager : agent.ended \in FailsWith /\ ~Cancelled(g) /\ ~fut[g].received}
      <3>1. fut' = [g \in Futures |-> IF g \in failing THEN Settled(g, "finished", "error") ELSE fut[g]]
        BY <2>1 DEF SetAllFutures
      <3>2. f \notin failing
        OBVIOUS
      <3> QED
        BY <3>1, <3>2
    <2>2. CASE CancelPending
      <3> DEFINE failing == {g \in Futures : <<"fetch", g>> \in jobs /\ ~fut[g].received}
      <3>1. fut' = [g \in Futures |-> IF g \in failing THEN Settled(g, "finished", "error") ELSE fut[g]]
        BY <2>2 DEF CancelPending
      <3>2. f \notin failing
        OBVIOUS
      <3> QED
        BY <3>1, <3>2
    <2>3. CASE DestroyConnectors \/ CloseLoop \/ PipeCloses
      BY <2>3 DEF DestroyConnectors, CloseLoop, PipeCloses
    <2> QED
      BY <1>7, <2>1, <2>2, <2>3 DEF Teardown
  <1>8. CASE Scheduler \/ (\E kind \in EventKinds \ {"clear"} : LoopFails(kind)) \/ UNCHANGED vars
    BY <1>8 DEF Scheduler, SchedulerReceives, SchedulerAnswers, SchedulerAborts, StrayEnds, LoopFails, vars
  <1> QED
    BY <1>1, <1>2, <1>3, <1>4, <1>5, <1>6, <1>7, <1>8 DEF Next, AgentLoop

\* An outcome is final (the action property), for any futures, calls and failures.
THEOREM OutcomesFinal == Spec => OutcomeFinal
  <1>1. Types /\ SettleInv /\ [Next]_vars =>
           [\A f \in Futures : fut[f].received => fut'[f].outcome \in {fut[f].outcome, "cancelled"}]_vars
    BY FinalStep
  <1> QED
    BY <1>1, SettleCorrect, PTL DEF Spec, OutcomeFinal

-----------------------------------------------------------------------------
(* What the queues hold.                                                   *)

Has(q, m) == \E i \in DOMAIN q : q[i] = m
\* A clear in the queue covers f; an answer in the queue is about f.
Clears(q, f) == \E i \in DOMAIN q : q[i][1] = "clear" /\ f \in q[i][2]
About(q, f) == \E i \in DOMAIN q : q[i][2] = f
\* A task stands before everything else that names it.
Ordered(q) == \A i, j \in DOMAIN q, g \in Names :
                 i < j /\ q[j] = <<"task", g>> => q[i] # <<"task", g>> /\ q[i] # <<"cancel", g>>

LEMMA AppendHolds ==
  ASSUME NEW S, NEW q \in Seq(S), NEW x \in S
  PROVE  /\ \A m : Has(Append(q, x), m) <=> Has(q, m) \/ x = m
         /\ \A f : Clears(Append(q, x), f) <=> Clears(q, f) \/ (x[1] = "clear" /\ f \in x[2])
  <1>1. /\ DOMAIN Append(q, x) = 1..(Len(q) + 1) /\ DOMAIN q = 1..Len(q) /\ Len(q) \in Nat
        /\ Append(q, x)[Len(q) + 1] = x /\ \A i \in 1..Len(q) : Append(q, x)[i] = q[i]
    OBVIOUS
  <1>2. \A i \in 1..(Len(q) + 1) : i \in 1..Len(q) \/ i = Len(q) + 1
    BY <1>1
  <1> DEFINE p == Append(q, x)
             n == Len(q) + 1
  <1>3. n \in DOMAIN p /\ p[n] = x /\ \A i \in DOMAIN q : i \in DOMAIN p /\ p[i] = q[i]
    BY <1>1
  <1>4. \A i \in DOMAIN p : i \in DOMAIN q \/ i = n
    BY <1>1, <1>2
  <1> HIDE DEF p, n
  <1>5. /\ \A m : Has(p, m) <=> Has(q, m) \/ x = m
        /\ \A f : Clears(p, f) <=> Clears(q, f) \/ (x[1] = "clear" /\ f \in x[2])
    BY <1>3, <1>4 DEF Has, Clears
  <1> QED
    BY <1>5 DEF p

LEMMA TailHolds ==
  ASSUME NEW S, NEW q \in Seq(S), q # <<>>
  PROVE  /\ \A m : Has(q, m) <=> Has(Tail(q), m) \/ Head(q) = m
         /\ \A f : Clears(q, f) <=> Clears(Tail(q), f) \/ (Head(q)[1] = "clear" /\ f \in Head(q)[2])
         /\ \A f : About(Tail(q), f) => About(q, f)
         /\ About(q, Head(q)[2])
  <1>1. /\ DOMAIN q = 1..Len(q) /\ Len(q) \in Nat /\ Len(q) >= 1 /\ DOMAIN Tail(q) = 1..(Len(q) - 1)
        /\ Head(q) = q[1] /\ \A i \in 1..(Len(q) - 1) : Tail(q)[i] = q[i + 1]
    OBVIOUS
  <1>2. \A i \in DOMAIN q : i = 1 \/ (i - 1 \in DOMAIN Tail(q) /\ Tail(q)[i - 1] = q[i])
    BY <1>1
  <1>3. \A i \in DOMAIN Tail(q) : i + 1 \in DOMAIN q /\ Tail(q)[i] = q[i + 1]
    BY <1>1
  <1>4. 1 \in DOMAIN q /\ q[1] = Head(q)
    BY <1>1
  <1> DEFINE t == Tail(q)
  <1>5. /\ \A i \in DOMAIN q : i = 1 \/ (i - 1 \in DOMAIN t /\ t[i - 1] = q[i])
        /\ \A i \in DOMAIN t : i + 1 \in DOMAIN q /\ t[i] = q[i + 1]
    BY <1>2, <1>3
  <1> HIDE DEF t
  <1>6. \A m : Has(q, m) <=> Has(t, m) \/ q[1] = m
    BY <1>4, <1>5 DEF Has
  <1>7. \A f : Clears(q, f) <=> Clears(t, f) \/ (q[1][1] = "clear" /\ f \in q[1][2])
    BY <1>4, <1>5 DEF Clears
  <1>8. (\A f : About(t, f) => About(q, f)) /\ About(q, q[1][2])
    BY <1>4, <1>5 DEF About
  <1> QED
    BY <1>4, <1>6, <1>7, <1>8 DEF t

LEMMA ConcatAbout ==
  ASSUME NEW S, NEW p \in Seq(S), NEW q \in Seq(S), NEW f
  PROVE  About(p \o q, f) <=> About(p, f) \/ About(q, f)
  <1>1. /\ DOMAIN p = 1..Len(p) /\ DOMAIN q = 1..Len(q) /\ Len(p) \in Nat /\ Len(q) \in Nat
        /\ DOMAIN (p \o q) = 1..(Len(p) + Len(q))
        /\ \A i \in 1..Len(p) : (p \o q)[i] = p[i]
        /\ \A i \in 1..Len(q) : (p \o q)[Len(p) + i] = q[i]
    OBVIOUS
  <1>2. \A i \in DOMAIN (p \o q) : (i \in DOMAIN p /\ (p \o q)[i] = p[i])
                                      \/ (i - Len(p) \in DOMAIN q /\ (p \o q)[i] = q[i - Len(p)])
    <2> SUFFICES ASSUME NEW i \in 1..(Len(p) + Len(q)), ~(i \in 1..Len(p))
                 PROVE  i - Len(p) \in 1..Len(q) /\ (p \o q)[i] = q[i - Len(p)]
      BY <1>1
    <2>1. i - Len(p) \in 1..Len(q) /\ Len(p) + (i - Len(p)) = i
      BY <1>1
    <2> QED
      BY <1>1, <2>1
  <1>3. \A i \in DOMAIN p : i \in DOMAIN (p \o q) /\ (p \o q)[i] = p[i]
    BY <1>1
  <1>4. \A i \in DOMAIN q : Len(p) + i \in DOMAIN (p \o q) /\ (p \o q)[Len(p) + i] = q[i]
    BY <1>1
  <1> DEFINE r == p \o q
  <1>5. /\ \A i \in DOMAIN r : (i \in DOMAIN p /\ r[i] = p[i]) \/ (i - Len(p) \in DOMAIN q /\ r[i] = q[i - Len(p)])
        /\ \A i \in DOMAIN p : i \in DOMAIN r /\ r[i] = p[i]
        /\ \A i \in DOMAIN q : Len(p) + i \in DOMAIN r /\ r[Len(p) + i] = q[i]
    BY <1>2, <1>3, <1>4
  <1> HIDE DEF r
  <1>6. About(r, f) <=> About(p, f) \/ About(q, f)
    BY <1>5 DEF About
  <1> QED
    BY <1>6 DEF r

LEMMA OrderedAppend ==
  ASSUME NEW S, NEW q \in Seq(S), NEW x \in S, Ordered(q),
         \A g \in Names : x = <<"task", g>> => ~Has(q, <<"task", g>>) /\ ~Has(q, <<"cancel", g>>)
  PROVE  Ordered(Append(q, x))
  <1>1. /\ DOMAIN Append(q, x) = 1..(Len(q) + 1) /\ DOMAIN q = 1..Len(q) /\ Len(q) \in Nat
        /\ Append(q, x)[Len(q) + 1] = x /\ \A i \in 1..Len(q) : Append(q, x)[i] = q[i]
    OBVIOUS
  <1> SUFFICES ASSUME NEW i \in 1..(Len(q) + 1), NEW j \in 1..(Len(q) + 1), NEW g \in Names, i < j,
                      Append(q, x)[j] = <<"task", g>>
               PROVE  Append(q, x)[i] # <<"task", g>> /\ Append(q, x)[i] # <<"cancel", g>>
    BY <1>1 DEF Ordered
  <1>2. i \in 1..Len(q) /\ Append(q, x)[i] = q[i]
    BY <1>1
  <1>3. CASE j \in 1..Len(q)
    BY <1>1, <1>2, <1>3 DEF Ordered
  <1>4. CASE j = Len(q) + 1
    BY <1>1, <1>2, <1>4 DEF Has
  <1> QED
    BY <1>1, <1>3, <1>4

LEMMA OrderedTail ==
  ASSUME NEW S, NEW q \in Seq(S), q # <<>>, Ordered(q)
  PROVE  /\ Ordered(Tail(q))
         /\ \A g \in Names : Has(Tail(q), <<"task", g>>) => Head(q) # <<"task", g>> /\ Head(q) # <<"cancel", g>>
  <1>1. /\ DOMAIN q = 1..Len(q) /\ Len(q) \in Nat /\ Len(q) >= 1 /\ DOMAIN Tail(q) = 1..(Len(q) - 1)
        /\ Head(q) = q[1] /\ \A i \in 1..(Len(q) - 1) : Tail(q)[i] = q[i + 1]
    OBVIOUS
  <1>2. Ordered(Tail(q))
    <2> SUFFICES ASSUME NEW i \in 1..(Len(q) - 1), NEW j \in 1..(Len(q) - 1), NEW g \in Names, i < j,
                        Tail(q)[j] = <<"task", g>>
                 PROVE  Tail(q)[i] # <<"task", g>> /\ Tail(q)[i] # <<"cancel", g>>
      BY <1>1 DEF Ordered
    <2>1. i + 1 \in DOMAIN q /\ j + 1 \in DOMAIN q /\ i + 1 < j + 1 /\ Tail(q)[i] = q[i + 1] /\ Tail(q)[j] = q[j + 1]
      BY <1>1
    <2> QED
      BY <2>1 DEF Ordered
  <1>3. ASSUME NEW g \in Names, Has(Tail(q), <<"task", g>>)
        PROVE  Head(q) # <<"task", g>> /\ Head(q) # <<"cancel", g>>
    <2>1. PICK j \in 1..(Len(q) - 1) : Tail(q)[j] = <<"task", g>>
      BY <1>1, <1>3 DEF Has
    <2>2. j + 1 \in DOMAIN q /\ 1 \in DOMAIN q /\ 1 < j + 1 /\ q[j + 1] = <<"task", g>>
      BY <1>1, <2>1
    <2> QED
      BY <1>1, <2>2 DEF Ordered
  <1> QED
    BY <1>2, <1>3

-----------------------------------------------------------------------------
(* clear() lets no object go that a task may still name.                   *)
(*                                                                         *)
(* A task is out from the moment Main sends it until the scheduler has     *)
(* answered for it.  A future whose task is out is in the manager, so      *)
(* clear() waits for it; a future whose task is still to be sent has been  *)
(* named by nobody, so no answer, cancel or clear can be ahead of its task. *)

Queued(m) == Has(net.inbox, m) \/ Has(net.outbox, m)
Covered(f) == Clears(net.inbox, f) \/ Clears(net.outbox, f)
Out(f) == f \in held.tasks \/ Queued(<<"task", fut[f].group>>)
\* The scheduler is done with f: it answered, or will answer once more.
Told(f) == About(net.answers, f) \/ (agent.settling # <<>> /\ agent.settling[1] = f) \/ f \in held.stray

Making == thread[Main].op \in {"add", "commit", "upload", "send"}
\* The task of f is part of a call under way and is not sent yet.
Coming(f) == Making /\ f \in thread[Main].todo /\ fut[f].group \notin thread[Main].sent
Untouched(f) == /\ ~Out(f) /\ ~Told(f) /\ ~Covered(f) /\ ~fut[f].given
                /\ ~Queued(<<"task", f>>) /\ ~Queued(<<"cancel", f>>)
Clearing == \/ thread[Main].op = "cancelall" /\ thread[Main].next = "clear"
            \/ thread[Main].op \in {"forcing", "forced"} /\ thread[Main].next[2] = "clear"

\* The futures of a call and the group they are sent and canceled by.
CallGroups ==
    Making => \A f \in thread[Main].todo :
        /\ fut[f].group \in thread[Main].todo /\ fut[fut[f].group].call = fut[f].call
        /\ fut[fut[f].group].group = fut[f].group
        /\ fut[f].call # "get" => fut[f].group = f
Groups ==
    \A f \in Futures :
        /\ fut[f].state # "pending" =>
              fut[f].group \in Futures /\ fut[fut[f].group].state # "pending" /\ fut[fut[f].group].group = fut[f].group
        /\ Making /\ fut[f].group \in thread[Main].todo => f \in thread[Main].todo
        /\ fut[f].group \in Futures /\ fut[fut[f].group].state = "pending" =>
              fut[f].group = f \/ (thread[Main].op = "add" /\ f \in thread[Main].todo)
Registered ==
    /\ thread[Main].op = "add" => Unregistered # {}
    /\ thread[Main].op \in {"commit", "upload", "send"} => Unregistered = {}
    /\ <<"upload", Main>> \in jobs => thread[Main].op = "upload"
    /\ thread[Main].op \in {"cancelall", "forcing", "forced"} => \A f \in thread[Main].todo : fut[f].state # "pending"
NotYet == \A f \in Futures :
             /\ fut[f].state = "pending" \/ Coming(f) => Untouched(f)
             /\ Coming(f) /\ fut[f].state # "pending" => f \in manager
Placed == \A f \in Futures :
             /\ Out(f) => f \in manager /\ ~Told(f)
             /\ f \in held.tasks => ~Queued(<<"task", fut[f].group>>)
InLine == /\ Ordered(net.inbox) /\ Ordered(net.outbox)
          /\ \A g \in Names : Has(net.inbox, <<"task", g>>) =>
                ~Has(net.outbox, <<"task", g>>) /\ ~Has(net.outbox, <<"cancel", g>>)
          /\ \A g \in Names : Queued(<<"cancel", g>>) => g \in Futures /\ fut[g].group = g
ClearWaits == /\ \A f \in Futures : Covered(f) => ~Out(f)
              /\ Clearing => \A f \in Futures : Out(f) => f \in thread[Main].todo
ClearParts == CallGroups /\ Groups /\ Registered /\ NotYet /\ Placed /\ InLine /\ ClearWaits

OutboxCleared == \A f \in Futures : Clears(net.outbox, f) => f \notin held.tasks
ClearInv == (agent.phase = "running" => ClearParts) /\ OutboxCleared

\* No step of the others than Main makes a task out, covers one or names one that is
\* not named: what is out stays with the scheduler until it is answered.
Steady ==
    /\ \A f \in Futures : Identity(f) /\ (fut'[f].state = "pending" <=> fut[f].state = "pending")
    /\ <<"upload", Main>> \in jobs' => <<"upload", Main>> \in jobs
Narrower ==
    /\ \A f \in Futures : f \in manager => f \in manager' \/ Told(f)
    /\ \A f \in Futures : (Out(f)' => Out(f)) /\ (Covered(f)' => Covered(f))
    /\ \A g \in Names : /\ Queued(<<"cancel", g>>)' => Queued(<<"cancel", g>>)
                        /\ Queued(<<"task", g>>)' => Queued(<<"task", g>>)
    /\ \A f \in Futures : Told(f)' => Told(f) \/ (~Out(f)' /\ (Out(f) \/ Queued(<<"cancel", f>>)))
    /\ \A f \in Futures : f \in held'.tasks => ~Queued(<<"task", fut[f].group>>)'
    /\ Ordered(net.inbox)' /\ Ordered(net.outbox)'
    /\ \A g \in Names : Has(net.inbox, <<"task", g>>)' =>
                ~Has(net.outbox, <<"task", g>>)' /\ ~Has(net.outbox, <<"cancel", g>>)'

\* The shape of a call under way is that of Main and of the groups.
LEMMA ShapeSame ==
  ASSUME Types, ClearParts, thread'[Main] = thread[Main], Steady
  PROVE  /\ CallGroups' /\ Groups' /\ Registered'
         /\ \A f \in Futures : Coming(f)' = Coming(f)
         /\ Clearing' = Clearing
  <1>0. thread[Main] \in ThreadType /\ thread[Main].todo \in SUBSET Futures /\ \A f \in Futures : fut[f].group \in Names
    BY MainType DEF Types, ThreadType, ThreadRecord, FutTypes, FutureType, Names
  <1>1. \A f \in Futures : fut'[f].group = fut[f].group /\ fut'[f].call = fut[f].call /\ fut'[f].given = fut[f].given
    BY DEF Steady, Identity
  <1>2. Making' = Making /\ Clearing' = Clearing
    BY DEF Making, Clearing
  <1>3. Unregistered' = Unregistered
    BY <1>0 DEF Steady, Unregistered
  <1>4. CallGroups'
    <2> SUFFICES ASSUME Making', NEW f \in thread'[Main].todo
                 PROVE  /\ fut'[f].group \in thread'[Main].todo /\ fut'[fut'[f].group].call = fut'[f].call
                        /\ fut'[fut'[f].group].group = fut'[f].group
                        /\ fut'[f].call # "get" => fut'[f].group = f
      BY DEF CallGroups
    <2> QED
      BY <1>0, <1>1, <1>2 DEF ClearParts, CallGroups
  <1>5. Groups'
    <2> SUFFICES ASSUME NEW f \in Futures
                 PROVE  /\ fut'[f].state # "pending" =>
                              fut'[f].group \in Futures /\ fut'[fut'[f].group].state # "pending"
                              /\ fut'[fut'[f].group].group = fut'[f].group
                        /\ Making' /\ fut'[f].group \in thread'[Main].todo => f \in thread'[Main].todo
                        /\ fut'[f].group \in Futures /\ fut'[fut'[f].group].state = "pending" =>
                              fut'[f].group = f \/ (thread'[Main].op = "add" /\ f \in thread'[Main].todo)
      BY DEF Groups
    <2> QED
      BY <1>1, <1>2 DEF ClearParts, Groups, Steady
  <1>6. Registered'
    BY <1>0, <1>3 DEF ClearParts, Registered, Steady
  <1>7. \A f \in Futures : Coming(f)' = Coming(f)
    BY <1>1, <1>2 DEF Coming
  <1> QED
    BY <1>2, <1>4, <1>5, <1>6, <1>7

LEMMA OthersClear ==
  ASSUME Types, ClearParts, thread'[Main] = thread[Main], Steady, Narrower
  PROVE  ClearParts'
  <1>1. \A f \in Futures : fut'[f].group = fut[f].group /\ fut'[f].call = fut[f].call /\ fut'[f].given = fut[f].given
    BY DEF Steady, Identity
  <1>2. CallGroups' /\ Groups' /\ Registered' /\ Clearing' = Clearing
    BY ShapeSame
  <1>3. \A f \in Futures : Coming(f)' = Coming(f)
    BY ShapeSame
  <1>4. NotYet'
    <2> SUFFICES ASSUME NEW f \in Futures
                 PROVE  /\ fut'[f].state = "pending" \/ Coming(f)' => Untouched(f)'
                        /\ Coming(f)' /\ fut'[f].state # "pending" => f \in manager'
      BY DEF NotYet
    <2>1. fut[f].state = "pending" \/ Coming(f) => Untouched(f)
      BY DEF ClearParts, NotYet
    <2>2. f \in Names
      BY DEF Names
    <2>3. Untouched(f) => Untouched(f)'
      BY <1>1, <2>2 DEF Untouched, Narrower
    <2>4. Coming(f) /\ fut[f].state # "pending" => f \in manager'
      BY <2>1 DEF ClearParts, NotYet, Untouched, Narrower
    <2> QED
      BY <1>3, <2>1, <2>3, <2>4 DEF Steady
  <1>5. Placed'
    <2> SUFFICES ASSUME NEW f \in Futures
                 PROVE  /\ Out(f)' => f \in manager' /\ ~Told(f)'
                        /\ f \in held'.tasks => ~Queued(<<"task", fut[f].group>>)'
      BY DEF Placed
    <2> QED
      BY DEF ClearParts, Placed, Narrower
  <1>6. InLine'
    <2> SUFFICES ASSUME NEW g \in Names, Queued(<<"cancel", g>>)'
                 PROVE  g \in Futures /\ fut'[g].group = g
      BY DEF InLine, Narrower
    <2> QED
      BY <1>1 DEF ClearParts, InLine, Narrower
  <1>7. ClearWaits'
    <2>1. \A f \in Futures : Covered(f)' => ~Out(f)'
      BY DEF ClearParts, ClearWaits, Narrower
    <2>2. Clearing' => \A f \in Futures : Out(f)' => f \in thread'[Main].todo
      BY <1>2 DEF ClearParts, ClearWaits, Narrower
    <2> QED
      BY <2>1, <2>2 DEF ClearWaits
  <1> QED
    BY <1>2, <1>4, <1>5, <1>6, <1>7 DEF ClearParts

\* What is out, told, covered and queued depends on the messages, on what the
\* scheduler holds and on the future in the agent's hand only.
LEMMA SameMessages ==
  ASSUME net' = net, held' = held, agent'.settling \in {agent.settling, <<>>}, \A f \in Futures : Identity(f)
  PROVE  /\ \A f \in Futures : /\ Out(f)' = Out(f) /\ Covered(f)' = Covered(f) /\ (Told(f)' => Told(f))
                               /\ agent'.settling = agent.settling => Told(f)' = Told(f)
         /\ \A m : Queued(m)' = Queued(m)
  <1>1. \A m : Queued(m)' = Queued(m)
    BY DEF Queued
  <1>2. \A f \in Futures : fut'[f].group = fut[f].group
    BY DEF Identity
  <1> QED
    BY <1>1, <1>2 DEF Out, Covered, Told

LEMMA SameNarrower ==
  ASSUME ClearParts, net' = net, held' = held, agent'.settling \in {agent.settling, <<>>}, Steady, manager' = manager
  PROVE  Narrower
  <1>1. \A f \in Futures : Identity(f) /\ fut'[f].group = fut[f].group
    BY DEF Steady, Identity
  <1>2. /\ \A f \in Futures : Out(f)' = Out(f) /\ Covered(f)' = Covered(f) /\ (Told(f)' => Told(f))
        /\ \A m : Queued(m)' = Queued(m)
    BY <1>1, SameMessages
  <1>3. \A f \in Futures : f \in held'.tasks => ~Queued(<<"task", fut[f].group>>)'
    BY <1>1, <1>2 DEF ClearParts, Placed
  <1>4. /\ Ordered(net.inbox)' /\ Ordered(net.outbox)'
        /\ \A g \in Names : Has(net.inbox, <<"task", g>>)' =>
                ~Has(net.outbox, <<"task", g>>)' /\ ~Has(net.outbox, <<"cancel", g>>)'
    BY DEF ClearParts, InLine
  <1> QED
    BY <1>2, <1>3, <1>4 DEF Narrower

\* A step outside a call: no group is in the making.
LEMMA ShapeOutside ==
  ASSUME Types, ClearParts, Steady, ~Making', ~(<<"upload", Main>> \in jobs'),
         \A f \in Futures : thread[Main].op = "add" /\ f \in thread[Main].todo /\ fut[fut[f].group].state = "pending" =>
             fut[f].group = f,
         thread'[Main].op \in {"cancelall", "forcing", "forced"} =>
             \A f \in thread'[Main].todo : f \in Futures /\ fut[f].state # "pending"
  PROVE  CallGroups' /\ Groups' /\ Registered' /\ \A f \in Futures : ~Coming(f)'
  <1>1. \A f \in Futures : fut'[f].group = fut[f].group /\ (fut'[f].state = "pending" <=> fut[f].state = "pending")
    BY DEF Steady, Identity
  <1>2. CallGroups' /\ \A f \in Futures : ~Coming(f)'
    BY DEF CallGroups, Coming
  <1>3. Groups'
    <2> SUFFICES ASSUME NEW f \in Futures
                 PROVE  /\ fut'[f].state # "pending" =>
                              fut'[f].group \in Futures /\ fut'[fut'[f].group].state # "pending"
                              /\ fut'[fut'[f].group].group = fut'[f].group
                        /\ fut'[f].group \in Futures /\ fut'[fut'[f].group].state = "pending" => fut'[f].group = f
      BY DEF Groups
    <2> QED
      BY <1>1 DEF ClearParts, Groups
  <1>4. Registered'
    BY <1>1 DEF Registered, Making
  <1> QED
    BY <1>2, <1>3, <1>4

\* A step of Main that sends nothing: it neither drops nor waits for less than is out.
LEMMA MainMessages ==
  ASSUME Types, ClearParts, net' = net, held' = held, agent'.settling = agent.settling, \A f \in Futures : Identity(f),
         \A f \in Futures : fut'[f].state = "pending" \/ Coming(f)' => fut[f].state = "pending" \/ Coming(f),
         \A f \in Futures : Coming(f)' /\ fut'[f].state # "pending" => f \in manager',
         manager \subseteq manager',
         Clearing' => \A f \in Futures : Out(f) => f \in thread'[Main].todo
  PROVE  NotYet' /\ Placed' /\ InLine' /\ ClearWaits'
  <1>1. \A f \in Futures : fut'[f].group = fut[f].group /\ fut'[f].given = fut[f].given
    BY DEF Identity
  <1>2. /\ \A f \in Futures : Out(f)' = Out(f) /\ Covered(f)' = Covered(f) /\ Told(f)' = Told(f)
        /\ \A m : Queued(m)' = Queued(m)
    BY SameMessages
  <1>3. NotYet'
    <2> SUFFICES ASSUME NEW f \in Futures, fut'[f].state = "pending" \/ Coming(f)'
                 PROVE  Untouched(f)'
      BY DEF NotYet
    <2>1. Untouched(f)
      BY DEF ClearParts, NotYet
    <2> QED
      BY <1>1, <1>2, <2>1 DEF Untouched
  <1>4. Placed'
    BY <1>1, <1>2 DEF ClearParts, Placed
  <1>5. InLine'
    <2> SUFFICES ASSUME NEW g \in Names, Queued(<<"cancel", g>>)'
                 PROVE  g \in Futures /\ fut'[g].group = g
      BY DEF ClearParts, InLine
    <2> QED
      BY <1>1, <1>2 DEF ClearParts, InLine
  <1>6. ClearWaits'
    BY <1>2 DEF ClearParts, ClearWaits
  <1> QED
    BY <1>3, <1>4, <1>5, <1>6

\* A cancel is sent: nothing is out, covered or told for it, and its name is that of a
\* group whose task has been sent.
LEMMA CancelSent ==
  ASSUME Types, ClearParts, held' = held, agent'.settling = agent.settling, manager' = manager,
         \A f \in Futures : Identity(f) /\ (fut'[f].state = "pending" <=> fut[f].state = "pending"),
         NEW g \in Futures, fut[g].group = g, fut[g].state # "pending", ~Coming(g),
         net'.inbox = Append(net.inbox, <<"cancel", g>>), net'.outbox = net.outbox, net'.answers = net.answers,
         \A f \in Futures : Coming(f)' = Coming(f),
         Clearing' => Clearing /\ thread'[Main].todo = thread[Main].todo
  PROVE  NotYet' /\ Placed' /\ InLine' /\ ClearWaits'
  <1>1. \A f \in Futures : fut'[f].group = fut[f].group /\ fut'[f].given = fut[f].given
    BY DEF Identity
  <1>2. net.inbox \in Seq(ClientMessages) /\ <<"cancel", g>> \in ClientMessages
    BY DEF Types, NetTypes, NetType, ClientMessages, Names
  <1>3. /\ \A m : Has(net.inbox, m)' <=> Has(net.inbox, m) \/ <<"cancel", g>> = m
        /\ \A f : Clears(net.inbox, f)' <=> Clears(net.inbox, f)
    BY <1>2, AppendHolds
  <1>4. /\ \A m : Queued(m)' <=> Queued(m) \/ <<"cancel", g>> = m
        /\ \A f \in Futures : Covered(f)' <=> Covered(f)
    BY <1>3 DEF Queued, Covered, Has, Clears
  <1>5. \A x : /\ Queued(<<"task", x>>)' <=> Queued(<<"task", x>>)
               /\ Queued(<<"cancel", x>>)' <=> Queued(<<"cancel", x>>) \/ x = g
    BY <1>4
  <1>6. \A f \in Futures : (Out(f)' <=> Out(f)) /\ (Told(f)' <=> Told(f))
    BY <1>1, <1>5 DEF Out, Told
  <1>7. NotYet'
    <2> SUFFICES ASSUME NEW f \in Futures
                 PROVE  /\ fut'[f].state = "pending" \/ Coming(f)' => Untouched(f)'
                        /\ Coming(f)' /\ fut'[f].state # "pending" => f \in manager'
      BY DEF NotYet
    <2>1. fut[f].state = "pending" \/ Coming(f) => Untouched(f) /\ f # g
      BY DEF ClearParts, NotYet
    <2>2. f # g /\ Untouched(f) => Untouched(f)'
      BY <1>1, <1>4, <1>5, <1>6 DEF Untouched
    <2> QED
      BY <2>1, <2>2 DEF ClearParts, NotYet
  <1>8. Placed'
    BY <1>1, <1>5, <1>6 DEF ClearParts, Placed
  <1>9. InLine'
    <2>1. Ordered(net.inbox)'
      BY <1>2, OrderedAppend DEF ClearParts, InLine
    <2>2. Ordered(net.outbox)'
      BY DEF ClearParts, InLine, Ordered
    <2>3. \A x \in Names : Has(net.inbox, <<"task", x>>)' =>
              ~Has(net.outbox, <<"task", x>>)' /\ ~Has(net.outbox, <<"cancel", x>>)'
      <3>1. \A m : Has(net.outbox, m)' = Has(net.outbox, m)
        BY DEF Has
      <3>2. \A x \in Names : Has(net.inbox, <<"task", x>>)' => Has(net.inbox, <<"task", x>>)
        BY <1>3
      <3> QED
        BY <3>1, <3>2 DEF ClearParts, InLine
    <2>4. \A x \in Names : Queued(<<"cancel", x>>)' => x \in Futures /\ fut'[x].group = x
      BY <1>1, <1>5 DEF ClearParts, InLine
    <2> QED
      BY <2>1, <2>2, <2>3, <2>4 DEF InLine
  <1>10. ClearWaits'
    BY <1>4, <1>6 DEF ClearParts, ClearWaits
  <1> QED
    BY <1>7, <1>8, <1>9, <1>10

\* The group of a future that was handed out has been sent.
LEMMA GroupSent ==
  ASSUME Types, ClearParts, NEW f \in Futures, fut[f].given \/ ~Making, fut[f].state # "pending"
  PROVE  /\ fut[f].group \in Futures /\ fut[fut[f].group].group = fut[f].group
         /\ fut[fut[f].group].state # "pending" /\ ~Coming(fut[f].group)
  <1>1. fut[f].group \in Futures /\ fut[fut[f].group].group = fut[f].group /\ fut[fut[f].group].state # "pending"
    BY DEF ClearParts, Groups
  <1>2. ~Coming(fut[f].group)
    <2>1. fut[f].given => ~Coming(f)
      BY DEF ClearParts, NotYet, Untouched
    <2> QED
      BY <1>1, <2>1 DEF ClearParts, Groups, Coming
  <1> QED
    BY <1>1, <1>2

\* What cancel() asks the agent for.
LEMMA CancelAsks ==
  ASSUME Types, NEW t, NEW f \in Futures, NEW waiting, NEW raised, Cancel(t, f, waiting, raised)
  PROVE  \/ net' = net
         \/ net'.inbox = Append(net.inbox, <<"cancel", fut[f].group>>) /\ net'.outbox = net.outbox /\ net'.answers = net.answers
            /\ net.pipe = "open"
  <1>1. net' = net \/ net' = Sent(<<"cancel", fut[f].group>>)
    BY DEF Cancel
  <1>2. Sent(<<"cancel", fut[f].group>>) = net \/ net.pipe = "open"
    BY DEF Sent
  <1> QED
    BY <1>1, <1>2, SentPipe

LEMMA UserClear ==
  ASSUME Types, SettleInv, agent.phase = "running", ClearParts, NEW t \in Users, User(t)
  PROVE  ClearParts'
  <1>0. FutTypes /\ thread \in [Threads -> ThreadType] /\ t # Main /\ Main \in Threads
    BY NamesAssumption DEF Types, ThreadTypes, Threads
  <1>1. PICK f \in Futures : UserCancel(t, f) \/ Result(t, f) \/ AddDoneCallback(t, f) \/ GetsOut(t, f)
    BY DEF User
  <1>2. CASE UserCancel(t, f)
    <2>1. PICK waiting, raised : Cancel(t, f, waiting, raised)
      BY <1>2 DEF UserCancel
    <2>2. log' = log /\ manager' = manager /\ agent' = agent /\ jobs' = jobs /\ held' = held
      BY <1>2 DEF UserCancel
    <2>3. \A g \in Futures : Identity(g) /\ Unmoved(g)
      BY <2>1, <2>2, CancelMoves
    <2>4. Steady
      BY <2>2, <2>3 DEF Steady, Unmoved
    <2>5. thread'[Main] = thread[Main]
      BY <1>0, <2>1 DEF Cancel, GoTo
    <2>6. CASE net' = net
      BY <2>2, <2>4, <2>5, <2>6, OthersClear, SameNarrower
    <2>7. CASE net'.inbox = Append(net.inbox, <<"cancel", fut[f].group>>) /\ net'.outbox = net.outbox
               /\ net'.answers = net.answers
      <3>1. fut[f].given /\ fut[f].state # "pending"
        BY <1>2 DEF UserCancel, ClearParts, NotYet, Untouched
      <3>2. PICK g : g = fut[f].group
        OBVIOUS
      <3>3. g \in Futures /\ fut[g].group = g /\ fut[g].state # "pending" /\ ~Coming(g)
        BY <3>1, <3>2, GroupSent
      <3>4. CallGroups' /\ Groups' /\ Registered' /\ (\A x \in Futures : Coming(x)' = Coming(x)) /\ Clearing' = Clearing
        BY <2>4, <2>5, ShapeSame
      <3>5. net'.inbox = Append(net.inbox, <<"cancel", g>>)
        BY <2>7, <3>2
      <3>6. NotYet' /\ Placed' /\ InLine' /\ ClearWaits'
        BY <2>2, <2>4, <2>5, <2>7, <3>3, <3>4, <3>5, CancelSent DEF Steady
      <3> QED
        BY <3>4, <3>6 DEF ClearParts
    <2> QED
      BY <2>1, <2>6, <2>7, CancelAsks
  <1>3. CASE Result(t, f) \/ CancelReturns(t, f) \/ ResultReturns(t, f)
    <2>1. fut' = fut /\ jobs' = jobs /\ net' = net /\ held' = held /\ agent' = agent /\ manager' = manager
      BY <1>3 DEF Result, CancelReturns, ResultReturns
    <2>2. Steady
      BY <2>1 DEF Steady, Identity
    <2>3. thread'[Main] = thread[Main]
      BY <1>0, <1>3 DEF Result, CancelReturns, ResultReturns, GoTo
    <2> QED
      BY <2>1, <2>2, <2>3, OthersClear, SameNarrower
  <1>4. CASE AddDoneCallback(t, f)
    <2>1. jobs' = jobs /\ net' = net /\ held' = held /\ agent' = agent /\ manager' = manager /\ thread' = thread
          /\ fut' = [fut EXCEPT ![f].callbacks = 1]
      BY <1>4 DEF AddDoneCallback
    <2>2. fut[f] \in FutureType /\ fut'[f] = [fut[f] EXCEPT !.callbacks = 1] /\ \A g \in Futures : g # f => fut'[g] = fut[g]
      BY <1>0, <2>1 DEF FutTypes
    <2>3. Identity(f) /\ fut'[f].state = fut[f].state
      BY <2>2 DEF Identity, FutureType
    <2>4. Steady
      BY <2>1, <2>2, <2>3 DEF Steady, Identity
    <2> QED
      BY <2>1, <2>4, OthersClear, SameNarrower
  <1>5. CASE ResultReady(t, f)
    <2>1. net' = net /\ held' = held /\ agent' = agent /\ manager' = manager
      BY <1>5 DEF ResultReady
    <2>2. thread'[Main] = thread[Main]
      BY <1>0, <1>5 DEF ResultReady, AskFor, GoTo
    <2>3. PICK waiting : AskFor(t, f, waiting) \/ (fut' = fut /\ jobs' = jobs /\ log' = log)
      BY <1>5 DEF ResultReady
    <2>4. (\A g \in Futures : Identity(g) /\ Unmoved(g)) /\ jobs' \subseteq jobs \cup {<<"fetch", f>>}
      BY <2>3, AskForMoves, UnchangedMoves
    <2>5. Steady
      BY <2>4 DEF Steady, Unmoved
    <2> QED
      BY <2>1, <2>2, <2>5, OthersClear, SameNarrower
  <1> QED
    BY <1>1, <1>2, <1>3, <1>4, <1>5 DEF GetsOut

\* The agent passes a message on, or drops a cancel of a task it does not know.
LEMMA FromClientClear ==
  ASSUME Types, ClearParts, FromClient, agent'.phase = "running"
  PROVE  ClearParts'
  <1> DEFINE h == Head(net.inbox)
  <1>1. /\ net \in NetType /\ agent \in AgentType
        /\ net.inbox \in Seq(ClientMessages) /\ net.inbox # <<>> /\ net.outbox \in Seq(ClientMessages) /\ h \in ClientMessages
    BY DEF Types, NetTypes, NetType, FromClient, AgentTypes
  <1>2. h[1] # "disconnect"
    BY <1>1 DEF FromClient, Ends, AgentType
  <1>3. agent'.settling = agent.settling
    BY <1>1, <1>2 DEF FromClient, AgentType
  <1>4. /\ net'.inbox = Tail(net.inbox) /\ (net'.outbox = net.outbox \/ net'.outbox = Append(net.outbox, h))
        /\ net'.answers = net.answers
    BY <1>1 DEF FromClient, NetType
  <1>5. fut' = fut /\ thread' = thread /\ jobs' = jobs /\ held' = held /\ manager' = manager
    BY DEF FromClient
  <1> HIDE DEF h
  <1>6. /\ \A m : Has(net.inbox, m) <=> Has(net.inbox, m)' \/ h = m
        /\ \A f : Clears(net.inbox, f) <=> Clears(net.inbox, f)' \/ (h[1] = "clear" /\ f \in h[2])
    BY <1>1, <1>4, TailHolds DEF h
  <1>7. /\ \A m : Has(net.outbox, m)' => Has(net.outbox, m) \/ h = m
        /\ \A f : Clears(net.outbox, f)' => Clears(net.outbox, f) \/ (h[1] = "clear" /\ f \in h[2])
    <2>1. CASE net'.outbox = net.outbox
      BY <2>1 DEF Has, Clears
    <2>2. CASE net'.outbox = Append(net.outbox, h)
      BY <1>1, <2>2, AppendHolds
    <2> QED
      BY <1>4, <2>1, <2>2
  <1>8. (\A m : Queued(m)' => Queued(m)) /\ \A f \in Futures : Covered(f)' => Covered(f)
    BY <1>6, <1>7 DEF Queued, Covered
  <1>9. \A f \in Futures : (Out(f)' => Out(f)) /\ (Told(f)' => Told(f))
    BY <1>3, <1>4, <1>5, <1>8 DEF Out, Told
  <1>10. /\ Ordered(net.inbox)'
         /\ \A g \in Names : Has(net.inbox, <<"task", g>>)' => h # <<"task", g>> /\ h # <<"cancel", g>>
    BY <1>1, <1>4, OrderedTail DEF ClearParts, InLine, h
  <1>11. Ordered(net.outbox)'
    <2>1. \A g \in Names : h = <<"task", g>> => ~Has(net.outbox, <<"task", g>>) /\ ~Has(net.outbox, <<"cancel", g>>)
      BY <1>6 DEF ClearParts, InLine
    <2>2. Ordered(net.outbox) /\ Ordered(Append(net.outbox, h))
      BY <1>1, <2>1, OrderedAppend DEF ClearParts, InLine
    <2> QED
      BY <1>4, <2>2
  <1>12. \A g \in Names : Has(net.inbox, <<"task", g>>)' =>
             ~Has(net.outbox, <<"task", g>>)' /\ ~Has(net.outbox, <<"cancel", g>>)'
    BY <1>6, <1>7, <1>10 DEF ClearParts, InLine
  <1>13. \A f \in Futures : f \in held'.tasks => ~Queued(<<"task", fut[f].group>>)'
    BY <1>5, <1>8 DEF ClearParts, Placed
  <1>14. Steady
    BY <1>5 DEF Steady, Identity
  <1>15. Narrower
    BY <1>5, <1>8, <1>9, <1>10, <1>11, <1>12, <1>13 DEF Narrower
  <1> QED
    BY <1>5, <1>14, <1>15, OthersClear

\* A future leaves the manager only when the scheduler has answered for it.
LEMMA FromSchedulerClear ==
  ASSUME Types, SettleInv, ClearParts, FromScheduler, agent'.phase = "running"
  PROVE  ClearParts'
  <1> DEFINE kind == Head(net.answers)[1]
             f == Head(net.answers)[2]
             known == f \in agent.taskIds
  <1>1. /\ net \in NetType /\ agent \in AgentType /\ net.answers \in Seq(Answers) /\ net.answers # <<>> /\ FutTypes
        /\ manager \in SUBSET Futures
    BY DEF Types, NetTypes, NetType, FromScheduler, AgentTypes
  <1>2. kind # "shutdown"
    BY <1>1 DEF FromScheduler, Ends, AgentType
  <1>3. agent' = [agent EXCEPT !.taskIds = @ \ {f},
                               !.settling = IF known /\ f \in manager /\ kind # "confirm" THEN <<f, kind>> ELSE @]
    BY <1>2 DEF FromScheduler
  <1>4. /\ net'.inbox = net.inbox /\ net'.outbox = net.outbox /\ net'.answers = Tail(net.answers)
        /\ thread' = thread /\ jobs' = jobs /\ held' = held /\ manager' = IF known THEN manager \ {f} ELSE manager
    BY <1>1 DEF FromScheduler, NetType
  <1>5. IF kind = "confirm" /\ known /\ f \in manager /\ ~Done(f)
        THEN Settle(f, "cancelled", "cancelled") ELSE UNCHANGED <<fut, log>>
    BY DEF FromScheduler
  <1>6. About(net.answers, f) /\ \A x : About(Tail(net.answers), x) => About(net.answers, x)
    BY <1>1, TailHolds
  <1> HIDE DEF kind, f, known
  <1>7. agent'.settling = agent.settling \/ agent'.settling = <<f, kind>>
    BY <1>1, <1>3 DEF AgentType
  <1>8. f \in manager => fut[f].state = "running"
    BY DEF SettleInv, Managed, FromScheduler, Running
  <1>9. Steady
    <2>1. CASE Settle(f, "cancelled", "cancelled") /\ f \in manager
      <3>1. f \in Futures /\ fut[f].state = "running"
        BY <1>1, <1>8, <2>1
      <3>2. /\ \A g \in Futures : Identity(g) /\ (g # f => Unmoved(g))
            /\ fut'[f].state = "cancelled"
        BY <1>1, <2>1, <3>1, SettleMoves
      <3> QED
        BY <1>4, <3>1, <3>2 DEF Steady, Unmoved
    <2>2. CASE fut' = fut
      BY <1>4, <2>2 DEF Steady, Identity
    <2> QED
      BY <1>5, <2>1, <2>2
  <1>10. \A x \in Futures : fut'[x].group = fut[x].group
    BY <1>9 DEF Steady, Identity
  <1>11. \A m : (Has(net.inbox, m)' <=> Has(net.inbox, m)) /\ (Has(net.outbox, m)' <=> Has(net.outbox, m))
    BY <1>4 DEF Has
  <1>12. (\A m : Queued(m)' <=> Queued(m)) /\ \A x \in Futures : Covered(x)' <=> Covered(x)
    BY <1>4, <1>11 DEF Queued, Covered, Clears
  <1>13. \A x \in Futures : (Out(x)' <=> Out(x)) /\ (Told(x)' => Told(x))
    BY <1>4, <1>6, <1>7, <1>10, <1>12 DEF Out, Told
  <1>14. \A x \in Futures : x \in manager => x \in manager' \/ Told(x)
    BY <1>4, <1>6 DEF Told
  <1>15. \A x \in Futures : x \in held'.tasks => ~Queued(<<"task", fut[x].group>>)'
    BY <1>4, <1>10, <1>12 DEF ClearParts, Placed
  <1>16. Ordered(net.inbox)' /\ Ordered(net.outbox)'
    BY <1>4 DEF ClearParts, InLine
  <1>17. \A g \in Names : Has(net.inbox, <<"task", g>>)' =>
             ~Has(net.outbox, <<"task", g>>)' /\ ~Has(net.outbox, <<"cancel", g>>)'
    BY <1>11 DEF ClearParts, InLine
  <1>18. Narrower
    BY <1>12, <1>13, <1>14, <1>15, <1>16, <1>17 DEF Narrower
  <1> QED
    BY <1>4, <1>9, <1>18, OthersClear

LEMMA SettlesClear ==
  ASSUME Types, SettleInv, ClearParts, ApplyResult \/ (\E job \in jobs : job[1] = "fetch" /\ JobDone(job)),
         agent'.phase = "running"
  PROVE  ClearParts'
  <1>0. FutTypes /\ agent \in AgentType
    BY DEF Types, AgentTypes
  <1>1. CASE ApplyResult
    <2>1. PICK f \in Futures, kind \in {"value", "error", "died"} : agent.settling = <<f, kind>>
      BY <1>0, <1>1 DEF AgentType, ApplyResult
    <2>2. agent.settling[1] = f /\ agent.settling[2] = kind /\ fut[f].state = "running"
      BY <1>1, <2>1 DEF SettleInv, InHand, ApplyResult
    <2>3. /\ agent' = [agent EXCEPT !.settling = <<>>]
          /\ (Settle(f, "finished", "error") /\ jobs' = jobs) \/ SetResultReady(f, kind)
      BY <1>0, <1>1, <2>2 DEF ApplyResult, Ends, AgentType
    <2>4. net' = net /\ held' = held /\ manager' = manager /\ thread' = thread
      BY <1>1 DEF ApplyResult
    <2>5. agent'.settling = <<>>
      BY <1>0, <2>3 DEF AgentType
    <2>6. /\ \A g \in Futures : Identity(g) /\ (g # f => Unmoved(g))
          /\ fut'[f].state = "finished" /\ jobs' \subseteq jobs \cup {<<"fetch", f>>}
      BY <1>0, <2>3, SettleMoves, ReadyMoves
    <2>7. Steady
      BY <2>2, <2>6 DEF Steady, Unmoved
    <2> QED
      BY <2>4, <2>5, <2>7, OthersClear, SameNarrower
  <1>2. ASSUME NEW job \in jobs, job[1] = "fetch", JobDone(job)
        PROVE  ClearParts'
    <2>1. PICK f \in Futures : job = <<"fetch", f>>
      BY <1>2 DEF Types, JobTypes, JobType
    <2>2. fut[f].state # "pending"
      BY <2>1 DEF SettleInv, Fetching
    <2>3. /\ net' = net /\ held' = held /\ manager' = manager /\ thread' = thread /\ agent' = agent /\ jobs' \subseteq jobs
          /\ fut' = fut \/ Settle(f, "finished", fut[f].outcome)
      BY <1>2, <2>1 DEF JobDone
    <2>4. /\ \A g \in Futures : Identity(g) /\ (g # f => fut'[g].state = fut[g].state)
          /\ fut'[f].state \in {"finished", fut[f].state}
      BY <1>0, <2>3, SettleMoves DEF Identity, Unmoved
    <2>5. Steady
      BY <2>2, <2>3, <2>4 DEF Steady
    <2> QED
      BY <2>3, <2>5, OthersClear, SameNarrower
  <1> QED
    BY <1>1, <1>2

\* The scheduler takes the oldest message, or none.
Taken == /\ net'.inbox = net.inbox
         /\ net'.outbox = net.outbox \/ (net.outbox # <<>> /\ net'.outbox = Tail(net.outbox))

LEMMA TakenQueues ==
  ASSUME Types, ClearParts, Taken
  PROVE  /\ (\A m : Queued(m)' => Queued(m)) /\ (\A f \in Futures : Covered(f)' => Covered(f))
         /\ Ordered(net.inbox)' /\ Ordered(net.outbox)'
         /\ \A g \in Names : Has(net.inbox, <<"task", g>>)' =>
                ~Has(net.outbox, <<"task", g>>)' /\ ~Has(net.outbox, <<"cancel", g>>)'
         /\ net.outbox # <<>> /\ net'.outbox = Tail(net.outbox) =>
                \A g \in Names : Head(net.outbox) = <<"task", g>> \/ Head(net.outbox) = <<"cancel", g>> =>
                    ~Queued(<<"task", g>>)'
  <1>0. net.outbox \in Seq(ClientMessages)
    BY DEF Types, NetTypes, NetType
  <1>1. /\ \A m : Has(net.inbox, m)' <=> Has(net.inbox, m)
        /\ \A f : Clears(net.inbox, f)' <=> Clears(net.inbox, f)
    BY DEF Taken, Has, Clears
  <1>2. /\ \A m : Has(net.outbox, m)' => Has(net.outbox, m)
        /\ \A f : Clears(net.outbox, f)' => Clears(net.outbox, f)
    <2>1. CASE net'.outbox = net.outbox
      BY <2>1 DEF Has, Clears
    <2>2. CASE net.outbox # <<>> /\ net'.outbox = Tail(net.outbox)
      BY <1>0, <2>2, TailHolds
    <2> QED
      BY <2>1, <2>2 DEF Taken
  <1>3. Ordered(net.inbox)' /\ Ordered(net.outbox)'
    <2>1. Ordered(net.inbox)'
      BY DEF ClearParts, InLine, Taken
    <2>2. CASE net'.outbox = net.outbox
      BY <2>1, <2>2 DEF ClearParts, InLine
    <2>3. CASE net.outbox # <<>> /\ net'.outbox = Tail(net.outbox)
      BY <1>0, <2>1, <2>3, OrderedTail DEF ClearParts, InLine
    <2> QED
      BY <2>2, <2>3 DEF Taken
  <1>4. ASSUME net.outbox # <<>>, net'.outbox = Tail(net.outbox), NEW g \in Names,
               Head(net.outbox) = <<"task", g>> \/ Head(net.outbox) = <<"cancel", g>>
        PROVE  ~Queued(<<"task", g>>)'
    <2>1. Has(net.outbox, <<"task", g>>) \/ Has(net.outbox, <<"cancel", g>>)
      BY <1>0, <1>4, TailHolds
    <2>2. ~Has(net.inbox, <<"task", g>>)
      BY <2>1 DEF ClearParts, InLine
    <2>3. ~Has(net.outbox, <<"task", g>>)'
      BY <1>0, <1>4, OrderedTail DEF ClearParts, InLine
    <2> QED
      BY <1>1, <2>2, <2>3 DEF Queued
  <1> QED
    BY <1>1, <1>2, <1>3, <1>4 DEF Queued, Covered, ClearParts, InLine

\* The scheduler answers for what it held, for what a cancel names, or for what it has
\* answered for before.
LEMMA AnswersClear ==
  ASSUME Types, ClearParts, fut' = fut, thread' = thread, jobs' = jobs, manager' = manager, Taken,
         NEW M \in SUBSET held.tasks, held'.tasks = held.tasks \ M,
         \A f \in Futures : Told(f)' => Told(f) \/ f \in M \/ (Queued(<<"cancel", f>>) /\ ~Out(f)')
  PROVE  ClearParts'
  <1>1. Steady
    BY DEF Steady, Identity
  <1>2. \A f \in Futures : Out(f)' => Out(f)
    BY TakenQueues DEF Out
  <1>3. \A f \in Futures : f \in held.tasks => ~Queued(<<"task", fut[f].group>>)'
    BY TakenQueues DEF ClearParts, Placed
  <1>4. \A f \in Futures : f \in M => Out(f) /\ ~Out(f)'
    BY <1>3 DEF Out
  <1>5. \A f \in Futures : Told(f)' => Told(f) \/ (~Out(f)' /\ (Out(f) \/ Queued(<<"cancel", f>>)))
    BY <1>4
  <1>6. Narrower
    BY <1>2, <1>3, <1>5, TakenQueues DEF Narrower
  <1> QED
    BY <1>1, <1>6, OthersClear

\* A new answer is about whom it names.
LEMMA AnswersTold ==
  ASSUME Types, NEW added \in Seq(Answers), net'.answers = net.answers \o added, agent'.settling = agent.settling
  PROVE  \A f \in Futures : Told(f)' => Told(f) \/ About(added, f) \/ f \in held'.stray
  <1>1. net.answers \in Seq(Answers)
    BY DEF Types, NetTypes, NetType
  <1>2. \A f \in Futures : About(net.answers, f)' <=> About(net.answers, f) \/ About(added, f)
    <2>1. \A f \in Futures : About(net.answers \o added, f) <=> About(net.answers, f) \/ About(added, f)
      BY <1>1, ConcatAbout
    <2> QED
      BY <2>1
  <1> QED
    BY <1>2 DEF Told

LEMMA AboutOnly ==
  ASSUME NEW S \in SUBSET Futures, NEW added, added \in Seq({"confirm"} \X S)
  PROVE  \A f : About(added, f) => f \in S
  <1>1. \A i \in DOMAIN added : added[i][2] \in S
    OBVIOUS
  <1> QED
    BY <1>1 DEF About

LEMMA AboutOne ==
  ASSUME NEW kind, NEW x
  PROVE  /\ \A f : About(<<<<kind, x>>>>, f) => f = x
         /\ \A f : ~About(<<>>, f)
  BY DEF About

LEMMA ReceivesClear ==
  ASSUME Types, ClearParts, SchedulerReceives
  PROVE  ClearParts'
  <1> DEFINE h == Head(net.outbox)
             what == h[2]
             mine == held.tasks \cap Members(what)
             Answer(added) == net' = [net EXCEPT !.outbox = Tail(@), !.answers = @ \o added]
  <1>1. /\ net \in NetType /\ net.outbox \in Seq(ClientMessages) /\ net.outbox # <<>> /\ h \in ClientMessages
        /\ held \in [tasks : SUBSET Futures, stray : SUBSET Futures]
    BY DEF Types, NetTypes, NetType, SchedulerReceives
  <1>2. fut' = fut /\ thread' = thread /\ jobs' = jobs /\ manager' = manager /\ agent' = agent
    BY DEF SchedulerReceives
  <1>3. ASSUME NEW added, Answer(added)
        PROVE  Taken /\ net'.outbox = Tail(net.outbox) /\ net'.answers = net.answers \o added
    BY <1>1, <1>3 DEF NetType, Taken
  <1>4. CASE h[1] = "task" /\ held' = [held EXCEPT !.tasks = @ \cup Members(what)] /\ Answer(<<>>)
    <2>1. PICK g \in Names : h = <<"task", g>>
      BY <1>1, <1>4 DEF ClientMessages
    <2>2. Taken /\ net'.outbox = Tail(net.outbox) /\ net'.answers = net.answers \o <<>>
      BY <1>3, <1>4
    <2>3. held'.tasks = held.tasks \cup Members(g) /\ held'.stray = held.stray
      BY <1>1, <1>4, <2>1
    <2>4. Queued(<<"task", g>>) /\ ~Queued(<<"task", g>>)'
      BY <1>1, <2>1, <2>2, TailHolds, TakenQueues DEF Queued
    <2>5. \A f \in Futures : Told(f)' => Told(f)
      <3> <<>> \in Seq(Answers)
        OBVIOUS
      <3> QED
        BY <1>2, <2>2, <2>3, AnswersTold, AboutOne DEF Told
    <2>6. \A f \in Futures : f \in Members(g) => fut[f].group = g
      BY DEF Members
    <2>7. \A f \in Futures : Out(f)' => Out(f)
      BY <1>2, <2>2, <2>3, <2>4, <2>6, TakenQueues DEF Out
    <2>8. \A f \in Futures : f \in held'.tasks => ~Queued(<<"task", fut[f].group>>)'
      BY <1>2, <2>2, <2>3, <2>4, <2>6, TakenQueues DEF ClearParts, Placed
    <2>9. Steady
      BY <1>2 DEF Steady, Identity
    <2>10. Narrower
      BY <1>2, <2>2, <2>5, <2>7, <2>8, TakenQueues DEF Narrower
    <2> QED
      BY <1>2, <2>9, <2>10, OthersClear
  <1>5. CASE h[1] = "cancel" /\ held' = [held EXCEPT !.tasks = @ \ mine] /\ Answer(Confirms(mine))
    <2>1. mine \in SUBSET held.tasks /\ mine \in SUBSET Futures
      BY <1>1
    <2> DEFINE added == Confirms(mine)
    <2>2. Taken /\ net'.answers = net.answers \o added
      BY <1>3, <1>5
    <2>3. held'.tasks = held.tasks \ mine /\ held'.stray = held.stray
      BY <1>1, <1>5
    <2>4. added \in Seq(Answers) /\ added \in Seq({"confirm"} \X mine)
      BY <2>1, ConfirmsType
    <2> HIDE DEF added, mine
    <2>5. \A f \in Futures : Told(f)' => Told(f) \/ f \in mine
      <3>1. \A f \in Futures : About(added, f) => f \in mine
        BY <2>1, <2>4, AboutOnly
      <3>2. \A f \in Futures : Told(f)' => Told(f) \/ About(added, f) \/ f \in held'.stray
        BY <1>2, <2>2, <2>4, AnswersTold
      <3> QED
        BY <2>3, <3>1, <3>2 DEF Told
    <2> QED
      BY <1>2, <2>1, <2>2, <2>3, <2>5, AnswersClear
  <1>6. CASE h[1] = "cancel" /\ mine = {} /\ held' = held /\ Answer(<<<<"confirm", what>>>>)
    <2>1. PICK g \in Names : h = <<"cancel", g>>
      BY <1>1, <1>6 DEF ClientMessages
    <2>2. Taken /\ net'.outbox = Tail(net.outbox) /\ net'.answers = net.answers \o <<<<"confirm", g>>>>
      <3>1. Taken /\ net'.outbox = Tail(net.outbox) /\ net'.answers = net.answers \o <<<<"confirm", what>>>>
        BY <1>3, <1>6
      <3>2. what = g
        BY <2>1
      <3> QED
        BY <3>1, <3>2
    <2>3. Queued(<<"cancel", g>>) /\ ~Queued(<<"task", g>>)'
      BY <1>1, <2>1, <2>2, TailHolds, TakenQueues DEF Queued
    <2>4. g \in Futures /\ fut[g].group = g
      BY <2>3 DEF ClearParts, InLine
    <2>5. g \notin held.tasks
      BY <1>6, <2>1, <2>4 DEF Members
    <2>6. ~Out(g)'
      BY <1>2, <1>6, <2>3, <2>4, <2>5 DEF Out
    <2>7. <<<<"confirm", g>>>> \in Seq(Answers)
      BY DEF Answers
    <2>8. \A f \in Futures : Told(f)' => Told(f) \/ f = g
      BY <1>2, <1>6, <2>2, <2>7, AnswersTold, AboutOne DEF Told
    <2>9. \A f \in Futures : Told(f)' => Told(f) \/ f \in {} \/ (Queued(<<"cancel", f>>) /\ ~Out(f)')
      BY <2>3, <2>6, <2>8
    <2>10. held'.tasks = held.tasks \ {} /\ {} \in SUBSET held.tasks
      BY <1>6
    <2> QED
      BY <1>2, <2>2, <2>9, <2>10, AnswersClear
  <1>7. CASE held' = held /\ \E added \in {<<>>, <<<<"shutdown", Main>>>>} : Answer(added)
    <2>1. PICK added \in {<<>>, <<<<"shutdown", Main>>>>} : Answer(added)
      BY <1>7
    <2>2. Taken /\ net'.answers = net.answers \o added
      BY <1>3, <2>1
    <2>3. added \in Seq(Answers)
      <3>1. <<>> \in Seq(Answers)
        OBVIOUS
      <3>2. <<<<"shutdown", Main>>>> \in Seq(Answers)
        BY DEF Answers
      <3> QED
        BY <2>1, <3>1, <3>2
    <2>4. \A f \in Futures : ~About(added, f)
      BY <2>1, AboutOne, NamesAssumption
    <2>5. \A f \in Futures : Told(f)' => Told(f) \/ f \in {} \/ (Queued(<<"cancel", f>>) /\ ~Out(f)')
      BY <1>2, <1>7, <2>2, <2>3, <2>4, AnswersTold DEF Told
    <2>6. held'.tasks = held.tasks \ {} /\ {} \in SUBSET held.tasks
      BY <1>7
    <2> QED
      BY <1>2, <2>2, <2>5, <2>6, AnswersClear
  <1> QED
    <2>1. h[1] \in {"task", "cancel", "shutdown"} \/ h[1] \notin {"task", "cancel", "shutdown"}
      OBVIOUS
    <2>2. CASE h[1] = "task"
      BY <1>4, <2>2 DEF SchedulerReceives
    <2>3. CASE h[1] = "cancel"
      BY <1>5, <1>6, <1>7, <2>3 DEF SchedulerReceives
    <2>4. CASE h[1] \notin {"task", "cancel"}
      BY <1>7, <2>4 DEF SchedulerReceives
    <2> QED
      BY <2>2, <2>3, <2>4

LEMMA SchedulerClear ==
  ASSUME Types, ClearParts, Scheduler
  PROVE  ClearParts'
  <1>1. net \in NetType /\ held \in [tasks : SUBSET Futures, stray : SUBSET Futures]
    BY DEF Types, NetTypes
  <1>2. CASE SchedulerReceives
    BY <1>2, ReceivesClear
  <1>3. ASSUME NEW added, Answered(added)
        PROVE  Taken /\ net'.answers = net.answers \o added
    BY <1>1, <1>3 DEF NetType, Taken, Answered
  <1>4. ASSUME NEW f \in Futures, NEW outcome \in {"value", "error", "died"}, SchedulerAnswers(f, outcome)
        PROVE  ClearParts'
    <2>1. /\ fut' = fut /\ thread' = thread /\ jobs' = jobs /\ manager' = manager /\ agent' = agent
          /\ Answered(<<<<outcome, f>>>>) /\ f \in held.tasks /\ held' = [held EXCEPT !.tasks = @ \ {f}]
      BY <1>4 DEF SchedulerAnswers
    <2>2. held'.tasks = held.tasks \ {f} /\ held'.stray = held.stray
      BY <1>1, <2>1
    <2>3. <<<<outcome, f>>>> \in Seq(Answers)
      BY DEF Answers, Names
    <2>4. Taken /\ net'.answers = net.answers \o <<<<outcome, f>>>>
      BY <1>3, <2>1
    <2>5. \A x \in Futures : Told(x)' => Told(x) \/ x \in {f}
      BY <2>1, <2>2, <2>3, <2>4, AnswersTold, AboutOne DEF Told
    <2>6. {f} \in SUBSET held.tasks
      BY <2>1
    <2> QED
      BY <2>1, <2>2, <2>4, <2>5, <2>6, AnswersClear
  <1>5. ASSUME NEW u \in Futures, NEW outcome \in {"error", "died"}, NEW running \in SUBSET Futures, SchedulerAborts(u, outcome, running)
        PROVE  ClearParts'
    <2> DEFINE mine == held.tasks \cap Members(u)
               failed == [i \in DOMAIN Confirms(mine) |-> <<outcome, Confirms(mine)[i][2]>>]
    <2>1. /\ fut' = fut /\ thread' = thread /\ jobs' = jobs /\ manager' = manager /\ agent' = agent
          /\ Answered(failed) /\ held' = [tasks |-> held.tasks \ mine, stray |-> held.stray \cup running] /\ running \subseteq mine \ {u}
      BY <1>5 DEF SchedulerAborts
    <2>2. mine \in SUBSET held.tasks /\ mine \in SUBSET Futures
      BY <1>1
    <2>3. Confirms(mine) \in Seq({"confirm"} \X mine)
      BY <2>2, ConfirmsType
    <2> DEFINE confirms == Confirms(mine)
    <2>4. confirms \in Seq({"confirm"} \X mine)
      BY <2>3
    <2>5. failed = [i \in DOMAIN confirms |-> <<outcome, confirms[i][2]>>]
      OBVIOUS
    <2> HIDE DEF confirms, failed
    <2>6. failed \in Seq(Answers)
      <3>1. \A i \in DOMAIN confirms : confirms[i][2] \in Futures
        BY <2>2, <2>4
      <3>2. \A i \in DOMAIN confirms : <<outcome, confirms[i][2]>> \in Answers
        BY <3>1 DEF Answers, Names
      <3>3. Len(confirms) \in Nat /\ DOMAIN confirms = 1..Len(confirms)
        BY <2>4
      <3> QED
        BY <2>5, <3>2, <3>3
    <2>7. \A x \in Futures : About(failed, x) => x \in mine
      <3>1. \A x \in Futures : About(failed, x) => About(confirms, x)
        BY <2>5 DEF About
      <3> QED
        BY <2>2, <2>4, <3>1, AboutOnly
    <2>8. held'.tasks = held.tasks \ mine /\ held'.stray = held.stray \cup running /\ running \subseteq mine
      BY <2>1
    <2>9. Taken /\ net'.answers = net.answers \o failed
      BY <1>3, <2>1
    <2>10. agent'.settling = agent.settling
      BY <2>1
    <2> HIDE DEF mine
    <2>11. \A x \in Futures : Told(x)' => Told(x) \/ x \in mine
      <3>1. \A x \in Futures : Told(x)' => Told(x) \/ About(failed, x) \/ x \in held'.stray
        BY <2>6, <2>9, <2>10, AnswersTold
      <3> QED
        BY <2>7, <2>8, <3>1 DEF Told
    <2> QED
      BY <2>1, <2>2, <2>8, <2>9, <2>11, AnswersClear
  <1>6. ASSUME NEW f \in Futures, StrayEnds(f)
        PROVE  ClearParts'
    <2>1. /\ fut' = fut /\ thread' = thread /\ jobs' = jobs /\ manager' = manager /\ agent' = agent
          /\ Answered(<<<<"value", f>>>>) /\ f \in held.stray /\ held' = [held EXCEPT !.stray = @ \ {f}]
      BY <1>6 DEF StrayEnds
    <2>2. held'.tasks = held.tasks \ {} /\ held'.stray = held.stray \ {f} /\ {} \in SUBSET held.tasks
      BY <1>1, <2>1
    <2>3. <<<<"value", f>>>> \in Seq(Answers)
      BY DEF Answers, Names
    <2>4. Taken /\ net'.answers = net.answers \o <<<<"value", f>>>>
      BY <1>3, <2>1
    <2>5. \A x \in Futures : Told(x)' => Told(x)
      BY <2>1, <2>2, <2>3, <2>4, AnswersTold, AboutOne DEF Told
    <2> QED
      BY <2>1, <2>2, <2>4, <2>5, AnswersClear
  <1> QED
    BY <1>2, <1>4, <1>5, <1>6 DEF Scheduler

\* A call begins: the futures it makes have been named by nobody.
LEMMA SubmitClear ==
  ASSUME Types, SettleInv, ClearParts, NEW c \in Calls, Submit(c)
  PROVE  ClearParts'
  <1>0. /\ FutTypes /\ c.futures \subseteq Futures /\ c.futures # {} /\ (c.kind = "get" => c.umbrella \in c.futures)
        /\ thread[Main].op = "idle" /\ \A f \in c.futures : fut[f].state = "pending"
    BY CallsAssumption DEF Types, Submit, At
  <1>1. \A f \in Futures : fut[f] \in FutureType
    BY <1>0 DEF FutTypes
  <1>2. /\ manager' = manager /\ agent' = agent /\ jobs' = jobs /\ net' = net /\ held' = held
        /\ thread'[Main] = [Idle EXCEPT !.op = "add", !.todo = c.futures]
    BY MainGoes DEF Submit
  <1>3. thread'[Main].op = "add" /\ thread'[Main].todo = c.futures /\ thread'[Main].sent = {}
    BY <1>2 DEF Idle
  <1> DEFINE group(f) == IF c.kind = "get" THEN c.umbrella ELSE f
  <1>4. \A f \in Futures : f \in c.futures =>
             /\ fut'[f].call = c.kind /\ fut'[f].group = group(f)
             /\ fut'[f].state = fut[f].state /\ fut'[f].given = fut[f].given
    BY <1>1 DEF Submit, FutureType
  <1>5. \A f \in Futures : f \notin c.futures => fut'[f] = fut[f]
    BY DEF Submit
  <1>6. \A f \in c.futures : group(f) \in c.futures
    BY <1>0
  <1>7. \A f \in Futures : fut'[f].state = fut[f].state /\ fut'[f].given = fut[f].given
    BY <1>4, <1>5
  <1>8. c.kind # "get" => \A f \in c.futures : group(f) = f
    OBVIOUS
  <1>9. \A f \in c.futures : group(group(f)) = group(f)
    BY <1>0
  <1> HIDE DEF group
  <1>10. Making' /\ ~Making /\ ~Clearing'
    BY <1>0, <1>3 DEF Making, Clearing
  <1>11. CallGroups'
    <2> SUFFICES ASSUME NEW f \in c.futures
                 PROVE  /\ fut'[f].group \in c.futures /\ fut'[fut'[f].group].call = fut'[f].call
                        /\ fut'[fut'[f].group].group = fut'[f].group
                        /\ fut'[f].call # "get" => fut'[f].group = f
      BY <1>3 DEF CallGroups
    <2>1. f \in Futures /\ group(f) \in Futures /\ group(f) \in c.futures
      BY <1>0, <1>6
    <2> QED
      BY <1>4, <1>8, <1>9, <2>1
  <1>12. Groups'
    <2> SUFFICES ASSUME NEW f \in Futures
                 PROVE  /\ fut'[f].state # "pending" =>
                              fut'[f].group \in Futures /\ fut'[fut'[f].group].state # "pending"
                              /\ fut'[fut'[f].group].group = fut'[f].group
                        /\ fut'[f].group \in c.futures => f \in c.futures
                        /\ fut'[f].group \in Futures /\ fut'[fut'[f].group].state = "pending" =>
                              fut'[f].group = f \/ f \in c.futures
      BY <1>3 DEF Groups
    <2>1. CASE f \in c.futures
      BY <1>0, <1>4, <2>1
    <2>2. CASE f \notin c.futures
      BY <1>0, <1>5, <1>7, <2>2 DEF ClearParts, Groups
    <2> QED
      BY <2>1, <2>2
  <1>13. Registered'
    <2>1. <<"upload", Main>> \notin jobs
      BY <1>0 DEF ClearParts, Registered
    <2>2. Unregistered' # {}
      BY <1>0, <1>3, <1>7 DEF Unregistered
    <2> QED
      BY <1>2, <1>3, <2>1, <2>2 DEF Registered
  <1>14. /\ \A m : Queued(m)' = Queued(m)
         /\ \A f \in Futures : Covered(f)' = Covered(f) /\ Told(f)' = Told(f)
    BY <1>2 DEF Queued, Covered, Told
  <1>15. \A f \in Futures : fut[f].state = "pending" => Untouched(f)
    BY DEF ClearParts, NotYet
  <1>16. \A f \in Futures : f \in c.futures => ~Out(f)'
    <2> SUFFICES ASSUME NEW f \in Futures, f \in c.futures
                 PROVE  ~Out(f)'
      OBVIOUS
    <2>1. f \notin held.tasks
      BY <1>0, <1>15 DEF Untouched, Out
    <2>2. ~Queued(<<"task", group(f)>>)
      BY <1>0, <1>6, <1>15 DEF Untouched
    <2> QED
      BY <1>2, <1>4, <1>14, <2>1, <2>2 DEF Out
  <1>17. \A f \in Futures : f \notin c.futures => Out(f)' = Out(f)
    BY <1>2, <1>5, <1>14 DEF Out
  <1>18. NotYet'
    <2> SUFFICES ASSUME NEW f \in Futures
                 PROVE  /\ fut'[f].state = "pending" \/ Coming(f)' => Untouched(f)'
                        /\ Coming(f)' => fut'[f].state = "pending"
      BY DEF NotYet
    <2>1. Coming(f)' => fut'[f].state = "pending"
      BY <1>0, <1>3, <1>7 DEF Coming
    <2>2. fut[f].state = "pending" => Untouched(f)'
      BY <1>7, <1>14, <1>15, <1>16, <1>17 DEF Untouched
    <2> QED
      BY <1>7, <2>1, <2>2
  <1>19. Placed'
    <2> SUFFICES ASSUME NEW f \in Futures
                 PROVE  /\ Out(f)' => f \in manager' /\ ~Told(f)'
                        /\ f \in held'.tasks => ~Queued(<<"task", fut[f].group>>)'
      BY DEF Placed
    <2>1. CASE f \in c.futures
      BY <1>2, <1>16, <2>1 DEF Out
    <2>2. CASE f \notin c.futures
      BY <1>2, <1>5, <1>14, <1>17, <2>2 DEF ClearParts, Placed
    <2> QED
      BY <2>1, <2>2
  <1>20. InLine'
    <2>1. \A g \in Names : Queued(<<"cancel", g>>)' => g \in Futures /\ fut'[g].group = g
      <3> SUFFICES ASSUME NEW g \in Names, Queued(<<"cancel", g>>)
                   PROVE  g \in Futures /\ fut'[g].group = g
        BY <1>14
      <3>1. g \in Futures /\ fut[g].group = g
        BY DEF ClearParts, InLine
      <3>2. g \notin c.futures
        BY <1>0, <1>15, <3>1 DEF Untouched
      <3> QED
        BY <1>5, <3>1, <3>2
    <2> QED
      BY <1>2, <2>1 DEF ClearParts, InLine
  <1>21. ClearWaits'
    BY <1>10, <1>14, <1>16, <1>17 DEF ClearParts, ClearWaits
  <1> QED
    BY <1>11, <1>12, <1>13, <1>18, <1>19, <1>20, <1>21 DEF ClearParts

\* A future is registered before its task is sent.
LEMMA AddFutureClear ==
  ASSUME Types, ClearParts, NEW f \in Futures, AddFuture(f)
  PROVE  ClearParts'
  <1>0. FutTypes /\ thread[Main] \in ThreadType /\ thread[Main].todo \in SUBSET Futures
    BY MainType DEF Types, ThreadType, ThreadRecord
  <1>1. /\ thread[Main].op = "add" /\ f \in Unregistered /\ (fut[f].group \in Unregistered => f = fut[f].group)
        /\ fut' = [fut EXCEPT ![f].state = "running"] /\ manager' = manager \cup {f}
        /\ agent' = agent /\ jobs' = jobs /\ net' = net /\ held' = held
    BY DEF AddFuture, At
  <1>2. thread'[Main] = [thread[Main] EXCEPT !.op = IF Unregistered = {f} THEN "commit" ELSE "add"]
    BY MainGoes DEF AddFuture
  <1>3. /\ thread'[Main].op = IF Unregistered = {f} THEN "commit" ELSE "add"
        /\ thread'[Main].todo = thread[Main].todo /\ thread'[Main].sent = thread[Main].sent
    BY <1>0, <1>2 DEF ThreadType, ThreadRecord
  <1>4. \A x \in Futures : Identity(x) /\ fut'[x].state = IF x = f THEN "running" ELSE fut[x].state
    <2>1. fut[f] \in FutureType
      BY <1>0 DEF FutTypes
    <2> QED
      BY <1>0, <1>1, <2>1 DEF FutTypes, Identity, FutureType
  <1>5. \A x \in Futures : fut'[x].group = fut[x].group /\ fut'[x].call = fut[x].call
    BY <1>4 DEF Identity
  <1>6. Making' /\ Making /\ ~Clearing'
    BY <1>1, <1>3 DEF Making, Clearing
  <1>7. Unregistered' = Unregistered \ {f}
    BY <1>0, <1>3, <1>4 DEF Unregistered
  <1>8. CallGroups'
    <2> SUFFICES ASSUME NEW x \in thread[Main].todo
                 PROVE  /\ fut'[x].group \in thread[Main].todo /\ fut'[fut'[x].group].call = fut'[x].call
                        /\ fut'[fut'[x].group].group = fut'[x].group
                        /\ fut'[x].call # "get" => fut'[x].group = x
      BY <1>3 DEF CallGroups
    <2>1. x \in Futures /\ fut[x].group \in Futures
      BY <1>0, <1>6 DEF ClearParts, CallGroups
    <2> QED
      BY <1>5, <1>6, <2>1 DEF ClearParts, CallGroups
  <1>9. Groups'
    <2> SUFFICES ASSUME NEW x \in Futures
                 PROVE  /\ fut'[x].state # "pending" =>
                              fut'[x].group \in Futures /\ fut'[fut'[x].group].state # "pending"
                              /\ fut'[fut'[x].group].group = fut'[x].group
                        /\ fut'[x].group \in thread[Main].todo => x \in thread[Main].todo
                        /\ fut'[x].group \in Futures /\ fut'[fut'[x].group].state = "pending" =>
                              fut'[x].group = x \/ (thread'[Main].op = "add" /\ x \in thread[Main].todo)
      BY <1>3 DEF Groups
    <2>1. fut'[x].state # "pending" =>
              fut'[x].group \in Futures /\ fut'[fut'[x].group].state # "pending" /\ fut'[fut'[x].group].group = fut'[x].group
      <3>1. CASE x = f
        <4>1. /\ fut[f].group \in thread[Main].todo /\ fut[fut[f].group].group = fut[f].group
              /\ fut[f].group \in Futures
          BY <1>0, <1>1, <1>6 DEF ClearParts, CallGroups, Unregistered
        <4>2. fut[f].group = f \/ fut[fut[f].group].state # "pending"
          BY <1>1, <4>1 DEF Unregistered
        <4> QED
          BY <1>4, <1>5, <3>1, <4>1, <4>2
      <3>2. CASE x # f
        BY <1>4, <1>5, <3>2 DEF ClearParts, Groups
      <3> QED
        BY <3>1, <3>2
    <2>2. fut'[x].group \in thread[Main].todo => x \in thread[Main].todo
      BY <1>5, <1>6 DEF ClearParts, Groups
    <2>3. ASSUME fut'[x].group \in Futures, fut'[fut'[x].group].state = "pending"
          PROVE  fut'[x].group = x \/ (thread'[Main].op = "add" /\ x \in thread[Main].todo)
      <3>1. fut[x].group \in Futures /\ fut[x].group # f /\ fut[fut[x].group].state = "pending"
        BY <1>4, <1>5, <2>3
      <3>2. fut[x].group = x \/ x \in thread[Main].todo
        BY <3>1 DEF ClearParts, Groups
      <3>3. x \in thread[Main].todo => fut[x].group \in Unregistered
        BY <1>6, <3>1 DEF ClearParts, CallGroups, Unregistered
      <3>4. x \in thread[Main].todo => thread'[Main].op = "add"
        BY <1>3, <3>1, <3>3
      <3> QED
        BY <1>5, <3>2, <3>4
    <2> QED
      BY <2>1, <2>2, <2>3
  <1>10. Registered'
    BY <1>1, <1>3, <1>7 DEF ClearParts, Registered
  <1>11. \A x \in Futures : Coming(x)' = Coming(x)
    BY <1>3, <1>5, <1>6 DEF Coming
  <1>12. NotYet' /\ Placed' /\ InLine' /\ ClearWaits'
    <2>1. agent'.settling = agent.settling /\ manager \subseteq manager'
      BY <1>1
    <2>2. \A x \in Futures : fut'[x].state = "pending" \/ Coming(x)' => fut[x].state = "pending" \/ Coming(x)
      BY <1>4, <1>11
    <2>3. \A x \in Futures : Coming(x)' /\ fut'[x].state # "pending" => x \in manager'
      BY <1>1, <1>4, <1>11 DEF ClearParts, NotYet
    <2> QED
      BY <1>1, <1>4, <1>6, <2>1, <2>2, <2>3, MainMessages
  <1> QED
    BY <1>8, <1>9, <1>10, <1>12 DEF ClearParts

\* A call goes on from its commit to its sending.
LEMMA MakingGoesOn ==
  ASSUME Types, ClearParts, thread[Main].op \in {"commit", "upload"}, thread'[Main].op \in {"upload", "send"},
         thread'[Main].todo = thread[Main].todo, thread'[Main].sent = thread[Main].sent,
         <<"upload", Main>> \in jobs' => thread'[Main].op = "upload",
         fut' = fut, manager' = manager, agent' = agent, net' = net, held' = held
  PROVE  ClearParts'
  <1>1. Making /\ Making' /\ ~Clearing' /\ Unregistered' = Unregistered
    BY DEF Making, Clearing, Unregistered
  <1>2. CallGroups' /\ Groups' /\ Registered'
    BY <1>1 DEF ClearParts, CallGroups, Groups, Registered
  <1>3. (\A f \in Futures : Identity(f) /\ Coming(f)' = Coming(f)) /\ agent'.settling = agent.settling
    BY <1>1 DEF Identity, Coming
  <1>4. \A x \in Futures : Coming(x)' /\ fut'[x].state # "pending" => x \in manager'
    BY <1>3 DEF ClearParts, NotYet
  <1>5. NotYet' /\ Placed' /\ InLine' /\ ClearWaits'
    BY <1>1, <1>3, <1>4, MainMessages
  <1> QED
    BY <1>2, <1>5 DEF ClearParts

\* A step of Main outside a call that sends nothing.
LEMMA OutsideClear ==
  ASSUME Types, ClearParts, Steady, ~Making', thread[Main].op # "upload", jobs' = jobs,
         \A f \in Futures : thread[Main].op = "add" /\ f \in thread[Main].todo /\ fut[fut[f].group].state = "pending" =>
             fut[f].group = f,
         thread'[Main].op \in {"cancelall", "forcing", "forced"} =>
             \A f \in thread'[Main].todo : f \in Futures /\ fut[f].state # "pending",
         Clearing' => \A f \in Futures : Out(f) => f \in thread'[Main].todo,
         manager' = manager, agent' = agent, net' = net, held' = held
  PROVE  ClearParts'
  <1>1. <<"upload", Main>> \notin jobs'
    BY DEF ClearParts, Registered
  <1>2. CallGroups' /\ Groups' /\ Registered' /\ \A f \in Futures : ~Coming(f)'
    BY <1>1, ShapeOutside
  <1>3. NotYet' /\ Placed' /\ InLine' /\ ClearWaits'
    BY <1>2, MainMessages DEF Steady
  <1> QED
    BY <1>2, <1>3 DEF ClearParts

\* A task is sent: its futures are registered and nothing named them before.
LEMMA SendTaskClear ==
  ASSUME Types, ClearParts, net.pipe = "open", NEW g \in Futures, SendTask(g)
  PROVE  ClearParts'
  <1> DEFINE todo == thread[Main].todo
             sent == thread[Main].sent \cup {g}
             last == sent = {fut[f].group : f \in todo}
  <1>0. FutTypes /\ thread[Main] \in ThreadType /\ todo \in SUBSET Futures /\ ~Raises
    BY MainType DEF Types, ThreadType, ThreadRecord, Raises
  <1>1. /\ thread[Main].op = "send" /\ g \in {fut[f].group : f \in todo} \ thread[Main].sent
        /\ net' = Sent(<<"task", g>>) /\ fut' = IF last THEN Returned ELSE fut
        /\ manager' = manager /\ agent' = agent /\ jobs' = jobs /\ held' = held
    BY <1>0 DEF SendTask, At
  <1>2. thread'[Main] = IF ~last THEN [thread[Main] EXCEPT !.sent = sent]
                        ELSE IF \A f \in todo : Delayed(f) THEN Idle
                        ELSE [Idle EXCEPT !.op = "collect", !.todo = todo]
    BY <1>0, MainGoes DEF SendTask
  <1>3. /\ net'.inbox = Append(net.inbox, <<"task", g>>) /\ net'.outbox = net.outbox /\ net'.answers = net.answers
    BY <1>1, SentPipe
  <1>4. \A f \in Futures : /\ fut'[f].call = fut[f].call /\ fut'[f].group = fut[f].group /\ fut'[f].state = fut[f].state
                           /\ ~last \/ f \notin todo => (fut'[f].given <=> fut[f].given)
    <2> SUFFICES ASSUME NEW f \in Futures
                 PROVE  /\ fut'[f].call = fut[f].call /\ fut'[f].group = fut[f].group /\ fut'[f].state = fut[f].state
                        /\ ~last \/ f \notin todo => (fut'[f].given <=> fut[f].given)
      OBVIOUS
    <2>1. fut[f] \in FutureType
      BY <1>0 DEF FutTypes
    <2>2. CASE ~last
      BY <1>1, <2>2
    <2>3. CASE last
      <3>1. fut'[f] = [fut[f] EXCEPT !.given = @ \/ (f \in todo \ Umbrellas /\ Delayed(f))]
        BY <1>1, <2>3 DEF Returned
      <3> HIDE DEF last
      <3> QED
        BY <2>1, <2>3, <3>1 DEF FutureType
    <2> QED
      BY <2>2, <2>3
  <1>5. /\ ~last => thread'[Main].op = "send" /\ thread'[Main].todo = todo /\ thread'[Main].sent = sent
        /\ last => thread'[Main].op \in {"idle", "collect"}
    BY <1>0, <1>1, <1>2 DEF ThreadType, ThreadRecord, Idle
  <1>6. Making /\ (Making' <=> ~last) /\ ~Clearing'
    BY <1>1, <1>5 DEF Making, Clearing
  <1> HIDE DEF last
  <1>7. \A f \in todo : fut[f].state # "pending"
    BY <1>1 DEF ClearParts, Registered, Unregistered
  <1>8. g \in todo /\ fut[g].group = g /\ Coming(g) /\ Untouched(g)
    <2>1. g \in todo /\ fut[g].group = g
      BY <1>1, <1>6 DEF ClearParts, CallGroups
    <2>2. Coming(g)
      BY <1>1, <1>6, <2>1 DEF Coming
    <2> QED
      BY <2>1, <2>2 DEF ClearParts, NotYet
  <1>9. \A f \in Futures : fut[f].group = g => f \in todo /\ Untouched(f) /\ f \in manager
    <2> SUFFICES ASSUME NEW f \in Futures, fut[f].group = g
                 PROVE  f \in todo /\ Untouched(f) /\ f \in manager
      OBVIOUS
    <2>1. f \in todo
      BY <1>6, <1>8 DEF ClearParts, Groups
    <2>2. Coming(f)
      BY <1>1, <1>6, <2>1 DEF Coming
    <2> QED
      BY <1>7, <2>1, <2>2 DEF ClearParts, NotYet
  <1>10. CallGroups' /\ Groups'
    <2>1. CallGroups'
      <3> SUFFICES ASSUME ~last, NEW f \in todo
                   PROVE  /\ fut'[f].group \in todo /\ fut'[fut'[f].group].call = fut'[f].call
                          /\ fut'[fut'[f].group].group = fut'[f].group
                          /\ fut'[f].call # "get" => fut'[f].group = f
        BY <1>5, <1>6 DEF CallGroups
      <3>1. f \in Futures /\ fut[f].group \in Futures
        BY <1>0, <1>6 DEF ClearParts, CallGroups
      <3> QED
        BY <1>4, <1>6, <3>1 DEF ClearParts, CallGroups
    <2>2. Groups'
      <3> SUFFICES ASSUME NEW f \in Futures
                   PROVE  /\ fut'[f].state # "pending" =>
                                fut'[f].group \in Futures /\ fut'[fut'[f].group].state # "pending"
                                /\ fut'[fut'[f].group].group = fut'[f].group
                          /\ ~last /\ fut'[f].group \in todo => f \in todo
                          /\ fut'[f].group \in Futures /\ fut'[fut'[f].group].state = "pending" => fut'[f].group = f
        BY <1>5, <1>6 DEF Groups
      <3> QED
        BY <1>1, <1>4, <1>6 DEF ClearParts, Groups
    <2> QED
      BY <2>1, <2>2
  <1>11. Registered'
    <2>1. ~last => Unregistered' = {}
      BY <1>0, <1>4, <1>5, <1>7 DEF Unregistered
    <2> QED
      BY <1>1, <1>5, <2>1 DEF ClearParts, Registered
  <1>12. net.inbox \in Seq(ClientMessages) /\ <<"task", g>> \in ClientMessages
    BY DEF Types, NetTypes, NetType, ClientMessages, Names
  <1>13. /\ \A m : Has(net.inbox, m)' <=> Has(net.inbox, m) \/ <<"task", g>> = m
         /\ \A f : Clears(net.inbox, f)' <=> Clears(net.inbox, f)
    BY <1>3, <1>12, AppendHolds
  <1>14. /\ \A m : Has(net.outbox, m)' <=> Has(net.outbox, m)
         /\ \A f : Clears(net.outbox, f)' <=> Clears(net.outbox, f)
    BY <1>3 DEF Has, Clears
  <1>15. \A x : /\ Queued(<<"task", x>>)' <=> Queued(<<"task", x>>) \/ x = g
                /\ Queued(<<"cancel", x>>)' <=> Queued(<<"cancel", x>>)
    BY <1>13, <1>14 DEF Queued
  <1>16. \A f \in Futures : (Covered(f)' <=> Covered(f)) /\ (Told(f)' <=> Told(f))
    BY <1>1, <1>3, <1>13, <1>14 DEF Covered, Told
  <1>17. \A f \in Futures : Out(f)' <=> Out(f) \/ fut[f].group = g
    BY <1>1, <1>4, <1>15 DEF Out
  <1>18. NotYet'
    <2> SUFFICES ASSUME NEW f \in Futures, fut'[f].state = "pending" \/ Coming(f)'
                 PROVE  Untouched(f)' /\ (fut'[f].state # "pending" => f \in manager')
      BY DEF NotYet
    <2>1. Coming(f)' => Coming(f) /\ ~last /\ fut[f].group # g
      BY <1>4, <1>5, <1>6 DEF Coming
    <2>2. Untouched(f) /\ (fut[f].state # "pending" => f \in manager)
      BY <1>4, <2>1 DEF ClearParts, NotYet
    <2>3. fut[f].group # g /\ f # g /\ (~last \/ f \notin todo)
      BY <1>4, <1>7, <1>8, <1>9, <2>1
    <2>4. Untouched(f)'
      BY <1>4, <1>15, <1>16, <1>17, <2>2, <2>3 DEF Untouched
    <2> QED
      BY <1>1, <1>4, <2>2, <2>4
  <1>19. Placed'
    <2> SUFFICES ASSUME NEW f \in Futures
                 PROVE  /\ Out(f)' => f \in manager' /\ ~Told(f)'
                        /\ f \in held'.tasks => ~Queued(<<"task", fut[f].group>>)'
      BY DEF Placed
    <2>1. Out(f)' => f \in manager' /\ ~Told(f)'
      BY <1>1, <1>9, <1>16, <1>17 DEF ClearParts, Placed, Untouched
    <2>2. f \in held.tasks => fut[f].group # g
      BY <1>9 DEF Untouched, Out
    <2> QED
      BY <1>1, <1>4, <1>15, <2>1, <2>2 DEF ClearParts, Placed
  <1>20. InLine'
    <2>1. ~Has(net.inbox, <<"task", g>>) /\ ~Has(net.inbox, <<"cancel", g>>)
          /\ ~Has(net.outbox, <<"task", g>>) /\ ~Has(net.outbox, <<"cancel", g>>)
      BY <1>8 DEF Untouched, Queued
    <2>2. Ordered(Append(net.inbox, <<"task", g>>))
      BY <1>12, <2>1, OrderedAppend DEF ClearParts, InLine
    <2>3. Ordered(net.inbox)' /\ Ordered(net.outbox)'
      BY <1>3, <2>2 DEF ClearParts, InLine
    <2>4. \A x \in Names : Has(net.inbox, <<"task", x>>)' =>
              ~Has(net.outbox, <<"task", x>>)' /\ ~Has(net.outbox, <<"cancel", x>>)'
      <3>1. \A x \in Names : Has(net.inbox, <<"task", x>>)' => Has(net.inbox, <<"task", x>>) \/ x = g
        BY <1>13
      <3> QED
        BY <1>14, <2>1, <3>1 DEF ClearParts, InLine
    <2>5. \A x \in Names : Queued(<<"cancel", x>>)' => x \in Futures /\ fut'[x].group = x
      BY <1>4, <1>15 DEF ClearParts, InLine
    <2> QED
      BY <2>3, <2>4, <2>5 DEF InLine
  <1>21. ClearWaits'
    BY <1>6, <1>9, <1>16, <1>17 DEF ClearParts, ClearWaits, Untouched
  <1> QED
    BY <1>10, <1>11, <1>18, <1>19, <1>20, <1>21 DEF ClearParts

\* A clear is sent when nothing is out; the requests to quit name no task.
LEMMA PlainSent ==
  ASSUME Types, ClearParts, NEW message \in ClientMessages, message[1] \notin {"task", "cancel"},
         message[1] = "clear" => \A f \in Futures : ~Out(f) /\ (f \in message[2] => fut[f].state # "pending"),
         net'.inbox = Append(net.inbox, message), net'.outbox = net.outbox, net'.answers = net.answers,
         fut' = fut, manager' = manager, agent' = agent, jobs' = jobs, held' = held,
         thread[Main].op = "cancelall", thread'[Main].op \in {"idle", "join"}
  PROVE  ClearParts'
  <1>1. Steady /\ ~Making' /\ ~Clearing' /\ <<"upload", Main>> \notin jobs'
    BY DEF Steady, Identity, Making, Clearing, ClearParts, Registered
  <1>2. CallGroups' /\ Groups' /\ Registered' /\ \A f \in Futures : ~Coming(f)'
    BY <1>1, ShapeOutside
  <1>3. net.inbox \in Seq(ClientMessages)
    BY DEF Types, NetTypes, NetType
  <1>4. /\ \A m : Has(net.inbox, m)' <=> Has(net.inbox, m) \/ message = m
        /\ \A f : Clears(net.inbox, f)' <=> Clears(net.inbox, f) \/ (message[1] = "clear" /\ f \in message[2])
    BY <1>3, AppendHolds
  <1>5. /\ \A m : Has(net.outbox, m)' <=> Has(net.outbox, m)
        /\ \A f : Clears(net.outbox, f)' <=> Clears(net.outbox, f)
    BY DEF Has, Clears
  <1>6. \A x : message # <<"task", x>> /\ message # <<"cancel", x>>
    OBVIOUS
  <1>7. \A x : /\ Has(net.inbox, <<"task", x>>)' <=> Has(net.inbox, <<"task", x>>)
               /\ Queued(<<"task", x>>)' <=> Queued(<<"task", x>>)
               /\ Queued(<<"cancel", x>>)' <=> Queued(<<"cancel", x>>)
    BY <1>4, <1>5, <1>6 DEF Queued
  <1>8. \A f \in Futures : /\ Out(f)' <=> Out(f)
                           /\ Told(f)' <=> Told(f)
                           /\ Covered(f)' <=> Covered(f) \/ (message[1] = "clear" /\ f \in message[2])
    BY <1>4, <1>5, <1>7 DEF Out, Told, Covered
  <1>9. NotYet'
    <2> SUFFICES ASSUME NEW f \in Futures, fut[f].state = "pending"
                 PROVE  Untouched(f)'
      BY <1>2 DEF NotYet
    <2>1. Untouched(f)
      BY DEF ClearParts, NotYet
    <2> QED
      BY <1>7, <1>8, <2>1 DEF Untouched
  <1>10. Placed'
    BY <1>7, <1>8 DEF ClearParts, Placed
  <1>11. InLine'
    <2>1. Ordered(Append(net.inbox, message))
      BY <1>3, <1>6, OrderedAppend DEF ClearParts, InLine
    <2>2. Ordered(net.inbox)' /\ Ordered(net.outbox)'
      BY <2>1 DEF ClearParts, InLine
    <2>3. \A x \in Names : Has(net.inbox, <<"task", x>>)' =>
              ~Has(net.outbox, <<"task", x>>)' /\ ~Has(net.outbox, <<"cancel", x>>)'
      BY <1>5, <1>7 DEF ClearParts, InLine
    <2>4. \A x \in Names : Queued(<<"cancel", x>>)' => x \in Futures /\ fut'[x].group = x
      BY <1>7 DEF ClearParts, InLine
    <2> QED
      BY <2>2, <2>3, <2>4 DEF InLine
  <1>12. ClearWaits'
    BY <1>1, <1>8 DEF ClearParts, ClearWaits
  <1> QED
    BY <1>2, <1>9, <1>10, <1>11, <1>12 DEF ClearParts

LEMMA ApiClear ==
  ASSUME Types, SettleInv, agent.phase = "running", ClearParts, Api
  PROVE  ClearParts'
  <1>0. /\ FutTypes /\ thread[Main] \in ThreadType /\ thread[Main].todo \in SUBSET Futures /\ manager \in SUBSET Futures
        /\ net.pipe = "open" /\ ~Raises
    BY MainType DEF Types, ThreadType, ThreadRecord, AgentTypes, SettleInv, Alive, Raises
  <1>a. \A f \in manager : fut[f].state # "pending"
    BY <1>0 DEF SettleInv, Fresh
  <1>1. ASSUME NEW c \in Calls, Submit(c) PROVE ClearParts'
    BY <1>1, SubmitClear
  <1>2. ASSUME NEW f \in Futures, AddFuture(f) PROVE ClearParts'
    BY <1>2, AddFutureClear
  <1>3. ASSUME NEW f \in Futures, CancelNext(f) PROVE ClearParts'
    <2> DEFINE waiting == [thread[Main] EXCEPT !.op = "forcing", !.next = <<f, thread[Main].next>>]
               raised == [waiting EXCEPT !.op = "forced"]
    <2>1. /\ Cancel(Main, f, waiting, raised) /\ thread[Main].op = "cancelall" /\ f \in thread[Main].todo
          /\ log' = log /\ manager' = manager /\ agent' = agent /\ jobs' = jobs /\ held' = held
      BY <1>3 DEF CancelNext, At
    <2>2. thread'[Main] = waiting
      BY <1>0, <2>1, MainGoes DEF Cancel
    <2>3. /\ thread'[Main].op = "forcing" /\ thread'[Main].todo = thread[Main].todo
          /\ thread'[Main].next = <<f, thread[Main].next>>
      BY <1>0, <2>2 DEF ThreadType, ThreadRecord
    <2> HIDE DEF waiting, raised
    <2>4. Steady
      <3>1. \A g \in Futures : Identity(g) /\ Unmoved(g)
        BY <2>1, CancelMoves
      <3> QED
        BY <2>1, <3>1 DEF Steady, Unmoved
    <2>5. \A x \in thread[Main].todo : x \in Futures /\ fut[x].state # "pending"
      BY <1>0, <2>1 DEF ClearParts, Registered
    <2>6. Clearing' => Clearing
      BY <2>1, <2>3 DEF Clearing
    <2>7. ~Making /\ ~Making'
      BY <2>1, <2>3 DEF Making
    <2>8. CASE net' = net
      <3>1. Clearing' => \A x \in Futures : Out(x) => x \in thread'[Main].todo
        BY <2>3, <2>6 DEF ClearParts, ClearWaits
      <3> QED
        BY <2>1, <2>3, <2>4, <2>5, <2>7, <2>8, <3>1, OutsideClear
    <2>9. CASE net'.inbox = Append(net.inbox, <<"cancel", fut[f].group>>) /\ net'.outbox = net.outbox
               /\ net'.answers = net.answers
      <3>1. PICK g : g = fut[f].group
        OBVIOUS
      <3>2. g \in Futures /\ fut[g].group = g /\ fut[g].state # "pending" /\ ~Coming(g)
        BY <2>1, <2>5, <2>7, <3>1, GroupSent
      <3>3. <<"upload", Main>> \notin jobs'
        BY <2>1 DEF ClearParts, Registered
      <3>4. CallGroups' /\ Groups' /\ Registered' /\ \A x \in Futures : ~Coming(x)'
        BY <2>1, <2>3, <2>4, <2>5, <2>7, <3>3, ShapeOutside
      <3>5. \A x \in Futures : Coming(x)' = Coming(x)
        BY <2>7 DEF Coming
      <3>6. net'.inbox = Append(net.inbox, <<"cancel", g>>)
        BY <2>9, <3>1
      <3>7. NotYet' /\ Placed' /\ InLine' /\ ClearWaits'
        BY <2>1, <2>3, <2>4, <2>6, <2>9, <3>2, <3>5, <3>6, CancelSent DEF Steady
      <3> QED
        BY <3>4, <3>7 DEF ClearParts
    <2> QED
      BY <2>1, <2>8, <2>9, CancelAsks
  <1>4. ASSUME NEW f \in Futures, ForceCanceled(f) PROVE ClearParts'
    <2>1. /\ thread[Main].op = "forcing" /\ Done(f) /\ thread[Main].next[1] = f
          /\ manager' = manager /\ agent' = agent /\ jobs' = jobs /\ net' = net /\ held' = held
      BY <1>0, <1>4 DEF ForceCanceled, SettleInv, Alive, At
    <2>2. thread'[Main] = [Idle EXCEPT !.op = "cancelall", !.todo = thread[Main].todo \ {f}, !.next = thread[Main].next[2]]
      BY <1>4, MainGoes DEF ForceCanceled
    <2>3. /\ thread'[Main].op = "cancelall" /\ thread'[Main].todo = thread[Main].todo \ {f}
          /\ thread'[Main].next = thread[Main].next[2]
      BY <2>2 DEF Idle
    <2>4. Steady
      <3>1. fut' = fut \/ Settle(f, "cancelled", "cancelled")
        BY <1>4 DEF ForceCanceled
      <3>2. /\ \A g \in Futures : Identity(g) /\ (g # f => fut'[g].state = fut[g].state)
            /\ fut'[f].state \in {fut[f].state, "cancelled"}
        BY <1>0, <3>1, SettleMoves DEF Identity, Unmoved
      <3> QED
        BY <2>1, <3>2 DEF Steady, Done
    <2>5. ~Out(f)
      BY <2>1 DEF ClearParts, Placed, SettleInv, Managed, Done
    <2>6. Clearing' => Clearing
      BY <2>1, <2>3 DEF Clearing
    <2>7. Clearing' => \A x \in Futures : Out(x) => x \in thread'[Main].todo
      BY <2>3, <2>5, <2>6 DEF ClearParts, ClearWaits
    <2>8. \A x \in thread'[Main].todo : x \in Futures /\ fut[x].state # "pending"
      BY <1>0, <2>1, <2>3 DEF ClearParts, Registered
    <2>9. ~Making'
      BY <2>3 DEF Making
    <2> QED
      BY <2>1, <2>4, <2>7, <2>8, <2>9, OutsideClear
  <1>5. ASSUME NEW upload \in BOOLEAN, Commit(upload) PROVE ClearParts'
    <2>1. /\ thread[Main].op = "commit" /\ fut' = fut /\ manager' = manager /\ agent' = agent /\ net' = net /\ held' = held
          /\ jobs' = IF upload THEN jobs \cup {<<"upload", Main>>} ELSE jobs
      BY <1>5 DEF Commit, At
    <2>2. thread'[Main] = IF ~upload THEN [thread[Main] EXCEPT !.op = "send"] ELSE [thread[Main] EXCEPT !.op = "upload"]
      BY <1>5, MainGoes DEF Commit
    <2>3. /\ thread'[Main].op = IF ~upload THEN "send" ELSE "upload"
          /\ thread'[Main].todo = thread[Main].todo /\ thread'[Main].sent = thread[Main].sent
      BY <1>0, <2>2 DEF ThreadType, ThreadRecord
    <2>4. <<"upload", Main>> \in jobs' => thread'[Main].op = "upload"
      BY <2>1, <2>3 DEF ClearParts, Registered
    <2> QED
      BY <2>1, <2>3, <2>4, MakingGoesOn
  <1>6. ASSUME NEW g \in Futures, SendTask(g) PROVE ClearParts'
    BY <1>0, <1>6, SendTaskClear
  <1>7. CASE Abandon
    <2>1. /\ thread[Main].op = "add" /\ (\A f \in Unregistered : fut[f].call = "starmap")
          /\ fut' = fut /\ manager' = manager /\ agent' = agent /\ jobs' = jobs /\ net' = net /\ held' = held
      BY <1>7 DEF Abandon, At
    <2>2. thread'[Main].op = "idle"
      BY <1>7, MainGoes DEF Abandon, Idle
    <2>3. \A f \in Futures : f \in thread[Main].todo /\ fut[fut[f].group].state = "pending" => fut[f].group = f
      <3> SUFFICES ASSUME NEW f \in Futures, f \in thread[Main].todo, fut[fut[f].group].state = "pending"
                   PROVE  fut[f].group = f
        OBVIOUS
      <3>1. /\ fut[f].group \in thread[Main].todo /\ fut[fut[f].group].call = fut[f].call
            /\ fut[f].call # "get" => fut[f].group = f
        BY <2>1 DEF ClearParts, CallGroups, Making
      <3>2. fut[fut[f].group].call = "starmap"
        BY <2>1, <3>1 DEF Unregistered
      <3> QED
        BY <3>1, <3>2
    <2>4. Steady /\ ~Making' /\ ~Clearing'
      BY <2>1, <2>2 DEF Steady, Identity, Making, Clearing
    <2> QED
      BY <2>1, <2>2, <2>3, <2>4, OutsideClear
  <1>8. CASE Collect \/ (\E next \in {"clear", "disconnect", "shutdown"} : CancelAll(next))
    <2>1. /\ thread[Main].op \in {"idle", "collect"}
          /\ fut' = fut /\ manager' = manager /\ agent' = agent /\ jobs' = jobs /\ net' = net /\ held' = held
      BY <1>8 DEF Collect, CancelAll, At
    <2>2. ASSUME NEW next \in {"clear", "disconnect", "shutdown"}
          PROVE  CancelsAll(next).op = "cancelall" /\ CancelsAll(next).todo = manager
      BY DEF CancelsAll, stopEvent, Idle
    <2>3. \/ thread'[Main].op \in {"idle", "collect"}
          \/ thread'[Main].op = "cancelall" /\ thread'[Main].todo = manager
      <3>1. CASE Collect
        <4>1. \/ GoTo(Main, CancelsAll("disconnect")) \/ GoTo(Main, Idle)
              \/ \E f : GoTo(Main, [thread[Main] EXCEPT !.todo = @ \ {f}])
          BY <3>1 DEF Collect
        <4>2. \/ thread'[Main] = CancelsAll("disconnect") \/ thread'[Main] = Idle
              \/ \E f : thread'[Main] = [thread[Main] EXCEPT !.todo = @ \ {f}]
          BY <4>1, MainGoes
        <4>3. \A f : [thread[Main] EXCEPT !.todo = @ \ {f}].op = thread[Main].op
          BY <1>0 DEF ThreadType, ThreadRecord
        <4>4. CASE thread'[Main] = CancelsAll("disconnect")
          BY <2>2, <4>4
        <4>5. CASE thread'[Main] = Idle
          BY <4>5 DEF Idle
        <4>6. ASSUME NEW f, thread'[Main] = [thread[Main] EXCEPT !.todo = @ \ {f}]
              PROVE  thread'[Main].op \in {"idle", "collect"}
          BY <2>1, <4>3, <4>6
        <4> QED
          BY <4>2, <4>4, <4>5, <4>6
      <3>2. ASSUME NEW next \in {"clear", "disconnect", "shutdown"}, CancelAll(next)
            PROVE  thread'[Main].op = "cancelall" /\ thread'[Main].todo = manager
        BY <2>2, <3>2, MainGoes DEF CancelAll
      <3> QED
        BY <1>8, <3>1, <3>2
    <2>4. Steady /\ ~Making'
      BY <2>1, <2>3 DEF Steady, Identity, Making
    <2>5. Clearing' => \A f \in Futures : Out(f) => f \in thread'[Main].todo
      BY <2>3 DEF Clearing, ClearParts, Placed
    <2>6. thread'[Main].op \in {"cancelall", "forcing", "forced"} =>
              \A f \in thread'[Main].todo : f \in Futures /\ fut[f].state # "pending"
      BY <1>0, <1>a, <2>3
    <2> QED
      BY <2>1, <2>4, <2>5, <2>6, OutsideClear
  <1>9. CASE SendClear
    <2> DEFINE S == {f \in Futures : fut[f].state # "pending"}
    <2>1. /\ thread[Main].op = "cancelall" /\ thread[Main].todo = {} /\ thread[Main].next = "clear"
          /\ fut' = fut /\ manager' = manager /\ agent' = agent /\ jobs' = jobs /\ held' = held
          /\ net' = Sent(<<"clear", S>>)
      BY <1>9 DEF SendClear, At
    <2>2. thread'[Main].op = "idle"
      BY <1>9, MainGoes DEF SendClear, Idle
    <2>3. net'.inbox = Append(net.inbox, <<"clear", S>>) /\ net'.outbox = net.outbox /\ net'.answers = net.answers
      BY <1>0, <2>1, SentPipe
    <2>4. \A f \in Futures : ~Out(f)
      BY <2>1 DEF ClearParts, ClearWaits, Clearing
    <2>5. <<"clear", S>> \in ClientMessages
      BY DEF ClientMessages
    <2>6. \A f \in Futures : f \in S => fut[f].state # "pending"
      OBVIOUS
    <2> HIDE DEF S
    <2> QED
      BY <2>1, <2>2, <2>3, <2>4, <2>5, <2>6, PlainSent
  <1>10. ASSUME NEW next \in {"disconnect", "shutdown"}, SendQuit(next) PROVE ClearParts'
    <2>1. /\ thread[Main].op = "cancelall"
          /\ fut' = fut /\ manager' = manager /\ agent' = agent /\ jobs' = jobs /\ held' = held
          /\ net' = Sent(<<next, Main>>)
      BY <1>10 DEF SendQuit, At
    <2>2. thread'[Main].op = "join"
      BY <1>0, <1>10, MainGoes DEF SendQuit, Idle
    <2>3. net'.inbox = Append(net.inbox, <<next, Main>>) /\ net'.outbox = net.outbox /\ net'.answers = net.answers
      BY <1>0, <2>1, SentPipe
    <2>4. <<next, Main>> \in ClientMessages
      BY DEF ClientMessages
    <2> QED
      BY <2>1, <2>2, <2>3, <2>4, PlainSent
  <1>11. ~Destroy
    BY DEF Destroy
  <1> QED
    BY <1>1, <1>2, <1>3, <1>4, <1>5, <1>6, <1>7, <1>8, <1>9, <1>10, <1>11 DEF Api

LEMMA UploadedClear ==
  ASSUME Types, ClearParts, NEW job \in jobs, job[1] = "upload", JobDone(job)
  PROVE  ClearParts'
  <1>0. thread[Main] \in ThreadType
    BY MainType DEF Types
  <1>1. job = <<"upload", Main>>
    BY DEF Types, JobTypes, JobType
  <1>2. thread[Main].op = "upload"
    BY <1>1 DEF ClearParts, Registered
  <1>3. /\ fut' = fut /\ manager' = manager /\ agent' = agent /\ net' = net /\ held' = held
        /\ <<"upload", Main>> \notin jobs'
    BY <1>1 DEF JobDone
  <1>4. thread'[Main] = [thread[Main] EXCEPT !.op = "send"]
    BY MainGoes DEF JobDone
  <1>5. /\ thread'[Main].op = "send" /\ thread'[Main].todo = thread[Main].todo /\ thread'[Main].sent = thread[Main].sent
    BY <1>0, <1>4 DEF ThreadType, ThreadRecord
  <1> QED
    BY <1>2, <1>3, <1>5, MakingGoesOn

-----------------------------------------------------------------------------
(* The step and the theorem.                                               *)

LEMMA OnceStopped ==
  ASSUME Types, Next, agent.phase # "running"
  PROVE  /\ agent'.phase # "running"
         /\ held'.tasks = {} \/ (net'.outbox = net.outbox /\ held' = held)
  <1>0. agent \in AgentType /\ net \in NetType
    BY DEF Types, AgentTypes, NetTypes
  <1>1. CASE Api
    <2>1. agent' = agent /\ held' = held
      BY <1>1 DEF Api, Submit, AddFuture, CancelNext, ForceCanceled, Commit, SendTask, Abandon, Collect, SendClear, Destroy,
                  CancelAll, SendQuit
    <2>2. \/ net' = net \/ (\E m : net' = Sent(m)) \/ net' = [net EXCEPT !.pipe = "destroyed"]
      BY <1>1 DEF Api, Submit, AddFuture, CancelNext, ForceCanceled, Commit, SendTask, Abandon, Collect, SendClear, Destroy,
                  CancelAll, SendQuit, Cancel
    <2>3. net'.outbox = net.outbox
      BY <1>0, <2>2, SentPipe DEF NetType
    <2> QED
      BY <2>1, <2>3
  <1>2. ASSUME NEW t \in Users, User(t)
        PROVE  agent' = agent /\ held' = held /\ net'.outbox = net.outbox
    <2>1. agent' = agent /\ held' = held
      BY <1>2 DEF User, UserCancel, Result, AddDoneCallback, GetsOut, CancelReturns, ResultReady, ResultReturns
    <2>2. net' = net \/ \E m : net' = Sent(m)
      BY <1>2 DEF User, UserCancel, Result, AddDoneCallback, GetsOut, CancelReturns, ResultReady, ResultReturns, Cancel
    <2> QED
      BY <2>1, <2>2, SentPipe
  <1>3. ~AgentLoop
    BY DEF AgentLoop, FromClient, FromScheduler, ApplyResult, JobDone, Running
  <1>4. CASE Teardown
    <2>1. CASE DestroyConnectors
      BY <1>0, <2>1 DEF DestroyConnectors, AgentType
    <2>2. CASE SetAllFutures \/ CancelPending \/ CloseLoop
      BY <1>0, <2>2 DEF SetAllFutures, CancelPending, CloseLoop, AgentType
    <2>3. CASE PipeCloses
      BY <1>0, <2>3 DEF PipeCloses, NetType
    <2> QED
      BY <1>4, <2>1, <2>2, <2>3 DEF Teardown
  <1>5. ~Scheduler
    BY DEF Scheduler, SchedulerReceives, SchedulerAnswers, SchedulerAborts, StrayEnds, Answered, stopEvent
  <1>6. \A kind \in EventKinds \ {"clear"} : ~LoopFails(kind)
    BY DEF LoopFails, Running
  <1> QED
    BY <1>1, <1>2, <1>3, <1>4, <1>5, <1>6 DEF Next

\* The step that ends the agent adds no clear to the outbox.
LEMMA Stopping ==
  ASSUME Types, Next, agent.phase = "running", agent'.phase # "running"
  PROVE  /\ held' = held
         /\ \A f \in Futures : Clears(net.outbox, f)' => Clears(net.outbox, f)
  <1>0. /\ agent \in AgentType /\ net \in NetType /\ net.outbox \in Seq(ClientMessages) /\ net.inbox \in Seq(ClientMessages)
    BY DEF Types, AgentTypes, NetTypes, NetType
  <1>1. CASE FromClient
    <2> DEFINE h == Head(net.inbox)
    <2>1. h[1] = "disconnect" /\ h \in ClientMessages
      BY <1>0, <1>1 DEF FromClient, AgentType
    <2>2. net'.outbox = Append(net.outbox, h)
      BY <1>0, <1>1, <2>1 DEF FromClient, NetType
    <2> HIDE DEF h
    <2>3. \A f \in Futures : Clears(net.outbox, f)' => Clears(net.outbox, f)
      BY <1>0, <2>1, <2>2, AppendHolds
    <2> QED
      BY <1>1, <2>3 DEF FromClient
  <1>2. CASE FromScheduler
    <2>1. net'.outbox = net.outbox /\ held' = held
      BY <1>0, <1>2 DEF FromScheduler, NetType
    <2> QED
      BY <2>1 DEF Clears
  <1>3. CASE ApplyResult \/ (\E job \in jobs : JobDone(job)) \/ \E kind \in EventKinds \ {"clear"} : LoopFails(kind)
    <2>1. net' = net /\ held' = held
      BY <1>3 DEF ApplyResult, JobDone, LoopFails
    <2> QED
      BY <2>1 DEF Clears
  <1>4. Api => agent' = agent
    BY DEF Api, Submit, AddFuture, CancelNext, ForceCanceled, Commit, SendTask, Abandon, Collect, SendClear, Destroy,
           CancelAll, SendQuit
  <1>5. \A t \in Users : User(t) => agent' = agent
    BY DEF User, UserCancel, Result, AddDoneCallback, GetsOut, CancelReturns, ResultReady, ResultReturns
  <1>6. Scheduler => agent' = agent
    BY DEF Scheduler, SchedulerReceives, SchedulerAnswers, SchedulerAborts, StrayEnds
  <1>7. Teardown => agent' = agent
    BY DEF Teardown, DestroyConnectors, SetAllFutures, CancelPending, CloseLoop, PipeCloses
  <1> QED
    BY <1>1, <1>2, <1>3, <1>4, <1>5, <1>6, <1>7 DEF Next, AgentLoop

LEMMA RunningClear ==
  ASSUME Types, SettleInv, ClearParts, Next, agent.phase = "running", agent'.phase = "running"
  PROVE  ClearParts'
  <1>0. agent \in AgentType /\ net \in NetType
    BY DEF Types, AgentTypes, NetTypes
  <1>1. CASE Api
    BY <1>1, ApiClear
  <1>2. ASSUME NEW t \in Users, User(t) PROVE ClearParts'
    BY <1>2, UserClear
  <1>3. CASE FromClient
    BY <1>3, FromClientClear
  <1>4. CASE FromScheduler
    BY <1>4, FromSchedulerClear
  <1>5. CASE ApplyResult
    BY <1>5, SettlesClear
  <1>6. ASSUME NEW job \in jobs, JobDone(job) PROVE ClearParts'
    <2>1. job[1] \in {"upload", "fetch"}
      BY DEF Types, JobTypes, JobType
    <2> QED
      BY <1>6, <2>1, SettlesClear, UploadedClear
  <1>7. ~DestroyConnectors /\ ~SetAllFutures /\ ~CancelPending /\ ~CloseLoop
    BY DEF DestroyConnectors, SetAllFutures, CancelPending, CloseLoop
  <1>8. ~PipeCloses
    BY DEF PipeCloses, SettleInv, Alive
  <1>9. CASE Scheduler
    BY <1>9, SchedulerClear
  <1>10. \A kind \in EventKinds \ {"clear"} : ~LoopFails(kind)
    BY <1>0 DEF LoopFails, Ends, AgentType
  <1> QED
    BY <1>1, <1>2, <1>3, <1>4, <1>5, <1>6, <1>7, <1>8, <1>9, <1>10 DEF Next, AgentLoop, Teardown

LEMMA ClearStep == Types /\ SettleInv /\ ClearInv /\ [Next]_vars => ClearInv'
  <1> SUFFICES ASSUME Types, SettleInv, ClearInv, [Next]_vars
               PROVE  ClearInv'
    OBVIOUS
  <1>1. CASE UNCHANGED vars
    <2>1. fut' = fut /\ manager' = manager /\ thread' = thread /\ agent' = agent /\ jobs' = jobs /\ net' = net /\ held' = held
      BY <1>1 DEF vars
    <2>2. Steady
      BY <2>1 DEF Steady, Identity
    <2>3. ClearParts => ClearParts'
      BY <2>1, <2>2, OthersClear, SameNarrower
    <2>4. OutboxCleared'
      BY <2>1 DEF ClearInv, OutboxCleared, Clears
    <2> QED
      BY <2>1, <2>3, <2>4 DEF ClearInv
  <1>2. CASE Next /\ agent'.phase = "running"
    <2>1. agent.phase = "running"
      BY <1>2, OnceStopped
    <2>2. ClearParts'
      BY <1>2, <2>1, RunningClear DEF ClearInv
    <2>3. OutboxCleared'
      BY <2>2 DEF ClearParts, ClearWaits, Covered, Out, OutboxCleared
    <2> QED
      BY <2>2, <2>3 DEF ClearInv
  <1>3. CASE Next /\ agent'.phase # "running"
    <2>1. CASE agent.phase = "running"
      BY <1>3, <2>1, Stopping DEF ClearInv, OutboxCleared
    <2>2. CASE agent.phase # "running"
      <3>1. held'.tasks = {} \/ (net'.outbox = net.outbox /\ held' = held)
        BY <1>3, <2>2, OnceStopped
      <3>2. OutboxCleared'
        BY <3>1 DEF ClearInv, OutboxCleared, Clears
      <3> QED
        BY <1>3, <3>2 DEF ClearInv
    <2> QED
      BY <2>1, <2>2
  <1> QED
    BY <1>1, <1>2, <1>3

LEMMA ClearInit == Init => ClearInv
  <1> SUFFICES ASSUME Init
               PROVE  ClearInv
    OBVIOUS
  <1>1. /\ Main \in Threads /\ thread[Main] = Idle /\ net.inbox = <<>> /\ net.outbox = <<>> /\ net.answers = <<>>
        /\ held.tasks = {} /\ held.stray = {} /\ manager = {} /\ jobs = {} /\ agent.settling = <<>>
    BY MainType DEF Init
  <1>2. \A f \in Futures : fut[f].state = "pending" /\ fut[f].group = Main /\ fut[f].given = FALSE
    BY DEF Init, NewFuture
  <1>3. thread[Main].op = "idle"
    BY <1>1 DEF Idle
  <1>4. (\A m : ~Queued(m)) /\ (\A f \in Futures : ~Covered(f) /\ ~Out(f) /\ ~Told(f))
    BY <1>1 DEF Queued, Covered, Out, Told, Has, Clears, About
  <1>5. ~Making /\ ~Clearing /\ \A f \in Futures : ~Coming(f)
    BY <1>3 DEF Making, Clearing, Coming
  <1>6. CallGroups /\ Groups /\ Registered
    BY <1>1, <1>2, <1>3, <1>5, NamesAssumption DEF CallGroups, Groups, Registered
  <1>7. NotYet /\ Placed /\ ClearWaits
    BY <1>1, <1>2, <1>4, <1>5 DEF NotYet, Placed, ClearWaits, Untouched
  <1>8. InLine
    BY <1>1, <1>4 DEF InLine, Ordered, Has
  <1>9. OutboxCleared
    BY <1>1 DEF OutboxCleared
  <1> QED
    BY <1>6, <1>7, <1>8, <1>9 DEF ClearInv, ClearParts

-----------------------------------------------------------------------------
(* What the scheduler works on although it has answered for it.            *)
(*                                                                         *)
(* A subtask that an aborted graph left running is told of, so its graph's *)
(* task is neither with the scheduler nor on its way and cannot get there  *)
(* again: its future keeps its group, and no second task names it.         *)

StrayInv == \A f \in held.stray :
               f \in Futures /\ fut[f].group # f /\ fut[f].group \notin held.tasks /\ f \notin held.tasks

\* The group of a future is chosen once, by the call that makes it.
LEMMA GroupStays ==
  ASSUME Types, [Next]_vars
  PROVE  \A f \in Futures : fut'[f].group = fut[f].group \/ (fut[f].state = "pending" /\ agent.phase = "running")
  <1>0. /\ FutTypes /\ fut \in [Futures -> FutureType] /\ thread[Main].todo \in SUBSET Futures
        /\ agent.settling # <<>> => agent.settling[1] \in Futures
    BY MainType DEF Types, FutTypes, ThreadType, ThreadRecord, AgentTypes, AgentType
  <1> DEFINE Stays == \A f \in Futures : fut'[f].group = fut[f].group
  <1>a. fut' = fut => Stays
    OBVIOUS
  <1>1. ASSUME NEW c \in Calls, Submit(c)
        PROVE  \A f \in Futures : fut'[f].group = fut[f].group \/ (fut[f].state = "pending" /\ agent.phase = "running")
    <2>1. \A f \in Futures : f \notin c.futures => fut'[f] = fut[f]
      BY <1>1 DEF Submit
    <2>2. \A f \in c.futures : fut[f].state = "pending" /\ agent.phase = "running"
      BY <1>1 DEF Submit, stopEvent
    <2> QED
      BY <2>1, <2>2
  <1>2. ASSUME NEW f \in Futures, AddFuture(f) PROVE Stays
    <2>1. fut' = [fut EXCEPT ![f].state = "running"]
      BY <1>2 DEF AddFuture
    <2> QED
      BY <1>0, <2>1 DEF FutureType
  <1>3. ASSUME NEW f \in Futures, CancelNext(f) PROVE Stays
    <2>1. fut' = fut \/ fut' = [fut EXCEPT ![f].requested = TRUE]
      BY <1>3 DEF CancelNext, Cancel
    <2> QED
      BY <1>0, <2>1 DEF FutureType
  <1>4. ASSUME NEW f \in Futures, ForceCanceled(f) PROVE Stays
    <2>1. fut' = fut \/ Settle(f, "cancelled", "cancelled")
      BY <1>4 DEF ForceCanceled
    <2> QED
      BY <1>0, <2>1, SettleMoves DEF Identity
  <1>5. ASSUME NEW g \in Futures, SendTask(g) PROVE Stays
    <2>1. fut' = fut \/ fut' = Returned
      BY <1>5 DEF SendTask
    <2> QED
      BY <1>0, <2>1 DEF FutureType, Returned
  <1>6. CASE \/ \E upload \in BOOLEAN : Commit(upload)
             \/ Abandon \/ Collect \/ SendClear \/ Destroy
             \/ \E next \in {"clear", "disconnect", "shutdown"} : CancelAll(next)
             \/ \E next \in {"disconnect", "shutdown"} : SendQuit(next)
    BY <1>6, <1>a DEF Commit, Abandon, Collect, SendClear, Destroy, CancelAll, SendQuit
  <1>7. ASSUME NEW t \in Users, User(t) PROVE Stays
    <2>1. PICK f \in Futures : UserCancel(t, f) \/ Result(t, f) \/ AddDoneCallback(t, f) \/ GetsOut(t, f)
      BY <1>7 DEF User
    <2>2. \/ fut' = fut \/ fut' = [fut EXCEPT ![f].requested = TRUE] \/ fut' = [fut EXCEPT ![f].callbacks = 1]
          \/ fut' = [fut EXCEPT ![f].fetching = TRUE]
      BY <2>1 DEF UserCancel, Result, AddDoneCallback, GetsOut, CancelReturns, ResultReady, ResultReturns, Cancel, AskFor
    <2> QED
      BY <1>0, <2>2 DEF FutureType
  <1>8. CASE FromClient \/ Scheduler \/ UNCHANGED vars \/ \E kind \in EventKinds \ {"clear"} : LoopFails(kind)
    BY <1>8, <1>a DEF FromClient, Scheduler, SchedulerReceives, SchedulerAnswers, SchedulerAborts, StrayEnds, vars, LoopFails
  <1>9. CASE FromScheduler
    <2>1. fut' = fut \/ \E f \in Futures : Settle(f, "cancelled", "cancelled")
      <3>1. manager \subseteq Futures
        BY DEF Types, AgentTypes
      <3> QED
        BY <1>9, <3>1 DEF FromScheduler
    <2> QED
      BY <1>0, <1>a, <2>1, SettleMoves DEF Identity
  <1>10. CASE ApplyResult
    <2>1. PICK f \in Futures, kind \in {"value", "error", "died"} : agent.settling = <<f, kind>>
      BY <1>10 DEF ApplyResult, Types, AgentTypes, AgentType
    <2>2. fut' = fut \/ Settle(f, "finished", "error") \/ SetResultReady(f, kind)
      BY <1>10, <2>1 DEF ApplyResult
    <2> QED
      BY <1>0, <1>a, <2>2, SettleMoves, ReadyMoves DEF Identity
  <1>11. ASSUME NEW job \in jobs, JobDone(job) PROVE Stays
    <2>1. fut' = fut \/ \E f \in Futures : \E outcome : Settle(f, "finished", outcome)
      <3>1. job[1] = "upload" \/ job[2] \in Futures
        BY DEF Types, JobTypes, JobType
      <3> QED
        BY <1>11, <3>1 DEF JobDone
    <2> QED
      BY <1>0, <1>a, <2>1, SettleMoves DEF Identity
  <1>12. CASE Teardown
    <2>1. \/ fut' = fut
          \/ \E S : fut' = [f \in Futures |-> IF f \in S THEN Settled(f, "finished", "error") ELSE fut[f]]
      BY <1>12 DEF Teardown, DestroyConnectors, SetAllFutures, CancelPending, CloseLoop, PipeCloses
    <2>2. \A f \in Futures : Settled(f, "finished", "error").group = fut[f].group
      BY <1>0 DEF FutureType, Settled
    <2>3. \A f \in Futures : fut'[f] \in {fut[f], Settled(f, "finished", "error")}
      BY <2>1
    <2> QED
      BY <2>2, <2>3
  <1> QED
    BY <1>1, <1>2, <1>3, <1>4, <1>5, <1>6, <1>7, <1>8, <1>9, <1>10, <1>11, <1>12 DEF Next, Api, AgentLoop

\* A task comes to the scheduler only by its message, a stray only by an abort.
LEMMA HeldMoves ==
  ASSUME Types, [Next]_vars, agent.phase = "running"
  PROVE  \/ held'.tasks \subseteq held.tasks /\ held'.stray \subseteq held.stray
         \/ \E g \in Names : /\ Queued(<<"task", g>>) /\ held'.stray = held.stray
                             /\ held'.tasks = held.tasks \cup Members(g)
         \/ \E u \in Futures : /\ fut[u].group = u /\ held'.tasks = held.tasks \ Members(u)
                               /\ held'.stray \subseteq held.stray \cup ((held.tasks \cap Members(u)) \ {u})
  <1>0. /\ net \in NetType /\ held \in [tasks : SUBSET Futures, stray : SUBSET Futures]
        /\ net.outbox \in Seq(ClientMessages)
    BY DEF Types, NetTypes, NetType
  <1>1. CASE UNCHANGED held
    BY <1>1
  <1>2. CASE SchedulerReceives
    <2> DEFINE h == Head(net.outbox)
               mine == held.tasks \cap Members(h[2])
    <2>1. h \in ClientMessages /\ net.outbox # <<>>
      BY <1>0, <1>2 DEF SchedulerReceives
    <2>2. CASE h[1] = "task"
      <3>1. PICK g \in Names : h = <<"task", g>>
        BY <2>1, <2>2 DEF ClientMessages
      <3>2. held' = [held EXCEPT !.tasks = @ \cup Members(g)]
        BY <1>2, <2>2, <3>1 DEF SchedulerReceives
      <3>3. Queued(<<"task", g>>)
        <4>1. 1 \in DOMAIN net.outbox /\ net.outbox[1] = h
          BY <1>0, <2>1
        <4> QED
          BY <3>1, <4>1 DEF Queued, Has
      <3> QED
        BY <1>0, <3>2, <3>3
    <2>3. CASE h[1] # "task"
      <3>1. held' = held \/ held' = [held EXCEPT !.tasks = @ \ mine]
        BY <1>2, <2>3 DEF SchedulerReceives
      <3> QED
        BY <1>0, <3>1
    <2> QED
      BY <2>2, <2>3
  <1>3. ASSUME NEW f \in Futures, (\E outcome \in {"value", "error", "died"} : SchedulerAnswers(f, outcome)) \/ StrayEnds(f)
        PROVE  held'.tasks \subseteq held.tasks /\ held'.stray \subseteq held.stray
    BY <1>0, <1>3 DEF SchedulerAnswers, StrayEnds
  <1>4. ASSUME NEW u \in Futures, NEW outcome \in {"error", "died"}, NEW running \in SUBSET Futures,
               SchedulerAborts(u, outcome, running)
        PROVE  /\ fut[u].group = u /\ held'.tasks = held.tasks \ Members(u)
               /\ held'.stray \subseteq held.stray \cup ((held.tasks \cap Members(u)) \ {u})
    BY <1>0, <1>4 DEF SchedulerAborts, Umbrellas
  <1>5. ~Teardown \/ UNCHANGED held
    BY DEF Teardown, DestroyConnectors, SetAllFutures, CancelPending, CloseLoop, PipeCloses
  <1>6. CASE Api \/ (\E t \in Users : User(t)) \/ AgentLoop \/ UNCHANGED vars \/ \E kind \in EventKinds \ {"clear"} : LoopFails(kind)
    <2>1. UNCHANGED held
      BY <1>6 DEF Api, Submit, AddFuture, CancelNext, ForceCanceled, Commit, SendTask, Abandon, Collect, SendClear, Destroy,
                  CancelAll, SendQuit, User, UserCancel, Result, AddDoneCallback, GetsOut, CancelReturns, ResultReady,
                  ResultReturns, AgentLoop, FromClient, FromScheduler, ApplyResult, JobDone, LoopFails, vars
    <2> QED
      BY <1>1, <2>1
  <1>7. CASE Scheduler
    <2>1. CASE SchedulerReceives
      BY <1>2, <2>1
    <2>2. CASE \E f \in Futures : (\E outcome \in {"value", "error", "died"} : SchedulerAnswers(f, outcome)) \/ StrayEnds(f)
      BY <1>3, <2>2
    <2>3. CASE \E u \in Futures, outcome \in {"error", "died"}, running \in SUBSET Futures : SchedulerAborts(u, outcome, running)
      BY <1>4, <2>3
    <2> QED
      BY <1>7, <2>1, <2>2, <2>3 DEF Scheduler
  <1>8. CASE Teardown
    BY <1>1, <1>5, <1>8
  <1> QED
    BY <1>6, <1>7, <1>8 DEF Next

\* What the scheduler left running stays apart from the tasks it works on.
LEMMA StrayStep == Types /\ ClearInv /\ StrayInv /\ [Next]_vars => StrayInv'
  <1> SUFFICES ASSUME Types, ClearInv, StrayInv, [Next]_vars, NEW f \in held'.stray
               PROVE  f \in Futures /\ fut'[f].group # f /\ fut'[f].group \notin held'.tasks /\ f \notin held'.tasks
    BY DEF StrayInv
  <1>0. held \in [tasks : SUBSET Futures, stray : SUBSET Futures]
    BY DEF Types, NetTypes
  <1>1. CASE agent.phase # "running"
    <2>1. held' = held \/ (held'.tasks = {} /\ held'.stray = {})
      <3>1. CASE UNCHANGED vars
        BY <3>1 DEF vars
      <3>2. CASE Next /\ DestroyConnectors
        BY <3>2 DEF DestroyConnectors
      <3>3. CASE Next /\ ~DestroyConnectors
        <4>1. ~AgentLoop
          BY <1>1 DEF AgentLoop, FromClient, FromScheduler, ApplyResult, JobDone, Running
        <4>2. ~Scheduler
          BY <1>1 DEF Scheduler, SchedulerReceives, SchedulerAnswers, SchedulerAborts, StrayEnds, Answered, stopEvent
        <4>3. \A kind \in EventKinds \ {"clear"} : ~LoopFails(kind)
          BY <1>1 DEF LoopFails, Running
        <4>4. Api => held' = held
          BY DEF Api, Submit, AddFuture, CancelNext, ForceCanceled, Commit, SendTask, Abandon, Collect, SendClear, Destroy,
                 CancelAll, SendQuit
        <4>5. \A t \in Users : User(t) => held' = held
          BY DEF User, UserCancel, Result, AddDoneCallback, GetsOut, CancelReturns, ResultReady, ResultReturns
        <4>6. Teardown => held' = held
          BY <3>3 DEF Teardown, SetAllFutures, CancelPending, CloseLoop, PipeCloses
        <4> QED
          BY <3>3, <4>1, <4>2, <4>3, <4>4, <4>5, <4>6 DEF Next
      <3> QED
        BY <3>1, <3>2, <3>3
    <2>2. held' = held /\ f \in held.stray /\ f \in Futures
      BY <1>0, <2>1
    <2>3. fut'[f].group = fut[f].group
      BY <1>1, <2>2, GroupStays
    <2> QED
      BY <2>2, <2>3 DEF StrayInv
  <1>2. CASE agent.phase = "running"
    <2>1. ClearParts
      BY <1>2 DEF ClearInv
    <2>2. \A x \in held.stray : /\ x \in Futures /\ ~Out(x) /\ fut[x].state # "pending"
                                /\ fut'[x].group = fut[x].group
      <3>1. \A x \in held.stray : x \in Futures /\ Told(x)
        BY <1>0 DEF Told
      <3>2. \A x \in held.stray : ~Out(x) /\ fut[x].state # "pending"
        BY <2>1, <3>1 DEF ClearParts, Placed, NotYet, Untouched
      <3> QED
        BY <3>1, <3>2, GroupStays
    <2>3. CASE held'.tasks \subseteq held.tasks /\ held'.stray \subseteq held.stray
      BY <2>2, <2>3 DEF StrayInv
    <2>4. ASSUME NEW g \in Names, Queued(<<"task", g>>), held'.stray = held.stray, held'.tasks = held.tasks \cup Members(g)
          PROVE  f \in Futures /\ fut'[f].group # f /\ fut'[f].group \notin held'.tasks /\ f \notin held'.tasks
      <3>1. f \in held.stray
        BY <2>4
      <3>2. fut[f].group # g
        BY <2>2, <2>4, <3>1 DEF Out
      <3>3. fut[f].group \in Futures /\ fut[fut[f].group].group = fut[f].group
        BY <2>1, <2>2, <3>1 DEF ClearParts, Groups
      <3>4. f \notin Members(g) /\ fut[f].group \notin Members(g)
        BY <3>2, <3>3 DEF Members
      <3> QED
        BY <2>2, <2>4, <3>1, <3>4 DEF StrayInv
    <2>5. ASSUME NEW u \in Futures, fut[u].group = u, held'.tasks = held.tasks \ Members(u),
                 held'.stray \subseteq held.stray \cup ((held.tasks \cap Members(u)) \ {u})
          PROVE  f \in Futures /\ fut'[f].group # f /\ fut'[f].group \notin held'.tasks /\ f \notin held'.tasks
      <3>1. CASE f \in held.stray
        BY <2>2, <2>5, <3>1 DEF StrayInv
      <3>2. CASE f \in (held.tasks \cap Members(u)) \ {u}
        <4>1. f \in Futures /\ fut[f].group = u /\ f # u /\ u \in Members(u) /\ Out(f)
          BY <1>0, <2>5, <3>2 DEF Members, Out
        <4>2. fut[f].state # "pending"
          BY <2>1, <4>1 DEF ClearParts, NotYet, Untouched
        <4>3. fut'[f].group = u
          BY <4>1, <4>2, GroupStays
        <4> QED
          BY <2>5, <3>2, <4>1, <4>3
      <3> QED
        BY <2>5, <3>1, <3>2
    <2> QED
      BY <1>2, <2>3, <2>4, <2>5, HeldMoves
  <1> QED
    BY <1>1, <1>2

\* When the agent passes a clear on, the scheduler works on no task submitted before
\* it, except subtasks of a graph it has aborted and answered for, whatever tasks,
\* graphs, cancels and answers overlap: the instruction that lets the objects go
\* never overtakes a task that names them, nor an answer that is still owed.
THEOREM ClearsAfterFutures == Spec => []ClearAfterFutures
  <1>1. Types /\ ClearInv /\ StrayInv => ClearAfterFutures
    <2> SUFFICES ASSUME Types, ClearInv, StrayInv, NEW i \in DOMAIN net.outbox, net.outbox[i][1] = "clear",
                        NEW f \in held.tasks \cup held.stray, f \in net.outbox[i][2]
                 PROVE  LeftRunning(f)
      BY DEF ClearAfterFutures
    <2>1. f \in Futures
      BY DEF Types, NetTypes
    <2>2. f \notin held.tasks
      BY <2>1 DEF ClearInv, OutboxCleared, Clears
    <2> QED
      BY <2>2 DEF StrayInv, LeftRunning
  <1>2. Init => StrayInv
    BY DEF Init, StrayInv
  <1> QED
    BY <1>1, <1>2, ClearInit, ClearStep, StrayStep, SettleCorrect, PTL DEF Spec
=============================================================================
