-------------------------- MODULE WorkerAgentProofs --------------------------
(***************************************************************************)
(* The agent implements WorkerContract, for any tasks, priorities, number  *)
(* of processors, deaths, cancels and deliveries, as long as forced        *)
(* cancels meet only tasks that are not queued at the same time; and its   *)
(* books of processors, its lock and its priorities are in order.          *)
(***************************************************************************)
EXTENDS WorkerAgent, FiniteSetTheorems, TLAPS

(* A forced cancel of a task that is in processing and also queued takes   *)
(* it out of the processing set only (TaskManager.on_cancel_task), and the *)
(* agent runs it again after it confirmed the cancel.  A task is both when *)
(* it is suspended or was delivered twice.                                 *)
ForceIsSafe ==
    \/ Limit["force"] = 0
    \/ Limit["duplicate"] = 0 /\ \A t \in Forcible, u \in Task : Priority[u] <= Priority[t]

NoForce == Limit["force"] = 0

-----------------------------------------------------------------------------
(* The inductive invariant.                                                *)

(* A result that waits in a channel is the only one there, and of the task *)
(* that the holder of its process still has, unless the process was killed. *)
ResultsOfHolders ==
    \A p \in Proc :
        /\ process[p] = "busy" => htask[p] # NoTask
        /\ \A i \in DOMAIN channel[p] : channel[p][i] # "init" =>
              \/ process[p] = "free"
              \/ /\ htask[p] = channel[p][i]
                 /\ process[p] \in {"idle", "dead"}
                 /\ \A j \in DOMAIN channel[p] : channel[p][j] # "init" => i = j

(* A suspended task is the task of the holder it is suspended with.        *)
SuspendedHolders ==
    \A t \in Task : suspended[t] # NoProc => htask[suspended[t]] = t

(* The current and the suspended holders have processes, different ones;   *)
(* until the agent has started its first there is none.                    *)
HoldersAlive ==
    /\ current = NoProc => \A p \in Proc : process[p] = "free" /\ channel[p] = <<>>
    /\ current # NoProc => process[current] # "free"
    /\ \A t \in Task : suspended[t] # NoProc =>
          suspended[t] # current /\ process[suspended[t]] # "free"

(* The task of a holder is in processing, no other holder has it, and the  *)
(* holder is the current or a suspended one.                               *)
HeldInProcessing ==
    /\ \A p \in Proc : htask[p] # NoTask =>
          /\ htask[p] \in processing
          /\ p = current \/ suspended[htask[p]] = p
    /\ \A p, q \in Proc : htask[p] # NoTask /\ htask[p] = htask[q] => p = q

(* A task whose failure is being stored is in processing or has ended.     *)
StoringInProcessing ==
    \A c \in DOMAIN storing : storing[c] # NoTask =>
        /\ storing[c] \in processing \/ known[storing[c]] = "ended"
        /\ \A p \in Proc : htask[p] # storing[c]

(* What has ended is not held any more.                                    *)
EndedIsAbsent ==
    \A t \in Task : known[t] = "ended" => t \notin processing /\ t \notin payload

(* Under the second clause of ForceIsSafe the scheduler knows what the     *)
(* agent holds, and a task that may be canceled by force is never queued   *)
(* and in processing.                                                      *)
ForcibleSound ==
    ~ NoForce =>
        /\ \A t \in Task : known[t] # "held" => t \notin processing /\ t \notin payload
        /\ \A t \in Forcible : suspended[t] = NoProc /\ ~ (t \in processing /\ t \in payload)

Budgets ==
    /\ NoForce => budget["force"] = 0
    /\ ~ NoForce => budget["duplicate"] = 0

AgentInv ==
    /\ TypeOK
    /\ ResultsOfHolders
    /\ SuspendedHolders
    /\ HoldersAlive
    /\ Budgets
    /\ up => HeldInProcessing /\ StoringInProcessing /\ EndedIsAbsent /\ ForcibleSound

-----------------------------------------------------------------------------
(* The operators of the queue and of the processors.                       *)

EntrySet == [task : Task, suspended : BOOLEAN]

(* Without one of its entries a queue is a queue (StablePriorityQueue).    *)
LEMMA DropType ==
    ASSUME NEW q \in Seq(EntrySet), NEW i \in DOMAIN q
    PROVE  Drop(q, i) \in Seq(EntrySet)
  <1>1. Len(q) - 1 \in Nat /\ i \in 1..Len(q)
    OBVIOUS
  <1>2. [j \in 1..(Len(q) - 1) |-> IF j < i THEN q[j] ELSE q[j + 1]]
           \in [1..(Len(q) - 1) -> EntrySet]
    BY <1>1
  <1> QED  BY <1>1, <1>2 DEF Drop

(* Two more entries make a queue.                                          *)
LEMMA AppendTwoType ==
    ASSUME NEW q \in Seq(EntrySet), NEW d \in EntrySet, NEW e \in EntrySet
    PROVE  q \o <<d, e>> \in Seq(EntrySet)
  OBVIOUS

(* remove takes one task out of the queue.                                 *)
LEMMA RemoveType ==
    ASSUME TypeOK, NEW t \in Task, Remove(t)
    PROVE  entries' \in Seq(EntrySet) /\ payload' = payload \ {t}
  BY DropType DEF TypeOK, Remove, EntrySet

(* The absent holder is not a processor.                                   *)
LEMMA NoProcFact == NoProc \notin Proc
  BY DEF NoProc, Proc

(* __start_new_processor: a holder that nobody refers to becomes current,  *)
(* in a process that is only starting.                                     *)
LEMMA StartType ==
    ASSUME TypeOK, NEW v \in {current, NoProc}, StartNewProcessor(v)
    PROVE  /\ current' \in Unused
           /\ initialized' \subseteq Proc
           /\ htask' = [p \in Proc |-> IF p = v THEN NoTask ELSE htask[p]]
           /\ htask' \in [Proc -> Task \cup {NoTask}]
           /\ \A p \in Proc : process'[p] = IF p = v THEN "free"
                                            ELSE IF p = current' THEN "starting"
                                            ELSE process[p]
           /\ process' \in [Proc -> Phase]
  <1>1. PICK new \in Unused :
        /\ current' = new
        /\ initialized' = initialized \ {v}
        /\ htask' = [p \in Proc |-> IF p = v THEN NoTask ELSE htask[p]]
        /\ process' = [p \in Proc |-> CASE p = v -> "free" [] p = new -> "starting"
                                        [] OTHER -> process[p]]
    BY DEF StartNewProcessor
  <1>2. ASSUME NEW p \in Proc
        PROVE  process'[p] = IF p = v THEN "free" ELSE IF p = new THEN "starting"
                             ELSE process[p]
    <2>1. process'[p] = CASE p = v -> "free" [] p = new -> "starting" [] OTHER -> process[p]
      BY <1>1
    <2>2. CASE p = v
      <3>1. p # new
        BY <2>2, NoProcFact DEF Unused
      <3> QED  BY <2>1, <2>2, <3>1
    <2>3. CASE p # v /\ p = new
      BY <2>1, <2>3
    <2>4. CASE p # v /\ p # new
      BY <2>1, <2>4
    <2> QED  BY <2>2, <2>3, <2>4
  <1>3. process' \in [Proc -> Phase]
    BY <1>1 DEF TypeOK, Phase
  <1>4. htask' \in [Proc -> Task \cup {NoTask}] /\ initialized' \subseteq Proc
    BY <1>1 DEF TypeOK
  <1> QED  BY <1>1, <1>2, <1>3, <1>4

(* The kill of a processor takes its holder out of the books.              *)
LEMMA KillType ==
    ASSUME TypeOK, NEW v \in Proc, KillProcessor(v)
    PROVE  /\ initialized' \subseteq Proc
           /\ htask' = [p \in Proc |-> IF p = v THEN NoTask ELSE htask[p]]
           /\ htask' \in [Proc -> Task \cup {NoTask}]
           /\ process' = [p \in Proc |-> IF p = v THEN "free" ELSE process[p]]
           /\ process' \in [Proc -> Phase]
  BY DEF TypeOK, Phase, KillProcessor

-----------------------------------------------------------------------------
(* Every action preserves the invariant.                                   *)

(* Steps that touch neither the books of the tasks nor the holders.        *)
LEMMA BootInv ==
    ASSUME AgentInv, NEW p \in Proc, Boot(p)
    PROVE  AgentInv'
  <1>1. TypeOK'
    BY DEF AgentInv, TypeOK, Boot, queue, holders, waits, outside, Phase
  <1>2. ResultsOfHolders'
    <2>1. \A i \in DOMAIN channel[p] : channel[p][i] = "init"
      BY DEF AgentInv, ResultsOfHolders, Boot
    <2>2. \A i \in DOMAIN channel'[p] : channel'[p][i] = "init"
      BY <2>1 DEF AgentInv, TypeOK, Boot
    <2> QED  BY <2>2 DEF AgentInv, TypeOK, ResultsOfHolders, Boot, holders
  <1>3. HoldersAlive'
    BY DEF AgentInv, TypeOK, HoldersAlive, Boot, holders
  <1> QED
    BY <1>1, <1>2, <1>3 DEF AgentInv, SuspendedHolders, Budgets, HeldInProcessing, StoringInProcessing,
       EndedIsAbsent, ForcibleSound, Boot, queue, holders, waits, outside

(* A process puts its result into its channel.                             *)
LEMMA FinishInv ==
    ASSUME AgentInv, NEW p \in Proc, Finish(p)
    PROVE  AgentInv'
  <1>1. htask[p] \in Task /\ \A i \in DOMAIN channel[p] : channel[p][i] = "init"
    BY DEF AgentInv, TypeOK, ResultsOfHolders, Finish
  <1>2. TypeOK'
    BY <1>1 DEF AgentInv, TypeOK, Finish, queue, holders, waits, outside, Phase
  <1>3. ResultsOfHolders'
    <2>1. channel' = [channel EXCEPT ![p] = Append(@, htask[p])]
      BY DEF Finish
    <2>2. /\ DOMAIN channel'[p] = 1 .. Len(channel[p]) + 1
          /\ DOMAIN channel[p] = 1 .. Len(channel[p])
          /\ channel'[p][Len(channel[p]) + 1] = htask[p]
          /\ \A i \in DOMAIN channel[p] : channel'[p][i] = channel[p][i]
      BY <2>1 DEF AgentInv, TypeOK
    <2>3. \A i \in DOMAIN channel'[p] : channel'[p][i] # "init" =>
              htask[p] = channel'[p][i] /\ i = Len(channel[p]) + 1
      BY <2>2, <1>1
    <2> QED  BY <2>1, <2>3 DEF AgentInv, TypeOK, ResultsOfHolders, Finish, holders
  <1>4. HoldersAlive'
    BY DEF AgentInv, TypeOK, HoldersAlive, Finish, holders
  <1> QED
    BY <1>2, <1>3, <1>4 DEF AgentInv, SuspendedHolders, Budgets, HeldInProcessing, StoringInProcessing,
       EndedIsAbsent, ForcibleSound, Finish, queue, holders, waits, outside

(* A process dies.                                                         *)
LEMMA DieInv ==
    ASSUME AgentInv, NEW p \in Proc, Die(p)
    PROVE  AgentInv'
  <1>1. TypeOK'
    BY AgentLimitAssumption
       DEF AgentInv, TypeOK, Die, Spend, Bounded, queue, holders, waits, outside, Phase
  <1>2. ResultsOfHolders'
    BY FragileAssumption DEF AgentInv, TypeOK, ResultsOfHolders, Die, holders
  <1>3. Budgets'
    BY DEF AgentInv, TypeOK, Budgets, NoForce, Die, Spend, Bounded
  <1>4. HoldersAlive'
    BY FragileAssumption DEF AgentInv, TypeOK, HoldersAlive, Die, holders
  <1> QED
    BY <1>1, <1>2, <1>3, <1>4 DEF AgentInv, SuspendedHolders, HeldInProcessing,
       StoringInProcessing, EndedIsAbsent, ForcibleSound, Die, queue, holders, waits, outside

(* The task loop waits for the lock.                                       *)
LEMMA WaitInv ==
    ASSUME AgentInv, WaitUntilCanAcceptTask
    PROVE  AgentInv'
  <1>1. TypeOK'
    BY DEF AgentInv, TypeOK, WaitUntilCanAcceptTask, queue, holders, os, outside
  <1> QED
    BY <1>1 DEF AgentInv, ResultsOfHolders, SuspendedHolders, HoldersAlive, Budgets, HeldInProcessing,
       StoringInProcessing, EndedIsAbsent, ForcibleSound, WaitUntilCanAcceptTask,
       queue, holders, os, outside

(* The first processor is started.                                         *)
LEMMA InitializeInv ==
    ASSUME AgentInv, Initialize
    PROVE  AgentInv'
  <1>1. StartNewProcessor(NoProc) /\ current = NoProc
    BY DEF Initialize
  <1>2. /\ current' \in Unused /\ htask' = htask /\ initialized' \subseteq Proc
        /\ process' \in [Proc -> Phase]
        /\ \A p \in Proc : process'[p] = IF p = current' THEN "starting" ELSE process[p]
    BY <1>1, StartType, NoProcFact DEF AgentInv, TypeOK
  <1>3. TypeOK'
    BY <1>2 DEF AgentInv, TypeOK, Initialize, queue, waits, outside, Unused
  <1>4. ResultsOfHolders'
    BY <1>2 DEF AgentInv, TypeOK, ResultsOfHolders, Initialize, Unused
  <1>5. up => HeldInProcessing'
    BY <1>1, <1>2, NoProcFact DEF AgentInv, TypeOK, HeldInProcessing, Initialize
  <1>6. HoldersAlive'
    BY <1>1, <1>2, NoProcFact DEF AgentInv, TypeOK, HoldersAlive, Initialize, Unused
  <1> QED
    BY <1>2, <1>3, <1>4, <1>5, <1>6 DEF AgentInv, SuspendedHolders, Budgets,
       StoringInProcessing, EndedIsAbsent, ForcibleSound, Initialize, queue, waits, outside

(* on_failing_processor takes the task of the holder into storage.         *)
LEMMA FailingInv ==
    ASSUME AgentInv, up, NEW c \in {"heartbeat", "loop"}, NEW p \in Proc,
           OnFailingProcessor(c, p), UNCHANGED <<processing, channel, known>>
    PROVE  /\ current' \in Proc \cup {NoProc} /\ initialized' \subseteq Proc
           /\ suspended' \in [Task -> Proc \cup {NoProc}]
           /\ htask' \in [Proc -> Task \cup {NoTask}]
           /\ process' \in [Proc -> Phase]
           /\ storing' \in [{"heartbeat", "loop"} -> Task \cup {NoTask}]
           /\ \A t \in Task : suspended[t] = NoProc => suspended'[t] = NoProc
           /\ ResultsOfHolders' /\ SuspendedHolders' /\ HoldersAlive'
           /\ HeldInProcessing' /\ StoringInProcessing'
  <1> DEFINE t == htask[p]
  <1>1. TypeOK /\ HeldInProcessing /\ SuspendedHolders /\ StoringInProcessing
    BY DEF AgentInv
  <1>2. /\ suspended' = [u \in Task |-> IF u = t THEN NoProc ELSE suspended[u]]
        /\ storing' = [storing EXCEPT ![c] = t]
        /\ t \in Task \cup {NoTask}
    BY <1>1 DEF OnFailingProcessor, TypeOK
  <1>3. /\ htask' = [q \in Proc |-> IF q = p THEN NoTask ELSE htask[q]]
        /\ htask' \in [Proc -> Task \cup {NoTask}]
        /\ initialized' \subseteq Proc
        /\ process' \in [Proc -> Phase]
        /\ \/ p = current /\ current' \in Unused
           \/ p # current /\ current' = current
        /\ \A q \in Proc : process'[q] = IF q = p THEN "free"
                                         ELSE IF p = current /\ q = current' THEN "starting"
                                         ELSE process[q]
    <2>1. CASE p = current
      <3>1. StartNewProcessor(p)
        BY <2>1 DEF OnFailingProcessor
      <3> QED  BY <2>1, <3>1, <1>1, StartType
    <2>2. CASE p # current
      <3>1. KillProcessor(p) /\ UNCHANGED current
        BY <2>2 DEF OnFailingProcessor
      <3> QED  BY <2>2, <3>1, <1>1, KillType
    <2> QED  BY <2>1, <2>2
  <1>4. current' \in Proc \cup {NoProc}
    BY <1>1, <1>3 DEF TypeOK, Unused
  <1>5. /\ suspended' \in [Task -> Proc \cup {NoProc}]
        /\ storing' \in [{"heartbeat", "loop"} -> Task \cup {NoTask}]
    BY <1>1, <1>2 DEF TypeOK
  <1>6. ResultsOfHolders'
    <2>1. ASSUME NEW q \in Proc
          PROVE  \/ process'[q] = "free"
                 \/ process'[q] = "starting" /\ channel'[q] = <<>>
                 \/ process'[q] = process[q] /\ htask'[q] = htask[q] /\ channel'[q] = channel[q]
      BY <1>3 DEF Unused
    <2> QED  BY <2>1 DEF AgentInv, ResultsOfHolders
  <1>7. SuspendedHolders'
    BY <1>1, <1>2, <1>3, <1>5, NoProcFact, NoTaskAssumption DEF SuspendedHolders, TypeOK
  <1>8. HeldInProcessing'
    BY <1>1, <1>2, <1>3, <1>5, NoProcFact, NoTaskAssumption DEF HeldInProcessing, TypeOK
  <1>9. StoringInProcessing'
    BY <1>1, <1>2, <1>3, <1>5, NoTaskAssumption
       DEF StoringInProcessing, HeldInProcessing, TypeOK
  <1>10. \A u \in Task : suspended[u] = NoProc => suspended'[u] = NoProc
    BY <1>2
  <1>11. HoldersAlive'
    BY <1>1, <1>2, <1>3, <1>5, NoProcFact DEF AgentInv, HoldersAlive, SuspendedHolders, TypeOK, Unused
  <1> QED  BY <1>3, <1>4, <1>5, <1>6, <1>7, <1>8, <1>9, <1>10, <1>11

(* The heartbeat finds a processor dead.                                   *)
LEMMA DetectDeathInv ==
    ASSUME AgentInv, NEW p \in Proc, DetectDeath(p)
    PROVE  AgentInv'
  <1>1. up /\ OnFailingProcessor("heartbeat", p) /\ UNCHANGED <<processing, channel, known>>
    BY DEF DetectDeath, outside
  <1>2. /\ TypeOK'
        /\ ResultsOfHolders' /\ SuspendedHolders' /\ HoldersAlive' /\ HeldInProcessing' /\ StoringInProcessing'
        /\ \A t \in Task : suspended[t] = NoProc => suspended'[t] = NoProc
    BY <1>1, FailingInv DEF AgentInv, TypeOK, DetectDeath, queue, outside
  <1> QED
    BY <1>2, ForcibleAssumption
       DEF AgentInv, Budgets, EndedIsAbsent, ForcibleSound, DetectDeath, queue, outside

(* on_task_result of the task manager: the task is gone, and a result sent. *)
LEMMA ResultType ==
    ASSUME TypeOK, NEW t \in Task, TaskManagerResult(t)
    PROVE  /\ entries' \in Seq(EntrySet)
           /\ payload' = payload \ {t}
           /\ processing' = processing \ {t}
           /\ sent' = Append(sent, [kind |-> "result", task |-> t])
           /\ sent' \in Seq([kind : {"result", "canceled", "cancelFailed", "cancelNotFound"},
                             task : Task])
           /\ sent' # sent /\ sent'[Len(sent')].task = t
  <1>1. entries' \in Seq(EntrySet) /\ payload' = payload \ {t}
    BY RemoveType DEF TaskManagerResult, TypeOK, EntrySet, queue
  <1>2. sent' = Append(sent, [kind |-> "result", task |-> t])
    BY DEF TaskManagerResult, Send
  <1>3. /\ sent' \in Seq([kind : {"result", "canceled", "cancelFailed", "cancelNotFound"},
                           task : Task])
        /\ Len(sent') = Len(sent) + 1 /\ sent'[Len(sent')] = [kind |-> "result", task |-> t]
    BY <1>2 DEF TypeOK
  <1>4. sent' # sent
    BY <1>3 DEF TypeOK
  <1> QED  BY <1>1, <1>2, <1>3, <1>4 DEF TaskManagerResult

(* The exception ends the agent, and leaves what is typed typed.           *)
LEMMA RaiseInv ==
    ASSUME AgentInv, Raise, UNCHANGED budget, known' = known,
           \/ channel' = channel
           \/ \E p \in Proc : channel[p] # <<>> /\ channel' = [channel EXCEPT ![p] = Tail(@)]
    PROVE  AgentInv'
  <1>1. channel' \in [Proc -> Seq(Task \cup {"init"})]
    <2>1. channel \in [Proc -> Seq(Task \cup {"init"})]
      BY DEF AgentInv, TypeOK
    <2>2. ASSUME NEW p \in Proc, channel[p] # <<>>,
                 channel' = [channel EXCEPT ![p] = Tail(@)]
          PROVE  channel' \in [Proc -> Seq(Task \cup {"init"})]
      <3>1. Tail(channel[p]) \in Seq(Task \cup {"init"})
        BY <2>1, <2>2
      <3> QED  BY <2>1, <2>2, <3>1
    <2> QED  BY <2>1, <2>2
  <1>2. ResultsOfHolders'
    <2>1. CASE channel' = channel
      BY <2>1 DEF AgentInv, ResultsOfHolders, Raise, holders
    <2>2. ASSUME NEW p \in Proc, channel[p] # <<>>,
                 channel' = [channel EXCEPT ![p] = Tail(@)]
          PROVE  ResultsOfHolders'
      <3>1. \A i \in DOMAIN channel'[p] :
               i + 1 \in DOMAIN channel[p] /\ channel'[p][i] = channel[p][i + 1]
        BY <2>2 DEF AgentInv, TypeOK
      <3>2. \A q \in Proc : q # p => channel'[q] = channel[q]
        BY <2>2 DEF AgentInv, TypeOK
      <3>3. \A i \in DOMAIN channel'[p] : i \in Int
        BY <1>1
      <3>4. htask' = htask /\ process' = process
        BY DEF Raise, holders
      <3> QED  BY <3>1, <3>2, <3>3, <3>4 DEF AgentInv, ResultsOfHolders
    <2> QED  BY <2>1, <2>2
  <1>3. TypeOK'
    BY <1>1 DEF AgentInv, TypeOK, Raise, queue, holders, waits
  <1>4. HoldersAlive'
    BY DEF AgentInv, TypeOK, HoldersAlive, Raise, holders
  <1> QED  BY <1>2, <1>3, <1>4 DEF AgentInv, SuspendedHolders, Budgets, Raise, holders

(* A failure is reported once it is stored, or ends the agent.             *)
LEMMA FailureStoredInv ==
    ASSUME AgentInv, NEW c \in {"heartbeat", "loop"}, FailureStored(c)
    PROVE  AgentInv'
  <1> DEFINE t == storing[c]
  <1>1. TypeOK /\ up /\ HeldInProcessing /\ StoringInProcessing /\ EndedIsAbsent /\ ForcibleSound
    BY DEF AgentInv, FailureStored
  <1>2. t \in Task
    BY <1>1 DEF TypeOK, FailureStored
  <1>3. CASE t \notin processing \/ (c = "loop" /\ ~ locked)
    <2>1. Raise /\ UNCHANGED <<channel, budget>> /\ Ended
      BY <1>3 DEF FailureStored
    <2>2. known' = known
      BY <2>1, <1>1 DEF Ended, Raise, TypeOK
    <2> QED  BY <2>1, <2>2, RaiseInv
  <1>4. CASE ~ (t \notin processing \/ (c = "loop" /\ ~ locked))
    <2>1. /\ TaskManagerResult(t)
          /\ storing' = [storing EXCEPT ![c] = NoTask]
          /\ locked' = IF c = "loop" THEN FALSE ELSE locked
          /\ looping' = IF c = "loop" THEN "lock" ELSE looping
          /\ UNCHANGED <<up, holders, process, channel, budget>>
          /\ Ended
      BY <1>4 DEF FailureStored
    <2>2. known' = [known EXCEPT ![t] = "ended"]
      BY <2>1, <1>1, <1>2, ResultType DEF Ended, TypeOK
    <2>3. TypeOK'
      BY <2>1, <2>2, <1>1, <1>2, ResultType DEF TypeOK, holders, EntrySet
    <2>4. processing' = processing \ {t} /\ payload' = payload \ {t}
      BY <2>1, <1>1, <1>2, ResultType
    <2>5. \A p \in Proc : htask[p] # t
      BY <1>1, <1>2, NoTaskAssumption DEF StoringInProcessing, TypeOK
    <2>6. HeldInProcessing'
      BY <2>1, <2>4, <2>5, <1>1 DEF HeldInProcessing, holders
    <2>7. StoringInProcessing'
      BY <2>1, <2>2, <2>4, <1>1, <1>2 DEF StoringInProcessing, TypeOK, holders
    <2>8. EndedIsAbsent' /\ ForcibleSound'
      BY <2>1, <2>2, <2>4, <1>1, <1>2, ForcibleAssumption
         DEF EndedIsAbsent, ForcibleSound, TypeOK, holders
    <2> QED
      BY <2>1, <2>3, <2>6, <2>7, <2>8
         DEF AgentInv, ResultsOfHolders, SuspendedHolders, HoldersAlive, Budgets, holders
  <1> QED  BY <1>3, <1>4

(* A task arrives, and may suspend the one that is running.                *)
LEMMA ReceiveTaskInv ==
    ASSUME AgentInv, ForceIsSafe, NEW t \in Task, ReceiveTask(t)
    PROVE  AgentInv'
  <1>1. TypeOK /\ up /\ HeldInProcessing /\ StoringInProcessing /\ EndedIsAbsent /\ ForcibleSound
        /\ SuspendedHolders /\ HoldersAlive /\ Budgets /\ ResultsOfHolders
    BY DEF AgentInv, ReceiveTask
  <1>2. /\ known[t] \in {"new", "returned"} \/ (known[t] = "held" /\ NoForce)
        /\ known' = [known EXCEPT ![t] = "held"]
        /\ UNCHANGED <<up, processing, locked, looping, storing, channel, sent>>
    BY <1>1 DEF ReceiveTask, OnTaskNew, Spend, Budgets, waits
  <1>3. budget' \in [Bounded -> Nat] /\ Budgets'
    BY <1>1 DEF ReceiveTask, TypeOK, Spend, Bounded, Budgets, NoForce
  <1>4. ~ NoForce => t \notin processing /\ t \notin payload
    BY <1>1, <1>2 DEF ForcibleSound
  <1>5. CASE CurrentTask = NoTask \/ Priority[t] <= Priority[CurrentTask]
    <2>1. /\ entries' = Append(entries, Entry(t, FALSE))
          /\ payload' = payload \cup {t}
          /\ UNCHANGED <<holders, process>>
      BY <1>5 DEF ReceiveTask, OnTaskNew
    <2>2. TypeOK'
      BY <1>1, <1>2, <1>3, <2>1 DEF TypeOK, holders, Entry
    <2>3. StoringInProcessing' /\ EndedIsAbsent' /\ ForcibleSound'
      BY <1>1, <1>2, <1>4, <2>1, ForcibleAssumption
         DEF StoringInProcessing, EndedIsAbsent, ForcibleSound, TypeOK, holders
    <2> QED
      BY <1>1, <1>2, <1>3, <2>1, <2>2, <2>3
         DEF AgentInv, ResultsOfHolders, SuspendedHolders, HoldersAlive, HeldInProcessing, holders
  <1>6. CASE ~ (CurrentTask = NoTask \/ Priority[t] <= Priority[CurrentTask])
    <2> DEFINE u == CurrentTask
    <2>1. /\ entries' = entries \o <<Entry(t, FALSE), Entry(u, TRUE)>>
          /\ payload' = payload \cup {t, u}
          /\ suspended' = [suspended EXCEPT ![u] = current]
          /\ StartNewProcessor(NoProc)
      BY <1>6 DEF ReceiveTask, OnTaskNew, OnSuspendTask
    <2>2. /\ current' \in Unused /\ htask' = htask /\ initialized' \subseteq Proc
          /\ process' \in [Proc -> Phase]
          /\ \A p \in Proc : process'[p] = IF p = current' THEN "starting" ELSE process[p]
      BY <2>1, <1>1, StartType, NoProcFact DEF TypeOK
    <2>3. current \in Proc /\ u = htask[current] /\ u \in Task /\ u \in processing
      BY <1>1, <1>6 DEF CurrentTask, TypeOK, HeldInProcessing
    <2>4. TypeOK'
      <3>1. Entry(t, FALSE) \in EntrySet /\ Entry(u, TRUE) \in EntrySet
        BY <2>3 DEF Entry, EntrySet
      <3>2. entries \in Seq(EntrySet)
        BY <1>1 DEF TypeOK, EntrySet
      <3>3. entries' \in Seq(EntrySet)
        BY <3>1, <3>2, <2>1, AppendTwoType
      <3> QED  BY <1>1, <1>2, <1>3, <2>1, <2>2, <2>3, <3>3 DEF TypeOK, EntrySet, Unused
    <2>5. ResultsOfHolders'
      BY <1>1, <1>2, <2>2 DEF ResultsOfHolders, Unused
    <2>6. SuspendedHolders' /\ HeldInProcessing'
      BY <1>1, <1>2, <2>1, <2>2, <2>3 DEF SuspendedHolders, HeldInProcessing, TypeOK
    <2>7. StoringInProcessing' /\ EndedIsAbsent'
      BY <1>1, <1>2, <2>1, <2>2, <2>3 DEF StoringInProcessing, EndedIsAbsent, TypeOK
    <2>8. ~ NoForce => u \notin Forcible
      BY <1>6, <2>3, PriorityAssumption DEF ForceIsSafe, NoForce
    <2>9. ForcibleSound'
      BY <1>1, <1>2, <1>4, <2>1, <2>3, <2>8, ForcibleAssumption DEF ForcibleSound, TypeOK
    <2>10. HoldersAlive'
      BY <1>1, <1>2, <2>1, <2>2, <2>3, NoProcFact DEF HoldersAlive, TypeOK, Unused
    <2> QED  BY <1>3, <2>4, <2>5, <2>6, <2>7, <2>9, <2>10 DEF AgentInv
  <1> QED  BY <1>5, <1>6

(* on_cancel_task: the answer, and what becomes of the task.               *)
LEMMA ReceiveCancelInv ==
    ASSUME AgentInv, ForceIsSafe, NEW t \in Task, NEW force \in BOOLEAN, ReceiveCancel(t, force)
    PROVE  AgentInv'
  <1>1. TypeOK /\ up /\ HeldInProcessing /\ StoringInProcessing /\ EndedIsAbsent /\ ForcibleSound
        /\ SuspendedHolders /\ HoldersAlive /\ Budgets /\ ResultsOfHolders
    BY DEF AgentInv, ReceiveCancel
  <1>2. /\ force => t \in Forcible /\ ~ NoForce
        /\ UNCHANGED <<up, locked, looping, storing, channel>>
    BY <1>1 DEF ReceiveCancel, OnCancelTask, Spend, Budgets, waits, TypeOK, Bounded
  <1>3. budget' \in [Bounded -> Nat] /\ Budgets'
    BY <1>1 DEF ReceiveCancel, TypeOK, Spend, Bounded, Budgets, NoForce
  <1>4. ASSUME NEW k \in {"canceled", "cancelFailed", "cancelNotFound"}, Send(k, t)
        PROVE  /\ sent' \in Seq([kind : {"result", "canceled", "cancelFailed", "cancelNotFound"},
                                 task : Task])
               /\ known' = IF k = "canceled"
                           THEN [known EXCEPT ![t] = IF force THEN "ended" ELSE "returned"]
                           ELSE known
               /\ known' \in [Task -> {"new", "held", "returned", "ended"}]
    <2>1. /\ sent' \in Seq([kind : {"result", "canceled", "cancelFailed", "cancelNotFound"},
                            task : Task])
          /\ sent'[Len(sent')].kind = k
      BY <1>1, <1>4 DEF TypeOK, Send
    <2> QED  BY <1>1, <2>1 DEF ReceiveCancel, TypeOK
  <1>5. CASE t \notin processing /\ t \notin payload
    <2>1. Send("cancelNotFound", t) /\ UNCHANGED <<queue, processing, holders, process>>
      BY <1>5, <1>1 DEF ReceiveCancel, OnCancelTask
    <2>2. TypeOK' /\ known' = known
      BY <1>1, <1>2, <1>3, <1>4, <2>1 DEF TypeOK, queue, holders
    <2> QED
      BY <1>1, <1>2, <1>3, <2>1, <2>2 DEF AgentInv, ResultsOfHolders, SuspendedHolders, HoldersAlive,
         HeldInProcessing, StoringInProcessing, EndedIsAbsent, ForcibleSound, queue, holders
  <1>6. CASE t \in processing /\ ~ force
    <2>1. Send("cancelFailed", t) /\ UNCHANGED <<queue, processing, holders, process>>
      BY <1>6, <1>1 DEF ReceiveCancel, OnCancelTask
    <2>2. TypeOK' /\ known' = known
      BY <1>1, <1>2, <1>3, <1>4, <2>1 DEF TypeOK, queue, holders
    <2> QED
      BY <1>1, <1>2, <1>3, <2>1, <2>2 DEF AgentInv, ResultsOfHolders, SuspendedHolders, HoldersAlive,
         HeldInProcessing, StoringInProcessing, EndedIsAbsent, ForcibleSound, queue, holders
  <1>7. CASE t \in processing /\ force
    <2>1. /\ processing' = processing \ {t}
          /\ OnCancelProcessing(t)
          /\ Send("canceled", t)
          /\ UNCHANGED queue
      BY <1>7, <1>1 DEF ReceiveCancel, OnCancelTask
    <2>2. known' = [known EXCEPT ![t] = "ended"]
      BY <1>4, <1>7, <2>1
    <2>3. ~ NoForce /\ t \in Forcible /\ suspended[t] = NoProc /\ t \notin payload
      BY <1>1, <1>2, <1>7 DEF ForcibleSound
    <2>4. /\ suspended' = suspended
          /\ current' \in Proc \cup {NoProc} /\ initialized' \subseteq Proc
          /\ htask' \in [Proc -> Task \cup {NoTask}]
          /\ process' \in [Proc -> Phase]
          /\ ResultsOfHolders'
          /\ \A p \in Proc : \/ htask'[p] = NoTask
                             \/ htask'[p] = htask[p] /\ htask[p] # t /\ (p = current => current' = p)
          /\ SuspendedHolders' /\ HoldersAlive'
      <3>1. CASE CurrentTask = t
        <4>1. StartNewProcessor(current) /\ UNCHANGED suspended
          BY <2>1, <3>1 DEF OnCancelProcessing
        <4>2. current \in Proc /\ htask[current] = t
          BY <3>1, <1>1, NoTaskAssumption DEF CurrentTask, TypeOK
        <4>3. /\ current' \in Unused
              /\ initialized' \subseteq Proc
              /\ htask' = [p \in Proc |-> IF p = current THEN NoTask ELSE htask[p]]
              /\ htask' \in [Proc -> Task \cup {NoTask}]
              /\ \A p \in Proc : process'[p] = IF p = current THEN "free"
                                               ELSE IF p = current' THEN "starting"
                                               ELSE process[p]
              /\ process' \in [Proc -> Phase]
          BY <4>1, <1>1, StartType
        <4>4. ResultsOfHolders'
          BY <1>1, <1>2, <4>3 DEF ResultsOfHolders, Unused
        <4>5. SuspendedHolders'
          BY <1>1, <2>3, <4>1, <4>2, <4>3 DEF SuspendedHolders, TypeOK
        <4>6. \A p \in Proc : p # current => htask[p] # t
          BY <1>1, <4>2, NoTaskAssumption DEF HeldInProcessing
        <4>7. HoldersAlive'
          BY <1>1, <1>2, <4>1, <4>2, <4>3, NoProcFact DEF HoldersAlive, TypeOK, Unused
        <4> QED  BY <4>1, <4>2, <4>3, <4>4, <4>5, <4>6, <4>7 DEF Unused
      <3>2. CASE CurrentTask # t
        <4>1. UNCHANGED <<holders, process>>
          BY <2>1, <2>3, <3>2 DEF OnCancelProcessing
        <4>2. \A p \in Proc : htask[p] # t
          BY <1>1, <2>3, <3>2, NoProcFact, NoTaskAssumption DEF HeldInProcessing, CurrentTask
        <4> QED
          BY <1>1, <1>2, <4>1, <4>2 DEF holders, TypeOK, ResultsOfHolders,
             SuspendedHolders, HoldersAlive
      <3> QED  BY <3>1, <3>2
    <2>5. TypeOK'
      BY <1>1, <1>2, <1>3, <1>4, <2>1, <2>4 DEF TypeOK, queue
    <2>6. HeldInProcessing'
      BY <1>1, <2>1, <2>4 DEF HeldInProcessing, TypeOK
    <2>7. StoringInProcessing' /\ EndedIsAbsent' /\ ForcibleSound'
      BY <1>1, <1>2, <2>1, <2>2, <2>3, <2>4, ForcibleAssumption
         DEF StoringInProcessing, EndedIsAbsent, ForcibleSound, TypeOK, queue
    <2> QED  BY <1>3, <2>4, <2>5, <2>6, <2>7 DEF AgentInv
  <1>8. CASE t \notin processing /\ t \in payload
    <2>1. /\ Remove(t) /\ Send("canceled", t)
          /\ UNCHANGED <<processing, holders, process>>
      BY <1>8 DEF ReceiveCancel, OnCancelTask
    <2>2. known' = [known EXCEPT ![t] = IF force THEN "ended" ELSE "returned"]
      BY <1>4, <2>1
    <2>3. entries' \in Seq(EntrySet) /\ payload' = payload \ {t}
      BY <1>1, <2>1, RemoveType
    <2>4. TypeOK'
      BY <1>1, <1>2, <1>3, <1>4, <2>1, <2>3 DEF TypeOK, holders, EntrySet
    <2>5. known[t] # "ended"
      BY <1>1, <1>8 DEF EndedIsAbsent
    <2>6. StoringInProcessing' /\ EndedIsAbsent' /\ ForcibleSound'
      BY <1>1, <1>2, <1>8, <2>1, <2>2, <2>3, <2>5, ForcibleAssumption
         DEF StoringInProcessing, EndedIsAbsent, ForcibleSound, TypeOK, holders
    <2> QED
      BY <1>1, <1>2, <1>3, <2>1, <2>4, <2>6
         DEF AgentInv, ResultsOfHolders, SuspendedHolders, HoldersAlive, HeldInProcessing, holders
  <1> QED  BY <1>5, <1>6, <1>7, <1>8

(* A message leaves a channel.                                             *)
LEMMA ReceivedChannel ==
    ASSUME TypeOK, ResultsOfHolders, NEW p \in Proc, channel[p] # <<>>,
           channel' = [channel EXCEPT ![p] = Tail(@)]
    PROVE  /\ channel' \in [Proc -> Seq(Task \cup {"init"})]
           /\ Head(channel[p]) \in Task \cup {"init"}
           /\ \A q \in Proc : q # p => channel'[q] = channel[q]
           /\ \A i \in DOMAIN channel'[p] :
                 i \in Int /\ i + 1 \in DOMAIN channel[p] /\ channel'[p][i] = channel[p][i + 1]
           /\ Head(channel[p]) # "init" /\ process[p] # "free" =>
                 /\ htask[p] = Head(channel[p]) /\ process[p] \in {"idle", "dead"}
                 /\ \A i \in DOMAIN channel'[p] : channel'[p][i] = "init"
  <1>1. channel[p] \in Seq(Task \cup {"init"})
    BY DEF TypeOK
  <1>2. /\ Tail(channel[p]) \in Seq(Task \cup {"init"})
        /\ Head(channel[p]) \in Task \cup {"init"}
        /\ 1 \in DOMAIN channel[p] /\ Head(channel[p]) = channel[p][1]
        /\ \A i \in DOMAIN Tail(channel[p]) :
              i \in Int /\ i >= 1 /\ i + 1 \in DOMAIN channel[p] /\ Tail(channel[p])[i] = channel[p][i + 1]
    BY <1>1
  <1>3. channel'[p] = Tail(channel[p]) /\ \A q \in Proc : q # p => channel'[q] = channel[q]
    BY DEF TypeOK
  <1>4. ASSUME Head(channel[p]) # "init", process[p] # "free"
        PROVE  /\ htask[p] = Head(channel[p]) /\ process[p] \in {"idle", "dead"}
               /\ \A i \in DOMAIN channel'[p] : channel'[p][i] = "init"
    <2>1. /\ htask[p] = channel[p][1] /\ process[p] \in {"idle", "dead"}
          /\ \A j \in DOMAIN channel[p] : channel[p][j] # "init" => 1 = j
      BY <1>2, <1>4 DEF ResultsOfHolders
    <2>2. ASSUME NEW i \in DOMAIN channel'[p]
          PROVE  channel'[p][i] = "init"
      <3>1. i \in Int /\ i >= 1 /\ i + 1 \in DOMAIN channel[p] /\ channel'[p][i] = channel[p][i + 1]
        BY <1>2, <1>3
      <3>2. i + 1 # 1
        BY <3>1
      <3> QED  BY <2>1, <3>1, <3>2
    <2> QED  BY <2>1, <2>2, <1>2
  <1>5. channel' \in [Proc -> Seq(Task \cup {"init"})]
    BY <1>2 DEF TypeOK
  <1> QED  BY <1>2, <1>3, <1>4, <1>5

(* ProcessorInitialized and TaskResult.                                    *)
LEMMA ReceiveFromProcessorInv ==
    ASSUME AgentInv, NEW p \in Proc, ReceiveFromProcessor(p)
    PROVE  AgentInv'
  <1> DEFINE m == Head(channel[p])
  <1>1. TypeOK /\ up /\ HeldInProcessing /\ StoringInProcessing /\ EndedIsAbsent /\ ForcibleSound
        /\ SuspendedHolders /\ HoldersAlive /\ Budgets /\ ResultsOfHolders
    BY DEF AgentInv, ReceiveFromProcessor
  <1>2. /\ channel[p] # <<>> /\ channel' = [channel EXCEPT ![p] = Tail(@)]
        /\ Ended /\ UNCHANGED budget
        /\ IF m = "init" THEN OnProcessorInitialized(p) ELSE OnTaskResult(p, m)
    BY DEF ReceiveFromProcessor
  <1>3. /\ channel' \in [Proc -> Seq(Task \cup {"init"})]
        /\ m \in Task \cup {"init"}
        /\ \A q \in Proc : q # p => channel'[q] = channel[q]
        /\ \A i \in DOMAIN channel'[p] :
              i \in Int /\ i + 1 \in DOMAIN channel[p] /\ channel'[p][i] = channel[p][i + 1]
        /\ m # "init" /\ process[p] # "free" =>
              /\ htask[p] = m /\ process[p] \in {"idle", "dead"}
              /\ \A i \in DOMAIN channel'[p] : channel'[p][i] = "init"
    BY <1>1, <1>2, ReceivedChannel
  <1>4. sent' = sent => known' = known
    BY <1>1, <1>2 DEF Ended, TypeOK
  <1>5. CASE UNCHANGED <<up, queue, processing, current, suspended, htask, storing, process, sent>>
             /\ initialized' \subseteq Proc /\ locked' \in BOOLEAN /\ UNCHANGED looping
    <2>1. TypeOK'
      BY <1>1, <1>2, <1>3, <1>4, <1>5 DEF TypeOK, queue
    <2>2. ResultsOfHolders'
      BY <1>1, <1>3, <1>5 DEF ResultsOfHolders
    <2>3. HoldersAlive'
      BY <1>1, <1>2, <1>3, <1>5 DEF HoldersAlive
    <2> QED
      BY <1>1, <1>2, <1>4, <1>5, <2>1, <2>2, <2>3 DEF AgentInv, SuspendedHolders, Budgets,
         HeldInProcessing, StoringInProcessing, EndedIsAbsent, ForcibleSound, queue
  <1>6. CASE Raise
    <2>1. known' = known
      BY <1>4, <1>6 DEF Raise
    <2> QED  BY <1>2, <1>6, <2>1, RaiseInv
  <1>7. CASE m = "init"
    <2>1. OnProcessorInitialized(p)
      BY <1>2, <1>7
    <2>2. CASE current \in initialized
      BY <2>1, <2>2, <1>1, <1>5 DEF OnProcessorInitialized, holders, waits, TypeOK
    <2>3. CASE current \notin initialized /\ ~ locked
      BY <2>1, <2>3, <1>6 DEF OnProcessorInitialized
    <2>4. CASE current \notin initialized /\ locked
      <3>1. current # NoProc
        BY <1>1, <1>2 DEF HoldersAlive
      <3> QED  BY <3>1, <2>1, <2>4, <1>1, <1>5 DEF OnProcessorInitialized, holders, waits, TypeOK
    <2> QED  BY <2>2, <2>3, <2>4
  <1>8. ASSUME m # "init", TaskManagerResult(m), m \in processing,
               UNCHANGED <<up, current, storing, looping>>, locked' \in BOOLEAN,
               initialized' \subseteq Proc,
               htask' \in [Proc -> Task \cup {NoTask}],
               suspended' = [suspended EXCEPT ![m] = NoProc],
               \A q \in Proc : q # p => htask'[q] = htask[q] /\ process'[q] = process[q],
               htask[p] = m, htask'[p] = NoTask, process'[p] \in {process[p], "free"},
               process' \in [Proc -> Phase], p = current => process'[p] = process[p]
        PROVE  AgentInv'
    <2>1. m \in Task
      BY <1>3, <1>8
    <2>2. known' = [known EXCEPT ![m] = "ended"]
      BY <1>1, <1>2, <1>8, <2>1, ResultType DEF Ended, TypeOK
    <2>4. processing' = processing \ {m} /\ payload' = payload \ {m}
          /\ entries' \in Seq(EntrySet)
          /\ sent' \in Seq([kind : {"result", "canceled", "cancelFailed", "cancelNotFound"},
                             task : Task])
      BY <1>1, <1>8, <2>1, ResultType
    <2>3. TypeOK'
      BY <1>1, <1>2, <1>3, <1>8, <2>1, <2>2, <2>4 DEF TypeOK, EntrySet
    <2>5. ResultsOfHolders'
      <3>1. ASSUME NEW i \in DOMAIN channel'[p], channel'[p][i] # "init"
            PROVE  process'[p] = "free"
        BY <1>3, <1>8, <3>1
      <3>2. process'[p] # "busy"
        BY <1>3, <1>8
      <3>3. \A q \in Proc : q # p =>
               htask'[q] = htask[q] /\ process'[q] = process[q] /\ channel'[q] = channel[q]
        BY <1>3, <1>8
      <3> QED  BY <1>1, <3>1, <3>2, <3>3 DEF ResultsOfHolders
    <2>6. \A q \in Proc : q # p => htask[q] # m
      BY <1>1, <1>8, <2>1, NoTaskAssumption DEF HeldInProcessing
    <2>7. SuspendedHolders'
      BY <1>1, <1>8, <2>1, NoProcFact, NoTaskAssumption DEF SuspendedHolders, TypeOK
    <2>8. HeldInProcessing'
      BY <1>1, <1>8, <2>1, <2>4, <2>6 DEF HeldInProcessing, TypeOK
    <2>9. StoringInProcessing'
      BY <1>1, <1>8, <2>1, <2>2, <2>4, NoTaskAssumption DEF StoringInProcessing, TypeOK
    <2>10. EndedIsAbsent' /\ ForcibleSound'
      BY <1>1, <1>8, <2>1, <2>2, <2>4, ForcibleAssumption
         DEF EndedIsAbsent, ForcibleSound, TypeOK
    <2>11. HoldersAlive'
      <3>1. current # NoProc
        BY <1>1, <1>2 DEF HoldersAlive
      <3>2. \A u \in Task : suspended'[u] # NoProc => suspended'[u] = suspended[u] /\ suspended[u] # p
        BY <1>1, <1>8, <2>1 DEF SuspendedHolders, TypeOK
      <3> QED  BY <1>1, <1>8, <3>1, <3>2, NoProcFact DEF HoldersAlive, TypeOK
    <2> QED  BY <1>1, <1>2, <2>3, <2>5, <2>7, <2>8, <2>9, <2>10, <2>11 DEF AgentInv, Budgets
  <1>9. CASE m # "init"
    <2>1. OnTaskResult(p, m) /\ m \in Task
      BY <1>2, <1>3, <1>9
    <2>2. CASE CurrentTask = m
      <3>1. CASE current # p \/ ~ locked \/ m \notin processing
        BY <2>1, <2>2, <3>1, <1>6 DEF OnTaskResult
      <3>2. CASE ~ (current # p \/ ~ locked \/ m \notin processing)
        <4>1. /\ htask' = [htask EXCEPT ![current] = NoTask]
              /\ TaskManagerResult(m)
              /\ locked' = FALSE
              /\ UNCHANGED <<up, current, suspended, initialized, looping, storing, process>>
          BY <2>1, <2>2, <3>2 DEF OnTaskResult
        <4>2. htask[p] = m
          BY <2>1, <2>2, <3>2, NoTaskAssumption DEF CurrentTask
        <4>3. suspended[m] = NoProc
          BY <1>1, <2>1, <3>2, <4>2, NoTaskAssumption
             DEF HoldersAlive, SuspendedHolders, HeldInProcessing, TypeOK
        <4> QED  BY <1>1, <1>8, <1>9, <3>2, <4>1, <4>2, <4>3 DEF TypeOK
      <3> QED  BY <3>1, <3>2
    <2>3. CASE CurrentTask # m /\ suspended[m] # NoProc
      <3>1. CASE suspended[m] # p \/ m \notin processing
        BY <2>1, <2>3, <3>1, <1>6 DEF OnTaskResult
      <3>2. CASE suspended[m] = p /\ m \in processing
        <4>1. /\ KillProcessor(p)
              /\ suspended' = [suspended EXCEPT ![m] = NoProc]
              /\ TaskManagerResult(m)
              /\ UNCHANGED <<up, current, waits>>
          BY <2>1, <2>3, <3>2 DEF OnTaskResult
        <4>2. htask[p] = m
          BY <1>1, <2>1, <2>3, <3>2 DEF SuspendedHolders
        <4> QED  BY <1>1, <1>8, <1>9, <3>2, <4>1, <4>2, KillType DEF TypeOK, waits, HoldersAlive
      <3> QED  BY <3>1, <3>2
    <2>4. CASE CurrentTask # m /\ suspended[m] = NoProc
      BY <1>1, <1>5, <2>1, <2>4 DEF OnTaskResult, holders, waits, TypeOK
    <2> QED  BY <2>2, <2>3, <2>4
  <1> QED  BY <1>7, <1>9

(* The task loop takes the head of the queue and starts or resumes it.     *)
LEMMA TakeTaskInv ==
    ASSUME AgentInv, TakeTask
    PROVE  AgentInv'
  <1>1. TypeOK /\ up /\ HeldInProcessing /\ StoringInProcessing /\ EndedIsAbsent /\ ForcibleSound
        /\ SuspendedHolders /\ HoldersAlive /\ Budgets /\ ResultsOfHolders
    BY DEF AgentInv, TakeTask
  <1>2. UNCHANGED <<channel, known, budget>>
    BY DEF TakeTask
  <1>3. PICK i \in DOMAIN entries :
          IF \/ entries[i].task \notin payload \/ ~ Ready
             \/ entries[i].task \notin processing /\ CurrentTask # NoTask
          THEN Raise
          ELSE /\ entries' = Drop(entries, i)
               /\ payload' = payload \ {entries[i].task}
               /\ IF entries[i].task \in processing THEN OnResumeTask(entries[i].task)
                                                    ELSE OnTask(entries[i].task)
               /\ UNCHANGED <<up, sent>>
    BY DEF TakeTask
  <1> DEFINE t == entries[i].task
             s == suspended[t]
  <1>e. entries \in Seq(EntrySet)
    BY <1>1 DEF TypeOK, EntrySet
  <1>4. t \in Task
    <2>1. entries[i] \in EntrySet
      BY <1>e
    <2> QED  BY <2>1 DEF EntrySet
  <1> HIDE DEF t
  <1>5. CASE t \notin payload \/ ~ Ready \/ (t \notin processing /\ CurrentTask # NoTask)
    BY <1>2, <1>3, <1>5, RaiseInv DEF t
  <1>6. CASE ~ (t \notin payload \/ ~ Ready \/ (t \notin processing /\ CurrentTask # NoTask))
    <2>1. /\ payload' = payload \ {t}
          /\ UNCHANGED <<up, sent>>
          /\ IF t \in processing THEN OnResumeTask(t) ELSE OnTask(t)
      BY <1>3, <1>6 DEF t
    <2>2. entries' \in Seq(EntrySet)
      <3>1. entries' = Drop(entries, i)
        BY <1>3, <1>6 DEF t
      <3> QED  BY <3>1, <1>e, DropType
    <2>3. current \in initialized /\ current \in Proc /\ current # NoProc
      BY <1>1, <1>6, NoProcFact DEF Ready, TypeOK
    <2>4. CASE t \notin processing
      <3>1. /\ processing' = processing \cup {t}
            /\ htask' = [htask EXCEPT ![current] = t]
            /\ process' = IF process[current] = "idle" THEN [process EXCEPT ![current] = "busy"]
                                                       ELSE process
            /\ looping' = "lock"
            /\ UNCHANGED <<current, suspended, initialized, locked, storing>>
        BY <2>1, <2>4 DEF OnTask
      <3>2. htask[current] = NoTask
        BY <1>6, <2>3, <2>4 DEF CurrentTask
      <3>3. TypeOK'
        BY <1>1, <1>2, <1>4, <2>1, <2>2, <2>3, <3>1 DEF TypeOK, Phase, EntrySet
      <3>4. ResultsOfHolders'
        <4>1. process[current] # "free" => \A j \in DOMAIN channel[current] : channel[current][j] = "init"
          BY <1>1, <2>3, <3>2, NoTaskAssumption DEF ResultsOfHolders, TypeOK
        <4>2. process[current] # "free" /\ process[current] # "busy"
          BY <1>1, <2>3, <3>2 DEF HoldersAlive, ResultsOfHolders
        <4> QED
          BY <1>1, <1>2, <1>4, <2>3, <3>1, <4>1, <4>2, NoTaskAssumption DEF ResultsOfHolders, TypeOK
      <3>5. SuspendedHolders' /\ HoldersAlive'
        BY <1>1, <1>2, <2>3, <3>1, <3>2 DEF SuspendedHolders, HoldersAlive, TypeOK
      <3>6. HeldInProcessing'
        BY <1>1, <1>4, <2>3, <2>4, <3>1, <3>2, NoTaskAssumption DEF HeldInProcessing, TypeOK
      <3>7. t \in payload /\ known[t] # "ended"
        BY <1>1, <1>4, <1>6 DEF EndedIsAbsent
      <3>8. StoringInProcessing'
        BY <1>1, <1>2, <1>4, <2>3, <2>4, <3>1, <3>7 DEF StoringInProcessing, TypeOK
      <3>9. EndedIsAbsent' /\ ForcibleSound'
        BY <1>1, <1>2, <1>4, <2>1, <3>1, <3>7, ForcibleAssumption
           DEF EndedIsAbsent, ForcibleSound, TypeOK
      <3> QED  BY <1>1, <1>2, <3>3, <3>4, <3>5, <3>6, <3>8, <3>9 DEF AgentInv, Budgets
    <2>5. CASE t \in processing
      <3>1. OnResumeTask(t) /\ UNCHANGED processing
        BY <2>1, <2>5 DEF OnResumeTask
      <3>2. EndedIsAbsent'
        BY <1>1, <1>2, <2>1, <3>1 DEF EndedIsAbsent
      <3>3. CASE CurrentTask # NoTask \/ s = NoProc
        <4>1. looping' = "lock" /\ UNCHANGED <<holders, process, locked, storing>>
          BY <3>1, <3>3 DEF OnResumeTask
        <4>2. TypeOK'
          BY <1>1, <1>2, <2>1, <2>2, <3>1, <4>1 DEF TypeOK, EntrySet, holders
        <4> QED
          BY <1>1, <1>2, <2>1, <3>1, <3>2, <4>1, <4>2
             DEF AgentInv, ResultsOfHolders, SuspendedHolders, HoldersAlive, Budgets,
                 HeldInProcessing, StoringInProcessing, ForcibleSound, holders
      <3>4. CASE CurrentTask = NoTask /\ s # NoProc /\ process[s] = "dead"
        <4>1. OnFailingProcessor("loop", s) /\ looping' = "storing" /\ UNCHANGED locked
          BY <3>1, <3>4 DEF OnResumeTask
        <4>2. s \in Proc
          BY <1>1, <1>4, <3>4 DEF TypeOK
        <4>3. /\ current' \in Proc \cup {NoProc} /\ initialized' \subseteq Proc
              /\ suspended' \in [Task -> Proc \cup {NoProc}]
              /\ htask' \in [Proc -> Task \cup {NoTask}]
              /\ process' \in [Proc -> Phase]
              /\ storing' \in [{"heartbeat", "loop"} -> Task \cup {NoTask}]
              /\ \A u \in Task : suspended[u] = NoProc => suspended'[u] = NoProc
              /\ ResultsOfHolders' /\ SuspendedHolders' /\ HoldersAlive'
              /\ HeldInProcessing' /\ StoringInProcessing'
          BY <1>1, <1>2, <3>1, <4>1, <4>2, FailingInv
        <4>4. TypeOK'
          BY <1>1, <1>2, <2>1, <2>2, <3>1, <4>1, <4>3 DEF TypeOK, EntrySet
        <4>5. ForcibleSound'
          BY <1>1, <1>2, <2>1, <3>1, <4>3, ForcibleAssumption DEF ForcibleSound
        <4> QED  BY <1>1, <1>2, <3>2, <4>3, <4>4, <4>5 DEF AgentInv, Budgets
      <3>5. CASE CurrentTask = NoTask /\ s # NoProc /\ process[s] # "dead"
        <4>1. /\ KillProcessor(current)
              /\ current' = s
              /\ suspended' = [suspended EXCEPT ![t] = NoProc]
              /\ looping' = "lock"
              /\ UNCHANGED <<locked, storing>>
          BY <3>1, <3>5 DEF OnResumeTask
        <4>2. s \in Proc /\ s # current /\ htask[s] = t /\ htask[current] = NoTask
          BY <1>1, <1>4, <2>3, <3>5 DEF TypeOK, HoldersAlive, SuspendedHolders, CurrentTask
        <4>3. /\ initialized' \subseteq Proc
              /\ htask' = [p \in Proc |-> IF p = current THEN NoTask ELSE htask[p]]
              /\ htask' \in [Proc -> Task \cup {NoTask}]
              /\ process' = [p \in Proc |-> IF p = current THEN "free" ELSE process[p]]
              /\ process' \in [Proc -> Phase]
          BY <1>1, <2>3, <4>1, KillType
        <4>4. htask' = htask
          BY <1>1, <4>2, <4>3 DEF TypeOK
        <4>5. TypeOK'
          BY <1>1, <1>2, <1>4, <2>1, <2>2, <3>1, <4>1, <4>2, <4>3 DEF TypeOK, EntrySet
        <4>6. ResultsOfHolders'
          BY <1>1, <1>2, <4>3, <4>4 DEF ResultsOfHolders
        <4>7. SuspendedHolders'
          BY <1>1, <4>1, <4>4 DEF SuspendedHolders, TypeOK
        <4>8. HoldersAlive'
          BY <1>1, <1>2, <1>4, <2>3, <4>1, <4>2, <4>3, NoProcFact, NoTaskAssumption
             DEF HoldersAlive, SuspendedHolders, TypeOK
        <4>9. HeldInProcessing'
          BY <1>1, <1>4, <3>1, <4>1, <4>2, <4>4 DEF HeldInProcessing, TypeOK
        <4>10. StoringInProcessing' /\ ForcibleSound'
          BY <1>1, <1>2, <2>1, <3>1, <4>1, <4>4, ForcibleAssumption
             DEF StoringInProcessing, ForcibleSound, TypeOK
        <4> QED
          BY <1>1, <1>2, <3>2, <4>5, <4>6, <4>7, <4>8, <4>9, <4>10 DEF AgentInv, Budgets
      <3> QED  BY <3>3, <3>4, <3>5
    <2> QED  BY <2>4, <2>5
  <1> QED  BY <1>5, <1>6

(* The invariant holds at the start ...                                    *)
LEMMA AgentInvInit ==
    ASSUME ForceIsSafe
    PROVE  Init => AgentInv
  <1> SUFFICES ASSUME Init PROVE AgentInv
    OBVIOUS
  <1>1. TypeOK
    BY AgentLimitAssumption DEF Init, TypeOK, Phase
  <1>2. \A p \in Proc : channel[p] = <<>> /\ process[p] = "free" /\ htask[p] = NoTask
    BY DEF Init
  <1>3. ResultsOfHolders
    BY <1>2 DEF ResultsOfHolders
  <1>4. SuspendedHolders /\ HoldersAlive
    BY <1>2 DEF Init, SuspendedHolders, HoldersAlive
  <1>5. HeldInProcessing /\ StoringInProcessing
    BY <1>2 DEF Init, HeldInProcessing, StoringInProcessing
  <1>6. EndedIsAbsent /\ ForcibleSound
    BY ForcibleAssumption DEF Init, EndedIsAbsent, ForcibleSound
  <1>7. Budgets
    BY DEF Init, Budgets, NoForce, ForceIsSafe
  <1> QED  BY <1>1, <1>3, <1>4, <1>5, <1>6, <1>7 DEF AgentInv

(* ... and is kept by every step.                                          *)
LEMMA AgentInvNext ==
    ASSUME ForceIsSafe, AgentInv, [Next]_vars
    PROVE  AgentInv'
  <1>1. CASE UNCHANGED vars
    BY <1>1 DEF AgentInv, TypeOK, ResultsOfHolders, SuspendedHolders, HoldersAlive, Budgets,
       HeldInProcessing, StoringInProcessing, EndedIsAbsent, ForcibleSound,
       vars, queue, holders, waits, os, outside
  <1>2. CASE Agent
    BY <1>2, InitializeInv, ReceiveFromProcessorInv, DetectDeathInv, FailureStoredInv, WaitInv,
       TakeTaskInv DEF Agent
  <1>3. CASE Environment
    BY <1>3, ReceiveTaskInv, ReceiveCancelInv, BootInv, FinishInv, DieInv DEF Environment
  <1> QED  BY <1>1, <1>2, <1>3 DEF Next, Quiet

-----------------------------------------------------------------------------
(* Every step of the agent is a step of the contract or leaves it alone.   *)

(* An exception is the end of the worker.                                  *)
LEMMA RaiseStep ==
    ASSUME up, Raise
    PROVE  Contract!Next
  BY DEF Raise, Contract!Next, Contract!Stop, Holds

(* A result ends a task in processing.                                     *)
LEMMA ResultStep ==
    ASSUME TypeOK, up, NEW t \in processing, TaskManagerResult(t), UNCHANGED up
    PROVE  Contract!Next
  <1>1. t \in Task
    BY DEF TypeOK
  <1>2. /\ payload' = payload \ {t} /\ processing' = processing \ {t}
        /\ sent' = Append(sent, [kind |-> "result", task |-> t])
    BY <1>1, ResultType
  <1>3. Holds[t] = "processing"
    BY <1>1 DEF Holds
  <1>4. Holds' = [Holds EXCEPT ![t] = "absent"]
    <2>1. ASSUME NEW u \in Task
          PROVE  Holds'[u] = IF u = t THEN "absent" ELSE Holds[u]
      <3>1. CASE u = t
        BY <3>1, <1>2 DEF Holds
      <3>2. CASE u # t
        BY <3>2, <1>2 DEF Holds
      <3> QED  BY <3>1, <3>2
    <2> QED  BY <2>1 DEF Holds
  <1>5. Contract!Finish(t)
    BY <1>2, <1>3, <1>4 DEF Contract!Finish, Contract!Report
  <1> QED  BY <1>1, <1>5 DEF Contract!Next

(* The delivery of a task: a new one is queued, one that is held is not    *)
(* taken twice.                                                            *)
LEMMA ReceiveTaskStep ==
    ASSUME AgentInv, NEW t \in Task, ReceiveTask(t)
    PROVE  Contract!Next \/ UNCHANGED Contract!contract
  <1>1. TypeOK /\ up /\ HeldInProcessing
    BY DEF AgentInv, ReceiveTask
  <1>2. UNCHANGED <<up, processing, sent>>
    BY DEF ReceiveTask, OnTaskNew
  <1>3. \A u \in Task \ {t} : (u \in payload' <=> u \in payload) \/ u \in processing
    <2>1. CASE CurrentTask = NoTask \/ Priority[t] <= Priority[CurrentTask]
      BY <2>1 DEF ReceiveTask, OnTaskNew
    <2>2. CASE ~ (CurrentTask = NoTask \/ Priority[t] <= Priority[CurrentTask])
      <3>1. CurrentTask \in processing
        BY <1>1, <2>2 DEF CurrentTask, TypeOK, HeldInProcessing
      <3>2. payload' = payload \cup {t, CurrentTask}
        BY <2>2 DEF ReceiveTask, OnTaskNew
      <3> QED  BY <3>1, <3>2
    <2> QED  BY <2>1, <2>2
  <1>4. t \in payload'
    BY DEF ReceiveTask, OnTaskNew
  <1>5. \A u \in Task \ {t} : Holds'[u] = Holds[u]
    BY <1>1, <1>2, <1>3 DEF Holds
  <1>6. CASE t \in processing \/ t \in payload
    <2>1. Holds'[t] = Holds[t]
      BY <1>1, <1>2, <1>4, <1>6 DEF Holds
    <2>2. Holds' = Holds
      BY <1>5, <2>1 DEF Holds
    <2> QED  BY <1>2, <2>2 DEF Contract!contract
  <1>7. CASE ~ (t \in processing \/ t \in payload)
    <2>1. Holds[t] = "absent" /\ Holds'[t] = "queued"
      BY <1>1, <1>2, <1>4, <1>7 DEF Holds
    <2>2. Holds' = [Holds EXCEPT ![t] = "queued"]
      BY <1>5, <2>1 DEF Holds
    <2> QED  BY <1>1, <1>2, <2>1, <2>2 DEF Contract!Next, Contract!Receive
  <1> QED  BY <1>6, <1>7

(* A cancel is answered according to where the task is.                    *)
LEMMA ReceiveCancelStep ==
    ASSUME AgentInv, NEW t \in Task, NEW force \in BOOLEAN, ReceiveCancel(t, force)
    PROVE  Contract!Next
  <1>1. TypeOK /\ up /\ ForcibleSound /\ Budgets
    BY DEF AgentInv, ReceiveCancel
  <1>2. UNCHANGED up /\ (force => t \in Forcible /\ ~ NoForce)
    BY <1>1 DEF ReceiveCancel, OnCancelTask, Spend, Budgets, TypeOK, Bounded
  <1> SUFFICES Contract!Cancel(t, force)
    BY <1>1 DEF Contract!Next
  <1>3. CASE t \notin processing /\ t \notin payload
    <2>1. Send("cancelNotFound", t) /\ UNCHANGED <<queue, processing>>
      BY <1>3, <1>1 DEF ReceiveCancel, OnCancelTask
    <2>2. Holds[t] = "absent" /\ Holds' = Holds
      BY <1>2, <1>3, <2>1 DEF Holds, queue
    <2> QED  BY <1>2, <2>1, <2>2 DEF Contract!Cancel, Contract!Report, Send
  <1>4. CASE t \in processing /\ ~ force
    <2>1. Send("cancelFailed", t) /\ UNCHANGED <<queue, processing>>
      BY <1>4, <1>1 DEF ReceiveCancel, OnCancelTask
    <2>2. Holds[t] = "processing" /\ Holds' = Holds
      BY <1>1, <1>2, <1>4, <2>1 DEF Holds, queue
    <2> QED  BY <1>2, <1>4, <2>1, <2>2 DEF Contract!Cancel, Contract!Report, Send
  <1>5. CASE t \in processing /\ force
    <2>1. Send("canceled", t) /\ UNCHANGED queue /\ processing' = processing \ {t}
      BY <1>5, <1>1 DEF ReceiveCancel, OnCancelTask
    <2>2. t \notin payload
      BY <1>1, <1>2, <1>5 DEF ForcibleSound
    <2>3. Holds[t] = "processing" /\ Holds'[t] = "absent"
          /\ \A u \in Task \ {t} : Holds'[u] = Holds[u]
      BY <1>1, <1>2, <1>5, <2>1, <2>2 DEF Holds, queue
    <2>4. Holds' = [Holds EXCEPT ![t] = "absent"]
      BY <2>3 DEF Holds
    <2> QED  BY <1>2, <1>5, <2>1, <2>3, <2>4 DEF Contract!Cancel, Contract!Report, Send
  <1>6. CASE t \notin processing /\ t \in payload
    <2>1. Send("canceled", t) /\ Remove(t) /\ UNCHANGED processing
      BY <1>6 DEF ReceiveCancel, OnCancelTask
    <2>2. payload' = payload \ {t}
      BY <1>1, <2>1, RemoveType
    <2>3. Holds[t] = "queued" /\ Holds'[t] = "absent"
          /\ \A u \in Task \ {t} : Holds'[u] = Holds[u]
      BY <1>1, <1>2, <1>6, <2>1, <2>2 DEF Holds
    <2>4. Holds' = [Holds EXCEPT ![t] = "absent"]
      BY <2>3 DEF Holds
    <2> QED  BY <1>2, <1>6, <2>1, <2>3, <2>4 DEF Contract!Cancel, Contract!Report, Send
  <1> QED  BY <1>3, <1>4, <1>5, <1>6

(* The message of a processor is a result, a failure or changes nothing.   *)
LEMMA ReceiveFromProcessorStep ==
    ASSUME AgentInv, NEW p \in Proc, ReceiveFromProcessor(p)
    PROVE  Contract!Next \/ UNCHANGED Contract!contract
  <1> DEFINE m == Head(channel[p])
  <1>1. TypeOK /\ up
    BY DEF AgentInv, ReceiveFromProcessor
  <1>2. IF m = "init" THEN OnProcessorInitialized(p) ELSE OnTaskResult(p, m)
    BY DEF ReceiveFromProcessor
  <1>3. CASE Raise
    BY <1>1, <1>3, RaiseStep
  <1>4. CASE UNCHANGED <<up, queue, processing, sent>>
    BY <1>4 DEF Contract!contract, Holds, queue
  <1>5. CASE m \in processing /\ TaskManagerResult(m) /\ UNCHANGED up
    BY <1>1, <1>5, ResultStep
  <1>6. CASE m = "init"
    BY <1>2, <1>3, <1>4, <1>6 DEF OnProcessorInitialized
  <1>7. CASE m # "init"
    <2>1. OnTaskResult(p, m)
      BY <1>2, <1>7
    <2>2. CASE CurrentTask = m
      BY <1>3, <1>5, <2>1, <2>2 DEF OnTaskResult
    <2>3. CASE CurrentTask # m /\ suspended[m] # NoProc
      BY <1>3, <1>5, <2>1, <2>3 DEF OnTaskResult
    <2>4. CASE CurrentTask # m /\ suspended[m] = NoProc
      BY <1>4, <2>1, <2>4 DEF OnTaskResult
    <2> QED  BY <2>2, <2>3, <2>4
  <1> QED  BY <1>6, <1>7

(* The task loop starts a queued task; to resume one changes nothing.      *)
LEMMA TakeTaskStep ==
    ASSUME AgentInv, TakeTask
    PROVE  Contract!Next \/ UNCHANGED Contract!contract
  <1>1. TypeOK /\ up
    BY DEF AgentInv, TakeTask
  <1>2. PICK i \in DOMAIN entries :
          IF \/ entries[i].task \notin payload \/ ~ Ready
             \/ entries[i].task \notin processing /\ CurrentTask # NoTask
          THEN Raise
          ELSE /\ payload' = payload \ {entries[i].task}
               /\ IF entries[i].task \in processing THEN OnResumeTask(entries[i].task)
                                                    ELSE OnTask(entries[i].task)
               /\ UNCHANGED <<up, sent>>
    BY DEF TakeTask
  <1> DEFINE t == entries[i].task
  <1>3. CASE Raise
    BY <1>1, <1>3, RaiseStep
  <1>4. ASSUME ~ Raise
        PROVE  Contract!Next \/ UNCHANGED Contract!contract
    <2>1. /\ t \in payload /\ payload' = payload \ {t}
          /\ UNCHANGED <<up, sent>>
          /\ IF t \in processing THEN OnResumeTask(t) ELSE OnTask(t)
      BY <1>2, <1>4
    <2>2. t \in Task
      BY <1>1, <2>1 DEF TypeOK
    <2> HIDE DEF t
    <2>3. CASE t \in processing
      <3>1. UNCHANGED processing
        BY <2>1, <2>3 DEF OnResumeTask
      <3>2. Holds' = Holds
        BY <2>1, <2>3, <3>1 DEF Holds
      <3> QED  BY <2>1, <3>2 DEF Contract!contract
    <2>4. CASE t \notin processing
      <3>1. processing' = processing \cup {t}
        BY <2>1, <2>4 DEF OnTask
      <3>2. Holds[t] = "queued" /\ Holds'[t] = "processing"
            /\ \A u \in Task \ {t} : Holds'[u] = Holds[u]
        BY <1>1, <2>1, <2>2, <2>4, <3>1 DEF Holds
      <3>3. Holds' = [Holds EXCEPT ![t] = "processing"]
        BY <3>2 DEF Holds
      <3> QED  BY <1>1, <2>1, <2>2, <3>2, <3>3 DEF Contract!Next, Contract!Start
    <2> QED  BY <2>3, <2>4
  <1> QED  BY <1>3, <1>4

(* Step simulation.                                                        *)
LEMMA ContractStep ==
    ASSUME AgentInv, [Next]_vars
    PROVE  [Contract!Next]_(Contract!contract)
  <1>1. CASE UNCHANGED <<up, queue, processing, sent>>
    BY <1>1 DEF Contract!contract, Holds, queue
  <1>2. ASSUME NEW c \in {"heartbeat", "loop"}, FailureStored(c)
        PROVE  Contract!Next
    <2>1. TypeOK /\ up
      BY <1>2 DEF AgentInv, FailureStored
    <2>2. CASE Raise
      BY <2>1, <2>2, RaiseStep
    <2>3. CASE ~ Raise
      <3>1. storing[c] \in processing /\ TaskManagerResult(storing[c]) /\ UNCHANGED up
        BY <1>2, <2>3 DEF FailureStored
      <3> QED  BY <2>1, <3>1, ResultStep
    <2> QED  BY <2>2, <2>3
  <1>3. CASE Agent
    <2>1. CASE Initialize
      BY <1>1, <2>1 DEF Initialize, outside
    <2>2. ASSUME NEW p \in Proc, DetectDeath(p) PROVE [Contract!Next]_(Contract!contract)
      BY <1>1, <2>2 DEF DetectDeath, outside
    <2>3. CASE WaitUntilCanAcceptTask
      BY <1>1, <2>3 DEF WaitUntilCanAcceptTask, outside
    <2> QED  BY <1>2, <1>3, <2>1, <2>2, <2>3, ReceiveFromProcessorStep, TakeTaskStep DEF Agent
  <1>4. CASE Environment
    <2>1. ASSUME NEW p \in Proc, Boot(p) \/ Finish(p) \/ Die(p)
          PROVE  [Contract!Next]_(Contract!contract)
      BY <1>1, <2>1 DEF Boot, Finish, Die, outside
    <2> QED  BY <1>4, <2>1, ReceiveTaskStep, ReceiveCancelStep DEF Environment
  <1>5. CASE UNCHANGED vars
    BY <1>1, <1>5 DEF vars, outside
  <1> QED  BY <1>3, <1>4, <1>5 DEF Next, Quiet

-----------------------------------------------------------------------------
(* The types of the agent's variables hold in every run.                   *)
THEOREM AgentTypeCorrect ==
    ASSUME ForceIsSafe
    PROVE  Spec => []TypeOK
  <1>1. Init => AgentInv
    BY AgentInvInit
  <1>2. AgentInv /\ [Next]_vars => AgentInv'
    BY AgentInvNext
  <1>3. AgentInv => TypeOK
    BY DEF AgentInv
  <1> QED  BY <1>1, <1>2, <1>3, PTL DEF Spec

(* The agent implements the contract that the scheduler relies on: every   *)
(* cancel is answered by where the task is and every result is that of a   *)
(* task in processing, whatever tasks, priorities, processors, deaths and  *)
(* repeated deliveries there are (TaskManager and ProcessorManager).       *)
THEOREM AgentImplementsContract ==
    ASSUME ForceIsSafe
    PROVE  Spec => ImplementsContract
  <1>1. Init => AgentInv
    BY AgentInvInit
  <1>2. AgentInv /\ [Next]_vars => AgentInv'
    BY AgentInvNext
  <1>3. Init => Contract!Init
    BY DEF Init, Contract!Init, Holds
  <1>4. AgentInv /\ [Next]_vars => [Contract!Next]_(Contract!contract)
    BY ContractStep
  <1> QED  BY <1>1, <1>2, <1>3, <1>4, PTL DEF Spec, ImplementsContract, Contract!Spec

-----------------------------------------------------------------------------
(* The books of the processors.  ProcsInv is inductive together with       *)
(* AgentInv.                                                               *)

NoDeath == Fragile = {} \/ Limit["death"] = 0

(* What is queued has an entry.                                            *)
Entered == payload \subseteq {entries[i].task : i \in DOMAIN entries}

(* A suspended task waits in the queue, and its processor has initialized. *)
SuspendedWaits ==
    \A t \in Task : suspended[t] # NoProc =>
        t \in processing /\ t \in payload /\ suspended[t] \in initialized

(* While the current processor has a task the lock is taken for it, and    *)
(* the task loop waits for the lock.                                       *)
BusyLocked == CurrentTask # NoTask => locked /\ looping = "lock" /\ current \in initialized

(* A processor that has initialized is past its start.                     *)
Started == \A p \in initialized : process[p] \notin {"free", "starting"}

(* A ProcessorInitialized that is under way is the only one, and of the    *)
(* current processor.                                                      *)
InitOnce ==
    \A p \in Proc : \A i \in DOMAIN channel[p] : channel[p][i] = "init" =>
        /\ p = current /\ p \notin initialized /\ process[p] # "starting"
        /\ \A j \in DOMAIN channel[p] : channel[p][j] = "init" => i = j

(* The task loop waits for storage exactly while it stores a failure, and  *)
(* two coroutines never store the failure of one task.                     *)
StoringSound ==
    /\ looping = "storing" <=> storing["loop"] # NoTask
    /\ storing["heartbeat"] # NoTask => storing["heartbeat"] # storing["loop"]

(* Without deaths no process is dead and no failure is stored.             *)
Deathless ==
    NoDeath => /\ \A p \in Proc : process[p] # "dead"
               /\ \A c \in DOMAIN storing : storing[c] = NoTask
               /\ Fragile = {} \/ budget["death"] = 0

ProcsInv ==
    /\ Entered /\ SuspendedWaits /\ BusyLocked /\ Started /\ NoAbandonedProcess
    /\ PriorityRespected /\ StoringSound /\ Deathless
    /\ up => InitOnce
    /\ NoForce \/ NoDeath => ProcessingHeld
    /\ NoDeath => LockSound

(* An entry less: nothing new is in the queue, and only the entry is gone. *)
LEMMA DropRange ==
    ASSUME NEW q \in Seq(EntrySet), NEW i \in DOMAIN q
    PROVE  /\ \A j \in DOMAIN Drop(q, i) : \E k \in DOMAIN q : Drop(q, i)[j] = q[k]
           /\ \A k \in DOMAIN q : k # i => \E j \in DOMAIN Drop(q, i) : Drop(q, i)[j] = q[k]
  <1>1. Len(q) \in Nat /\ i \in 1 .. Len(q) /\ DOMAIN q = 1 .. Len(q)
    OBVIOUS
  <1>2. DOMAIN Drop(q, i) = 1 .. (Len(q) - 1)
    BY DEF Drop
  <1>3. \A j \in 1 .. (Len(q) - 1) : Drop(q, i)[j] = IF j < i THEN q[j] ELSE q[j + 1]
    BY DEF Drop
  <1>4. ASSUME NEW j \in 1 .. (Len(q) - 1)
        PROVE  \E k \in DOMAIN q : Drop(q, i)[j] = q[k]
    <2>1. j \in DOMAIN q /\ j + 1 \in DOMAIN q
      BY <1>1
    <2> QED  BY <1>3, <2>1
  <1>5. ASSUME NEW k \in DOMAIN q, k # i
        PROVE  \E j \in DOMAIN Drop(q, i) : Drop(q, i)[j] = q[k]
    <2>1. CASE k < i
      <3>1. k \in 1 .. (Len(q) - 1)
        BY <1>1, <2>1
      <3> QED  BY <1>2, <1>3, <2>1, <3>1
    <2>2. CASE k > i
      <3>1. k - 1 \in 1 .. (Len(q) - 1) /\ ~(k - 1 < i) /\ (k - 1) + 1 = k
        BY <1>1, <2>2
      <3> QED  BY <1>2, <1>3, <3>1
    <2> QED  BY <1>1, <1>5, <2>1, <2>2
  <1> QED  BY <1>2, <1>4, <1>5

(* One entry of a task and its payload leave together.                     *)
LEMMA DroppedEntry ==
    ASSUME TypeOK, Entered, NEW i \in DOMAIN entries, entries' = Drop(entries, i),
           payload' = payload \ {entries[i].task}
    PROVE  /\ \A j \in DOMAIN entries' : \E k \in DOMAIN entries : entries'[j] = entries[k]
           /\ Entered'
  <1>1. entries \in Seq(EntrySet)
    BY DEF TypeOK, EntrySet
  <1>2. /\ \A j \in DOMAIN entries' : \E k \in DOMAIN entries : entries'[j] = entries[k]
        /\ \A k \in DOMAIN entries : k # i => \E j \in DOMAIN entries' : entries'[j] = entries[k]
    BY <1>1, DropRange
  <1>3. ASSUME NEW t \in payload'
        PROVE  \E j \in DOMAIN entries' : entries'[j].task = t
    <2>1. PICK k \in DOMAIN entries : entries[k].task = t
      BY DEF Entered
    <2>2. k # i
      BY <2>1
    <2> QED  BY <1>2, <2>1, <2>2
  <1> QED  BY <1>2, <1>3 DEF Entered

(* remove takes the latest entry.                                          *)
LEMMA RemovedEntry ==
    ASSUME TypeOK, Entered, NEW t \in Task, Remove(t)
    PROVE  /\ \A j \in DOMAIN entries' : \E k \in DOMAIN entries : entries'[j] = entries[k]
           /\ Entered' /\ payload' = payload \ {t}
  <1>1. PICK i \in DOMAIN entries : entries[i].task = t /\ entries' = Drop(entries, i)
    BY DEF Remove
  <1>2. payload' = payload \ {entries[i].task}
    BY <1>1 DEF Remove
  <1> QED  BY <1>1, <1>2, DroppedEntry

(* on_task_result of the task manager on the queue.                        *)
LEMMA ResultEntry ==
    ASSUME TypeOK, Entered, NEW t \in Task, TaskManagerResult(t)
    PROVE  /\ \A j \in DOMAIN entries' : \E k \in DOMAIN entries : entries'[j] = entries[k]
           /\ Entered' /\ payload' = payload \ {t} /\ processing' = processing \ {t}
  <1>1. CASE t \in payload
    BY <1>1, RemovedEntry DEF TaskManagerResult
  <1>2. CASE t \notin payload
    BY <1>2 DEF TaskManagerResult, queue, Entered
  <1> QED  BY <1>1, <1>2

(* A processor that may be started has no task, no messages and no holder. *)
LEMMA UnusedFacts ==
    ASSUME AgentInv, ProcsInv, up, NEW p \in Unused
    PROVE  /\ p \in Proc /\ p # current /\ p # NoProc /\ htask[p] = NoTask /\ channel[p] = <<>>
           /\ p \notin initialized /\ process[p] = "free"
           /\ \A t \in Task : suspended[t] # p
  <1>1. p \in Proc /\ p # current /\ channel[p] = <<>> /\ process[p] = "free" /\ p # NoProc
    BY NoProcFact DEF Unused
  <1>2. \A t \in Task : suspended[t] # p
    BY <1>1 DEF AgentInv, HoldersAlive
  <1>3. p \notin initialized
    BY <1>1 DEF ProcsInv, Started
  <1>4. htask[p] = NoTask
    BY <1>1, <1>2 DEF AgentInv, HeldInProcessing, TypeOK
  <1> QED  BY <1>1, <1>2, <1>3, <1>4

(* __start_new_processor on the set of the initialized.                    *)
LEMMA StartInitialized ==
    ASSUME NEW v, StartNewProcessor(v)
    PROVE  initialized' = initialized \ {v}
  BY DEF StartNewProcessor

(* The task of the current processor, and none before there is one.        *)
LEMMA CurrentFact ==
    ASSUME TypeOK
    PROVE  /\ CurrentTask # NoTask => current \in Proc /\ current # NoProc /\ htask[current] = CurrentTask /\ CurrentTask \in Task
           /\ current # NoProc => CurrentTask = htask[current]
  BY NoProcFact DEF TypeOK, CurrentTask

(* A task is suspended or current, not both.                               *)
LEMMA CurrentNotSuspended ==
    ASSUME AgentInv, up, NEW t \in Task, suspended[t] # NoProc
    PROVE  CurrentTask # t
  BY CurrentFact, NoTaskAssumption
     DEF AgentInv, HoldersAlive, SuspendedHolders, HeldInProcessing, TypeOK

(* Only the current processor is starting.                                 *)
LEMMA StartingIsCurrent ==
    ASSUME ProcsInv, NEW p \in Proc, process[p] = "starting"
    PROVE  p = current /\ p \notin initialized
  BY NoProcFact DEF ProcsInv, NoAbandonedProcess, SuspendedWaits, Started

(* The steps of the processes.                                             *)
LEMMA BootProcs ==
    ASSUME AgentInv, ProcsInv, up, NEW p \in Proc, Boot(p)
    PROVE  ProcsInv'
  <1>1. /\ process[p] = "starting" /\ process' = [process EXCEPT ![p] = "idle"]
        /\ channel' = [channel EXCEPT ![p] = Append(@, "init")]
        /\ UNCHANGED <<up, entries, payload, processing, current, suspended, initialized, htask,
                       locked, looping, storing, budget>>
    BY DEF Boot, queue, holders, waits
  <1>2. p = current /\ p \notin initialized
    BY <1>1, StartingIsCurrent
  <1>3. TypeOK /\ Started /\ NoAbandonedProcess /\ Deathless /\ InitOnce
    BY DEF AgentInv, ProcsInv
  <1>4. Started' /\ NoAbandonedProcess' /\ Deathless'
    BY <1>1, <1>2, <1>3 DEF TypeOK, Started, NoAbandonedProcess, Deathless, Phase
  <1>5. InitOnce'
    <2>1. channel[p] \in Seq(Task \cup {"init"}) /\ channel'[p] = Append(channel[p], "init")
          /\ \A q \in Proc : q # p => channel'[q] = channel[q]
      BY <1>1, <1>3 DEF TypeOK
    <2>2. /\ DOMAIN channel'[p] = 1 .. Len(channel[p]) + 1 /\ DOMAIN channel[p] = 1 .. Len(channel[p])
          /\ \A i \in DOMAIN channel[p] : channel'[p][i] = channel[p][i]
      BY <2>1
    <2>3. \A i \in DOMAIN channel'[p] : channel'[p][i] = "init" => i = Len(channel[p]) + 1
      BY <1>1, <1>3, <2>1, <2>2 DEF InitOnce
    <2>4. process'[p] = "idle" /\ \A q \in Proc : q # p => process'[q] = process[q]
      BY <1>1, <1>3 DEF TypeOK
    <2> QED  BY <1>1, <1>2, <1>3, <2>1, <2>3, <2>4 DEF InitOnce
  <1> QED
    BY <1>1, <1>4, <1>5 DEF ProcsInv, Entered, SuspendedWaits, BusyLocked, PriorityRespected, StoringSound,
       ProcessingHeld, LockSound, CurrentTask

(* A processor ends a task ...                                             *)
LEMMA FinishProcs ==
    ASSUME AgentInv, ProcsInv, up, NEW p \in Proc, Finish(p)
    PROVE  ProcsInv'
  <1>1. /\ process[p] = "busy" /\ process' = [process EXCEPT ![p] = "idle"]
        /\ channel' = [channel EXCEPT ![p] = Append(@, htask[p])]
        /\ UNCHANGED <<up, entries, payload, processing, current, suspended, initialized, htask,
                       locked, looping, storing, budget>>
    BY DEF Finish, queue, holders, waits
  <1>2. htask[p] \in Task
    BY <1>1 DEF AgentInv, ResultsOfHolders, TypeOK
  <1>3. TypeOK /\ Started /\ NoAbandonedProcess /\ Deathless /\ InitOnce
    BY DEF AgentInv, ProcsInv
  <1>4. Started' /\ NoAbandonedProcess' /\ Deathless'
    BY <1>1, <1>2, <1>3 DEF TypeOK, Started, NoAbandonedProcess, Deathless, Phase
  <1>5. InitOnce'
    <2>1. channel[p] \in Seq(Task \cup {"init"}) /\ channel'[p] = Append(channel[p], htask[p])
          /\ \A q \in Proc : q # p => channel'[q] = channel[q]
      BY <1>1, <1>3 DEF TypeOK
    <2>2. /\ DOMAIN channel'[p] = 1 .. Len(channel[p]) + 1 /\ DOMAIN channel[p] = 1 .. Len(channel[p])
          /\ \A i \in DOMAIN channel[p] : channel'[p][i] = channel[p][i]
          /\ channel'[p][Len(channel[p]) + 1] = htask[p] /\ htask[p] # "init"
      BY <1>2, <2>1, NoTaskAssumption
    <2>3. \A i \in DOMAIN channel'[p] : channel'[p][i] = "init" => i \in DOMAIN channel[p]
      BY <2>2
    <2>4. process'[p] = "idle" /\ \A q \in Proc : q # p => process'[q] = process[q]
      BY <1>1, <1>3 DEF TypeOK
    <2> QED  BY <1>1, <1>3, <2>1, <2>2, <2>3, <2>4 DEF InitOnce
  <1> QED
    BY <1>1, <1>4, <1>5 DEF ProcsInv, Entered, SuspendedWaits, BusyLocked, PriorityRespected, StoringSound,
       ProcessingHeld, LockSound, CurrentTask

(* ... or dies.                                                            *)
LEMMA DieProcs ==
    ASSUME AgentInv, ProcsInv, up, NEW p \in Proc, Die(p)
    PROVE  ProcsInv'
  <1>1. /\ process[p] \in Fragile /\ budget["death"] > 0 /\ process' = [process EXCEPT ![p] = "dead"]
        /\ UNCHANGED <<up, entries, payload, processing, current, suspended, initialized, htask,
                       locked, looping, storing, channel>>
    BY DEF Die, Spend, queue, holders, waits
  <1>2. ~ NoDeath
    BY <1>1 DEF AgentInv, TypeOK, ProcsInv, Deathless, Bounded
  <1>3. Started' /\ NoAbandonedProcess' /\ InitOnce'
    BY <1>1, FragileAssumption DEF AgentInv, ProcsInv, TypeOK, Started, NoAbandonedProcess, InitOnce
  <1> QED
    BY <1>1, <1>2, <1>3 DEF ProcsInv, Entered, SuspendedWaits, BusyLocked, PriorityRespected, StoringSound,
       ProcessingHeld, Deathless, CurrentTask, NoDeath

(* The task loop acquires the lock.                                        *)
LEMMA WaitProcs ==
    ASSUME AgentInv, ProcsInv, WaitUntilCanAcceptTask
    PROVE  ProcsInv'
  <1>1. /\ up /\ looping = "lock" /\ ~ locked /\ locked' = TRUE /\ looping' = "queue"
        /\ UNCHANGED <<up, entries, payload, processing, current, suspended, initialized, htask,
                       process, storing, channel, budget>>
    BY DEF WaitUntilCanAcceptTask, queue, holders, os
  <1>2. BusyLocked' /\ StoringSound'
    BY <1>1 DEF ProcsInv, BusyLocked, StoringSound, CurrentTask
  <1>3. NoDeath => LockSound'
    BY <1>1 DEF ProcsInv, LockSound, CurrentTask
  <1> QED
    BY <1>1, <1>2, <1>3 DEF ProcsInv, Entered, SuspendedWaits, Started, NoAbandonedProcess, PriorityRespected,
       InitOnce, ProcessingHeld, Deathless, CurrentTask

(* The first processor is started.                                         *)
LEMMA InitializeProcs ==
    ASSUME AgentInv, ProcsInv, Initialize
    PROVE  ProcsInv'
  <1>1. /\ up /\ current = NoProc /\ StartNewProcessor(NoProc)
        /\ UNCHANGED <<up, entries, payload, processing, suspended, locked, looping, storing, channel, budget>>
    BY DEF Initialize, queue, waits
  <1>2. /\ current' \in Unused /\ htask' = htask /\ initialized' = initialized
        /\ \A p \in Proc : process'[p] = IF p = current' THEN "starting" ELSE process[p]
    <2>1. TypeOK /\ NoProc \notin initialized
      BY NoProcFact DEF AgentInv, TypeOK
    <2>2. initialized' = initialized
      BY <1>1, <2>1, StartInitialized
    <2> QED  BY <1>1, <2>1, <2>2, StartType, NoProcFact DEF TypeOK
  <1>3. /\ current' \in Proc /\ current' # NoProc /\ htask[current'] = NoTask
        /\ current' \notin initialized /\ channel[current'] = <<>>
    BY <1>1, <1>2, UnusedFacts
  <1>4. CurrentTask = NoTask /\ CurrentTask' = NoTask
    BY <1>1, <1>2, <1>3 DEF CurrentTask
  <1>5. \A p \in Proc : process[p] = "free" /\ channel[p] = <<>>
    BY <1>1 DEF AgentInv, HoldersAlive
  <1>6. initialized = {} /\ \A t \in Task : suspended[t] = NoProc
    BY <1>1, <1>5 DEF AgentInv, ProcsInv, TypeOK, HoldersAlive, Started
  <1>7. Started' /\ NoAbandonedProcess' /\ InitOnce' /\ SuspendedWaits'
    BY <1>1, <1>2, <1>3, <1>5, <1>6
       DEF Started, NoAbandonedProcess, InitOnce, SuspendedWaits
  <1>8. Deathless'
    BY <1>1, <1>2 DEF ProcsInv, Deathless
  <1>9. BusyLocked' /\ PriorityRespected' /\ ProcessingHeld' = ProcessingHeld
    BY <1>1, <1>4 DEF BusyLocked, PriorityRespected, ProcessingHeld
  <1>10. NoDeath => LockSound'
    BY <1>1, <1>2, <1>3, <1>4, <1>6 DEF ProcsInv, LockSound
  <1> QED
    BY <1>1, <1>7, <1>8, <1>9, <1>10 DEF ProcsInv, Entered, StoringSound

(* An exception leaves the books of the processors as they are.            *)
LEMMA RaiseProcs ==
    ASSUME ProcsInv, Raise, UNCHANGED budget
    PROVE  ProcsInv'
  BY DEF Raise, queue, holders, waits, ProcsInv, Entered, SuspendedWaits, BusyLocked, Started,
     NoAbandonedProcess, PriorityRespected, StoringSound, Deathless, ProcessingHeld, LockSound, CurrentTask

(* on_failing_processor on the books of the processors.                    *)
LEMMA FailingFacts ==
    ASSUME AgentInv, ProcsInv, up, NEW c \in {"heartbeat", "loop"}, NEW p \in initialized,
           OnFailingProcessor(c, p), UNCHANGED channel
    PROVE  /\ \A u \in Task : suspended'[u] # NoProc =>
                 suspended'[u] = suspended[u] /\ u # htask[p] /\ suspended[u] \in initialized'
           /\ \A u \in Task : u # htask[p] => suspended'[u] = suspended[u]
           /\ Started' /\ NoAbandonedProcess' /\ InitOnce'
           /\ p # current => current' = current /\ CurrentTask' = CurrentTask
                             /\ (current \in initialized <=> current' \in initialized')
           /\ p = current => CurrentTask' = NoTask
           /\ storing' = [storing EXCEPT ![c] = htask[p]]
           /\ \A q \in Proc : process'[q] # process[q] => process'[q] \in {"free", "starting"}
  <1>0. TypeOK /\ HeldInProcessing /\ SuspendedHolders /\ HoldersAlive /\ SuspendedWaits /\ Started
        /\ NoAbandonedProcess /\ InitOnce /\ BusyLocked
    BY DEF AgentInv, ProcsInv
  <1>1. p \in Proc /\ p # NoProc
    BY <1>0, NoProcFact DEF TypeOK
  <1>2. /\ suspended' = [u \in Task |-> IF u = htask[p] THEN NoProc ELSE suspended[u]]
        /\ storing' = [storing EXCEPT ![c] = htask[p]]
    BY DEF OnFailingProcessor
  <1>3. /\ htask' = [q \in Proc |-> IF q = p THEN NoTask ELSE htask[q]]
        /\ initialized' = initialized \ {p}
        /\ \/ p = current /\ current' \in Unused
           \/ p # current /\ current' = current
        /\ \A q \in Proc : process'[q] = IF q = p THEN "free"
                                         ELSE IF p = current /\ q = current' THEN "starting"
                                         ELSE process[q]
    <2>1. CASE p = current
      <3>1. StartNewProcessor(p)
        BY <2>1 DEF OnFailingProcessor
      <3> QED  BY <2>1, <3>1, <1>0, StartType, StartInitialized
    <2>2. CASE p # current
      <3>1. KillProcessor(p) /\ UNCHANGED current
        BY <2>2 DEF OnFailingProcessor
      <3> QED  BY <2>2, <3>1, <1>0, <1>1, KillType DEF KillProcessor
    <2> QED  BY <2>1, <2>2
  <1>4. \A u \in Task : suspended[u] = p => u = htask[p]
    BY <1>0, <1>1 DEF SuspendedHolders
  <1>5. \A u \in Task : suspended'[u] # NoProc =>
            suspended'[u] = suspended[u] /\ u # htask[p] /\ suspended[u] \in initialized'
    BY <1>0, <1>2, <1>3, <1>4 DEF SuspendedWaits
  <1>6. p = current => /\ current' \in Proc /\ current' # NoProc /\ current' # p /\ current' \notin initialized
                       /\ htask[current'] = NoTask /\ channel[current'] = <<>>
    BY <1>3, UnusedFacts
  <1>7. Started'
    <2> SUFFICES ASSUME NEW q \in initialized' PROVE process'[q] \notin {"free", "starting"}
      BY DEF Started
    <2>1. q \in initialized /\ q # p /\ q \in Proc
      BY <1>0, <1>3 DEF TypeOK
    <2>2. p = current => q # current'
      BY <1>6, <2>1
    <2> QED  BY <1>0, <1>3, <2>1, <2>2 DEF Started
  <1>8. NoAbandonedProcess'
    <2> SUFFICES ASSUME NEW q \in Proc, process'[q] # "free"
                 PROVE  q = current' \/ \E u \in Task : suspended'[u] = q
      BY DEF NoAbandonedProcess
    <2>1. q # p
      BY <1>3
    <2>2. CASE p = current /\ q = current'
      BY <2>2
    <2>3. CASE ~(p = current /\ q = current')
      <3>1. process[q] # "free"
        BY <1>3, <2>1, <2>3
      <3>2. q = current \/ \E u \in Task : suspended[u] = q
        BY <1>0, <3>1 DEF NoAbandonedProcess
      <3>3. CASE q = current
        BY <1>3, <2>1, <3>3
      <3>4. ASSUME NEW u \in Task, suspended[u] = q
            PROVE  suspended'[u] = q
        <4>1. htask[q] = u
          BY <1>0, <3>4, NoProcFact DEF SuspendedHolders
        <4>2. u # htask[p]
          BY <1>0, <1>1, <2>1, <4>1, NoTaskAssumption DEF HeldInProcessing
        <4> QED  BY <1>2, <3>4, <4>2
      <3> QED  BY <3>2, <3>3, <3>4
    <2> QED  BY <2>2, <2>3
  <1>9. InitOnce'
    <2> SUFFICES ASSUME NEW q \in Proc, NEW i \in DOMAIN channel'[q], channel'[q][i] = "init"
                 PROVE  /\ q = current' /\ q \notin initialized' /\ process'[q] # "starting"
                        /\ \A j \in DOMAIN channel'[q] : channel'[q][j] = "init" => i = j
      BY DEF InitOnce
    <2>1. /\ q = current /\ q \notin initialized /\ process[q] # "starting"
          /\ \A j \in DOMAIN channel[q] : channel[q][j] = "init" => i = j
      BY <1>0 DEF InitOnce
    <2>2. p # current
      BY <2>1
    <2> QED  BY <1>3, <2>1, <2>2
  <1>10. p # current => current' = current /\ CurrentTask' = CurrentTask
                        /\ (current \in initialized <=> current' \in initialized')
    <2>1. p # current => htask'[current] = htask[current] \/ current = NoProc
      BY <1>0, <1>3 DEF TypeOK
    <2> QED  BY <1>3, <2>1 DEF CurrentTask
  <1>11. p = current => CurrentTask' = NoTask
    BY <1>3, <1>6 DEF CurrentTask
  <1> QED  BY <1>2, <1>3, <1>5, <1>7, <1>8, <1>9, <1>10, <1>11

(* The task of a failed processor goes from its holder to the storage.     *)
LEMMA FailingHeld ==
    ASSUME AgentInv, ProcsInv, up, NEW c \in {"heartbeat", "loop"}, NEW p \in initialized,
           OnFailingProcessor(c, p), UNCHANGED <<channel, processing, up>>, storing[c] = NoTask
    PROVE  ProcessingHeld => ProcessingHeld'
  <1>0. TypeOK /\ HeldInProcessing /\ StoringInProcessing
    BY DEF AgentInv
  <1>1. /\ \A u \in Task : suspended'[u] # NoProc => suspended'[u] = suspended[u] /\ u # htask[p]
        /\ \A u \in Task : u # htask[p] => suspended'[u] = suspended[u]
        /\ p # current => CurrentTask' = CurrentTask
        /\ p = current => CurrentTask' = NoTask
        /\ storing' = [storing EXCEPT ![c] = htask[p]]
    BY FailingFacts
  <1>2. p \in Proc /\ p # NoProc /\ htask[p] \in Task \cup {NoTask}
        /\ DOMAIN storing = {"heartbeat", "loop"} /\ DOMAIN storing' = {"heartbeat", "loop"}
    BY <1>0, <1>1, NoProcFact DEF TypeOK
  <1>3. CurrentTask = htask[p] /\ htask[p] # NoTask => p = current
    BY <1>0, <1>2, CurrentFact DEF HeldInProcessing
  <1>4. p = current => CurrentTask = htask[p]
    BY <1>2 DEF CurrentTask
  <1>5. htask[p] # NoTask => CurrentTask = htask[p] \/ suspended[htask[p]] # NoProc
    BY <1>0, <1>2, <1>4 DEF HeldInProcessing
  <1>6. \A u \in Task : (\E d \in DOMAIN storing' : storing'[d] = u) <=>
                        u = htask[p] \/ \E d \in DOMAIN storing : storing[d] = u
    BY <1>1, <1>2, <1>0, NoTaskAssumption DEF TypeOK
  <1>7. ASSUME NEW u \in Task
        PROVE  (\/ CurrentTask = u \/ suspended[u] # NoProc \/ \E d \in DOMAIN storing : storing[d] = u)
           <=> (\/ CurrentTask' = u \/ suspended'[u] # NoProc \/ \E d \in DOMAIN storing' : storing'[d] = u)
    <2>1. CASE u = htask[p]
      BY <2>1, <1>5, <1>6, NoTaskAssumption
    <2>2. CASE u # htask[p]
      BY <2>2, <1>1, <1>4, <1>6, NoTaskAssumption
    <2> QED  BY <2>1, <2>2
  <1> QED  BY <1>7 DEF ProcessingHeld

(* The heartbeat finds a dead processor.                                   *)
LEMMA DetectDeathProcs ==
    ASSUME AgentInv, ProcsInv, NEW p \in Proc, DetectDeath(p)
    PROVE  ProcsInv'
  <1>1. /\ up /\ storing["heartbeat"] = NoTask /\ p \in initialized /\ process[p] = "dead"
        /\ OnFailingProcessor("heartbeat", p)
        /\ UNCHANGED <<up, entries, payload, processing, locked, looping, channel, budget>>
    BY DEF DetectDeath, queue
  <1>2. /\ \A u \in Task : suspended'[u] # NoProc =>
                 suspended'[u] = suspended[u] /\ u # htask[p] /\ suspended[u] \in initialized'
        /\ Started' /\ NoAbandonedProcess' /\ InitOnce'
        /\ p # current => current' = current /\ CurrentTask' = CurrentTask
                          /\ (current \in initialized <=> current' \in initialized')
        /\ p = current => CurrentTask' = NoTask
        /\ storing' = [storing EXCEPT !["heartbeat"] = htask[p]]
    BY <1>1, FailingFacts
  <1>3. ProcessingHeld => ProcessingHeld'
    BY <1>1, FailingHeld
  <1>4. ~ NoDeath
    BY <1>1 DEF ProcsInv, Deathless
  <1>5. SuspendedWaits' /\ BusyLocked' /\ PriorityRespected'
    BY <1>1, <1>2 DEF ProcsInv, SuspendedWaits, BusyLocked, PriorityRespected
  <1>6. StoringSound'
    <2>1. storing'["loop"] = storing["loop"] /\ storing'["heartbeat"] = htask[p]
      BY <1>2 DEF AgentInv, TypeOK
    <2>2. storing["loop"] # NoTask => htask[p] # storing["loop"]
      BY <1>1 DEF AgentInv, StoringInProcessing, TypeOK
    <2> QED  BY <1>1, <2>1, <2>2 DEF ProcsInv, StoringSound
  <1> QED
    BY <1>1, <1>2, <1>3, <1>4, <1>5, <1>6 DEF ProcsInv, Entered, Deathless, NoDeath

(* A failure is stored and reported.                                       *)
LEMMA FailureStoredProcs ==
    ASSUME AgentInv, ProcsInv, NEW c \in {"heartbeat", "loop"}, FailureStored(c)
    PROVE  ProcsInv'
  <1> DEFINE t == storing[c]
  <1>1. TypeOK /\ up /\ HeldInProcessing /\ StoringInProcessing /\ SuspendedHolders /\ UNCHANGED <<channel, budget>>
    BY DEF AgentInv, FailureStored
  <1>2. t \in Task
    BY <1>1 DEF TypeOK, FailureStored
  <1>3. CASE t \notin processing \/ (c = "loop" /\ ~ locked)
    BY <1>1, <1>3, RaiseProcs DEF FailureStored
  <1>4. CASE ~ (t \notin processing \/ (c = "loop" /\ ~ locked))
    <2>1. /\ TaskManagerResult(t)
          /\ storing' = [storing EXCEPT ![c] = NoTask]
          /\ locked' = IF c = "loop" THEN FALSE ELSE locked
          /\ looping' = IF c = "loop" THEN "lock" ELSE looping
          /\ UNCHANGED <<up, current, suspended, initialized, htask, process>>
      BY <1>4 DEF FailureStored, holders
    <2>2. /\ \A j \in DOMAIN entries' : \E k \in DOMAIN entries : entries'[j] = entries[k]
          /\ Entered' /\ payload' = payload \ {t} /\ processing' = processing \ {t}
      BY <1>1, <1>2, <2>1, ResultEntry DEF ProcsInv
    <2>3. CurrentTask' = CurrentTask /\ CurrentTask # t /\ suspended[t] = NoProc
      BY <1>1, <1>2, <2>1, CurrentFact, NoTaskAssumption, NoProcFact
         DEF CurrentTask, StoringInProcessing, SuspendedHolders, TypeOK
    <2>4. ~ NoDeath
      BY <1>1, <1>2, NoTaskAssumption DEF ProcsInv, Deathless, TypeOK
    <2>5. c = "loop" => CurrentTask = NoTask
      BY <1>2, NoTaskAssumption DEF ProcsInv, StoringSound, BusyLocked
    <2>6. BusyLocked' /\ PriorityRespected'
      BY <2>1, <2>2, <2>3, <2>5 DEF ProcsInv, BusyLocked, PriorityRespected
    <2>7. SuspendedWaits'
      BY <2>1, <2>2, <2>3 DEF ProcsInv, SuspendedWaits
    <2>8. /\ storing'[c] = NoTask
          /\ \A d \in {"heartbeat", "loop"} : d # c => storing'[d] = storing[d] /\ storing[d] # t
          /\ DOMAIN storing = {"heartbeat", "loop"} /\ DOMAIN storing' = {"heartbeat", "loop"}
      BY <1>1, <1>2, <2>1, NoTaskAssumption DEF TypeOK, ProcsInv, StoringSound
    <2>9. StoringSound'
      BY <2>1, <2>8 DEF ProcsInv, StoringSound
    <2>10. ProcessingHeld => ProcessingHeld'
      <3>1. ASSUME NEW u \in Task
            PROVE  (\E d \in DOMAIN storing' : storing'[d] = u)
                   <=> u # t /\ \E d \in DOMAIN storing : storing[d] = u
        BY <1>2, <2>8, NoTaskAssumption
      <3> QED  BY <1>1, <1>2, <2>1, <2>2, <2>3, <3>1 DEF ProcessingHeld
    <2> QED
      BY <1>1, <2>1, <2>2, <2>4, <2>6, <2>7, <2>9, <2>10
         DEF ProcsInv, Started, NoAbandonedProcess, InitOnce, Deathless, NoDeath
  <1> QED  BY <1>3, <1>4

(* What follows one insertion, or two.                                     *)
LEMMA InsertedOne ==
    ASSUME NEW q \in Seq(EntrySet), NEW d \in EntrySet, NEW r, r = Append(q, d)
    PROVE  /\ \A i \in DOMAIN q : i \in DOMAIN r /\ r[i] = q[i]
           /\ \E i \in DOMAIN r : r[i] = d
           /\ \A i \in DOMAIN r : r[i] = d \/ \E k \in DOMAIN q : r[i] = q[k]
  <1>0. Len(q) \in Nat /\ DOMAIN q = 1 .. Len(q)
    OBVIOUS
  <1>1. DOMAIN r = 1 .. Len(q) + 1 /\ r[Len(q) + 1] = d /\ \A i \in 1 .. Len(q) : r[i] = q[i]
    OBVIOUS
  <1> QED  BY <1>0, <1>1

(* A suspension enters two.                                                *)
LEMMA InsertedTwo ==
    ASSUME NEW q \in Seq(EntrySet), NEW d \in EntrySet, NEW e \in EntrySet
    PROVE  q \o <<d, e>> = Append(Append(q, d), e)
  <1>0. Len(q) \in Nat /\ DOMAIN q = 1 .. Len(q)
    OBVIOUS
  <1>1. Len(q \o <<d, e>>) = Len(q) + 2 /\ Len(Append(Append(q, d), e)) = Len(q) + 2
    OBVIOUS
  <1>2. q \o <<d, e>> \in Seq(EntrySet) /\ Append(Append(q, d), e) \in Seq(EntrySet)
    OBVIOUS
  <1>3. ASSUME NEW i \in 1 .. Len(q) + 2
        PROVE  (q \o <<d, e>>)[i] = Append(Append(q, d), e)[i]
    <2>1. i \in 1 .. Len(q) \/ i = Len(q) + 1 \/ i = Len(q) + 2
      BY <1>0
    <2> QED  BY <1>0, <2>1
  <1> QED  BY <1>1, <1>2, <1>3

(* A task arrives, and may suspend the one that is running.                *)
LEMMA ReceiveTaskProcs ==
    ASSUME AgentInv, ProcsInv, NEW t \in Task, ReceiveTask(t)
    PROVE  ProcsInv'
  <1>1. TypeOK /\ up /\ HeldInProcessing /\ SuspendedHolders /\ HoldersAlive /\ Entered /\ SuspendedWaits
        /\ BusyLocked /\ Started /\ NoAbandonedProcess /\ PriorityRespected /\ InitOnce
    BY DEF AgentInv, ProcsInv, ReceiveTask
  <1>2. UNCHANGED <<up, processing, locked, looping, storing, channel>>
    BY DEF ReceiveTask, OnTaskNew, waits
  <1>3. Fragile = {} \/ budget["death"] = 0 => Fragile = {} \/ budget'["death"] = 0
    BY <1>1 DEF ReceiveTask, Spend, TypeOK, Bounded
  <1>4. entries \in Seq(EntrySet)
    BY <1>1 DEF TypeOK, EntrySet
  <1>5. CASE CurrentTask = NoTask \/ Priority[t] <= Priority[CurrentTask]
    <2>1. /\ entries' = Append(entries, Entry(t, FALSE))
          /\ payload' = payload \cup {t}
          /\ UNCHANGED <<current, suspended, initialized, htask, process>>
      BY <1>5 DEF ReceiveTask, OnTaskNew, holders
    <2>2. CurrentTask' = CurrentTask
      BY <2>1 DEF CurrentTask
    <2>3. Entry(t, FALSE) \in EntrySet /\ Entry(t, FALSE).task = t
      BY DEF Entry, EntrySet
    <2>4. /\ \A i \in DOMAIN entries : i \in DOMAIN entries' /\ entries'[i] = entries[i]
          /\ \E i \in DOMAIN entries' : entries'[i] = Entry(t, FALSE)
          /\ \A i \in DOMAIN entries' : entries'[i] = Entry(t, FALSE) \/ \E k \in DOMAIN entries : entries'[i] = entries[k]
      <3>1. PICK d \in EntrySet : d = Entry(t, FALSE)
        BY <2>3
      <3>2. PICK q \in Seq(EntrySet) : q = entries
        BY <1>4
      <3>3. PICK r : r = entries'
        OBVIOUS
      <3>4. r = Append(q, d)
        BY <2>1, <3>1, <3>2, <3>3
      <3>5. /\ \A i \in DOMAIN q : i \in DOMAIN r /\ r[i] = q[i]
            /\ \E i \in DOMAIN r : r[i] = d
            /\ \A i \in DOMAIN r : r[i] = d \/ \E k \in DOMAIN q : r[i] = q[k]
        BY <3>4, InsertedOne
      <3> QED  BY <3>1, <3>2, <3>3, <3>5, Zenon
    <2>e. Entered'
      <3>1. ASSUME NEW x \in payload'
            PROVE  \E i \in DOMAIN entries' : entries'[i].task = x
        BY <1>1, <2>1, <2>3, <2>4 DEF Entered
      <3> QED  BY <3>1 DEF Entered
    <2>5. PriorityRespected'
      BY <1>1, <1>5, <2>2, <2>3, <2>4 DEF PriorityRespected
    <2>6. SuspendedWaits' /\ BusyLocked' /\ (NoDeath => LockSound') /\ ((NoForce \/ NoDeath) => ProcessingHeld')
      BY <1>2, <2>1, <2>2 DEF ProcsInv, SuspendedWaits, BusyLocked, LockSound, ProcessingHeld
    <2> QED
      BY <1>2, <1>3, <2>1, <2>e, <2>5, <2>6
         DEF ProcsInv, Started, NoAbandonedProcess, StoringSound, Deathless, InitOnce
  <1>6. CASE ~ (CurrentTask = NoTask \/ Priority[t] <= Priority[CurrentTask])
    <2> DEFINE u == CurrentTask
    <2>1. /\ entries' = entries \o <<Entry(t, FALSE), Entry(u, TRUE)>>
          /\ payload' = payload \cup {t, u}
          /\ suspended' = [suspended EXCEPT ![u] = current]
          /\ StartNewProcessor(NoProc)
      BY <1>6 DEF ReceiveTask, OnTaskNew, OnSuspendTask
    <2>2. current \in Proc /\ current # NoProc /\ u = htask[current] /\ u \in Task /\ u \in processing
      BY <1>1, <1>6, CurrentFact DEF HeldInProcessing
    <2>3. locked /\ looping = "lock" /\ current \in initialized
      BY <1>1, <1>6 DEF BusyLocked
    <2>4. initialized' = initialized
      <3>1. NoProc \notin initialized
        BY <1>1, NoProcFact DEF TypeOK
      <3> QED  BY <2>1, <3>1, StartInitialized
    <2>5. /\ current' \in Unused /\ htask' = htask
          /\ \A p \in Proc : process'[p] = IF p = current' THEN "starting" ELSE process[p]
      BY <2>1, <1>1, StartType, NoProcFact DEF TypeOK
    <2>6. /\ current' \in Proc /\ current' # NoProc /\ current' # current /\ htask[current'] = NoTask
          /\ current' \notin initialized /\ channel[current'] = <<>>
      BY <1>1, <2>5, UnusedFacts
    <2>7. CurrentTask' = NoTask
      BY <2>5, <2>6 DEF CurrentTask
    <2>8. Entered'
      <3>1. Entry(t, FALSE) \in EntrySet /\ Entry(t, FALSE).task = t
            /\ Entry(u, TRUE) \in EntrySet /\ Entry(u, TRUE).task = u
        BY <2>2 DEF Entry, EntrySet
      <3>2. /\ \A i \in DOMAIN entries : i \in DOMAIN entries' /\ entries'[i] = entries[i]
            /\ \E i \in DOMAIN entries' : entries'[i] = Entry(t, FALSE)
            /\ \E i \in DOMAIN entries' : entries'[i] = Entry(u, TRUE)
        <4>1. PICK d \in EntrySet : d = Entry(t, FALSE)
          BY <3>1
        <4>2. PICK e \in EntrySet : e = Entry(u, TRUE)
          BY <3>1
        <4>3. PICK q \in Seq(EntrySet) : q = entries
          BY <1>4
        <4>4. PICK r : r = entries'
          OBVIOUS
        <4>5. r = Append(Append(q, d), e)
          BY <2>1, <4>1, <4>2, <4>3, <4>4, InsertedTwo
        <4>6. PICK o \in Seq(EntrySet) : o = Append(q, d)
          <5>1. Append(q, d) \in Seq(EntrySet)
            OBVIOUS
          <5> QED  BY <5>1
        <4>7. /\ \A i \in DOMAIN q : i \in DOMAIN o /\ o[i] = q[i]
              /\ \E i \in DOMAIN o : o[i] = d
          BY <4>6, InsertedOne
        <4>8. r = Append(o, e)
          BY <4>5, <4>6
        <4>9. /\ \A i \in DOMAIN o : i \in DOMAIN r /\ r[i] = o[i]
              /\ \E i \in DOMAIN r : r[i] = e
          BY <4>8, InsertedOne
        <4>10. /\ \A i \in DOMAIN q : i \in DOMAIN r /\ r[i] = q[i]
               /\ \E i \in DOMAIN r : r[i] = d
          BY <4>7, <4>9
        <4> QED  BY <4>1, <4>2, <4>3, <4>4, <4>9, <4>10, Zenon
      <3> HIDE DEF u
      <3>3. ASSUME NEW x \in payload'
            PROVE  \E i \in DOMAIN entries' : entries'[i].task = x
        BY <1>1, <2>1, <3>1, <3>2 DEF Entered
      <3> QED  BY <3>3 DEF Entered
    <2>9. SuspendedWaits'
      BY <1>1, <1>2, <2>1, <2>2, <2>3, <2>4 DEF SuspendedWaits, TypeOK
    <2>10. Started' /\ (Deathless')
      BY <1>1, <1>2, <1>3, <2>4, <2>5, <2>6 DEF ProcsInv, Started, Deathless, TypeOK
    <2>11. NoAbandonedProcess'
      <3>1. \A v \in Task : suspended[v] # NoProc => v # u
        BY <1>1, <2>2, NoTaskAssumption DEF SuspendedHolders, HoldersAlive, HeldInProcessing, TypeOK
      <3>2. suspended'[u] = current /\ \A v \in Task : suspended[v] # NoProc => suspended'[v] = suspended[v]
        BY <1>1, <2>1, <2>2, <3>1 DEF TypeOK
      <3> QED  BY <1>1, <2>2, <2>5, <3>2, NoProcFact DEF NoAbandonedProcess
    <2>12. InitOnce'
      BY <1>1, <1>2, <2>3 DEF InitOnce
    <2>13. ProcessingHeld => ProcessingHeld'
      <3>1. \A v \in Task : suspended'[v] # NoProc <=> v = u \/ suspended[v] # NoProc
        BY <1>1, <2>1, <2>2 DEF TypeOK
      <3> QED  BY <1>2, <2>2, <2>7, <3>1, NoTaskAssumption DEF ProcessingHeld
    <2>14. LockSound' /\ BusyLocked' /\ PriorityRespected' /\ (StoringSound')
      BY <1>2, <2>3, <2>4, <2>6, <2>7 DEF ProcsInv, LockSound, BusyLocked, PriorityRespected, StoringSound
    <2> QED
      BY <2>8, <2>9, <2>10, <2>11, <2>12, <2>13, <2>14 DEF ProcsInv
  <1> QED  BY <1>5, <1>6

(* on_cancel_task on the books of the processors.                          *)
LEMMA ReceiveCancelProcs ==
    ASSUME AgentInv, ProcsInv, NEW t \in Task, NEW force \in BOOLEAN, ReceiveCancel(t, force)
    PROVE  ProcsInv'
  <1>1. TypeOK /\ up /\ HeldInProcessing /\ SuspendedHolders /\ HoldersAlive /\ Entered /\ SuspendedWaits
        /\ BusyLocked /\ Started /\ NoAbandonedProcess /\ PriorityRespected /\ InitOnce /\ ForcibleSound /\ Budgets
    BY DEF AgentInv, ProcsInv, ReceiveCancel
  <1>2. /\ force => t \in Forcible /\ ~ NoForce
        /\ UNCHANGED <<up, locked, looping, storing, channel>>
    BY <1>1 DEF ReceiveCancel, OnCancelTask, Spend, Budgets, waits, TypeOK, Bounded
  <1>3. Fragile = {} \/ budget["death"] = 0 => Fragile = {} \/ budget'["death"] = 0
    BY <1>1 DEF ReceiveCancel, Spend, TypeOK, Bounded
  <1>4. CASE UNCHANGED <<queue, processing, holders, process>>
    BY <1>2, <1>3, <1>4 DEF queue, holders, ProcsInv, Entered, SuspendedWaits, BusyLocked, Started,
       NoAbandonedProcess, PriorityRespected, StoringSound, Deathless, ProcessingHeld, LockSound, InitOnce, CurrentTask
  <1>5. CASE t \notin processing /\ t \notin payload
    BY <1>4, <1>5 DEF ReceiveCancel, OnCancelTask
  <1>6. CASE t \in processing /\ ~ force
    BY <1>4, <1>6 DEF ReceiveCancel, OnCancelTask
  <1>7. CASE t \in processing /\ force
    <2>1. processing' = processing \ {t} /\ OnCancelProcessing(t) /\ UNCHANGED <<entries, payload>>
      BY <1>7, <1>1 DEF ReceiveCancel, OnCancelTask, queue
    <2>2. ~ NoForce /\ suspended[t] = NoProc
      BY <1>1, <1>2, <1>7 DEF ForcibleSound
    <2>3. CASE CurrentTask = t
      <3>1. StartNewProcessor(current) /\ UNCHANGED suspended
        BY <2>1, <2>3 DEF OnCancelProcessing
      <3>2. current \in Proc /\ current # NoProc /\ htask[current] = t
        BY <2>3, <1>1, CurrentFact, NoTaskAssumption
      <3>3. locked /\ looping = "lock" /\ current \in initialized
        BY <1>1, <2>3, NoTaskAssumption DEF BusyLocked
      <3>4. /\ current' \in Unused /\ initialized' = initialized \ {current}
            /\ htask' = [p \in Proc |-> IF p = current THEN NoTask ELSE htask[p]]
            /\ \A p \in Proc : process'[p] = IF p = current THEN "free"
                                             ELSE IF p = current' THEN "starting"
                                             ELSE process[p]
        BY <3>1, <1>1, StartType, StartInitialized
      <3>5. /\ current' \in Proc /\ current' # NoProc /\ current' # current /\ htask[current'] = NoTask
            /\ current' \notin initialized /\ channel[current'] = <<>>
        BY <1>1, <3>4, UnusedFacts
      <3>6. CurrentTask' = NoTask
        BY <3>4, <3>5 DEF CurrentTask
      <3>7. SuspendedWaits'
        BY <1>1, <2>1, <2>2, <3>1, <3>4 DEF SuspendedWaits, HoldersAlive
      <3>8. Started' /\ (Deathless')
        BY <1>1, <1>2, <1>3, <3>4, <3>5 DEF ProcsInv, Started, Deathless, TypeOK
      <3>9. NoAbandonedProcess'
        BY <1>1, <3>1, <3>4 DEF NoAbandonedProcess
      <3>10. InitOnce'
        BY <1>1, <1>2, <3>3 DEF InitOnce
      <3>11. NoDeath => ProcessingHeld'
        <4>1. NoDeath => ProcessingHeld /\ \A c \in DOMAIN storing : storing[c] = NoTask
          BY DEF ProcsInv, Deathless
        <4> QED  BY <1>1, <1>2, <2>1, <2>2, <2>3, <3>1, <3>6, <4>1, NoTaskAssumption DEF ProcessingHeld
      <3>12. LockSound' /\ BusyLocked' /\ PriorityRespected' /\ (StoringSound') /\ (Entered')
        BY <1>1, <1>2, <2>1, <3>3, <3>4, <3>5, <3>6
           DEF ProcsInv, LockSound, BusyLocked, PriorityRespected, StoringSound, Entered
      <3> QED  BY <2>2, <3>7, <3>8, <3>9, <3>10, <3>11, <3>12 DEF ProcsInv, NoForce, NoDeath
    <2>4. CASE CurrentTask # t
      <3>1. UNCHANGED <<current, suspended, initialized, htask, process>>
        BY <2>1, <2>2, <2>4 DEF OnCancelProcessing, holders
      <3>2. ~ NoDeath
        BY <1>1, <1>7, <2>2, <2>4, NoTaskAssumption DEF ProcsInv, ProcessingHeld, Deathless
      <3>3. SuspendedWaits'
        BY <1>1, <2>1, <2>2, <3>1 DEF SuspendedWaits
      <3> QED
        BY <1>2, <1>3, <2>1, <2>2, <3>1, <3>2, <3>3 DEF ProcsInv, Entered, BusyLocked, Started, NoForce, NoDeath,
           NoAbandonedProcess, PriorityRespected, StoringSound, Deathless, InitOnce, CurrentTask
    <2> QED  BY <2>3, <2>4
  <1>8. CASE t \notin processing /\ t \in payload
    <2>1. Remove(t) /\ UNCHANGED <<processing, current, suspended, initialized, htask, process>>
      BY <1>8 DEF ReceiveCancel, OnCancelTask, holders
    <2>2. /\ \A j \in DOMAIN entries' : \E k \in DOMAIN entries : entries'[j] = entries[k]
          /\ Entered' /\ payload' = payload \ {t}
      BY <1>1, <2>1, RemovedEntry
    <2>3. CurrentTask' = CurrentTask
      BY <2>1 DEF CurrentTask
    <2>4. SuspendedWaits' /\ PriorityRespected'
      BY <1>1, <1>8, <2>1, <2>2, <2>3 DEF SuspendedWaits, PriorityRespected
    <2> QED
      BY <1>2, <1>3, <2>1, <2>2, <2>3, <2>4 DEF ProcsInv, BusyLocked, Started,
         NoAbandonedProcess, StoringSound, Deathless, ProcessingHeld, LockSound, InitOnce
  <1> QED  BY <1>5, <1>6, <1>7, <1>8

(* A message less: a ProcessorInitialized that is left was there before.   *)
LEMMA TailInits ==
    ASSUME AgentInv, InitOnce, NEW p \in Proc, channel[p] # <<>>, channel' = [channel EXCEPT ![p] = Tail(@)]
    PROVE  /\ \A q \in Proc : \A i \in DOMAIN channel'[q] : channel'[q][i] = "init" =>
                 /\ \E k \in DOMAIN channel[q] : channel[q][k] = "init"
                 /\ \A j \in DOMAIN channel'[q] : channel'[q][j] = "init" => i = j
           /\ Head(channel[p]) = "init" =>
                 /\ p = current /\ p \notin initialized /\ process[p] # "starting"
                 /\ \A q \in Proc : \A i \in DOMAIN channel'[q] : channel'[q][i] # "init"
  <1>1. /\ \A q \in Proc : q # p => channel'[q] = channel[q]
        /\ \A i \in DOMAIN channel'[p] :
              i \in Int /\ i + 1 \in DOMAIN channel[p] /\ channel'[p][i] = channel[p][i + 1]
    BY ReceivedChannel DEF AgentInv
  <1>2. 1 \in DOMAIN channel[p] /\ Head(channel[p]) = channel[p][1]
    BY DEF AgentInv, TypeOK
  <1>3. ASSUME NEW q \in Proc, NEW i \in DOMAIN channel'[q], channel'[q][i] = "init"
        PROVE  /\ \E k \in DOMAIN channel[q] : channel[q][k] = "init"
               /\ \A j \in DOMAIN channel'[q] : channel'[q][j] = "init" => i = j
               /\ Head(channel[p]) # "init"
    <2>1. CASE q # p
      <3>1. channel'[q] = channel[q]
        BY <1>1, <2>1
      <3>2. q = current
        BY <1>3, <3>1 DEF InitOnce
      <3>3. Head(channel[p]) # "init"
        BY <1>2, <2>1, <3>2 DEF InitOnce
      <3> QED  BY <1>3, <3>1, <3>3 DEF InitOnce
    <2>2. CASE q = p
      <3>1. i \in Int /\ i + 1 \in DOMAIN channel[p] /\ channel[p][i + 1] = "init"
        BY <1>1, <1>3, <2>2
      <3>2. \A j \in DOMAIN channel[p] : channel[p][j] = "init" => i + 1 = j
        BY <3>1 DEF InitOnce
      <3>3. ASSUME NEW j \in DOMAIN channel'[q], channel'[q][j] = "init"
            PROVE  i = j
        <4>1. j \in Int /\ j + 1 \in DOMAIN channel[p] /\ channel[p][j + 1] = "init"
          BY <1>1, <2>2, <3>3
        <4>2. i + 1 = j + 1
          BY <3>2, <4>1
        <4> QED  BY <3>1, <4>1, <4>2
      <3>4. i \in 1 .. Len(channel'[p])
        <4>1. channel'[p] \in Seq(Task \cup {"init"})
          BY ReceivedChannel DEF AgentInv, TypeOK
        <4> QED  BY <4>1, <1>3, <2>2
      <3>5. i + 1 # 1
        BY <3>1, <3>4
      <3> QED  BY <1>2, <2>2, <3>1, <3>2, <3>3, <3>5
    <2> QED  BY <2>1, <2>2
  <1>4. Head(channel[p]) = "init" => p = current /\ p \notin initialized /\ process[p] # "starting"
    BY <1>2 DEF InitOnce
  <1> QED  BY <1>3, <1>4

(* ProcessorInitialized and TaskResult.                                    *)
LEMMA ReceiveFromProcessorProcs ==
    ASSUME AgentInv, ProcsInv, NEW p \in Proc, ReceiveFromProcessor(p)
    PROVE  ProcsInv'
  <1> DEFINE m == Head(channel[p])
  <1>1. TypeOK /\ up /\ HeldInProcessing /\ StoringInProcessing /\ SuspendedHolders /\ HoldersAlive
        /\ ResultsOfHolders /\ Entered /\ SuspendedWaits /\ BusyLocked /\ Started /\ NoAbandonedProcess
        /\ PriorityRespected /\ InitOnce
    BY DEF AgentInv, ProcsInv, ReceiveFromProcessor
  <1>2. /\ channel[p] # <<>> /\ channel' = [channel EXCEPT ![p] = Tail(@)] /\ UNCHANGED budget
        /\ IF m = "init" THEN OnProcessorInitialized(p) ELSE OnTaskResult(p, m)
    BY DEF ReceiveFromProcessor
  <1>3. /\ \A q \in Proc : \A i \in DOMAIN channel'[q] : channel'[q][i] = "init" =>
              /\ \E k \in DOMAIN channel[q] : channel[q][k] = "init"
              /\ \A j \in DOMAIN channel'[q] : channel'[q][j] = "init" => i = j
        /\ m = "init" =>
              /\ p = current /\ p \notin initialized /\ process[p] # "starting"
              /\ \A q \in Proc : \A i \in DOMAIN channel'[q] : channel'[q][i] # "init"
    BY <1>1, <1>2, TailInits
  <1>4. m \in Task \cup {"init"} /\ (m # "init" /\ process[p] # "free" => htask[p] = m)
    BY <1>1, <1>2, ReceivedChannel
  <1>5. ASSUME \A q \in Proc : q = current => current' = current /\ (q \in initialized' => q \in initialized)
                                              /\ process'[q] = process[q]
        PROVE  InitOnce'
    BY <1>1, <1>3, <1>5 DEF InitOnce
  <1>6. CASE Raise
    BY <1>2, <1>6, RaiseProcs
  <1>7. CASE m = "init"
    <2>1. OnProcessorInitialized(p) /\ current \notin initialized /\ p = current
      BY <1>2, <1>3, <1>7
    <2>2. CASE ~ locked
      BY <2>1, <2>2, <1>6 DEF OnProcessorInitialized
    <2>3. CASE locked
      <3>1. /\ initialized' = initialized \cup {current} /\ locked' = FALSE
            /\ UNCHANGED <<up, entries, payload, processing, current, suspended, htask, looping, storing, process>>
        BY <2>1, <2>3 DEF OnProcessorInitialized, queue
      <3>2. CurrentTask = NoTask /\ CurrentTask' = NoTask
        BY <1>1, <2>1, <3>1 DEF BusyLocked, CurrentTask
      <3>3. Started'
        BY <1>1, <1>3, <1>7, <2>1, <3>1, NoProcFact DEF Started, HoldersAlive
      <3>4. InitOnce'
        BY <1>3, <1>7 DEF InitOnce
      <3>5. NoDeath => LockSound'
        BY <2>1, <3>1, <3>2 DEF ProcsInv, LockSound
      <3>6. SuspendedWaits' /\ BusyLocked' /\ PriorityRespected' /\ (ProcessingHeld => ProcessingHeld')
        BY <1>1, <3>1, <3>2 DEF SuspendedWaits, BusyLocked, PriorityRespected, ProcessingHeld
      <3> QED
        BY <1>2, <3>1, <3>3, <3>4, <3>5, <3>6
           DEF ProcsInv, Entered, NoAbandonedProcess, StoringSound, Deathless
    <2> QED  BY <2>2, <2>3
  <1>8. CASE m # "init"
    <2>1. OnTaskResult(p, m) /\ m \in Task
      BY <1>2, <1>4, <1>8
    <2>2. CASE CurrentTask = m
      <3>1. CASE current # p \/ ~ locked \/ m \notin processing
        BY <2>1, <2>2, <3>1, <1>6 DEF OnTaskResult
      <3>2. CASE ~ (current # p \/ ~ locked \/ m \notin processing)
        <4>1. /\ htask' = [htask EXCEPT ![current] = NoTask]
              /\ TaskManagerResult(m)
              /\ locked' = FALSE
              /\ UNCHANGED <<up, current, suspended, initialized, looping, storing, process>>
          BY <2>1, <2>2, <3>2 DEF OnTaskResult
        <4>2. /\ \A j \in DOMAIN entries' : \E k \in DOMAIN entries : entries'[j] = entries[k]
              /\ Entered' /\ payload' = payload \ {m} /\ processing' = processing \ {m}
          BY <1>1, <2>1, <4>1, ResultEntry
        <4>3. CurrentTask' = NoTask
          BY <1>1, <3>2, <4>1, NoProcFact DEF CurrentTask, TypeOK
        <4>4. suspended[m] = NoProc
          BY <1>1, <2>1, <2>2, CurrentNotSuspended
        <4>5. SuspendedWaits'
          BY <1>1, <4>1, <4>2, <4>4 DEF SuspendedWaits
        <4>6. \A c \in DOMAIN storing : storing[c] # m
          BY <1>1, <2>1, <2>2, CurrentFact, NoTaskAssumption DEF StoringInProcessing
        <4>7. ProcessingHeld => ProcessingHeld'
          BY <1>1, <2>1, <2>2, <4>1, <4>2, <4>3, <4>4, <4>6, NoTaskAssumption DEF ProcessingHeld
        <4>8. NoDeath => LockSound'
          BY <1>1, <2>1, <2>2, <4>1, <4>3, NoTaskAssumption DEF ProcsInv, LockSound, BusyLocked
        <4>9. InitOnce' /\ BusyLocked' /\ PriorityRespected'
          BY <1>5, <4>1, <4>3 DEF BusyLocked, PriorityRespected
        <4> QED
          BY <1>2, <4>1, <4>2, <4>5, <4>7, <4>8, <4>9
             DEF ProcsInv, Started, NoAbandonedProcess, StoringSound, Deathless
      <3> QED  BY <3>1, <3>2
    <2>3. CASE CurrentTask # m /\ suspended[m] # NoProc
      <3>1. CASE suspended[m] # p \/ m \notin processing
        BY <2>1, <2>3, <3>1, <1>6 DEF OnTaskResult
      <3>2. CASE suspended[m] = p /\ m \in processing
        <4>1. /\ KillProcessor(p)
              /\ suspended' = [suspended EXCEPT ![m] = NoProc]
              /\ TaskManagerResult(m)
              /\ UNCHANGED <<up, current, locked, looping, storing>>
          BY <2>1, <2>3, <3>2 DEF OnTaskResult, waits
        <4>2. /\ \A j \in DOMAIN entries' : \E k \in DOMAIN entries : entries'[j] = entries[k]
              /\ Entered' /\ payload' = payload \ {m} /\ processing' = processing \ {m}
          BY <1>1, <2>1, <4>1, ResultEntry
        <4>3. /\ initialized' = initialized \ {p} /\ htask[p] = m /\ p # current /\ p # NoProc
              /\ htask' = [q \in Proc |-> IF q = p THEN NoTask ELSE htask[q]]
              /\ process' = [q \in Proc |-> IF q = p THEN "free" ELSE process[q]]
          <5>1. initialized' = initialized \ {p}
            BY <4>1 DEF KillProcessor
          <5>2. htask[p] = m /\ p # current /\ p # NoProc
            BY <1>1, <2>1, <2>3, <3>2 DEF SuspendedHolders, HoldersAlive
          <5> QED  BY <1>1, <4>1, <5>1, <5>2, KillType
        <4>4. CurrentTask' = CurrentTask
          BY <1>1, <4>1, <4>3 DEF CurrentTask, TypeOK
        <4>5. \A u \in Task : u # m /\ suspended[u] # NoProc => suspended[u] # p
          BY <1>1, <4>3 DEF SuspendedHolders
        <4>6. suspended'[m] = NoProc /\ \A u \in Task : u # m => suspended'[u] = suspended[u]
          BY <1>1, <2>1, <4>1 DEF TypeOK
        <4>7. SuspendedWaits'
          BY <1>1, <4>2, <4>3, <4>5, <4>6 DEF SuspendedWaits
        <4>8. Started'
          BY <1>1, <4>3 DEF Started, TypeOK
        <4>9. NoAbandonedProcess'
          BY <1>1, <2>1, <3>2, <4>1, <4>3, <4>6 DEF NoAbandonedProcess
        <4>10. InitOnce'
          BY <1>5, <4>1, <4>3
        <4>11. \A c \in DOMAIN storing : storing[c] # m
          BY <1>1, <2>1, <4>3, NoTaskAssumption DEF StoringInProcessing
        <4>12. ProcessingHeld => ProcessingHeld'
          BY <1>1, <2>1, <2>3, <4>1, <4>2, <4>4, <4>6, <4>11 DEF ProcessingHeld
        <4>13. LockSound => LockSound'
          BY <4>1, <4>3, <4>4 DEF LockSound
        <4>14. BusyLocked' /\ PriorityRespected' /\ StoringSound'
          BY <1>1, <4>1, <4>2, <4>3, <4>4 DEF ProcsInv, BusyLocked, PriorityRespected, StoringSound
        <4>15. Deathless'
          BY <1>2, <4>1, <4>3 DEF ProcsInv, Deathless
        <4> QED
          BY <4>2, <4>7, <4>8, <4>9, <4>10, <4>12, <4>13, <4>14, <4>15 DEF ProcsInv
      <3> QED  BY <3>1, <3>2
    <2>4. CASE CurrentTask # m /\ suspended[m] = NoProc
      <3>1. UNCHANGED <<up, entries, payload, processing, current, suspended, initialized, htask,
                        locked, looping, storing, process>>
        BY <2>1, <2>4 DEF OnTaskResult, queue, holders, waits
      <3>2. InitOnce'
        BY <1>5, <3>1
      <3> QED
        BY <1>2, <3>1, <3>2 DEF ProcsInv, Entered, SuspendedWaits, BusyLocked, Started,
           NoAbandonedProcess, PriorityRespected, StoringSound, Deathless, ProcessingHeld, LockSound, CurrentTask
    <2> QED  BY <2>2, <2>3, <2>4
  <1> QED  BY <1>7, <1>8

(* The head of the queue has the highest priority (__enqueue_task).        *)
LEMMA HeadIsHighest ==
    ASSUME TypeOK, NEW i \in DOMAIN entries, IsHead(entries, i)
    PROVE  \A j \in DOMAIN entries : Priority[entries[j].task] <= Priority[entries[i].task]
  <1> SUFFICES ASSUME NEW j \in DOMAIN entries
               PROVE  Priority[entries[j].task] <= Priority[entries[i].task]
    OBVIOUS
  <1>1. entries[i] \in EntrySet /\ entries[j] \in EntrySet
    <2>1. entries \in Seq(EntrySet)
      BY DEF TypeOK, EntrySet
    <2> QED  BY <2>1
  <1>2. Priority[entries[i].task] \in Nat /\ Priority[entries[j].task] \in Nat
    BY <1>1, PriorityAssumption DEF EntrySet
  <1>3. QueuePriority(entries[i]) <= QueuePriority(entries[j])
    <2>1. QueuePriority(entries[i]) \in Int /\ QueuePriority(entries[j]) \in Int
      BY <1>2 DEF QueuePriority
    <2> QED  BY <2>1 DEF IsHead
  <1> QED  BY <1>2, <1>3 DEF QueuePriority

(* The task loop takes the head of the queue and starts or resumes it.     *)
LEMMA TakeTaskProcs ==
    ASSUME AgentInv, ProcsInv, TakeTask
    PROVE  ProcsInv'
  <1>1. TypeOK /\ up /\ looping = "queue" /\ HeldInProcessing /\ StoringInProcessing /\ SuspendedHolders
        /\ HoldersAlive /\ ResultsOfHolders /\ Entered /\ SuspendedWaits /\ BusyLocked /\ Started
        /\ NoAbandonedProcess /\ PriorityRespected /\ InitOnce
    BY DEF AgentInv, ProcsInv, TakeTask
  <1>2. UNCHANGED <<channel, budget>>
    BY DEF TakeTask
  <1>3. PICK i \in DOMAIN entries :
          /\ IsHead(entries, i)
          /\ IF \/ entries[i].task \notin payload \/ ~ Ready
                \/ entries[i].task \notin processing /\ CurrentTask # NoTask
             THEN Raise
             ELSE /\ entries' = Drop(entries, i)
                  /\ payload' = payload \ {entries[i].task}
                  /\ IF entries[i].task \in processing THEN OnResumeTask(entries[i].task)
                                                       ELSE OnTask(entries[i].task)
                  /\ UNCHANGED <<up, sent>>
    BY DEF TakeTask
  <1> DEFINE t == entries[i].task
             s == suspended[t]
  <1>4. t \in Task
    <2>1. entries \in Seq(EntrySet)
      BY <1>1 DEF TypeOK, EntrySet
    <2>2. entries[i] \in EntrySet
      BY <2>1
    <2> QED  BY <2>2 DEF EntrySet
  <1>5. \A j \in DOMAIN entries : Priority[entries[j].task] <= Priority[t]
    BY <1>1, <1>3, HeadIsHighest
  <1>6. CASE t \notin payload \/ ~ Ready \/ (t \notin processing /\ CurrentTask # NoTask)
    BY <1>2, <1>3, <1>6, RaiseProcs
  <1>7. CASE ~ (t \notin payload \/ ~ Ready \/ (t \notin processing /\ CurrentTask # NoTask))
    <2>1. /\ entries' = Drop(entries, i) /\ payload' = payload \ {t} /\ UNCHANGED up
          /\ IF t \in processing THEN OnResumeTask(t) ELSE OnTask(t)
      BY <1>3, <1>7
    <2>2. /\ \A j \in DOMAIN entries' : \E k \in DOMAIN entries : entries'[j] = entries[k]
          /\ Entered'
      BY <1>1, <2>1, DroppedEntry
    <2> HIDE DEF t
    <2>3. \A j \in DOMAIN entries' : Priority[entries'[j].task] <= Priority[t]
      BY <1>5, <2>2
    <2>4. /\ current \in initialized /\ current \in Proc /\ current # NoProc /\ locked
          /\ CurrentTask = NoTask /\ htask[current] = NoTask
      BY <1>1, <1>7, NoProcFact DEF Ready, TypeOK, BusyLocked, CurrentTask
    <2>5. storing["loop"] = NoTask
      BY <1>1 DEF ProcsInv, StoringSound
    <2>6. \A q \in Proc : \A k \in DOMAIN channel[q] : channel[q][k] # "init"
      BY <1>1, <2>4 DEF InitOnce
    <2>7. InitOnce'
      BY <1>2, <2>6 DEF InitOnce
    <2>8. CASE t \notin processing
      <3>1. /\ processing' = processing \cup {t}
            /\ htask' = [htask EXCEPT ![current] = t]
            /\ process' = IF process[current] = "idle" THEN [process EXCEPT ![current] = "busy"]
                                                       ELSE process
            /\ looping' = "lock"
            /\ UNCHANGED <<current, suspended, initialized, locked, storing>>
        BY <2>1, <2>8 DEF OnTask
      <3>2. CurrentTask' = t
        BY <1>1, <2>4, <3>1 DEF CurrentTask, TypeOK
      <3>3. SuspendedWaits'
        BY <1>1, <2>1, <2>8, <3>1 DEF SuspendedWaits
      <3>4. Started' /\ NoAbandonedProcess'
        BY <1>1, <2>4, <3>1 DEF Started, NoAbandonedProcess, TypeOK
      <3>5. Deathless'
        BY <1>1, <1>2, <2>4, <3>1 DEF ProcsInv, Deathless, TypeOK
      <3>6. ProcessingHeld => ProcessingHeld'
        BY <1>1, <1>4, <2>1, <2>4, <3>1, <3>2, NoTaskAssumption DEF ProcessingHeld
      <3>7. BusyLocked' /\ LockSound' /\ PriorityRespected' /\ StoringSound'
        BY <1>4, <2>3, <2>4, <2>5, <3>1, <3>2, NoTaskAssumption
           DEF ProcsInv, BusyLocked, LockSound, PriorityRespected, StoringSound
      <3> QED  BY <2>2, <2>7, <3>3, <3>4, <3>5, <3>6, <3>7 DEF ProcsInv
    <2>9. CASE t \in processing
      <3>1. OnResumeTask(t) /\ UNCHANGED processing
        BY <2>1, <2>9 DEF OnResumeTask
      <3>2. CASE s = NoProc
        <4>1. /\ looping' = "lock"
              /\ UNCHANGED <<current, suspended, initialized, htask, process, locked, storing>>
          BY <3>1, <3>2 DEF OnResumeTask, holders
        <4>2. CurrentTask' = NoTask
          BY <2>4, <4>1 DEF CurrentTask
        <4>3. ~ NoDeath
          BY <1>1, <1>4, <2>4, <2>9, <3>2, NoTaskAssumption DEF ProcsInv, ProcessingHeld, Deathless
        <4>4. SuspendedWaits'
          BY <1>1, <2>1, <3>1, <3>2, <4>1 DEF SuspendedWaits
        <4>5. BusyLocked' /\ PriorityRespected' /\ StoringSound' /\ (ProcessingHeld => ProcessingHeld')
          BY <1>1, <2>1, <2>4, <2>5, <3>1, <4>1, <4>2
             DEF ProcsInv, BusyLocked, PriorityRespected, StoringSound, ProcessingHeld
        <4> QED
          BY <1>2, <2>2, <2>7, <4>1, <4>3, <4>4, <4>5
             DEF ProcsInv, Started, NoAbandonedProcess, Deathless, NoDeath
      <3>3. CASE s # NoProc /\ process[s] = "dead"
        <4>1. OnFailingProcessor("loop", s) /\ looping' = "storing" /\ UNCHANGED locked
          BY <2>4, <3>1, <3>3 DEF OnResumeTask
        <4>2. s \in initialized /\ s \in Proc /\ htask[s] = t /\ s # current
          BY <1>1, <1>4, <3>3 DEF SuspendedWaits, SuspendedHolders, HoldersAlive, TypeOK
        <4>3. /\ \A u \in Task : suspended'[u] # NoProc =>
                    suspended'[u] = suspended[u] /\ u # htask[s] /\ suspended[u] \in initialized'
              /\ Started' /\ NoAbandonedProcess'
              /\ s # current => current' = current /\ CurrentTask' = CurrentTask
                                /\ (current \in initialized <=> current' \in initialized')
              /\ storing' = [storing EXCEPT !["loop"] = htask[s]]
          BY <1>1, <1>2, <4>1, <4>2, FailingFacts
        <4>4. ProcessingHeld => ProcessingHeld'
          BY <1>1, <1>2, <2>1, <2>5, <3>1, <4>1, <4>2, FailingHeld
        <4>5. ~ NoDeath
          BY <3>3, <4>2 DEF ProcsInv, Deathless
        <4>6. SuspendedWaits'
          BY <1>1, <2>1, <3>1, <4>2, <4>3 DEF SuspendedWaits
        <4>7. StoringSound'
          <5>1. storing'["loop"] = t /\ storing'["heartbeat"] = storing["heartbeat"] /\ t # NoTask
            BY <1>1, <1>4, <4>2, <4>3, NoTaskAssumption DEF TypeOK
          <5>2. storing["heartbeat"] # NoTask => storing["heartbeat"] # t
            BY <1>1, <4>2 DEF StoringInProcessing, TypeOK
          <5> QED  BY <4>1, <5>1, <5>2 DEF StoringSound
        <4>8. BusyLocked' /\ PriorityRespected'
          BY <2>4, <4>2, <4>3 DEF BusyLocked, PriorityRespected
        <4> QED
          BY <1>2, <2>2, <2>7, <4>3, <4>4, <4>5, <4>6, <4>7, <4>8 DEF ProcsInv, Deathless, NoDeath
      <3>4. CASE s # NoProc /\ process[s] # "dead"
        <4>1. /\ KillProcessor(current)
              /\ current' = s
              /\ suspended' = [suspended EXCEPT ![t] = NoProc]
              /\ looping' = "lock"
              /\ UNCHANGED <<locked, storing>>
          BY <2>4, <3>1, <3>4 DEF OnResumeTask
        <4>2. s \in initialized /\ s \in Proc /\ htask[s] = t /\ s # current
          BY <1>1, <1>4, <3>4 DEF SuspendedWaits, SuspendedHolders, HoldersAlive, TypeOK
        <4>3. /\ initialized' = initialized \ {current}
              /\ htask' = [p \in Proc |-> IF p = current THEN NoTask ELSE htask[p]]
              /\ process' = [p \in Proc |-> IF p = current THEN "free" ELSE process[p]]
          BY <1>1, <2>4, <4>1, KillType DEF KillProcessor
        <4>4. CurrentTask' = t
          BY <3>4, <4>1, <4>2, <4>3 DEF CurrentTask
        <4>5. suspended'[t] = NoProc /\ \A u \in Task : u # t => suspended'[u] = suspended[u]
          BY <1>1, <1>4, <4>1 DEF TypeOK
        <4>6. SuspendedWaits'
          BY <1>1, <2>1, <3>1, <4>3, <4>5 DEF SuspendedWaits, HoldersAlive
        <4>7. Started'
          BY <1>1, <4>3 DEF Started, TypeOK
        <4>8. NoAbandonedProcess'
          BY <1>1, <4>1, <4>2, <4>3, <4>5 DEF NoAbandonedProcess
        <4>9. Deathless'
          BY <1>2, <4>1, <4>3 DEF ProcsInv, Deathless
        <4>10. ProcessingHeld => ProcessingHeld'
          BY <1>1, <1>4, <2>1, <2>4, <3>1, <3>4, <4>1, <4>4, <4>5, NoTaskAssumption DEF ProcessingHeld
        <4>11. BusyLocked' /\ LockSound' /\ PriorityRespected' /\ StoringSound'
          BY <1>4, <2>3, <2>4, <2>5, <4>1, <4>2, <4>3, <4>4, NoTaskAssumption
             DEF ProcsInv, BusyLocked, LockSound, PriorityRespected, StoringSound
        <4> QED
          BY <2>2, <2>7, <4>6, <4>7, <4>8, <4>9, <4>10, <4>11 DEF ProcsInv
      <3> QED  BY <3>2, <3>3, <3>4
    <2> QED  BY <2>8, <2>9
  <1> QED  BY <1>6, <1>7

(* The books are in order at the start ...                                 *)
LEMMA ProcsInvInit == Init => ProcsInv
  <1> SUFFICES ASSUME Init PROVE ProcsInv
    OBVIOUS
  <1>1. CurrentTask = NoTask /\ \A p \in Proc : channel[p] = <<>> /\ process[p] = "free"
    BY DEF Init, CurrentTask
  <1>2. Entered /\ SuspendedWaits /\ BusyLocked /\ Started /\ NoAbandonedProcess /\ PriorityRespected /\ InitOnce
    BY <1>1 DEF Init, Entered, SuspendedWaits, BusyLocked, Started, NoAbandonedProcess, PriorityRespected, InitOnce
  <1>3. StoringSound /\ LockSound
    BY <1>1 DEF Init, StoringSound, LockSound
  <1>4. Deathless /\ ProcessingHeld
    BY <1>1, NoTaskAssumption DEF Init, Deathless, NoDeath, ProcessingHeld
  <1> QED  BY <1>2, <1>3, <1>4 DEF ProcsInv

(* ... and every step keeps them so.                                       *)
LEMMA ProcsInvNext ==
    ASSUME AgentInv, ProcsInv, [Next]_vars
    PROVE  ProcsInv'
  <1>1. CASE UNCHANGED vars
    BY <1>1 DEF ProcsInv, Entered, SuspendedWaits, BusyLocked, Started, NoAbandonedProcess, PriorityRespected,
       StoringSound, Deathless, InitOnce, ProcessingHeld, LockSound, CurrentTask,
       vars, queue, holders, waits, os, outside
  <1>2. CASE Agent
    BY <1>2, InitializeProcs, ReceiveFromProcessorProcs, DetectDeathProcs, FailureStoredProcs, WaitProcs,
       TakeTaskProcs DEF Agent
  <1>3. CASE up /\ Environment
    BY <1>3, ReceiveTaskProcs, ReceiveCancelProcs, BootProcs, FinishProcs, DieProcs DEF Environment
  <1> QED  BY <1>1, <1>2, <1>3 DEF Next, Quiet

(* There are at most as many suspended tasks as queue entries.             *)
LEMMA FewerSuspended ==
    ASSUME AgentInv, ProcsInv
    PROVE  Cardinality({t \in Task : suspended[t] # NoProc}) <= Len(entries)
  <1> DEFINE S == {t \in Task : suspended[t] # NoProc}
             E == {entries[i].task : i \in 1 .. Len(entries)}
  <1>1. Len(entries) \in Nat /\ DOMAIN entries = 1 .. Len(entries)
    BY DEF AgentInv, TypeOK
  <1>2. S \subseteq E
    <2> SUFFICES ASSUME NEW t \in S PROVE t \in E
      OBVIOUS
    <2>1. t \in payload
      BY DEF ProcsInv, SuspendedWaits
    <2>2. PICK i \in DOMAIN entries : entries[i].task = t
      BY <2>1 DEF ProcsInv, Entered
    <2>3. i \in 1 .. Len(entries)
      BY <1>1, <2>2
    <2> QED  BY <2>2, <2>3, Zenon
  <1>3. IsFiniteSet(1 .. Len(entries)) /\ Cardinality(1 .. Len(entries)) = Len(entries)
    <2>1. PICK n \in Nat : n = Len(entries)
      BY <1>1
    <2>2. IsFiniteSet(1 .. n) /\ Cardinality(1 .. n) = IF 1 > n THEN 0 ELSE n - 1 + 1
      BY FS_Interval
    <2> QED  BY <2>1, <2>2
  <1> DEFINE f == [i \in 1 .. Len(entries) |-> entries[i].task]
  <1>4. f \in Surjection(1 .. Len(entries), E)
    BY DEF Surjection
  <1>5. IsFiniteSet(E) /\ Cardinality(E) <= Len(entries)
    <2>1. IsFiniteSet(E) /\ Cardinality(E) <= Cardinality(1 .. Len(entries))
      BY <1>3, <1>4, FS_Surjection
    <2> QED  BY <1>3, <2>1
  <1>6. IsFiniteSet(S) /\ Cardinality(S) <= Cardinality(E)
    BY <1>2, <1>5, FS_Subset
  <1> QED  BY <1>1, <1>5, <1>6, FS_CardinalityType

(* What the invariant says of the processors.                              *)
LEMMA ProcsSound ==
    ASSUME AgentInv, ProcsInv, NoForce \/ NoDeath
    PROVE  ProcessorsSound
  <1>1. SuspendedIsQueued
    BY FewerSuspended DEF AgentInv, ProcsInv, SuspendedIsQueued, SuspendedWaits, SuspendedHolders, HoldersAlive
  <1>2. InitializedIsCurrent
    BY DEF ProcsInv, InitializedIsCurrent, InitOnce
  <1> QED  BY <1>1, <1>2 DEF AgentInv, ProcsInv, ProcessorsSound

-----------------------------------------------------------------------------
(* The books of the processors are sound in every run: suspended tasks are *)
(* queued, whoever initializes is the current processor, no process is     *)
(* left behind, and the tasks in processing are those somebody works on or *)
(* whose failure is being stored.  A forced cancel that meets a dying      *)
(* processor is excluded: it takes a task out of processing while its      *)
(* failure is being stored (ProcessorManager, TaskManager).                *)
THEOREM AgentProcessorsSound ==
    ASSUME ForceIsSafe, NoForce \/ NoDeath
    PROVE  Spec => []ProcessorsSound
  <1>1. Init => AgentInv /\ ProcsInv
    BY AgentInvInit, ProcsInvInit
  <1>2. AgentInv /\ ProcsInv /\ [Next]_vars => AgentInv' /\ ProcsInv'
    BY AgentInvNext, ProcsInvNext
  <1>3. AgentInv /\ ProcsInv => ProcessorsSound
    BY ProcsSound
  <1> QED  BY <1>1, <1>2, <1>3, PTL DEF Spec

(* No task ever waits behind a running one of a lower priority, whatever   *)
(* arrives, dies, is canceled, suspended or resumed (on_task_new and       *)
(* __suspend_if_priority_is_higher).                                       *)
THEOREM AgentPriority ==
    ASSUME ForceIsSafe
    PROVE  Spec => []PriorityRespected
  <1>1. Init => AgentInv /\ ProcsInv
    BY AgentInvInit, ProcsInvInit
  <1>2. AgentInv /\ ProcsInv /\ [Next]_vars => AgentInv' /\ ProcsInv'
    BY AgentInvNext, ProcsInvNext
  <1>3. AgentInv /\ ProcsInv => PriorityRespected
    BY DEF ProcsInv
  <1> QED  BY <1>1, <1>2, <1>3, PTL DEF Spec

(* As long as no processor dies, _can_accept_task_lock is taken for exactly *)
(* one reason and released when it is over: the agent neither deadlocks on *)
(* it nor sends a second task to a busy processor.                         *)
THEOREM AgentLock ==
    ASSUME ForceIsSafe, NoDeath
    PROVE  Spec => []LockSound
  <1>1. Init => AgentInv /\ ProcsInv
    BY AgentInvInit, ProcsInvInit
  <1>2. AgentInv /\ ProcsInv /\ [Next]_vars => AgentInv' /\ ProcsInv'
    BY AgentInvNext, ProcsInvNext
  <1>3. AgentInv /\ ProcsInv => LockSound
    BY DEF ProcsInv
  <1> QED  BY <1>1, <1>2, <1>3, PTL DEF Spec
=============================================================================
