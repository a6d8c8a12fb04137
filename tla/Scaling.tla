------------------------------- MODULE Scaling -------------------------------
(***************************************************************************)
(* How the number of workers follows the number of tasks: the scheduler's  *)
(* worker manager controller and its scaling policies, the capacity        *)
(* coordinator of a worker manager, and the provisioner that starts and    *)
(* stops worker processes on its own host (NativeWorkerProvisioner).       *)
(*                                                                         *)
(* Every heartbeat of a manager is answered with the number of workers it  *)
(* should have, computed from what the scheduler knows at that moment; the *)
(* manager applies the answer later, to processes it started earlier.  (A  *)
(* heartbeat and the receipt of its answer are one step: what the answer   *)
(* waits for, on the network or for the coordinator, is one wait.)  The two *)
(* sides count different things: the scheduler the workers that have   *)
(* sent a heartbeat and not been given up, the manager the entries of its  *)
(* list of processes, which it shortens only by stopping one.              *)
(*                                                                         *)
(* A worker is a slot of its manager: Slots bounds how many processes of   *)
(* one manager exist at a time.  A slot is used again when its process is  *)
(* gone and nobody remembers it.  Time passes in ticks of the cooldown.    *)
(***************************************************************************)
EXTENDS Integers, Sequences, SequencesExt, FiniteSets, FiniteSetsExt, Functions

CONSTANTS
    Manager,        \* worker manager ids
    MaxConcurrency, \* MaxConcurrency[m]: its maxTaskConcurrency, -1 for no limit
    Caps,           \* Caps[m]: its capabilities, a set of <<name, value>>
    Kind,           \* the capability sets that tasks ask for
    Rules,          \* the waterfall's rules in order of priority: [id, priority, cap]
    Omitted,        \* the cap of a rule that names none
    Policies,       \* the scaling policies to look at
    Upper,          \* _upper_task_ratio of the vanilla and the waterfall policy
    CapUpper,       \* _upper_task_ratio of the capability policy
    Cooldown,       \* ticks of the scale-down cooldown
    Prompt,         \* the policies under which all else is quick compared with a tick
    Loads,          \* how many tasks of one kind there may be
    Slots,          \* bound: Slots[m], the processes of one manager at a time
    Shifts,         \* bound: changes of the load
    Events,         \* the faults that may happen: <<"die", m>>, <<"crash", m>>, <<"stop", m>>,
                    \* <<"silence", m>> and <<"shutdown">>
    Budget          \* bound: how many of them

Generic == {}
Off     == -1                   \* a cooldown that is not running
Slot(m) == 1 .. Slots[m]
Names(c) == {x[1] : x \in c}

ASSUME PolicyAssumption == Policies \subseteq {"no", "vanilla", "capability", "waterfall"}
ASSUME KindAssumption   == \A k, l \in Kind : Names(k) = Names(l) => k = l
ASSUME LimitAssumption  == MaxConcurrency \in [Manager -> Nat \cup {-1}]
ASSUME RulesAssumption  ==
    /\ Rules \in Seq(Range(Rules))
    /\ \A r \in Range(Rules) : r.priority \in Int /\ (r.cap = Omitted \/ r.cap \in Nat)
    /\ \A i, j \in DOMAIN Rules : i < j => Rules[i].priority <= Rules[j].priority
    /\ \A i, j \in DOMAIN Rules : Rules[i].id = Rules[j].id => i = j
ASSUME RatioAssumption  == Upper \in Nat \ {0} /\ CapUpper \in Nat \ {0}
ASSUME BoundAssumption  == {Cooldown, Shifts, Budget} \subseteq Nat /\ Slots \in [Manager -> Nat]
ASSUME FiniteAssumption == IsFiniteSet(Manager) /\ IsFiniteSet(Kind) /\ Loads \subseteq Nat

VARIABLES
    policy,         \* the scheduler's scaling policy
    tasks,          \* tasks[k]: the tasks of kind k in _task_id_to_task
    \* the scheduler: the workers of each manager, and what it knows of the source of
    \* the manager's id: nothing, the present process or an earlier one
    connected, known,
    \* the managers: running or not, the coordinator's desired count, its event and its
    \* cooldown, and the provisioner's list
    up, desired, signal, timer, held,
    \* the processes: "none", "starting", "running", "exiting", "dead" (exited, not waited
    \* for) or "reaped" (its pid is free)
    proc,
    age,            \* ticks since the manager last started a worker (history)
    shifts, left    \* changes of the load and faults that may still happen

scheduler == <<connected, known>>
manager   == <<up, desired, signal, timer, held>>
bounds    == <<shifts, left>>
vars      == <<policy, tasks, scheduler, manager, proc, age, bounds>>

Init ==
    /\ policy \in Policies
    /\ tasks = [k \in Kind |-> 0]
    /\ connected = [m \in Manager |-> {}]
    /\ known = [m \in Manager |-> "none"]
    /\ up = [m \in Manager |-> TRUE]
    /\ desired = [m \in Manager |-> 0]
    /\ signal = [m \in Manager |-> FALSE]
    /\ timer = [m \in Manager |-> Off]
    /\ held = [m \in Manager |-> <<>>]
    /\ proc = [m \in Manager |-> [s \in Slot(m) |-> "none"]]
    /\ age = [m \in Manager |-> Cooldown]
    /\ shifts = Shifts
    /\ left = Budget

-----------------------------------------------------------------------------
(* The scaling policies.  A command asks for a number of workers per       *)
(* capability set: a function whose domain is a set of capability sets.    *)

TaskCount == SumFunction(tasks)
WorkerCount(m) == Cardinality(connected[m])
AllWorkers == MapThenSumSet(WorkerCount, Manager)

\* max(1, ceil(n / ratio))
Needed(n, ratio) == Max({1, (n + ratio - 1) \div ratio})

Clamped(m, n) == IF MaxConcurrency[m] = -1 THEN n ELSE Min({n, MaxConcurrency[m]})

(* VanillaScalingPolicy._compute_desired_worker_count.                     *)
ComputeDesiredWorkerCount(m) ==
    LET current == WorkerCount(m)
        wanted  == CASE AllWorkers = 0 /\ TaskCount > 0 -> current + 1
                     [] AllWorkers = 0 /\ TaskCount = 0 -> current
                     [] AllWorkers > 0 /\ TaskCount > Upper * AllWorkers -> current + 1
                     [] AllWorkers > 0 /\ TaskCount < AllWorkers ->
                            IF TaskCount = 0 THEN 0 ELSE Needed(TaskCount, Upper)
                     [] OTHER -> current
    IN  Max({0, Clamped(m, wanted)})

(* CapabilityScalingPolicy._compute_desired_per_capset: kinds without      *)
(* tasks are left out, and every manager is asked for the whole.           *)
CapabilityRequests(m) ==
    [k \in {l \in Kind : tasks[l] > 0} |-> Max({0, Clamped(m, Needed(tasks[k], CapUpper))})]

RuleOf(m) == CHOOSE r \in Range(Rules) : r.id = m
HasRule(m) == \E r \in Range(Rules) : r.id = m
\* The rules before m's own, which is where the loops over the rules end.
Before(m) == SubSeq(Rules, 1, (CHOOSE i \in DOMAIN Rules : Rules[i].id = m) - 1)

(* _effective_capacity, of a manager that is online.                       *)
EffectiveCapacity(r) ==
    IF r.cap = Omitted THEN MaxConcurrency[r.id] ELSE Min({r.cap, MaxConcurrency[r.id]})

(* The mutant hands every manager the whole.                               *)
Remaining_Whole(m, total, online) == total

(* What the managers before m leave of the target, if only those in online *)
(* take part.                                                              *)
Remaining(m, total, online) ==
    FoldLeft(LAMBDA rest, r : IF r.id \in online THEN Max({0, rest - EffectiveCapacity(r)}) ELSE rest,
             total, Before(m))

Share(m, total, online) == Min({Remaining(m, total, online), EffectiveCapacity(RuleOf(m))})

(* _allocate_generic_desired.  Without tasks a manager keeps its workers   *)
(* as long as one of a lower priority has any.                             *)
AllocateGenericDesired(m, online) ==
    IF TaskCount > 0 THEN Share(m, Needed(TaskCount, Upper), online)
    ELSE IF \E r \in Range(Rules) : /\ r.priority > RuleOf(m).priority
                                    /\ r.id \in online
                                    /\ WorkerCount(r.id) > 0
         THEN WorkerCount(m)
         ELSE 0

(* _allocate_capset_desired: the capabilities are compared by name.        *)
AllocateCapsetDesired(m, k, online) ==
    IF Names(k) \subseteq Names(Caps[m])
    THEN Share(m, Needed(tasks[k], Upper), {n \in online : Names(k) \subseteq Names(Caps[n])})
    ELSE 0

(* WaterfallScalingPolicy._compute_desired_per_capset.                     *)
WaterfallRequests(m, online) ==
    LET special == {k \in Kind \ {Generic} :
                        tasks[k] > 0 /\ AllocateCapsetDesired(m, k, online) > 0}
    IN  [k \in special \cup {Generic} |->
            Max({0, IF k = Generic THEN AllocateGenericDesired(m, online)
                    ELSE AllocateCapsetDesired(m, k, online)})]

(* get_scaling_commands: the commands for manager m, at most one.          *)
GetScalingCommands(m, online) ==
    CASE policy = "no"         -> {}
      [] policy = "vanilla"    -> {[k \in {Generic} |-> ComputeDesiredWorkerCount(m)]}
      [] policy = "capability" -> {CapabilityRequests(m)}
      [] policy = "waterfall"  -> IF HasRule(m) THEN {WaterfallRequests(m, online)} ELSE {}

-----------------------------------------------------------------------------
(* The scheduler.                                                          *)

Fault(e) == e \in Events /\ left > 0 /\ left' = left - 1

Online == {m \in Manager : known[m] # "none"}

(* The mutant takes only the requests for exactly its capabilities.        *)
ExtractDesiredCount_Exact(requests, m) ==
    SumFunctionOnSet(requests, {c \in DOMAIN requests : c = Caps[m]})

(* extract_desired_count: name and value of a capability count here.       *)
ExtractDesiredCount(requests, m) ==
    SumFunctionOnSet(requests, {c \in DOMAIN requests : c \subseteq Caps[m]})

(* The mutant takes an unchanged count for nothing to do.                  *)
SetDesiredUnitCount_OnlyChanges(m, count) ==
    /\ desired' = [desired EXCEPT ![m] = count]
    /\ signal' = [signal EXCEPT ![m] = @ \/ count # desired[m]]

(* set_desired_unit_count: an unchanged count wakes the coordinator only   *)
(* while a scale-down is deferred.                                         *)
SetDesiredUnitCount(m, count) ==
    /\ desired' = [desired EXCEPT ![m] = count]
    /\ signal' = [signal EXCEPT ![m] = @ \/ count # desired[m] \/ timer[m] # Off]

(* on_heartbeat.  A new source whose id another source still holds is      *)
(* rejected; any other is registered and answered with the policy's        *)
(* command, which the manager hands to its coordinator.                    *)
OnHeartbeat(m) ==
    /\ up[m] /\ known[m] # "earlier"
    /\ known' = [known EXCEPT ![m] = "present"]
    /\ LET commands == GetScalingCommands(m, Online \cup {m})
       IN  \/ /\ commands = {}
              /\ UNCHANGED <<desired, signal>>
           \/ \E c \in commands : SetDesiredUnitCount(m, ExtractDesiredCount(c, m))
    /\ UNCHANGED <<policy, tasks, connected, up, timer, held, proc, age, bounds>>

(* _clean_managers gives up a source that has been silent for too long: an *)
(* earlier process of the manager, or the present one, if it stalls.       *)
CleanManagers(m) ==
    /\ \/ known[m] = "earlier" /\ left' = left
       \/ known[m] = "present" /\ Fault(<<"silence", m>>)
    /\ known' = [known EXCEPT ![m] = "none"]
    /\ UNCHANGED <<policy, tasks, connected, manager, proc, age, shifts>>

(* The worker controller enters a worker at its first heartbeat.  (A last  *)
(* heartbeat of one that is exiting, which enters it again until it takes  *)
(* its leave, is left out.)                                                *)
WorkerHeartbeat(m, s) ==
    /\ s \notin connected[m]
    /\ proc[m][s] \in {"starting", "running"}
    /\ connected' = [connected EXCEPT ![m] = @ \cup {s}]
    /\ proc' = [proc EXCEPT ![m][s] = "running"]
    /\ UNCHANGED <<policy, tasks, known, manager, age, bounds>>

Gone == {"none", "dead", "reaped"}

(* __clean_workers gives up a worker that died without a word.             *)
CleanWorkers(m, s) ==
    /\ s \in connected[m] /\ proc[m][s] \in Gone
    /\ connected' = [connected EXCEPT ![m] = @ \ {s}]
    /\ UNCHANGED <<policy, tasks, known, manager, proc, age, bounds>>

(* on_client_shutdown: every worker is told to exit and forgotten.  The loop *)
(* awaits one send for each of them; here it is one step.                  *)
OnClientShutdown ==
    /\ Fault(<<"shutdown">>)
    /\ connected' = [m \in Manager |-> {}]
    /\ proc' = [m \in Manager |-> [s \in Slot(m) |->
                  IF s \in connected[m] /\ proc[m][s] = "running" THEN "exiting" ELSE proc[m][s]]]
    /\ UNCHANGED <<policy, tasks, known, manager, age, shifts>>

-----------------------------------------------------------------------------
(* The provisioner.  A process that has exited leaves its slot once it is  *)
(* in nobody's list.                                                       *)
Released(ps, list) ==
    [s \in DOMAIN ps |-> IF ps[s] \in {"dead", "reaped"} /\ s \notin Range(list) THEN "none" ELSE ps[s]]

FreeSlots(m) ==
    {s \in Slot(m) : proc[m][s] = "none" /\ s \notin connected[m] /\ s \notin Range(held[m])}

\* The n lowest slots of S, in their order.
LowestSlots(S, n) == [i \in 1 .. n |-> CHOOSE s \in S : Cardinality({r \in S : r < s}) = i - 1]

(* start_units.  Starting a process waits for the children that have       *)
(* exited (the standard library does), so their pids are free afterwards.  *)
StartUnits(m, n) ==
    LET new == LowestSlots(FreeSlots(m), n)
    IN  /\ Cardinality(FreeSlots(m)) >= n
        /\ proc' = [proc EXCEPT ![m] = [s \in Slot(m) |->
                      CASE s \in Range(new) -> "starting"
                        [] proc[m][s] = "dead" -> "reaped"
                        [] OTHER -> proc[m][s]]]
        /\ held' = [held EXCEPT ![m] = @ \o new]
        /\ age' = [age EXCEPT ![m] = 0]

\* os.kill raises at the first process whose pid is free; those before it are stopped.
Stopped(m, n) ==
    LET bad == {i \in 1 .. n : proc[m][held[m][i]] = "reaped"}
    IN  IF bad = {} THEN n ELSE Min(bad) - 1

\* The processes after the first k of the list were interrupted and rest is the list.
Interrupted(m, k, rest) ==
    LET told == {s \in Slot(m) : \E i \in 1 .. k : s = held[m][i]}
    IN  Released([s \in Slot(m) |-> IF s \in told /\ proc[m][s] \in {"starting", "running"}
                                    THEN "exiting" ELSE proc[m][s]], rest)

(* stop_units, from the head of the list.                                  *)
StopUnits(m, n) ==
    LET k    == Stopped(m, n)
        rest == SubSeq(held[m], k + 1, Len(held[m]))
    IN  /\ held' = [held EXCEPT ![m] = rest]
        /\ proc' = [proc EXCEPT ![m] = Interrupted(m, k, rest)]

-----------------------------------------------------------------------------
(* The capacity coordinator.                                               *)

(* The mutant forgets max_unit_count.                                      *)
Delta_Uncapped(m) == desired[m] - Len(held[m])

(* How many units are missing (or, negative, too many).                    *)
Delta(m) ==
    LET current == Len(held[m])
    IN  IF MaxConcurrency[m] = -1 THEN desired[m] - current
        ELSE Min({desired[m] - current, MaxConcurrency[m] - current})

(* The mutant starts the window anew at every request.                     *)
Armed_Extends(t) == Max({t, 0}) + Cooldown

(* start_if_not_running.                                                   *)
Armed(t) == IF t = Off /\ Cooldown > 0 THEN Cooldown ELSE t

(* The mutant lets the cooldown run on.                                    *)
Disarmed_Not(t) == t

(* reset.                                                                  *)
Disarmed(t) == Off

(* One round of _reconcile: grow, defer the shrinking or shrink.  When     *)
(* stop_units raises, the cooldown is left as it is.                       *)
Reconcile(m) ==
    /\ up[m] /\ signal[m]
    /\ signal' = [signal EXCEPT ![m] = FALSE]
    /\ \/ /\ Delta(m) >= 0
          /\ timer' = [timer EXCEPT ![m] = Disarmed(@)]
          /\ IF Delta(m) > 0 THEN StartUnits(m, Delta(m)) ELSE UNCHANGED <<held, proc, age>>
       \/ /\ Delta(m) < 0 /\ Armed(timer[m]) > 0
          /\ timer' = [timer EXCEPT ![m] = Armed(@)]
          /\ UNCHANGED <<held, proc, age>>
       \/ /\ Delta(m) < 0 /\ Armed(timer[m]) <= 0
          /\ StopUnits(m, -Delta(m))
          /\ timer' = [timer EXCEPT ![m] = IF Stopped(m, -Delta(m)) = -Delta(m) THEN Disarmed(@) ELSE @]
          /\ UNCHANGED age
    /\ UNCHANGED <<policy, tasks, scheduler, up, desired, bounds>>

(* A tick of the cooldown at manager m.  Under the policies of Prompt what *)
(* the manager has to do and its workers' starts and exits take less.      *)
Tick(m) ==
    /\ policy \in Prompt =>
          ~signal[m] /\ \A s \in Slot(m) : proc[m][s] \notin {"starting", "exiting"}
    /\ timer[m] > 0 \/ age[m] < Cooldown
    /\ timer' = [timer EXCEPT ![m] = IF @ > 0 THEN @ - 1 ELSE @]
    /\ age' = [age EXCEPT ![m] = Min({@ + 1, Cooldown})]
    /\ UNCHANGED <<policy, tasks, scheduler, up, desired, signal, held, proc, bounds>>

-----------------------------------------------------------------------------
(* The ends of managers and workers.                                       *)

Down(m) ==
    /\ up' = [up EXCEPT ![m] = FALSE]
    /\ desired' = [desired EXCEPT ![m] = 0]
    /\ signal' = [signal EXCEPT ![m] = FALSE]
    /\ timer' = [timer EXCEPT ![m] = Off]
    /\ known' = [known EXCEPT ![m] = IF @ = "present" THEN "earlier" ELSE @]

\* The list dies with the manager's process; a child nobody is waiting for leaves no zombie.
Forgotten(m) == held' = [held EXCEPT ![m] = <<>>]

(* The manager is told to shut down or loses the scheduler: its runner     *)
(* ends and calls terminate().                                             *)
Terminate(m) ==
    /\ Fault(<<"stop", m>>)
    /\ up[m]
    /\ Down(m) /\ Forgotten(m)
    /\ proc' = [proc EXCEPT ![m] = Interrupted(m, Stopped(m, Len(held[m])), <<>>)]
    /\ UNCHANGED <<policy, tasks, connected, age, shifts>>

(* The manager's process dies; its workers go on.                          *)
Crash(m) ==
    /\ Fault(<<"crash", m>>)
    /\ up[m]
    /\ Down(m) /\ Forgotten(m)
    /\ proc' = [proc EXCEPT ![m] = Released(@, <<>>)]
    /\ UNCHANGED <<policy, tasks, connected, age, shifts>>

(* A manager with the same id starts, under a new source.                  *)
Restart(m) ==
    /\ ~up[m]
    /\ up' = [up EXCEPT ![m] = TRUE]
    /\ UNCHANGED <<policy, tasks, scheduler, desired, signal, timer, held, proc, age, bounds>>

\* A worker dies, in whatever phase it is.
WorkerDies(m, s) ==
    /\ Fault(<<"die", m>>)
    /\ proc[m][s] \in {"starting", "running", "exiting"}
    /\ proc' = [proc EXCEPT ![m] = Released([proc[m] EXCEPT ![s] = "dead"], held[m])]
    /\ UNCHANGED <<policy, tasks, scheduler, manager, age, shifts>>

(* A worker that was told to stop announces it and exits.                  *)
WorkerExits(m, s) ==
    /\ proc[m][s] = "exiting"
    /\ connected' = [connected EXCEPT ![m] = @ \ {s}]
    /\ proc' = [proc EXCEPT ![m] = Released([proc[m] EXCEPT ![s] = "dead"], held[m])]
    /\ UNCHANGED <<policy, tasks, known, manager, age, bounds>>

\* Tasks are submitted, or end.
Load(k, n) ==
    /\ shifts > 0 /\ shifts' = shifts - 1
    /\ n # tasks[k]
    /\ tasks' = [tasks EXCEPT ![k] = n]
    /\ UNCHANGED <<policy, scheduler, manager, proc, age, left>>

Next ==
    \/ \E k \in Kind, n \in Loads : Load(k, n)
    \/ \E m \in Manager : \/ OnHeartbeat(m) \/ CleanManagers(m)
                          \/ Reconcile(m) \/ Tick(m)
                          \/ Terminate(m) \/ Crash(m) \/ Restart(m)
    \/ \E m \in Manager : \E s \in Slot(m) :
            \/ WorkerHeartbeat(m, s) \/ CleanWorkers(m, s)
            \/ WorkerDies(m, s) \/ WorkerExits(m, s)
    \/ OnClientShutdown

(* The event loops run their routines again and again, time passes, and a  *)
(* process that was started or told to stop gets there.  Nothing makes the *)
(* load change, a fault happen or a manager start again.                   *)
Fairness ==
    /\ \A m \in Manager :
          /\ SF_vars(Tick(m))
          /\ WF_vars(OnHeartbeat(m))
          /\ WF_vars(known[m] = "earlier" /\ CleanManagers(m))
          /\ WF_vars(Reconcile(m))
          /\ WF_vars(\E s \in Slot(m) : WorkerHeartbeat(m, s))
          /\ WF_vars(\E s \in Slot(m) : CleanWorkers(m, s))
          /\ WF_vars(\E s \in Slot(m) : WorkerExits(m, s))

Spec == Init /\ [][Next]_vars /\ Fairness

-----------------------------------------------------------------------------
\* The types of the variables.
TypeOK ==
    /\ policy \in Policies
    /\ tasks \in [Kind -> Loads \cup {0}]
    /\ \A m \in Manager : connected[m] \in SUBSET Slot(m)
    /\ known \in [Manager -> {"none", "present", "earlier"}]
    /\ up \in [Manager -> BOOLEAN]
    /\ desired \in [Manager -> Nat]
    /\ signal \in [Manager -> BOOLEAN]
    /\ timer \in [Manager -> Off .. Cooldown]
    /\ \A m \in Manager : held[m] \in Seq(Slot(m))
    /\ \A m \in Manager : proc[m] \in [Slot(m) -> Gone \cup {"starting", "running", "exiting"}]
    /\ age \in [Manager -> 0 .. Cooldown]
    /\ shifts \in 0 .. Shifts /\ left \in 0 .. Budget

(* A manager never has more workers than its max_task_concurrency, although *)
(* the policies clamp every request by itself and the manager adds up those *)
(* that it matches.                                                        *)
ListsWithinCapacity ==
    \A m \in Manager : MaxConcurrency[m] # -1 => Len(held[m]) <= MaxConcurrency[m]

(* The limits hold, whatever is asked.                                     *)
WithinCapacity == TypeOK /\ ListsWithinCapacity

(* Every manager's share of the waterfall is computed at its own heartbeat, *)
(* from what is known of the others.  At any moment the shares fit together: *)
(* they add up to the target, or to all there is room for, and a manager   *)
(* gets any only if those before it that are online are full               *)
(* (_allocate_generic_desired).                                            *)
WaterfallExact ==
    LET on    == {m \in Online : HasRule(m)}
        total == Needed(TaskCount, Upper)
        share == [m \in on |-> AllocateGenericDesired(m, on)]
        room  == [m \in on |-> EffectiveCapacity(RuleOf(m))]
    IN  TaskCount > 0 =>
          /\ SumFunction(share) = Min({total, SumFunction(room)})
          /\ \A m \in on : share[m] > 0 =>
                \A r \in Range(Before(m)) : r.id \in on => share[r.id] = room[r.id]

(* No worker is stopped within the cooldown of the start of another by the *)
(* same manager (_reconcile: a scale-up cancels the window).               *)
NoFlap ==
    [][\A m \in Manager : up[m] /\ up'[m] /\ Len(held'[m]) < Len(held[m]) => age[m] >= Cooldown]_vars

\* What the scheduler asks of the manager at this moment.
Target(m) ==
    LET asked == {ExtractDesiredCount(c, m) : c \in GetScalingCommands(m, Online \cup {m})}
    IN  Clamped(m, Max(asked \cup {0}))

\* stop_units raises at a process that has been waited for, for ever.
Blocked(m) == \E s \in Range(held[m]) : proc[m][s] = "reaped"
\* Workers of a manager that crashed: the scheduler counts them under its id.
Orphans(m) == {s \in connected[m] : proc[m][s] = "running" /\ s \notin Range(held[m])}

(* Whatever happened before, every running manager ends up with the number *)
(* of workers that the policy asks of it, also after the deferral of a     *)
(* scale-down, a restart under a new source and in the order the waterfall *)
(* drains; except behind a process that cannot be stopped, and except for  *)
(* policies that take the workers of a crashed manager for the present     *)
(* one's.                                                                  *)
Converges ==
    <>[](\A m \in Manager : up[m] => \/ Len(held[m]) = Target(m)
                                     \/ Blocked(m)
                                     \/ policy # "capability" /\ \E n \in Manager : Orphans(n) # {})

\* A manager's list holds a process that does not work any more: nothing replaces it.
Stale(m) == \E s \in Range(held[m]) : proc[m][s] \in {"exiting", "dead", "reaped"}
\* The vanilla policy does not look at capabilities.
Serves(m, k) == policy = "vanilla" \/ k \subseteq Caps[m]
(* As long as there are tasks of a kind, and a manager for it is running,  *)
(* a worker for them ends up connected and stays; except when a worker died *)
(* or was shut down and still counts as one.                               *)
DemandServed ==
    \A k \in Kind :
        <>[](tasks[k] > 0 /\ policy # "no" =>
               \/ \E m \in Manager : Serves(m, k) /\ \E s \in connected[m] : proc[m][s] = "running"
               \/ \A m \in Manager : Serves(m, k) => ~up[m]
               \/ \E m \in Manager : Stale(m))

(* The number of workers settles where the policy wants it, and serves the *)
(* tasks.                                                                  *)
Settles == Converges /\ DemandServed
=============================================================================
