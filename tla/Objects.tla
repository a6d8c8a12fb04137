------------------------------ MODULE Objects ------------------------------
(***************************************************************************)
(* The objects of one client, from the Python object to the object         *)
(* storage: ObjectBuffer (what is serialized, what is uploaded, under      *)
(* which id), the agent's ClientObjectManager, the scheduler's             *)
(* VanillaObjectController with its tracker and deletion routine, and the  *)
(* storage itself as a set of ids.  The client uploads and the scheduler   *)
(* deletes over connections of their own, so the storage may see them in   *)
(* either order.                                                           *)
(*                                                                         *)
(* One Python address is modelled, the one whose id() the caches are       *)
(* keyed by: the object there may be collected and another one created in  *)
(* its place.                                                              *)
(***************************************************************************)
EXTENDS Integers, Sequences, FiniteSets

CONSTANTS Ids,          \* the object ids that may be minted (bound)
          Serializer,   \* the id of the client's serializer
          Contents,     \* what an object may serialize to
          None,
          MaxCalls,         \* calls that send a task (bound)
          Events, Budget    \* which of EventKinds happen, and how often in all

EventKinds == {"new", "mutate", "abandon", "reference", "clear", "timeout", "kill",
               "abort", "cancel"}

ASSUME IdsAssumption ==
    /\ Ids \subseteq Nat /\ IsFiniteSet(Ids)
    /\ Serializer \notin Ids \cup {None} /\ None \notin Ids \cup Contents
    /\ "result" \notin Contents \cup {None}
ASSUME BudgetAssumption == Events \subseteq EventKinds /\ Budget \in Nat /\ MaxCalls \in Nat

VARIABLES
    cell,       \* the object at the address: whether it is alive, can be weakly
                \* referenced, its content now and the contents it has had
    buf,        \* ObjectBuffer: _valid_object_ids, _pending_objects, the id every
                \* payload hash maps to, and for the address the entries of
                \* _dedup_cache, _dedup_alive and _cycle_dedup_cache
    payload,    \* what every minted id stands for
    call,       \* the call the user's thread is in, and the ids its task names
    refs,       \* the ids of the ObjectReferences the user holds
    ready,      \* the results of finished futures nobody has fetched yet
    sent,       \* ClientObjectManager._sent_object_ids
    wire,       \* messages user -> agent -> scheduler -> agent, and worker -> scheduler
    sched,      \* the scheduler: does it know the client, is it cleaning up after
                \* it, the objects it tracks, those queued for deletion, the batch
                \* being deleted, the client's tasks, and those of them (stray) that
                \* go on although their graph was aborted and their future answered
    stored,     \* the object storage
    uploads,    \* uploads on their way to it
    worker,     \* the result the worker has stored: not yet announced, or announced
                \* to the scheduler and not yet reported to the client
    left,       \* how many events may still happen
    log         \* history: ids stored that nobody will delete (leaked), ids
                \* announced but never reported (unnamed), ids of objects the
                \* scheduler gave up while their client lived (dropped)
                \* or cleared while a reference to them was still used (stale), whether
                \* a call was abandoned since the last commit, the arguments sent with
                \* a content their object never had (foreign), the results of stray
                \* tasks (second) and what stray tasks named at a clear() (orphaned)

vars == <<cell, buf, payload, call, refs, ready, sent, wire, sched, stored, uploads, worker, left, log>>

Dead == [alive |-> FALSE, weak |-> FALSE, content |-> None, had |-> {}]
Returns == call' = [call EXCEPT !.phase = "idle", !.args = {}]
NoResult == [id |-> None, announced |-> FALSE]
Minted == {i \in Ids : payload[i] # None}
Fresh == CHOOSE i \in Ids \ Minted : \A j \in Ids \ Minted : i <= j
CanMint == Ids \ Minted # {}
Happens(kind) == kind \in Events /\ left > 0 /\ left' = left - 1

\* Announced(m, kind): the ids that messages of a kind name.
Announced(m, kind) == UNION {m[i][2] : i \in {k \in DOMAIN m : m[k][1] = kind}}
Reported == Announced(wire.worker, "create") \cup Announced(wire.worker, "result")

\* The state has its types; the weak reference ObjectBuffer keeps is to a living
\* object that can be weakly referenced.
TypeOK ==
    /\ cell \in [alive : BOOLEAN, weak : BOOLEAN, content : Contents \cup {None}, had : SUBSET Contents]
    /\ buf.valid \subseteq Ids \cup {Serializer} /\ buf.pending \subseteq Ids
    /\ buf.hashed \in [Contents -> Ids \cup {None}]
    /\ buf.dedup \in Ids \cup {None} /\ buf.cycle \in Ids \cup {None} /\ buf.guarded \in BOOLEAN
    /\ buf.guarded => cell.alive /\ cell.weak
    /\ payload \in [Ids -> Contents \cup {None, "result"}]
    /\ call.phase \in {"idle", "buffering"} /\ call.args \subseteq Ids
    /\ refs \cup ready \subseteq Ids /\ sent \subseteq Ids \cup {Serializer}
    /\ sched.tracked \cup sched.queue \cup sched.batch \subseteq Ids \cup {Serializer}
    /\ sched.tasks \cup sched.stray \subseteq SUBSET Ids
    /\ stored \cup uploads \subseteq Ids \cup {Serializer}
    /\ worker \in [id : Ids \cup {None}, announced : BOOLEAN]

\* The client has connected: __send_serializer is done.
Init ==
    /\ cell = Dead /\ call = [phase |-> "idle", args |-> {}, made |-> 0] /\ refs = {} /\ uploads = {} /\ worker = NoResult /\ ready = {}
    /\ buf = [valid |-> {Serializer}, pending |-> {}, hashed |-> [c \in Contents |-> None],
              dedup |-> None, guarded |-> FALSE, cycle |-> None]
    /\ payload = [i \in Ids |-> None]
    /\ sent = {Serializer} /\ stored = {Serializer}
    /\ wire = [agent |-> <<>>, scheduler |-> <<>>, client |-> <<>>, worker |-> <<>>]
    /\ sched = [known |-> TRUE, cleaning |-> FALSE, tracked |-> {Serializer},
                queue |-> {}, batch |-> {}, tasks |-> {}, stray |-> {}]
    /\ left = Budget
    /\ log = [leaked |-> {}, unnamed |-> {}, dropped |-> {}, stale |-> {}, abandoned |-> FALSE,
              foreign |-> {}, second |-> {}, orphaned |-> {}]

-----------------------------------------------------------------------------
(* The user's Python object.                                               *)

NewObject(c, weak) ==
    /\ ~cell.alive /\ call.phase = "idle" /\ Happens("new")
    /\ cell' = [alive |-> TRUE, weak |-> weak, content |-> c, had |-> {c}]
    /\ UNCHANGED <<buf, payload, call, refs, ready, sent, wire, sched, stored, uploads, worker, log>>

CollectObject_EntryStays ==
    /\ cell.alive /\ call.phase = "idle"
    /\ cell' = Dead
    /\ UNCHANGED <<buf, payload, call, refs, ready, sent, wire, sched, stored, uploads, worker, left, log>>
\* Garbage collected: the entry of the WeakValueDictionary goes with it.
CollectObject ==
    /\ cell.alive /\ call.phase = "idle"
    /\ cell' = Dead
    /\ buf' = [buf EXCEPT !.guarded = FALSE]
    /\ UNCHANGED <<payload, call, refs, ready, sent, wire, sched, stored, uploads, worker, left, log>>

Mutate(c) ==
    /\ cell.alive /\ c # cell.content /\ call.phase = "idle" /\ Happens("mutate")
    /\ cell' = [cell EXCEPT !.content = c, !.had = @ \cup {c}]
    /\ UNCHANGED <<buf, payload, call, refs, ready, sent, wire, sched, stored, uploads, worker, log>>

-----------------------------------------------------------------------------
(* ObjectBuffer.                                                           *)

ObjectIdForPayload_Derived(c) ==
    IF \E i \in Ids : payload[i] = c THEN CHOOSE i \in Ids : payload[i] = c ELSE Fresh
\* __object_id_for_payload.
ObjectIdForPayload(c) == IF buf.hashed[c] \in buf.valid THEN buf.hashed[c] ELSE Fresh

\* __lookup_dedup: the persistent cache, guarded by the weak reference, then the
\* cache of the cycle.
LookupDedup(reserialize) ==
    IF ~reserialize /\ buf.dedup \in buf.valid /\ buf.guarded THEN buf.dedup
    ELSE IF buf.cycle \in buf.valid THEN buf.cycle
    ELSE None

\* buffer_send_object and buffer_send_function of the object at the address.
Buffered(reserialize, dedup) ==
    LET cached == IF dedup THEN LookupDedup(reserialize) ELSE None
        id == IF cached # None THEN cached ELSE ObjectIdForPayload(cell.content)
        forgotten == IF dedup /\ ~reserialize /\ ~buf.guarded THEN None ELSE buf.dedup
    IN  IF cached # None THEN [id |-> id, buf |-> [buf EXCEPT !.dedup = forgotten]]
        ELSE [id |-> id,
              buf |-> [buf EXCEPT !.pending = IF id \in buf.valid THEN @ ELSE @ \cup {id},
                                  !.valid = @ \cup {id},
                                  !.hashed[cell.content] = id,
                                  !.cycle = IF dedup THEN id ELSE @,
                                  !.dedup = IF dedup /\ cell.weak THEN id ELSE forgotten,
                                  !.guarded = @ \/ (dedup /\ cell.weak)]]

Recorded(id) == IF payload[id] = None THEN [payload EXCEPT ![id] = cell.content] ELSE payload

Argument(id) ==
    /\ \/ call.phase = "idle" /\ call.made < MaxCalls
       \/ call.phase = "buffering" /\ id \notin call.args
    /\ call' = [phase |-> "buffering", args |-> call.args \cup {id},
                made |-> IF call.phase = "idle" THEN call.made + 1 ELSE call.made]

\* submit(), starmap() and get() buffer one argument after the other.
BufferArgument(reserialize) ==
    /\ cell.alive /\ CanMint
    /\ LET b == Buffered(reserialize, TRUE)
           wrong == IF reserialize THEN Recorded(b.id)[b.id] # cell.content
                    ELSE Recorded(b.id)[b.id] \notin cell.had
       IN  /\ b.id \notin call.args
           /\ buf' = b.buf /\ payload' = Recorded(b.id)
           /\ Argument(b.id)
           /\ log' = IF wrong THEN [log EXCEPT !.foreign = @ \cup {<<b.id, log.abandoned>>}] ELSE log
    /\ UNCHANGED <<cell, refs, ready, sent, wire, sched, stored, uploads, worker, left>>

\* send_object(): no identity cache, and nothing is committed.
SendObject_Dedup ==
    /\ cell.alive /\ CanMint /\ call.phase = "idle" /\ Happens("reference")
    /\ LET b == Buffered(FALSE, TRUE)
       IN  buf' = b.buf /\ payload' = Recorded(b.id) /\ refs' = refs \cup {b.id}
    /\ UNCHANGED <<cell, call, ready, sent, wire, sched, stored, uploads, worker, log>>
SendObject ==
    /\ cell.alive /\ CanMint /\ call.phase = "idle" /\ Happens("reference")
    /\ LET b == Buffered(FALSE, FALSE)
       IN  buf' = b.buf /\ payload' = Recorded(b.id) /\ refs' = refs \cup {b.id}
    /\ UNCHANGED <<cell, call, ready, sent, wire, sched, stored, uploads, worker, log>>

\* A reference as an argument: submit() and starmap() look whether it is still
\* valid, get() does not.
UseReference(id, checked) ==
    /\ id \in refs \ call.args
    /\ checked => id \in buf.valid
    /\ Argument(id)
    /\ log' = IF id \in buf.valid THEN log ELSE [log EXCEPT !.stale = @ \cup {id}]
    /\ UNCHANGED <<cell, buf, payload, refs, ready, sent, wire, sched, stored, uploads, worker, left>>

\* The next argument cannot be pickled, or MissingObjects: the call raises with what
\* it buffered so far pending and in the caches.
Abandon ==
    /\ call.phase = "buffering" /\ Happens("abandon")
    /\ Returns
    /\ log' = [log EXCEPT !.abandoned = TRUE]
    /\ UNCHANGED <<cell, buf, payload, refs, ready, sent, wire, sched, stored, uploads, worker>>

\* commit_send_objects and the task itself.  The agent takes the two messages in
\* this order, and an upload is over for the client when the connection has it: the
\* storage may see it much later.
Commit ==
    /\ call.phase = "buffering"
    /\ wire' = [wire EXCEPT !.agent =
                   Append(IF buf.pending = {} THEN @ ELSE Append(@, <<"create", buf.pending>>),
                          <<"task", call.args>>)]
    /\ uploads' = uploads \cup buf.pending
    /\ buf' = [buf EXCEPT !.pending = {}, !.cycle = None]
    /\ log' = [log EXCEPT !.abandoned = FALSE]
    /\ Returns
    /\ UNCHANGED <<cell, payload, refs, ready, sent, sched, stored, worker, left>>

\* clear(): cancel_all_futures has returned, so that every future is done (Client
\* models how): no task is on its way or pending with the scheduler, and no answer
\* is.  A stray task may be anywhere, its future was done when its graph was aborted.
FuturesDone ==
    /\ sched.tasks = {} /\ worker.id \in log.second \cup {None}
    /\ \A m \in {wire.agent, wire.scheduler} : \A i \in DOMAIN m : m[i][1] # "task"
    /\ Announced(wire.worker, "result") \subseteq log.second
    /\ \A i \in DOMAIN wire.client : wire.client[i] # {} /\ wire.client[i] \subseteq log.second
Clear ==
    /\ call.phase = "idle" /\ FuturesDone /\ Happens("clear")
    /\ buf' = [valid |-> {Serializer}, pending |-> {}, hashed |-> [c \in Contents |-> None],
               dedup |-> None, guarded |-> FALSE, cycle |-> None]
    /\ wire' = [wire EXCEPT !.agent = Append(@, <<"clear", {}>>)]
    /\ log' = [log EXCEPT !.orphaned = @ \cup UNION sched.stray]
    /\ UNCHANGED <<cell, payload, call, refs, ready, sent, sched, stored, uploads, worker>>

-----------------------------------------------------------------------------
(* ClientObjectManager, on the agent's loop.                               *)

ClearAllObjects == sent \ {Serializer}

OnObjectInstruction ==
    /\ wire.agent # <<>>
    /\ LET kind == Head(wire.agent)[1]
           ids == IF kind = "clear" THEN ClearAllObjects ELSE Head(wire.agent)[2]
           new == ids \ sent
           message == CASE kind = "create" -> <<"create", new>>
                        [] kind = "clear" -> <<"delete", ids>>
                        [] OTHER -> Head(wire.agent)
       IN  /\ sent' = CASE kind = "create" -> sent \cup new
                        [] kind = "clear" -> sent \ ids
                        [] OTHER -> sent
           /\ wire' = [wire EXCEPT !.agent = Tail(@),
                                   !.scheduler = IF message = <<"create", {}>> THEN @ ELSE Append(@, message)]
    /\ UNCHANGED <<cell, buf, payload, call, refs, ready, sched, stored, uploads, worker, left, log>>

OnTaskResult_Untracked == sent
\* on_task_result, before the agent asks whether it still knows the task: it does
\* not when this is the second answer for it.
OnTaskResult == sent \cup Head(wire.client)
ReceiveResult ==
    /\ wire.client # <<>>
    /\ sent' = OnTaskResult
    /\ ready' = ready \cup (Head(wire.client) \ log.second)
    /\ wire' = [wire EXCEPT !.client = Tail(@)]
    /\ UNCHANGED <<cell, buf, payload, call, refs, sched, stored, uploads, worker, left, log>>

\* __get_object with delete_after_fetch.
FetchResult(id) ==
    /\ id \in ready \cap stored
    /\ ready' = ready \ {id}
    /\ stored' = stored \ {id}
    /\ UNCHANGED <<cell, buf, payload, call, refs, sent, wire, sched, uploads, worker, left, log>>

-----------------------------------------------------------------------------
(* VanillaObjectController, and what the client controller does to it.     *)

\* __on_object_create, on_del_objects: a creation for a client nobody knows is
\* refused, and what was stored under it stays.
OnObjectCreate(ids) ==
    /\ sched' = IF sched.known THEN [sched EXCEPT !.tracked = @ \cup ids] ELSE sched
    /\ log' = IF sched.known THEN log ELSE [log EXCEPT !.leaked = @ \cup ids]

OnDelObjects_NoCallback(ids) ==
    sched' = [sched EXCEPT !.tracked = @ \ ids]
OnDelObjects(ids) ==
    sched' = [sched EXCEPT !.tracked = @ \ ids, !.queue = @ \cup (ids \cap sched.tracked)]

FromAgent ==
    /\ wire.scheduler # <<>>
    /\ wire' = [wire EXCEPT !.scheduler = Tail(@)]
    /\ LET kind == Head(wire.scheduler)[1]
           ids == Head(wire.scheduler)[2]
       IN  CASE kind = "create" -> OnObjectCreate(ids)
             [] kind = "delete" -> OnDelObjects(ids) /\ UNCHANGED log
             [] kind = "task" -> sched' = [sched EXCEPT !.tasks = @ \cup {ids}] /\ UNCHANGED log
    /\ UNCHANGED <<cell, buf, payload, call, refs, ready, sent, stored, uploads, worker, left>>

FromWorker ==
    /\ wire.worker # <<>>
    /\ LET ids == Head(wire.worker)[2]
           result == Head(wire.worker)[1] = "result"
       IN  /\ IF result THEN UNCHANGED <<sched, log>> ELSE OnObjectCreate(ids)
           /\ wire' = [wire EXCEPT !.worker = Tail(@),
                                   !.client = IF result /\ ids \cap log.unnamed = {} THEN Append(@, ids) ELSE @]
    /\ UNCHANGED <<cell, buf, payload, call, refs, ready, sent, stored, uploads, worker, left>>

\* __abort_whole_graph: another node of the task's graph failed.  Its future is
\* answered with a copy of the error, which __duplicate_objects stores and tracks
\* whether or not the client is known, or without an object when the node died with
\* its worker; the task itself goes on.
Aborts(args, copy) ==
    /\ args \in sched.tasks /\ CanMint /\ Happens("abort")
    /\ LET copies == IF copy THEN {Fresh} ELSE {}
       IN  /\ payload' = [i \in Ids |-> IF i \in copies THEN "result" ELSE payload[i]]
           /\ stored' = stored \cup copies
           /\ sched' = [sched EXCEPT !.tasks = @ \ {args}, !.stray = @ \cup {args},
                                     !.tracked = @ \cup copies]
           /\ wire' = [wire EXCEPT !.client = Append(@, copies)]
    /\ UNCHANGED <<cell, buf, call, refs, ready, sent, uploads, worker, log>>

\* on_task_cancel of a task that has not run: it is confirmed without a result.
Cancels(args) ==
    /\ args \in sched.tasks /\ Happens("cancel")
    /\ sched' = [sched EXCEPT !.tasks = @ \ {args}]
    /\ UNCHANGED <<cell, buf, payload, call, refs, ready, sent, wire, stored, uploads, worker, log>>

\* __on_client_disconnect: the client is forgotten, its tasks are canceled, so that
\* their results are not reported any more, and only then its objects; a heartbeat
\* may have brought it back by then.  The code cancels one task after the other, with
\* an await for each; here they go at once.  The client's own clear of everything,
\* the serializer included, when it disconnects by itself, is not modelled.
ForgetClient ==
    /\ sched.known /\ ~sched.cleaning /\ Happens("timeout")
    /\ sched' = [sched EXCEPT !.known = FALSE, !.cleaning = TRUE, !.tasks = {}, !.stray = {}]
    /\ log' = [log EXCEPT !.unnamed = @ \cup Reported \cup ({worker.id} \ {None})]
    /\ UNCHANGED <<cell, buf, payload, call, refs, ready, sent, wire, stored, uploads, worker>>

CleanClient ==
    /\ sched.cleaning
    /\ sched' = [sched EXCEPT !.cleaning = FALSE, !.tracked = {}, !.queue = @ \cup sched.tracked]
    /\ log' = [log EXCEPT !.dropped = @ \cup sched.tracked]
    /\ UNCHANGED <<cell, buf, payload, call, refs, ready, sent, wire, stored, uploads, worker, left>>

Heartbeat ==
    /\ ~sched.known
    /\ sched' = [sched EXCEPT !.known = TRUE]
    /\ UNCHANGED <<cell, buf, payload, call, refs, ready, sent, wire, stored, uploads, worker, left, log>>

\* __routine_send_objects_deletions: everything queued is one batch, deleted one
\* request after the other.
SendDeletions_WaitsForMore ==
    /\ sched.batch = {} /\ Cardinality(sched.queue) > 1
    /\ sched' = [sched EXCEPT !.batch = sched.queue, !.queue = {}]
    /\ UNCHANGED <<cell, buf, payload, call, refs, ready, sent, wire, stored, uploads, worker, left, log>>
SendDeletions ==
    /\ sched.batch = {} /\ sched.queue # {}
    /\ sched' = [sched EXCEPT !.batch = sched.queue, !.queue = {}]
    /\ UNCHANGED <<cell, buf, payload, call, refs, ready, sent, wire, stored, uploads, worker, left, log>>

-----------------------------------------------------------------------------
(* The object storage and the worker, as these components meet them.       *)

StorageDeletes(id) ==
    /\ id \in sched.batch
    /\ sched' = [sched EXCEPT !.batch = @ \ {id}]
    /\ stored' = stored \ {id}
    /\ log' = IF id \in uploads THEN [log EXCEPT !.leaked = @ \cup {id}] ELSE log
    /\ UNCHANGED <<cell, buf, payload, call, refs, ready, sent, wire, uploads, worker, left>>

StorageSets(id) ==
    /\ id \in uploads
    /\ uploads' = uploads \ {id}
    /\ stored' = stored \cup {id}
    /\ UNCHANGED <<cell, buf, payload, call, refs, ready, sent, wire, sched, worker, left, log>>

\* A task whose arguments are all there runs; __send_result stores its result,
\* announces it to the scheduler and reports it to the client.
RunTask(args, stray) ==
    /\ args \in (IF stray THEN sched.stray ELSE sched.tasks)
    /\ args \cup {Serializer} \subseteq stored
    /\ worker = NoResult /\ CanMint
    /\ worker' = [id |-> Fresh, announced |-> FALSE]
    /\ payload' = [payload EXCEPT ![Fresh] = "result"]
    /\ stored' = stored \cup {Fresh}
    /\ sched' = IF stray THEN [sched EXCEPT !.stray = @ \ {args}]
                ELSE [sched EXCEPT !.tasks = @ \ {args}]
    /\ log' = IF stray THEN [log EXCEPT !.second = @ \cup {Fresh}] ELSE log
    /\ UNCHANGED <<cell, buf, call, refs, ready, sent, wire, uploads, left>>

SendResult ==
    /\ worker # NoResult
    /\ wire' = [wire EXCEPT !.worker =
                    Append(@, <<IF worker.announced THEN "result" ELSE "create", {worker.id}>>)]
    /\ worker' = IF worker.announced THEN NoResult ELSE [worker EXCEPT !.announced = TRUE]
    /\ UNCHANGED <<cell, buf, payload, call, refs, ready, sent, sched, stored, uploads, left, log>>

\* The processor dies, or is killed by a forced cancel, before the result is
\* reported.
Killed ==
    /\ worker # NoResult /\ Happens("kill")
    /\ worker' = NoResult
    /\ log' = IF worker.announced THEN [log EXCEPT !.unnamed = @ \cup {worker.id}]
              ELSE [log EXCEPT !.leaked = @ \cup {worker.id}]
    /\ UNCHANGED <<cell, buf, payload, call, refs, ready, sent, wire, sched, stored, uploads>>

-----------------------------------------------------------------------------
User ==
    \/ \E c \in Contents : Mutate(c) \/ \E weak \in BOOLEAN : NewObject(c, weak)
    \/ CollectObject
    \/ \E reserialize \in BOOLEAN : BufferArgument(reserialize)
    \/ SendObject \/ Abandon \/ Clear
    \/ \E id \in refs, checked \in BOOLEAN : UseReference(id, checked)
    \/ Commit

Agent == OnObjectInstruction \/ ReceiveResult \/ \E id \in ready : FetchResult(id)
Scheduler ==
    \/ FromAgent \/ FromWorker \/ CleanClient \/ Heartbeat \/ SendDeletions
    \/ \E args \in sched.tasks : Cancels(args) \/ \E copy \in BOOLEAN : Aborts(args, copy)
Storage == \E id \in Ids \cup {Serializer} : StorageDeletes(id) \/ StorageSets(id)
Worker ==
    \/ \E args \in sched.tasks : RunTask(args, FALSE)
    \/ \E args \in sched.stray : RunTask(args, TRUE)
    \/ SendResult

Next == User \/ Agent \/ Scheduler \/ Storage \/ Worker \/ ForgetClient \/ Killed

Spec == Init /\ [][Next]_vars

\* The loops of agent, scheduler and storage go on; the user owes nothing.
FairSpec ==
    /\ Spec
    /\ WF_vars(OnObjectInstruction) /\ WF_vars(FromAgent)
    /\ WF_vars(CleanClient) /\ WF_vars(SendDeletions)
    /\ \A id \in Ids \cup {Serializer} : WF_vars(StorageDeletes(id)) /\ WF_vars(StorageSets(id))

-----------------------------------------------------------------------------
(* Properties.                                                             *)

InFlight(kind) == Announced(wire.agent, kind) \cup Announced(wire.scheduler, kind)

\* Reachable(tasks, excused): what these tasks name, and the serializer they are read
\* with, is stored or on its way, but for what is excused.
Reachable(tasks, excused) ==
    \A args \in tasks : args \cup {Serializer} \subseteq stored \cup uploads \cup excused

\* No task waits for an object that never comes: what it names is stored or on its
\* way, whatever was cleared or deleted before under an equal content, unless the
\* scheduler had declared the client dead or get() was given a reference that was no
\* longer valid.  The same holds of a subtask that goes on after its graph was
\* aborted, until the user clears: clear() only waits for futures, and takes the
\* arguments of such a subtask away (NoTaskWaitsForCleared).
ArgumentsReachable ==
    LET excused == log.dropped \cup log.stale
    IN  Reachable(sched.tasks, excused) /\ Reachable(sched.stray, excused \cup log.orphaned)

\* An argument is sent with a content its object has, or had before a change the
\* user did not announce, never with that of another object: a recycled id() only
\* meets a cached snapshot after a call was abandoned.
SnapshotOwn == \A e \in log.foreign : e[2]

\* Nothing that is stored is forgotten: it is tracked for its client, announced, on
\* the way to be deleted, or one of the leaks the code has (refused because its
\* client is gone, deleted before it was stored, its processor killed).
Wanted == sched.tracked \cup InFlight("create") \cup Reported \cup {worker.id}
StoredAccounted == stored \subseteq Wanted \cup sched.queue \cup sched.batch \cup log.leaked

\* clear() reaches every object of the client: what the scheduler tracks for it, the
\* agent will name in its next deletion or has named already, except a result whose
\* processor was killed before reporting it.
Clearable ==
    sched.tracked \subseteq
        sent \cup (UNION {wire.client[i] : i \in DOMAIN wire.client}) \cup Reported \cup {worker.id}
             \cup InFlight("delete") \cup log.unnamed

\* Every object is accounted for: what is stored is known to somebody who will have it
\* deleted, and what is known is reached by clear().
Accounted == TypeOK /\ StoredAccounted /\ Clearable

\* What is given up is deleted from the storage in the end.
DeletionsComplete == []<>(stored \subseteq Wanted \cup log.leaked)

-----------------------------------------------------------------------------
(* What the code's comments claim and the code does not keep.              *)

\* What ObjectBuffer says of its caches: "so a recycled id() can't serve a stale
\* snapshot"; the cache of the cycle "must be cleared at the end of every cycle".
RecycledIdMisses == log.foreign = {}

\* What clear() says of canceling every future first: "or else we might end up with
\* tasks indefinitely waiting on no longer existing objects".
NoTaskWaitsForCleared ==
    Reachable(sched.tasks \cup sched.stray, log.dropped \cup log.stale)
=============================================================================
