---------------------------- MODULE ObjectsProofs ----------------------------
(***************************************************************************)
(* What becomes of a client's objects, for any instance of Objects.        *)
(*                                                                         *)
(* Three invariants, each resting on the one before: SnapshotInv (every    *)
(* cache entry stands for what it is looked up by), AccountInv (every id   *)
(* that is stored or tracked is known to a queue or a table that will have *)
(* it deleted) and ReachInv (what a task names is stored or on its way,    *)
(* and no deletion or clear() that is under way will reach it).            *)
(***************************************************************************)
EXTENDS Objects, TLAPS, NaturalsInduction, WellFoundedInduction

-----------------------------------------------------------------------------
(* Types.                                                                  *)

AnyId   == Ids \cup {Serializer}
Single  == {{i} : i \in Ids}
Answers == Single \cup {{}}
Message(kinds) == kinds \X SUBSET Ids
ToAgent     == Message({"create", "task", "clear"})
ToScheduler == Message({"create", "task", "delete"})
FromWorkers == {"create", "result"} \X Single

Buffers == [valid : SUBSET AnyId, pending : SUBSET Ids, hashed : [Contents -> Ids \cup {None}],
            dedup : Ids \cup {None}, guarded : BOOLEAN, cycle : Ids \cup {None}]
Wires   == [agent : Seq(ToAgent), scheduler : Seq(ToScheduler),
            client : Seq(Answers), worker : Seq(FromWorkers)]
Scheds  == [known : BOOLEAN, cleaning : BOOLEAN, tracked : SUBSET AnyId,
            queue : SUBSET AnyId, batch : SUBSET AnyId, tasks : SUBSET SUBSET Ids,
            stray : SUBSET SUBSET Ids]
Logs    == [leaked : SUBSET AnyId, unnamed : SUBSET Ids, dropped : SUBSET AnyId,
            stale : SUBSET Ids, abandoned : BOOLEAN, foreign : SUBSET (Ids \X BOOLEAN),
            second : SUBSET Ids, orphaned : SUBSET Ids]

Types ==
    /\ cell \in [alive : BOOLEAN, weak : BOOLEAN, content : Contents \cup {None},
                 had : SUBSET Contents]
    /\ cell.alive => cell.content \in cell.had
    /\ buf \in Buffers
    /\ buf.guarded => cell.alive /\ cell.weak
    /\ payload \in [Ids -> Contents \cup {None, "result"}]
    /\ call \in [phase : {"idle", "buffering"}, args : SUBSET Ids, made : Nat]
    /\ call.phase = "idle" => call.args = {}
    /\ refs \in SUBSET Ids /\ ready \in SUBSET Ids /\ sent \in SUBSET AnyId
    /\ wire \in Wires
    /\ sched \in Scheds
    /\ stored \in SUBSET AnyId /\ uploads \in SUBSET Ids
    /\ worker \in [id : Ids \cup {None}, announced : BOOLEAN]
    /\ worker.announced => worker.id \in Ids
    /\ left \in Nat
    /\ log \in Logs

(* A set of numbers that is not empty has a least member.                  *)
LEMMA Least ==
    ASSUME NEW T \in SUBSET Nat, T # {}
    PROVE  \E n \in T : \A m \in T : n <= m
  <1>1. IsWellFoundedOn(OpToRel(<, Nat), Nat)
    BY NatLessThanWellFounded
  <1>2. \E x \in T : \A y \in T : ~ (<<y, x>> \in OpToRel(<, Nat))
    BY <1>1, WFMin
  <1>3. PICK x \in T : \A y \in T : ~ (<<y, x>> \in OpToRel(<, Nat))
    BY <1>2
  <1>4. \A y \in T : ~ (y < x)
    BY <1>3 DEF OpToRel
  <1> QED  BY <1>4

(* A fresh id is one that was never minted.                                *)
LEMMA FreshType ==
    ASSUME CanMint
    PROVE  Fresh \in Ids /\ Fresh \notin Minted
  <1>1. Ids \ Minted \in SUBSET Nat /\ Ids \ Minted # {}
    BY IdsAssumption DEF CanMint
  <1>2. \E i \in Ids \ Minted : \A j \in Ids \ Minted : i <= j
    BY <1>1, Least
  <1> QED  BY <1>2 DEF Fresh

(* What ObjectBuffer returns: an id it has sent before and still holds     *)
(* valid, or a fresh one, which it enters as pending.                      *)
LEMMA BufferedEffect ==
    ASSUME Types, cell.alive, CanMint, NEW r \in BOOLEAN, NEW d \in BOOLEAN
    PROVE  LET b == Buffered(r, d) IN
           /\ b.id \in Ids /\ b.buf \in Buffers
           /\ b.buf.guarded => buf.guarded \/ cell.weak
           /\ \/ /\ b.id \in buf.valid
                 /\ b.buf.valid = buf.valid /\ b.buf.pending = buf.pending
              \/ /\ b.id = Fresh /\ b.id \notin buf.valid
                 /\ b.buf.valid = buf.valid \cup {Fresh}
                 /\ b.buf.pending = buf.pending \cup {Fresh}
  <1> DEFINE cached == IF d THEN LookupDedup(r) ELSE None
             id == IF cached # None THEN cached ELSE ObjectIdForPayload(cell.content)
             forgotten == IF d /\ ~r /\ ~buf.guarded THEN None ELSE buf.dedup
             b == Buffered(r, d)
  <1>1. /\ buf \in Buffers /\ cell.content \in Contents /\ None \notin AnyId /\ None \notin Ids
        /\ Fresh \in Ids /\ cell.weak \in BOOLEAN
    BY FreshType, IdsAssumption DEF Types, AnyId
  <1>2. /\ buf.valid \in SUBSET AnyId /\ buf.pending \in SUBSET Ids
        /\ buf.hashed \in [Contents -> Ids \cup {None}]
        /\ buf.dedup \in Ids \cup {None} /\ buf.cycle \in Ids \cup {None} /\ buf.guarded \in BOOLEAN
    BY <1>1 DEF Buffers
  <1>3. cached = None \/ cached \in buf.valid \cap Ids
    BY <1>1, <1>2 DEF LookupDedup
  <1>4. \/ ObjectIdForPayload(cell.content) = Fresh
        \/ ObjectIdForPayload(cell.content) \in buf.valid \cap Ids
    BY <1>1, <1>2 DEF ObjectIdForPayload
  <1>5. id \in Ids /\ (id = Fresh \/ id \in buf.valid) /\ (cached # None => id \in buf.valid)
    BY <1>1, <1>3, <1>4
  <1>6. forgotten \in Ids \cup {None}
    BY <1>2
  <1>7. b = IF cached # None THEN [id |-> id, buf |-> [buf EXCEPT !.dedup = forgotten]]
            ELSE [id |-> id,
                  buf |-> [buf EXCEPT !.pending = IF id \in buf.valid THEN @ ELSE @ \cup {id},
                                      !.valid = @ \cup {id},
                                      !.hashed[cell.content] = id,
                                      !.cycle = IF d THEN id ELSE @,
                                      !.dedup = IF d /\ cell.weak THEN id ELSE forgotten,
                                      !.guarded = @ \/ (d /\ cell.weak)]]
    BY DEF Buffered
  <1> HIDE DEF cached, id, forgotten, b
  <1>8. CASE cached # None
    <2>1. b = [id |-> id, buf |-> [buf EXCEPT !.dedup = forgotten]]
      BY <1>7, <1>8
    <2>2. b.id = id /\ b.buf = [buf EXCEPT !.dedup = forgotten]
      BY <2>1
    <2>3. b.buf \in Buffers /\ b.buf.guarded = buf.guarded
          /\ b.buf.valid = buf.valid /\ b.buf.pending = buf.pending
      BY <1>1, <1>6, <2>2 DEF Buffers
    <2> QED  BY <1>5, <1>8, <2>2, <2>3 DEF b
  <1>9. CASE cached = None
    <2> DEFINE c == b.buf
    <2>1. /\ b.id = id
          /\ c = [buf EXCEPT !.pending = IF id \in buf.valid THEN @ ELSE @ \cup {id},
                                      !.valid = @ \cup {id},
                                      !.hashed[cell.content] = id,
                                      !.cycle = IF d THEN id ELSE @,
                                      !.dedup = IF d /\ cell.weak THEN id ELSE forgotten,
                                      !.guarded = @ \/ (d /\ cell.weak)]
      BY <1>7, <1>9
    <2> HIDE DEF c
    <2>2. /\ c.pending = (IF id \in buf.valid THEN buf.pending ELSE buf.pending \cup {id})
          /\ c.valid = buf.valid \cup {id}
          /\ c.guarded = (buf.guarded \/ (d /\ cell.weak))
      BY <1>1, <2>1 DEF Buffers
    <2>3. c = [valid |-> c.valid, pending |-> c.pending, hashed |-> c.hashed,
               dedup |-> c.dedup, guarded |-> c.guarded, cycle |-> c.cycle]
      BY <1>1, <2>1 DEF Buffers
    <2>4. c.hashed = [buf.hashed EXCEPT ![cell.content] = id]
      BY <1>1, <2>1 DEF Buffers
    <2>5. c.hashed \in [Contents -> Ids \cup {None}]
      BY <1>1, <1>2, <1>5, <2>4
    <2>6. c.dedup \in Ids \cup {None} /\ c.cycle \in Ids \cup {None}
      BY <1>1, <1>2, <1>5, <1>6, <2>1 DEF Buffers
    <2>7. c.valid \in SUBSET AnyId /\ c.pending \in SUBSET Ids /\ c.guarded \in BOOLEAN
      BY <1>1, <1>2, <1>5, <2>2 DEF AnyId
    <2>8. c \in Buffers
      BY <2>3, <2>5, <2>6, <2>7 DEF Buffers
    <2>9. CASE id \in buf.valid
      <3>1. c.valid = buf.valid /\ c.pending = buf.pending
        BY <2>2, <2>9
      <3> QED  BY <1>5, <2>1, <2>2, <2>8, <2>9, <3>1 DEF b, c
    <2>10. CASE id \notin buf.valid
      <3>1. id = Fresh /\ c.valid = buf.valid \cup {Fresh} /\ c.pending = buf.pending \cup {Fresh}
        BY <1>5, <2>2, <2>10
      <3> QED  BY <1>5, <2>1, <2>2, <2>8, <2>10, <3>1 DEF b, c
    <2> QED  BY <2>9, <2>10
  <1> QED  BY <1>8, <1>9

-----------------------------------------------------------------------------
(* What the handlers of messages do.                                       *)

(* on_object_instruction, by the kind of the instruction.                  *)
LEMMA InstructionEffect ==
    ASSUME Types, OnObjectInstruction
    PROVE  LET m == Head(wire.agent) IN
           /\ wire.agent # <<>> /\ m \in ToAgent
           /\ wire' \in Wires /\ sent' \in SUBSET AnyId
           /\ wire'.agent = Tail(wire.agent)
           /\ wire'.client = wire.client /\ wire'.worker = wire.worker
           /\ \/ /\ m[1] = "create" /\ sent' = sent \cup m[2]
                 /\ wire'.scheduler = IF m[2] \ sent = {} THEN wire.scheduler
                                      ELSE Append(wire.scheduler, <<"create", m[2] \ sent>>)
              \/ /\ m[1] = "clear" /\ sent' = sent \cap {Serializer}
                 /\ wire'.scheduler = Append(wire.scheduler, <<"delete", sent \ {Serializer}>>)
              \/ /\ m[1] = "task" /\ sent' = sent
                 /\ wire'.scheduler = Append(wire.scheduler, m)
  <1> DEFINE m == Head(wire.agent)
             a == wire.agent
             s == wire.scheduler
  <1>1. /\ wire \in Wires /\ a \in Seq(ToAgent) /\ s \in Seq(ToScheduler)
        /\ sent \in SUBSET AnyId /\ a # <<>>
    BY DEF Types, Wires, OnObjectInstruction
  <1>2. m \in ToAgent /\ Tail(a) \in Seq(ToAgent)
    BY <1>1
  <1>3. m = <<m[1], m[2]>> /\ m[1] \in {"create", "task", "clear"} /\ m[2] \in SUBSET Ids
    BY <1>2 DEF ToAgent, Message
  <1> HIDE DEF m
  <1>4. CASE m[1] = "create"
    <2> DEFINE new == m[2] \ sent
    <2>1. /\ sent' = sent \cup new
          /\ wire' = [wire EXCEPT !.agent = Tail(@),
                          !.scheduler = IF <<"create", new>> = <<"create", {}>> THEN @
                                        ELSE Append(@, <<"create", new>>)]
      BY <1>4 DEF OnObjectInstruction, m
    <2>2. wire'.agent = Tail(a) /\ wire'.client = wire.client /\ wire'.worker = wire.worker
          /\ wire'.scheduler = IF new = {} THEN s ELSE Append(s, <<"create", new>>)
      BY <1>1, <2>1 DEF Wires
    <2>3. wire'.scheduler \in Seq(ToScheduler)
      BY <1>1, <1>3, <2>2 DEF ToScheduler, Message
    <2>4. wire' \in Wires
      BY <1>1, <1>2, <2>1, <2>2, <2>3 DEF Wires
    <2>5. sent' = sent \cup m[2] /\ sent' \in SUBSET AnyId
      BY <1>1, <1>3, <2>1 DEF AnyId
    <2> QED  BY <1>1, <1>2, <1>4, <2>2, <2>4, <2>5 DEF m
  <1>5. CASE m[1] = "clear"
    <2> DEFINE ids == sent \ {Serializer}
    <2>1. /\ sent' = sent \ ids
          /\ wire' = [wire EXCEPT !.agent = Tail(@),
                          !.scheduler = IF <<"delete", ids>> = <<"create", {}>> THEN @
                                        ELSE Append(@, <<"delete", ids>>)]
      BY <1>5 DEF OnObjectInstruction, m, ClearAllObjects
    <2>2. <<"delete", ids>> # <<"create", {}>>
      OBVIOUS
    <2>3. wire'.agent = Tail(a) /\ wire'.client = wire.client /\ wire'.worker = wire.worker
          /\ wire'.scheduler = Append(s, <<"delete", ids>>)
      BY <1>1, <2>1, <2>2 DEF Wires
    <2>4. wire'.scheduler \in Seq(ToScheduler)
      BY <1>1, <2>3 DEF ToScheduler, Message, AnyId
    <2>5. wire' \in Wires
      BY <1>1, <1>2, <2>1, <2>3, <2>4 DEF Wires
    <2>6. sent' = sent \cap {Serializer} /\ sent' \in SUBSET AnyId
      BY <1>1, <2>1
    <2> QED  BY <1>1, <1>2, <1>5, <2>3, <2>5, <2>6 DEF m
  <1>6. CASE m[1] = "task"
    <2>1. /\ sent' = sent
          /\ wire' = [wire EXCEPT !.agent = Tail(@),
                          !.scheduler = IF m = <<"create", {}>> THEN @ ELSE Append(@, m)]
      BY <1>6 DEF OnObjectInstruction, m
    <2>2. m # <<"create", {}>>
      BY <1>3, <1>6
    <2>3. wire'.agent = Tail(a) /\ wire'.client = wire.client /\ wire'.worker = wire.worker
          /\ wire'.scheduler = Append(s, m)
      BY <1>1, <2>1, <2>2 DEF Wires
    <2>4. wire'.scheduler \in Seq(ToScheduler)
      BY <1>1, <1>3, <1>6, <2>3 DEF ToScheduler, Message
    <2>5. wire' \in Wires
      BY <1>1, <1>2, <2>1, <2>3, <2>4 DEF Wires
    <2> QED  BY <1>1, <1>2, <1>6, <2>1, <2>3, <2>5 DEF m
  <1> QED  BY <1>3, <1>4, <1>5, <1>6

(* What a creation does to the scheduler.                                  *)
LEMMA CreateEffect ==
    ASSUME Types, NEW ids \in SUBSET Ids, OnObjectCreate(ids)
    PROVE  /\ sched' \in Scheds /\ log' \in Logs
           /\ sched'.tasks = sched.tasks /\ sched'.queue = sched.queue /\ sched'.batch = sched.batch
           /\ sched'.tracked = IF sched.known THEN sched.tracked \cup ids ELSE sched.tracked
           /\ log'.leaked = IF sched.known THEN log.leaked ELSE log.leaked \cup ids
           /\ log'.unnamed = log.unnamed /\ log'.dropped = log.dropped
           /\ log'.stale = log.stale /\ log'.foreign = log.foreign
           /\ log'.abandoned = log.abandoned
           /\ sched'.stray = sched.stray /\ log'.orphaned = log.orphaned
  <1>1. sched \in Scheds /\ log \in Logs
    BY DEF Types
  <1>2. CASE sched.known
    <2>1. sched' = [sched EXCEPT !.tracked = @ \cup ids] /\ log' = log
      BY <1>2 DEF OnObjectCreate
    <2> QED  BY <1>1, <1>2, <2>1 DEF Scheds, AnyId
  <1>3. CASE ~sched.known
    <2>1. sched' = sched /\ log' = [log EXCEPT !.leaked = @ \cup ids]
      BY <1>3 DEF OnObjectCreate
    <2>2. log' \in Logs
      BY <1>1, <2>1 DEF Logs, AnyId
    <2> QED  BY <1>1, <1>3, <2>1, <2>2 DEF Logs
  <1> QED  BY <1>2, <1>3

(* What a message of the agent does to the scheduler.                      *)
LEMMA FromAgentEffect ==
    ASSUME Types, FromAgent
    PROVE  LET m == Head(wire.scheduler) IN
           /\ wire.scheduler # <<>> /\ m \in ToScheduler
           /\ wire' \in Wires
           /\ wire'.scheduler = Tail(wire.scheduler) /\ wire'.agent = wire.agent
           /\ wire'.client = wire.client /\ wire'.worker = wire.worker
           /\ sched' \in Scheds
           /\ \/ m[1] = "create" /\ OnObjectCreate(m[2])
              \/ /\ m[1] = "delete" /\ log' = log
                 /\ sched'.tracked = sched.tracked \ m[2] /\ sched'.tasks = sched.tasks
                 /\ sched'.queue = sched.queue \cup (m[2] \cap sched.tracked)
                 /\ sched'.batch = sched.batch /\ sched'.stray = sched.stray
              \/ /\ m[1] = "task" /\ log' = log
                 /\ sched'.tracked = sched.tracked /\ sched'.tasks = sched.tasks \cup {m[2]}
                 /\ sched'.queue = sched.queue /\ sched'.batch = sched.batch
                 /\ sched'.stray = sched.stray
  <1> DEFINE m == Head(wire.scheduler)
  <1>1. /\ wire \in Wires /\ wire.scheduler \in Seq(ToScheduler) /\ wire.scheduler # <<>>
        /\ sched \in Scheds /\ wire' = [wire EXCEPT !.scheduler = Tail(@)]
    BY DEF Types, Wires, FromAgent
  <1>2. m \in ToScheduler /\ Tail(wire.scheduler) \in Seq(ToScheduler)
    BY <1>1
  <1>3. m[1] \in {"create", "task", "delete"} /\ m[2] \in SUBSET Ids
    BY <1>2 DEF ToScheduler, Message
  <1>4. /\ wire'.scheduler = Tail(wire.scheduler) /\ wire'.agent = wire.agent
        /\ wire'.client = wire.client /\ wire'.worker = wire.worker
        /\ wire' \in Wires
    BY <1>1, <1>2 DEF Wires
  <1> HIDE DEF m
  <1>5. CASE m[1] = "create"
    <2>1. OnObjectCreate(m[2])
      BY <1>5 DEF FromAgent, m
    <2>2. sched' \in Scheds
      BY <1>3, <2>1, CreateEffect
    <2> QED  BY <1>1, <1>2, <1>4, <1>5, <2>1, <2>2 DEF m
  <1>6. CASE m[1] = "delete"
    <2>1. /\ sched' = [sched EXCEPT !.tracked = @ \ m[2],
                                    !.queue = @ \cup (m[2] \cap sched.tracked)]
          /\ log' = log
      BY <1>6 DEF FromAgent, m, OnDelObjects
    <2>2. sched' \in Scheds
      BY <1>1, <1>3, <2>1 DEF Scheds, AnyId
    <2>3. /\ sched'.tracked = sched.tracked \ m[2] /\ sched'.tasks = sched.tasks
          /\ sched'.queue = sched.queue \cup (m[2] \cap sched.tracked)
          /\ sched'.batch = sched.batch /\ sched'.stray = sched.stray
      BY <1>1, <2>1 DEF Scheds
    <2> QED  BY <1>1, <1>2, <1>4, <1>6, <2>1, <2>2, <2>3 DEF m
  <1>7. CASE m[1] = "task"
    <2>1. sched' = [sched EXCEPT !.tasks = @ \cup {m[2]}] /\ log' = log
      BY <1>7 DEF FromAgent, m
    <2>2. sched.tasks \cup {m[2]} \in SUBSET SUBSET Ids
      BY <1>1, <1>3 DEF Scheds
    <2>3. sched' \in Scheds
      BY <1>1, <2>1, <2>2 DEF Scheds
    <2>4. /\ sched'.tracked = sched.tracked /\ sched'.tasks = sched.tasks \cup {m[2]}
          /\ sched'.queue = sched.queue /\ sched'.batch = sched.batch
          /\ sched'.stray = sched.stray
      BY <1>1, <2>1 DEF Scheds
    <2> QED  BY <1>1, <1>2, <1>4, <1>7, <2>1, <2>3, <2>4 DEF m
  <1> QED  BY <1>3, <1>5, <1>6, <1>7

(* What a message of the worker does to the scheduler.                     *)
LEMMA FromWorkerEffect ==
    ASSUME Types, FromWorker
    PROVE  LET m == Head(wire.worker) IN
           /\ wire.worker # <<>> /\ m \in FromWorkers
           /\ wire' \in Wires
           /\ wire'.worker = Tail(wire.worker)
           /\ wire'.agent = wire.agent /\ wire'.scheduler = wire.scheduler
           /\ sched' \in Scheds /\ log' \in Logs
           /\ \/ m[1] = "create" /\ OnObjectCreate(m[2]) /\ wire'.client = wire.client
              \/ /\ m[1] = "result" /\ sched' = sched /\ log' = log
                 /\ wire'.client = IF m[2] \cap log.unnamed = {} THEN Append(wire.client, m[2])
                                   ELSE wire.client
  <1> DEFINE m == Head(wire.worker)
             named == m[1] = "result" /\ m[2] \cap log.unnamed = {}
  <1>1. /\ wire \in Wires /\ wire.worker \in Seq(FromWorkers) /\ wire.worker # <<>>
        /\ wire.client \in Seq(Answers) /\ sched \in Scheds /\ log \in Logs
    BY DEF Types, Wires, FromWorker
  <1>2. m \in FromWorkers /\ Tail(wire.worker) \in Seq(FromWorkers)
    BY <1>1
  <1>3. m[1] \in {"create", "result"} /\ m[2] \in Answers /\ m[2] \in SUBSET Ids
    BY <1>2 DEF FromWorkers, Single, Answers
  <1>4. /\ IF m[1] = "result" THEN UNCHANGED <<sched, log>> ELSE OnObjectCreate(m[2])
        /\ wire' = [wire EXCEPT !.worker = Tail(@),
                        !.client = IF named THEN Append(@, m[2]) ELSE @]
    BY DEF FromWorker
  <1> HIDE DEF m, named
  <1>5. /\ wire'.worker = Tail(wire.worker)
        /\ wire'.agent = wire.agent /\ wire'.scheduler = wire.scheduler
        /\ wire'.client = IF named THEN Append(wire.client, m[2]) ELSE wire.client
    BY <1>1, <1>4 DEF Wires
  <1>6. wire'.client \in Seq(Answers)
    BY <1>1, <1>3, <1>5
  <1>7. wire' \in Wires
    BY <1>1, <1>2, <1>4, <1>5, <1>6 DEF Wires
  <1>8. CASE m[1] = "create"
    <2>1. OnObjectCreate(m[2]) /\ wire'.client = wire.client
      BY <1>4, <1>5, <1>8 DEF named
    <2>2. sched' \in Scheds /\ log' \in Logs
      BY <1>3, <2>1, CreateEffect
    <2> QED  BY <1>1, <1>2, <1>5, <1>7, <1>8, <2>1, <2>2 DEF m
  <1>9. CASE m[1] = "result"
    <2>1. /\ sched' = sched /\ log' = log
          /\ wire'.client = IF m[2] \cap log.unnamed = {} THEN Append(wire.client, m[2])
                            ELSE wire.client
      BY <1>4, <1>5, <1>9 DEF named
    <2> QED  BY <1>1, <1>2, <1>5, <1>7, <1>9, <2>1 DEF m
  <1> QED  BY <1>3, <1>8, <1>9

(* What the abort of a graph does for one task of it that goes on: at most *)
(* one fresh result is minted, tracked and sent to the client.             *)
LEMMA AbortsEffect ==
    ASSUME Types, NEW args \in sched.tasks, NEW copy \in BOOLEAN, Aborts(args, copy)
    PROVE  LET copies == IF copy THEN {Fresh} ELSE {}
           IN  /\ copies \in Answers /\ copies \in SUBSET Ids
               /\ \A id \in copies : payload[id] = None /\ payload'[id] = "result"
               /\ \A i \in Ids : payload[i] # None => payload'[i] = payload[i]
               /\ payload' \in [Ids -> Contents \cup {None, "result"}]
               /\ wire' \in Wires /\ wire'.client = Append(wire.client, copies)
               /\ wire'.agent = wire.agent /\ wire'.scheduler = wire.scheduler
               /\ wire'.worker = wire.worker
               /\ sched' \in Scheds
               /\ sched'.tasks = sched.tasks \ {args} /\ sched'.stray = sched.stray \cup {args}
               /\ sched'.tracked = sched.tracked \cup copies
               /\ sched'.queue = sched.queue /\ sched'.batch = sched.batch
               /\ stored' = stored \cup copies /\ left' \in Nat
               /\ UNCHANGED <<cell, buf, call, refs, ready, sent, uploads, worker, log>>
  <1> DEFINE copies == IF copy THEN {Fresh} ELSE {}
  <1>1. /\ wire \in Wires /\ wire.client \in Seq(Answers) /\ sched \in Scheds /\ left \in Nat
        /\ payload \in [Ids -> Contents \cup {None, "result"}]
        /\ sched.tasks \in SUBSET SUBSET Ids /\ sched.stray \in SUBSET SUBSET Ids
        /\ sched.tracked \in SUBSET AnyId
    BY DEF Types, Wires, Scheds
  <1>2. /\ CanMint /\ left > 0 /\ left' = left - 1
        /\ payload' = [i \in Ids |-> IF i \in copies THEN "result" ELSE payload[i]]
        /\ stored' = stored \cup copies
        /\ sched' = [sched EXCEPT !.tasks = @ \ {args}, !.stray = @ \cup {args},
                                  !.tracked = @ \cup copies]
        /\ wire' = [wire EXCEPT !.client = Append(@, copies)]
        /\ UNCHANGED <<cell, buf, call, refs, ready, sent, uploads, worker, log>>
    BY DEF Aborts, Happens
  <1>3. Fresh \in Ids /\ payload[Fresh] = None
    BY <1>2, FreshType DEF Minted
  <1>4. copies \in Answers /\ copies \in SUBSET Ids /\ \A id \in copies : id = Fresh
    BY <1>3 DEF Answers, Single
  <1> HIDE DEF copies
  <1>5. /\ \A id \in copies : payload[id] = None /\ payload'[id] = "result"
        /\ \A i \in Ids : payload[i] # None => payload'[i] = payload[i]
        /\ payload' \in [Ids -> Contents \cup {None, "result"}]
    BY <1>1, <1>2, <1>3, <1>4
  <1>6. Append(wire.client, copies) \in Seq(Answers)
    BY <1>1, <1>4
  <1>7. /\ wire' \in Wires /\ wire'.client = Append(wire.client, copies)
        /\ wire'.agent = wire.agent /\ wire'.scheduler = wire.scheduler /\ wire'.worker = wire.worker
    BY <1>1, <1>2, <1>6 DEF Wires
  <1>8. /\ sched'.tasks = sched.tasks \ {args} /\ sched'.stray = sched.stray \cup {args}
        /\ sched'.tracked = sched.tracked \cup copies
        /\ sched'.queue = sched.queue /\ sched'.batch = sched.batch
    BY <1>1, <1>2 DEF Scheds
  <1>9. /\ sched.tasks \ {args} \in SUBSET SUBSET Ids /\ sched.stray \cup {args} \in SUBSET SUBSET Ids
        /\ sched.tracked \cup copies \in SUBSET AnyId
    BY <1>1, <1>4 DEF AnyId
  <1>10. sched' \in Scheds
    BY <1>1, <1>2, <1>9 DEF Scheds
  <1> QED  BY <1>1, <1>2, <1>4, <1>5, <1>7, <1>8, <1>10 DEF copies

(* A task that runs, whether it is stray or not, mints a fresh result.     *)
LEMMA RunEffect ==
    ASSUME Types, NEW args, NEW stray \in BOOLEAN, RunTask(args, stray)
    PROVE  /\ Fresh \in Ids /\ payload[Fresh] = None /\ worker = NoResult
           /\ payload' = [payload EXCEPT ![Fresh] = "result"]
           /\ stored' = stored \cup {Fresh}
           /\ worker' = [id |-> Fresh, announced |-> FALSE]
           /\ sched' \in Scheds /\ log' \in Logs
           /\ sched'.tasks \subseteq sched.tasks /\ sched'.stray \subseteq sched.stray
           /\ sched'.tracked = sched.tracked /\ sched'.queue = sched.queue
           /\ sched'.batch = sched.batch
           /\ log'.leaked = log.leaked /\ log'.unnamed = log.unnamed
           /\ log'.dropped = log.dropped /\ log'.stale = log.stale
           /\ log'.foreign = log.foreign /\ log'.abandoned = log.abandoned
           /\ log'.orphaned = log.orphaned
           /\ UNCHANGED <<cell, buf, call, refs, ready, sent, wire, uploads, left>>
  <1>1. /\ CanMint /\ worker = NoResult
        /\ payload' = [payload EXCEPT ![Fresh] = "result"]
        /\ stored' = stored \cup {Fresh}
        /\ worker' = [id |-> Fresh, announced |-> FALSE]
        /\ sched' = IF stray THEN [sched EXCEPT !.stray = @ \ {args}]
                    ELSE [sched EXCEPT !.tasks = @ \ {args}]
        /\ log' = IF stray THEN [log EXCEPT !.second = @ \cup {Fresh}] ELSE log
        /\ UNCHANGED <<cell, buf, call, refs, ready, sent, wire, uploads, left>>
    BY DEF RunTask
  <1>2. Fresh \in Ids /\ payload[Fresh] = None
    BY <1>1, FreshType DEF Minted
  <1>3. sched \in Scheds /\ log \in Logs
    BY DEF Types
  <1>4. /\ sched' \in Scheds
        /\ sched'.tasks \subseteq sched.tasks /\ sched'.stray \subseteq sched.stray
        /\ sched'.tracked = sched.tracked /\ sched'.queue = sched.queue
        /\ sched'.batch = sched.batch
    <2>1. sched.tasks \ {args} \in SUBSET SUBSET Ids /\ sched.stray \ {args} \in SUBSET SUBSET Ids
      BY <1>3 DEF Scheds
    <2>2. CASE stray
      <3>1. sched' = [sched EXCEPT !.stray = @ \ {args}]
        BY <1>1, <2>2
      <3> QED  BY <1>3, <2>1, <3>1 DEF Scheds
    <2>3. CASE ~stray
      <3>1. sched' = [sched EXCEPT !.tasks = @ \ {args}]
        BY <1>1, <2>3
      <3> QED  BY <1>3, <2>1, <3>1 DEF Scheds
    <2> QED  BY <2>2, <2>3
  <1>5. /\ log' \in Logs
        /\ log'.leaked = log.leaked /\ log'.unnamed = log.unnamed
        /\ log'.dropped = log.dropped /\ log'.stale = log.stale
        /\ log'.foreign = log.foreign /\ log'.abandoned = log.abandoned
        /\ log'.orphaned = log.orphaned
    <2>1. CASE stray
      <3>1. log' = [log EXCEPT !.second = @ \cup {Fresh}]
        BY <1>1, <2>1
      <3> QED  BY <1>2, <1>3, <3>1 DEF Logs
    <2>2. CASE ~stray
      BY <1>1, <1>3, <2>2
    <2> QED  BY <2>1, <2>2
  <1> QED  BY <1>1, <1>2, <1>4, <1>5

(* A task that is canceled before it runs leaves nothing behind.           *)
LEMMA CancelsEffect ==
    ASSUME Types, NEW args, Cancels(args)
    PROVE  /\ sched' \in Scheds /\ sched'.tasks \subseteq sched.tasks /\ sched'.stray = sched.stray
           /\ sched'.tracked = sched.tracked /\ sched'.queue = sched.queue
           /\ sched'.batch = sched.batch /\ left' \in Nat
           /\ UNCHANGED <<cell, buf, payload, call, refs, ready, sent, wire, stored, uploads, worker, log>>
  <1>1. sched \in Scheds /\ left \in Nat /\ sched.tasks \ {args} \in SUBSET SUBSET Ids
    BY DEF Types, Scheds
  <1>2. sched' = [sched EXCEPT !.tasks = @ \ {args}] /\ left > 0 /\ left' = left - 1
    BY DEF Cancels, Happens
  <1> QED  BY <1>1, <1>2 DEF Cancels, Scheds

(* clear() notes what stray tasks name.                                    *)
LEMMA ClearEffect ==
    ASSUME Types, Clear
    PROVE  /\ log' \in Logs
           /\ log'.leaked = log.leaked /\ log'.unnamed = log.unnamed
           /\ log'.dropped = log.dropped /\ log'.stale = log.stale
           /\ log'.foreign = log.foreign /\ log'.abandoned = log.abandoned
           /\ log'.orphaned = log.orphaned \cup UNION sched.stray
           /\ UNCHANGED <<cell, payload, call, refs, ready, sent, sched, stored, uploads, worker>>
  <1>1. log \in Logs /\ UNION sched.stray \in SUBSET Ids
    BY DEF Types, Scheds
  <1>2. log' = [log EXCEPT !.orphaned = @ \cup UNION sched.stray]
    BY DEF Clear
  <1> HIDE DEF Types
  <1> QED  BY <1>1, <1>2 DEF Clear, Logs

-----------------------------------------------------------------------------
(* Type correctness.                                                       *)

LEMMA RecordedType ==
    ASSUME Types, cell.alive, NEW id \in Ids
    PROVE  Recorded(id) \in [Ids -> Contents \cup {None, "result"}]
  <1>1. cell.content \in Contents /\ payload \in [Ids -> Contents \cup {None, "result"}]
    BY DEF Types
  <1> QED  BY <1>1 DEF Recorded

LEMMA ArgumentEffect ==
    ASSUME Types, NEW id \in Ids, Argument(id)
    PROVE  /\ call' \in [phase : {"idle", "buffering"}, args : SUBSET Ids, made : Nat]
           /\ call'.phase = "buffering" /\ call'.args = call.args \cup {id}
  <1>1. call \in [phase : {"idle", "buffering"}, args : SUBSET Ids, made : Nat]
    BY DEF Types
  <1>2. call' = [phase |-> "buffering", args |-> call.args \cup {id},
                 made |-> IF call.phase = "idle" THEN call.made + 1 ELSE call.made]
    BY DEF Argument
  <1> QED  BY <1>1, <1>2

(* Before anything is buffered nothing is named.                           *)
LEMMA ReturnsEffect ==
    ASSUME Types, Returns
    PROVE  /\ call' \in [phase : {"idle", "buffering"}, args : SUBSET Ids, made : Nat]
           /\ call'.phase = "idle" /\ call'.args = {}
  BY DEF Types, Returns

LEMMA CommitEffect ==
    ASSUME Types, Commit
    PROVE  LET now == IF buf.pending = {} THEN wire.agent
                      ELSE Append(wire.agent, <<"create", buf.pending>>)
           IN  /\ now \in Seq(ToAgent) /\ <<"task", call.args>> \in ToAgent
               /\ wire' \in Wires
               /\ wire'.agent = Append(now, <<"task", call.args>>)
               /\ wire'.scheduler = wire.scheduler
               /\ wire'.client = wire.client /\ wire'.worker = wire.worker
  <1> DEFINE now == IF buf.pending = {} THEN wire.agent
                    ELSE Append(wire.agent, <<"create", buf.pending>>)
  <1>1. /\ wire \in Wires /\ wire.agent \in Seq(ToAgent) /\ buf.pending \in SUBSET Ids
        /\ call.args \in SUBSET Ids
    BY DEF Types, Wires, Buffers
  <1>2. <<"task", call.args>> \in ToAgent /\ <<"create", buf.pending>> \in ToAgent
    BY <1>1 DEF ToAgent, Message
  <1>3. now \in Seq(ToAgent)
    BY <1>1, <1>2
  <1>4. wire' = [wire EXCEPT !.agent = Append(now, <<"task", call.args>>)]
    BY <1>1 DEF Commit
  <1> HIDE DEF now
  <1>5. Append(now, <<"task", call.args>>) \in Seq(ToAgent)
    BY <1>2, <1>3
  <1>6. /\ wire'.agent = Append(now, <<"task", call.args>>)
        /\ wire'.scheduler = wire.scheduler
        /\ wire'.client = wire.client /\ wire'.worker = wire.worker
    BY <1>1, <1>4 DEF Wires
  <1>7. wire' \in Wires
    BY <1>1, <1>4, <1>5 DEF Wires
  <1> QED  BY <1>2, <1>3, <1>6, <1>7 DEF now

LEMMA SendResultEffect ==
    ASSUME Types, SendResult
    PROVE  LET m == <<IF worker.announced THEN "result" ELSE "create", {worker.id}>>
           IN  /\ m \in FromWorkers
               /\ wire' \in Wires
               /\ wire'.worker = Append(wire.worker, m)
               /\ wire'.scheduler = wire.scheduler
               /\ wire'.client = wire.client /\ wire'.agent = wire.agent
               /\ worker.id \in Ids
               /\ worker' = IF worker.announced THEN NoResult
                            ELSE [worker EXCEPT !.announced = TRUE]
  <1> DEFINE m == <<IF worker.announced THEN "result" ELSE "create", {worker.id}>>
  <1>1. /\ wire \in Wires /\ wire.worker \in Seq(FromWorkers)
        /\ worker \in [id : Ids \cup {None}, announced : BOOLEAN]
        /\ worker.announced => worker.id \in Ids
        /\ worker # NoResult
    BY DEF Types, Wires, SendResult
  <1>2. worker.id \in Ids
    BY <1>1 DEF NoResult
  <1>3. m \in FromWorkers
    BY <1>2 DEF FromWorkers, Single
  <1>4. wire' = [wire EXCEPT !.worker = Append(@, m)]
    BY DEF SendResult
  <1>5. worker' = IF worker.announced THEN NoResult ELSE [worker EXCEPT !.announced = TRUE]
    BY DEF SendResult
  <1> HIDE DEF m
  <1>7. /\ wire' \in Wires /\ wire'.worker = Append(wire.worker, m)
        /\ wire'.scheduler = wire.scheduler
        /\ wire'.client = wire.client /\ wire'.agent = wire.agent
    <2>1. Append(wire.worker, m) \in Seq(FromWorkers)
      BY <1>1, <1>3
    <2> QED  BY <1>1, <1>4, <2>1 DEF Wires
  <1> QED  BY <1>2, <1>3, <1>5, <1>7 DEF m

LEMMA TypesInit == Init => Types
  <1> SUFFICES ASSUME Init PROVE Types
    OBVIOUS
  <1>1. buf \in Buffers
    BY DEF Init, Buffers, AnyId
  <1>2. wire \in Wires
    BY DEF Init, Wires
  <1>3. sched \in Scheds /\ log \in Logs
    BY DEF Init, Scheds, Logs, AnyId
  <1>4. cell \in [alive : BOOLEAN, weak : BOOLEAN, content : Contents \cup {None},
                  had : SUBSET Contents] /\ ~cell.alive /\ ~buf.guarded
    BY DEF Init, Dead
  <1>5. worker \in [id : Ids \cup {None}, announced : BOOLEAN] /\ ~worker.announced
    BY DEF Init, NoResult
  <1> QED  BY <1>1, <1>2, <1>3, <1>4, <1>5, BudgetAssumption DEF Init, Types, AnyId

LEMMA TypesStep == Types /\ [Next]_vars => Types'
  <1> SUFFICES ASSUME Types, [Next]_vars PROVE Types'
    OBVIOUS
  <1> USE DEF Types
  <1>1. ASSUME NEW c \in Contents, NEW weak \in BOOLEAN, NewObject(c, weak) PROVE Types'
    BY <1>1 DEF NewObject, Happens
  <1>2. CASE CollectObject
    <2>1. cell' = Dead /\ buf' = [buf EXCEPT !.guarded = FALSE]
      BY <1>2 DEF CollectObject
    <2>2. buf' \in Buffers /\ ~buf'.guarded
      BY <2>1 DEF Buffers
    <2>3. cell' \in [alive : BOOLEAN, weak : BOOLEAN, content : Contents \cup {None},
                    had : SUBSET Contents] /\ ~cell'.alive
      BY <2>1 DEF Dead
    <2> QED  BY <1>2, <2>2, <2>3 DEF CollectObject
  <1>3. ASSUME NEW c \in Contents, Mutate(c) PROVE Types'
    <2>1. cell' = [cell EXCEPT !.content = c, !.had = @ \cup {c}] /\ left' \in Nat
      BY <1>3 DEF Mutate, Happens
    <2>2. /\ cell' \in [alive : BOOLEAN, weak : BOOLEAN, content : Contents \cup {None},
                       had : SUBSET Contents]
          /\ cell'.alive = cell.alive /\ cell'.weak = cell.weak /\ cell'.content \in cell'.had
      BY <2>1
    <2> QED  BY <1>3, <2>1, <2>2 DEF Mutate
  <1>4. ASSUME NEW r \in BOOLEAN, BufferArgument(r) PROVE Types'
    <2> DEFINE b == Buffered(r, TRUE)
    <2>1. /\ cell.alive /\ CanMint /\ buf' = b.buf /\ payload' = Recorded(b.id) /\ Argument(b.id)
          /\ \/ log' = log
             \/ log' = [log EXCEPT !.foreign = @ \cup {<<b.id, log.abandoned>>}]
      BY <1>4 DEF BufferArgument
    <2>2. b.id \in Ids /\ b.buf \in Buffers /\ (b.buf.guarded => buf.guarded \/ cell.weak)
      BY <2>1, BufferedEffect
    <2> HIDE DEF b
    <2>3. log' \in Logs
      <3>1. CASE log' = log
        BY <3>1
      <3>2. CASE log' = [log EXCEPT !.foreign = @ \cup {<<b.id, log.abandoned>>}]
        BY <2>2, <3>2 DEF Logs
      <3> QED  BY <2>1, <3>1, <3>2
    <2>4. payload' \in [Ids -> Contents \cup {None, "result"}]
      BY <2>1, <2>2, RecordedType
    <2>5. /\ call' \in [phase : {"idle", "buffering"}, args : SUBSET Ids, made : Nat]
          /\ call'.phase = "buffering"
      BY <2>1, <2>2, ArgumentEffect
    <2> QED  BY <1>4, <2>1, <2>2, <2>3, <2>4, <2>5 DEF BufferArgument
  <1>5. CASE SendObject
    <2> DEFINE b == Buffered(FALSE, FALSE)
    <2>1. /\ cell.alive /\ CanMint /\ buf' = b.buf /\ payload' = Recorded(b.id)
          /\ refs' = refs \cup {b.id} /\ left > 0 /\ left' = left - 1
      BY <1>5 DEF SendObject, Happens
    <2>2. b.id \in Ids /\ b.buf \in Buffers /\ (b.buf.guarded => buf.guarded \/ cell.weak)
      BY <2>1, BufferedEffect
    <2> HIDE DEF b
    <2>3. payload' \in [Ids -> Contents \cup {None, "result"}]
      BY <2>1, <2>2, RecordedType
    <2>4. refs' \in SUBSET Ids /\ left' \in Nat
      BY <2>1, <2>2
    <2>5. buf' \in Buffers /\ (buf'.guarded => cell'.alive /\ cell'.weak)
      BY <1>5, <2>1, <2>2 DEF SendObject
    <2> QED  BY <1>5, <2>3, <2>4, <2>5 DEF SendObject
  <1>6. CASE Abandon
    <2>1. log' = [log EXCEPT !.abandoned = TRUE] /\ Returns /\ left' \in Nat
      BY <1>6 DEF Abandon, Happens
    <2>2. log' \in Logs
      BY <2>1 DEF Logs
    <2> QED  BY <1>6, <2>1, <2>2, ReturnsEffect DEF Abandon
  <1>7. CASE Clear
    <2>1. buf' \in Buffers /\ ~buf'.guarded
      BY <1>7 DEF Clear, Buffers, AnyId
    <2>2. wire' = [wire EXCEPT !.agent = Append(@, <<"clear", {}>>)] /\ left' \in Nat
      BY <1>7 DEF Clear, Happens
    <2>3. wire.agent \in Seq(ToAgent) /\ <<"clear", {}>> \in ToAgent
      BY DEF Wires, ToAgent, Message
    <2>4. Append(wire.agent, <<"clear", {}>>) \in Seq(ToAgent)
      BY <2>3
    <2>5. wire' \in Wires
      BY <2>2, <2>4 DEF Wires
    <2>6. log' \in Logs
      BY <1>7, ClearEffect
    <2> QED  BY <1>7, <2>1, <2>2, <2>5, <2>6 DEF Clear
  <1>8. ASSUME NEW id \in refs, NEW checked \in BOOLEAN, UseReference(id, checked) PROVE Types'
    <2>1. Argument(id) /\ id \in Ids /\ (log' = log \/ log' = [log EXCEPT !.stale = @ \cup {id}])
      BY <1>8 DEF UseReference
    <2>2. log' \in Logs
      BY <2>1 DEF Logs
    <2>3. /\ call' \in [phase : {"idle", "buffering"}, args : SUBSET Ids, made : Nat]
          /\ call'.phase = "buffering"
      BY <2>1, ArgumentEffect
    <2> QED  BY <1>8, <2>2, <2>3 DEF UseReference
  <1>9. CASE Commit
    <2>1. wire' \in Wires
      BY <1>9, CommitEffect
    <2>2. /\ uploads' = uploads \cup buf.pending
          /\ buf' = [buf EXCEPT !.pending = {}, !.cycle = None]
          /\ log' = [log EXCEPT !.abandoned = FALSE] /\ Returns
      BY <1>9 DEF Commit
    <2>3. buf' \in Buffers /\ buf'.guarded = buf.guarded
      BY <2>2 DEF Buffers
    <2>4. log' \in Logs
      BY <2>2 DEF Logs
    <2>5. uploads' \in SUBSET Ids
      BY <2>2 DEF Buffers
    <2> QED  BY <1>9, <2>1, <2>2, <2>3, <2>4, <2>5, ReturnsEffect DEF Commit
  <1>10. CASE OnObjectInstruction
    <2>1. wire' \in Wires /\ sent' \in SUBSET AnyId
      BY <1>10, InstructionEffect
    <2> QED  BY <1>10, <2>1 DEF OnObjectInstruction
  <1>11. CASE ReceiveResult
    <2>1. /\ wire.client # <<>> /\ sent' = sent \cup Head(wire.client)
          /\ ready' = ready \cup (Head(wire.client) \ log.second) /\ wire' = [wire EXCEPT !.client = Tail(@)]
      BY <1>11 DEF ReceiveResult, OnTaskResult
    <2>2. wire.client \in Seq(Answers)
      BY DEF Wires
    <2>3. Head(wire.client) \in SUBSET Ids /\ Tail(wire.client) \in Seq(Answers)
      BY <2>1, <2>2 DEF Answers, Single
    <2>4. wire' \in Wires
      BY <2>1, <2>3 DEF Wires
    <2> QED  BY <1>11, <2>1, <2>3, <2>4 DEF ReceiveResult, AnyId
  <1>12. ASSUME NEW id \in ready, FetchResult(id) PROVE Types'
    BY <1>12 DEF FetchResult
  <1>13. CASE FromAgent
    <2>1. wire' \in Wires /\ sched' \in Scheds
      BY <1>13, FromAgentEffect
    <2>2. log' \in Logs
      BY <1>13, FromAgentEffect, CreateEffect DEF ToScheduler, Message
    <2> QED  BY <1>13, <2>1, <2>2 DEF FromAgent
  <1>14. CASE FromWorker
    <2>1. wire' \in Wires /\ sched' \in Scheds /\ log' \in Logs
      BY <1>14, FromWorkerEffect
    <2> QED  BY <1>14, <2>1 DEF FromWorker
  <1>15. CASE CleanClient
    <2>1. /\ sched' = [sched EXCEPT !.cleaning = FALSE, !.tracked = {},
                                    !.queue = @ \cup sched.tracked]
          /\ log' = [log EXCEPT !.dropped = @ \cup sched.tracked]
      BY <1>15 DEF CleanClient
    <2>2. sched' \in Scheds
      BY <2>1 DEF Scheds
    <2>3. log' \in Logs
      BY <2>1 DEF Logs, Scheds
    <2> QED  BY <1>15, <2>2, <2>3 DEF CleanClient
  <1>16. CASE Heartbeat
    BY <1>16 DEF Heartbeat, Scheds
  <1>17. CASE SendDeletions
    BY <1>17 DEF SendDeletions, Scheds
  <1>18. ASSUME NEW id \in AnyId, StorageDeletes(id) PROVE Types'
    <2>1. /\ sched' = [sched EXCEPT !.batch = @ \ {id}] /\ stored' = stored \ {id}
          /\ (log' = log \/ log' = [log EXCEPT !.leaked = @ \cup {id}])
      BY <1>18 DEF StorageDeletes
    <2>2. sched' \in Scheds
      BY <2>1 DEF Scheds
    <2>3. log' \in Logs
      BY <1>18, <2>1 DEF Logs
    <2> QED  BY <1>18, <2>1, <2>2, <2>3 DEF StorageDeletes
  <1>19. ASSUME NEW id \in AnyId, StorageSets(id) PROVE Types'
    BY <1>19 DEF StorageSets
  <1>20. ASSUME NEW args, NEW stray \in BOOLEAN, RunTask(args, stray) PROVE Types'
    <2>1. /\ worker' = [id |-> Fresh, announced |-> FALSE] /\ Fresh \in Ids
          /\ payload' = [payload EXCEPT ![Fresh] = "result"]
          /\ stored' = stored \cup {Fresh} /\ sched' \in Scheds /\ log' \in Logs
          /\ UNCHANGED <<cell, buf, call, refs, ready, sent, wire, uploads, left>>
      BY <1>20, RunEffect
    <2>2. payload' \in [Ids -> Contents \cup {None, "result"}]
      BY <2>1
    <2>3. worker' \in [id : Ids \cup {None}, announced : BOOLEAN] /\ ~worker'.announced
      BY <2>1
    <2> QED  BY <2>1, <2>2, <2>3 DEF AnyId
  <1>21. CASE SendResult
    <2>1. /\ wire' \in Wires /\ worker.id \in Ids
          /\ worker' = IF worker.announced THEN NoResult
                       ELSE [worker EXCEPT !.announced = TRUE]
      BY <1>21, SendResultEffect
    <2>2. worker' \in [id : Ids \cup {None}, announced : BOOLEAN]
          /\ (worker'.announced => worker'.id \in Ids)
      BY <2>1 DEF NoResult
    <2> QED  BY <1>21, <2>1, <2>2 DEF SendResult
  <1>22. CASE ForgetClient
    <2>1. /\ sched' = [sched EXCEPT !.known = FALSE, !.cleaning = TRUE, !.tasks = {}, !.stray = {}]
          /\ log' = [log EXCEPT !.unnamed = @ \cup Reported \cup ({worker.id} \ {None})]
          /\ left' \in Nat
      BY <1>22 DEF ForgetClient, Happens
    <2>2. sched' \in Scheds
      BY <2>1 DEF Scheds
    <2>3. Reported \in SUBSET Ids
      <3>1. wire.worker \in Seq(FromWorkers)
        BY DEF Wires
      <3>2. \A i \in DOMAIN wire.worker : wire.worker[i][2] \in SUBSET Ids
        BY <3>1 DEF FromWorkers, Single
      <3> QED  BY <3>2 DEF Reported, Announced
    <2>4. log' \in Logs
      BY <2>1, <2>3 DEF Logs
    <2> QED  BY <1>22, <2>1, <2>2, <2>4 DEF ForgetClient
  <1>23. CASE Killed
    <2>1. worker' = NoResult /\ left' \in Nat /\ worker # NoResult
      BY <1>23 DEF Killed, Happens
    <2>2. worker.id \in Ids
      BY <2>1 DEF NoResult
    <2>3. log' = [log EXCEPT !.unnamed = @ \cup {worker.id}]
          \/ log' = [log EXCEPT !.leaked = @ \cup {worker.id}]
      BY <1>23 DEF Killed
    <2>4. log' \in Logs
      BY <2>2, <2>3 DEF Logs, AnyId
    <2> QED  BY <1>23, <2>1, <2>4 DEF Killed, NoResult
  <1>24. CASE UNCHANGED vars
    BY <1>24 DEF vars
  <1>25. ASSUME NEW args \in sched.tasks, NEW copy \in BOOLEAN, Aborts(args, copy) PROVE Types'
    <2>1. /\ payload' \in [Ids -> Contents \cup {None, "result"}]
          /\ wire' \in Wires /\ sched' \in Scheds /\ left' \in Nat
          /\ stored' \in SUBSET AnyId
          /\ UNCHANGED <<cell, buf, call, refs, ready, sent, uploads, worker, log>>
      BY <1>25, AbortsEffect DEF AnyId
    <2> QED  BY <2>1
  <1>26. ASSUME NEW args \in sched.tasks, Cancels(args) PROVE Types'
    BY <1>26, CancelsEffect
  <1> HIDE DEF Types
  <1> QED
    BY <1>1, <1>2, <1>3, <1>4, <1>5, <1>6, <1>7, <1>8, <1>9, <1>10, <1>11, <1>12, <1>13, <1>14,
       <1>15, <1>16, <1>17, <1>18, <1>19, <1>20, <1>21, <1>22, <1>23, <1>24, <1>25,
       <1>26
    DEF Next, User, Agent, Scheduler, Storage, Worker, AnyId

LEMMA TypesCorrect == Spec => []Types
  <1> QED  BY TypesInit, TypesStep, PTL DEF Spec

-----------------------------------------------------------------------------
(* Whose content an argument has.                                          *)

(* Every entry of a cache stands for what it is looked up by: an id found  *)
(* by a payload for that payload, the entry of the weak cache for a        *)
(* content of the living object, the entry of the cycle for its content    *)
(* now, as long as the call it belongs to was not abandoned.               *)
ValidMinted == \A i \in buf.valid \cap Ids : payload[i] # None
HashedOwn   == \A c \in Contents : buf.hashed[c] \in Ids => payload[buf.hashed[c]] = c
CycleOwn    == buf.cycle # None /\ ~log.abandoned =>
                   cell.alive /\ call.phase = "buffering" /\ payload[buf.cycle] = cell.content
DedupOwn    == buf.guarded /\ buf.dedup # None => payload[buf.dedup] \in cell.had
SnapshotInv == Types /\ ValidMinted /\ HashedOwn /\ CycleOwn /\ DedupOwn /\ SnapshotOwn

(* What is minted keeps its content, and a fresh id gets that of the       *)
(* object.                                                                 *)
LEMMA RecordedEffect ==
    ASSUME Types, cell.alive, CanMint, NEW id \in Ids, payload[id] # None \/ id = Fresh
    PROVE  /\ Recorded(id)[id] = IF payload[id] = None THEN cell.content ELSE payload[id]
           /\ Recorded(id)[id] # None
           /\ \A i \in Ids : payload[i] # None => Recorded(id)[i] = payload[i]
           /\ payload[Fresh] = None
  <1>1. cell.content \in Contents /\ payload \in [Ids -> Contents \cup {None, "result"}]
    BY DEF Types
  <1>2. Fresh \in Ids /\ payload[Fresh] = None
    BY FreshType DEF Minted
  <1> QED  BY <1>1, <1>2, IdsAssumption DEF Recorded

LEMMA BufferedSnapshot ==
    ASSUME SnapshotInv, cell.alive, CanMint, NEW r \in BOOLEAN, NEW d \in BOOLEAN
    PROVE  LET b == Buffered(r, d)
               p == Recorded(b.id)
           IN  /\ b.id \in Ids /\ p[b.id] # None
               /\ \A i \in Ids : payload[i] # None => p[i] = payload[i]
               /\ p[b.id] = cell.content \/ (~r /\ p[b.id] \in cell.had) \/ log.abandoned
               /\ \A i \in b.buf.valid \cap Ids : p[i] # None
               /\ \A c \in Contents : b.buf.hashed[c] \in Ids => p[b.buf.hashed[c]] = c
               /\ b.buf.cycle = buf.cycle \/ (d /\ p[b.buf.cycle] = cell.content)
               /\ b.buf.guarded /\ b.buf.dedup # None => p[b.buf.dedup] \in cell.had
  <1> DEFINE cached == IF d THEN LookupDedup(r) ELSE None
             id == IF cached # None THEN cached ELSE ObjectIdForPayload(cell.content)
             forgotten == IF d /\ ~r /\ ~buf.guarded THEN None ELSE buf.dedup
             b == Buffered(r, d)
             p == Recorded(b.id)
  <1>1. /\ Types /\ buf \in Buffers /\ cell.content \in Contents /\ cell.content \in cell.had
        /\ cell.had \in SUBSET Contents
        /\ None \notin Ids /\ None \notin Contents /\ cell.weak \in BOOLEAN
        /\ Fresh \in Ids /\ payload[Fresh] = None
        /\ payload \in [Ids -> Contents \cup {None, "result"}]
    BY FreshType, IdsAssumption DEF SnapshotInv, Types, Minted
  <1>2. /\ buf.valid \in SUBSET AnyId /\ buf.hashed \in [Contents -> Ids \cup {None}]
        /\ buf.dedup \in Ids \cup {None} /\ buf.cycle \in Ids \cup {None} /\ buf.guarded \in BOOLEAN
    BY <1>1 DEF Buffers
  <1>3. b = IF cached # None THEN [id |-> id, buf |-> [buf EXCEPT !.dedup = forgotten]]
            ELSE [id |-> id,
                  buf |-> [buf EXCEPT !.pending = IF id \in buf.valid THEN @ ELSE @ \cup {id},
                                      !.valid = @ \cup {id},
                                      !.hashed[cell.content] = id,
                                      !.cycle = IF d THEN id ELSE @,
                                      !.dedup = IF d /\ cell.weak THEN id ELSE forgotten,
                                      !.guarded = @ \/ (d /\ cell.weak)]]
    BY DEF Buffered
  <1>4. /\ \A i \in buf.valid \cap Ids : payload[i] # None
        /\ \A c \in Contents : buf.hashed[c] \in Ids => payload[buf.hashed[c]] = c
        /\ buf.cycle # None /\ ~log.abandoned => payload[buf.cycle] = cell.content
        /\ buf.guarded /\ buf.dedup # None => payload[buf.dedup] \in cell.had
    BY DEF SnapshotInv, ValidMinted, HashedOwn, CycleOwn, DedupOwn
  <1>5. CASE cached # None
    <2>1. /\ id = cached /\ id \in buf.valid \cap Ids
          /\ \/ ~r /\ id = buf.dedup /\ buf.guarded
             \/ id = buf.cycle
      BY <1>1, <1>2, <1>5, IdsAssumption DEF LookupDedup, AnyId
    <2>2. b.id = id /\ b.buf = [buf EXCEPT !.dedup = forgotten]
      BY <1>3, <1>5
    <2>3. payload[id] # None /\ p = payload
      BY <1>4, <2>1, <2>2 DEF Recorded
    <2>4. /\ b.buf.valid = buf.valid /\ b.buf.hashed = buf.hashed /\ b.buf.cycle = buf.cycle
          /\ b.buf.guarded = buf.guarded /\ b.buf.dedup = forgotten
      BY <1>1, <2>2 DEF Buffers
    <2> HIDE DEF b, p, id, cached
    <2>5. payload[id] = cell.content \/ (~r /\ payload[id] \in cell.had) \/ log.abandoned
      BY <1>1, <1>2, <1>4, <2>1
    <2>6. b.buf.guarded /\ b.buf.dedup # None => payload[b.buf.dedup] \in cell.had
      BY <1>4, <2>4
    <2> QED  BY <1>4, <2>1, <2>2, <2>3, <2>4, <2>5, <2>6 DEF b, p
  <1>6. CASE cached = None
    <2>0. id = ObjectIdForPayload(cell.content)
      BY <1>6
    <2> HIDE DEF b, p, id, cached, forgotten
    <2>1. /\ id \in Ids
          /\ \/ id = Fresh
             \/ id \in buf.valid /\ payload[id] = cell.content
      BY <1>1, <1>2, <1>4, <2>0, IdsAssumption DEF ObjectIdForPayload, AnyId
    <2>2. /\ b.id = id
          /\ b.buf = [buf EXCEPT !.pending = IF id \in buf.valid THEN @ ELSE @ \cup {id},
                                      !.valid = @ \cup {id},
                                      !.hashed[cell.content] = id,
                                      !.cycle = IF d THEN id ELSE @,
                                      !.dedup = IF d /\ cell.weak THEN id ELSE forgotten,
                                      !.guarded = @ \/ (d /\ cell.weak)]
      BY <1>3, <1>6
    <2>3. /\ b.buf.valid = buf.valid \cup {id}
          /\ b.buf.hashed = [buf.hashed EXCEPT ![cell.content] = id]
          /\ b.buf.cycle = (IF d THEN id ELSE buf.cycle)
          /\ b.buf.dedup = (IF d /\ cell.weak THEN id ELSE forgotten)
          /\ b.buf.guarded = (buf.guarded \/ (d /\ cell.weak))
      BY <1>1, <2>2 DEF Buffers
    <2>4. /\ p[id] = cell.content
          /\ \A i \in Ids : payload[i] # None => p[i] = payload[i]
      <3>1. payload[id] # None \/ id = Fresh
        BY <1>1, <2>1
      <3>2. /\ p[id] = IF payload[id] = None THEN cell.content ELSE payload[id]
            /\ \A i \in Ids : payload[i] # None => p[i] = payload[i]
        BY <1>1, <2>1, <2>2, <3>1, RecordedEffect DEF p
      <3> QED  BY <1>1, <2>1, <3>2
    <2>5. \A i \in b.buf.valid \cap Ids : p[i] # None
      BY <1>1, <1>4, <2>3, <2>4
    <2>6. \A c \in Contents : b.buf.hashed[c] \in Ids => p[b.buf.hashed[c]] = c
      BY <1>1, <1>2, <1>4, <2>1, <2>3, <2>4
    <2>7. b.buf.guarded /\ b.buf.dedup # None => p[b.buf.dedup] \in cell.had
      <3>1. CASE d /\ cell.weak
        BY <1>1, <2>3, <2>4, <3>1
      <3>2. CASE ~(d /\ cell.weak)
        <4>1. b.buf.dedup = forgotten /\ b.buf.guarded = buf.guarded
          BY <1>1, <1>2, <2>3, <3>2
        <4>2. forgotten # None => forgotten = buf.dedup
          BY DEF forgotten
        <4> QED  BY <1>1, <1>2, <1>4, <2>4, <4>1, <4>2
      <3> QED  BY <3>1, <3>2
    <2>8. p[b.id] = cell.content /\ p[b.id] # None
      BY <1>1, <2>2, <2>4
    <2>9. b.buf.cycle = buf.cycle \/ (d /\ p[b.buf.cycle] = cell.content)
      BY <2>3, <2>4
    <2> QED  BY <2>1, <2>2, <2>4, <2>5, <2>6, <2>7, <2>8, <2>9 DEF b, p
  <1> QED  BY <1>5, <1>6

LEMMA SnapshotInit == Init => SnapshotInv
  <1> SUFFICES ASSUME Init PROVE SnapshotInv
    OBVIOUS
  <1>1. /\ buf.valid = {Serializer} /\ buf.hashed = [c \in Contents |-> None]
        /\ buf.cycle = None /\ ~buf.guarded /\ log.foreign = {}
    BY DEF Init
  <1> QED
    BY <1>1, TypesInit, IdsAssumption
    DEF SnapshotInv, ValidMinted, HashedOwn, CycleOwn, DedupOwn, SnapshotOwn

LEMMA SnapshotStep == SnapshotInv /\ [Next]_vars => SnapshotInv'
  <1> SUFFICES ASSUME SnapshotInv, [Next]_vars PROVE SnapshotInv'
    OBVIOUS
  <1> DEFINE Rest == ValidMinted /\ HashedOwn /\ CycleOwn /\ DedupOwn /\ SnapshotOwn
  <1>t. Types /\ Rest /\ Types'
    BY TypesStep DEF SnapshotInv
  <1> SUFFICES Rest'
    BY <1>t DEF SnapshotInv
  <1>q. /\ buf \in Buffers /\ log \in Logs /\ cell.had \in SUBSET Contents
        /\ payload \in [Ids -> Contents \cup {None, "result"}]
        /\ buf.dedup \in Ids \cup {None} /\ buf.cycle \in Ids \cup {None}
        /\ None \notin Ids \cup Contents
    BY <1>t, IdsAssumption DEF Types, Buffers
  <1> USE DEF ValidMinted, HashedOwn, CycleOwn, DedupOwn, SnapshotOwn
  <1>1. ASSUME NEW c \in Contents, NEW weak \in BOOLEAN, NewObject(c, weak) PROVE Rest'
    BY <1>1, <1>t DEF NewObject, Types
  <1>2. CASE CollectObject
    <2>1. buf' = [buf EXCEPT !.guarded = FALSE] /\ UNCHANGED <<payload, call, log>> /\ call.phase = "idle"
      BY <1>2 DEF CollectObject
    <2>2. /\ buf'.valid = buf.valid /\ buf'.hashed = buf.hashed /\ buf'.cycle = buf.cycle
          /\ ~buf'.guarded
      BY <1>q, <2>1 DEF Buffers
    <2> QED  BY <1>t, <2>1, <2>2
  <1>3. ASSUME NEW c \in Contents, Mutate(c) PROVE Rest'
    <2>1. /\ cell' = [cell EXCEPT !.content = c, !.had = @ \cup {c}]
          /\ UNCHANGED <<buf, payload, call, log>> /\ call.phase = "idle"
      BY <1>3 DEF Mutate
    <2>2. cell'.had = cell.had \cup {c}
      BY <1>t, <2>1 DEF Types
    <2> QED  BY <1>t, <2>1, <2>2
  <1>4. ASSUME NEW r \in BOOLEAN, BufferArgument(r) PROVE Rest'
    <2> DEFINE b == Buffered(r, TRUE)
               p == Recorded(b.id)
               wrong == IF r THEN p[b.id] # cell.content ELSE p[b.id] \notin cell.had
    <2>1. /\ cell.alive /\ CanMint /\ buf' = b.buf /\ payload' = p /\ Argument(b.id)
          /\ log' = IF wrong THEN [log EXCEPT !.foreign = @ \cup {<<b.id, log.abandoned>>}] ELSE log
          /\ UNCHANGED cell
      BY <1>4 DEF BufferArgument
    <2>2. /\ b.id \in Ids
          /\ \A i \in Ids : payload[i] # None => p[i] = payload[i]
          /\ p[b.id] = cell.content \/ (~r /\ p[b.id] \in cell.had) \/ log.abandoned
          /\ \A i \in b.buf.valid \cap Ids : p[i] # None
          /\ \A c \in Contents : b.buf.hashed[c] \in Ids => p[b.buf.hashed[c]] = c
          /\ b.buf.cycle = buf.cycle \/ p[b.buf.cycle] = cell.content
          /\ b.buf.guarded /\ b.buf.dedup # None => p[b.buf.dedup] \in cell.had
      BY <2>1, BufferedSnapshot
    <2>3. call'.phase = "buffering"
      BY <1>t, <2>1, <2>2, ArgumentEffect
    <2>4. cell.content \in cell.had /\ cell.content # None /\ log.abandoned \in BOOLEAN
      BY <1>t, <1>q, <2>1 DEF Types, Logs
    <2> HIDE DEF b, p, wrong
    <2>5. wrong => log.abandoned
      BY <2>2, <2>4 DEF wrong
    <2>6. log'.abandoned = log.abandoned /\ SnapshotOwn'
      <3>1. CASE wrong
        <4>1. log' = [log EXCEPT !.foreign = @ \cup {<<b.id, log.abandoned>>}]
          BY <2>1, <3>1
        <4>2. log'.foreign = log.foreign \cup {<<b.id, log.abandoned>>} /\ log'.abandoned = log.abandoned
          BY <1>q, <4>1 DEF Logs
        <4> QED  BY <1>t, <2>5, <3>1, <4>2
      <3>2. CASE ~wrong
        BY <1>t, <2>1, <3>2
      <3> QED  BY <3>1, <3>2
    <2>7. ValidMinted' /\ HashedOwn' /\ DedupOwn'
      BY <2>1, <2>2
    <2>8. CycleOwn'
      BY <1>q, <1>t, <2>1, <2>2, <2>3, <2>4, <2>6
    <2> QED  BY <2>6, <2>7, <2>8
  <1>5. CASE SendObject
    <2> DEFINE b == Buffered(FALSE, FALSE)
               p == Recorded(b.id)
    <2>1. /\ cell.alive /\ CanMint /\ buf' = b.buf /\ payload' = p /\ call.phase = "idle"
          /\ UNCHANGED <<cell, log, call>>
      BY <1>5 DEF SendObject
    <2>2. /\ \A i \in b.buf.valid \cap Ids : p[i] # None
          /\ \A c \in Contents : b.buf.hashed[c] \in Ids => p[b.buf.hashed[c]] = c
          /\ b.buf.cycle = buf.cycle
          /\ b.buf.guarded /\ b.buf.dedup # None => p[b.buf.dedup] \in cell.had
      BY <2>1, BufferedSnapshot
    <2> HIDE DEF b, p
    <2> QED  BY <1>t, <2>1, <2>2
  <1>6. CASE Abandon
    <2>1. log' = [log EXCEPT !.abandoned = TRUE] /\ UNCHANGED <<buf, payload, cell>>
      BY <1>6 DEF Abandon
    <2>2. log'.abandoned /\ log'.foreign = log.foreign
      BY <1>q, <2>1 DEF Logs
    <2> QED  BY <1>t, <2>1, <2>2
  <1>7. CASE Clear
    <2>1. /\ buf'.valid = {Serializer} /\ buf'.hashed = [c \in Contents |-> None]
          /\ buf'.cycle = None /\ ~buf'.guarded
      BY <1>7 DEF Clear
    <2>2. log'.foreign = log.foreign
      BY <1>t, <1>7, ClearEffect
    <2> QED  BY <1>t, <2>1, <2>2, IdsAssumption
  <1>8. ASSUME NEW id \in refs, NEW checked \in BOOLEAN, UseReference(id, checked) PROVE Rest'
    <2>1. /\ Argument(id) /\ id \in Ids /\ UNCHANGED <<buf, payload, cell>>
          /\ (log' = log \/ log' = [log EXCEPT !.stale = @ \cup {id}])
      BY <1>8, <1>t DEF UseReference, Types
    <2>2. log'.foreign = log.foreign /\ log'.abandoned = log.abandoned
      BY <1>q, <2>1 DEF Logs
    <2>3. call'.phase = "buffering"
      BY <1>t, <2>1, ArgumentEffect
    <2> QED  BY <1>t, <2>1, <2>2, <2>3
  <1>9. CASE Commit
    <2>1. /\ buf' = [buf EXCEPT !.pending = {}, !.cycle = None]
          /\ log' = [log EXCEPT !.abandoned = FALSE] /\ UNCHANGED <<payload, cell>>
      BY <1>9 DEF Commit
    <2>2. /\ buf'.valid = buf.valid /\ buf'.hashed = buf.hashed /\ buf'.cycle = None
          /\ buf'.guarded = buf.guarded /\ buf'.dedup = buf.dedup
      BY <1>q, <2>1 DEF Buffers
    <2>3. log'.foreign = log.foreign
      BY <1>q, <2>1 DEF Logs
    <2> QED  BY <1>t, <2>1, <2>2, <2>3
  <1>10. ASSUME NEW args, NEW stray \in BOOLEAN, RunTask(args, stray) PROVE Rest'
    <2>1. /\ payload' = [payload EXCEPT ![Fresh] = "result"]
          /\ log'.foreign = log.foreign /\ log'.abandoned = log.abandoned
          /\ UNCHANGED <<cell, buf, call>>
      BY <1>t, <1>10, RunEffect
    <2>2. Fresh \in Ids /\ payload[Fresh] = None
      BY <1>t, <1>10, RunEffect
    <2>3. \A i \in Ids : payload[i] # None => payload'[i] = payload[i] /\ payload'[i] # None
      BY <1>q, <2>1, <2>2
    <2>4. cell.alive => cell.content # None
      BY <1>t, <1>q DEF Types
    <2> QED  BY <1>t, <1>q, <2>1, <2>3, <2>4
  <1>11. ASSUME UNCHANGED <<cell, buf, payload, call>>, log'.foreign = log.foreign,
                log'.abandoned = log.abandoned
         PROVE  Rest'
    BY <1>t, <1>11
  <1>12. CASE FromAgent
    <2>1. log'.foreign = log.foreign /\ log'.abandoned = log.abandoned
      BY <1>t, <1>12, FromAgentEffect, CreateEffect DEF ToScheduler, Message
    <2> QED  BY <1>11, <1>12, <2>1 DEF FromAgent
  <1>13. CASE FromWorker
    <2>1. log'.foreign = log.foreign /\ log'.abandoned = log.abandoned
      BY <1>t, <1>13, FromWorkerEffect, CreateEffect DEF FromWorkers, Single
    <2> QED  BY <1>11, <1>13, <2>1 DEF FromWorker
  <1>14. CASE CleanClient
    <2>1. log'.foreign = log.foreign /\ log'.abandoned = log.abandoned
      BY <1>q, <1>14 DEF CleanClient, Logs
    <2> QED  BY <1>11, <1>14, <2>1 DEF CleanClient
  <1>15. ASSUME NEW id \in AnyId, StorageDeletes(id) PROVE Rest'
    <2>1. log'.foreign = log.foreign /\ log'.abandoned = log.abandoned
      BY <1>q, <1>15 DEF StorageDeletes, Logs
    <2> QED  BY <1>11, <1>15, <2>1 DEF StorageDeletes
  <1>16. CASE ForgetClient
    <2>1. log'.foreign = log.foreign /\ log'.abandoned = log.abandoned
      BY <1>q, <1>16 DEF ForgetClient, Logs
    <2> QED  BY <1>11, <1>16, <2>1 DEF ForgetClient
  <1>17. CASE Killed
    <2>1. log'.foreign = log.foreign /\ log'.abandoned = log.abandoned
      BY <1>q, <1>17 DEF Killed, Logs
    <2> QED  BY <1>11, <1>17, <2>1 DEF Killed
  <1>18. CASE OnObjectInstruction \/ ReceiveResult \/ Heartbeat \/ SendDeletions \/ SendResult
              \/ UNCHANGED vars
    BY <1>11, <1>18
    DEF OnObjectInstruction, ReceiveResult, Heartbeat, SendDeletions, SendResult, vars
  <1>19. ASSUME NEW id \in AnyId, FetchResult(id) \/ StorageSets(id) PROVE Rest'
    BY <1>11, <1>19 DEF FetchResult, StorageSets
  <1>20. ready \in SUBSET AnyId
    BY <1>t DEF Types, AnyId
  <1>21. ASSUME NEW args \in sched.tasks, NEW copy \in BOOLEAN, Aborts(args, copy) PROVE Rest'
    <2>1. /\ \A i \in Ids : payload[i] # None => payload'[i] = payload[i]
          /\ UNCHANGED <<cell, buf, call, log>>
      BY <1>t, <1>21, AbortsEffect
    <2>2. cell.alive => cell.content # None
      BY <1>t, <1>q DEF Types
    <2> QED  BY <1>t, <1>q, <2>1, <2>2
  <1>22. ASSUME NEW args \in sched.tasks, Cancels(args) PROVE Rest'
    BY <1>11, <1>22 DEF Cancels
  <1> HIDE DEF Rest
  <1> QED
    BY <1>1, <1>2, <1>3, <1>4, <1>5, <1>6, <1>7, <1>8, <1>9, <1>10, <1>12, <1>13, <1>14,
       <1>15, <1>16, <1>17, <1>18, <1>19, <1>20,
       <1>21, <1>22
    DEF Next, User, Agent, Scheduler, Storage, Worker, AnyId

(* An argument is sent with a content its own object has or had: a         *)
(* recycled id() meets the snapshot of another object only after a call    *)
(* was abandoned between buffering and committing (object_buffer.py).      *)
THEOREM SnapshotCorrect == Spec => []SnapshotOwn
  <1>1. SnapshotInv => SnapshotOwn
    BY DEF SnapshotInv
  <1> QED  BY <1>1, SnapshotInit, SnapshotStep, PTL DEF Spec

-----------------------------------------------------------------------------
(* Queues of messages.                                                     *)

(* Names(m, kind, id): a message of this kind names the object.            *)
Names(m, kind, id) == \E i \in DOMAIN m : m[i][1] = kind /\ id \in m[i][2]

(* Disjoint(m): no two creations name the same object.                     *)
Disjoint(m) ==
    \A i, j \in DOMAIN m :
        i # j /\ m[i][1] = "create" /\ m[j][1] = "create" => m[i][2] \cap m[j][2] = {}

(* Covered(m, kind, X): an object a creation names is in X, or named again *)
(* by a later message of the kind.                                         *)
Covered(m, kind, X) ==
    \A i \in DOMAIN m : \A id \in m[i][2] :
        m[i][1] = "create" =>
            id \in X \/ \E j \in DOMAIN m : j > i /\ m[j][1] = kind /\ id \in m[j][2]

LEMMA AnnouncedNames ==
    ASSUME NEW m, NEW kind, NEW id
    PROVE  id \in Announced(m, kind) <=> Names(m, kind, id)
  BY DEF Announced, Names

LEMMA SequenceFacts ==
    ASSUME NEW S, NEW m \in Seq(S), NEW x \in S
    PROVE  /\ Append(m, x) \in Seq(S)
           /\ DOMAIN Append(m, x) = DOMAIN m \cup {Len(m) + 1}
           /\ \A i \in DOMAIN m : i < Len(m) + 1 /\ Append(m, x)[i] = m[i]
           /\ Append(m, x)[Len(m) + 1] = x
           /\ DOMAIN m \subseteq Nat /\ Len(m) \in Nat
  OBVIOUS

LEMMA TailFacts ==
    ASSUME NEW S, NEW m \in Seq(S), m # <<>>
    PROVE  /\ Tail(m) \in Seq(S) /\ Head(m) = m[1] /\ 1 \in DOMAIN m
           /\ \A i \in DOMAIN Tail(m) : i \in Nat /\ i + 1 \in DOMAIN m /\ Tail(m)[i] = m[i + 1]
           /\ \A i \in DOMAIN m : i = 1 \/ (i > 1 /\ i - 1 \in DOMAIN Tail(m) /\ Tail(m)[i - 1] = m[i])
           /\ DOMAIN m \subseteq Nat
  OBVIOUS

LEMMA NamesAppend ==
    ASSUME NEW S, NEW m \in Seq(S), NEW x \in S, NEW kind, NEW id
    PROVE  Names(Append(m, x), kind, id) <=> Names(m, kind, id) \/ (x[1] = kind /\ id \in x[2])
  BY SequenceFacts DEF Names

LEMMA NamesTail ==
    ASSUME NEW S, NEW m \in Seq(S), m # <<>>, NEW kind, NEW id
    PROVE  Names(m, kind, id) <=> Names(Tail(m), kind, id) \/ (Head(m)[1] = kind /\ id \in Head(m)[2])
  <1>1. ASSUME Names(m, kind, id)
        PROVE  Names(Tail(m), kind, id) \/ (Head(m)[1] = kind /\ id \in Head(m)[2])
    <2>1. PICK i \in DOMAIN m : m[i][1] = kind /\ id \in m[i][2]
      BY <1>1 DEF Names
    <2>2. i = 1 \/ (i - 1 \in DOMAIN Tail(m) /\ Tail(m)[i - 1] = m[i])
      BY TailFacts
    <2> QED  BY <2>1, <2>2, TailFacts DEF Names
  <1>2. ASSUME Names(Tail(m), kind, id) PROVE Names(m, kind, id)
    <2>1. PICK i \in DOMAIN Tail(m) : Tail(m)[i][1] = kind /\ id \in Tail(m)[i][2]
      BY <1>2 DEF Names
    <2>2. i + 1 \in DOMAIN m /\ Tail(m)[i] = m[i + 1]
      BY TailFacts
    <2> QED  BY <2>1, <2>2 DEF Names
  <1>3. ASSUME Head(m)[1] = kind, id \in Head(m)[2] PROVE Names(m, kind, id)
    BY <1>3, TailFacts DEF Names
  <1> QED  BY <1>1, <1>2, <1>3

LEMMA DisjointAppend ==
    ASSUME NEW S, NEW m \in Seq(S), NEW x \in S, Disjoint(m),
           x[1] = "create" => \A id \in x[2] : ~Names(m, "create", id)
    PROVE  Disjoint(Append(m, x))
  <1> DEFINE q == Append(m, x)
  <1> SUFFICES ASSUME NEW i \in DOMAIN q, NEW j \in DOMAIN q, i # j,
                      q[i][1] = "create", q[j][1] = "create", NEW id \in q[i][2], id \in q[j][2]
               PROVE  FALSE
    BY DEF Disjoint
  <1>1. /\ DOMAIN q = DOMAIN m \cup {Len(m) + 1} /\ q[Len(m) + 1] = x
        /\ \A k \in DOMAIN m : q[k] = m[k]
    BY SequenceFacts
  <1> HIDE DEF q
  <1>2. CASE i \in DOMAIN m /\ j \in DOMAIN m
    BY <1>1, <1>2 DEF Disjoint
  <1>3. CASE i = Len(m) + 1 /\ j \in DOMAIN m
    BY <1>1, <1>3 DEF Names
  <1>4. CASE i \in DOMAIN m /\ j = Len(m) + 1
    BY <1>1, <1>4 DEF Names
  <1> QED  BY <1>1, <1>2, <1>3, <1>4

LEMMA DisjointTail ==
    ASSUME NEW S, NEW m \in Seq(S), m # <<>>, Disjoint(m)
    PROVE  /\ Disjoint(Tail(m))
           /\ Head(m)[1] = "create" => \A id \in Head(m)[2] : ~Names(Tail(m), "create", id)
  <1>1. /\ Head(m) = m[1] /\ 1 \in DOMAIN m
        /\ \A i \in DOMAIN Tail(m) : i \in Nat /\ i + 1 \in DOMAIN m /\ Tail(m)[i] = m[i + 1]
    BY TailFacts
  <1>2. \A i \in DOMAIN Tail(m) : i + 1 # 1
    BY <1>1, TailFacts
  <1>3. Disjoint(Tail(m))
    <2> SUFFICES ASSUME NEW i \in DOMAIN Tail(m), NEW j \in DOMAIN Tail(m), i # j,
                        Tail(m)[i][1] = "create", Tail(m)[j][1] = "create"
                 PROVE  Tail(m)[i][2] \cap Tail(m)[j][2] = {}
      BY DEF Disjoint
    <2>1. i + 1 # j + 1 /\ i + 1 \in DOMAIN m /\ j + 1 \in DOMAIN m
          /\ Tail(m)[i] = m[i + 1] /\ Tail(m)[j] = m[j + 1]
      BY <1>1
    <2> QED  BY <2>1 DEF Disjoint
  <1>4. ASSUME Head(m)[1] = "create", NEW id \in Head(m)[2], Names(Tail(m), "create", id)
        PROVE  FALSE
    <2>1. PICK i \in DOMAIN Tail(m) : Tail(m)[i][1] = "create" /\ id \in Tail(m)[i][2]
      BY <1>4 DEF Names
    <2>2. i + 1 \in DOMAIN m /\ Tail(m)[i] = m[i + 1] /\ i + 1 # 1
      BY <1>1, <1>2
    <2> QED  BY <1>1, <1>4, <2>1, <2>2 DEF Disjoint
  <1> QED  BY <1>3, <1>4

LEMMA CoveredAppend ==
    ASSUME NEW S, NEW m \in Seq(S), NEW x \in S, NEW kind, NEW X, NEW Y, Covered(m, kind, X),
           \A id \in X : id \in Y \/ (x[1] = kind /\ id \in x[2]),
           x[1] = "create" => \A id \in x[2] : id \in Y
    PROVE  Covered(Append(m, x), kind, Y)
  <1> DEFINE q == Append(m, x)
  <1>1. /\ DOMAIN q = DOMAIN m \cup {Len(m) + 1} /\ q[Len(m) + 1] = x
        /\ \A k \in DOMAIN m : k < Len(m) + 1 /\ q[k] = m[k]
    BY SequenceFacts
  <1> HIDE DEF q
  <1> SUFFICES ASSUME NEW i \in DOMAIN q, NEW id \in q[i][2], q[i][1] = "create"
               PROVE  id \in Y \/ \E j \in DOMAIN q : j > i /\ q[j][1] = kind /\ id \in q[j][2]
    BY DEF Covered, q
  <1>2. CASE i = Len(m) + 1
    BY <1>1, <1>2
  <1>3. CASE i \in DOMAIN m
    <2>1. id \in X \/ \E j \in DOMAIN m : j > i /\ m[j][1] = kind /\ id \in m[j][2]
      BY <1>1, <1>3 DEF Covered
    <2>2. CASE id \in X
      BY <1>1, <1>3, <2>2
    <2>3. CASE \E j \in DOMAIN m : j > i /\ m[j][1] = kind /\ id \in m[j][2]
      BY <1>1, <2>3
    <2> QED  BY <2>1, <2>2, <2>3
  <1> QED  BY <1>1, <1>2, <1>3

LEMMA CoveredTail ==
    ASSUME NEW S, NEW m \in Seq(S), m # <<>>, NEW kind, NEW X, Covered(m, kind, X)
    PROVE  /\ Covered(Tail(m), kind, X)
           /\ Head(m)[1] = "create" =>
                  \A id \in Head(m)[2] : id \in X \/ Names(Tail(m), kind, id)
  <1>1. /\ Head(m) = m[1] /\ 1 \in DOMAIN m /\ DOMAIN m \subseteq Nat
        /\ \A i \in DOMAIN Tail(m) : i \in Nat /\ i + 1 \in DOMAIN m /\ Tail(m)[i] = m[i + 1]
        /\ \A i \in DOMAIN m : i = 1 \/ (i > 1 /\ i - 1 \in DOMAIN Tail(m) /\ Tail(m)[i - 1] = m[i])
    BY TailFacts
  <1>2. Covered(Tail(m), kind, X)
    <2> SUFFICES ASSUME NEW i \in DOMAIN Tail(m), NEW id \in Tail(m)[i][2],
                        Tail(m)[i][1] = "create", id \notin X
                 PROVE  \E j \in DOMAIN Tail(m) : j > i /\ Tail(m)[j][1] = kind /\ id \in Tail(m)[j][2]
      BY DEF Covered
    <2>1. PICK j \in DOMAIN m : j > i + 1 /\ m[j][1] = kind /\ id \in m[j][2]
      BY <1>1 DEF Covered
    <2>2. j - 1 \in DOMAIN Tail(m) /\ Tail(m)[j - 1] = m[j] /\ j - 1 > i
      BY <1>1, <2>1
    <2> QED  BY <2>1, <2>2
  <1>3. ASSUME Head(m)[1] = "create", NEW id \in Head(m)[2], id \notin X
        PROVE  Names(Tail(m), kind, id)
    <2>1. PICK j \in DOMAIN m : j > 1 /\ m[j][1] = kind /\ id \in m[j][2]
      BY <1>1, <1>3 DEF Covered
    <2>2. j - 1 \in DOMAIN Tail(m) /\ Tail(m)[j - 1] = m[j]
      BY <1>1, <2>1
    <2> QED  BY <2>1, <2>2 DEF Names
  <1> QED  BY <1>2, <1>3

LEMMA CoveredMore ==
    ASSUME NEW m, NEW kind, NEW X, NEW Y, X \subseteq Y, Covered(m, kind, X)
    PROVE  Covered(m, kind, Y)
  BY DEF Covered

-----------------------------------------------------------------------------
(* Every object is accounted for.                                          *)

(* The object is a result that was not delivered yet, or is about to be    *)
(* created by the agent.                                                   *)
Holds(q, id) == \E i \in DOMAIN q : id \in q[i]
Result(id) == \/ Names(wire.worker, "create", id) \/ Names(wire.worker, "result", id)
              \/ Holds(wire.client, id) \/ worker.id = id
Coming(id) == Names(wire.agent, "create", id) \/ id \in buf.pending
Holder     == IF worker.announced THEN {worker.id} ELSE {}

(* Whatever is on its way was minted.                                      *)
KnownMinted == \A id \in Ids : id \in sent \/ Coming(id) \/ Result(id) => payload[id] # None

(* A creation is announced once: the agent has not sent it before, it is   *)
(* not the result of a task, and no other message announces it.            *)
ComingOnce ==
    /\ \A id \in Ids : Coming(id) => id \notin sent /\ ~Result(id)
    /\ \A id \in buf.pending : ~Names(wire.agent, "create", id)
    /\ Disjoint(wire.agent)

(* What is stored, or will be, is tracked, will be tracked, will be        *)
(* deleted, or leaked.                                                     *)
StoredKept ==
    \A id \in stored \cup uploads :
        \/ id \in sched.tracked \cup sched.queue \cup sched.batch \cup log.leaked
        \/ Names(wire.agent, "create", id) \/ Names(wire.scheduler, "create", id)
        \/ Names(wire.worker, "create", id)
        \/ ~worker.announced /\ worker.id = id

(* What the scheduler tracks, or is about to, the agent knows of, will     *)
(* learn of or has given up; but for results nobody reports.               *)
TrackedNamed ==
    \A id \in sched.tracked :
        \/ id \in sent \cup Holder \cup log.unnamed
        \/ Names(wire.scheduler, "delete", id) \/ Holds(wire.client, id)
        \/ Names(wire.worker, "create", id) \/ Names(wire.worker, "result", id)
CreatesNamed ==
    /\ Covered(wire.scheduler, "delete", sent)
    /\ Covered(wire.worker, "result", Holder \cup log.unnamed)

AccountRest == KnownMinted /\ ComingOnce /\ StoredKept /\ TrackedNamed /\ CreatesNamed
AccountInv  == SnapshotInv /\ AccountRest

LEMMA HoldsAppend ==
    ASSUME NEW S, NEW q \in Seq(S), NEW x \in S, NEW id
    PROVE  Holds(Append(q, x), id) <=> Holds(q, id) \/ id \in x
  BY SequenceFacts DEF Holds

LEMMA HoldsTail ==
    ASSUME NEW S, NEW q \in Seq(S), q # <<>>, NEW id
    PROVE  Holds(q, id) <=> Holds(Tail(q), id) \/ id \in Head(q)
  <1>1. ASSUME Holds(q, id) PROVE Holds(Tail(q), id) \/ id \in Head(q)
    <2>1. PICK i \in DOMAIN q : id \in q[i]
      BY <1>1 DEF Holds
    <2>2. i = 1 \/ (i - 1 \in DOMAIN Tail(q) /\ Tail(q)[i - 1] = q[i])
      BY TailFacts
    <2> QED  BY <2>1, <2>2, TailFacts DEF Holds
  <1>2. ASSUME Holds(Tail(q), id) PROVE Holds(q, id)
    <2>1. PICK i \in DOMAIN Tail(q) : id \in Tail(q)[i]
      BY <1>2 DEF Holds
    <2>2. i + 1 \in DOMAIN q /\ Tail(q)[i] = q[i + 1]
      BY TailFacts
    <2> QED  BY <2>1, <2>2 DEF Holds
  <1>3. ASSUME id \in Head(q) PROVE Holds(q, id)
    BY <1>3, TailFacts DEF Holds
  <1> QED  BY <1>1, <1>2, <1>3

LEMMA AccountInit == Init => AccountInv
  <1> SUFFICES ASSUME Init PROVE AccountRest
    BY SnapshotInit DEF AccountInv
  <1>1. /\ wire.agent = <<>> /\ wire.scheduler = <<>> /\ wire.client = <<>> /\ wire.worker = <<>>
        /\ buf.pending = {} /\ sent = {Serializer} /\ stored = {Serializer} /\ uploads = {}
        /\ sched.tracked = {Serializer} /\ worker.id = None
    BY DEF Init, NoResult
  <1>2. /\ \A k, id : ~Names(<<>>, k, id) /\ ~Holds(<<>>, id)
        /\ Disjoint(<<>>) /\ \A k, X : Covered(<<>>, k, X)
    BY DEF Names, Holds, Disjoint, Covered
  <1>3. \A id \in Ids : id \notin sent /\ ~Coming(id) /\ ~Result(id)
    BY <1>1, <1>2, IdsAssumption DEF Coming, Result
  <1> QED
    BY <1>1, <1>2, <1>3 DEF AccountRest, KnownMinted, ComingOnce, StoredKept, TrackedNamed, CreatesNamed

(* The queues and the books decide, and a payload once minted stays.       *)
LEMMA AccountFrame ==
    ASSUME AccountRest, UNCHANGED <<wire, sent, worker>>, buf'.pending = buf.pending,
           \A i \in Ids : payload[i] # None => payload'[i] # None,
           stored' \cup uploads' \subseteq stored \cup uploads,
           sched'.tracked \subseteq sched.tracked,
           \A i \in sched.tracked \cup sched.queue \cup sched.batch \cup log.leaked :
               i \in stored' \cup uploads' =>
                   i \in sched'.tracked \cup sched'.queue \cup sched'.batch \cup log'.leaked,
           log.unnamed \subseteq log'.unnamed
    PROVE  AccountRest'
  <1>1. \A id : /\ Result(id)' = Result(id) /\ Coming(id)' = Coming(id)
    BY DEF Result, Coming
  <1>2. KnownMinted' /\ ComingOnce'
    BY <1>1 DEF AccountRest, KnownMinted, ComingOnce
  <1>3. StoredKept'
    BY DEF AccountRest, StoredKept
  <1>4. TrackedNamed'
    BY DEF AccountRest, TrackedNamed, Holder
  <1>5. CreatesNamed'
    <2>1. Holder \cup log.unnamed \subseteq (Holder \cup log.unnamed)'
      BY DEF Holder
    <2> QED  BY <2>1, CoveredMore DEF AccountRest, CreatesNamed
  <1> QED  BY <1>2, <1>3, <1>4, <1>5 DEF AccountRest

(* Buffering mints at most one id, which nobody knew before.               *)
LEMMA AccountBuffered ==
    ASSUME AccountInv, CanMint, cell.alive, NEW r \in BOOLEAN, NEW d \in BOOLEAN,
           buf' = Buffered(r, d).buf, payload' = Recorded(Buffered(r, d).id),
           UNCHANGED <<wire, sent, sched, stored, uploads, worker>>,
           log'.leaked = log.leaked, log'.unnamed = log.unnamed
    PROVE  AccountRest'
  <1> DEFINE b == Buffered(r, d)
  <1>1. SnapshotInv /\ AccountRest /\ Types
    BY DEF AccountInv, SnapshotInv
  <1>2. /\ b.id \in Ids
        /\ \/ b.buf.pending = buf.pending
           \/ b.id = Fresh /\ b.buf.pending = buf.pending \cup {Fresh}
    BY <1>1, BufferedEffect
  <1>3. Recorded(b.id)[b.id] # None /\ \A i \in Ids : payload[i] # None => Recorded(b.id)[i] = payload[i]
    BY <1>1, BufferedSnapshot
  <1>4. Fresh \in Ids /\ payload[Fresh] = None
    BY FreshType DEF Minted
  <1> HIDE DEF b
  <1>5. CASE buf'.pending = buf.pending
    <2>1. \A i \in Ids : payload[i] # None => payload'[i] # None
      BY <1>3 DEF b
    <2> QED  BY <1>1, <1>5, <2>1, AccountFrame
  <1>6. CASE b.id = Fresh /\ buf'.pending = buf.pending \cup {Fresh}
    <2>1. ~Coming(Fresh) /\ ~Result(Fresh) /\ Fresh \notin sent
      BY <1>1, <1>4 DEF AccountRest, KnownMinted
    <2>2. \A id : /\ Result(id)' = Result(id)
                  /\ Coming(id)' <=> Coming(id) \/ id = Fresh
      BY <1>6 DEF Result, Coming
    <2>3. KnownMinted'
      BY <1>1, <1>3, <1>6, <2>2 DEF AccountRest, KnownMinted, b
    <2>4. ComingOnce'
      BY <1>1, <1>6, <2>1, <2>2 DEF AccountRest, ComingOnce, Coming
    <2>5. StoredKept'
      BY <1>1 DEF AccountRest, StoredKept
    <2>6. TrackedNamed' /\ CreatesNamed'
      BY <1>1 DEF AccountRest, TrackedNamed, CreatesNamed, Holder
    <2> QED  BY <2>3, <2>4, <2>5, <2>6 DEF AccountRest
  <1> QED  BY <1>2, <1>5, <1>6 DEF b

(* What is committed moves from the buffer to the agent's queue.           *)
LEMMA AccountCommit ==
    ASSUME AccountInv, Commit
    PROVE  AccountRest'
  <1> DEFINE a == IF buf.pending = {} THEN wire.agent ELSE Append(wire.agent, <<"create", buf.pending>>)
             x == <<"task", call.args>>
  <1>1. AccountRest /\ Types
    BY DEF AccountInv, SnapshotInv
  <1>2. /\ a \in Seq(ToAgent) /\ x \in ToAgent /\ wire'.agent = Append(a, x)
        /\ wire'.scheduler = wire.scheduler /\ wire'.client = wire.client /\ wire'.worker = wire.worker
    BY <1>1, CommitEffect
  <1>3. /\ uploads' = uploads \cup buf.pending /\ buf'.pending = {} /\ UNCHANGED <<payload, sent, sched, stored, worker>>
        /\ log'.leaked = log.leaked /\ log'.unnamed = log.unnamed
    BY <1>1 DEF Commit, Types, Buffers, Logs
  <1>4. wire.agent \in Seq(ToAgent) /\ <<"create", buf.pending>> \in ToAgent
    BY <1>1 DEF Types, Wires, Buffers, ToAgent, Message
  <1>5. \A id : Names(a, "create", id) <=> Names(wire.agent, "create", id) \/ id \in buf.pending
    BY <1>4, NamesAppend
  <1>6. Disjoint(a)
    BY <1>1, <1>4, DisjointAppend DEF AccountRest, ComingOnce
  <1> HIDE DEF a
  <1>7. \A id : Names(wire'.agent, "create", id) <=> Coming(id)
    BY <1>2, <1>5, NamesAppend DEF Coming
  <1>8. Disjoint(wire'.agent)
    BY <1>2, <1>6, DisjointAppend
  <1>9. \A id : Result(id)' = Result(id) /\ Coming(id)' = Coming(id)
    BY <1>2, <1>3, <1>7 DEF Result, Coming
  <1>10. KnownMinted' /\ ComingOnce'
    BY <1>1, <1>3, <1>8, <1>9 DEF AccountRest, KnownMinted, ComingOnce
  <1>11. StoredKept'
    BY <1>1, <1>2, <1>3, <1>7 DEF AccountRest, StoredKept, Coming
  <1>12. TrackedNamed' /\ CreatesNamed'
    BY <1>1, <1>2, <1>3 DEF AccountRest, TrackedNamed, CreatesNamed, Holder
  <1> QED  BY <1>10, <1>11, <1>12 DEF AccountRest

(* The agent announces a creation, or names everything it sent.            *)
LEMMA AccountInstruction ==
    ASSUME AccountInv, OnObjectInstruction
    PROVE  AccountRest'
  <1> DEFINE m == Head(wire.agent)
  <1>1. AccountRest /\ Types
    BY DEF AccountInv, SnapshotInv
  <1>2. /\ wire.agent # <<>> /\ m \in ToAgent /\ wire'.agent = Tail(wire.agent)
        /\ wire'.client = wire.client /\ wire'.worker = wire.worker
        /\ \/ /\ m[1] = "create" /\ sent' = sent \cup m[2]
              /\ wire'.scheduler = IF m[2] \ sent = {} THEN wire.scheduler
                                   ELSE Append(wire.scheduler, <<"create", m[2] \ sent>>)
           \/ /\ m[1] = "clear" /\ sent' = sent \cap {Serializer}
              /\ wire'.scheduler = Append(wire.scheduler, <<"delete", sent \ {Serializer}>>)
           \/ /\ m[1] = "task" /\ sent' = sent
              /\ wire'.scheduler = Append(wire.scheduler, m)
    BY <1>1, InstructionEffect
  <1>3. UNCHANGED <<buf, payload, sched, stored, uploads, worker, log>>
    BY DEF OnObjectInstruction
  <1>4. /\ wire.agent \in Seq(ToAgent) /\ wire.scheduler \in Seq(ToScheduler) /\ m[2] \in SUBSET Ids
        /\ sent \in SUBSET AnyId
    BY <1>1, <1>2 DEF Types, Wires, ToAgent, Message
  <1>5. \A k, id : Names(wire.agent, k, id) <=> Names(wire'.agent, k, id) \/ (m[1] = k /\ id \in m[2])
    BY <1>2, <1>4, NamesTail
  <1>6. /\ Disjoint(wire'.agent)
        /\ m[1] = "create" => \A id \in m[2] : ~Names(wire'.agent, "create", id)
    BY <1>1, <1>2, <1>4, DisjointTail DEF AccountRest, ComingOnce
  <1>7. \A id : Result(id)' = Result(id) /\ (Coming(id)' => Coming(id))
    BY <1>2, <1>3, <1>5 DEF Result, Coming
  <1>8. Covered(wire.worker, "result", Holder \cup log.unnamed)'
    BY <1>1, <1>2, <1>3 DEF AccountRest, CreatesNamed, Holder
  <1> HIDE DEF m
  <1>9. CASE m[1] = "create"
    <2>1. \A id \in m[2] : Coming(id) /\ id \in Ids
      BY <1>4, <1>5, <1>9 DEF Coming
    <2>2. m[2] \ sent = m[2]
      BY <1>1, <2>1 DEF AccountRest, ComingOnce
    <2>3. /\ sent' = sent \cup m[2]
          /\ wire'.scheduler = IF m[2] = {} THEN wire.scheduler
                               ELSE Append(wire.scheduler, <<"create", m[2]>>)
      BY <1>2, <1>9, <2>2
    <2>4. <<"create", m[2]>> \in ToScheduler
      BY <1>4 DEF ToScheduler, Message
    <2>5. \A k, id : Names(wire'.scheduler, k, id) <=>
                         Names(wire.scheduler, k, id) \/ (k = "create" /\ id \in m[2])
      BY <1>4, <2>3, <2>4, NamesAppend
    <2>6. KnownMinted'
      BY <1>1, <1>3, <1>7, <2>1, <2>3 DEF AccountRest, KnownMinted
    <2>7. ComingOnce'
      <3>1. \A id \in m[2] : ~Coming(id)'
        BY <1>1, <1>3, <1>5, <1>6, <1>9 DEF AccountRest, ComingOnce, Coming
      <3>2. \A id \in Ids : Coming(id)' => id \notin sent' /\ ~Result(id)'
        BY <1>1, <1>7, <2>3, <3>1 DEF AccountRest, ComingOnce
      <3>3. \A id \in buf'.pending : ~Names(wire'.agent, "create", id)
        BY <1>1, <1>3, <1>5 DEF AccountRest, ComingOnce
      <3> QED  BY <1>6, <3>2, <3>3 DEF ComingOnce
    <2>8. StoredKept'
      BY <1>1, <1>2, <1>3, <1>5, <2>5 DEF AccountRest, StoredKept
    <2>9. TrackedNamed'
      BY <1>1, <1>2, <1>3, <2>3, <2>5 DEF AccountRest, TrackedNamed, Holder
    <2>10. Covered(wire'.scheduler, "delete", sent')
      <3>1. Covered(wire.scheduler, "delete", sent')
        BY <1>1, <2>3, CoveredMore DEF AccountRest, CreatesNamed
      <3>2. Covered(Append(wire.scheduler, <<"create", m[2]>>), "delete", sent')
        BY <1>4, <2>3, <2>4, <3>1, CoveredAppend
      <3> QED  BY <2>3, <3>1, <3>2
    <2> QED  BY <1>8, <2>6, <2>7, <2>8, <2>9, <2>10 DEF AccountRest, CreatesNamed
  <1>10. CASE m[1] = "clear"
    <2>1. /\ sent' = sent \cap {Serializer}
          /\ wire'.scheduler = Append(wire.scheduler, <<"delete", sent \ {Serializer}>>)
      BY <1>2, <1>10
    <2>2. <<"delete", sent \ {Serializer}>> \in ToScheduler
      BY <1>4 DEF ToScheduler, Message, AnyId
    <2>3. \A k, id : Names(wire'.scheduler, k, id) <=>
                         Names(wire.scheduler, k, id) \/ (k = "delete" /\ id \in sent \ {Serializer})
      BY <1>4, <2>1, <2>2, NamesAppend
    <2>4. \A id : Coming(id)' = Coming(id)
      BY <1>3, <1>5, <1>10 DEF Coming
    <2>5. KnownMinted'
      BY <1>1, <1>3, <1>7, <2>1 DEF AccountRest, KnownMinted
    <2>6. ComingOnce'
      BY <1>1, <1>3, <1>5, <1>6, <1>7, <2>1, <2>4 DEF AccountRest, ComingOnce
    <2>7. StoredKept'
      BY <1>1, <1>2, <1>3, <1>5, <1>10, <2>3 DEF AccountRest, StoredKept
    <2>8. TrackedNamed'
      BY <1>1, <1>2, <1>3, <2>1, <2>3 DEF AccountRest, TrackedNamed, Holder
    <2>9. Covered(wire'.scheduler, "delete", sent')
      BY <1>1, <1>4, <2>1, <2>2, CoveredAppend DEF AccountRest, CreatesNamed
    <2> QED  BY <1>8, <2>5, <2>6, <2>7, <2>8, <2>9 DEF AccountRest, CreatesNamed
  <1>11. CASE m[1] = "task"
    <2>1. sent' = sent /\ wire'.scheduler = Append(wire.scheduler, m)
      BY <1>2, <1>11
    <2>2. m \in ToScheduler
      BY <1>2, <1>11 DEF ToScheduler, ToAgent, Message
    <2>3. \A id : /\ Names(wire'.scheduler, "create", id) <=> Names(wire.scheduler, "create", id)
                  /\ Names(wire'.scheduler, "delete", id) <=> Names(wire.scheduler, "delete", id)
      BY <1>4, <1>11, <2>1, <2>2, NamesAppend
    <2>5. KnownMinted'
      BY <1>1, <1>3, <1>7, <2>1 DEF AccountRest, KnownMinted
    <2>6. ComingOnce'
      BY <1>1, <1>3, <1>5, <1>6, <1>7, <2>1 DEF AccountRest, ComingOnce
    <2>7. StoredKept'
      BY <1>1, <1>2, <1>3, <1>5, <1>11, <2>3 DEF AccountRest, StoredKept
    <2>8. TrackedNamed'
      BY <1>1, <1>2, <1>3, <2>1, <2>3 DEF AccountRest, TrackedNamed, Holder
    <2>9. Covered(wire'.scheduler, "delete", sent')
      BY <1>1, <1>4, <1>11, <2>1, <2>2, CoveredAppend DEF AccountRest, CreatesNamed
    <2> QED  BY <1>8, <2>5, <2>6, <2>7, <2>8, <2>9 DEF AccountRest, CreatesNamed
  <1> QED  BY <1>2, <1>9, <1>10, <1>11

(* A result that arrives is remembered as sent.                            *)
LEMMA AccountReceive ==
    ASSUME AccountInv, ReceiveResult
    PROVE  AccountRest'
  <1> DEFINE x == Head(wire.client)
  <1>1. AccountRest /\ Types
    BY DEF AccountInv, SnapshotInv
  <1>2. /\ wire.client # <<>> /\ sent' = sent \cup x
        /\ wire'.client = Tail(wire.client) /\ wire'.agent = wire.agent
        /\ wire'.scheduler = wire.scheduler /\ wire'.worker = wire.worker
        /\ UNCHANGED <<buf, payload, sched, stored, uploads, worker, log>>
    BY <1>1 DEF ReceiveResult, OnTaskResult, Types, Wires
  <1>3. \A id : Holds(wire.client, id) <=> Holds(wire'.client, id) \/ id \in x
    BY <1>1, <1>2, HoldsTail DEF Types, Wires
  <1> HIDE DEF x
  <1>4. \A id : (Result(id)' \/ id \in x => Result(id)) /\ Coming(id)' = Coming(id)
    BY <1>2, <1>3 DEF Result, Coming
  <1>5. KnownMinted' /\ ComingOnce'
    BY <1>1, <1>2, <1>4 DEF AccountRest, KnownMinted, ComingOnce
  <1>6. StoredKept'
    BY <1>1, <1>2 DEF AccountRest, StoredKept
  <1>7. TrackedNamed'
    BY <1>1, <1>2, <1>3 DEF AccountRest, TrackedNamed, Holder
  <1>8. CreatesNamed'
    BY <1>1, <1>2, CoveredMore DEF AccountRest, CreatesNamed, Holder
  <1> QED  BY <1>5, <1>6, <1>7, <1>8 DEF AccountRest

(* The scheduler starts to track, gives up, or accepts a task.             *)
LEMMA AccountFromAgent ==
    ASSUME AccountInv, FromAgent
    PROVE  AccountRest'
  <1> DEFINE m == Head(wire.scheduler)
  <1>1. AccountRest /\ Types
    BY DEF AccountInv, SnapshotInv
  <1>2. /\ wire.scheduler # <<>> /\ m \in ToScheduler /\ wire'.scheduler = Tail(wire.scheduler)
        /\ wire'.agent = wire.agent /\ wire'.client = wire.client /\ wire'.worker = wire.worker
        /\ UNCHANGED <<buf, payload, sent, stored, uploads, worker>>
    BY <1>1, FromAgentEffect DEF FromAgent
  <1>3. m[2] \in SUBSET Ids /\ wire.scheduler \in Seq(ToScheduler)
    BY <1>1, <1>2 DEF ToScheduler, Message, Types, Wires
  <1>4. /\ log'.unnamed = log.unnamed
        /\ \/ /\ m[1] = "create"
              /\ sched'.queue = sched.queue /\ sched'.batch = sched.batch
              /\ sched'.tracked = IF sched.known THEN sched.tracked \cup m[2] ELSE sched.tracked
              /\ log'.leaked = IF sched.known THEN log.leaked ELSE log.leaked \cup m[2]
           \/ /\ m[1] = "delete" /\ log' = log
              /\ sched'.tracked = sched.tracked \ m[2] /\ sched'.batch = sched.batch
              /\ sched'.queue = sched.queue \cup (m[2] \cap sched.tracked)
           \/ /\ m[1] = "task" /\ log' = log
              /\ sched'.tracked = sched.tracked
              /\ sched'.queue = sched.queue /\ sched'.batch = sched.batch
    <2>1. CASE m[1] = "create" /\ OnObjectCreate(m[2])
      BY <1>1, <1>3, <2>1, CreateEffect
    <2> QED  BY <1>1, <2>1, FromAgentEffect
  <1>5. \A k, id : Names(wire.scheduler, k, id) <=>
                       Names(wire'.scheduler, k, id) \/ (m[1] = k /\ id \in m[2])
    BY <1>2, <1>3, NamesTail
  <1>6. /\ Covered(wire'.scheduler, "delete", sent)
        /\ m[1] = "create" => \A id \in m[2] : id \in sent \/ Names(wire'.scheduler, "delete", id)
    BY <1>1, <1>2, <1>3, CoveredTail DEF AccountRest, CreatesNamed
  <1> HIDE DEF m
  <1>7. \A id : Result(id)' = Result(id) /\ Coming(id)' = Coming(id)
    BY <1>2 DEF Result, Coming
  <1>8. KnownMinted' /\ ComingOnce'
    BY <1>1, <1>2, <1>7 DEF AccountRest, KnownMinted, ComingOnce
  <1>9. StoredKept'
    BY <1>1, <1>2, <1>4, <1>5 DEF AccountRest, StoredKept
  <1>10. TrackedNamed'
    BY <1>1, <1>2, <1>4, <1>5, <1>6 DEF AccountRest, TrackedNamed, Holder
  <1>11. CreatesNamed'
    BY <1>1, <1>2, <1>4, <1>6 DEF AccountRest, CreatesNamed, Holder
  <1> QED  BY <1>8, <1>9, <1>10, <1>11 DEF AccountRest

(* The scheduler starts to track a result, or reports it to the client.    *)
LEMMA AccountFromWorker ==
    ASSUME AccountInv, FromWorker
    PROVE  AccountRest'
  <1> DEFINE m == Head(wire.worker)
  <1>1. AccountRest /\ Types
    BY DEF AccountInv, SnapshotInv
  <1>2. /\ wire.worker # <<>> /\ m \in FromWorkers /\ wire'.worker = Tail(wire.worker)
        /\ wire'.agent = wire.agent /\ wire'.scheduler = wire.scheduler
        /\ UNCHANGED <<buf, payload, sent, stored, uploads, worker>>
    BY <1>1, FromWorkerEffect DEF FromWorker
  <1>3. /\ m[2] \in SUBSET Ids /\ m[2] \in Single \cap Answers /\ wire.worker \in Seq(FromWorkers)
        /\ wire.client \in Seq(Answers)
    BY <1>1, <1>2 DEF FromWorkers, Single, Answers, Types, Wires
  <1>4. /\ log'.unnamed = log.unnamed
        /\ sched'.queue = sched.queue /\ sched'.batch = sched.batch
        /\ \/ /\ m[1] = "create" /\ wire'.client = wire.client
              /\ sched'.tracked = IF sched.known THEN sched.tracked \cup m[2] ELSE sched.tracked
              /\ log'.leaked = IF sched.known THEN log.leaked ELSE log.leaked \cup m[2]
           \/ /\ m[1] = "result" /\ sched'.tracked = sched.tracked /\ log'.leaked = log.leaked
              /\ wire'.client = IF m[2] \cap log.unnamed = {} THEN Append(wire.client, m[2])
                                ELSE wire.client
    <2>1. CASE m[1] = "create" /\ OnObjectCreate(m[2]) /\ wire'.client = wire.client
      BY <1>1, <1>3, <2>1, CreateEffect
    <2> QED  BY <1>1, <2>1, FromWorkerEffect
  <1>5. \A k, id : Names(wire.worker, k, id) <=>
                       Names(wire'.worker, k, id) \/ (m[1] = k /\ id \in m[2])
    BY <1>2, <1>3, NamesTail
  <1>6. /\ Covered(wire'.worker, "result", Holder \cup log.unnamed)
        /\ m[1] = "create" => \A id \in m[2] : id \in Holder \cup log.unnamed
                                               \/ Names(wire'.worker, "result", id)
    BY <1>1, <1>2, <1>3, CoveredTail DEF AccountRest, CreatesNamed
  <1>7. \A id : /\ Holds(wire.client, id) => Holds(wire'.client, id)
                /\ Holds(wire'.client, id) => Holds(wire.client, id) \/ (m[1] = "result" /\ id \in m[2])
                /\ m[1] = "result" /\ id \in m[2] => Holds(wire'.client, id) \/ id \in log.unnamed
    <2>1. CASE m[1] = "create"
      BY <1>4, <2>1
    <2>2. CASE m[1] = "result" /\ m[2] \cap log.unnamed = {}
      <3>1. wire'.client = Append(wire.client, m[2])
        BY <1>4, <2>2
      <3>2. \A id : Holds(wire'.client, id) <=> Holds(wire.client, id) \/ id \in m[2]
        BY <1>3, <3>1, HoldsAppend
      <3> QED  BY <2>2, <3>2
    <2>3. CASE m[1] = "result" /\ m[2] \cap log.unnamed # {}
      BY <1>3, <1>4, <2>3 DEF Single
    <2> QED  BY <1>4, <2>1, <2>2, <2>3
  <1> HIDE DEF m
  <1>8. \A id : (Result(id)' => Result(id)) /\ Coming(id)' = Coming(id)
    BY <1>2, <1>5, <1>7 DEF Result, Coming
  <1>9. KnownMinted' /\ ComingOnce'
    BY <1>1, <1>2, <1>8 DEF AccountRest, KnownMinted, ComingOnce
  <1>10. StoredKept'
    BY <1>1, <1>2, <1>4, <1>5 DEF AccountRest, StoredKept
  <1>11. TrackedNamed'
    BY <1>1, <1>2, <1>4, <1>5, <1>6, <1>7 DEF AccountRest, TrackedNamed, Holder
  <1>12. CreatesNamed'
    BY <1>1, <1>2, <1>4, <1>6 DEF AccountRest, CreatesNamed, Holder
  <1> QED  BY <1>9, <1>10, <1>11, <1>12 DEF AccountRest

(* A result is minted, announced, reported or lost.                        *)
LEMMA AccountRun ==
    ASSUME AccountInv, NEW args, NEW stray \in BOOLEAN, RunTask(args, stray)
    PROVE  AccountRest'
  <1>1. AccountRest /\ Types
    BY DEF AccountInv, SnapshotInv
  <1>2. /\ payload' = [payload EXCEPT ![Fresh] = "result"]
        /\ stored' = stored \cup {Fresh} /\ worker = NoResult
        /\ worker' = [id |-> Fresh, announced |-> FALSE]
        /\ log'.leaked = log.leaked /\ log'.unnamed = log.unnamed
        /\ UNCHANGED <<buf, sent, wire, uploads>>
    BY <1>1, RunEffect
  <1>3. Fresh \in Ids /\ payload[Fresh] = None
    BY <1>1, RunEffect
  <1>4. sched'.tracked = sched.tracked /\ sched'.queue = sched.queue /\ sched'.batch = sched.batch
    BY <1>1, RunEffect
  <1>5. /\ worker.id = None /\ ~worker.announced /\ worker'.id = Fresh /\ ~worker'.announced
        /\ None \notin AnyId /\ None \notin Ids
    BY <1>2, IdsAssumption DEF NoResult, AnyId
  <1>6. ~Coming(Fresh)
    BY <1>1, <1>3 DEF AccountRest, KnownMinted
  <1>7. \A id \in Ids : (Result(id)' => Result(id) \/ id = Fresh) /\ Coming(id)' = Coming(id)
    BY <1>2, <1>5 DEF Result, Coming
  <1>8. \A i \in Ids : payload[i] # None \/ i = Fresh => payload'[i] # None
    BY <1>1, <1>2, <1>3, IdsAssumption DEF Types
  <1>9. KnownMinted'
    BY <1>1, <1>2, <1>7, <1>8 DEF AccountRest, KnownMinted
  <1>10. ComingOnce'
    BY <1>1, <1>2, <1>6, <1>7 DEF AccountRest, ComingOnce
  <1>11. stored \cup uploads \subseteq AnyId
    BY <1>1 DEF Types, AnyId
  <1>12. StoredKept'
    BY <1>1, <1>2, <1>4, <1>5, <1>11 DEF AccountRest, StoredKept
  <1>13. TrackedNamed' /\ CreatesNamed'
    BY <1>1, <1>2, <1>4, <1>5 DEF AccountRest, TrackedNamed, CreatesNamed, Holder
  <1> QED  BY <1>9, <1>10, <1>12, <1>13 DEF AccountRest

(* A copy of the error is tracked at once, and named to the client.        *)
LEMMA AccountAborts ==
    ASSUME AccountInv, NEW args \in sched.tasks, NEW copy \in BOOLEAN, Aborts(args, copy)
    PROVE  AccountRest'
  <1>1. AccountRest /\ Types
    BY DEF AccountInv, SnapshotInv
  <1> DEFINE new == IF copy THEN {Fresh} ELSE {}
  <1>2. /\ new \in Answers /\ new \in SUBSET Ids
        /\ \A id \in new : payload[id] = None /\ payload'[id] = "result"
        /\ \A i \in Ids : payload[i] # None => payload'[i] = payload[i]
        /\ wire'.client = Append(wire.client, new)
        /\ wire'.agent = wire.agent /\ wire'.scheduler = wire.scheduler /\ wire'.worker = wire.worker
        /\ sched'.tracked = sched.tracked \cup new
        /\ sched'.queue = sched.queue /\ sched'.batch = sched.batch
        /\ stored' = stored \cup new
        /\ UNCHANGED <<buf, sent, uploads, worker, log>>
    BY <1>1, AbortsEffect
  <1>3. wire.client \in Seq(Answers)
    BY <1>1 DEF Types, Wires
  <1> HIDE DEF new
  <1>4. \A id : Holds(wire'.client, id) <=> Holds(wire.client, id) \/ id \in new
    BY <1>2, <1>3, HoldsAppend
  <1>5. \A id : (Result(id)' <=> Result(id) \/ id \in new) /\ Coming(id)' = Coming(id)
    BY <1>2, <1>4 DEF Result, Coming
  <1>6. \A id \in new : ~Coming(id)
    BY <1>1, <1>2 DEF AccountRest, KnownMinted
  <1>7. KnownMinted'
    BY <1>1, <1>2, <1>5, IdsAssumption DEF AccountRest, KnownMinted
  <1>8. ComingOnce'
    BY <1>1, <1>2, <1>5, <1>6 DEF AccountRest, ComingOnce
  <1>9. StoredKept'
    BY <1>1, <1>2 DEF AccountRest, StoredKept
  <1>10. TrackedNamed' /\ CreatesNamed'
    BY <1>1, <1>2, <1>4 DEF AccountRest, TrackedNamed, CreatesNamed, Holder
  <1> QED  BY <1>7, <1>8, <1>9, <1>10 DEF AccountRest

LEMMA AccountSendResult ==
    ASSUME AccountInv, SendResult
    PROVE  AccountRest'
  <1> DEFINE m == <<IF worker.announced THEN "result" ELSE "create", {worker.id}>>
  <1>1. AccountRest /\ Types
    BY DEF AccountInv, SnapshotInv
  <1>2. /\ m \in FromWorkers /\ wire'.worker = Append(wire.worker, m)
        /\ wire'.scheduler = wire.scheduler /\ wire'.client = wire.client /\ wire'.agent = wire.agent
        /\ worker.id \in Ids
        /\ worker' = IF worker.announced THEN NoResult ELSE [worker EXCEPT !.announced = TRUE]
        /\ UNCHANGED <<buf, payload, sent, sched, stored, uploads, log>>
    BY <1>1, SendResultEffect DEF SendResult
  <1>3. /\ wire.worker \in Seq(FromWorkers) /\ worker.announced \in BOOLEAN
        /\ worker \in [id : Ids \cup {None}, announced : BOOLEAN] /\ None \notin Ids
    BY <1>1, IdsAssumption DEF Types, Wires
  <1>4. m[1] = (IF worker.announced THEN "result" ELSE "create") /\ m[2] = {worker.id}
    OBVIOUS
  <1>5. \A k, id : Names(wire'.worker, k, id) <=>
                       Names(wire.worker, k, id) \/ (m[1] = k /\ id \in m[2])
    BY <1>2, <1>3, NamesAppend
  <1>6. Covered(wire.worker, "result", Holder \cup log.unnamed)
    BY <1>1 DEF AccountRest, CreatesNamed
  <1> HIDE DEF m
  <1>7. CASE worker.announced
    <2>1. worker'.id = None /\ ~worker'.announced /\ m[1] = "result" /\ m[2] = {worker.id}
      BY <1>2, <1>4, <1>7 DEF NoResult
    <2>2. \A id \in Ids : (Result(id)' => Result(id)) /\ Coming(id)' = Coming(id)
      BY <1>2, <1>3, <1>5, <2>1 DEF Result, Coming
    <2>3. KnownMinted' /\ ComingOnce'
      BY <1>1, <1>2, <2>2 DEF AccountRest, KnownMinted, ComingOnce
    <2>4. StoredKept'
      BY <1>1, <1>2, <1>5, <1>7, <2>1 DEF AccountRest, StoredKept
    <2>5. TrackedNamed'
      BY <1>1, <1>2, <1>5, <1>7, <2>1 DEF AccountRest, TrackedNamed, Holder
    <2>6. (Holder \cup log.unnamed)' = log.unnamed
      BY <1>2, <2>1 DEF Holder
    <2>7. Covered(Append(wire.worker, m), "result", log.unnamed)
      BY <1>2, <1>3, <1>6, <1>7, <2>1, CoveredAppend DEF Holder
    <2>8. CreatesNamed'
      BY <1>1, <1>2, <2>6, <2>7 DEF AccountRest, CreatesNamed
    <2> QED  BY <2>3, <2>4, <2>5, <2>8 DEF AccountRest
  <1>8. CASE ~worker.announced
    <2>1. worker'.id = worker.id /\ worker'.announced /\ m[1] = "create" /\ m[2] = {worker.id}
      BY <1>2, <1>3, <1>4, <1>8
    <2>2. \A id \in Ids : (Result(id)' => Result(id)) /\ Coming(id)' = Coming(id)
      BY <1>2, <1>3, <1>5, <2>1 DEF Result, Coming
    <2>3. KnownMinted' /\ ComingOnce'
      BY <1>1, <1>2, <2>2 DEF AccountRest, KnownMinted, ComingOnce
    <2>4. StoredKept'
      BY <1>1, <1>2, <1>5, <2>1 DEF AccountRest, StoredKept
    <2>5. TrackedNamed'
      BY <1>1, <1>2, <1>5, <1>8, <2>1 DEF AccountRest, TrackedNamed, Holder
    <2>6. (Holder \cup log.unnamed)' = {worker.id} \cup log.unnamed
      BY <1>2, <2>1 DEF Holder
    <2>7. Covered(Append(wire.worker, m), "result", {worker.id} \cup log.unnamed)
      BY <1>2, <1>3, <1>6, <1>8, <2>1, CoveredAppend DEF Holder
    <2>8. CreatesNamed'
      BY <1>1, <1>2, <2>6, <2>7 DEF AccountRest, CreatesNamed
    <2> QED  BY <2>3, <2>4, <2>5, <2>8 DEF AccountRest
  <1> QED  BY <1>3, <1>7, <1>8

LEMMA AccountKilled ==
    ASSUME AccountInv, Killed
    PROVE  AccountRest'
  <1>1. AccountRest /\ Types
    BY DEF AccountInv, SnapshotInv
  <1>2. /\ worker' = NoResult /\ worker # NoResult
        /\ log' = IF worker.announced THEN [log EXCEPT !.unnamed = @ \cup {worker.id}]
                  ELSE [log EXCEPT !.leaked = @ \cup {worker.id}]
        /\ UNCHANGED <<buf, payload, sent, wire, sched, stored, uploads>>
    BY DEF Killed
  <1>3. worker'.id = None /\ ~worker'.announced /\ None \notin Ids /\ None \notin AnyId
    BY <1>2, IdsAssumption DEF NoResult, AnyId
  <1>4. /\ log.unnamed \subseteq log'.unnamed /\ log.leaked \subseteq log'.leaked
        /\ worker.announced => worker.id \in log'.unnamed
        /\ ~worker.announced => worker.id \in log'.leaked
    BY <1>1, <1>2 DEF Types, Logs
  <1>5. \A id \in Ids : (Result(id)' => Result(id)) /\ Coming(id)' = Coming(id)
    BY <1>2, <1>3 DEF Result, Coming
  <1>6. KnownMinted' /\ ComingOnce'
    BY <1>1, <1>2, <1>5 DEF AccountRest, KnownMinted, ComingOnce
  <1>7. StoredKept'
    BY <1>1, <1>2, <1>3, <1>4 DEF AccountRest, StoredKept
  <1>8. TrackedNamed'
    BY <1>1, <1>2, <1>3, <1>4 DEF AccountRest, TrackedNamed, Holder
  <1>9. Holder \cup log.unnamed \subseteq (Holder \cup log.unnamed)'
    BY <1>4 DEF Holder
  <1>10. CreatesNamed'
    BY <1>1, <1>2, <1>9, CoveredMore DEF AccountRest, CreatesNamed
  <1> QED  BY <1>6, <1>7, <1>8, <1>10 DEF AccountRest

(* clear() forgets what was buffered and tells the agent.                  *)
LEMMA AccountClear ==
    ASSUME AccountInv, Clear
    PROVE  AccountRest'
  <1> DEFINE x == <<"clear", {}>>
  <1>1. AccountRest /\ Types
    BY DEF AccountInv, SnapshotInv
  <1>2. /\ buf'.pending = {} /\ wire'.agent = Append(wire.agent, x)
        /\ wire'.scheduler = wire.scheduler /\ wire'.client = wire.client /\ wire'.worker = wire.worker
        /\ UNCHANGED <<payload, sent, sched, stored, uploads, worker>>
        /\ log'.leaked = log.leaked /\ log'.unnamed = log.unnamed
    BY <1>1, ClearEffect DEF Clear, Types, Wires
  <1>3. wire.agent \in Seq(ToAgent) /\ x \in ToAgent /\ x[1] = "clear"
    BY <1>1 DEF Types, Wires, ToAgent, Message
  <1> HIDE DEF x
  <1>4. \A id : Names(wire'.agent, "create", id) <=> Names(wire.agent, "create", id)
    BY <1>2, <1>3, NamesAppend
  <1>5. \A id : Result(id)' = Result(id) /\ (Coming(id)' => Coming(id))
    BY <1>2, <1>4 DEF Result, Coming
  <1>6. Disjoint(wire'.agent)
    BY <1>1, <1>2, <1>3, DisjointAppend DEF AccountRest, ComingOnce
  <1>7. KnownMinted' /\ ComingOnce'
    BY <1>1, <1>2, <1>5, <1>6 DEF AccountRest, KnownMinted, ComingOnce
  <1>8. StoredKept'
    BY <1>1, <1>2, <1>4 DEF AccountRest, StoredKept
  <1>9. TrackedNamed' /\ CreatesNamed'
    BY <1>1, <1>2 DEF AccountRest, TrackedNamed, CreatesNamed, Holder
  <1> QED  BY <1>7, <1>8, <1>9 DEF AccountRest

LEMMA AccountStep == AccountInv /\ [Next]_vars => AccountInv'
  <1> SUFFICES ASSUME AccountInv, [Next]_vars PROVE AccountRest'
    BY SnapshotStep DEF AccountInv
  <1>t. AccountRest /\ Types /\ log \in Logs /\ sched \in Scheds /\ buf \in Buffers
    BY DEF AccountInv, SnapshotInv, Types
  <1>f. ASSUME UNCHANGED <<wire, sent, worker, payload, stored, uploads>>, buf'.pending = buf.pending,
               sched'.tracked = sched.tracked, sched'.queue = sched.queue, sched'.batch = sched.batch,
               log'.leaked = log.leaked, log.unnamed \subseteq log'.unnamed
        PROVE  AccountRest'
    BY <1>t, <1>f, AccountFrame
  <1>1. ASSUME NEW c, NEW weak, NewObject(c, weak) \/ Mutate(c) PROVE AccountRest'
    BY <1>1, <1>f DEF NewObject, Mutate
  <1>2. CASE CollectObject
    BY <1>2, <1>f, <1>t DEF CollectObject, Buffers
  <1>3. ASSUME NEW r \in BOOLEAN, BufferArgument(r) PROVE AccountRest'
    <2>1. /\ cell.alive /\ CanMint
          /\ buf' = Buffered(r, TRUE).buf /\ payload' = Recorded(Buffered(r, TRUE).id)
          /\ UNCHANGED <<wire, sent, sched, stored, uploads, worker>>
          /\ \/ log' = log
             \/ \E e : log' = [log EXCEPT !.foreign = e]
      BY <1>3 DEF BufferArgument
    <2>2. log'.leaked = log.leaked /\ log'.unnamed = log.unnamed
      BY <1>t, <2>1 DEF Logs
    <2> QED  BY <2>1, <2>2, AccountBuffered
  <1>4. CASE SendObject
    BY <1>4, AccountBuffered DEF SendObject
  <1>5. CASE Abandon
    BY <1>5, <1>f, <1>t DEF Abandon, Logs
  <1>6. ASSUME NEW id \in refs, NEW checked \in BOOLEAN, UseReference(id, checked) PROVE AccountRest'
    BY <1>6, <1>f, <1>t DEF UseReference, Logs
  <1>7. CASE CleanClient
    <2>1. /\ sched' = [sched EXCEPT !.cleaning = FALSE, !.tracked = {},
                                    !.queue = @ \cup sched.tracked]
          /\ log' = [log EXCEPT !.dropped = @ \cup sched.tracked]
          /\ UNCHANGED <<wire, sent, worker, payload, stored, uploads, buf>>
      BY <1>7 DEF CleanClient
    <2>2. /\ sched'.tracked = {} /\ sched'.queue = sched.queue \cup sched.tracked
          /\ sched'.batch = sched.batch
      BY <1>t, <2>1 DEF Scheds
    <2>3. log'.leaked = log.leaked /\ log'.unnamed = log.unnamed
      BY <1>t, <2>1 DEF Logs
    <2> QED  BY <1>t, <2>1, <2>2, <2>3, AccountFrame
  <1>8. CASE Heartbeat
    BY <1>8, <1>f, <1>t DEF Heartbeat, Scheds
  <1>9. CASE SendDeletions
    <2>1. /\ sched.batch = {} /\ sched' = [sched EXCEPT !.batch = sched.queue, !.queue = {}]
          /\ UNCHANGED <<wire, sent, worker, payload, stored, uploads, buf, log>>
      BY <1>9 DEF SendDeletions
    <2>2. sched'.tracked = sched.tracked /\ sched'.queue = {} /\ sched'.batch = sched.queue
      BY <1>t, <2>1 DEF Scheds
    <2> QED  BY <1>t, <2>1, <2>2, AccountFrame
  <1>10. ASSUME NEW id \in AnyId, StorageDeletes(id) PROVE AccountRest'
    <2>1. /\ sched' = [sched EXCEPT !.batch = @ \ {id}] /\ stored' = stored \ {id}
          /\ log' = IF id \in uploads THEN [log EXCEPT !.leaked = @ \cup {id}] ELSE log
          /\ UNCHANGED <<wire, sent, worker, payload, uploads, buf>>
      BY <1>10 DEF StorageDeletes
    <2>2. sched'.tracked = sched.tracked /\ sched'.queue = sched.queue /\ sched'.batch = sched.batch \ {id}
      BY <1>t, <2>1 DEF Scheds
    <2>3. /\ log'.unnamed = log.unnamed
          /\ log'.leaked = IF id \in uploads THEN log.leaked \cup {id} ELSE log.leaked
      BY <1>t, <2>1 DEF Logs
    <2> QED  BY <1>t, <2>1, <2>2, <2>3, AccountFrame
  <1>11. ASSUME NEW id \in AnyId, StorageSets(id) \/ FetchResult(id) PROVE AccountRest'
    <2>1. /\ UNCHANGED <<wire, sent, worker, payload, buf, log, sched>>
          /\ stored' \cup uploads' \subseteq stored \cup uploads
      BY <1>11 DEF StorageSets, FetchResult
    <2> QED  BY <1>t, <2>1, AccountFrame
  <1>12. CASE ForgetClient
    <2>1. /\ sched' = [sched EXCEPT !.known = FALSE, !.cleaning = TRUE, !.tasks = {}, !.stray = {}]
          /\ log' = [log EXCEPT !.unnamed = @ \cup Reported \cup ({worker.id} \ {None})]
          /\ UNCHANGED <<wire, sent, worker, payload, stored, uploads, buf>>
      BY <1>12 DEF ForgetClient
    <2>2. log'.leaked = log.leaked /\ log.unnamed \subseteq log'.unnamed
      BY <1>t, <2>1 DEF Logs
    <2>3. sched'.tracked = sched.tracked /\ sched'.queue = sched.queue /\ sched'.batch = sched.batch
      BY <1>t, <2>1 DEF Scheds
    <2> QED  BY <1>f, <2>1, <2>2, <2>3
  <1>13. CASE UNCHANGED vars
    BY <1>13, <1>f DEF vars
  <1>14. ready \in SUBSET AnyId
    BY DEF AccountInv, SnapshotInv, Types, AnyId
  <1>15. ASSUME NEW args \in sched.tasks, Cancels(args) PROVE AccountRest'
    BY <1>15, <1>f, <1>t, CancelsEffect
  <1> QED
    BY <1>1, <1>2, <1>3, <1>4, <1>5, <1>6, <1>7, <1>8, <1>9, <1>10, <1>11, <1>12, <1>13, <1>14,
       <1>15, AccountAborts, AccountCommit, AccountInstruction, AccountReceive, AccountFromAgent, AccountFromWorker,
       AccountRun, AccountSendResult, AccountKilled, AccountClear
    DEF Next, User, Agent, Scheduler, Storage, Worker, AnyId

LEMMA AccountCorrect == Spec => []AccountInv
  <1> QED  BY AccountInit, AccountStep, PTL DEF Spec

(* Nothing is forgotten: what is stored is tracked, announced, about to be *)
(* deleted or one of the known leaks, and what is tracked clear() reaches. *)
THEOREM ObjectsAccounted == Spec => []Accounted
  <1>1. AccountInv => Accounted
    <2> SUFFICES ASSUME AccountInv PROVE Accounted
      OBVIOUS
    <2>1. AccountRest /\ Types
      BY DEF AccountInv, SnapshotInv
    <2>2. TypeOK
      BY <2>1 DEF Types, TypeOK, Buffers, Scheds, AnyId
    <2>3. StoredAccounted
      BY <2>1, AnnouncedNames
      DEF AccountRest, StoredKept, StoredAccounted, Wanted, InFlight, Reported
    <2> DEFINE returned == UNION {wire.client[i] : i \in DOMAIN wire.client}
    <2>4. \A id : id \in returned <=> Holds(wire.client, id)
      BY DEF Holds
    <2>5. Clearable
      <3> HIDE DEF returned
      <3>1. \A id \in sched.tracked :
                \/ id \in sent \cup {worker.id} \cup log.unnamed
                \/ Names(wire.scheduler, "delete", id) \/ Holds(wire.client, id)
                \/ Names(wire.worker, "create", id) \/ Names(wire.worker, "result", id)
        BY <2>1 DEF AccountRest, TrackedNamed, Holder
      <3>2. \A id : Names(wire.scheduler, "delete", id) => id \in InFlight("delete")
        BY AnnouncedNames DEF InFlight
      <3>3. \A id : Names(wire.worker, "create", id) \/ Names(wire.worker, "result", id) => id \in Reported
        BY AnnouncedNames DEF Reported
      <3>4. sched.tracked \subseteq sent \cup returned \cup Reported \cup {worker.id}
                                    \cup InFlight("delete") \cup log.unnamed
        BY <2>4, <3>1, <3>2, <3>3
      <3> QED  BY <3>4, Zenon DEF Clearable, returned
    <2> QED  BY <2>2, <2>3, <2>5 DEF Accounted
  <1> QED  BY <1>1, AccountCorrect, PTL

-----------------------------------------------------------------------------
(* What a task names is there.                                             *)

(* ClearSpares(m, S, id): when the agent comes to a clear() it has not     *)
(* sent the object: it is not among those it has sent now, and no earlier  *)
(* instruction creates it.                                                 *)
ClearSpares(m, S, id) ==
    \A q \in DOMAIN m :
        m[q][1] = "clear" =>
            id \notin S /\ \A i \in DOMAIN m : i < q /\ m[i][1] = "create" => id \notin m[i][2]
NoClear(m)   == \A q \in DOMAIN m : m[q][1] # "clear"
HasTask(m)   == \E p \in DOMAIN m : m[p][1] = "task"
TasksLast(m) == \A p, q \in DOMAIN m : m[p][1] = "task" /\ m[q][1] = "clear" => q < p

LEMMA ClearSparesAppend ==
    ASSUME NEW m \in Seq(ToAgent), NEW x \in ToAgent, x[1] # "clear", NEW S, NEW id, ClearSpares(m, S, id)
    PROVE  ClearSpares(Append(m, x), S, id)
  <1> DEFINE y == Append(m, x)
  <1>1. /\ DOMAIN y = DOMAIN m \cup {Len(m) + 1} /\ y[Len(m) + 1] = x /\ Len(m) \in Nat
        /\ \A k \in DOMAIN m : k \in Nat /\ k < Len(m) + 1 /\ y[k] = m[k]
    BY SequenceFacts
  <1> HIDE DEF y
  <1>2. ASSUME NEW q \in DOMAIN y, y[q][1] = "clear"
        PROVE  id \notin S /\ \A i \in DOMAIN y : i < q /\ y[i][1] = "create" => id \notin y[i][2]
    <2>1. q \in DOMAIN m /\ m[q][1] = "clear" /\ \A i \in DOMAIN y : i < q => i \in DOMAIN m /\ y[i] = m[i]
      BY <1>1, <1>2
    <2> QED  BY <2>1 DEF ClearSpares
  <1> QED  BY <1>2 DEF ClearSpares, y

LEMMA ClearSparesTail ==
    ASSUME NEW m \in Seq(ToAgent), m # <<>>, NEW S, NEW id, ClearSpares(m, S, id)
    PROVE  /\ Head(m)[1] = "create" => ClearSpares(Tail(m), S \cup Head(m)[2], id)
           /\ Head(m)[1] = "clear" => id \notin S /\ \A T \in SUBSET S : ClearSpares(Tail(m), T, id)
           /\ ClearSpares(Tail(m), S, id)
  <1> DEFINE y == Tail(m)
  <1>1. /\ Head(m) = m[1] /\ 1 \in DOMAIN m
        /\ \A i \in DOMAIN y : i \in Nat /\ i + 1 \in DOMAIN m /\ y[i] = m[i + 1] /\ 1 < i + 1
    BY TailFacts
  <1> HIDE DEF y
  <1>2. ASSUME NEW q \in DOMAIN y, y[q][1] = "clear"
        PROVE  /\ id \notin S
               /\ \A i \in DOMAIN y : i < q /\ y[i][1] = "create" => id \notin y[i][2]
               /\ Head(m)[1] = "create" => id \notin Head(m)[2]
    <2>1. q + 1 \in DOMAIN m /\ m[q + 1][1] = "clear" /\ 1 < q + 1
      BY <1>1, <1>2
    <2>2. id \notin S /\ \A i \in DOMAIN m : i < q + 1 /\ m[i][1] = "create" => id \notin m[i][2]
      BY <2>1 DEF ClearSpares
    <2>3. \A i \in DOMAIN y : i < q => i + 1 \in DOMAIN m /\ i + 1 < q + 1 /\ y[i] = m[i + 1]
      BY <1>1
    <2> QED  BY <1>1, <2>1, <2>2, <2>3
  <1>3. Head(m)[1] = "clear" => id \notin S
    BY <1>1 DEF ClearSpares
  <1> QED  BY <1>2, <1>3 DEF ClearSpares, y

LEMMA ClearSparesMinted ==
    ASSUME NEW m, NEW S, NEW id, id \notin S, ~Names(m, "create", id)
    PROVE  ClearSpares(m, S, id)
  BY DEF ClearSpares, Names

LEMMA HasTaskAppend ==
    ASSUME NEW S, NEW m \in Seq(S), NEW x \in S
    PROVE  HasTask(Append(m, x)) <=> HasTask(m) \/ x[1] = "task"
  BY SequenceFacts DEF HasTask

LEMMA HasTaskTail ==
    ASSUME NEW S, NEW m \in Seq(S), m # <<>>
    PROVE  HasTask(Tail(m)) => HasTask(m)
  <1> SUFFICES ASSUME HasTask(Tail(m)) PROVE HasTask(m)
    OBVIOUS
  <1>1. PICK p \in DOMAIN Tail(m) : Tail(m)[p][1] = "task"
    BY DEF HasTask
  <1>2. p + 1 \in DOMAIN m /\ Tail(m)[p] = m[p + 1]
    BY TailFacts
  <1> QED  BY <1>1, <1>2 DEF HasTask

LEMMA OrderTail ==
    ASSUME NEW S, NEW m \in Seq(S), m # <<>>, TasksLast(m)
    PROVE  /\ TasksLast(Tail(m))
           /\ Head(m)[1] = "task" \/ NoClear(m) => NoClear(Tail(m))
  <1> DEFINE y == Tail(m)
  <1>1. /\ Head(m) = m[1] /\ 1 \in DOMAIN m
        /\ \A i \in DOMAIN y : i \in Nat /\ i + 1 \in DOMAIN m /\ y[i] = m[i + 1] /\ ~(i + 1 < 1)
    BY TailFacts
  <1> HIDE DEF y
  <1>2. TasksLast(y)
    <2> SUFFICES ASSUME NEW p \in DOMAIN y, NEW q \in DOMAIN y, y[p][1] = "task", y[q][1] = "clear"
                 PROVE  q < p
      BY DEF TasksLast
    <2>1. q + 1 < p + 1 /\ p \in Nat /\ q \in Nat
      BY <1>1 DEF TasksLast
    <2> QED  BY <2>1
  <1>3. Head(m)[1] = "task" \/ NoClear(m) => NoClear(y)
    BY <1>1 DEF TasksLast, NoClear
  <1> QED  BY <1>2, <1>3 DEF y

LEMMA OrderAppend ==
    ASSUME NEW S, NEW m \in Seq(S), NEW x \in S, TasksLast(m), x[1] = "clear" => ~HasTask(m)
    PROVE  /\ TasksLast(Append(m, x))
           /\ x[1] # "clear" /\ NoClear(m) => NoClear(Append(m, x))
  <1> DEFINE y == Append(m, x)
  <1>1. /\ DOMAIN y = DOMAIN m \cup {Len(m) + 1} /\ y[Len(m) + 1] = x /\ Len(m) \in Nat
        /\ \A k \in DOMAIN m : k \in Nat /\ k < Len(m) + 1 /\ y[k] = m[k]
    BY SequenceFacts
  <1> HIDE DEF y
  <1>2. TasksLast(y)
    <2> SUFFICES ASSUME NEW p \in DOMAIN y, NEW q \in DOMAIN y, y[p][1] = "task", y[q][1] = "clear"
                 PROVE  q < p
      BY DEF TasksLast
    <2>1. CASE p \in DOMAIN m /\ q \in DOMAIN m
      BY <1>1, <2>1 DEF TasksLast
    <2>2. CASE p \in DOMAIN m /\ q = Len(m) + 1
      BY <1>1, <2>2 DEF HasTask
    <2>3. CASE p = Len(m) + 1 /\ q \in DOMAIN m
      BY <1>1, <2>3
    <2>4. CASE p = Len(m) + 1 /\ q = Len(m) + 1
      BY <1>1, <2>4
    <2> QED  BY <1>1, <2>1, <2>2, <2>3, <2>4
  <1>3. x[1] # "clear" /\ NoClear(m) => NoClear(y)
    BY <1>1 DEF NoClear
  <1> QED  BY <1>2, <1>3 DEF y

(* What every id stands for: what is buffered, referenced or named by a    *)
(* task is an object of the user, what comes from the worker a result, and *)
(* what the scheduler deals with was minted.                               *)
Asked(id) == \/ Names(wire.agent, "task", id) \/ Names(wire.scheduler, "task", id)
             \/ \E args \in sched.tasks : id \in args
             \/ \E args \in sched.stray : id \in args \ log.orphaned
Used(id)  == id \in buf.valid \cup refs \cup call.args \/ Asked(id)
Dealt(id) == \/ id \in sched.tracked \cup sched.queue \cup sched.batch
             \/ Names(wire.scheduler, "create", id) \/ Names(wire.scheduler, "delete", id)
KindInv ==
    /\ \A id \in Ids : Used(id) => payload[id] \in Contents
    /\ \A id \in Ids : id \in ready \/ Result(id) => payload[id] = "result"
    /\ \A id \in Ids : Dealt(id) => payload[id] # None

LEMMA KindInit == Init => KindInv
  <1> SUFFICES ASSUME Init PROVE KindInv
    OBVIOUS
  <1>1. /\ wire.agent = <<>> /\ wire.scheduler = <<>> /\ wire.client = <<>> /\ wire.worker = <<>>
        /\ buf.valid = {Serializer} /\ refs = {} /\ call.args = {} /\ ready = {} /\ worker.id = None
        /\ sched.tracked = {Serializer} /\ sched.queue = {} /\ sched.batch = {} /\ sched.tasks = {}
        /\ sched.stray = {}
    BY DEF Init, NoResult
  <1>2. \A k, id : ~Names(<<>>, k, id) /\ ~Holds(<<>>, id)
    BY DEF Names, Holds
  <1> QED  BY <1>1, <1>2, IdsAssumption DEF KindInv, Used, Asked, Dealt, Result

(* A step keeps it that mints what it brings in.                           *)
LEMMA KindKept ==
    ASSUME KindInv, \A i \in Ids : payload[i] # None => payload'[i] = payload[i],
           \A id \in Ids : Used(id)' => Used(id) \/ payload'[id] \in Contents,
           \A id \in Ids : (id \in ready \/ Result(id))' => id \in ready \/ Result(id) \/ payload'[id] = "result",
           \A id \in Ids : Dealt(id)' => Dealt(id) \/ payload'[id] # None
    PROVE  KindInv'
  BY IdsAssumption DEF KindInv

ReachPre == AccountInv /\ KindInv

(* What buffering mints has the content of the object.                     *)
LEMMA KindBuffered ==
    ASSUME ReachPre, CanMint, cell.alive, NEW r \in BOOLEAN, NEW d \in BOOLEAN,
           buf' = Buffered(r, d).buf, payload' = Recorded(Buffered(r, d).id),
           UNCHANGED <<wire, sched, worker, ready>>, log'.orphaned = log.orphaned,
           refs' \subseteq refs \cup {Buffered(r, d).id},
           call'.args \subseteq call.args \cup {Buffered(r, d).id}
    PROVE  KindInv'
  <1> DEFINE b == Buffered(r, d)
  <1>1. /\ SnapshotInv /\ KindInv /\ Types /\ cell.content \in Contents
        /\ payload \in [Ids -> Contents \cup {None, "result"}]
    BY DEF ReachPre, AccountInv, SnapshotInv, Types
  <1>2. /\ b.id \in Ids
        /\ \/ b.id \in buf.valid /\ b.buf.valid = buf.valid
           \/ b.id = Fresh /\ b.buf.valid = buf.valid \cup {Fresh}
    BY <1>1, BufferedEffect
  <1>3. Recorded(b.id)[b.id] # None /\ \A i \in Ids : payload[i] # None => Recorded(b.id)[i] = payload[i]
    BY <1>1, BufferedSnapshot
  <1>4. Fresh \in Ids /\ payload[Fresh] = None
    BY FreshType DEF Minted
  <1> HIDE DEF b
  <1>5. payload'[b.id] \in Contents
    <2>1. CASE b.id \in buf.valid
      <3>1. payload[b.id] \in Contents
        BY <1>1, <1>2, <2>1 DEF KindInv, Used
      <3> QED  BY <1>2, <1>3, <3>1, IdsAssumption DEF b
    <2>2. CASE b.id = Fresh
      <3>1. payload[b.id] = None
        BY <1>4, <2>2
      <3>2. payload' = [payload EXCEPT ![b.id] = cell.content]
        BY <3>1 DEF b, Recorded
      <3> QED  BY <1>1, <1>2, <3>2
    <2> QED  BY <1>2, <2>1, <2>2
  <1>6. \A id \in Ids : Used(id)' => Used(id) \/ id = b.id
    BY <1>2 DEF Used, Asked, b
  <1>7. \A id \in Ids : ((id \in ready \/ Result(id))' <=> id \in ready \/ Result(id)) /\ Dealt(id)' = Dealt(id)
    BY DEF Result, Dealt
  <1>8. \A i \in Ids : payload[i] # None => payload'[i] = payload[i]
    BY <1>3 DEF b
  <1> QED  BY <1>1, <1>5, <1>6, <1>7, <1>8, KindKept

LEMMA KindCommit ==
    ASSUME ReachPre, Commit
    PROVE  KindInv'
  <1> DEFINE a == IF buf.pending = {} THEN wire.agent ELSE Append(wire.agent, <<"create", buf.pending>>)
             x == <<"task", call.args>>
  <1>1. KindInv /\ Types
    BY DEF ReachPre, AccountInv, SnapshotInv
  <1>2. /\ a \in Seq(ToAgent) /\ x \in ToAgent /\ wire'.agent = Append(a, x)
        /\ wire'.scheduler = wire.scheduler /\ wire'.client = wire.client /\ wire'.worker = wire.worker
    BY <1>1, CommitEffect
  <1>3. buf'.valid = buf.valid /\ call'.args = {} /\ UNCHANGED <<payload, refs, ready, sched, worker>>
        /\ log'.orphaned = log.orphaned
    BY <1>1, ReturnsEffect DEF Commit, Types, Buffers, Logs
  <1>4. wire.agent \in Seq(ToAgent) /\ <<"create", buf.pending>> \in ToAgent
    BY <1>1 DEF Types, Wires, Buffers, ToAgent, Message
  <1>5. \A id : Names(a, "task", id) <=> Names(wire.agent, "task", id)
    BY <1>4, NamesAppend
  <1> HIDE DEF a
  <1>6. \A id : Names(wire'.agent, "task", id) <=> Names(wire.agent, "task", id) \/ id \in call.args
    BY <1>2, <1>5, NamesAppend
  <1>7. \A id \in Ids : Used(id)' => Used(id)
    BY <1>2, <1>3, <1>6 DEF Used, Asked
  <1>8. \A id \in Ids : ((id \in ready \/ Result(id))' <=> id \in ready \/ Result(id)) /\ Dealt(id)' = Dealt(id)
    BY <1>2, <1>3 DEF Result, Dealt
  <1> QED  BY <1>1, <1>3, <1>7, <1>8, KindKept

LEMMA KindInstruction ==
    ASSUME ReachPre, OnObjectInstruction
    PROVE  KindInv'
  <1> DEFINE m == Head(wire.agent)
  <1>1. KindInv /\ Types /\ AccountRest
    BY DEF ReachPre, AccountInv, SnapshotInv
  <1>2. /\ wire.agent # <<>> /\ m \in ToAgent /\ wire'.agent = Tail(wire.agent)
        /\ wire'.client = wire.client /\ wire'.worker = wire.worker
        /\ \/ /\ m[1] = "create"
              /\ \/ wire'.scheduler = wire.scheduler
                 \/ wire'.scheduler = Append(wire.scheduler, <<"create", m[2] \ sent>>)
           \/ /\ m[1] = "clear"
              /\ wire'.scheduler = Append(wire.scheduler, <<"delete", sent \ {Serializer}>>)
           \/ m[1] = "task" /\ wire'.scheduler = Append(wire.scheduler, m)
        /\ UNCHANGED <<buf, payload, call, refs, ready, sched, worker, log>>
    BY <1>1, InstructionEffect DEF OnObjectInstruction
  <1>3. /\ wire.agent \in Seq(ToAgent) /\ wire.scheduler \in Seq(ToScheduler) /\ m[2] \in SUBSET Ids
        /\ sent \in SUBSET AnyId
    BY <1>1, <1>2 DEF Types, Wires, ToAgent, Message
  <1>4. \A k, id : Names(wire.agent, k, id) <=> Names(wire'.agent, k, id) \/ (m[1] = k /\ id \in m[2])
    BY <1>2, <1>3, NamesTail
  <1> HIDE DEF m
  <1>5. \A k, id : Names(wire'.scheduler, k, id) =>
            \/ Names(wire.scheduler, k, id)
            \/ k = "create" /\ m[1] = "create" /\ id \in m[2]
            \/ k = "delete" /\ id \in sent
            \/ k = "task" /\ m[1] = "task" /\ id \in m[2]
    <2>1. CASE wire'.scheduler = wire.scheduler
      BY <2>1
    <2>2. CASE m[1] = "create" /\ wire'.scheduler = Append(wire.scheduler, <<"create", m[2] \ sent>>)
      <3>1. <<"create", m[2] \ sent>> \in ToScheduler
        BY <1>3 DEF ToScheduler, Message
      <3> QED  BY <1>3, <2>2, <3>1, NamesAppend
    <2>3. CASE wire'.scheduler = Append(wire.scheduler, <<"delete", sent \ {Serializer}>>)
      <3>1. <<"delete", sent \ {Serializer}>> \in ToScheduler
        BY <1>3 DEF ToScheduler, Message, AnyId
      <3> QED  BY <1>3, <2>3, <3>1, NamesAppend
    <2>4. CASE m[1] = "task" /\ wire'.scheduler = Append(wire.scheduler, m)
      <3>1. m \in ToScheduler
        BY <1>2, <2>4 DEF ToScheduler, ToAgent, Message
      <3> QED  BY <1>3, <2>4, <3>1, NamesAppend
    <2> QED  BY <1>2, <2>1, <2>2, <2>3, <2>4
  <1>6. \A id \in Ids : Used(id)' => Used(id)
    BY <1>2, <1>4, <1>5 DEF Used, Asked
  <1>7. \A id \in Ids : (id \in ready \/ Result(id))' <=> id \in ready \/ Result(id)
    BY <1>2 DEF Result
  <1>8. \A id \in Ids : Dealt(id)' => Dealt(id) \/ payload'[id] # None
    BY <1>1, <1>2, <1>4, <1>5 DEF Dealt, AccountRest, KnownMinted, Coming
  <1> QED  BY <1>1, <1>2, <1>6, <1>7, <1>8, KindKept

LEMMA KindReceive ==
    ASSUME ReachPre, ReceiveResult
    PROVE  KindInv'
  <1> DEFINE x == Head(wire.client)
  <1>1. KindInv /\ Types
    BY DEF ReachPre, AccountInv, SnapshotInv
  <1>2. /\ wire.client # <<>> /\ ready' = ready \cup (x \ log.second)
        /\ wire'.client = Tail(wire.client) /\ wire'.agent = wire.agent
        /\ wire'.scheduler = wire.scheduler /\ wire'.worker = wire.worker
        /\ UNCHANGED <<buf, payload, call, refs, sched, worker, log>>
    BY <1>1 DEF ReceiveResult, Types, Wires
  <1>3. \A id : Holds(wire.client, id) <=> Holds(wire'.client, id) \/ id \in x
    BY <1>1, <1>2, HoldsTail DEF Types, Wires
  <1> HIDE DEF x
  <1>4. \A id \in Ids : (id \in ready \/ Result(id))' => id \in ready \/ Result(id)
    BY <1>2, <1>3 DEF Result
  <1>5. \A id \in Ids : Used(id)' = Used(id) /\ Dealt(id)' = Dealt(id)
    BY <1>2 DEF Used, Asked, Dealt
  <1> QED  BY <1>1, <1>2, <1>4, <1>5, KindKept

LEMMA KindFromAgent ==
    ASSUME ReachPre, FromAgent
    PROVE  KindInv'
  <1> DEFINE m == Head(wire.scheduler)
  <1>1. KindInv /\ Types
    BY DEF ReachPre, AccountInv, SnapshotInv
  <1>2. /\ wire.scheduler # <<>> /\ m \in ToScheduler /\ wire'.scheduler = Tail(wire.scheduler)
        /\ wire'.agent = wire.agent /\ wire'.client = wire.client /\ wire'.worker = wire.worker
        /\ UNCHANGED <<buf, payload, call, refs, ready, worker>>
    BY <1>1, FromAgentEffect DEF FromAgent
  <1>3. m[2] \in SUBSET Ids /\ wire.scheduler \in Seq(ToScheduler)
    BY <1>1, <1>2 DEF ToScheduler, Message, Types, Wires
  <1>4. /\ sched'.stray = sched.stray /\ log'.orphaned = log.orphaned
        /\ \/ /\ m[1] = "create" /\ sched'.tasks = sched.tasks
              /\ sched'.queue = sched.queue /\ sched'.batch = sched.batch
              /\ sched'.tracked \subseteq sched.tracked \cup m[2]
           \/ /\ m[1] = "delete" /\ sched'.tasks = sched.tasks
              /\ sched'.tracked \subseteq sched.tracked /\ sched'.batch = sched.batch
              /\ sched'.queue \subseteq sched.queue \cup sched.tracked
           \/ /\ m[1] = "task" /\ sched'.tasks = sched.tasks \cup {m[2]}
              /\ sched'.tracked = sched.tracked
              /\ sched'.queue = sched.queue /\ sched'.batch = sched.batch
    <2>1. CASE m[1] = "create" /\ OnObjectCreate(m[2])
      BY <1>1, <1>3, <2>1, CreateEffect
    <2> QED  BY <1>1, <2>1, FromAgentEffect
  <1>5. \A k, id : Names(wire.scheduler, k, id) <=>
                       Names(wire'.scheduler, k, id) \/ (m[1] = k /\ id \in m[2])
    BY <1>2, <1>3, NamesTail
  <1> HIDE DEF m
  <1>6. \A id \in Ids : Used(id)' => Used(id)
    BY <1>2, <1>4, <1>5 DEF Used, Asked
  <1>7. \A id \in Ids : (id \in ready \/ Result(id))' <=> id \in ready \/ Result(id)
    BY <1>2 DEF Result
  <1>8. \A id \in Ids : Dealt(id)' => Dealt(id)
    BY <1>4, <1>5 DEF Dealt
  <1> QED  BY <1>1, <1>2, <1>6, <1>7, <1>8, KindKept

LEMMA KindFromWorker ==
    ASSUME ReachPre, FromWorker
    PROVE  KindInv'
  <1> DEFINE m == Head(wire.worker)
  <1>1. KindInv /\ Types /\ AccountRest
    BY DEF ReachPre, AccountInv, SnapshotInv
  <1>2. /\ wire.worker # <<>> /\ m \in FromWorkers /\ wire'.worker = Tail(wire.worker)
        /\ wire'.agent = wire.agent /\ wire'.scheduler = wire.scheduler
        /\ UNCHANGED <<buf, payload, call, refs, ready, worker>>
    BY <1>1, FromWorkerEffect DEF FromWorker
  <1>3. /\ m[2] \in SUBSET Ids /\ m[2] \in Single \cap Answers /\ wire.worker \in Seq(FromWorkers)
        /\ wire.client \in Seq(Answers)
    BY <1>1, <1>2 DEF FromWorkers, Single, Answers, Types, Wires
  <1>4. /\ sched'.queue = sched.queue /\ sched'.batch = sched.batch /\ sched'.tasks = sched.tasks
        /\ sched'.stray = sched.stray /\ log'.orphaned = log.orphaned
        /\ \/ /\ m[1] = "create" /\ wire'.client = wire.client
              /\ sched'.tracked \subseteq sched.tracked \cup m[2]
           \/ /\ m[1] = "result" /\ sched'.tracked = sched.tracked
              /\ wire'.client = wire.client \/ wire'.client = Append(wire.client, m[2])
    <2>1. CASE m[1] = "create" /\ OnObjectCreate(m[2]) /\ wire'.client = wire.client
      BY <1>1, <1>3, <2>1, CreateEffect
    <2> QED  BY <1>1, <2>1, FromWorkerEffect
  <1>5. \A k, id : Names(wire.worker, k, id) <=>
                       Names(wire'.worker, k, id) \/ (m[1] = k /\ id \in m[2])
    BY <1>2, <1>3, NamesTail
  <1>6. \A id : Holds(wire'.client, id) => Holds(wire.client, id) \/ (m[1] = "result" /\ id \in m[2])
    <2>1. CASE wire'.client = wire.client
      BY <2>1
    <2>2. CASE m[1] = "result" /\ wire'.client = Append(wire.client, m[2])
      <3>1. \A id : Holds(wire'.client, id) <=> Holds(wire.client, id) \/ id \in m[2]
        BY <1>3, <2>2, HoldsAppend
      <3> QED  BY <2>2, <3>1
    <2> QED  BY <1>4, <2>1, <2>2
  <1> HIDE DEF m
  <1>7. \A id \in Ids : (id \in ready \/ Result(id))' => id \in ready \/ Result(id)
    BY <1>2, <1>5, <1>6 DEF Result
  <1>8. \A id \in Ids : Used(id)' = Used(id)
    BY <1>2, <1>4 DEF Used, Asked
  <1>9. \A id \in Ids : Dealt(id)' => Dealt(id) \/ payload'[id] # None
    BY <1>1, <1>2, <1>4, <1>5 DEF Dealt, AccountRest, KnownMinted, Result
  <1> QED  BY <1>1, <1>2, <1>7, <1>8, <1>9, KindKept

LEMMA KindRun ==
    ASSUME ReachPre, NEW args, NEW stray \in BOOLEAN, RunTask(args, stray)
    PROVE  KindInv'
  <1>1. KindInv /\ Types
    BY DEF ReachPre, AccountInv, SnapshotInv
  <1>2. /\ payload' = [payload EXCEPT ![Fresh] = "result"] /\ Fresh \in Ids /\ payload[Fresh] = None
        /\ worker' = [id |-> Fresh, announced |-> FALSE]
        /\ UNCHANGED <<buf, call, refs, ready, wire>>
    BY <1>1, RunEffect
  <1>3. /\ sched'.tracked = sched.tracked /\ sched'.queue = sched.queue /\ sched'.batch = sched.batch
        /\ sched'.tasks \subseteq sched.tasks /\ sched'.stray \subseteq sched.stray
        /\ log'.orphaned = log.orphaned
    BY <1>1, RunEffect
  <1>5. /\ payload'[Fresh] = "result" /\ \A i \in Ids : payload[i] # None => payload'[i] = payload[i]
    BY <1>1, <1>2 DEF Types
  <1>6. \A id \in Ids : (id \in ready \/ Result(id))' => id \in ready \/ Result(id) \/ id = Fresh
    BY <1>2 DEF Result
  <1>7. \A id \in Ids : (Used(id)' => Used(id)) /\ Dealt(id)' = Dealt(id)
    BY <1>2, <1>3 DEF Used, Asked, Dealt
  <1> QED  BY <1>1, <1>5, <1>6, <1>7, KindKept

LEMMA KindAborts ==
    ASSUME ReachPre, NEW args \in sched.tasks, NEW copy \in BOOLEAN, Aborts(args, copy)
    PROVE  KindInv'
  <1>1. KindInv /\ Types
    BY DEF ReachPre, AccountInv, SnapshotInv
  <1> DEFINE new == IF copy THEN {Fresh} ELSE {}
  <1>2. /\ new \in Answers
        /\ \A id \in new : payload'[id] = "result"
        /\ \A i \in Ids : payload[i] # None => payload'[i] = payload[i]
        /\ wire'.client = Append(wire.client, new)
        /\ wire'.agent = wire.agent /\ wire'.scheduler = wire.scheduler /\ wire'.worker = wire.worker
        /\ sched'.tasks \subseteq sched.tasks /\ sched'.stray = sched.stray \cup {args}
        /\ sched'.tracked = sched.tracked \cup new
        /\ sched'.queue = sched.queue /\ sched'.batch = sched.batch
        /\ UNCHANGED <<buf, call, refs, ready, worker, log>>
    BY <1>1, AbortsEffect
  <1>3. wire.client \in Seq(Answers)
    BY <1>1 DEF Types, Wires
  <1> HIDE DEF new
  <1>4. \A id : Holds(wire'.client, id) <=> Holds(wire.client, id) \/ id \in new
    BY <1>2, <1>3, HoldsAppend
  <1>5. \A id \in Ids : (id \in ready \/ Result(id))' => id \in ready \/ Result(id) \/ id \in new
    BY <1>2, <1>4 DEF Result
  <1>6. \A id \in Ids : (Used(id)' => Used(id)) /\ (Dealt(id)' => Dealt(id) \/ id \in new)
    BY <1>2 DEF Used, Asked, Dealt
  <1>7. \A id \in new : payload'[id] # None
    BY <1>2, IdsAssumption
  <1> QED  BY <1>1, <1>2, <1>5, <1>6, <1>7, KindKept

LEMMA KindWorker ==
    ASSUME ReachPre, SendResult \/ Killed
    PROVE  KindInv'
  <1>1. KindInv /\ Types
    BY DEF ReachPre, AccountInv, SnapshotInv
  <1>2. UNCHANGED <<buf, payload, call, refs, ready, sched>> /\ log'.orphaned = log.orphaned
    BY <1>1 DEF SendResult, Killed, Types, Logs
  <1>3. /\ wire'.agent = wire.agent /\ wire'.scheduler = wire.scheduler
        /\ \A id \in Ids : Result(id)' => Result(id)
    <2>1. CASE SendResult
      <3> DEFINE m == <<IF worker.announced THEN "result" ELSE "create", {worker.id}>>
      <3>1. /\ m \in FromWorkers /\ wire'.worker = Append(wire.worker, m)
            /\ wire'.scheduler = wire.scheduler /\ wire'.client = wire.client /\ wire'.agent = wire.agent
            /\ worker' = IF worker.announced THEN NoResult ELSE [worker EXCEPT !.announced = TRUE]
        BY <1>1, <2>1, SendResultEffect
      <3>2. worker'.id \in {worker.id, None} /\ None \notin Ids /\ wire.worker \in Seq(FromWorkers)
        BY <1>1, <3>1, IdsAssumption DEF NoResult, Types, Wires
      <3>3. \A k, id : Names(wire'.worker, k, id) => Names(wire.worker, k, id) \/ id = worker.id
        BY <3>1, <3>2, NamesAppend
      <3> QED  BY <3>1, <3>2, <3>3 DEF Result
    <2>2. CASE Killed
      BY <2>2, IdsAssumption DEF Killed, NoResult, Result
    <2> QED  BY <2>1, <2>2
  <1>4. \A id \in Ids : Used(id)' = Used(id) /\ Dealt(id)' = Dealt(id)
    BY <1>2, <1>3 DEF Used, Asked, Dealt
  <1> QED  BY <1>1, <1>2, <1>3, <1>4, KindKept

LEMMA KindClear ==
    ASSUME ReachPre, Clear
    PROVE  KindInv'
  <1> DEFINE x == <<"clear", {}>>
  <1>1. KindInv /\ Types
    BY DEF ReachPre, AccountInv, SnapshotInv
  <1>2. /\ buf'.valid = {Serializer} /\ wire'.agent = Append(wire.agent, x)
        /\ wire'.scheduler = wire.scheduler /\ wire'.client = wire.client /\ wire'.worker = wire.worker
        /\ UNCHANGED <<payload, call, refs, ready, sched, worker>>
        /\ log.orphaned \subseteq log'.orphaned
    BY <1>1, ClearEffect DEF Clear, Types, Wires
  <1>3. wire.agent \in Seq(ToAgent) /\ x \in ToAgent /\ x[1] = "clear"
    BY <1>1 DEF Types, Wires, ToAgent, Message
  <1> HIDE DEF x
  <1>4. \A id : Names(wire'.agent, "task", id) <=> Names(wire.agent, "task", id)
    BY <1>2, <1>3, NamesAppend
  <1>5. \A id \in Ids : (Used(id)' => Used(id)) /\ Dealt(id)' = Dealt(id) /\ Result(id)' = Result(id)
    BY <1>2, <1>4, IdsAssumption DEF Used, Asked, Dealt, Result
  <1> QED  BY <1>1, <1>2, <1>5, KindKept

(* The steps that neither mint nor send.                                   *)
LEMMA KindRest ==
    ASSUME ReachPre, UNCHANGED <<wire, payload, worker>>, ready' \subseteq ready, refs' = refs,
           buf'.valid = buf.valid, call'.args \subseteq call.args \cup refs,
           sched'.tasks \subseteq sched.tasks, sched'.stray \subseteq sched.stray \cup sched.tasks,
           log.orphaned \subseteq log'.orphaned,
           sched'.tracked \cup sched'.queue \cup sched'.batch
               \subseteq sched.tracked \cup sched.queue \cup sched.batch
    PROVE  KindInv'
  <1>1. KindInv
    BY DEF ReachPre
  <1>2. \A id \in Ids : (Used(id)' => Used(id)) /\ (Dealt(id)' => Dealt(id)) /\ Result(id)' = Result(id)
    BY DEF Used, Asked, Dealt, Result
  <1> QED  BY <1>1, <1>2, KindKept

(* An object is spared when no deletion on its way names it and no clear() *)
(* the agent has yet to come to will; it is there when it is stored or     *)
(* will be.  Both but for what the scheduler gave up with its client, and  *)
(* for references that were used after they had been cleared.              *)
Exempt       == log.dropped \cup log.stale
Doomed(id)   == id \in sched.queue \cup sched.batch \/ Names(wire.scheduler, "delete", id)
Spared(id)   == id \in Exempt \/ (~Doomed(id) /\ ClearSpares(wire.agent, sent, id))
There(id)    == id \in stored \cup uploads \cup Exempt

(* What the buffer holds valid is spared, and there or about to be         *)
(* uploaded; a call names nothing else.                                    *)
BufferReaches ==
    /\ \A id \in buf.valid \ {Serializer} : Spared(id) /\ (There(id) \/ id \in buf.pending)
    /\ buf.pending \subseteq buf.valid
    /\ call.args \subseteq buf.valid \cup log.stale

(* What a task names is spared and there, wherever the task is, and no     *)
(* clear() is behind it.                                                   *)
TaskReaches ==
    /\ \A id \in Ids : Asked(id) => Spared(id) /\ There(id)
    /\ TasksLast(wire.agent)
    /\ HasTask(wire.scheduler) \/ sched.tasks # {} => NoClear(wire.agent)

(* The serializer is only deleted with the client.                         *)
SerializerReached ==
    /\ There(Serializer)
    /\ Serializer \in sched.queue \cup sched.batch => Serializer \in log.dropped

ReachRest == BufferReaches /\ TaskReaches /\ SerializerReached
ReachInv  == ReachPre /\ ReachRest

LEMMA ReachInit == Init => ReachRest
  <1> SUFFICES ASSUME Init PROVE ReachRest
    OBVIOUS
  <1>1. /\ wire.agent = <<>> /\ wire.scheduler = <<>> /\ buf.valid = {Serializer} /\ buf.pending = {}
        /\ call.args = {} /\ stored = {Serializer} /\ sched.queue = {} /\ sched.batch = {} /\ sched.tasks = {}
        /\ sched.stray = {}
    BY DEF Init
  <1>2. \A k, id : ~Names(<<>>, k, id)
    BY DEF Names
  <1>3. TasksLast(<<>>) /\ ~HasTask(<<>>)
    BY DEF TasksLast, HasTask
  <1> QED
    BY <1>1, <1>2, <1>3
    DEF ReachRest, BufferReaches, TaskReaches, SerializerReached, Asked, There, Exempt

(* What a step has to keep: an object of the user that is spared stays     *)
(* spared, and one that is there as well stays there.                      *)
Keeps ==
    /\ \A id \in Ids : payload[id] \in Contents /\ Spared(id) => Spared(id)'
    /\ \A id \in Ids : payload[id] \in Contents /\ Spared(id) /\ There(id) => There(id)'

LEMMA ReachKept ==
    ASSUME ReachInv, Keeps, SerializerReached',
           buf'.valid = buf.valid, buf'.pending = buf.pending,
           call'.args \subseteq buf.valid \cup log'.stale,
           \A id \in Ids : Asked(id)' => Asked(id),
           TasksLast(wire.agent)',
           (HasTask(wire.scheduler) \/ sched.tasks # {} => NoClear(wire.agent))'
    PROVE  ReachRest'
  <1>1. /\ \A id \in Ids : Used(id) => payload[id] \in Contents
        /\ buf.valid \in SUBSET AnyId
    BY DEF ReachInv, ReachPre, KindInv, AccountInv, SnapshotInv, Types, Buffers
  <1>2. \A id \in buf.valid \ {Serializer} : id \in Ids /\ Used(id)
    BY <1>1 DEF Used, AnyId
  <1>3. BufferReaches'
    BY <1>1, <1>2 DEF ReachInv, ReachRest, BufferReaches, Keeps
  <1>4. TaskReaches'
    BY <1>1 DEF ReachInv, ReachRest, TaskReaches, Keeps, Used
  <1> QED  BY <1>3, <1>4 DEF ReachRest

(* The steps that leave the queues of the agent and the scheduler alone.   *)
LEMMA ReachFrame ==
    ASSUME ReachInv, wire'.agent = wire.agent, wire'.scheduler = wire.scheduler, sent' = sent,
           log.dropped \subseteq log'.dropped, log.stale \subseteq log'.stale,
           \A id \in sched'.queue \cup sched'.batch : id \in sched.queue \cup sched.batch \cup log'.dropped,
           sched'.tasks \subseteq sched.tasks, sched'.stray \subseteq sched.stray \cup sched.tasks,
           log.orphaned \subseteq log'.orphaned,
           \A id \in (stored \cup uploads) \ (stored' \cup uploads') :
               (id \in Ids /\ payload[id] = "result") \/ id \in sched.batch,
           buf'.valid = buf.valid, buf'.pending = buf.pending,
           call'.args \subseteq buf.valid \cup log'.stale
    PROVE  ReachRest'
  <1>1. Exempt \subseteq Exempt'
    BY DEF Exempt
  <1>2. \A id : Spared(id) => Spared(id)'
    <2> SUFFICES ASSUME NEW id, Spared(id) PROVE Spared(id)'
      OBVIOUS
    <2>1. CASE id \in Exempt
      BY <1>1, <2>1 DEF Spared
    <2>2. CASE ~Doomed(id) /\ ClearSpares(wire.agent, sent, id)
      BY <2>2 DEF Spared, Doomed, Exempt
    <2> QED  BY <2>1, <2>2 DEF Spared
  <1>3. \A id \in Ids : payload[id] \in Contents /\ Spared(id) /\ There(id) => There(id)'
    BY <1>1, IdsAssumption DEF Spared, There, Doomed
  <1>4. Keeps
    BY <1>2, <1>3 DEF Keeps
  <1>5. SerializerReached'
    BY <1>1, IdsAssumption DEF ReachInv, ReachRest, SerializerReached, There, Exempt
  <1>6. \A id \in Ids : Asked(id)' => Asked(id)
    BY DEF Asked
  <1>7. /\ TasksLast(wire.agent)'
        /\ (HasTask(wire.scheduler) \/ sched.tasks # {} => NoClear(wire.agent))'
    BY DEF ReachInv, ReachRest, TaskReaches
  <1> QED  BY <1>4, <1>5, <1>6, <1>7, ReachKept

(* A fresh id is named by nothing that is on its way.                      *)
LEMMA ReachBuffered ==
    ASSUME ReachInv, CanMint, cell.alive, NEW r \in BOOLEAN, NEW d \in BOOLEAN,
           buf' = Buffered(r, d).buf,
           UNCHANGED <<wire, sent, sched, stored, uploads>>,
           log'.dropped = log.dropped, log'.stale = log.stale, log'.orphaned = log.orphaned,
           call'.args \subseteq call.args \cup {Buffered(r, d).id}
    PROVE  ReachRest'
  <1> DEFINE b == Buffered(r, d)
  <1>1. Types /\ AccountRest /\ KindInv /\ BufferReaches
    BY DEF ReachInv, ReachPre, ReachRest, AccountInv, SnapshotInv
  <1>2. /\ b.id \in Ids
        /\ \/ b.id \in buf.valid /\ b.buf.valid = buf.valid /\ b.buf.pending = buf.pending
           \/ /\ b.id = Fresh
              /\ b.buf.valid = buf.valid \cup {Fresh} /\ b.buf.pending = buf.pending \cup {Fresh}
    BY <1>1, BufferedEffect
  <1>3. Fresh \in Ids /\ payload[Fresh] = None
    BY FreshType DEF Minted
  <1> HIDE DEF b
  <1>4. \A id : Spared(id)' = Spared(id) /\ There(id)' = There(id) /\ Asked(id)' = Asked(id)
    BY DEF Spared, There, Exempt, Doomed, Asked
  <1>5. Spared(Fresh)
    <2>1. Fresh \notin sent /\ ~Names(wire.agent, "create", Fresh)
      BY <1>1, <1>3 DEF AccountRest, KnownMinted, Coming
    <2>2. ~Doomed(Fresh)
      BY <1>1, <1>3 DEF KindInv, Dealt, Doomed
    <2> QED  BY <2>1, <2>2, ClearSparesMinted DEF Spared
  <1>6. BufferReaches'
    BY <1>1, <1>2, <1>4, <1>5 DEF BufferReaches, b
  <1>7. TaskReaches' /\ SerializerReached'
    BY <1>4 DEF ReachInv, ReachRest, TaskReaches, SerializerReached
  <1> QED  BY <1>6, <1>7 DEF ReachRest

(* Commit uploads what is pending and sends a task that names nothing else *)
(* than what is valid.                                                     *)
LEMMA ReachCommit ==
    ASSUME ReachInv, Commit
    PROVE  ReachRest'
  <1> DEFINE a == IF buf.pending = {} THEN wire.agent ELSE Append(wire.agent, <<"create", buf.pending>>)
             x == <<"task", call.args>>
             c == <<"create", buf.pending>>
  <1>1. Types /\ BufferReaches /\ TaskReaches /\ SerializerReached
    BY DEF ReachInv, ReachPre, ReachRest, AccountInv, SnapshotInv
  <1>2. /\ a \in Seq(ToAgent) /\ x \in ToAgent /\ wire'.agent = Append(a, x)
        /\ wire'.scheduler = wire.scheduler
    BY <1>1, CommitEffect
  <1>3. /\ buf'.valid = buf.valid /\ buf'.pending = {} /\ call'.args = {}
        /\ uploads' = uploads \cup buf.pending
        /\ log'.dropped = log.dropped /\ log'.stale = log.stale /\ log'.orphaned = log.orphaned
        /\ UNCHANGED <<sched, stored, sent>>
    BY <1>1, ReturnsEffect DEF Commit, Types, Buffers, Logs
  <1>4. /\ wire.agent \in Seq(ToAgent) /\ c \in ToAgent /\ c[1] = "create" /\ x[1] = "task" /\ x[2] = call.args
        /\ call.args \in SUBSET Ids
    BY <1>1 DEF Types, Wires, Buffers, ToAgent, Message
  <1>5. \A id : Names(a, "task", id) <=> Names(wire.agent, "task", id)
    BY <1>4, NamesAppend
  <1>6. \A id : ClearSpares(wire.agent, sent, id) => ClearSpares(a, sent, id)
    BY <1>4, ClearSparesAppend
  <1>7. TasksLast(a) /\ (NoClear(wire.agent) => NoClear(a))
    BY <1>1, <1>4, OrderAppend DEF TaskReaches
  <1> HIDE DEF a, x, c
  <1>8. \A id : Names(wire'.agent, "task", id) <=> Names(wire.agent, "task", id) \/ id \in call.args
    BY <1>2, <1>4, <1>5, NamesAppend
  <1>9. \A id : ClearSpares(wire.agent, sent, id) => ClearSpares(wire'.agent, sent, id)
    BY <1>2, <1>4, <1>6, ClearSparesAppend
  <1>10. TasksLast(wire'.agent) /\ (NoClear(wire.agent) => NoClear(wire'.agent))
    BY <1>2, <1>4, <1>7, OrderAppend
  <1>11. \A id : /\ Spared(id) => Spared(id)'
                 /\ There(id) \/ id \in buf.pending => There(id)'
    BY <1>2, <1>3, <1>9 DEF Spared, There, Exempt, Doomed
  <1>12. BufferReaches'
    BY <1>1, <1>3, <1>11 DEF BufferReaches
  <1>13. \A id \in call.args : Spared(id)' /\ There(id)'
    <2>1. \A id \in log.stale : Spared(id) /\ There(id)
      BY DEF Spared, There, Exempt
    <2>2. Serializer \notin Ids
      BY IdsAssumption
    <2> QED  BY <1>1, <1>4, <1>11, <2>1, <2>2 DEF BufferReaches
  <1>14. \A id : Asked(id)' => Asked(id) \/ id \in call.args
    BY <1>2, <1>3, <1>8 DEF Asked
  <1>15. TaskReaches'
    BY <1>1, <1>2, <1>3, <1>10, <1>11, <1>13, <1>14 DEF TaskReaches
  <1>16. SerializerReached'
    BY <1>1, <1>3, <1>11 DEF SerializerReached
  <1> QED  BY <1>12, <1>15, <1>16 DEF ReachRest

(* A clear() the agent comes to names nothing that is spared.              *)
LEMMA ReachInstruction ==
    ASSUME ReachInv, OnObjectInstruction
    PROVE  ReachRest'
  <1> DEFINE m == Head(wire.agent)
  <1>1. Types /\ BufferReaches /\ TaskReaches /\ SerializerReached
    BY DEF ReachInv, ReachPre, ReachRest, AccountInv, SnapshotInv
  <1>2. /\ wire.agent # <<>> /\ m \in ToAgent /\ wire'.agent = Tail(wire.agent)
        /\ \/ /\ m[1] = "create" /\ sent' = sent \cup m[2]
              /\ \/ wire'.scheduler = wire.scheduler
                 \/ wire'.scheduler = Append(wire.scheduler, <<"create", m[2] \ sent>>)
           \/ /\ m[1] = "clear" /\ sent' = sent \cap {Serializer}
              /\ wire'.scheduler = Append(wire.scheduler, <<"delete", sent \ {Serializer}>>)
           \/ /\ m[1] = "task" /\ sent' = sent
              /\ wire'.scheduler = Append(wire.scheduler, m)
        /\ UNCHANGED <<buf, call, sched, stored, uploads, log>>
    BY <1>1, InstructionEffect DEF OnObjectInstruction
  <1>3. /\ wire.agent \in Seq(ToAgent) /\ wire.scheduler \in Seq(ToScheduler) /\ m[2] \in SUBSET Ids
        /\ sent \in SUBSET AnyId
    BY <1>1, <1>2 DEF Types, Wires, ToAgent, Message
  <1>4. \A k, id : Names(wire.agent, k, id) <=> Names(wire'.agent, k, id) \/ (m[1] = k /\ id \in m[2])
    BY <1>2, <1>3, NamesTail
  <1>5. \A id : ClearSpares(wire.agent, sent, id) =>
            /\ m[1] = "create" => ClearSpares(wire'.agent, sent \cup m[2], id)
            /\ m[1] = "clear" => id \notin sent /\ ClearSpares(wire'.agent, sent \cap {Serializer}, id)
            /\ ClearSpares(wire'.agent, sent, id)
    <2>1. sent \cap {Serializer} \in SUBSET sent
      OBVIOUS
    <2> SUFFICES ASSUME NEW id, ClearSpares(wire.agent, sent, id)
                 PROVE  /\ m[1] = "create" => ClearSpares(wire'.agent, sent \cup m[2], id)
                        /\ m[1] = "clear" =>
                               id \notin sent /\ ClearSpares(wire'.agent, sent \cap {Serializer}, id)
                        /\ ClearSpares(wire'.agent, sent, id)
      OBVIOUS
    <2>2. /\ m[1] = "create" => ClearSpares(Tail(wire.agent), sent \cup m[2], id)
          /\ m[1] = "clear" =>
                 id \notin sent /\ \A T \in SUBSET sent : ClearSpares(Tail(wire.agent), T, id)
          /\ ClearSpares(Tail(wire.agent), sent, id)
      BY <1>2, <1>3, ClearSparesTail
    <2> HIDE DEF m
    <2> QED  BY <1>2, <2>1, <2>2
  <1>6. /\ TasksLast(wire'.agent)
        /\ m[1] = "task" \/ NoClear(wire.agent) => NoClear(wire'.agent)
        /\ m[1] = "clear" => ~NoClear(wire.agent)
    BY <1>1, <1>2, <1>3, OrderTail, TailFacts DEF TaskReaches, NoClear
  <1> HIDE DEF m
  <1>7. /\ \A id : Names(wire'.scheduler, "delete", id) =>
                 Names(wire.scheduler, "delete", id) \/ (m[1] = "clear" /\ id \in sent)
        /\ \A id : Names(wire'.scheduler, "task", id) =>
                 Names(wire.scheduler, "task", id) \/ (m[1] = "task" /\ id \in m[2])
        /\ HasTask(wire'.scheduler) => HasTask(wire.scheduler) \/ m[1] = "task"
    <2>1. CASE wire'.scheduler = wire.scheduler
      BY <2>1
    <2>2. CASE m[1] = "create" /\ wire'.scheduler = Append(wire.scheduler, <<"create", m[2] \ sent>>)
      <3>1. <<"create", m[2] \ sent>> \in ToScheduler
        BY <1>3 DEF ToScheduler, Message
      <3>2. \A id : /\ Names(wire'.scheduler, "delete", id) =>
                          Names(wire.scheduler, "delete", id)
                    /\ Names(wire'.scheduler, "task", id) => Names(wire.scheduler, "task", id)
        BY <1>3, <2>2, <3>1, NamesAppend
      <3>3. HasTask(wire'.scheduler) => HasTask(wire.scheduler)
        BY <1>3, <2>2, <3>1, HasTaskAppend
      <3> QED  BY <2>2, <3>2, <3>3
    <2>3. CASE m[1] = "clear" /\ wire'.scheduler = Append(wire.scheduler, <<"delete", sent \ {Serializer}>>)
      <3>1. <<"delete", sent \ {Serializer}>> \in ToScheduler
        BY <1>3 DEF ToScheduler, Message, AnyId
      <3>2. \A id : /\ Names(wire'.scheduler, "delete", id) =>
                          Names(wire.scheduler, "delete", id) \/ id \in sent
                    /\ Names(wire'.scheduler, "task", id) => Names(wire.scheduler, "task", id)
        BY <1>3, <2>3, <3>1, NamesAppend
      <3>3. HasTask(wire'.scheduler) => HasTask(wire.scheduler)
        BY <1>3, <2>3, <3>1, HasTaskAppend
      <3> QED  BY <2>3, <3>2, <3>3
    <2>4. CASE m[1] = "task" /\ wire'.scheduler = Append(wire.scheduler, m)
      <3>1. m \in ToScheduler
        BY <1>2, <2>4 DEF ToScheduler, ToAgent, Message
      <3> QED  BY <1>3, <2>4, <3>1, NamesAppend, HasTaskAppend
    <2> QED  BY <1>2, <2>1, <2>2, <2>3, <2>4
  <1>8. \A id : Spared(id) => Spared(id)'
    <2> SUFFICES ASSUME NEW id, Spared(id) PROVE Spared(id)'
      OBVIOUS
    <2>1. CASE id \in Exempt
      BY <1>2, <2>1 DEF Spared, Exempt
    <2>2. CASE ~Doomed(id) /\ ClearSpares(wire.agent, sent, id)
      <3>1. ClearSpares(wire'.agent, sent', id)
        BY <1>2, <1>5, <2>2
      <3>2. ~Doomed(id)'
        BY <1>2, <1>5, <1>7, <2>2 DEF Doomed
      <3> QED  BY <3>1, <3>2 DEF Spared
    <2> QED  BY <2>1, <2>2 DEF Spared
  <1>9. \A id : There(id)' = There(id)
    BY <1>2 DEF There, Exempt
  <1>10. Keeps
    BY <1>8, <1>9 DEF Keeps
  <1>11. \A id \in Ids : Asked(id)' => Asked(id)
    BY <1>2, <1>4, <1>7 DEF Asked
  <1>12. (HasTask(wire.scheduler) \/ sched.tasks # {} => NoClear(wire.agent))'
    BY <1>1, <1>2, <1>6, <1>7 DEF TaskReaches
  <1>13. SerializerReached'
    BY <1>1, <1>2, <1>9 DEF SerializerReached
  <1>14. call'.args \subseteq buf.valid \cup log'.stale
    BY <1>1, <1>2 DEF BufferReaches
  <1> QED  BY <1>2, <1>6, <1>10, <1>11, <1>12, <1>13, <1>14, ReachKept

(* A result is no object of the user.                                      *)
LEMMA ReachReceive ==
    ASSUME ReachInv, ReceiveResult
    PROVE  ReachRest'
  <1> DEFINE x == Head(wire.client)
  <1>1. Types /\ KindInv /\ BufferReaches /\ TaskReaches /\ SerializerReached
    BY DEF ReachInv, ReachPre, ReachRest, AccountInv, SnapshotInv
  <1>2. /\ wire.client # <<>> /\ sent' = sent \cup x
        /\ wire'.agent = wire.agent /\ wire'.scheduler = wire.scheduler
        /\ UNCHANGED <<buf, call, sched, stored, uploads, log>>
    BY <1>1 DEF ReceiveResult, OnTaskResult, Types, Wires
  <1>3. wire.client \in Seq(Answers)
    BY <1>1 DEF Types, Wires
  <1>4. \A id \in x : Holds(wire.client, id)
    BY <1>2, <1>3, HoldsTail
  <1> HIDE DEF x
  <1>5. \A id \in Ids : payload[id] \in Contents => id \notin x
    BY <1>1, <1>4, IdsAssumption DEF KindInv, Result
  <1>6. \A id \in Ids : payload[id] \in Contents /\ Spared(id) => Spared(id)'
    BY <1>2, <1>5 DEF Spared, Exempt, Doomed, ClearSpares
  <1>7. \A id : There(id)' = There(id) /\ Asked(id)' = Asked(id)
    BY <1>2 DEF There, Exempt, Asked
  <1>8. Keeps
    BY <1>6, <1>7 DEF Keeps
  <1>9. SerializerReached'
    BY <1>1, <1>2, <1>7 DEF SerializerReached
  <1>10. /\ TasksLast(wire.agent)'
         /\ (HasTask(wire.scheduler) \/ sched.tasks # {} => NoClear(wire.agent))'
    BY <1>1, <1>2 DEF TaskReaches
  <1>11. call'.args \subseteq buf.valid \cup log'.stale
    BY <1>1, <1>2 DEF BufferReaches
  <1> QED  BY <1>2, <1>7, <1>8, <1>9, <1>10, <1>11, ReachKept

(* A deletion that arrives named what it dooms before.                     *)
LEMMA ReachFromAgent ==
    ASSUME ReachInv, FromAgent
    PROVE  ReachRest'
  <1> DEFINE m == Head(wire.scheduler)
  <1>1. Types /\ BufferReaches /\ TaskReaches /\ SerializerReached
    BY DEF ReachInv, ReachPre, ReachRest, AccountInv, SnapshotInv
  <1>2. /\ wire.scheduler # <<>> /\ m \in ToScheduler /\ wire'.scheduler = Tail(wire.scheduler)
        /\ wire'.agent = wire.agent /\ UNCHANGED <<buf, call, sent, stored, uploads>>
    BY <1>1, FromAgentEffect DEF FromAgent
  <1>3. m[2] \in SUBSET Ids /\ wire.scheduler \in Seq(ToScheduler) /\ Serializer \notin Ids
    BY <1>1, <1>2, IdsAssumption DEF ToScheduler, Message, Types, Wires
  <1>4. /\ sched'.stray = sched.stray /\ log'.orphaned = log.orphaned
        /\ log'.dropped = log.dropped /\ log'.stale = log.stale /\ sched'.batch = sched.batch
        /\ \/ m[1] = "create" /\ sched'.tasks = sched.tasks /\ sched'.queue = sched.queue
           \/ /\ m[1] = "delete" /\ sched'.tasks = sched.tasks
              /\ sched'.queue \subseteq sched.queue \cup m[2]
           \/ /\ m[1] = "task" /\ sched'.tasks = sched.tasks \cup {m[2]} /\ sched'.queue = sched.queue
    <2>1. CASE m[1] = "create" /\ OnObjectCreate(m[2])
      BY <1>1, <1>3, <2>1, CreateEffect
    <2> QED  BY <1>1, <2>1, FromAgentEffect
  <1>5. \A k, id : Names(wire.scheduler, k, id) <=>
                       Names(wire'.scheduler, k, id) \/ (m[1] = k /\ id \in m[2])
    BY <1>2, <1>3, NamesTail
  <1>6. /\ HasTask(wire'.scheduler) => HasTask(wire.scheduler)
        /\ m[1] = "task" => HasTask(wire.scheduler)
    BY <1>2, <1>3, HasTaskTail, TailFacts DEF HasTask
  <1> HIDE DEF m
  <1>7. \A id : (Spared(id) => Spared(id)') /\ There(id)' = There(id)
    BY <1>2, <1>4, <1>5 DEF Spared, There, Exempt, Doomed
  <1>8. Keeps
    BY <1>7 DEF Keeps
  <1>9. \A id \in Ids : Asked(id)' => Asked(id)
    BY <1>2, <1>4, <1>5 DEF Asked
  <1>10. SerializerReached'
    BY <1>1, <1>3, <1>4, <1>7 DEF SerializerReached
  <1>11. /\ TasksLast(wire.agent)'
         /\ (HasTask(wire.scheduler) \/ sched.tasks # {} => NoClear(wire.agent))'
    BY <1>1, <1>2, <1>4, <1>6 DEF TaskReaches
  <1>12. call'.args \subseteq buf.valid \cup log'.stale
    BY <1>1, <1>2, <1>4 DEF BufferReaches
  <1> QED  BY <1>2, <1>8, <1>9, <1>10, <1>11, <1>12, ReachKept

(* When clear() is called no task is left that names anything, but for     *)
(* stray ones, whose arguments are orphaned.                               *)
LEMMA ReachClear ==
    ASSUME ReachInv, Clear
    PROVE  ReachRest'
  <1> DEFINE x == <<"clear", {}>>
  <1>1. Types /\ BufferReaches /\ TaskReaches /\ SerializerReached
    BY DEF ReachInv, ReachPre, ReachRest, AccountInv, SnapshotInv
  <1>2. /\ buf'.valid = {Serializer} /\ buf'.pending = {} /\ wire'.agent = Append(wire.agent, x)
        /\ wire'.scheduler = wire.scheduler /\ FuturesDone /\ call.phase = "idle"
        /\ UNCHANGED <<call, sent, sched, stored, uploads>>
        /\ log'.dropped = log.dropped /\ log'.stale = log.stale
        /\ log'.orphaned = log.orphaned \cup UNION sched.stray
    BY <1>1, ClearEffect DEF Clear, Types, Wires
  <1>3. wire.agent \in Seq(ToAgent) /\ x \in ToAgent /\ x[1] = "clear" /\ call.args = {}
    BY <1>1, <1>2 DEF Types, Wires, ToAgent, Message
  <1>4. sched.tasks = {} /\ ~HasTask(wire.agent) /\ ~HasTask(wire.scheduler)
    BY <1>2 DEF FuturesDone, HasTask
  <1> HIDE DEF x
  <1>5. ~HasTask(wire'.agent) /\ TasksLast(wire'.agent)
    BY <1>1, <1>2, <1>3, <1>4, HasTaskAppend, OrderAppend DEF TaskReaches
  <1>6. \A id : ~Asked(id)'
    BY <1>2, <1>4, <1>5 DEF Asked, Names, HasTask
  <1>7. BufferReaches'
    BY <1>2, <1>3 DEF BufferReaches
  <1>8. TaskReaches'
    BY <1>2, <1>4, <1>5, <1>6 DEF TaskReaches
  <1>9. SerializerReached'
    BY <1>1, <1>2 DEF SerializerReached, There, Exempt
  <1> QED  BY <1>7, <1>8, <1>9 DEF ReachRest

LEMMA ReachStep == ReachInv /\ [Next]_vars => ReachInv'
  <1> SUFFICES ASSUME ReachInv, [Next]_vars PROVE KindInv' /\ ReachRest'
    BY AccountStep DEF ReachInv, ReachPre
  <1> DEFINE Goal == KindInv' /\ ReachRest'
  <1>t. /\ ReachPre /\ Types /\ BufferReaches /\ log \in Logs /\ sched \in Scheds /\ buf \in Buffers
        /\ KindInv
    BY DEF ReachInv, ReachPre, ReachRest, AccountInv, SnapshotInv, Types
  <1>u. call.args \subseteq buf.valid \cup log.stale
    BY <1>t DEF BufferReaches
  <1>f. ASSUME UNCHANGED <<wire, worker, payload, sent, stored, uploads, refs, ready>>, buf'.valid = buf.valid,
               buf'.pending = buf.pending, sched'.tracked \cup sched'.queue \cup sched'.batch
                   \subseteq sched.tracked \cup sched.queue \cup sched.batch,
               sched'.tasks \subseteq sched.tasks, sched'.stray \subseteq sched.stray \cup sched.tasks,
               log.orphaned \subseteq log'.orphaned, log.dropped \subseteq log'.dropped,
               log.stale \subseteq log'.stale,
               \A id \in sched'.queue \cup sched'.batch :
                   id \in sched.queue \cup sched.batch \cup log'.dropped,
               call'.args \subseteq call.args
        PROVE  Goal
    BY <1>f, <1>t, <1>u, KindRest, ReachFrame
  <1>1. ASSUME NEW c, NEW weak, NewObject(c, weak) \/ Mutate(c) PROVE Goal
    BY <1>1, <1>f DEF NewObject, Mutate
  <1>2. CASE CollectObject
    BY <1>2, <1>f, <1>t DEF CollectObject, Buffers
  <1>3. ASSUME NEW r \in BOOLEAN, BufferArgument(r) PROVE Goal
    <2>1. /\ cell.alive /\ CanMint /\ Argument(Buffered(r, TRUE).id)
          /\ buf' = Buffered(r, TRUE).buf /\ payload' = Recorded(Buffered(r, TRUE).id)
          /\ UNCHANGED <<wire, sent, sched, stored, uploads, worker, refs, ready>>
          /\ \/ log' = log
             \/ \E e : log' = [log EXCEPT !.foreign = e]
      BY <1>3 DEF BufferArgument
    <2>2. log'.dropped = log.dropped /\ log'.stale = log.stale /\ log'.orphaned = log.orphaned
      BY <1>t, <2>1 DEF Logs
    <2>3. call'.args = call.args \cup {Buffered(r, TRUE).id}
      BY <1>t, <2>1, BufferedEffect, ArgumentEffect
    <2> QED  BY <1>t, <2>1, <2>2, <2>3, KindBuffered, ReachBuffered
  <1>4. CASE SendObject
    BY <1>4, <1>t, KindBuffered, ReachBuffered DEF SendObject
  <1>5. CASE Abandon
    <2>1. /\ log'.dropped = log.dropped /\ log'.stale = log.stale /\ call'.args = {}
          /\ log'.orphaned = log.orphaned
      BY <1>5, <1>t, ReturnsEffect DEF Abandon, Logs
    <2> QED  BY <1>5, <1>f, <2>1 DEF Abandon
  <1>6. ASSUME NEW id \in refs, NEW checked \in BOOLEAN, UseReference(id, checked) PROVE Goal
    <2>1. /\ Argument(id) /\ id \in Ids
          /\ log' = IF id \in buf.valid THEN log ELSE [log EXCEPT !.stale = @ \cup {id}]
          /\ UNCHANGED <<wire, worker, payload, sent, stored, uploads, refs, ready, buf, sched>>
      BY <1>6, <1>t DEF UseReference, Types
    <2>2. /\ log'.dropped = log.dropped /\ log.stale \subseteq log'.stale
          /\ id \in buf.valid \cup log'.stale /\ log'.orphaned = log.orphaned
      BY <1>t, <2>1 DEF Logs
    <2>3. call'.args = call.args \cup {id}
      BY <1>t, <2>1, ArgumentEffect
    <2> QED  BY <1>t, <1>u, <2>1, <2>2, <2>3, KindRest, ReachFrame
  <1>7. CASE CleanClient
    <2>1. /\ sched' = [sched EXCEPT !.cleaning = FALSE, !.tracked = {},
                                    !.queue = @ \cup sched.tracked]
          /\ log' = [log EXCEPT !.dropped = @ \cup sched.tracked]
      BY <1>7 DEF CleanClient
    <2>2. /\ sched'.tracked = {} /\ sched'.queue = sched.queue \cup sched.tracked
          /\ sched'.batch = sched.batch /\ sched'.tasks = sched.tasks /\ sched'.stray = sched.stray
      BY <1>t, <2>1 DEF Scheds
    <2>3. /\ log'.dropped = log.dropped \cup sched.tracked /\ log'.stale = log.stale
          /\ log'.orphaned = log.orphaned
      BY <1>t, <2>1 DEF Logs
    <2> QED  BY <1>7, <1>f, <2>2, <2>3 DEF CleanClient
  <1>8. CASE Heartbeat
    BY <1>8, <1>f, <1>t DEF Heartbeat, Scheds
  <1>9. CASE SendDeletions
    <2>1. /\ sched'.tracked = sched.tracked /\ sched'.queue = {} /\ sched'.batch = sched.queue
          /\ sched'.tasks = sched.tasks /\ sched'.stray = sched.stray
      BY <1>9, <1>t DEF SendDeletions, Scheds
    <2> QED  BY <1>9, <1>f, <2>1 DEF SendDeletions
  <1>10. ASSUME NEW id \in AnyId, StorageDeletes(id) PROVE Goal
    <2>1. /\ id \in sched.batch /\ sched' = [sched EXCEPT !.batch = @ \ {id}] /\ stored' = stored \ {id}
          /\ log' = IF id \in uploads THEN [log EXCEPT !.leaked = @ \cup {id}] ELSE log
          /\ UNCHANGED <<wire, worker, payload, sent, uploads, refs, ready, buf, call>>
      BY <1>10 DEF StorageDeletes
    <2>2. /\ sched'.tracked = sched.tracked /\ sched'.queue = sched.queue
          /\ sched'.batch = sched.batch \ {id} /\ sched'.tasks = sched.tasks
          /\ sched'.stray = sched.stray
      BY <1>t, <2>1 DEF Scheds
    <2>3. log'.dropped = log.dropped /\ log'.stale = log.stale /\ log'.orphaned = log.orphaned
      BY <1>t, <2>1 DEF Logs
    <2> QED  BY <1>t, <1>u, <2>1, <2>2, <2>3, KindRest, ReachFrame
  <1>11. ASSUME NEW id \in AnyId, StorageSets(id) PROVE Goal
    <2>1. /\ UNCHANGED <<wire, worker, payload, sent, refs, ready, buf, call, sched, log>>
          /\ stored \cup uploads \subseteq stored' \cup uploads'
      BY <1>11 DEF StorageSets
    <2> QED  BY <1>t, <1>u, <2>1, KindRest, ReachFrame
  <1>12. ASSUME NEW id \in ready, FetchResult(id) PROVE Goal
    <2>1. /\ UNCHANGED <<wire, worker, payload, sent, refs, buf, call, sched, log, uploads>>
          /\ stored' = stored \ {id} /\ ready' = ready \ {id} /\ id \in Ids
      BY <1>12, <1>t DEF FetchResult, Types
    <2>2. payload[id] = "result"
      BY <1>t, <1>12, <2>1 DEF KindInv
    <2> QED  BY <1>t, <1>u, <2>1, <2>2, KindRest, ReachFrame
  <1>13. CASE ForgetClient
    <2>1. /\ sched' = [sched EXCEPT !.known = FALSE, !.cleaning = TRUE, !.tasks = {}, !.stray = {}]
          /\ log' = [log EXCEPT !.unnamed = @ \cup Reported \cup ({worker.id} \ {None})]
      BY <1>13 DEF ForgetClient
    <2>2. log'.dropped = log.dropped /\ log'.stale = log.stale /\ log'.orphaned = log.orphaned
      BY <1>t, <2>1 DEF Logs
    <2>3. /\ sched'.tracked = sched.tracked /\ sched'.queue = sched.queue /\ sched'.batch = sched.batch
          /\ sched'.tasks = {} /\ sched'.stray = {}
      BY <1>t, <2>1 DEF Scheds
    <2> QED  BY <1>13, <1>f, <2>2, <2>3 DEF ForgetClient
  <1>14. ASSUME NEW args, NEW stray \in BOOLEAN, RunTask(args, stray) PROVE Goal
    <2>1. /\ stored \subseteq stored' /\ UNCHANGED <<wire, sent, buf, call, uploads>>
          /\ sched'.queue = sched.queue /\ sched'.batch = sched.batch
          /\ sched'.tasks \subseteq sched.tasks /\ sched'.stray \subseteq sched.stray
          /\ log'.dropped = log.dropped /\ log'.stale = log.stale /\ log'.orphaned = log.orphaned
      BY <1>14, <1>t, RunEffect
    <2> QED  BY <1>14, <1>t, <1>u, <2>1, KindRun, ReachFrame
  <1>15. CASE SendResult
    <2>1. /\ wire'.agent = wire.agent /\ wire'.scheduler = wire.scheduler
          /\ UNCHANGED <<sent, buf, call, log, uploads, stored, sched>>
      BY <1>15, <1>t, SendResultEffect DEF SendResult
    <2> QED  BY <1>15, <1>t, <1>u, <2>1, KindWorker, ReachFrame
  <1>16. CASE Killed
    <2>1. UNCHANGED <<wire, sent, buf, call, uploads, stored, sched>>
      BY <1>16 DEF Killed
    <2>2. log'.dropped = log.dropped /\ log'.stale = log.stale /\ log'.orphaned = log.orphaned
      BY <1>16, <1>t DEF Killed, Logs
    <2> QED  BY <1>16, <1>t, <1>u, <2>1, <2>2, KindWorker, ReachFrame
  <1>17. CASE FromWorker
    <2>1. /\ wire'.agent = wire.agent /\ wire'.scheduler = wire.scheduler
          /\ UNCHANGED <<sent, buf, call, uploads, stored>>
      BY <1>17, <1>t, FromWorkerEffect DEF FromWorker
    <2>2. /\ sched'.queue = sched.queue /\ sched'.batch = sched.batch /\ sched'.tasks = sched.tasks
          /\ sched'.stray = sched.stray /\ log'.orphaned = log.orphaned
          /\ log'.dropped = log.dropped /\ log'.stale = log.stale
      BY <1>17, <1>t, FromWorkerEffect, CreateEffect DEF FromWorkers, Single
    <2> QED  BY <1>17, <1>t, <1>u, <2>1, <2>2, KindFromWorker, ReachFrame
  <1>18. CASE Commit \/ OnObjectInstruction \/ ReceiveResult \/ FromAgent \/ Clear
    BY <1>18, <1>t, KindCommit, KindInstruction, KindReceive, KindFromAgent, KindClear,
       ReachCommit, ReachInstruction, ReachReceive, ReachFromAgent, ReachClear
  <1>19. CASE UNCHANGED vars
    BY <1>19, <1>f DEF vars
  <1>20. ASSUME NEW args \in sched.tasks, NEW copy \in BOOLEAN, Aborts(args, copy) PROVE Goal
    <2>1. /\ wire'.agent = wire.agent /\ wire'.scheduler = wire.scheduler
          /\ sched'.tasks \subseteq sched.tasks /\ sched'.stray \subseteq sched.stray \cup sched.tasks
          /\ sched'.queue = sched.queue /\ sched'.batch = sched.batch /\ stored \subseteq stored'
          /\ UNCHANGED <<buf, call, sent, uploads, log>>
      BY <1>20, <1>t, AbortsEffect
    <2> QED  BY <1>20, <1>t, <1>u, <2>1, KindAborts, ReachFrame
  <1>21. ASSUME NEW args \in sched.tasks, Cancels(args) PROVE Goal
    BY <1>21, <1>f, <1>t, CancelsEffect
  <1> QED
    BY <1>1, <1>2, <1>3, <1>4, <1>5, <1>6, <1>7, <1>8, <1>9, <1>10, <1>11, <1>12, <1>13, <1>14,
       <1>15, <1>16, <1>17, <1>18, <1>19, <1>20, <1>21
    DEF Next, User, Agent, Scheduler, Storage, Worker, AnyId

(* No task waits for an object that never comes: what it names and the     *)
(* serializer are stored or on their way, whatever was cleared before; and *)
(* so it is for a subtask that goes on after its graph was aborted, but    *)
(* for what it named when clear() was called, which waits for futures only *)
(* (client.py, clear).                                                     *)
THEOREM ArgumentsCorrect == Spec => []ArgumentsReachable
  <1>1. Init => ReachInv
    BY AccountInit, KindInit, ReachInit DEF ReachInv, ReachPre
  <1>2. ReachInv => ArgumentsReachable
    <2> SUFFICES ASSUME ReachInv PROVE ArgumentsReachable
      OBVIOUS
    <2>1. sched.tasks \in SUBSET SUBSET Ids /\ sched.stray \in SUBSET SUBSET Ids
      BY DEF ReachInv, ReachPre, AccountInv, SnapshotInv, Types, Scheds
    <2>2. /\ \A id \in Ids : Asked(id) => id \in stored \cup uploads \cup log.dropped \cup log.stale
          /\ Serializer \in stored \cup uploads \cup log.dropped \cup log.stale
      BY DEF ReachInv, ReachRest, TaskReaches, SerializerReached, There, Exempt
    <2>3. ASSUME NEW args \in sched.tasks, NEW id \in args
          PROVE  id \in stored \cup uploads \cup log.dropped \cup log.stale
      BY <2>1, <2>2, <2>3 DEF Asked
    <2>4. ASSUME NEW args \in sched.stray, NEW id \in args
          PROVE  id \in stored \cup uploads \cup log.dropped \cup log.stale \cup log.orphaned
      BY <2>1, <2>2, <2>4 DEF Asked
    <2> QED  BY <2>2, <2>3, <2>4 DEF ArgumentsReachable, Reachable
  <1> QED  BY <1>1, <1>2, ReachStep, PTL DEF Spec
=============================================================================
