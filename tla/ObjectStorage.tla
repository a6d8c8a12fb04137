---------------------------- MODULE ObjectStorage ----------------------------
(***************************************************************************)
(* The object storage server (object_storage_server.cpp, object_manager.cpp) *)
(* and the two connectors that talk to it: the synchronous one of a        *)
(* processor, with the retries of the result's hand-off, and the asyncio one *)
(* of the agents, the scheduler and the worker managers.                   *)
(*                                                                         *)
(* A request is a header message, followed for SET and DUPLICATE by a      *)
(* payload message; a GET answer is a header and a payload too.  Nothing   *)
(* ties the halves together but their order and the announced length, and  *)
(* YMQ may lose a connection between them and make a new one under the same *)
(* identity (module Ymq): the messages under way are lost, and the write   *)
(* that was in flight is answered like a success or canceled.              *)
(*                                                                         *)
(* A job is one call of a connector.  The server compares payloads by a    *)
(* 64-bit hash; here two payloads have one hash only if they are equal.    *)
(* The limit of 6 TB on a payload and INFO_GET_TOTAL, which changes nothing, *)
(* are left out.                                                           *)
(***************************************************************************)
EXTENDS Integers, Sequences, SequencesExt, FiniteSets

CONSTANTS
    Client,         \* the identities connected to the server
    Sync,           \* those that use the synchronous connector: processors
    Job,            \* calls of a connector
    Work,           \* Work[j]: [client, type, name, from], from: the original of a duplicate
    Content,        \* Content[n]: the payload that is meant to be stored under name n
    Size,           \* Size[d]: its length
    HeaderLen,      \* capnpHeaderSize
    IdLen,          \* capnpObjectIDSize
    MaxAttempts,    \* RESULT_HAND_OFF_MAX_ATTEMPTS
    Events,         \* the faults that may happen: "cut", "die"
    Budget          \* how many of them

Name == DOMAIN Content
Data == {Content[n] : n \in Name}
None == "none"                  \* no payload, no request
Headers == "header"             \* the bytes of a header, where a payload is expected
IdBytes == "id"                 \* the bytes of an object id, the payload of a duplicate
Empty == "empty"                \* an answer without a payload message
\* Every attempt to store a result generates a new object id.
Id   == Name \X (1 .. MaxAttempts)

ASSUME ClientAssumption == Sync \subseteq Client
ASSUME SizeAssumption   == Size \in [Data -> Nat] /\ HeaderLen \in Nat /\ IdLen \in Nat
ASSUME DataAssumption   == {None, Headers, IdBytes, Empty} \cap Data = {}
ASSUME BoundAssumption  == MaxAttempts \in Nat \ {0} /\ Budget \in Nat
ASSUME FiniteAssumption == IsFiniteSet(Name)

VARIABLES
    \* the server: objectIDToHash, hashToObject's use counts, totalObjectsBytes,
    \* identityToFullRequest and pendingRequests
    store, uses, bytes, partial, pending,
    \* the connections: messages on their way, and the ones the server has closed
    up, down, closed,
    \* the callers: the stage of every job, its attempt and what it returned
    stage, attempt, result,
    \* the connectors: who is sending, the get futures, the header whose payload is
    \* still to be read, and the connectors that work
    holder, gets, reading, working,
    left            \* faults that may still happen

server  == <<store, uses, bytes, partial, pending>>
network == <<up, down, closed>>
caller  == <<stage, attempt, result>>
conn    == <<holder, gets, reading, working>>
vars    == <<server, network, caller, conn, left>>

NoJob == "nobody"
ASSUME WorkAssumption ==
    /\ NoJob \notin Job
    /\ \A j \in Job : /\ Work[j].client \in Client /\ Work[j].name \in Name /\ Work[j].from \in Name
                      /\ Work[j].type \in {"set", "get", "delete", "duplicate"}

NoHeader == [type |-> "none", id |-> <<>>, from |-> <<>>, len |-> 0, job |-> NoJob]

Of(j)     == Work[j].client
IdOf(j)   == <<Work[j].name, attempt[j]>>
From(j)   == <<Work[j].from, 1>>
IsSync(j) == Of(j) \in Sync
\* The asyncio connector has one future for all gets of an object.
Shares(j) == ~ IsSync(j) /\ Work[j].type = "get"
Carries(j) == Work[j].type \in {"set", "duplicate"}
Happens(e) == e \in Events /\ left > 0 /\ left' = left - 1

LengthOf(d) == CASE d = Headers -> HeaderLen [] d = IdBytes -> IdLen [] OTHER -> Size[d]

Message(to, data, head) == [to |-> to, data |-> data, head |-> head]

Init ==
    /\ store = [i \in Id |-> None]
    /\ uses = [d \in Data \cup {Headers, IdBytes} |-> 0] /\ bytes = 0
    /\ partial = [c \in Client |-> NoHeader]
    /\ pending = [i \in Id |-> <<>>]
    /\ up = [c \in Client |-> <<>>] /\ down = [c \in Client |-> <<>>] /\ closed = {}
    /\ stage = [j \in Job |-> IF Shares(j) THEN "new" ELSE "queued"] /\ attempt = [j \in Job |-> 1]
    /\ result = [j \in Job |-> None]
    /\ holder = [c \in Client |-> NoJob]
    /\ gets = [c \in Client |-> {}]
    /\ reading = [c \in Client |-> NoHeader]
    /\ working = Client
    /\ left = Budget

-----------------------------------------------------------------------------
(* ObjectManager, as functions of the server's books b.                    *)

DeleteObject(b, i) ==
    LET d == b.store[i]
    IN  IF d = None THEN b
        ELSE [b EXCEPT !.store[i] = None, !.uses[d] = b.uses[d] - 1,
                       !.bytes = IF b.uses[d] = 1 THEN @ - LengthOf(d) ELSE @]

Stored(b, i, d) ==
    [b EXCEPT !.store[i] = d, !.uses[d] = b.uses[d] + 1,
              !.bytes = IF b.uses[d] = 0 THEN @ + LengthOf(d) ELSE @]

SetObject(b, i, d) == Stored(DeleteObject(b, i), i, d)

\* The mutant shares the payload without counting the new id.
DuplicateObject_Uncounted(b, i, new) ==
    IF b.store[i] = None THEN b ELSE [b EXCEPT !.store[new] = b.store[i]]
DuplicateObject(b, i, new) ==
    IF b.store[i] = None THEN b
    ELSE LET a == DeleteObject(b, new) IN Stored(a, new, b.store[i])

-----------------------------------------------------------------------------
(* The server.                                                             *)

\* writeMessage: the header, and the payload unless it is empty.
Answer(r, type, data) ==
    LET len == IF data = None THEN 0 ELSE LengthOf(data)
    IN  <<Message(Of(r.job), Headers, [r EXCEPT !.type = type, !.len = len])>>
        \o (IF len = 0 THEN <<>> ELSE <<Message(Of(r.job), data, NoHeader)>>)

\* One waiting request is answered with the payload d; the requests that wait for
\* the id it duplicates to come next.
ServeOne(b, d) ==
    LET r == Head(b.todo)
    IN  IF b.todo = <<>> THEN b
        ELSE IF r.type = "get"
        THEN [b EXCEPT !.out = @ \o Answer(r, "get", d), !.todo = Tail(@)]
        ELSE [DuplicateObject(b, r.from, r.id) EXCEPT
                !.out = @ \o Answer(r, "duplicate", None),
                !.todo = b.pending[r.id] \o Tail(@),
                !.pending[r.id] = <<>>]

\* The mutant does not look for requests that wait for a duplicated id.
OptionallySendPendingRequests_Flat(b, i, d) ==
    LET todo == b.pending[i]
        out(r) == Answer(r, r.type, IF r.type = "get" THEN d ELSE None)
        dup(s, r) == IF r.type = "get" THEN s ELSE DuplicateObject(s, i, r.id)
    IN  FoldLeft(LAMBDA s, r : [dup(s, r) EXCEPT !.out = @ \o out(r)],
                 [b EXCEPT !.pending[i] = <<>>], todo)

\* The numbers of the requests that are waiting.
Waiting(b) == [k \in 1 .. SumFunctionOnSet([i \in Id |-> Len(b.pending[i])], Id) |-> k]

\* optionallySendPendingRequests calls itself for every id it duplicates to; each
\* call takes the requests out of the map first, so no request is served twice and
\* there is at most one step for each of them.
OptionallySendPendingRequests(b, i, d) ==
    IF b.pending[i] = <<>> THEN b
    ELSE FoldLeft(LAMBDA s, k : ServeOne(s, d),
                  [b EXCEPT !.pending[i] = <<>>, !.todo = b.pending[i]], Waiting(b))

ProcessSetRequest(b, r, d) ==
    LET s == OptionallySendPendingRequests(SetObject(b, r.id, d), r.id, d)
    IN  [s EXCEPT !.out = @ \o Answer(r, "set", None)]

ProcessGetRequest(b, r) ==
    IF b.store[r.id] # None THEN [b EXCEPT !.out = @ \o Answer(r, "get", b.store[r.id])]
    ELSE [b EXCEPT !.pending[r.id] = Append(@, r)]

ProcessDeleteRequest(b, r) ==
    [DeleteObject(b, r.id) EXCEPT !.out = @ \o Answer(r, "delete", None)]

\* A duplicate waits under the id of its original.
ProcessDuplicateRequest(b, r) ==
    LET i == r.from
    IN  IF b.store[i] = None THEN [b EXCEPT !.pending[i] = Append(@, r)]
        ELSE LET s == OptionallySendPendingRequests(DuplicateObject(b, i, r.id), r.id, b.store[i])
             IN  [s EXCEPT !.out = @ \o Answer(r, "duplicate", None)]

Books == [store |-> store, uses |-> uses, bytes |-> bytes, pending |-> pending,
          out |-> <<>>, todo |-> <<>>]

Process(b, r, d) ==
    CASE r.type = "set"       -> ProcessSetRequest(b, r, d)
      [] r.type = "get"       -> ProcessGetRequest(b, r)
      [] r.type = "delete"    -> ProcessDeleteRequest(b, r)
      [] r.type = "duplicate" -> ProcessDuplicateRequest(b, r)

\* The books after the request, and its answers on their way; those to a client whose
\* connection is closed fail.
Commit(b) ==
    /\ store' = b.store /\ uses' = b.uses /\ bytes' = b.bytes /\ pending' = b.pending
    /\ down' = [c \in Client |-> down[c] \o
                    SelectSeq(b.out, LAMBDA m : m.to = c /\ c \notin closed)]

\* The mutant takes whatever comes next for the payload.
Completes_Any(c, m) == partial[c] # NoHeader
\* A request that waits for its payload is completed by a message of the announced
\* length, and dropped when the next message has another one.
Completes(c, m) == partial[c] # NoHeader /\ partial[c].len = LengthOf(m.data)

\* A payload whose header was lost is read as a header.  It parses as the request whose
\* code is zero, a set, of an id that nobody uses, or it is malformed and closeConnection
\* follows: what the binder has already received is still processed, and of the answers
\* that are on their way some arrive.
Garbage == [NoHeader EXCEPT !.type = "set", !.len = -1]

Receive(c) ==
    LET m == Head(up[c])
        p == [partial[c] EXCEPT !.from = m.head.from]
        next == [up EXCEPT ![c] = Tail(@)]
    IN  /\ up[c] # <<>>
        /\ \/ /\ Completes(c, m)
              /\ p.type = "duplicate" => m.data = IdBytes
              /\ partial' = [partial EXCEPT ![c] = NoHeader]
              /\ Commit(Process(Books, p, m.data))
              /\ up' = next /\ UNCHANGED closed
           \/ /\ ~ Completes(c, m) /\ m.data = Headers /\ m.head.type \in {"set", "duplicate"}
              /\ partial' = [partial EXCEPT ![c] = m.head]
              /\ up' = next /\ UNCHANGED <<store, uses, bytes, pending, down, closed>>
           \/ /\ ~ Completes(c, m) /\ m.data = Headers /\ m.head.type \in {"get", "delete"}
              /\ partial' = [partial EXCEPT ![c] = NoHeader]
              /\ Commit(Process(Books, m.head, None))
              /\ up' = next /\ UNCHANGED closed
           \/ /\ ~ Completes(c, m) /\ m.data # Headers
              /\ partial' = [partial EXCEPT ![c] = Garbage]
              /\ up' = next /\ UNCHANGED <<store, uses, bytes, pending, down, closed>>
           \/ /\ m.data # Headers
              /\ Completes(c, m) => partial[c].type = "duplicate" /\ m.data # IdBytes
              /\ partial' = [partial EXCEPT ![c] = NoHeader]
              /\ closed' = closed \cup {c}
              /\ \E k \in 1 .. Len(up[c]) : up' = [up EXCEPT ![c] = SubSeq(@, 2, k)]
              /\ \E k \in 0 .. Len(down[c]) : down' = [down EXCEPT ![c] = SubSeq(@, 1, k)]
              /\ UNCHANGED <<store, uses, bytes, pending>>
        /\ UNCHANGED <<caller, conn, left>>

-----------------------------------------------------------------------------
(* The connectors.                                                         *)

Header(j) ==
    Message(Of(j), Headers,
            [type |-> Work[j].type, id |-> IdOf(j), from |-> <<>>, job |-> j,
             len |-> CASE Work[j].type = "set" -> Size[Content[Work[j].name]]
                       [] Work[j].type = "duplicate" -> IdLen
                       [] OTHER -> 0])

Payload(j) ==
    IF Work[j].type = "set" THEN Message(Of(j), Content[Work[j].name], NoHeader)
    ELSE Message(Of(j), IdBytes, [NoHeader EXCEPT !.from = From(j)])

\* The call is in the block that holds the connector's lock.
Locked(j) == [holder EXCEPT ![Of(j)] = j]
\* The mutant leaves the lock with a call that raised.
Unlocked_OnReturnOnly(j) == IF stage[j] = "queued" \/ stage[j] = "payload" THEN holder ELSE [holder EXCEPT ![Of(j)] = NoJob]
\* The call leaves the block that holds the connector's lock.
Unlocked(j) == [holder EXCEPT ![Of(j)] = NoJob]

\* __hand_off: a store that raised is tried again under a new id.  Any other error
\* ends the processor.  The asyncio connector gives up its socket.
Raises(j) ==
    /\ holder' = Unlocked(j)
    /\ IF IsSync(j) /\ Work[j].type = "set" /\ attempt[j] < MaxAttempts
       THEN /\ stage' = [stage EXCEPT ![j] = "queued"]
            /\ attempt' = [attempt EXCEPT ![j] = @ + 1]
            /\ UNCHANGED working
       ELSE /\ stage' = [stage EXCEPT ![j] = "raised"]
            /\ working' = working \ {Of(j)}
            /\ UNCHANGED attempt

\* The connection is lost and made again: of what was under way a prefix arrives.
Cuts(c) ==
    /\ Happens("cut") /\ c \notin closed
    /\ \E k \in 0 .. Len(up[c]) : up' = [up EXCEPT ![c] = SubSeq(@, 1, k)]
    /\ \E k \in 0 .. Len(down[c]) : down' = [down EXCEPT ![c] = SubSeq(@, 1, k)]
    /\ UNCHANGED closed

\* send_message: the message is under way; or it was in flight when the connection
\* was lost, which reads as a success; or it was canceled, or the connection is
\* closed, and the call raises.
SendMessage(j, m, Returns) ==
    LET c == Of(j)
    IN  \/ /\ c \notin closed
           /\ up' = [up EXCEPT ![c] = Append(@, m)]
           /\ Returns
           /\ UNCHANGED <<down, closed, attempt, working, left>>
        \/ /\ Cuts(c)
           /\ Returns
           /\ UNCHANGED <<attempt, working>>
        \/ Cuts(c) /\ Raises(j)
        \/ c \in closed /\ Raises(j) /\ UNCHANGED <<network, left>>

\* A get that finds the future of another get waits for it, otherwise it sends.  A call
\* of any other kind that has not begun is one that waits for the lock.
Start(j) ==
    /\ stage[j] = "new" /\ Of(j) \in working
    /\ stage' = [stage EXCEPT ![j] = IF IdOf(j) \in gets[Of(j)] THEN "future" ELSE "queued"]
    /\ gets' = [gets EXCEPT ![Of(j)] = @ \cup {IdOf(j)}]
    /\ UNCHANGED <<server, network, attempt, result, holder, reading, working, left>>

\* The mutant of set_object never waits for the answer.
Sent_Unconfirmed(j) == IF Work[j].type # "get" THEN "done" ELSE IF IsSync(j) THEN "reply" ELSE "future"
\* The stage of a call whose request is sent.  set_object, delete_object and
\* duplicate_object_id of the asyncio connector do not wait for the answer.
Sent(j) == IF IsSync(j) THEN "reply" ELSE IF Work[j].type = "get" THEN "future" ELSE "done"

\* The synchronous connector holds its lock until it has the answer.
Released(j) == IF Sent(j) = "reply" THEN Locked(j) ELSE Unlocked(j)

SendHeader(j) ==
    /\ stage[j] = "queued" /\ holder[Of(j)] = NoJob /\ Of(j) \in working
    /\ SendMessage(j, Header(j),
          IF Carries(j)
          THEN /\ stage' = [stage EXCEPT ![j] = "payload"]
               /\ holder' = Locked(j)
          ELSE /\ stage' = [stage EXCEPT ![j] = Sent(j)]
               /\ holder' = Released(j))
    /\ UNCHANGED <<server, result, gets, reading>>

SendPayload(j) ==
    /\ stage[j] = "payload" /\ Of(j) \in working
    /\ SendMessage(j, Payload(j),
          /\ stage' = [stage EXCEPT ![j] = Sent(j)]
          /\ holder' = Released(j))
    /\ UNCHANGED <<server, result, gets, reading>>

WaitersOf(c, h) == {j \in Job : Of(j) = c /\ stage[j] = "future" /\ h.type = "get" /\ IdOf(j) = h.id}

\* A call of the synchronous connector returns; the routine of the asyncio one sets
\* the result of the future that all gets of the object wait for.
Woken(c, h) == IF c \in Sync THEN {holder[c]} ELSE WaitersOf(c, h)

Deliver(c, h, d) ==
    LET done == Woken(c, h)
    IN  /\ stage' = [j \in Job |-> IF j \in done THEN "done" ELSE stage[j]]
        /\ result' = [j \in Job |-> IF j \in done THEN d ELSE result[j]]
        /\ holder' = IF c \in Sync THEN [holder EXCEPT ![c] = NoJob] ELSE holder
        /\ gets' = IF h.type = "get" THEN [gets EXCEPT ![c] = @ \ {h.id}] ELSE gets

\* Somebody reads: the caller that holds the lock, or the connector's routine.
Reads(c) == c \in working /\ (c \in Sync => holder[c] # NoJob /\ stage[holder[c]] = "reply")

ReadHeader(c) ==
    LET m == Head(down[c])
    IN  /\ Reads(c) /\ reading[c] = NoHeader /\ down[c] # <<>>
        /\ m.data = Headers /\ (c \in Sync => m.head.type = Work[holder[c]].type)
        /\ down' = [down EXCEPT ![c] = Tail(@)]
        /\ \/ /\ m.head.len > 0
              /\ reading' = [reading EXCEPT ![c] = m.head]
              /\ UNCHANGED <<stage, result, holder, gets>>
           \/ m.head.len = 0 /\ Deliver(c, m.head, Empty) /\ UNCHANGED reading
        /\ UNCHANGED <<server, up, closed, attempt, working, left>>

\* A payload is taken when it has the length its header announced.
Fits(c, m) == reading[c] # NoHeader /\ LengthOf(m.data) = reading[c].len

ReadPayload(c) ==
    LET m == Head(down[c])
    IN  /\ Reads(c) /\ down[c] # <<>> /\ Fits(c, m)
        /\ down' = [down EXCEPT ![c] = Tail(@)]
        /\ reading' = [reading EXCEPT ![c] = NoHeader]
        /\ Deliver(c, reading[c], m.data)
        /\ UNCHANGED <<server, up, closed, attempt, working, left>>

\* An answer that is not what is expected fails an assertion or a check of its type:
\* the processor ends, the loop of the agent does.
ReadFails(c) ==
    LET m == Head(down[c])
    IN  /\ Reads(c) /\ down[c] # <<>>
        /\ IF reading[c] # NoHeader THEN ~ Fits(c, m)
           ELSE m.data # Headers \/ (c \in Sync /\ m.head.type # Work[holder[c]].type)
        /\ working' = working \ {c}
        /\ UNCHANGED <<server, network, caller, holder, gets, reading, left>>

\* The server closed the connection: the pending recv_message raises.
ReadClosed(c) ==
    /\ Reads(c) /\ down[c] = <<>> /\ c \in closed
    /\ reading' = [reading EXCEPT ![c] = NoHeader]
    /\ IF c \in Sync THEN Raises(holder[c])
       ELSE working' = working \ {c} /\ UNCHANGED <<stage, attempt, holder>>
    /\ UNCHANGED <<server, network, result, gets, left>>

Cut(c) == Cuts(c) /\ UNCHANGED <<server, caller, conn>>

\* A processor is killed; some of what it sent arrives.
Die(c) ==
    /\ c \in Sync \cap working /\ Happens("die")
    /\ working' = working \ {c}
    /\ \E k \in 0 .. Len(up[c]) : up' = [up EXCEPT ![c] = SubSeq(@, 1, k)]
    /\ UNCHANGED <<server, down, closed, caller, holder, gets, reading>>

Next ==
    \/ \E c \in Client : \/ Receive(c) \/ ReadHeader(c) \/ ReadPayload(c) \/ ReadFails(c)
                         \/ ReadClosed(c) \/ Cut(c) \/ Die(c)
    \/ \E j \in Job : Start(j) \/ SendHeader(j) \/ SendPayload(j)

Spec == Init /\ [][Next]_vars

-----------------------------------------------------------------------------
(* Properties                                                              *)

\* The state has its types, and the lock of a connector is held by a caller that is
\* in the middle of a request of that connector.
TypeOK ==
    /\ store \in [Id -> Data \cup {None, Headers, IdBytes}]
    /\ uses \in [Data \cup {Headers, IdBytes} -> Nat] /\ bytes \in Nat
    /\ \A i \in Id, k \in 1 .. Cardinality(Job) :
          k \in DOMAIN pending[i] => pending[i][k].type \in {"get", "duplicate"}
    /\ closed \subseteq Client /\ working \subseteq Client
    /\ stage \in [Job -> {"new", "queued", "payload", "reply", "future", "done", "raised"}]
    /\ attempt \in [Job -> 1 .. MaxAttempts]
    /\ \A c \in Client : holder[c] # NoJob =>
          Of(holder[c]) = c /\ stage[holder[c]] \in {"payload", "reply"}
    /\ left \in 0 .. Budget

\* A payload lives as long as an id refers to it: the use counts and the total of
\* bytes are exact through overrides, duplicates and deletions.
UsesExact ==
    /\ \A d \in DOMAIN uses : uses[d] = Cardinality({i \in Id : store[i] = d})
    /\ bytes = SumFunctionOnSet([d \in DOMAIN uses |-> LengthOf(d)], {d \in DOMAIN uses : uses[d] > 0})

\* The server's tables are exact.
CountsExact == TypeOK /\ UsesExact

\* No lost wake-up: a request waits for an object only while the object is absent,
\* whichever SET or chain of duplicates brings it.
WaitsForAbsent == \A i \in Id : pending[i] # <<>> => store[i] = None

\* The payloads that the server cannot tell from the one of the name n: a lost connection
\* may leave a header without its payload and a payload without its header, and then only
\* the length says whether they belong together.
Mistakable(n) ==
    {Content[Work[k].name] : k \in {k \in Job : \E j \in Job :
        /\ Work[j].type = "set" /\ Content[Work[j].name] = Content[n]
        /\ Work[k].type = "set" /\ Of(k) = Of(j)
        /\ Size[Content[Work[k].name]] = Size[Content[n]]}}

\* What an object may hold: what was set, and after a connection was lost also what the
\* same client sent for another object of the same size.
MayHold(n) == {Content[n]} \cup (IF left = Budget THEN {} ELSE Mistakable(n))


\* A result that set_object says is stored is stored, under the id that the
\* processor goes on to announce, unless somebody deletes it.
StoredWhenAnnounced ==
    \A j \in Job : IsSync(j) /\ Work[j].type = "set" /\ stage[j] = "done" =>
        \/ store[IdOf(j)] # None
        \/ \E k \in Job : Work[k].type = "delete" /\ Work[k].name = Work[j].name

\* While no connection is lost nobody waits in vain: when nothing is under way any
\* more, a call that is not answered is a get, or a call behind it for the lock, of an
\* object that is not there.
Working ==
    \/ \E c \in Client : Receive(c) \/ ReadHeader(c) \/ ReadPayload(c)
    \/ \E j \in Job : SendHeader(j) \/ SendPayload(j)

Absent(j) == Work[j].type = "get" /\ store[IdOf(j)] = None

NobodyWaits ==
    left = Budget /\ ~ ENABLED Working =>
        \A j \in Job : stage[j] \in {"queued", "payload", "reply", "future"} =>
            Absent(j) \/ (stage[j] = "queued" /\ IsSync(j) /\ Absent(holder[Of(j)]))

\* Nobody waits for an object that is there, at the server or at the client.
NobodyStuck == WaitsForAbsent /\ NobodyWaits

-----------------------------------------------------------------------------
(* A claim the code does not keep.                                         *)

\* A lost connection never puts the payload of one object into another.
NeverMistaken == \A i \in Id : store[i] \in {None, Content[i[1]]}
=============================================================================
