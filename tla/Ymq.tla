-------------------------------- MODULE Ymq --------------------------------
(***************************************************************************)
(* The YMQ transport: connector sockets in connect mode, one binder        *)
(* socket, the MessageConnection at each end of every TCP connection, and  *)
(* the connection itself, which may be cut at any moment.                  *)
(*                                                                         *)
(* Every socket runs its operations and callbacks on the thread of its     *)
(* event loop, one at a time, so an action is one operation or one libuv   *)
(* callback.  A message is a number of its sender; what a send call has    *)
(* been answered is kept in sends, what recvMessage has returned in got.   *)
(***************************************************************************)
EXTENDS Integers, Sequences, FiniteSets

CONSTANTS Sockets,          \* connector sockets, each its own identity
          MaxConns,         \* TCP connections that may be made (bound)
          MaxUp, MaxDown,   \* messages every socket sends, and is sent (bounds)
          MaxRetry,         \* maxRetryTimes
          TTL, MaxTime,     \* disconnectedIdentityTTL; the last tick of the clock (bound)
          Events, Budget    \* which of EventKinds happen, and how often in all

EventKinds == {"cut", "refuse", "shutdown", "close", "stop", "notconn"}
Never == -1
Conns == 1 .. MaxConns

ASSUME BoundAssumption ==
    {MaxConns, MaxUp, MaxDown, MaxRetry, TTL, MaxTime, Budget} \subseteq Nat /\ Events \subseteq EventKinds

\* The binder's end is named apart from those of the sockets.
ASSUME NameAssumption == "binder" \notin Sockets

VARIABLES
    sock,   \* ConnectorSocket::State and its MessageConnection: the phase, the
            \* connection, _sendPending without the handshake, the retries made,
            \* _pendingRecvMessages, whether a receive callback is pending
    chan,   \* chan[c]: who made it, whether it is cut, and for each end what libuv
            \* has not written yet (out) and what the other end can still read (wire)
    binder, \* BinderSocket::State: is it open, the state of every connection,
            \* _identityToConnectionID, _disconnectedIdentities, the queue of its
            \* insertions, _pendingSendMessages, and the receiving side
    sends,  \* sends[d][s][n]: the answer to the n-th message that the socket s sent up
            \* to the binder, or that the binder sent down to it
    got,    \* got[x]: what recvMessage returned to the user of a socket, or the binder's
    clock, left

vars == <<sock, chan, binder, sends, got, clock, left>>

Side == {"connector", "binder"}
Other(side) == IF side = "binder" THEN "connector" ELSE "binder"

Hello == [kind |-> "hello"]
Fin   == [kind |-> "fin"]     \* the other end closed the connection: UV_EOF
Rst   == [kind |-> "rst"]     \* the connection is lost: a connection error
Dir   == {"up", "down"}
Msg(d, s, n) == [kind |-> "msg", dir |-> d, of |-> s, n |-> n]

Happens(kind) == kind \in Events /\ left > 0 /\ left' = left - 1
Linked(s)  == sock[s].phase \in {"connected", "established"}
Held(c)    == binder.conns[c] \in {"connected", "established"}
Remote(c)  == chan[c].socket
Made       == {c \in Conns : chan[c].made}
Identified == {c \in Conns : binder.conns[c] = "established"}

Messages(q) == {q[k] : k \in {j \in DOMAIN q : q[j].kind = "msg"}}
\* The send callbacks of ms are called, once each, with this answer.
Answer(book, ms, answer) ==
    [d \in Dir |-> [s \in Sockets |->
        [n \in DOMAIN book[d][s] |->
            IF Msg(d, s, n) \in ms /\ book[d][s][n] = "waiting" THEN answer ELSE book[d][s][n]]]]

\* The state has its types, and an end that is linked has an empty _sendPending
\* (initialize() asserts it before it queues the handshake of the next connection).
TypeOK ==
    /\ \A s \in Sockets :
          /\ sock[s].phase \in {"new", "opening", "connecting", "connected", "established", "gone", "closed"}
          /\ sock[s].conn \in Conns \cup {0} /\ (sock[s].conn # 0 <=> Linked(s))
          /\ Linked(s) => sock[s].queue = <<>> /\ chan[sock[s].conn].socket = s
          /\ sock[s].tries \in 0 .. MaxRetry
    /\ \A c \in Conns : binder.conns[c] # "new" => chan[c].made
    /\ \A d \in Dir, s \in Sockets : \A n \in DOMAIN sends[d][s] :
          sends[d][s][n] \in {"waiting", "ok", "failed", "silent"}
    /\ binder.goneAt \in [Sockets -> 0 .. MaxTime \cup {Never}]
    /\ clock \in 0 .. MaxTime /\ left \in 0 .. Budget

Init ==
    /\ sock = [s \in Sockets |-> [phase |-> "new", conn |-> 0, queue |-> <<>>, tries |-> 0,
                                  inbox |-> <<>>, waits |-> FALSE]]
    /\ chan = [c \in Conns |-> [made |-> FALSE, socket |-> CHOOSE s \in Sockets : TRUE, cut |-> FALSE,
                                out |-> [e \in Side |-> <<>>], wire |-> [e \in Side |-> <<>>]]]
    /\ binder = [open |-> TRUE, conns |-> [c \in Conns |-> "new"], route |-> [i \in Sockets |-> 0],
                 goneAt |-> [i \in Sockets |-> Never], insertions |-> <<>>,
                 pending |-> [i \in Sockets |-> <<>>], inbox |-> <<>>, waits |-> FALSE]
    /\ sends = [d \in Dir |-> [s \in Sockets |-> <<>>]]
    /\ got = [x \in Sockets \cup {"binder"} |-> <<>>]
    /\ clock = 0 /\ left = Budget

-----------------------------------------------------------------------------
(* MessageConnection and the Client it holds, as functions of chan.        *)

\* processSendOperation: the operation goes to libuv.
Write(ch, c, side, q) == [ch EXCEPT ![c].out[side] = @ \o q]
\* shutdownClient: FIN follows what is still to be written; nothing is read any more.
ShutdownClient(ch, c, side) == [ch EXCEPT ![c].out[side] = Append(@, Fin)]
\* The Client is destroyed at once: what libuv has not written is canceled.
CloseClient(ch, c, side) == [ch EXCEPT ![c].out[side] = <<>>]

Canceled_Uncalled(c, side) == {}
\* Their callbacks get SocketStopRequested.
Canceled(c, side) == Messages(chan[c].out[side])

\* uv_write on a stream that is already torn down may fail at once with UV_ENOTCONN,
\* which drops the message and never calls its callback.
Unsent(c, m) == IF chan[c].cut /\ "notconn" \in Events THEN {{}, {m}} ELSE {{}}

\* sendMessage on a linked MessageConnection.
SendLinked(c, side, m) ==
    \E lost \in Unsent(c, m) :
        /\ chan' = IF lost = {} THEN Write(chan, c, side, <<m>>) ELSE chan
        /\ sends' = [sends EXCEPT ![m.dir][m.of] = Append(@, IF lost = {} THEN "waiting" ELSE "silent")]

\* The TCP connection takes the first operation: onWriteDone without an error.
Flush(c, side) ==
    LET e == Head(chan[c].out[side])
    IN  /\ chan[c].made /\ ~chan[c].cut /\ chan[c].out[side] # <<>>
        /\ chan' = [chan EXCEPT ![c].out[side] = Tail(@), ![c].wire[side] = Append(@, e)]
        /\ sends' = Answer(sends, Messages(<<e>>), "ok")
        /\ UNCHANGED <<sock, binder, got, clock, left>>

\* Does this end still hold the Client of the connection?
Holds(c, side) == IF side = "binder" THEN Held(c) ELSE sock[chan[c].socket].conn = c

\* A write that was issued fails with a connection error, which is answered like a
\* success; one that was not issued when the Client is closed is canceled and fails.
OnWriteDone(c, side) ==
    LET e == Head(chan[c].out[side])
    IN  /\ chan[c].cut /\ chan[c].out[side] # <<>>
        /\ chan' = [chan EXCEPT ![c].out[side] = Tail(@)]
        /\ \E answer \in IF Holds(c, side) THEN {"ok"} ELSE {"ok", "failed"} :
               sends' = Answer(sends, Messages(<<e>>), answer)
        /\ UNCHANGED <<sock, binder, got, clock, left>>

\* The network loses the connection: each end can read some of what was under way,
\* then meets the error.  (The last connection of the bound is never cut.)
Cut(c) ==
    /\ chan[c].made /\ ~chan[c].cut /\ Conns \ Made # {} /\ Happens("cut")
    /\ \E k \in [Side -> 0 .. MaxUp + MaxDown + 2] :
          /\ \A side \in Side : k[side] <= Len(chan[c].wire[side])
          /\ chan' = [chan EXCEPT ![c].cut = TRUE,
                                  ![c].wire = [side \in Side |-> Append(SubSeq(@[side], 1, k[side]), Rst)]]
    /\ UNCHANGED <<sock, binder, sends, got, clock>>

-----------------------------------------------------------------------------
(* ConnectorSocket.                                                        *)

Deliver_Unbuffered(end, m) == [end EXCEPT !.waits = FALSE]
\* onMessage: to the pending callback, or to the buffer.
Deliver(end, m) ==
    IF end.waits THEN [end EXCEPT !.waits = FALSE] ELSE [end EXCEPT !.inbox = Append(@, m)]
Handed(end, m) == IF end.waits THEN <<m>> ELSE <<>>

Connect(s) ==
    /\ sock[s].phase = "new"
    /\ sock' = [sock EXCEPT ![s].phase = "opening"]
    /\ UNCHANGED <<chan, binder, sends, got, clock, left>>

LinkedBy_KeepsQueue(s, c) == [sock[s] EXCEPT !.phase = "connected", !.conn = c, !.tries = 0]
\* MessageConnection::connect: processSendQueue empties _sendPending.
LinkedBy(s, c) == [sock[s] EXCEPT !.phase = "connected", !.conn = c, !.queue = <<>>, !.tries = 0]

\* onClientConnected with a client: the handshake goes first, then what was queued.
OnClientConnected(s) ==
    LET c == CHOOSE d \in Conns \ Made : \A e \in Conns \ Made : d <= e
    IN  /\ sock[s].phase \in {"opening", "connecting"} /\ binder.open /\ Conns \ Made # {}
        /\ chan' = Write([chan EXCEPT ![c].made = TRUE, ![c].socket = s], c, "connector", <<Hello>> \o sock[s].queue)
        /\ sock' = [sock EXCEPT ![s] = LinkedBy(s, c)]
        /\ UNCHANGED <<binder, sends, got, clock, left>>

\* A connector that gives up ends the pending receive callback with an error.
GivesUp_NoFill(s) == [sock[s] EXCEPT !.phase = IF @ = "opening" THEN "closed" ELSE "gone"]
\* _disconnected is set after the last retry; a socket that never connected is not
\* handed to the user.  What is queued stays queued.
GivesUp(s) == [sock[s] EXCEPT !.phase = IF @ = "opening" THEN "closed" ELSE "gone", !.waits = FALSE]

\* ConnectClient::retry.
ConnectRefused(s) ==
    /\ sock[s].phase \in {"opening", "connecting"}
    /\ IF binder.open THEN Happens("refuse") ELSE UNCHANGED left
    /\ sock' = [sock EXCEPT ![s] = IF sock[s].tries < MaxRetry THEN [sock[s] EXCEPT !.tries = @ + 1] ELSE GivesUp(s)]
    /\ UNCHANGED <<chan, binder, sends, got, clock>>

Usable(s) == sock[s].phase \in {"connecting", "connected", "established", "gone"}

SendMessage(s) ==
    LET m == Msg("up", s, Len(sends["up"][s]) + 1)
    IN  /\ Usable(s) /\ Len(sends["up"][s]) < MaxUp
        /\ \/ /\ Linked(s)
              /\ SendLinked(sock[s].conn, "connector", m)
              /\ UNCHANGED sock
           \/ /\ sock[s].phase = "connecting"
              /\ sock' = [sock EXCEPT ![s].queue = Append(@, m)]
              /\ sends' = [sends EXCEPT !["up"][s] = Append(@, "waiting")]
              /\ UNCHANGED chan
           \/ /\ sock[s].phase = "gone"
              /\ sends' = [sends EXCEPT !["up"][s] = Append(@, "failed")]
              /\ UNCHANGED <<sock, chan>>
        /\ UNCHANGED <<binder, got, clock, left>>

\* The user keeps one receive call open at a time; on a socket that is gone and has
\* nothing buffered the call fails at once.
RecvMessage(s) ==
    /\ Usable(s) /\ ~sock[s].waits
    /\ \/ /\ sock[s].inbox # <<>>
          /\ got' = [got EXCEPT ![s] = Append(@, Head(sock[s].inbox))]
          /\ sock' = [sock EXCEPT ![s].inbox = Tail(@)]
       \/ /\ sock[s].inbox = <<>> /\ sock[s].phase # "gone"
          /\ sock' = [sock EXCEPT ![s].waits = TRUE]
          /\ UNCHANGED got
    /\ UNCHANGED <<chan, binder, sends, clock, left>>

\* The destructors of the ConnectClient and of the MessageConnection, then the rest.
Shutdown(s) ==
    /\ Usable(s) /\ Happens("shutdown")
    /\ chan' = IF Linked(s) THEN ShutdownClient(chan, sock[s].conn, "connector") ELSE chan
    /\ sends' = Answer(sends, Messages(sock[s].queue), "failed")
    /\ sock' = [sock EXCEPT ![s] = [@ EXCEPT !.phase = "closed", !.conn = 0, !.queue = <<>>,
                                             !.inbox = <<>>, !.waits = FALSE]]
    /\ UNCHANGED <<binder, got, clock>>

\* After initialize() nothing is queued but the next handshake; tryConnect starts again.
Aborted_Requeues(s) ==
    [sock[s] EXCEPT !.phase = "connecting", !.conn = 0,
                    !.queue = SelectSeq(chan[sock[s].conn].out["connector"], LAMBDA e : e.kind = "msg")]
Aborted_Resends(s) ==
    [sock[s] EXCEPT !.phase = "connecting", !.conn = 0,
                    !.queue = SelectSeq([n \in DOMAIN sends["up"][s] |-> Msg("up", s, n)],
                                        LAMBDA e : sends["up"][s][e.n] = "ok")]
Aborted(s) == [sock[s] EXCEPT !.phase = "connecting", !.conn = 0]

\* onRead: the handshake, a message, or the end of the connection.
OnRead(s) ==
    LET c == sock[s].conn
        e == Head(chan[c].wire["binder"])
        read == [chan EXCEPT ![c].wire["binder"] = Tail(@)]
    IN  /\ Linked(s) /\ chan[c].wire["binder"] # <<>>
        /\ \/ /\ e = Hello
              /\ sock' = [sock EXCEPT ![s].phase = "established"]
              /\ chan' = read
              /\ UNCHANGED <<sends, got>>
           \/ /\ e.kind = "msg"
              /\ sock' = [sock EXCEPT ![s] = Deliver(@, e)]
              /\ got' = [got EXCEPT ![s] = @ \o Handed(sock[s], e)]
              /\ chan' = read
              /\ UNCHANGED sends
           \/ /\ e = Fin         \* DisconnectReason::Disconnected: for good
              /\ sock' = [sock EXCEPT ![s] = [@ EXCEPT !.phase = "gone", !.conn = 0, !.waits = FALSE]]
              /\ chan' = ShutdownClient(read, c, "connector")
              /\ UNCHANGED <<sends, got>>
           \/ /\ e = Rst         \* DisconnectReason::Aborted: connect again
              /\ sock' = [sock EXCEPT ![s] = Aborted(s)]
              /\ sends' = Answer(sends, Canceled(c, "connector"), "failed")
              /\ chan' = CloseClient(read, c, "connector")
              /\ UNCHANGED got
        /\ UNCHANGED <<binder, clock, left>>

-----------------------------------------------------------------------------
(* BinderSocket.                                                           *)

\* One listening socket hands its connections over in the order they were made, and
\* libuv polls them in the order they were accepted: what has arrived of an identity
\* is looked at before that of a connection accepted later.
FirstCome(c) ==
    \A d \in 1 .. c - 1 :
        binder.conns[d] # "new" /\ (binder.conns[d] = "connected" => chan[d].wire["connector"] = <<>>)

\* onClientConnect.
Accept(c) ==
    /\ chan[c].made /\ binder.open /\ binder.conns[c] = "new"
    /\ \A d \in 1 .. c - 1 : binder.conns[d] # "new"
    /\ binder' = [binder EXCEPT !.conns[c] = "connected"]
    /\ chan' = Write(chan, c, "binder", <<Hello>>)
    /\ UNCHANGED <<sock, sends, got, clock, left>>

\* sendMessage: queued until the identity is known, failed if it left for good.
BinderSend(i) ==
    LET m == Msg("down", i, Len(sends["down"][i]) + 1)
        Told(a) == sends' = [sends EXCEPT !["down"][i] = Append(@, a)]
    IN  /\ binder.open /\ Len(sends["down"][i]) < MaxDown
        /\ \/ /\ binder.route[i] # 0
              /\ SendLinked(binder.route[i], "binder", m)
              /\ UNCHANGED binder
           \/ /\ binder.route[i] = 0 /\ binder.goneAt[i] # Never
              /\ Told("failed")
              /\ UNCHANGED <<binder, chan>>
           \/ /\ binder.route[i] = 0 /\ binder.goneAt[i] = Never
              /\ Told("waiting")
              /\ binder' = [binder EXCEPT !.pending[i] = Append(@, m)]
              /\ UNCHANGED chan
        /\ UNCHANGED <<sock, got, clock, left>>

BinderRecv ==
    /\ binder.open /\ ~binder.waits
    /\ \/ /\ binder.inbox # <<>>
          /\ got' = [got EXCEPT !["binder"] = Append(@, Head(binder.inbox))]
          /\ binder' = [binder EXCEPT !.inbox = Tail(@)]
       \/ /\ binder.inbox = <<>>
          /\ binder' = [binder EXCEPT !.waits = TRUE]
          /\ UNCHANGED got
    /\ UNCHANGED <<sock, chan, sends, clock, left>>

\* purgeExpiredDisconnectedIdentities: the insertions are in the order of time; one
\* that is older than the entry of its identity leaves the entry alone.
Expired_OffByOne(q) == {k \in DOMAIN q : \A j \in 1 .. k : clock - q[j].at >= TTL}
Expired(q) == {k \in DOMAIN q : \A j \in 1 .. k : clock - q[j].at > TTL}
Purge(b) ==
    LET old == Expired(b.insertions)
    IN  [b EXCEPT !.insertions = SubSeq(@, Cardinality(old) + 1, Len(@)),
                  !.goneAt = [i \in Sockets |->
                                 IF \E k \in old : b.insertions[k] = [at |-> @[i], id |-> i] THEN Never ELSE @[i]]]

\* onRemoteDisconnect on the books.  An identity that left for good is remembered and
\* what was pending for it is answered; one that lost its connection is expected back.
Leaves(b, c, reason) ==
    LET i == Remote(c)
        erased == [b EXCEPT !.conns[c] = "erased", !.route[i] = 0]
    IN  IF b.conns[c] = "connected" THEN [b EXCEPT !.conns[c] = "erased"]
        ELSE IF reason = "aborted" THEN erased
        ELSE [Purge(erased) EXCEPT !.goneAt[i] = clock, !.pending[i] = <<>>,
                                   !.insertions = Append(@, [at |-> clock, id |-> i])]
\* The sends that onRemoteDisconnect answers with a failure.
Abandoned(c, reason) ==
    IF binder.conns[c] = "established" /\ reason = "disconnected" THEN Messages(binder.pending[Remote(c)]) ELSE {}

\* closeConnection: the disconnect path; the destructor shuts the client down.
CloseConnection(i) ==
    LET c == binder.route[i]
    IN  /\ binder.open /\ c # 0 /\ Happens("close")
        /\ binder' = Leaves(binder, c, "disconnected")
        /\ sends' = Answer(sends, Abandoned(c, "disconnected"), "failed")
        /\ chan' = ShutdownClient(chan, c, "binder")
        /\ UNCHANGED <<sock, got, clock>>

\* onRemoteIdentity on the books: an earlier connection of the identity is destroyed.
Identify_KeepsOld(b, c) ==
    [b EXCEPT !.conns[c] = "established", !.route[Remote(c)] = c, !.goneAt[Remote(c)] = Never, !.pending[Remote(c)] = <<>>]
Identify(b, c) ==
    LET old == b.route[Remote(c)]
    IN  [b EXCEPT !.conns = [d \in Conns |-> IF d = c THEN "established" ELSE IF d = old THEN "erased" ELSE @[d]],
                  !.route[Remote(c)] = c, !.goneAt[Remote(c)] = Never, !.pending[Remote(c)] = <<>>]

\* onRead of the connection c: the identity, a message, or the end of the connection.
BinderOnRead(c) ==
    LET e == Head(chan[c].wire["connector"])
        old == binder.route[Remote(c)]
        read == [chan EXCEPT ![c].wire["connector"] = Tail(@)]
    IN  /\ Held(c) /\ chan[c].wire["connector"] # <<>>
        /\ \/ /\ e = Hello /\ FirstCome(c)
              /\ binder' = Identify(binder, c)
              /\ chan' = Write(IF old = 0 THEN read ELSE ShutdownClient(read, old, "binder"),
                               c, "binder", binder.pending[Remote(c)])
              /\ UNCHANGED <<sends, got>>
           \/ /\ e.kind = "msg"
              /\ binder' = Deliver(binder, e)
              /\ got' = [got EXCEPT !["binder"] = @ \o Handed(binder, e)]
              /\ chan' = read
              /\ UNCHANGED sends
           \/ /\ e = Fin
              /\ binder' = Leaves(binder, c, "disconnected")
              /\ sends' = Answer(sends, Abandoned(c, "disconnected"), "failed")
              /\ chan' = ShutdownClient(read, c, "binder")
              /\ UNCHANGED got
           \/ /\ e = Rst
              /\ binder' = Leaves(binder, c, "aborted")
              /\ sends' = Answer(sends, Canceled(c, "binder"), "failed")
              /\ chan' = CloseClient(read, c, "binder")
              /\ UNCHANGED got
        /\ UNCHANGED <<sock, clock, left>>

\* shutdown(): every connection is destroyed; a connection nobody accepted is reset by
\* the operating system.
BinderShutdown ==
    /\ binder.open /\ Happens("stop")
    /\ binder' = [binder EXCEPT !.open = FALSE, !.inbox = <<>>, !.waits = FALSE,
                                !.conns = [c \in Conns |-> IF @[c] = "new" THEN "new" ELSE "erased"],
                                !.route = [i \in Sockets |-> 0], !.pending = [i \in Sockets |-> <<>>]]
    /\ sends' = Answer(sends, UNION {Messages(binder.pending[i]) : i \in Sockets}, "failed")
    /\ chan' = [c \in Conns |->
                  IF Held(c) THEN ShutdownClient(chan, c, "binder")[c]
                  ELSE IF chan[c].made /\ binder.conns[c] = "new" /\ ~chan[c].cut
                  THEN [chan[c] EXCEPT !.cut = TRUE, !.wire["binder"] = <<Rst>>]
                  ELSE chan[c]]
    /\ UNCHANGED <<sock, got, clock>>

\* An identity that is not modelled leaves: of what onRemoteDisconnect does for it, the
\* purge alone concerns the others.
StrangerLeaves ==
    /\ binder.open /\ binder.insertions # <<>> /\ binder' = Purge(binder)
    /\ UNCHANGED <<sock, chan, sends, got, clock, left>>

\* Time passes; only the age of an insertion is ever looked at.
Tick == clock < MaxTime /\ binder.insertions # <<>> /\ clock' = clock + 1 /\ UNCHANGED <<sock, chan, binder, sends, got, left>>

-----------------------------------------------------------------------------
Libuv ==
    \/ \E c \in Conns, side \in Side : Flush(c, side) \/ OnWriteDone(c, side)
    \/ \E c \in Conns : Accept(c) \/ BinderOnRead(c)
    \/ \E s \in Sockets : OnClientConnected(s) \/ OnRead(s)

User ==
    \/ \E s \in Sockets : Connect(s) \/ SendMessage(s) \/ RecvMessage(s) \/ Shutdown(s)
    \/ \E i \in Sockets : BinderSend(i) \/ CloseConnection(i)
    \/ BinderRecv \/ BinderShutdown

Network ==
    \/ \E c \in Conns : Cut(c)
    \/ \E s \in Sockets : ConnectRefused(s)
    \/ StrangerLeaves \/ Tick

Next == Libuv \/ User \/ Network

Spec == Init /\ [][Next]_vars

\* The event loops keep running and a connection attempt ends; nobody has to call.
\* Which callback runs first is left open: each uses up an event.
FairSpec == Spec /\ WF_vars(Libuv \/ \E s \in Sockets : ConnectRefused(s))

-----------------------------------------------------------------------------
(* Properties.                                                             *)

Received(x) == got[x] \o (IF x = "binder" THEN binder.inbox ELSE sock[x].inbox)

\* At every end the messages of one sender arrive in the order they were sent and none
\* arrives twice, whatever connections they came over: a connection that is replaced
\* is not read any more (onRemoteIdentity destroys it).
InOrder ==
    \A x \in Sockets \cup {"binder"} : LET r == Received(x) IN
        \A j, k \in DOMAIN r : j < k /\ r[j].of = r[k].of => r[j].n < r[k].n

\* A send whose callback got an error was not delivered and will not be, so its
\* caller may send the message again.
FailedNotDelivered ==
    \A d \in Dir, s \in Sockets : \A n \in DOMAIN sends[d][s] : sends[d][s][n] = "failed" =>
        /\ \A y \in Sockets \cup {"binder"} : Msg(d, s, n) \notin Messages(Received(y))
        /\ \A c \in Conns : \A side \in Side : Msg(d, s, n) \notin Messages(chan[c].wire[side])

\* What is received is what was sent: in order, at most once, and nothing that failed.
DeliverySound == InOrder /\ FailedNotDelivered

\* BinderSocket's tables agree: an identified connection is the one its identity is
\* routed to, an identity is remembered as gone only while it has no connection, and
\* messages are pending only for one that may still come.
TablesAgree ==
    /\ \A c \in Identified : binder.route[Remote(c)] = c
    /\ \A i \in Sockets :
          /\ binder.route[i] # 0 => binder.route[i] \in Identified /\ Remote(binder.route[i]) = i
          /\ binder.goneAt[i] # Never =>
                /\ binder.route[i] = 0 /\ binder.pending[i] = <<>>
                /\ [at |-> binder.goneAt[i], id |-> i] \in {binder.insertions[k] : k \in DOMAIN binder.insertions}
          /\ binder.pending[i] # <<>> => binder.route[i] = 0

\* No receive callback waits beside a message, or on a socket that will never get one.
NoReceiverStranded ==
    /\ binder.waits => binder.open /\ binder.inbox = <<>>
    /\ \A s \in Sockets : sock[s].waits => sock[s].inbox = <<>> /\ sock[s].phase \notin {"gone", "closed"}

\* The books of both ends agree: connections, identities, queues and receivers.
BooksAgree == TypeOK /\ TablesAgree /\ NoReceiverStranded

\* An identity that left is forgotten only when it comes back or its entry is older
\* than the TTL, so a late reply to it fails instead of waiting for ever.
ForgottenOnlyWhenOld ==
    [][\A i \in Sockets : binder.goneAt[i] # Never /\ binder'.goneAt[i] = Never =>
          binder'.route[i] # 0 \/ clock - binder.goneAt[i] > TTL]_vars

Answered(s, n) == IF n \in DOMAIN sends["up"][s] THEN sends["up"][s][n] ELSE "none"

\* Every send of a connector is answered, however often its connection is cut, unless
\* the connector gave up.
SendsAnswered ==
    \A s \in Sockets : \A n \in 1 .. MaxUp :
        Answered(s, n) \in {"waiting", "silent"} ~> Answered(s, n) \in {"ok", "failed"} \/ sock[s].phase = "gone"

\* A message that was written arrives, unless something is cut or closed.
WrittenArrives ==
    \A s \in Sockets : \A n \in 1 .. MaxUp :
        Answered(s, n) = "ok" ~> Msg("up", s, n) \in Messages(Received("binder")) \/ left < Budget

\* Sends get through: each is answered, and one answered as written arrives.
SendsGetThrough == SendsAnswered /\ WrittenArrives

\* A write that was in flight when its connection dropped is failed, not answered like
\* one that was sent.
InFlightFails ==
    [][\A d \in Dir, s \in Sockets : \A n \in DOMAIN sends[d][s] :
          sends[d][s][n] = "waiting" /\ sends'[d][s][n] = "ok" =>
              \E c \in Conns, side \in Side : Msg(d, s, n) \in Messages(chan'[c].wire[side])]_vars
=============================================================================
