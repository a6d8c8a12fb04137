------------------------------ MODULE YmqProofs ------------------------------
(***************************************************************************)
(* What YMQ promises, for any number of sockets, connections, messages and *)
(* faults: which connection each end takes for the present one, what the   *)
(* binder remembers of an identity and for how long, that no receiver      *)
(* waits beside a message, and that what is received is what was sent, in  *)
(* its order and once, and nothing whose send has failed.                  *)
(*                                                                         *)
(* BooksInv is inductive.  TablesAgree alone is not: that an identity has  *)
(* one connection at most at the binder follows from what the sockets have *)
(* given up (Connections), and that the binder drops a lost connection     *)
(* needs that only a cut one carries an error (Resets).  LaneInv is        *)
(* inductive beside it: where every message of a sender is, and in which   *)
(* order (Lane), and which connections the binder still reads (Front).     *)
(***************************************************************************)
EXTENDS Ymq, TLAPS, SequenceTheorems, FiniteSetTheorems

-----------------------------------------------------------------------------
(* Types.                                                                  *)

Answers  == {"waiting", "ok", "failed", "silent"}
Phases   == {"new", "opening", "connecting", "connected", "established", "gone", "closed"}
Stages   == {"new", "connected", "established", "erased"}
Numbered == [kind : {"msg"}, dir : Dir, of : Sockets, n : Nat]
Item     == Numbered \cup {Hello, Fin, Rst}
NoSocket == CHOOSE s \in Sockets : TRUE
Ends     == Sockets \cup {"binder"}
Entry    == [at : Nat, id : Sockets]

SockType   == [phase : Phases, conn : Conns \cup {0}, queue : Seq(Numbered), tries : 0 .. MaxRetry,
               inbox : Seq(Numbered), waits : BOOLEAN]
ChanType   == [made : BOOLEAN, socket : Sockets \cup {NoSocket}, cut : BOOLEAN,
               out : [Side -> Seq(Item)], wire : [Side -> Seq(Item)]]
BinderType == [open : BOOLEAN, conns : [Conns -> Stages], route : [Sockets -> Conns \cup {0}],
               goneAt : [Sockets -> 0 .. MaxTime \cup {Never}], insertions : Seq(Entry),
               pending : [Sockets -> Seq(Numbered)], inbox : Seq(Numbered), waits : BOOLEAN]
SendsType  == [Dir -> [Sockets -> Seq(Answers)]]

Types ==
    /\ sock \in [Sockets -> SockType]
    /\ chan \in [Conns -> ChanType]
    /\ binder \in BinderType
    /\ sends \in SendsType
    /\ got \in [Ends -> Seq(Numbered)]
    /\ clock \in 0 .. MaxTime /\ left \in 0 .. Budget

-----------------------------------------------------------------------------
(* The tables.                                                             *)

\* A connection that was made is of a socket; the present one is the latest, and a
\* socket that may still connect or send has given up every other one.
Present(s) == sock[s].phase \in {"new", "opening", "connecting", "connected", "established"}
Connections ==
    /\ \A c \in Made : Remote(c) \in Sockets /\ \A d \in 1 .. c : d \in Made
    /\ \A c \in Conns \ Made : binder.conns[c] = "new"
    /\ \A s \in Sockets :
          /\ sock[s].conn # 0 <=> Linked(s)
          /\ Linked(s) => sock[s].queue = <<>> /\ sock[s].conn \in Made /\ Remote(sock[s].conn) = s
          /\ Present(s) => \A c \in Made : Remote(c) = s /\ c # sock[s].conn => chan[c].cut
    /\ \A c, d \in Made : c < d /\ Remote(c) = Remote(d) => chan[c].cut
    /\ ~binder.open => \A c \in Conns : ~Held(c)

Elems(q) == {q[k] : k \in DOMAIN q}
\* Nobody writes a connection error: an end meets one only when the connection is cut.
NoneWritten == \A c \in Conns, side \in Side : Rst \notin Elems(chan[c].out[side])
OnlyWhenCut == \A c \in Conns, side \in Side : Rst \in Elems(chan[c].wire[side]) => chan[c].cut
Resets == NoneWritten /\ OnlyWhenCut

BooksInv == Types /\ Resets /\ Connections /\ TablesAgree /\ NoReceiverStranded


-----------------------------------------------------------------------------
(* What the operators on connections and answers do.                       *)

Chans == [Conns -> ChanType]

\* The connections are the same ones; only what they carry has changed.
SameConns(old, new) ==
    \A d \in Conns : new[d].made = old[d].made /\ new[d].socket = old[d].socket /\ new[d].cut = old[d].cut
\* At this end of c the operations q are left to libuv, elsewhere what was.
OutIs(old, new, c, side, q) ==
    \A d \in Conns, e \in Side : new[d].out[e] = IF d = c /\ e = side THEN q ELSE old[d].out[e]
WireIs(old, new, c, side, q) ==
    \A d \in Conns, e \in Side : new[d].wire[e] = IF d = c /\ e = side THEN q ELSE old[d].wire[e]
SameOut(old, new)  == \A d \in Conns, e \in Side : new[d].out[e] = old[d].out[e]
SameWire(old, new) == \A d \in Conns, e \in Side : new[d].wire[e] = old[d].wire[e]

(* An end of a connection gets another list of operations for libuv.       *)
LEMMA OutEffect ==
    ASSUME NEW ch \in Chans, NEW c \in Conns, NEW side \in Side, NEW q \in Seq(Item)
    PROVE  LET new == [ch EXCEPT ![c].out[side] = q]
           IN  new \in Chans /\ SameConns(ch, new) /\ SameWire(ch, new) /\ OutIs(ch, new, c, side, q)
  BY DEF Chans, ChanType, SameConns, SameWire, OutIs, Side

(* Another list of what an end of a connection can read.                   *)
LEMMA WireEffect ==
    ASSUME NEW ch \in Chans, NEW c \in Conns, NEW side \in Side, NEW q \in Seq(Item)
    PROVE  LET new == [ch EXCEPT ![c].wire[side] = q]
           IN  new \in Chans /\ SameConns(ch, new) /\ SameOut(ch, new) /\ WireIs(ch, new, c, side, q)
  BY DEF Chans, ChanType, SameConns, SameOut, WireIs, Side

(* processSendOperation.                                                   *)
LEMMA WriteEffect ==
    ASSUME NEW ch \in Chans, NEW c \in Conns, NEW side \in Side, NEW q \in Seq(Item)
    PROVE  LET new == Write(ch, c, side, q)
           IN  new \in Chans /\ SameConns(ch, new) /\ SameWire(ch, new)
               /\ OutIs(ch, new, c, side, ch[c].out[side] \o q)
  <1> DEFINE p == ch[c].out[side] \o q
  <1>1. p \in Seq(Item)
    BY DEF Chans, ChanType
  <1>2. Write(ch, c, side, q) = [ch EXCEPT ![c].out[side] = p]
    BY DEF Write, Chans, ChanType
  <1>3. p = ch[c].out[side] \o q
    OBVIOUS
  <1> HIDE DEF p
  <1>4. LET new == [ch EXCEPT ![c].out[side] = p]
        IN  new \in Chans /\ SameConns(ch, new) /\ SameWire(ch, new) /\ OutIs(ch, new, c, side, p)
    BY <1>1, OutEffect
  <1> QED  BY <1>2, <1>3, <1>4

(* shutdownClient.                                                         *)
LEMMA ShutdownEffect ==
    ASSUME NEW ch \in Chans, NEW c \in Conns, NEW side \in Side
    PROVE  LET new == ShutdownClient(ch, c, side)
           IN  new \in Chans /\ SameConns(ch, new) /\ SameWire(ch, new)
               /\ OutIs(ch, new, c, side, Append(ch[c].out[side], Fin))
  <1> DEFINE p == Append(ch[c].out[side], Fin)
  <1>1. p \in Seq(Item)
    BY DEF Chans, ChanType, Item
  <1>2. ShutdownClient(ch, c, side) = [ch EXCEPT ![c].out[side] = p]
    BY DEF ShutdownClient, Chans, ChanType
  <1>3. p = Append(ch[c].out[side], Fin)
    OBVIOUS
  <1> HIDE DEF p
  <1>4. LET new == [ch EXCEPT ![c].out[side] = p]
        IN  new \in Chans /\ SameConns(ch, new) /\ SameWire(ch, new) /\ OutIs(ch, new, c, side, p)
    BY <1>1, OutEffect
  <1> QED  BY <1>2, <1>3, <1>4

(* The Client is destroyed.                                                *)
LEMMA CloseEffect ==
    ASSUME NEW ch \in Chans, NEW c \in Conns, NEW side \in Side
    PROVE  LET new == CloseClient(ch, c, side)
           IN  new \in Chans /\ SameConns(ch, new) /\ SameWire(ch, new) /\ OutIs(ch, new, c, side, <<>>)
  <1>1. <<>> \in Seq(Item)
    OBVIOUS
  <1> QED  BY <1>1, OutEffect DEF CloseClient

(* onRead takes the first item off the wire.                               *)
LEMMA ReadEffect ==
    ASSUME NEW ch \in Chans, NEW c \in Conns, NEW side \in Side, ch[c].wire[side] # <<>>
    PROVE  LET new == [ch EXCEPT ![c].wire[side] = Tail(@)]
           IN  new \in Chans /\ SameConns(ch, new) /\ SameOut(ch, new)
               /\ WireIs(ch, new, c, side, Tail(ch[c].wire[side]))
  <1>1. ch[c].wire[side] \in Seq(Item)
    BY DEF Chans, ChanType
  <1>2. Tail(ch[c].wire[side]) \in Seq(Item)
    BY <1>1
  <1>3. [ch EXCEPT ![c].wire[side] = Tail(@)] = [ch EXCEPT ![c].wire[side] = Tail(ch[c].wire[side])]
    BY DEF Chans, ChanType
  <1> QED  BY <1>2, <1>3, WireEffect

(* Answers keep the number of sends, and change some that were waiting.    *)
LEMMA AnswerEffect ==
    ASSUME NEW book \in SendsType, NEW ms, NEW answer \in Answers
    PROVE  LET new == Answer(book, ms, answer)
           IN  /\ new \in SendsType
               /\ \A d \in Dir, s \in Sockets :
                    /\ Len(new[d][s]) = Len(book[d][s])
                    /\ \A n \in 1 .. Len(book[d][s]) :
                          new[d][s][n] = IF Msg(d, s, n) \in ms /\ book[d][s][n] = "waiting"
                                         THEN answer ELSE book[d][s][n]
  <1> DEFINE new == Answer(book, ms, answer)
             one(d, s) == [n \in DOMAIN book[d][s] |->
                             IF Msg(d, s, n) \in ms /\ book[d][s][n] = "waiting" THEN answer ELSE book[d][s][n]]
  <1>1. ASSUME NEW d \in Dir, NEW s \in Sockets
        PROVE  /\ one(d, s) \in Seq(Answers) /\ Len(one(d, s)) = Len(book[d][s])
               /\ \A n \in 1 .. Len(book[d][s]) :
                    one(d, s)[n] = IF Msg(d, s, n) \in ms /\ book[d][s][n] = "waiting"
                                   THEN answer ELSE book[d][s][n]
    <2>1. book[d][s] \in Seq(Answers)
      BY DEF SendsType
    <2>2. Len(book[d][s]) \in Nat /\ DOMAIN book[d][s] = 1 .. Len(book[d][s])
          /\ \A n \in 1 .. Len(book[d][s]) : book[d][s][n] \in Answers
      BY <2>1, LenProperties, ElementOfSeq
    <2>3. one(d, s) \in [1 .. Len(book[d][s]) -> Answers]
      BY <2>2
    <2>4. one(d, s) \in Seq(Answers)
      BY <2>2, <2>3, SeqDef
    <2>5. DOMAIN one(d, s) = 1 .. Len(one(d, s)) /\ Len(one(d, s)) \in Nat
      BY <2>4, LenProperties
    <2>6. DOMAIN one(d, s) = 1 .. Len(book[d][s])
      BY <2>2
    <2>7. Len(one(d, s)) = Len(book[d][s])
      BY <2>2, <2>5, <2>6
    <2> QED  BY <2>2, <2>4, <2>7
  <1>2. new = [d \in Dir |-> [s \in Sockets |-> one(d, s)]]
    BY DEF Answer
  <1> HIDE DEF one, new
  <1>3. new \in SendsType
    BY <1>1, <1>2 DEF SendsType
  <1>4. \A d \in Dir, s \in Sockets : new[d][s] = one(d, s)
    BY <1>2
  <1>5. /\ new \in SendsType
        /\ \A d \in Dir, s \in Sockets :
              /\ Len(new[d][s]) = Len(book[d][s])
              /\ \A n \in 1 .. Len(book[d][s]) :
                    new[d][s][n] = IF Msg(d, s, n) \in ms /\ book[d][s][n] = "waiting"
                                   THEN answer ELSE book[d][s][n]
    BY <1>1, <1>3, <1>4
  <1> QED  BY <1>5 DEF new

(* A send is entered in the book.                                          *)
LEMMA TellEffect ==
    ASSUME NEW d \in Dir, NEW s \in Sockets, NEW answer \in Answers, sends \in SendsType
    PROVE  LET new == [sends EXCEPT ![d][s] = Append(@, answer)]
           IN  /\ new \in SendsType
               /\ \A e \in Dir, t \in Sockets : new[e][t] = IF e = d /\ t = s THEN Append(sends[d][s], answer) ELSE sends[e][t]
  <1>1. Append(sends[d][s], answer) \in Seq(Answers)
    BY DEF SendsType
  <1>2. [sends EXCEPT ![d][s] = Append(@, answer)] = [sends EXCEPT ![d][s] = Append(sends[d][s], answer)]
    BY DEF SendsType
  <1> QED  BY <1>1, <1>2 DEF SendsType

-----------------------------------------------------------------------------
(* What the operators on the binder's tables do.                           *)

(* A set of numbers that is not empty has a least member.                  *)
LEMMA LeastNumber ==
    ASSUME NEW T \in SUBSET Nat, T # {}
    PROVE  \E n \in T : \A m \in T : n <= m
  <1>1. \E x \in T : \A y \in T : ~ (<<y, x>> \in OpToRel(<, Nat))
    BY NatLessThanWellFounded, WFMin
  <1>2. PICK x \in T : \A y \in T : ~ (<<y, x>> \in OpToRel(<, Nat))
    BY <1>1
  <1>3. \A y \in T : ~ (y < x)
    BY <1>2 DEF OpToRel
  <1> QED  BY <1>3

(* The expired insertions are the first ones.                              *)
LEMMA ExpiredIsPrefix ==
    ASSUME NEW q \in Seq(Entry)
    PROVE  \E m \in 0 .. Len(q) : Expired(q) = 1 .. m /\ Cardinality(Expired(q)) = m
  <1> DEFINE old == Expired(q)
  <1>1. PICK top \in Nat : top = Len(q) /\ DOMAIN q = 1 .. top
    BY LenProperties
  <1>2. old \subseteq 1 .. top /\ \A k \in old : \A j \in 1 .. k : j \in old
    BY <1>1 DEF Expired
  <1> HIDE DEF old
  <1>3. \E m \in 0 .. top : old = 1 .. m
    <2>1. CASE old = 1 .. top
      <3>1. top \in 0 .. top
        OBVIOUS
      <3> QED  BY <2>1, <3>1
    <2>2. CASE old # 1 .. top
      <3> DEFINE T == (1 .. top) \ old
      <3>1. T \in SUBSET Nat
        OBVIOUS
      <3>2. T # {}
        BY <1>2, <2>2
      <3>3. PICK n \in T : \A m \in T : n <= m
        BY <3>1, <3>2, LeastNumber
      <3>4. n \in 1 .. top /\ n \notin old
        BY <3>3
      <3>5. ASSUME NEW k \in old PROVE k \in 1 .. (n - 1)
        <4>1. k \in 1 .. top
          BY <1>2
        <4>2. ~ (n \in 1 .. k)
          BY <1>2, <3>4
        <4> QED  BY <3>4, <4>1, <4>2
      <3>6. ASSUME NEW k \in 1 .. (n - 1) PROVE k \in old
        <4>1. k \in 1 .. top /\ ~ (n <= k)
          BY <3>4
        <4> QED  BY <3>3, <4>1
      <3>7. old = 1 .. (n - 1)
        BY <3>5, <3>6
      <3>8. n - 1 \in 0 .. top
        BY <3>4
      <3> QED  BY <3>7, <3>8
    <2> QED  BY <2>1, <2>2
  <1>4. PICK m \in 0 .. Len(q) : old = 1 .. m
    BY <1>1, <1>3
  <1>5. Cardinality(1 .. m) = m
    BY <1>1, <1>4, FS_Interval
  <1> QED  BY <1>4, <1>5 DEF old

\* The remembered departure of i is in the list of insertions.
Listed(b, i) == [at |-> b.goneAt[i], id |-> i] \in {b.insertions[k] : k \in DOMAIN b.insertions}
SameBut(b, new) ==
    /\ new.open = b.open /\ new.inbox = b.inbox /\ new.waits = b.waits

(* purgeExpiredDisconnectedIdentities forgets old departures only, and a   *)
(* departure that it does not forget stays in the list.                    *)
LEMMA PurgeEffect ==
    ASSUME NEW b \in BinderType, clock \in 0 .. MaxTime
    PROVE  LET new == Purge(b)
           IN  /\ new \in BinderType /\ SameBut(b, new)
               /\ new.conns = b.conns /\ new.route = b.route /\ new.pending = b.pending
               /\ \A i \in Sockets :
                    /\ new.goneAt[i] # Never => new.goneAt[i] = b.goneAt[i]
                    /\ b.goneAt[i] # Never /\ new.goneAt[i] = Never => clock - b.goneAt[i] > TTL
                    /\ new.goneAt[i] # Never /\ Listed(b, i) => Listed(new, i)
  <1> DEFINE q == b.insertions
             old == Expired(q)
             rest == SubSeq(q, Cardinality(old) + 1, Len(q))
             gone == [i \in Sockets |-> IF \E k \in old : q[k] = [at |-> b.goneAt[i], id |-> i]
                                        THEN Never ELSE b.goneAt[i]]
  <1>1. q \in Seq(Entry)
    BY DEF BinderType
  <1>2. Len(q) \in Nat /\ DOMAIN q = 1 .. Len(q) /\ \A k \in 1 .. Len(q) : q[k] \in Entry
    BY <1>1, LenProperties, ElementOfSeq
  <1>3. PICK m \in 0 .. Len(q) : old = 1 .. m /\ Cardinality(old) = m
    BY <1>1, ExpiredIsPrefix
  <1>4. rest \in Seq(Entry) /\ Len(rest) = Len(q) - m /\ \A k \in 1 .. Len(q) - m : rest[k] = q[m + k]
    <2>1. m + 1 \in Int /\ Len(q) \in Int /\ \A k \in m + 1 .. Len(q) : q[k] \in Entry
      BY <1>2
    <2>2. /\ SubSeq(q, m + 1, Len(q)) \in Seq(Entry)
          /\ Len(SubSeq(q, m + 1, Len(q))) = IF m + 1 <= Len(q) THEN Len(q) - (m + 1) + 1 ELSE 0
          /\ \A k \in 1 .. Len(q) - (m + 1) + 1 : SubSeq(q, m + 1, Len(q))[k] = q[m + 1 + k - 1]
      BY <2>1, SubSeqProperties
    <2>3. rest = SubSeq(q, m + 1, Len(q))
      BY <1>3
    <2>4. (IF m + 1 <= Len(q) THEN Len(q) - (m + 1) + 1 ELSE 0) = Len(q) - m
          /\ \A k \in 1 .. Len(q) - m : m + 1 + k - 1 = m + k /\ k \in 1 .. Len(q) - (m + 1) + 1
      BY <1>2
    <2> HIDE DEF rest, q
    <2> QED  BY <2>2, <2>3, <2>4
  <1>5. Purge(b) = [b EXCEPT !.insertions = rest, !.goneAt = gone]
    BY DEF Purge, BinderType
  <1>6. gone \in [Sockets -> 0 .. MaxTime \cup {Never}]
    BY DEF BinderType
  <1>7. ASSUME NEW i \in Sockets
        PROVE  /\ gone[i] # Never => gone[i] = b.goneAt[i]
               /\ b.goneAt[i] # Never /\ gone[i] = Never => clock - b.goneAt[i] > TTL
               /\ gone[i] # Never /\ Listed(b, i) =>
                    \E k \in DOMAIN rest : rest[k] = [at |-> gone[i], id |-> i]
    <2>1. gone[i] # Never => gone[i] = b.goneAt[i]
      OBVIOUS
    <2>2. ASSUME b.goneAt[i] # Never, gone[i] = Never PROVE clock - b.goneAt[i] > TTL
      <3>1. PICK k \in old : q[k] = [at |-> b.goneAt[i], id |-> i]
        BY <2>2
      <3>2. clock - q[k].at > TTL
        BY <1>2, <1>3, <3>1 DEF Expired
      <3> QED  BY <3>1, <3>2
    <2>3. ASSUME gone[i] # Never, Listed(b, i)
          PROVE  \E k \in DOMAIN rest : rest[k] = [at |-> gone[i], id |-> i]
      <3>1. PICK k \in DOMAIN q : q[k] = [at |-> b.goneAt[i], id |-> i]
        BY <2>3 DEF Listed
      <3>2. k \notin old
        BY <2>3, <3>1
      <3>3. k - m \in 1 .. Len(q) - m /\ m + (k - m) = k
        <4>1. k \in 1 .. Len(q) /\ ~ (k \in 1 .. m)
          BY <1>2, <1>3, <3>1, <3>2
        <4> HIDE DEF q, old
        <4> QED  BY <1>2, <4>1
      <3>5. rest[k - m] = q[k]
        BY <1>4, <3>3
      <3>4. DOMAIN rest = 1 .. Len(q) - m
        BY <1>4, LenProperties
      <3> QED  BY <2>1, <2>3, <3>1, <3>3, <3>5, <3>4
    <2> QED  BY <2>1, <2>2, <2>3
  <1> DEFINE new == Purge(b)
  <1> HIDE DEF rest, gone
  <1>8. new \in BinderType /\ SameBut(b, new) /\ new.conns = b.conns /\ new.route = b.route /\ new.pending = b.pending
        /\ new.goneAt = gone /\ new.insertions = rest
    BY <1>4, <1>5, <1>6 DEF BinderType, SameBut
  <1> HIDE DEF new, q, old
  <1>9. \A i \in Sockets :
          /\ new.goneAt[i] # Never => new.goneAt[i] = b.goneAt[i]
          /\ b.goneAt[i] # Never /\ new.goneAt[i] = Never => clock - b.goneAt[i] > TTL
          /\ new.goneAt[i] # Never /\ Listed(b, i) => Listed(new, i)
    BY <1>7, <1>8 DEF Listed
  <1> QED  BY <1>8, <1>9 DEF new

(* onRemoteDisconnect.                                                     *)
LEMMA LeavesEffect ==
    ASSUME NEW b \in BinderType, NEW c \in Conns, NEW i \in Sockets, i = Remote(c), clock \in 0 .. MaxTime,
           NEW reason \in {"aborted", "disconnected"}, b.conns[c] \in {"connected", "established"}
    PROVE  LET new == Leaves(b, c, reason)
           IN  /\ new \in BinderType /\ SameBut(b, new) /\ new.conns = [b.conns EXCEPT ![c] = "erased"]
               /\ new.route = IF b.conns[c] = "connected" THEN b.route ELSE [b.route EXCEPT ![i] = 0]
               /\ b.conns[c] = "connected" \/ reason = "aborted" =>
                     new.pending = b.pending /\ new.goneAt = b.goneAt /\ new.insertions = b.insertions
               /\ b.conns[c] = "established" /\ reason = "disconnected" =>
                     /\ new.pending = [b.pending EXCEPT ![i] = <<>>]
                     /\ new.goneAt[i] # Never /\ Listed(new, i)
                     /\ \A j \in Sockets \ {i} :
                          /\ new.goneAt[j] # Never => new.goneAt[j] = b.goneAt[j]
                          /\ b.goneAt[j] # Never /\ new.goneAt[j] = Never => clock - b.goneAt[j] > TTL
                          /\ new.goneAt[j] # Never /\ Listed(b, j) => Listed(new, j)
  <1> DEFINE new == Leaves(b, c, reason)
             erased == [b EXCEPT !.conns[c] = "erased", !.route[i] = 0]
             p == Purge(erased)
  <1>1. CASE b.conns[c] = "connected"
    <2>1. new = [b EXCEPT !.conns = [b.conns EXCEPT ![c] = "erased"]]
      BY <1>1 DEF Leaves, BinderType
    <2> HIDE DEF new
    <2>2. /\ new \in BinderType /\ SameBut(b, new) /\ new.conns = [b.conns EXCEPT ![c] = "erased"]
          /\ new.route = b.route /\ new.pending = b.pending /\ new.goneAt = b.goneAt /\ new.insertions = b.insertions
      BY <2>1 DEF BinderType, SameBut, Stages
    <2> QED  BY <1>1, <2>2 DEF new
  <1>2. CASE b.conns[c] # "connected" /\ reason = "aborted"
    <2>1. new = [b EXCEPT !.conns = [b.conns EXCEPT ![c] = "erased"], !.route = [b.route EXCEPT ![i] = 0]]
      BY <1>2 DEF Leaves, BinderType
    <2> HIDE DEF new
    <2>2. /\ new \in BinderType /\ SameBut(b, new) /\ new.conns = [b.conns EXCEPT ![c] = "erased"]
          /\ new.route = [b.route EXCEPT ![i] = 0]
          /\ new.pending = b.pending /\ new.goneAt = b.goneAt /\ new.insertions = b.insertions
      BY <2>1 DEF BinderType, SameBut, Stages
    <2> QED  BY <1>2, <2>2 DEF new
  <1>3. CASE b.conns[c] # "connected" /\ reason = "disconnected"
    <2>1. /\ erased \in BinderType /\ SameBut(b, erased) /\ erased.conns = [b.conns EXCEPT ![c] = "erased"]
          /\ erased.route = [b.route EXCEPT ![i] = 0] /\ erased.pending = b.pending
          /\ erased.goneAt = b.goneAt /\ erased.insertions = b.insertions
      BY DEF BinderType, SameBut, Stages
    <2> HIDE DEF erased
    <2>2. /\ p \in BinderType /\ SameBut(erased, p)
          /\ p.conns = erased.conns /\ p.route = erased.route /\ p.pending = erased.pending
          /\ \A j \in Sockets :
               /\ p.goneAt[j] # Never => p.goneAt[j] = erased.goneAt[j]
               /\ erased.goneAt[j] # Never /\ p.goneAt[j] = Never => clock - erased.goneAt[j] > TTL
               /\ p.goneAt[j] # Never /\ Listed(erased, j) => Listed(p, j)
      BY <2>1, PurgeEffect
    <2> HIDE DEF p
    <2> DEFINE entry == [at |-> clock, id |-> i]
               ins == Append(p.insertions, entry)
    <2>3. new = [p EXCEPT !.goneAt[i] = clock, !.pending[i] = <<>>, !.insertions = ins]
      BY <1>3, <2>2 DEF Leaves, p, erased, BinderType
    <2>4. entry \in Entry
      BY BoundAssumption DEF Entry
    <2>5. p.insertions \in Seq(Entry)
      BY <2>2 DEF BinderType
    <2> HIDE DEF entry
    <2>6. ins \in Seq(Entry) /\ DOMAIN ins = 1 .. Len(p.insertions) + 1 /\ ins[Len(p.insertions) + 1] = entry
          /\ Len(p.insertions) \in Nat /\ DOMAIN p.insertions = 1 .. Len(p.insertions)
          /\ \A k \in DOMAIN p.insertions : k \in DOMAIN ins /\ ins[k] = p.insertions[k]
      BY <2>4, <2>5
    <2> HIDE DEF new, ins
    <2>7. /\ new \in BinderType /\ SameBut(p, new) /\ new.conns = p.conns /\ new.route = p.route
          /\ new.pending = [p.pending EXCEPT ![i] = <<>>] /\ new.insertions = ins
          /\ new.goneAt = [p.goneAt EXCEPT ![i] = clock]
      <3>1. [p.pending EXCEPT ![i] = <<>>] \in [Sockets -> Seq(Numbered)]
            /\ [p.goneAt EXCEPT ![i] = clock] \in [Sockets -> 0 .. MaxTime \cup {Never}]
        BY <2>2 DEF BinderType
      <3>2. new = [p EXCEPT !.goneAt = [p.goneAt EXCEPT ![i] = clock], !.pending = [p.pending EXCEPT ![i] = <<>>],
                            !.insertions = ins]
        BY <2>2, <2>3 DEF BinderType
      <3> DEFINE pend == [p.pending EXCEPT ![i] = <<>>]
                 gone == [p.goneAt EXCEPT ![i] = clock]
      <3>3. new = [p EXCEPT !.goneAt = gone, !.pending = pend, !.insertions = ins]
            /\ pend \in [Sockets -> Seq(Numbered)] /\ gone \in [Sockets -> 0 .. MaxTime \cup {Never}]
        BY <3>1, <3>2
      <3> HIDE DEF pend, gone
      <3>4. /\ new \in BinderType /\ SameBut(p, new) /\ new.conns = p.conns /\ new.route = p.route
            /\ new.pending = pend /\ new.insertions = ins /\ new.goneAt = gone
        BY <2>2, <2>6, <3>3 DEF BinderType, SameBut
      <3> QED  BY <3>4 DEF pend, gone
    <2>8. new.goneAt[i] = clock /\ clock # Never /\ \A j \in Sockets \ {i} : new.goneAt[j] = p.goneAt[j]
      BY <2>2, <2>7, BoundAssumption DEF BinderType, Never
    <2>9. Listed(new, i)
      BY <2>6, <2>7, <2>8 DEF Listed, entry
    <2>10. \A j \in Sockets \ {i} : Listed(p, j) => Listed(new, j)
      BY <2>6, <2>7, <2>8 DEF Listed
    <2>11. \A j \in Sockets : Listed(b, j) => Listed(erased, j)
      BY <2>1 DEF Listed
    <2>12. b.conns[c] = "established"
      BY <1>3
    <2>13. SameBut(b, new) /\ new.conns = [b.conns EXCEPT ![c] = "erased"] /\ new.route = [b.route EXCEPT ![i] = 0]
           /\ new.pending = [b.pending EXCEPT ![i] = <<>>]
      BY <2>1, <2>2, <2>7 DEF SameBut
    <2>14. \A j \in Sockets \ {i} :
              /\ new.goneAt[j] # Never => new.goneAt[j] = b.goneAt[j]
              /\ b.goneAt[j] # Never /\ new.goneAt[j] = Never => clock - b.goneAt[j] > TTL
              /\ new.goneAt[j] # Never /\ Listed(b, j) => Listed(new, j)
      BY <2>1, <2>2, <2>8, <2>10, <2>11
    <2> QED  BY <1>3, <2>7, <2>8, <2>9, <2>12, <2>13, <2>14 DEF new
  <1> QED  BY <1>1, <1>2, <1>3

(* onRemoteIdentity.                                                       *)
LEMMA IdentifyEffect ==
    ASSUME NEW b \in BinderType, NEW c \in Conns, NEW i \in Sockets, i = Remote(c)
    PROVE  LET new == Identify(b, c)
           IN  /\ new \in BinderType /\ SameBut(b, new) /\ new.insertions = b.insertions
               /\ \A d \in Conns : new.conns[d] = IF d = c THEN "established" ELSE IF d = b.route[i] THEN "erased" ELSE b.conns[d]
               /\ new.route = [b.route EXCEPT ![i] = c] /\ new.goneAt = [b.goneAt EXCEPT ![i] = Never]
               /\ new.pending = [b.pending EXCEPT ![i] = <<>>]
  <1> DEFINE new == Identify(b, c)
             conns == [d \in Conns |-> IF d = c THEN "established" ELSE IF d = b.route[i] THEN "erased" ELSE b.conns[d]]
  <1>1. new = [b EXCEPT !.conns = conns, !.route = [b.route EXCEPT ![i] = c], !.goneAt = [b.goneAt EXCEPT ![i] = Never],
                        !.pending = [b.pending EXCEPT ![i] = <<>>]]
    BY DEF Identify, BinderType
  <1>2. conns \in [Conns -> Stages]
    BY DEF BinderType, Stages
  <1>3. <<>> \in Seq(Numbered)
    OBVIOUS
  <1> HIDE DEF new
  <1>4. /\ new \in BinderType /\ SameBut(b, new) /\ new.insertions = b.insertions /\ new.conns = conns
        /\ new.route = [b.route EXCEPT ![i] = c] /\ new.goneAt = [b.goneAt EXCEPT ![i] = Never]
        /\ new.pending = [b.pending EXCEPT ![i] = <<>>]
    BY <1>1, <1>2, <1>3 DEF BinderType, SameBut
  <1> QED  BY <1>4 DEF new

-----------------------------------------------------------------------------
(* What every action does to the connections.                              *)

\* The connections that exist, and whose they are.
SameMade(old, new) == \A d \in Conns : new[d].made = old[d].made /\ new[d].socket = old[d].socket

(* Items of the wire and of the queues are items.                          *)
LEMMA ItemTypes ==
    ASSUME Types
    PROVE  /\ \A c \in Conns, side \in Side : chan[c].out[side] \in Seq(Item) /\ chan[c].wire[side] \in Seq(Item)
           /\ \A s \in Sockets : sock[s].queue \in Seq(Numbered) /\ sock[s].inbox \in Seq(Numbered)
           /\ \A s \in Sockets : binder.pending[s] \in Seq(Numbered)
           /\ \A x \in Ends : got[x] \in Seq(Numbered)
           /\ binder.inbox \in Seq(Numbered)
  BY DEF Types, SockType, ChanType, BinderType

(* A queue of messages can be written.                                     *)
LEMMA QueueWritable ==
    ASSUME NEW q \in Seq(Numbered)
    PROVE  q \in Seq(Item)
  BY SeqMonotonic DEF Item

(* A message has its type.                                                 *)
LEMMA MsgType ==
    ASSUME NEW d \in Dir, NEW s \in Sockets, NEW n \in Nat
    PROVE  Msg(d, s, n) \in Numbered /\ Msg(d, s, n) \in Item
  BY DEF Msg, Numbered, Item

(* onWriteDone: the first operation has reached the wire.                  *)
LEMMA FlushEffect ==
    ASSUME Types, NEW c \in Conns, NEW side \in Side, Flush(c, side)
    PROVE  /\ chan' \in Chans /\ SameConns(chan, chan')
           /\ OutIs(chan, chan', c, side, Tail(chan[c].out[side]))
           /\ WireIs(chan, chan', c, side, Append(chan[c].wire[side], Head(chan[c].out[side])))
  <1> DEFINE o == Tail(chan[c].out[side])
             w == Append(chan[c].wire[side], Head(chan[c].out[side]))
  <1>1. chan[c].out[side] \in Seq(Item) /\ chan[c].wire[side] \in Seq(Item) /\ chan[c].out[side] # <<>>
    BY ItemTypes DEF Flush
  <1>2. o \in Seq(Item) /\ w \in Seq(Item)
    BY <1>1
  <1>3. chan \in Chans /\ chan' = [chan EXCEPT ![c].out[side] = o, ![c].wire[side] = w]
    BY DEF Flush, Types, Chans, ChanType
  <1> HIDE DEF o, w
  <1>4. chan' \in Chans /\ SameConns(chan, chan') /\ OutIs(chan, chan', c, side, o) /\ WireIs(chan, chan', c, side, w)
    BY <1>2, <1>3 DEF Chans, ChanType, SameConns, OutIs, WireIs
  <1> QED  BY <1>4 DEF o, w

(* onWriteDone on a lost connection.                                       *)
LEMMA OnWriteDoneEffect ==
    ASSUME Types, NEW c \in Conns, NEW side \in Side, OnWriteDone(c, side)
    PROVE  /\ chan' \in Chans /\ SameConns(chan, chan') /\ SameWire(chan, chan')
           /\ OutIs(chan, chan', c, side, Tail(chan[c].out[side]))
  <1> DEFINE o == Tail(chan[c].out[side])
  <1>1. chan[c].out[side] \in Seq(Item) /\ chan[c].out[side] # <<>>
    BY ItemTypes DEF OnWriteDone
  <1>2. o \in Seq(Item)
    BY <1>1
  <1>3. chan \in Chans /\ chan' = [chan EXCEPT ![c].out[side] = o]
    BY DEF OnWriteDone, Types, Chans, ChanType
  <1> HIDE DEF o
  <1>4. chan' \in Chans /\ SameConns(chan, chan') /\ SameWire(chan, chan') /\ OutIs(chan, chan', c, side, o)
    BY <1>2, <1>3, OutEffect
  <1> QED  BY <1>4 DEF o

\* What the cut leaves to be read.
CutTo(q, r) == \E k \in 0 .. Len(q) : r = Append(SubSeq(q, 1, k), Rst)

(* The network loses a connection.                                         *)
LEMMA CutEffect ==
    ASSUME Types, NEW c \in Conns, Cut(c)
    PROVE  /\ chan' \in Chans /\ SameMade(chan, chan') /\ SameOut(chan, chan') /\ chan[c].made
           /\ \A d \in Conns : chan'[d].cut = IF d = c THEN TRUE ELSE chan[d].cut
           /\ \A d \in Conns, side \in Side :
                 IF d = c THEN CutTo(chan[c].wire[side], chan'[c].wire[side])
                 ELSE chan'[d].wire[side] = chan[d].wire[side]
  <1>1. PICK k \in [Side -> 0 .. MaxUp + MaxDown + 2] :
          /\ \A side \in Side : k[side] <= Len(chan[c].wire[side])
          /\ chan' = [chan EXCEPT ![c].cut = TRUE,
                                  ![c].wire = [side \in Side |-> Append(SubSeq(@[side], 1, k[side]), Rst)]]
    BY DEF Cut
  <1> DEFINE w == [side \in Side |-> Append(SubSeq(chan[c].wire[side], 1, k[side]), Rst)]
  <1>2. chan \in Chans /\ chan[c].made
    BY DEF Cut, Types, Chans
  <1>3. ASSUME NEW side \in Side
        PROVE  w[side] \in Seq(Item) /\ CutTo(chan[c].wire[side], w[side])
    <2>1. chan[c].wire[side] \in Seq(Item) /\ k[side] \in 0 .. Len(chan[c].wire[side])
      <3>1. chan[c].wire[side] \in Seq(Item)
        BY ItemTypes
      <3>2. k[side] \in Nat
        BY BoundAssumption
      <3> QED  BY <1>1, <3>1, <3>2
    <2>2. SubSeq(chan[c].wire[side], 1, k[side]) \in Seq(Item)
      BY <2>1
    <2> QED  BY <2>1, <2>2 DEF CutTo, Item
  <1>4. w \in [Side -> Seq(Item)]
    BY <1>3
  <1>5. chan' = [chan EXCEPT ![c].cut = TRUE, ![c].wire = w]
    BY <1>1, <1>2 DEF Chans, ChanType
  <1> HIDE DEF w
  <1>6. /\ chan' \in Chans /\ SameMade(chan, chan') /\ SameOut(chan, chan')
        /\ \A d \in Conns : chan'[d].cut = (IF d = c THEN TRUE ELSE chan[d].cut)
                            /\ chan'[d].wire = IF d = c THEN w ELSE chan[d].wire
    BY <1>2, <1>4, <1>5 DEF Chans, ChanType, SameMade, SameOut
  <1> QED  BY <1>2, <1>3, <1>6

(* sendMessage on a linked MessageConnection.                              *)
LEMMA SendLinkedEffect ==
    ASSUME Types, NEW c \in Conns, NEW side \in Side, NEW d \in Dir, NEW s \in Sockets, NEW n \in Nat,
           SendLinked(c, side, Msg(d, s, n))
    PROVE  \E answer \in {"waiting", "silent"} :
              /\ chan' \in Chans /\ SameConns(chan, chan') /\ SameWire(chan, chan')
              /\ answer = "waiting" => OutIs(chan, chan', c, side, chan[c].out[side] \o <<Msg(d, s, n)>>)
              /\ answer = "silent" => SameOut(chan, chan')
              /\ sends' = [sends EXCEPT ![d][s] = Append(@, answer)]
  <1> DEFINE m == Msg(d, s, n)
  <1>1. m.dir = d /\ m.of = s /\ <<m>> \in Seq(Item) /\ chan \in Chans
    BY MsgType DEF Msg, Types, Chans
  <1>2. PICK lost \in Unsent(c, m) :
          /\ chan' = IF lost = {} THEN Write(chan, c, side, <<m>>) ELSE chan
          /\ sends' = [sends EXCEPT ![m.dir][m.of] = Append(@, IF lost = {} THEN "waiting" ELSE "silent")]
    BY DEF SendLinked
  <1>3. CASE lost = {}
    <2>1. chan' = Write(chan, c, side, <<m>>) /\ sends' = [sends EXCEPT ![d][s] = Append(@, "waiting")]
      BY <1>1, <1>2, <1>3
    <2> HIDE DEF m
    <2>2. chan' \in Chans /\ SameConns(chan, chan') /\ SameWire(chan, chan') /\ OutIs(chan, chan', c, side, chan[c].out[side] \o <<m>>)
      BY <1>1, <2>1, WriteEffect
    <2> QED  BY <2>1, <2>2 DEF m
  <1>4. CASE lost # {}
    <2>1. chan' = chan /\ sends' = [sends EXCEPT ![d][s] = Append(@, "silent")]
      BY <1>1, <1>2, <1>4
    <2>2. chan' \in Chans /\ SameConns(chan, chan') /\ SameWire(chan, chan') /\ SameOut(chan, chan')
      BY <1>1, <2>1 DEF SameConns, SameWire, SameOut
    <2> QED  BY <2>1, <2>2
  <1> QED  BY <1>3, <1>4

(* onClientConnected: the next connection is made and the handshake and    *)
(* the queue are written to it.                                            *)
LEMMA OnClientConnectedEffect ==
    ASSUME Types, NEW s \in Sockets, OnClientConnected(s)
    PROVE  \E c \in Conns \ Made :
              /\ \A e \in Conns \ Made : c <= e
              /\ chan' \in Chans /\ SameWire(chan, chan')
              /\ \A d \in Conns : chan'[d].made = (IF d = c THEN TRUE ELSE chan[d].made)
                                  /\ chan'[d].socket = (IF d = c THEN s ELSE chan[d].socket)
                                  /\ chan'[d].cut = chan[d].cut
              /\ OutIs(chan, chan', c, "connector", chan[c].out["connector"] \o (<<Hello>> \o sock[s].queue))
              /\ sock' = [sock EXCEPT ![s] = LinkedBy(s, c)]
  <1> DEFINE c == CHOOSE d \in Conns \ Made : \A e \in Conns \ Made : d <= e
             ch == [chan EXCEPT ![c].made = TRUE, ![c].socket = s]
             q == <<Hello>> \o sock[s].queue
  <1>1. Conns \ Made \in SUBSET Nat /\ Conns \ Made # {}
    BY BoundAssumption DEF OnClientConnected, Conns
  <1>2. c \in Conns \ Made /\ \A e \in Conns \ Made : c <= e
    BY <1>1, LeastNumber
  <1>3. chan' = Write(ch, c, "connector", q) /\ sock' = [sock EXCEPT ![s] = LinkedBy(s, c)]
    BY DEF OnClientConnected
  <1> HIDE DEF c
  <1>4. /\ ch \in Chans /\ SameWire(chan, ch) /\ SameOut(chan, ch)
        /\ \A d \in Conns : ch[d].made = (IF d = c THEN TRUE ELSE chan[d].made)
                            /\ ch[d].socket = (IF d = c THEN s ELSE chan[d].socket) /\ ch[d].cut = chan[d].cut
    BY <1>2 DEF Types, Chans, ChanType, SameWire, SameOut
  <1>5. q \in Seq(Item)
    <2>1. sock[s].queue \in Seq(Item)
      BY ItemTypes, QueueWritable
    <2>2. <<Hello>> \in Seq(Item)
      BY DEF Item
    <2> QED  BY <2>1, <2>2
  <1>6. q = <<Hello>> \o sock[s].queue
    OBVIOUS
  <1> HIDE DEF ch, q
  <1>7. /\ chan' \in Chans /\ SameConns(ch, chan') /\ SameWire(ch, chan')
        /\ OutIs(ch, chan', c, "connector", ch[c].out["connector"] \o q)
    BY <1>2, <1>3, <1>4, <1>5, WriteEffect DEF Side
  <1>8. SameWire(chan, chan')
    BY <1>4, <1>7 DEF SameWire
  <1>9. \A d \in Conns : chan'[d].made = (IF d = c THEN TRUE ELSE chan[d].made)
                         /\ chan'[d].socket = (IF d = c THEN s ELSE chan[d].socket)
                         /\ chan'[d].cut = chan[d].cut
    BY <1>4, <1>7 DEF SameConns
  <1>10. OutIs(chan, chan', c, "connector", chan[c].out["connector"] \o q)
    BY <1>2, <1>4, <1>7 DEF OutIs, SameOut, Side
  <1> QED  BY <1>2, <1>3, <1>6, <1>7, <1>8, <1>9, <1>10

(* Two changes in a row, of which the second leaves alone what the first   *)
(* made of it.                                                             *)
LEMMA ConnsThrough ==
    ASSUME NEW a, NEW b, NEW e, SameConns(a, b), SameConns(b, e)
    PROVE  SameConns(a, e)
  BY DEF SameConns

(* The same for the wires.                                                 *)
LEMMA WireThrough ==
    ASSUME NEW a, NEW b, NEW e, NEW c, NEW side, NEW q, WireIs(a, b, c, side, q), SameWire(b, e)
    PROVE  WireIs(a, e, c, side, q)
  <1> SUFFICES ASSUME NEW d \in Conns, NEW f \in Side
               PROVE  e[d].wire[f] = IF d = c /\ f = side THEN q ELSE a[d].wire[f]
    BY DEF WireIs
  <1>1. e[d].wire[f] = b[d].wire[f]
    BY DEF SameWire
  <1>2. b[d].wire[f] = IF d = c /\ f = side THEN q ELSE a[d].wire[f]
    BY DEF WireIs
  <1> QED  BY <1>1, <1>2

(* The first change leaves alone what the second writes.                   *)
LEMMA OutThrough ==
    ASSUME NEW a, NEW b, NEW e, NEW c, NEW side, NEW q, SameOut(a, b), OutIs(b, e, c, side, q)
    PROVE  OutIs(a, e, c, side, q)
  <1> SUFFICES ASSUME NEW d \in Conns, NEW f \in Side
               PROVE  e[d].out[f] = IF d = c /\ f = side THEN q ELSE a[d].out[f]
    BY DEF OutIs
  <1>1. a[d].out[f] = b[d].out[f]
    BY DEF SameOut
  <1>2. e[d].out[f] = IF d = c /\ f = side THEN q ELSE b[d].out[f]
    BY DEF OutIs
  <1> QED  BY <1>1, <1>2

\* onRead takes an item off the wire, and at the end of the connection changes what is
\* left to libuv.
TakesOff(c, side) ==
    /\ chan' \in Chans /\ SameConns(chan, chan') /\ WireIs(chan, chan', c, Other(side), Tail(chan[c].wire[Other(side)]))
    /\ LET e == Head(chan[c].wire[Other(side)])
       IN  /\ e \notin {Fin, Rst} => SameOut(chan, chan')
           /\ e \in {Fin} => OutIs(chan, chan', c, side, Append(chan[c].out[side], Fin))
           /\ e \in {Rst} => OutIs(chan, chan', c, side, <<>>)

(* onRead of a message or a handshake that only takes it.                  *)
LEMMA TakesItem ==
    ASSUME Types, NEW c \in Conns, NEW side \in Side, chan[c].wire[Other(side)] # <<>>,
           chan' = [chan EXCEPT ![c].wire[Other(side)] = Tail(@)], Head(chan[c].wire[Other(side)]) \notin {Fin, Rst}
    PROVE  TakesOff(c, side)
  <1>1. chan \in Chans /\ Other(side) \in Side
    BY DEF Types, Chans, Other, Side
  <1> QED  BY <1>1, ReadEffect DEF TakesOff

(* onRead of the end of the connection.                                    *)
LEMMA TakesFin ==
    ASSUME Types, NEW c \in Conns, NEW side \in Side, chan[c].wire[Other(side)] # <<>>,
           chan' = ShutdownClient([chan EXCEPT ![c].wire[Other(side)] = Tail(@)], c, side),
           Head(chan[c].wire[Other(side)]) = Fin
    PROVE  TakesOff(c, side)
  <1> DEFINE ch == [chan EXCEPT ![c].wire[Other(side)] = Tail(@)]
  <1>1. chan \in Chans /\ Other(side) \in Side
    BY DEF Types, Chans, Other, Side
  <1>2. /\ ch \in Chans /\ SameConns(chan, ch) /\ SameOut(chan, ch)
        /\ WireIs(chan, ch, c, Other(side), Tail(chan[c].wire[Other(side)]))
    BY <1>1, ReadEffect
  <1> HIDE DEF ch
  <1>3. /\ chan' \in Chans /\ SameConns(ch, chan') /\ SameWire(ch, chan')
        /\ OutIs(ch, chan', c, side, Append(ch[c].out[side], Fin))
    BY <1>2, ShutdownEffect DEF ch
  <1>4. SameConns(chan, chan')
    BY <1>2, <1>3, ConnsThrough
  <1>5. WireIs(chan, chan', c, Other(side), Tail(chan[c].wire[Other(side)]))
    BY <1>2, <1>3, WireThrough
  <1>6. OutIs(chan, chan', c, side, Append(chan[c].out[side], Fin))
    BY <1>2, <1>3 DEF SameOut, OutIs
  <1>7. Fin # Rst
    BY DEF Fin, Rst
  <1> QED  BY <1>3, <1>4, <1>5, <1>6, <1>7 DEF TakesOff

(* onRead of a connection error.                                           *)
LEMMA TakesRst ==
    ASSUME Types, NEW c \in Conns, NEW side \in Side, chan[c].wire[Other(side)] # <<>>,
           chan' = CloseClient([chan EXCEPT ![c].wire[Other(side)] = Tail(@)], c, side),
           Head(chan[c].wire[Other(side)]) = Rst
    PROVE  TakesOff(c, side)
  <1> DEFINE ch == [chan EXCEPT ![c].wire[Other(side)] = Tail(@)]
  <1>1. chan \in Chans /\ Other(side) \in Side
    BY DEF Types, Chans, Other, Side
  <1>2. /\ ch \in Chans /\ SameConns(chan, ch) /\ SameOut(chan, ch)
        /\ WireIs(chan, ch, c, Other(side), Tail(chan[c].wire[Other(side)]))
    BY <1>1, ReadEffect
  <1> HIDE DEF ch
  <1>3. chan' \in Chans /\ SameConns(ch, chan') /\ SameWire(ch, chan') /\ OutIs(ch, chan', c, side, <<>>)
    BY <1>2, CloseEffect DEF ch
  <1>4. SameConns(chan, chan')
    BY <1>2, <1>3, ConnsThrough
  <1>5. WireIs(chan, chan', c, Other(side), Tail(chan[c].wire[Other(side)]))
    BY <1>2, <1>3, WireThrough
  <1>6. OutIs(chan, chan', c, side, <<>>)
    BY <1>2, <1>3 DEF SameOut, OutIs
  <1>7. Fin # Rst
    BY DEF Fin, Rst
  <1> QED  BY <1>3, <1>4, <1>5, <1>6, <1>7 DEF TakesOff

(* onRemoteIdentity writes what was pending, and shuts an earlier          *)
(* connection of the identity down.                                        *)
LEMMA IdentifyWrites ==
    ASSUME Types, NEW c \in Conns, NEW old \in Conns \cup {0}, NEW q \in Seq(Numbered), chan[c].wire["connector"] # <<>>,
           LET read == [chan EXCEPT ![c].wire["connector"] = Tail(@)]
           IN  chan' = Write(IF old = 0 THEN read ELSE ShutdownClient(read, old, "binder"), c, "binder", q)
    PROVE  /\ chan' \in Chans /\ SameConns(chan, chan') /\ WireIs(chan, chan', c, "connector", Tail(chan[c].wire["connector"]))
           /\ \A d \in Conns : chan'[d].out["connector"] = chan[d].out["connector"]
           /\ \A d \in Conns \ {c} : chan'[d].out["binder"] =
                 IF d = old THEN Append(chan[d].out["binder"], Fin) ELSE chan[d].out["binder"]
           /\ chan'[c].out["binder"] =
                 (IF c = old THEN Append(chan[c].out["binder"], Fin) ELSE chan[c].out["binder"]) \o q
  <1> DEFINE read == [chan EXCEPT ![c].wire["connector"] = Tail(@)]
             shut == IF old = 0 THEN read ELSE ShutdownClient(read, old, "binder")
  <1>1. chan \in Chans /\ "connector" \in Side /\ "binder" \in Side /\ 0 \notin Conns /\ q \in Seq(Item)
    BY QueueWritable DEF Types, Chans, Side, Conns
  <1>2. /\ read \in Chans /\ SameConns(chan, read) /\ SameOut(chan, read)
        /\ WireIs(chan, read, c, "connector", Tail(chan[c].wire["connector"]))
    BY <1>1, ReadEffect
  <1>3. chan' = Write(shut, c, "binder", q)
    OBVIOUS
  <1> HIDE DEF read
  <1>4. /\ shut \in Chans /\ SameConns(read, shut) /\ SameWire(read, shut)
        /\ \A d \in Conns : shut[d].out["connector"] = read[d].out["connector"]
                            /\ shut[d].out["binder"] = IF d = old THEN Append(read[d].out["binder"], Fin) ELSE read[d].out["binder"]
    <2>1. CASE old = 0
      BY <1>1, <1>2, <2>1 DEF SameConns, SameWire
    <2>2. CASE old # 0
      <3>1. /\ shut \in Chans /\ SameConns(read, shut) /\ SameWire(read, shut)
            /\ OutIs(read, shut, old, "binder", Append(read[old].out["binder"], Fin))
        BY <1>1, <1>2, <2>2, ShutdownEffect
      <3> QED  BY <1>1, <3>1 DEF OutIs
    <2> QED  BY <2>1, <2>2
  <1> HIDE DEF shut
  <1>5. /\ chan' \in Chans /\ SameConns(shut, chan') /\ SameWire(shut, chan')
        /\ OutIs(shut, chan', c, "binder", shut[c].out["binder"] \o q)
    BY <1>1, <1>3, <1>4, WriteEffect
  <1>6. SameConns(chan, chan')
    <2>1. SameConns(chan, shut)
      BY <1>2, <1>4, ConnsThrough
    <2> QED  BY <1>5, <2>1, ConnsThrough
  <1>7. WireIs(chan, chan', c, "connector", Tail(chan[c].wire["connector"]))
    <2>1. WireIs(chan, shut, c, "connector", Tail(chan[c].wire["connector"]))
      BY <1>2, <1>4, WireThrough
    <2> QED  BY <1>5, <2>1, WireThrough
  <1>8. \A d \in Conns : chan'[d].out["connector"] = chan[d].out["connector"]
    BY <1>1, <1>2, <1>4, <1>5 DEF SameOut, OutIs
  <1>9. \A d \in Conns : shut[d].out["binder"] = IF d = old THEN Append(chan[d].out["binder"], Fin) ELSE chan[d].out["binder"]
    BY <1>1, <1>2, <1>4 DEF SameOut
  <1>10. \A d \in Conns : chan'[d].out["binder"] = IF d = c THEN shut[c].out["binder"] \o q ELSE shut[d].out["binder"]
    BY <1>1, <1>5 DEF OutIs
  <1>11. chan'[c].out["binder"] = shut[c].out["binder"] \o q /\ \A d \in Conns \ {c} : chan'[d].out["binder"] = shut[d].out["binder"]
    BY <1>10
  <1> QED  BY <1>5, <1>6, <1>7, <1>8, <1>9, <1>11

(* shutdown() of the binder: connections it holds are shut down, those     *)
(* nobody accepted are reset.                                              *)
LEMMA BinderShutdownEffect ==
    ASSUME Types, BinderShutdown
    PROVE  /\ chan' \in Chans /\ SameMade(chan, chan')
           /\ \A d \in Conns :
                LET reset == ~Held(d) /\ chan[d].made /\ binder.conns[d] = "new" /\ ~chan[d].cut
                IN  /\ chan'[d].cut = (chan[d].cut \/ reset)
                    /\ chan'[d].wire["connector"] = chan[d].wire["connector"]
                    /\ chan'[d].wire["binder"] = IF reset THEN <<Rst>> ELSE chan[d].wire["binder"]
                    /\ chan'[d].out["connector"] = chan[d].out["connector"]
                    /\ chan'[d].out["binder"] = IF Held(d) THEN Append(chan[d].out["binder"], Fin) ELSE chan[d].out["binder"]
  <1> DEFINE reset(d) == ~Held(d) /\ chan[d].made /\ binder.conns[d] = "new" /\ ~chan[d].cut
             new(d) == IF Held(d) THEN ShutdownClient(chan, d, "binder")[d]
                       ELSE IF reset(d) THEN [chan[d] EXCEPT !.cut = TRUE, !.wire["binder"] = <<Rst>>] ELSE chan[d]
  <1>1. chan \in Chans /\ "binder" \in Side /\ "connector" \in Side /\ chan' = [d \in Conns |-> new(d)]
    BY DEF BinderShutdown, Types, Chans, Side
  <1>2. ASSUME NEW d \in Conns
        PROVE  /\ new(d) \in ChanType /\ new(d).made = chan[d].made /\ new(d).socket = chan[d].socket
               /\ new(d).cut = (chan[d].cut \/ reset(d))
               /\ new(d).wire["connector"] = chan[d].wire["connector"]
               /\ new(d).wire["binder"] = IF reset(d) THEN <<Rst>> ELSE chan[d].wire["binder"]
               /\ new(d).out["connector"] = chan[d].out["connector"]
               /\ new(d).out["binder"] = IF Held(d) THEN Append(chan[d].out["binder"], Fin) ELSE chan[d].out["binder"]
    <2>1. CASE Held(d)
      <3> DEFINE ch == ShutdownClient(chan, d, "binder")
      <3>1. /\ ch \in Chans /\ SameConns(chan, ch) /\ SameWire(chan, ch)
            /\ OutIs(chan, ch, d, "binder", Append(chan[d].out["binder"], Fin))
        BY <1>1, ShutdownEffect
      <3> HIDE DEF ch
      <3>2. /\ ch[d] \in ChanType /\ ch[d].made = chan[d].made /\ ch[d].socket = chan[d].socket /\ ch[d].cut = chan[d].cut
            /\ ch[d].wire["connector"] = chan[d].wire["connector"] /\ ch[d].wire["binder"] = chan[d].wire["binder"]
            /\ ch[d].out["connector"] = chan[d].out["connector"] /\ ch[d].out["binder"] = Append(chan[d].out["binder"], Fin)
        BY <1>1, <3>1 DEF Chans, SameConns, SameWire, OutIs
      <3>3. chan[d].cut \in BOOLEAN /\ ~ reset(d) /\ new(d) = ch[d]
        BY <1>1, <2>1 DEF Chans, ChanType, ch
      <3> HIDE DEF new, reset
      <3> QED  BY <2>1, <3>2, <3>3
    <2>2. CASE ~Held(d) /\ reset(d)
      <3> DEFINE r == <<Rst>>
                 w == [chan[d].wire EXCEPT !["binder"] = r]
      <3>1. r \in Seq(Item)
        BY DEF Item
      <3>2. chan[d] \in ChanType
        BY <1>1 DEF Chans
      <3> HIDE DEF r
      <3>3. w \in [Side -> Seq(Item)] /\ w["binder"] = r /\ w["connector"] = chan[d].wire["connector"]
        BY <1>1, <3>1, <3>2 DEF ChanType
      <3>4. new(d) = [chan[d] EXCEPT !.cut = TRUE, !.wire = w]
        BY <2>2, <3>2 DEF r, ChanType
      <3> HIDE DEF new, reset, w
      <3>5. /\ new(d) \in ChanType /\ new(d).made = chan[d].made /\ new(d).socket = chan[d].socket /\ new(d).cut = TRUE
            /\ new(d).out = chan[d].out /\ new(d).wire = w
        BY <3>2, <3>3, <3>4 DEF ChanType
      <3> QED  BY <2>2, <3>3, <3>5 DEF r
    <2>3. CASE ~Held(d) /\ ~reset(d)
      <3>1. new(d) = chan[d] /\ chan[d] \in ChanType /\ chan[d].cut \in BOOLEAN
        BY <1>1, <2>3 DEF Chans, ChanType
      <3> HIDE DEF new, reset
      <3> QED  BY <2>3, <3>1
    <2> QED  BY <2>1, <2>2, <2>3
  <1> HIDE DEF new, reset
  <1>3. chan' \in Chans /\ \A d \in Conns : chan'[d] = new(d)
    BY <1>1, <1>2 DEF Chans
  <1>4. SameMade(chan, chan')
    BY <1>2, <1>3 DEF SameMade
  <1> QED  BY <1>2, <1>3, <1>4 DEF reset

\* The state but for the connections, which the lemmas above type.
RestTypes ==
    /\ sock \in [Sockets -> SockType] /\ binder \in BinderType /\ sends \in SendsType
    /\ got \in [Ends -> Seq(Numbered)] /\ clock \in 0 .. MaxTime /\ left \in 0 .. Budget

(* The items that are no messages are different from those that are.       *)
LEMMA Kinds ==
    /\ Hello # Fin /\ Hello # Rst /\ Fin # Rst
    /\ Hello.kind # "msg" /\ Fin.kind # "msg" /\ Rst.kind # "msg"
    /\ \A e \in Item : e.kind = "msg" \/ e = Hello \/ e = Fin \/ e = Rst
    /\ \A e \in Item : e.kind = "msg" => e \in Numbered
    /\ \A m \in Numbered : m.kind = "msg"
  BY DEF Hello, Fin, Rst, Item, Numbered

(* The budget of events.                                                   *)
LEMMA HappensType ==
    ASSUME left \in 0 .. Budget, NEW kind, Happens(kind)
    PROVE  left' \in 0 .. Budget
  BY BoundAssumption DEF Happens

(* A send is entered in the book.                                          *)
LEMMA TellType ==
    ASSUME sends \in SendsType, NEW d \in Dir, NEW s \in Sockets, NEW answer \in Answers,
           sends' = [sends EXCEPT ![d][s] = Append(@, answer)]
    PROVE  sends' \in SendsType
  BY TellEffect

(* What is received is handed over or buffered.                            *)
LEMMA DeliverType ==
    ASSUME NEW s \in Sockets, RestTypes, NEW e \in Numbered
    PROVE  /\ Deliver(sock[s], e) \in SockType /\ Deliver(binder, e) \in BinderType
           /\ Handed(sock[s], e) \in Seq(Numbered) /\ Handed(binder, e) \in Seq(Numbered)
  <1>1. sock[s] \in SockType /\ binder \in BinderType
    BY DEF RestTypes
  <1>2. Append(sock[s].inbox, e) \in Seq(Numbered) /\ Append(binder.inbox, e) \in Seq(Numbered)
    BY <1>1 DEF SockType, BinderType
  <1>3. Deliver(sock[s], e) \in SockType
    BY <1>1, <1>2 DEF SockType, Deliver
  <1>4. Deliver(binder, e) \in BinderType
    BY <1>1, <1>2 DEF BinderType, Deliver
  <1>5. <<>> \in Seq(Numbered) /\ <<e>> \in Seq(Numbered)
    OBVIOUS
  <1> QED  BY <1>3, <1>4, <1>5 DEF Handed

-----------------------------------------------------------------------------
(* Every step keeps the types.                                             *)

(* A step at one end of a connection.                                      *)
LEMMA LibuvTypes ==
    ASSUME BooksInv, NEW c \in Conns, NEW side \in Side, Flush(c, side) \/ OnWriteDone(c, side)
    PROVE  Types'
  <1>1. Types
    BY DEF BooksInv
  <1>2. chan' \in Chans /\ sock' = sock /\ binder' = binder /\ got' = got /\ clock' = clock /\ left' = left
    BY <1>1, FlushEffect, OnWriteDoneEffect DEF Flush, OnWriteDone
  <1>3. sends' \in SendsType
    <2>1. \E answer \in Answers, ms \in {Messages(<<Head(chan[c].out[side])>>)} : sends' = Answer(sends, ms, answer)
      BY DEF Flush, OnWriteDone, Answers
    <2> QED  BY <1>1, <2>1, AnswerEffect DEF Types
  <1>4. RestTypes'
    BY <1>1, <1>2, <1>3 DEF Types, RestTypes
  <1> QED  BY <1>2, <1>4 DEF Types, RestTypes, Chans

(* onRead of a connector.                                                  *)
LEMMA OnReadTypes ==
    ASSUME BooksInv, NEW s \in Sockets, OnRead(s)
    PROVE  Types' /\ sock[s].conn \in Made /\ TakesOff(sock[s].conn, "connector")
  <1> DEFINE c == sock[s].conn
             e == Head(chan[c].wire["binder"])
  <1>1. Types /\ RestTypes /\ chan \in Chans
    BY Kinds DEF BooksInv, Types, RestTypes, Chans
  <1>2. c \in Made /\ c \in Conns
    BY DEF BooksInv, Connections, OnRead, Made
  <1>3. chan[c].wire["binder"] \in Seq(Item) /\ chan[c].wire["binder"] # <<>> /\ "connector" \in Side
        /\ Other("connector") = "binder"
    BY <1>1, <1>2, ItemTypes DEF OnRead, Side, Other
  <1>4. e \in Item
    BY <1>3
  <1>9. e = Hello \/ e.kind = "msg" \/ e = Fin \/ e = Rst
    BY <1>4, Kinds
  <1>5. sock[s] \in SockType /\ binder' = binder /\ clock' = clock /\ left' = left
    BY <1>1 DEF RestTypes, OnRead
  <1>6. CASE e = Hello \/ e.kind = "msg"
    <2>1. chan' = [chan EXCEPT ![c].wire["binder"] = Tail(@)] /\ sends' = sends
      BY <1>6, Kinds DEF OnRead
    <2>2. e \notin {Fin, Rst}
      BY <1>6, Kinds
    <2>3. TakesOff(c, "connector")
      BY <1>1, <1>2, <1>3, <2>1, <2>2, TakesItem
    <2>4. CASE e = Hello
      <3>1. sock' = [sock EXCEPT ![s].phase = "established"] /\ got' = got
        BY <2>4, Kinds DEF OnRead
      <3>2. sock' \in [Sockets -> SockType]
        BY <1>1, <3>1 DEF RestTypes, SockType, Phases
      <3>3. RestTypes'
        BY <1>1, <1>5, <2>1, <3>1, <3>2 DEF RestTypes
      <3> QED  BY <1>2, <2>3, <3>3 DEF TakesOff, Types, RestTypes, Chans
    <2>5. CASE e.kind = "msg"
      <3>1. e \in Numbered
        BY <1>4, <2>5, Kinds
      <3>2. sock' = [sock EXCEPT ![s] = Deliver(@, e)] /\ got' = [got EXCEPT ![s] = @ \o Handed(sock[s], e)]
        BY <2>5, Kinds DEF OnRead
      <3> HIDE DEF e, c
      <3>3. sock' \in [Sockets -> SockType]
        BY <1>1, <3>1, <3>2, DeliverType DEF RestTypes
      <3>4. got' \in [Ends -> Seq(Numbered)]
        <4>1. got[s] \o Handed(sock[s], e) \in Seq(Numbered)
          BY <1>1, <3>1, DeliverType DEF RestTypes, Ends
        <4> QED  BY <1>1, <3>2, <4>1 DEF RestTypes, Ends
      <3>5. RestTypes'
        BY <1>1, <1>5, <2>1, <3>3, <3>4 DEF RestTypes
      <3> QED  BY <1>2, <2>3, <3>5 DEF TakesOff, Types, RestTypes, Chans, c
    <2> QED  BY <1>6, <2>4, <2>5
  <1>7. CASE e = Fin
    <2>1. /\ sock' = [sock EXCEPT ![s] = [@ EXCEPT !.phase = "gone", !.conn = 0, !.waits = FALSE]]
          /\ chan' = ShutdownClient([chan EXCEPT ![c].wire["binder"] = Tail(@)], c, "connector")
          /\ sends' = sends /\ got' = got
      BY <1>7, Kinds DEF OnRead
    <2>2. TakesOff(c, "connector")
      BY <1>1, <1>2, <1>3, <1>7, <2>1, TakesFin
    <2>3. sock' \in [Sockets -> SockType]
      BY <1>1, <2>1 DEF RestTypes, SockType, Phases
    <2>4. RestTypes'
      BY <1>1, <1>5, <2>1, <2>3 DEF RestTypes
    <2> QED  BY <1>2, <2>2, <2>4 DEF TakesOff, Types, RestTypes, Chans
  <1>8. CASE e = Rst
    <2>1. /\ sock' = [sock EXCEPT ![s] = Aborted(s)]
          /\ chan' = CloseClient([chan EXCEPT ![c].wire["binder"] = Tail(@)], c, "connector")
          /\ sends' = Answer(sends, Canceled(c, "connector"), "failed") /\ got' = got
      BY <1>8, Kinds DEF OnRead
    <2>2. TakesOff(c, "connector")
      BY <1>1, <1>2, <1>3, <1>8, <2>1, TakesRst
    <2>3. sock' \in [Sockets -> SockType]
      BY <1>1, <2>1 DEF RestTypes, SockType, Phases, Aborted
    <2>4. sends' \in SendsType
      BY <1>1, <2>1, AnswerEffect DEF RestTypes, Answers
    <2>5. RestTypes'
      BY <1>1, <1>5, <2>1, <2>3, <2>4 DEF RestTypes
    <2> QED  BY <1>2, <2>2, <2>5 DEF TakesOff, Types, RestTypes, Chans
  <1> QED  BY <1>9, <1>6, <1>7, <1>8

(* onRead of the binder.                                                   *)
LEMMA BinderOnReadTypes ==
    ASSUME BooksInv, NEW c \in Conns, BinderOnRead(c)
    PROVE  /\ Types' /\ c \in Made /\ Remote(c) \in Sockets
           /\ Head(chan[c].wire["connector"]) # Hello => TakesOff(c, "binder")
  <1> DEFINE e == Head(chan[c].wire["connector"])
             i == Remote(c)
             read == [chan EXCEPT ![c].wire["connector"] = Tail(@)]
  <1>1. Types /\ RestTypes /\ chan \in Chans
    BY DEF BooksInv, Types, RestTypes, Chans
  <1>2. c \in Made /\ i \in Sockets /\ Held(c)
    BY DEF BooksInv, Connections, BinderOnRead, Made, Held
  <1>3. chan[c].wire["connector"] \in Seq(Item) /\ chan[c].wire["connector"] # <<>> /\ "binder" \in Side
        /\ Other("binder") = "connector"
    BY <1>1, <1>2, ItemTypes DEF BinderOnRead, Side, Other
  <1>4. e \in Item
    BY <1>3
  <1>5. sock' = sock /\ clock' = clock /\ left' = left /\ binder \in BinderType
    BY <1>1 DEF RestTypes, BinderOnRead
  <1>6. e = Hello \/ e.kind = "msg" \/ e = Fin \/ e = Rst
    BY <1>4, Kinds
  <1>7. CASE e = Hello
    <2>1. binder' = Identify(binder, c) /\ sends' = sends /\ got' = got
          /\ chan' = Write(IF binder.route[i] = 0 THEN read ELSE ShutdownClient(read, binder.route[i], "binder"),
                           c, "binder", binder.pending[i])
      BY <1>7, Kinds DEF BinderOnRead
    <2>2. binder' \in BinderType
      BY <1>2, <1>5, <2>1, IdentifyEffect
    <2>3. binder.route[i] \in Conns \cup {0} /\ binder.pending[i] \in Seq(Numbered)
      BY <1>2, <1>5 DEF BinderType
    <2>4. chan' \in Chans
      BY <1>1, <1>3, <2>1, <2>3, IdentifyWrites
    <2> QED  BY <1>1, <1>2, <1>5, <1>7, <2>1, <2>2, <2>4 DEF Types, RestTypes, Chans
  <1>8. CASE e.kind = "msg"
    <2>1. binder' = Deliver(binder, e) /\ got' = [got EXCEPT !["binder"] = @ \o Handed(binder, e)]
          /\ chan' = read /\ sends' = sends
      BY <1>8, Kinds DEF BinderOnRead
    <2>2. e \in Numbered /\ e \notin {Fin, Rst}
      BY <1>4, <1>8, Kinds
    <2>3. TakesOff(c, "binder")
      BY <1>1, <1>3, <2>1, <2>2, TakesItem
    <2> HIDE DEF e
    <2>4. binder' \in BinderType /\ got["binder"] \o Handed(binder, e) \in Seq(Numbered)
      <3>1. Deliver(binder, e) \in BinderType /\ Handed(binder, e) \in Seq(Numbered)
        BY <1>1, <1>2, <2>2, DeliverType
      <3>2. got["binder"] \in Seq(Numbered)
        BY <1>1 DEF RestTypes, Ends
      <3>3. got["binder"] \o Handed(binder, e) \in Seq(Numbered)
        BY <3>1, <3>2
      <3> QED  BY <2>1, <3>1, <3>3
    <2>5. got' \in [Ends -> Seq(Numbered)]
      BY <1>1, <2>1, <2>4 DEF RestTypes, Ends
    <2> QED  BY <1>1, <1>2, <1>5, <2>1, <2>3, <2>4, <2>5 DEF TakesOff, Types, RestTypes, Chans
  <1>9. CASE e = Fin
    <2>1. binder' = Leaves(binder, c, "disconnected") /\ sends' = Answer(sends, Abandoned(c, "disconnected"), "failed")
          /\ chan' = ShutdownClient(read, c, "binder") /\ got' = got
      BY <1>9, Kinds DEF BinderOnRead
    <2>2. TakesOff(c, "binder")
      BY <1>1, <1>3, <1>9, <2>1, TakesFin
    <2>3. binder' \in BinderType
      BY <1>1, <1>2, <1>5, <2>1, LeavesEffect DEF RestTypes, Held
    <2>4. sends' \in SendsType
      BY <1>1, <2>1, AnswerEffect DEF RestTypes, Answers
    <2> QED  BY <1>1, <1>2, <1>5, <2>1, <2>2, <2>3, <2>4 DEF TakesOff, Types, RestTypes, Chans
  <1>10. CASE e = Rst
    <2>1. binder' = Leaves(binder, c, "aborted") /\ sends' = Answer(sends, Canceled(c, "binder"), "failed")
          /\ chan' = CloseClient(read, c, "binder") /\ got' = got
      BY <1>10, Kinds DEF BinderOnRead
    <2>2. TakesOff(c, "binder")
      BY <1>1, <1>3, <1>10, <2>1, TakesRst
    <2>3. binder' \in BinderType
      BY <1>1, <1>2, <1>5, <2>1, LeavesEffect DEF RestTypes, Held
    <2>4. sends' \in SendsType
      BY <1>1, <2>1, AnswerEffect DEF RestTypes, Answers
    <2> QED  BY <1>1, <1>2, <1>5, <2>1, <2>2, <2>3, <2>4 DEF TakesOff, Types, RestTypes, Chans
  <1> QED  BY <1>6, <1>7, <1>8, <1>9, <1>10

(* The initial state.                                                      *)
LEMMA InitTypes == Init => Types
  <1> SUFFICES ASSUME Init PROVE Types
    OBVIOUS
  <1>1. <<>> \in Seq(Numbered) /\ <<>> \in Seq(Item) /\ <<>> \in Seq(Entry) /\ <<>> \in Seq(Answers)
    OBVIOUS
  <1>2. sock \in [Sockets -> SockType]
    BY <1>1, BoundAssumption DEF Init, SockType, Phases
  <1>3. chan \in [Conns -> ChanType]
    BY <1>1 DEF Init, ChanType, NoSocket
  <1>4. binder \in BinderType
    BY <1>1 DEF Init, BinderType, Stages
  <1>5. sends \in SendsType /\ got \in [Ends -> Seq(Numbered)]
    BY <1>1 DEF Init, SendsType, Ends
  <1>6. clock \in 0 .. MaxTime /\ left \in 0 .. Budget
    BY BoundAssumption DEF Init
  <1> QED  BY <1>2, <1>3, <1>4, <1>5, <1>6 DEF Types

(* Every step keeps the types.                                             *)
LEMMA NextTypes ==
    ASSUME BooksInv, [Next]_vars
    PROVE  Types'
  <1>1. Types /\ RestTypes /\ chan \in Chans
    BY DEF BooksInv, Types, RestTypes, Chans
  <1>2. ASSUME NEW c \in Conns, NEW side \in Side, Flush(c, side) \/ OnWriteDone(c, side) PROVE Types'
    BY <1>2, LibuvTypes
  <1>3. ASSUME NEW c \in Conns, Accept(c) PROVE Types'
    <2>1. chan' = Write(chan, c, "binder", <<Hello>>) /\ binder' = [binder EXCEPT !.conns[c] = "connected"]
          /\ sock' = sock /\ sends' = sends /\ got' = got /\ clock' = clock /\ left' = left
      BY <1>3 DEF Accept
    <2>2. <<Hello>> \in Seq(Item) /\ "binder" \in Side
      BY DEF Item, Side
    <2>3. chan' \in Chans
      BY <1>1, <2>1, <2>2, WriteEffect
    <2>4. binder' \in BinderType
      BY <1>1, <2>1 DEF RestTypes, BinderType, Stages
    <2> QED  BY <1>1, <2>1, <2>3, <2>4 DEF Types, RestTypes, Chans
  <1>4. ASSUME NEW c \in Conns, BinderOnRead(c) PROVE Types'
    BY <1>4, BinderOnReadTypes
  <1>5. ASSUME NEW s \in Sockets, OnClientConnected(s) PROVE Types'
    <2>1. PICK c \in Conns \ Made : chan' \in Chans /\ sock' = [sock EXCEPT ![s] = LinkedBy(s, c)]
      BY <1>1, <1>5, OnClientConnectedEffect
    <2>2. sock' \in [Sockets -> SockType]
      <3>1. sock[s] \in SockType /\ <<>> \in Seq(Numbered)
        BY <1>1 DEF RestTypes
      <3>2. LinkedBy(s, c) \in SockType
        <4> DEFINE z == <<>>
        <4>1. 0 \in 0 .. MaxRetry /\ z \in Seq(Numbered) /\ c \in Conns \cup {0}
          BY <3>1, BoundAssumption
        <4>2. LinkedBy(s, c) = [sock[s] EXCEPT !.phase = "connected", !.conn = c, !.queue = z, !.tries = 0]
          BY DEF LinkedBy
        <4> HIDE DEF z
        <4> QED  BY <3>1, <4>1, <4>2 DEF SockType, Phases
      <3> QED  BY <1>1, <2>1, <3>2 DEF RestTypes
    <2> QED  BY <1>1, <1>5, <2>1, <2>2 DEF OnClientConnected, Types, RestTypes, Chans
  <1>6. ASSUME NEW s \in Sockets, OnRead(s) PROVE Types'
    BY <1>6, OnReadTypes
  <1>7. ASSUME NEW s \in Sockets, Connect(s) PROVE Types'
    <2>1. sock' \in [Sockets -> SockType]
      BY <1>1, <1>7 DEF Connect, RestTypes, SockType, Phases
    <2> QED  BY <1>1, <1>7, <2>1 DEF Connect, Types, RestTypes, Chans
  <1>8. ASSUME NEW s \in Sockets, SendMessage(s) PROVE Types'
    <2> DEFINE n == Len(sends["up"][s]) + 1
    <2>1. n \in Nat /\ "up" \in Dir /\ "connector" \in Side /\ sends["up"][s] \in Seq(Answers)
      BY <1>1 DEF RestTypes, SendsType, Dir, Side
    <2>2. CASE Linked(s) /\ SendLinked(sock[s].conn, "connector", Msg("up", s, n)) /\ UNCHANGED sock
      <3>1. sock[s].conn \in Conns
        BY <2>2 DEF BooksInv, Connections, Made
      <3>2. chan' \in Chans /\ \E answer \in Answers : sends' = [sends EXCEPT !["up"][s] = Append(@, answer)]
        <4> HIDE DEF n
        <4>3. PICK c \in Conns, k \in Nat : c = sock[s].conn /\ k = n
          BY <2>1, <3>1
        <4>4. SendLinked(c, "connector", Msg("up", s, k))
          BY <2>2, <4>3 DEF SendLinked
        <4>1. PICK answer \in {"waiting", "silent"} :
                /\ chan' \in Chans /\ SameConns(chan, chan') /\ SameWire(chan, chan')
                /\ answer = "waiting" => OutIs(chan, chan', c, "connector", chan[c].out["connector"] \o <<Msg("up", s, k)>>)
                /\ answer = "silent" => SameOut(chan, chan')
                /\ sends' = [sends EXCEPT !["up"][s] = Append(@, answer)]
          BY <1>1, <2>1, <4>4, SendLinkedEffect
        <4>2. answer \in Answers
          BY DEF Answers
        <4> QED  BY <4>1, <4>2
      <3>3. sends' \in SendsType
        BY <1>1, <2>1, <3>2, TellType DEF RestTypes
      <3> QED  BY <1>1, <1>8, <2>2, <3>2, <3>3 DEF SendMessage, Types, RestTypes, Chans
    <2>3. CASE /\ sock' = [sock EXCEPT ![s].queue = Append(@, Msg("up", s, n))]
               /\ sends' = [sends EXCEPT !["up"][s] = Append(@, "waiting")]
               /\ UNCHANGED chan
      <3>1. sends' \in SendsType
        BY <1>1, <2>1, <2>3, TellType DEF RestTypes, Answers
      <3>2. Append(sock[s].queue, Msg("up", s, n)) \in Seq(Numbered)
        BY <1>1, <2>1, ItemTypes, MsgType
      <3>3. sock' \in [Sockets -> SockType]
        BY <1>1, <2>3, <3>2 DEF RestTypes, SockType
      <3> QED  BY <1>1, <1>8, <2>3, <3>1, <3>3 DEF SendMessage, Types, RestTypes, Chans
    <2>4. CASE sends' = [sends EXCEPT !["up"][s] = Append(@, "failed")] /\ UNCHANGED <<sock, chan>>
      <3>1. sends' \in SendsType
        BY <1>1, <2>1, <2>4, TellType DEF RestTypes, Answers
      <3> QED  BY <1>1, <1>8, <2>4, <3>1 DEF SendMessage, Types, RestTypes, Chans
    <2> QED  BY <1>8, <2>2, <2>3, <2>4 DEF SendMessage
  <1>9. ASSUME NEW s \in Sockets, RecvMessage(s) PROVE Types'
    <2>1. sock[s].inbox \in Seq(Numbered) /\ got[s] \in Seq(Numbered)
      BY <1>1, ItemTypes DEF Ends
    <2>2. CASE /\ sock[s].inbox # <<>>
               /\ got' = [got EXCEPT ![s] = Append(@, Head(sock[s].inbox))]
               /\ sock' = [sock EXCEPT ![s].inbox = Tail(@)]
      <3>1. Append(got[s], Head(sock[s].inbox)) \in Seq(Numbered) /\ Tail(sock[s].inbox) \in Seq(Numbered)
        BY <2>1, <2>2
      <3>2. sock' \in [Sockets -> SockType]
        BY <1>1, <2>2, <3>1 DEF RestTypes, SockType
      <3>3. got' \in [Ends -> Seq(Numbered)]
        BY <1>1, <2>2, <3>1 DEF RestTypes
      <3> QED  BY <1>1, <1>9, <3>2, <3>3 DEF RecvMessage, Types, RestTypes, Chans
    <2>3. CASE sock' = [sock EXCEPT ![s].waits = TRUE] /\ UNCHANGED got
      <3>1. sock' \in [Sockets -> SockType]
        BY <1>1, <2>3 DEF RestTypes, SockType
      <3> QED  BY <1>1, <1>9, <2>3, <3>1 DEF RecvMessage, Types, RestTypes, Chans
    <2> QED  BY <1>9, <2>2, <2>3 DEF RecvMessage
  <1>10. ASSUME NEW s \in Sockets, Shutdown(s) PROVE Types'
    <2>1. sends' \in SendsType
      BY <1>1, <1>10, AnswerEffect DEF Shutdown, RestTypes, Answers
    <2>2. sock' \in [Sockets -> SockType]
      <3>1. <<>> \in Seq(Numbered)
        OBVIOUS
      <3> QED  BY <1>1, <1>10, <3>1 DEF Shutdown, RestTypes, SockType, Phases
    <2>3. chan' \in Chans
      BY <1>1, <1>10, ShutdownEffect DEF Shutdown, Side, BooksInv, Connections, Made
    <2>4. left' \in 0 .. Budget
      BY <1>1, <1>10, HappensType DEF Shutdown, RestTypes
    <2> QED  BY <1>1, <1>10, <2>1, <2>2, <2>3, <2>4 DEF Shutdown, Types, RestTypes, Chans
  <1>11. ASSUME NEW i \in Sockets, BinderSend(i) PROVE Types'
    <2> DEFINE n == Len(sends["down"][i]) + 1
    <2>1. n \in Nat /\ "down" \in Dir /\ "binder" \in Side /\ sends["down"][i] \in Seq(Answers)
      BY <1>1 DEF RestTypes, SendsType, Dir, Side
    <2>2. CASE binder.route[i] # 0 /\ SendLinked(binder.route[i], "binder", Msg("down", i, n)) /\ UNCHANGED binder
      <3>1. binder.route[i] \in Conns
        BY <1>1, <2>2 DEF RestTypes, BinderType
      <3>2. chan' \in Chans /\ \E answer \in Answers : sends' = [sends EXCEPT !["down"][i] = Append(@, answer)]
        <4> HIDE DEF n
        <4>3. PICK c \in Conns, k \in Nat : c = binder.route[i] /\ k = n
          BY <2>1, <3>1
        <4>4. SendLinked(c, "binder", Msg("down", i, k))
          BY <2>2, <4>3 DEF SendLinked
        <4>1. PICK answer \in {"waiting", "silent"} :
                /\ chan' \in Chans /\ SameConns(chan, chan') /\ SameWire(chan, chan')
                /\ answer = "waiting" => OutIs(chan, chan', c, "binder", chan[c].out["binder"] \o <<Msg("down", i, k)>>)
                /\ answer = "silent" => SameOut(chan, chan')
                /\ sends' = [sends EXCEPT !["down"][i] = Append(@, answer)]
          BY <1>1, <2>1, <4>4, SendLinkedEffect
        <4>2. answer \in Answers
          BY DEF Answers
        <4> QED  BY <4>1, <4>2
      <3>3. sends' \in SendsType
        BY <1>1, <2>1, <3>2, TellType DEF RestTypes
      <3> QED  BY <1>1, <1>11, <2>2, <3>2, <3>3 DEF BinderSend, Types, RestTypes, Chans
    <2>3. CASE sends' = [sends EXCEPT !["down"][i] = Append(@, "failed")] /\ UNCHANGED <<binder, chan>>
      <3>1. sends' \in SendsType
        BY <1>1, <2>1, <2>3, TellType DEF RestTypes, Answers
      <3> QED  BY <1>1, <1>11, <2>3, <3>1 DEF BinderSend, Types, RestTypes, Chans
    <2>4. CASE /\ binder' = [binder EXCEPT !.pending[i] = Append(@, Msg("down", i, n))]
               /\ sends' = [sends EXCEPT !["down"][i] = Append(@, "waiting")]
               /\ UNCHANGED chan
      <3>1. sends' \in SendsType
        BY <1>1, <2>1, <2>4, TellType DEF RestTypes, Answers
      <3>2. Append(binder.pending[i], Msg("down", i, n)) \in Seq(Numbered)
        BY <1>1, <2>1, ItemTypes, MsgType
      <3>3. binder' \in BinderType
        BY <1>1, <2>4, <3>2 DEF RestTypes, BinderType
      <3> QED  BY <1>1, <1>11, <2>4, <3>1, <3>3 DEF BinderSend, Types, RestTypes, Chans
    <2> QED  BY <1>11, <2>2, <2>3, <2>4 DEF BinderSend
  <1>12. ASSUME NEW i \in Sockets, CloseConnection(i) PROVE Types'
    <2> DEFINE c == binder.route[i]
    <2>1. c \in Conns /\ Remote(c) \in Sockets /\ binder.conns[c] = "established"
      <3>1. c # 0
        BY <1>12 DEF CloseConnection
      <3>2. c \in Identified /\ Remote(c) = i
        BY <3>1 DEF BooksInv, TablesAgree
      <3> QED  BY <3>2 DEF Identified
    <2>2. binder' = Leaves(binder, c, "disconnected") /\ sends' = Answer(sends, Abandoned(c, "disconnected"), "failed")
          /\ chan' = ShutdownClient(chan, c, "binder")
      BY <1>12 DEF CloseConnection
    <2> HIDE DEF c
    <2>3. binder' \in BinderType
      BY <1>1, <2>1, <2>2, LeavesEffect DEF RestTypes
    <2>4. sends' \in SendsType
      BY <1>1, <2>2, AnswerEffect DEF RestTypes, Answers
    <2>5. chan' \in Chans
      BY <1>1, <2>1, <2>2, ShutdownEffect DEF Side
    <2>6. left' \in 0 .. Budget
      BY <1>1, <1>12, HappensType DEF CloseConnection, RestTypes
    <2> QED  BY <1>1, <1>12, <2>3, <2>4, <2>5, <2>6 DEF CloseConnection, Types, RestTypes, Chans
  <1>13. ASSUME BinderRecv PROVE Types'
    <2>1. binder.inbox \in Seq(Numbered) /\ got["binder"] \in Seq(Numbered)
      BY <1>1, ItemTypes DEF Ends
    <2>2. CASE /\ binder.inbox # <<>>
               /\ got' = [got EXCEPT !["binder"] = Append(@, Head(binder.inbox))]
               /\ binder' = [binder EXCEPT !.inbox = Tail(@)]
      <3>1. Append(got["binder"], Head(binder.inbox)) \in Seq(Numbered) /\ Tail(binder.inbox) \in Seq(Numbered)
        BY <2>1, <2>2
      <3>2. binder' \in BinderType
        BY <1>1, <2>2, <3>1 DEF RestTypes, BinderType
      <3>3. got' \in [Ends -> Seq(Numbered)]
        BY <1>1, <2>2, <3>1 DEF RestTypes
      <3> QED  BY <1>1, <1>13, <3>2, <3>3 DEF BinderRecv, Types, RestTypes, Chans
    <2>3. CASE binder' = [binder EXCEPT !.waits = TRUE] /\ UNCHANGED got
      <3>1. binder' \in BinderType
        BY <1>1, <2>3 DEF RestTypes, BinderType
      <3> QED  BY <1>1, <1>13, <2>3, <3>1 DEF BinderRecv, Types, RestTypes, Chans
    <2> QED  BY <1>13, <2>2, <2>3 DEF BinderRecv
  <1>14. ASSUME BinderShutdown PROVE Types'
    <2>1. chan' \in Chans
      BY <1>1, <1>14, BinderShutdownEffect
    <2>2. sends' \in SendsType
      BY <1>1, <1>14, AnswerEffect DEF BinderShutdown, RestTypes, Answers
    <2>3. left' \in 0 .. Budget
      BY <1>1, <1>14, HappensType DEF BinderShutdown, RestTypes
    <2>4. binder' \in BinderType
      <3>1. <<>> \in Seq(Numbered)
        OBVIOUS
      <3> QED  BY <1>1, <1>14, <3>1 DEF BinderShutdown, RestTypes, BinderType, Stages
    <2> QED  BY <1>1, <1>14, <2>1, <2>2, <2>3, <2>4 DEF BinderShutdown, Types, RestTypes, Chans
  <1>15. ASSUME NEW c \in Conns, Cut(c) PROVE Types'
    <2>1. chan' \in Chans
      BY <1>1, <1>15, CutEffect
    <2>2. left' \in 0 .. Budget
      BY <1>1, <1>15, HappensType DEF Cut, RestTypes
    <2> QED  BY <1>1, <1>15, <2>1, <2>2 DEF Cut, Types, RestTypes, Chans
  <1>16. ASSUME NEW s \in Sockets, ConnectRefused(s) PROVE Types'
    <2>1. left' \in 0 .. Budget
      BY <1>1, <1>16, HappensType DEF ConnectRefused, RestTypes
    <2>2. sock' \in [Sockets -> SockType]
      <3>1. sock[s] \in SockType /\ sock[s].tries \in 0 .. MaxRetry
        BY <1>1 DEF RestTypes, SockType
      <3>2. GivesUp(s) \in SockType
        BY <3>1 DEF GivesUp, SockType, Phases
      <3>3. sock[s].tries < MaxRetry => [sock[s] EXCEPT !.tries = sock[s].tries + 1] \in SockType
        <4>1. sock[s].tries < MaxRetry => sock[s].tries + 1 \in 0 .. MaxRetry
          BY <3>1, BoundAssumption
        <4> QED  BY <3>1, <4>1 DEF SockType
      <3>4. sock' = [sock EXCEPT ![s] = IF sock[s].tries < MaxRetry THEN [sock[s] EXCEPT !.tries = sock[s].tries + 1] ELSE GivesUp(s)]
        <4>1. sock' = [sock EXCEPT ![s] = IF sock[s].tries < MaxRetry THEN [sock[s] EXCEPT !.tries = @ + 1] ELSE GivesUp(s)]
          BY <1>16 DEF ConnectRefused
        <4>2. [sock[s] EXCEPT !.tries = @ + 1] = [sock[s] EXCEPT !.tries = sock[s].tries + 1]
          BY <3>1 DEF SockType
        <4>3. CASE sock[s].tries < MaxRetry
          BY <1>1, <4>1, <4>2, <4>3 DEF RestTypes
        <4>4. CASE ~(sock[s].tries < MaxRetry)
          BY <4>1, <4>4
        <4> QED  BY <4>3, <4>4
      <3> QED  BY <1>1, <3>2, <3>3, <3>4 DEF RestTypes
    <2> QED  BY <1>1, <1>16, <2>1, <2>2 DEF ConnectRefused, Types, RestTypes, Chans
  <1>17. ASSUME StrangerLeaves PROVE Types'
    <2>1. binder' \in BinderType
      BY <1>1, <1>17, PurgeEffect DEF StrangerLeaves, RestTypes
    <2> QED  BY <1>1, <1>17, <2>1 DEF StrangerLeaves, Types, RestTypes, Chans
  <1>18. ASSUME Tick PROVE Types'
    <2>1. clock' \in 0 .. MaxTime
      BY <1>1, <1>18, BoundAssumption DEF Tick, RestTypes
    <2> QED  BY <1>1, <1>18, <2>1 DEF Tick, Types, RestTypes, Chans
  <1>19. ASSUME UNCHANGED vars PROVE Types'
    BY <1>1, <1>19 DEF vars, Types, RestTypes, Chans
  <1> QED  BY <1>2, <1>3, <1>4, <1>5, <1>6, <1>7, <1>8, <1>9, <1>10, <1>11, <1>12, <1>13, <1>14, <1>15, <1>16,
              <1>17, <1>18, <1>19 DEF Next, Libuv, User, Network

-----------------------------------------------------------------------------
(* What a list holds.                                                      *)

(* One more at the end.                                                    *)
LEMMA ElemsAppend ==
    ASSUME NEW S, NEW q \in Seq(S), NEW e \in S
    PROVE  Elems(Append(q, e)) = Elems(q) \cup {e}
  <1>1. Len(q) \in Nat /\ DOMAIN q = 1 .. Len(q) /\ DOMAIN Append(q, e) = 1 .. Len(q) + 1
        /\ Append(q, e)[Len(q) + 1] = e /\ \A k \in 1 .. Len(q) : Append(q, e)[k] = q[k]
    OBVIOUS
  <1> DEFINE p == Append(q, e)
  <1> HIDE DEF p
  <1>2. DOMAIN p = 1 .. Len(q) + 1 /\ p[Len(q) + 1] = e /\ \A k \in 1 .. Len(q) : p[k] = q[k]
    BY <1>1 DEF p
  <1>3. ASSUME NEW x \in Elems(p) PROVE x \in Elems(q) \cup {e}
    BY <1>1, <1>2 DEF Elems
  <1>4. ASSUME NEW x \in Elems(q) \cup {e} PROVE x \in Elems(p)
    <2>1. CASE x = e
      <3>1. Len(q) + 1 \in DOMAIN p
        BY <1>1, <1>2
      <3> QED  BY <1>2, <2>1, <3>1 DEF Elems
    <2>2. CASE x \in Elems(q)
      <3>1. PICK k \in DOMAIN q : x = q[k]
        BY <2>2 DEF Elems
      <3>2. k \in DOMAIN p /\ p[k] = x
        BY <1>1, <1>2, <3>1
      <3> QED  BY <3>2 DEF Elems
    <2> QED  BY <2>1, <2>2
  <1> QED  BY <1>3, <1>4 DEF p

(* One list after another.                                                 *)
LEMMA ElemsConcat ==
    ASSUME NEW S, NEW q \in Seq(S), NEW r \in Seq(S)
    PROVE  Elems(q \o r) = Elems(q) \cup Elems(r)
  <1>1. Len(q) \in Nat /\ Len(r) \in Nat /\ DOMAIN q = 1 .. Len(q) /\ DOMAIN r = 1 .. Len(r)
    BY LenProperties
  <1> DEFINE p == q \o r
  <1>2. DOMAIN p = 1 .. Len(q) + Len(r) /\ \A k \in 1 .. Len(q) + Len(r) : p[k] = IF k <= Len(q) THEN q[k] ELSE r[k - Len(q)]
    BY ConcatProperties, LenProperties
  <1> HIDE DEF p
  <1>3. ASSUME NEW x \in Elems(p) PROVE x \in Elems(q) \cup Elems(r)
    <2>1. PICK k \in 1 .. Len(q) + Len(r) : x = p[k]
      BY <1>2 DEF Elems
    <2>2. CASE k <= Len(q)
      <3>1. k \in DOMAIN q /\ x = q[k]
        BY <1>1, <1>2, <2>1, <2>2
      <3> QED  BY <3>1 DEF Elems
    <2>3. CASE ~(k <= Len(q))
      <3>1. k - Len(q) \in DOMAIN r /\ x = r[k - Len(q)]
        BY <1>1, <1>2, <2>1, <2>3
      <3> QED  BY <3>1 DEF Elems
    <2> QED  BY <2>2, <2>3
  <1>4. ASSUME NEW x \in Elems(q) PROVE x \in Elems(p)
    <2>1. PICK k \in DOMAIN q : x = q[k]
      BY DEF Elems
    <2>2. k \in DOMAIN p /\ p[k] = x
      BY <1>1, <1>2, <2>1
    <2> QED  BY <2>2 DEF Elems
  <1>5. ASSUME NEW x \in Elems(r) PROVE x \in Elems(p)
    <2>1. PICK k \in DOMAIN r : x = r[k]
      BY DEF Elems
    <2>2. k + Len(q) \in DOMAIN p /\ ~(k + Len(q) <= Len(q)) /\ (k + Len(q)) - Len(q) = k
      BY <1>1, <1>2, <2>1
    <2>3. p[k + Len(q)] = x
      BY <1>2, <2>1, <2>2
    <2> QED  BY <2>2, <2>3 DEF Elems
  <1> QED  BY <1>3, <1>4, <1>5 DEF p

(* The first one taken off.                                                *)
LEMMA ElemsTail ==
    ASSUME NEW S, NEW q \in Seq(S), q # <<>>
    PROVE  Elems(q) = {Head(q)} \cup Elems(Tail(q))
  <1>1. Len(q) \in Nat \ {0} /\ DOMAIN q = 1 .. Len(q) /\ Head(q) = q[1]
    BY LenProperties, EmptySeq
  <1> DEFINE t == Tail(q)
  <1>2. DOMAIN t = 1 .. Len(q) - 1 /\ \A k \in 1 .. Len(q) - 1 : t[k] = q[k + 1]
    BY HeadTailProperties, LenProperties
  <1> HIDE DEF t
  <1>3. ASSUME NEW x \in Elems(q) PROVE x \in {Head(q)} \cup Elems(t)
    <2>1. PICK k \in DOMAIN q : x = q[k]
      BY DEF Elems
    <2>2. CASE k = 1
      BY <1>1, <2>1, <2>2
    <2>3. CASE k # 1
      <3>1. k - 1 \in DOMAIN t /\ (k - 1) + 1 = k
        BY <1>1, <1>2, <2>1, <2>3
      <3>2. t[k - 1] = x
        BY <1>2, <2>1, <3>1
      <3> QED  BY <3>1, <3>2 DEF Elems
    <2> QED  BY <2>2, <2>3
  <1>4. Head(q) \in Elems(q)
    BY <1>1 DEF Elems
  <1>5. ASSUME NEW x \in Elems(t) PROVE x \in Elems(q)
    <2>1. PICK k \in DOMAIN t : x = t[k]
      BY DEF Elems
    <2>2. k + 1 \in DOMAIN q /\ q[k + 1] = x
      BY <1>1, <1>2, <2>1
    <2> QED  BY <2>2 DEF Elems
  <1> QED  BY <1>3, <1>4, <1>5 DEF t

(* The beginning of a list.                                                *)
LEMMA ElemsPrefix ==
    ASSUME NEW S, NEW q \in Seq(S), NEW n \in 0 .. Len(q)
    PROVE  SubSeq(q, 1, n) \in Seq(S) /\ Elems(SubSeq(q, 1, n)) \subseteq Elems(q)
  <1>1. Len(q) \in Nat /\ DOMAIN q = 1 .. Len(q)
    BY LenProperties
  <1> DEFINE p == SubSeq(q, 1, n)
  <1>2. p \in Seq(S) /\ DOMAIN p = 1 .. n /\ \A k \in 1 .. n : p[k] = q[k]
    OBVIOUS
  <1> HIDE DEF p
  <1>3. \A k \in DOMAIN p : k \in DOMAIN q /\ p[k] = q[k]
    BY <1>1, <1>2
  <1> QED  BY <1>2, <1>3 DEF Elems, p

(* Nothing is in the empty list, and what is in a list has its type.       *)
LEMMA ElemsBasic ==
    /\ Elems(<<>>) = {}
    /\ \A S : \A q \in Seq(S) : Elems(q) \subseteq S
    /\ \A S : \A e \in S : Elems(<<e>>) = {e}
  <1>1. Elems(<<>>) = {}
    BY DEF Elems
  <1>2. ASSUME NEW S, NEW q \in Seq(S) PROVE Elems(q) \subseteq S
    BY DEF Elems
  <1>3. ASSUME NEW S, NEW e \in S PROVE Elems(<<e>>) = {e}
    <2>1. DOMAIN <<e>> = {1} /\ <<e>>[1] = e
      OBVIOUS
    <2> QED  BY <2>1 DEF Elems
  <1> QED  BY <1>1, <1>2, <1>3

-----------------------------------------------------------------------------
(* A connection error is met on a cut connection only.                     *)

(* Libuv is left with another list at one end.                             *)
LEMMA NoneWrittenOut ==
    ASSUME NoneWritten, NEW c \in Conns, NEW side \in Side, NEW q, OutIs(chan, chan', c, side, q), Rst \notin Elems(q)
    PROVE  NoneWritten'
  <1> SUFFICES ASSUME NEW d \in Conns, NEW f \in Side PROVE Rst \notin Elems(chan'[d].out[f])
    BY DEF NoneWritten
  <1>1. CASE d = c /\ f = side
    BY <1>1 DEF OutIs
  <1>2. CASE ~(d = c /\ f = side)
    <2>1. chan'[d].out[f] = chan[d].out[f]
      BY <1>2 DEF OutIs
    <2> QED  BY <2>1 DEF NoneWritten
  <1> QED  BY <1>1, <1>2

(* Another list can be read at one end.                                    *)
LEMMA OnlyWhenCutWire ==
    ASSUME OnlyWhenCut, NEW c \in Conns, NEW side \in Side, NEW q, WireIs(chan, chan', c, side, q), SameConns(chan, chan'),
           Rst \in Elems(q) => chan[c].cut
    PROVE  OnlyWhenCut'
  <1> SUFFICES ASSUME NEW d \in Conns, NEW f \in Side, Rst \in Elems(chan'[d].wire[f]) PROVE chan'[d].cut
    BY DEF OnlyWhenCut
  <1>1. chan'[d].cut = chan[d].cut
    BY DEF SameConns
  <1>2. CASE d = c /\ f = side
    BY <1>1, <1>2 DEF WireIs
  <1>3. CASE ~(d = c /\ f = side)
    <2>1. chan'[d].wire[f] = chan[d].wire[f]
      BY <1>3 DEF WireIs
    <2> QED  BY <1>1, <2>1 DEF OnlyWhenCut
  <1> QED  BY <1>2, <1>3

(* What is left alone stays as it is.                                      *)
LEMMA ResetsSame ==
    /\ NoneWritten /\ SameOut(chan, chan') => NoneWritten'
    /\ OnlyWhenCut /\ SameWire(chan, chan') /\ SameConns(chan, chan') => OnlyWhenCut'
  BY DEF NoneWritten, OnlyWhenCut, SameOut, SameWire, SameConns

(* Messages are no connection errors.                                      *)
LEMMA QueueClean ==
    ASSUME NEW q \in Seq(Numbered)
    PROVE  Rst \notin Elems(q)
  BY ElemsBasic, Kinds

(* onRead at either end.                                                   *)
LEMMA TakesOffResets ==
    ASSUME Types, Resets, NEW c \in Conns, NEW side \in Side, TakesOff(c, side), chan[c].wire[Other(side)] # <<>>
    PROVE  Resets'
  <1> DEFINE w == chan[c].wire[Other(side)]
             o == chan[c].out[side]
  <1>1. Other(side) \in Side
    BY DEF Other, Side
  <1>2. w \in Seq(Item) /\ o \in Seq(Item) /\ Head(w) \in Item
    BY <1>1, ItemTypes
  <1>3. OnlyWhenCut'
    <2>1. Rst \in Elems(Tail(w)) => chan[c].cut
      BY <1>1, <1>2, ElemsTail DEF Resets, OnlyWhenCut
    <2> QED  BY <1>1, <2>1, OnlyWhenCutWire DEF TakesOff, Resets
  <1>4. NoneWritten'
    <2>1. CASE Head(w) \notin {Fin, Rst}
      BY <2>1, ResetsSame DEF TakesOff, Resets
    <2>2. CASE Head(w) = Fin
      <3>1. Rst \notin Elems(Append(o, Fin))
        <4>1. Fin \in Item /\ Rst \notin Elems(o)
          BY DEF Item, Resets, NoneWritten
        <4> QED  BY <1>2, <4>1, ElemsAppend, Kinds
      <3>2. OutIs(chan, chan', c, side, Append(o, Fin))
        BY <2>2 DEF TakesOff
      <3> QED  BY <3>1, <3>2, NoneWrittenOut DEF Resets
    <2>3. CASE Head(w) = Rst
      <3>1. OutIs(chan, chan', c, side, <<>>)
        BY <2>3 DEF TakesOff
      <3> QED  BY <3>1, ElemsBasic, NoneWrittenOut DEF Resets
    <2> QED  BY <2>1, <2>2, <2>3
  <1> QED  BY <1>3, <1>4 DEF Resets

(* The client of one end is shut down.                                     *)
LEMMA ShutdownResets ==
    ASSUME Types, Resets, NEW c \in Conns, NEW side \in Side, chan' = ShutdownClient(chan, c, side)
    PROVE  Resets'
  <1> DEFINE o == chan[c].out[side]
  <1>1. chan \in Chans /\ o \in Seq(Item) /\ Fin \in Item /\ Rst \notin Elems(o)
    BY ItemTypes DEF Types, Chans, Item, Resets, NoneWritten
  <1>2. Rst \notin Elems(Append(o, Fin))
    BY <1>1, ElemsAppend, Kinds
  <1>3. SameConns(chan, chan') /\ SameWire(chan, chan') /\ OutIs(chan, chan', c, side, Append(o, Fin))
    BY <1>1, ShutdownEffect
  <1> QED  BY <1>2, <1>3, NoneWrittenOut, ResetsSame DEF Resets

(* A message is sent, or dropped.                                          *)
LEMMA SendLinkedResets ==
    ASSUME Types, Resets, NEW c \in Conns, NEW side \in Side, NEW d \in Dir, NEW s \in Sockets, NEW n \in Nat,
           SendLinked(c, side, Msg(d, s, n))
    PROVE  Resets'
  <1>1. PICK answer \in {"waiting", "silent"} :
          /\ chan' \in Chans /\ SameConns(chan, chan') /\ SameWire(chan, chan')
          /\ answer = "waiting" => OutIs(chan, chan', c, side, chan[c].out[side] \o <<Msg(d, s, n)>>)
          /\ answer = "silent" => SameOut(chan, chan')
          /\ sends' = [sends EXCEPT ![d][s] = Append(@, answer)]
    BY SendLinkedEffect
  <1> DEFINE o == chan[c].out[side]
             m == Msg(d, s, n)
  <1>2. Rst \notin Elems(o \o <<m>>)
    <2>1. m \in Item /\ m # Rst /\ o \in Seq(Item) /\ Rst \notin Elems(o)
      BY MsgType, ItemTypes, Kinds DEF Resets, NoneWritten
    <2> DEFINE one == <<m>>
    <2> HIDE DEF m, o
    <2>2. one \in Seq(Item) /\ Elems(one) = {m}
      BY <2>1, ElemsBasic
    <2> HIDE DEF one
    <2>3. Rst \notin Elems(o \o one)
      BY <2>1, <2>2, ElemsConcat
    <2> QED  BY <2>3 DEF one
  <1>3. OnlyWhenCut'
    BY <1>1, ResetsSame DEF Resets
  <1>4. NoneWritten'
    <2>1. CASE answer = "waiting"
      BY <1>1, <1>2, <2>1, NoneWrittenOut DEF Resets
    <2>2. CASE answer = "silent"
      BY <1>1, <2>2, ResetsSame DEF Resets
    <2> QED  BY <2>1, <2>2
  <1> QED  BY <1>3, <1>4 DEF Resets

(* No step breaks it.                                                      *)
LEMMA ResetsStep ==
    ASSUME BooksInv, [Next]_vars
    PROVE  Resets'
  <1>1. Types /\ RestTypes /\ Resets /\ NoneWritten /\ OnlyWhenCut /\ chan \in Chans
    BY DEF BooksInv, Types, RestTypes, Chans, Resets
  <1>2. \A c \in Conns, side \in Side : chan[c].out[side] \in Seq(Item) /\ chan[c].wire[side] \in Seq(Item)
    BY <1>1, ItemTypes
  <1>3. "connector" \in Side /\ "binder" \in Side /\ Hello \in Item /\ Fin \in Item /\ Rst \in Item
    BY DEF Side, Item
  <1>4. \A c \in Conns, side \in Side : Rst \notin Elems(chan[c].out[side])
    BY <1>1 DEF NoneWritten
  <1>5. ASSUME NEW c \in Conns, NEW side \in Side, Flush(c, side) PROVE Resets'
    <2> DEFINE o == chan[c].out[side]
               w == chan[c].wire[side]
    <2>1. o # <<>> /\ o \in Seq(Item) /\ w \in Seq(Item) /\ Rst \notin Elems(o)
      BY <1>2, <1>4, <1>5 DEF Flush
    <2>2. Head(o) \in Item /\ Head(o) # Rst /\ Rst \notin Elems(Tail(o))
      BY <2>1, ElemsTail
    <2>3. Rst \in Elems(Append(w, Head(o))) => chan[c].cut
      BY <1>1, <2>1, <2>2, ElemsAppend DEF OnlyWhenCut
    <2>4. SameConns(chan, chan') /\ OutIs(chan, chan', c, side, Tail(o)) /\ WireIs(chan, chan', c, side, Append(w, Head(o)))
      BY <1>1, <1>5, FlushEffect
    <2>5. NoneWritten'
      BY <1>1, <2>2, <2>4, NoneWrittenOut
    <2>6. OnlyWhenCut'
      BY <1>1, <2>3, <2>4, OnlyWhenCutWire
    <2> QED  BY <2>5, <2>6 DEF Resets
  <1>6. ASSUME NEW c \in Conns, NEW side \in Side, OnWriteDone(c, side) PROVE Resets'
    <2> DEFINE o == chan[c].out[side]
    <2>1. o # <<>> /\ o \in Seq(Item) /\ Rst \notin Elems(o)
      BY <1>2, <1>4, <1>6 DEF OnWriteDone
    <2>2. Rst \notin Elems(Tail(o))
      BY <2>1, ElemsTail
    <2>3. SameConns(chan, chan') /\ SameWire(chan, chan') /\ OutIs(chan, chan', c, side, Tail(o))
      BY <1>1, <1>6, OnWriteDoneEffect
    <2>4. NoneWritten'
      BY <1>1, <2>2, <2>3, NoneWrittenOut
    <2> QED  BY <1>1, <2>3, <2>4, ResetsSame DEF Resets
  <1>7. ASSUME NEW c \in Conns, Accept(c) PROVE Resets'
    <2> DEFINE o == chan[c].out["binder"]
               hi == <<Hello>>
    <2>1. hi \in Seq(Item) /\ Elems(hi) = {Hello} /\ o \in Seq(Item) /\ Rst \notin Elems(o)
      BY <1>2, <1>3, <1>4, ElemsBasic
    <2>2. chan' = Write(chan, c, "binder", hi)
      BY <1>7 DEF Accept
    <2> HIDE DEF hi
    <2>3. SameConns(chan, chan') /\ SameWire(chan, chan') /\ OutIs(chan, chan', c, "binder", o \o hi)
      BY <1>1, <1>3, <2>1, <2>2, WriteEffect
    <2>4. Rst \notin Elems(o \o hi)
      BY <2>1, ElemsConcat, Kinds
    <2>5. NoneWritten'
      BY <1>1, <1>3, <2>3, <2>4, NoneWrittenOut
    <2> QED  BY <1>1, <2>3, <2>5, ResetsSame DEF Resets
  <1>8. ASSUME NEW c \in Conns, BinderOnRead(c) PROVE Resets'
    <2> DEFINE w == chan[c].wire["connector"]
    <2>1. Other("binder") = "connector" /\ w # <<>> /\ w \in Seq(Item)
      BY <1>2, <1>3, <1>8 DEF Other, BinderOnRead
    <2>2. CASE Head(w) # Hello
      BY <1>1, <1>3, <1>8, <2>1, <2>2, BinderOnReadTypes, TakesOffResets
    <2>3. CASE Head(w) = Hello
      <3> DEFINE i == Remote(c)
                 old == binder.route[i]
                 q == binder.pending[i]
      <3>1. i \in Sockets /\ binder \in BinderType
        BY <1>1, <1>8, BinderOnReadTypes DEF RestTypes
      <3>2. old \in Conns \cup {0} /\ q \in Seq(Numbered)
        BY <3>1 DEF BinderType
      <3>3. LET read == [chan EXCEPT ![c].wire["connector"] = Tail(@)]
            IN  chan' = Write(IF old = 0 THEN read ELSE ShutdownClient(read, old, "binder"), c, "binder", q)
        BY <1>8, <2>3, Kinds DEF BinderOnRead
      <3> HIDE DEF old, q
      <3>4. /\ SameConns(chan, chan') /\ WireIs(chan, chan', c, "connector", Tail(w))
            /\ \A d \in Conns : chan'[d].out["connector"] = chan[d].out["connector"]
            /\ \A d \in Conns \ {c} : chan'[d].out["binder"] =
                  IF d = old THEN Append(chan[d].out["binder"], Fin) ELSE chan[d].out["binder"]
            /\ chan'[c].out["binder"] =
                  (IF c = old THEN Append(chan[c].out["binder"], Fin) ELSE chan[c].out["binder"]) \o q
        BY <1>1, <2>1, <3>2, <3>3, IdentifyWrites
      <3>5. Rst \in Elems(Tail(w)) => chan[c].cut
        BY <1>1, <1>3, <2>1, ElemsTail DEF OnlyWhenCut
      <3>6. OnlyWhenCut'
        BY <1>1, <1>3, <3>4, <3>5, OnlyWhenCutWire
      <3>7. \A d \in Conns : Rst \notin Elems(Append(chan[d].out["binder"], Fin)) /\ Append(chan[d].out["binder"], Fin) \in Seq(Item)
        BY <1>2, <1>3, <1>4, ElemsAppend, Kinds
      <3>8. Rst \notin Elems(chan'[c].out["binder"])
        <4> DEFINE p == IF c = old THEN Append(chan[c].out["binder"], Fin) ELSE chan[c].out["binder"]
        <4>1. p \in Seq(Item) /\ Rst \notin Elems(p)
          BY <1>2, <1>3, <1>4, <3>7
        <4>2. q \in Seq(Item) /\ Rst \notin Elems(q)
          BY <3>2, QueueWritable, QueueClean
        <4>3. chan'[c].out["binder"] = p \o q
          BY <3>4
        <4> HIDE DEF p
        <4> QED  BY <4>1, <4>2, <4>3, ElemsConcat
      <3>9. ASSUME NEW d \in Conns, NEW f \in Side PROVE Rst \notin Elems(chan'[d].out[f])
        <4>1. CASE f = "connector"
          BY <1>4, <3>4, <4>1
        <4>2. CASE f = "binder" /\ d = c
          BY <3>8, <4>2
        <4>3. CASE f = "binder" /\ d # c
          BY <1>3, <1>4, <3>4, <3>7, <4>3
        <4> QED  BY <4>1, <4>2, <4>3 DEF Side
      <3> QED  BY <3>6, <3>9 DEF Resets, NoneWritten
    <2> QED  BY <2>2, <2>3
  <1>9. ASSUME NEW s \in Sockets, OnClientConnected(s) PROVE Resets'
    <2>1. PICK c \in Conns \ Made :
              /\ \A e \in Conns \ Made : c <= e
              /\ chan' \in Chans /\ SameWire(chan, chan')
              /\ \A d \in Conns : chan'[d].made = (IF d = c THEN TRUE ELSE chan[d].made)
                                  /\ chan'[d].socket = (IF d = c THEN s ELSE chan[d].socket)
                                  /\ chan'[d].cut = chan[d].cut
              /\ OutIs(chan, chan', c, "connector", chan[c].out["connector"] \o (<<Hello>> \o sock[s].queue))
              /\ sock' = [sock EXCEPT ![s] = LinkedBy(s, c)]
      BY <1>1, <1>9, OnClientConnectedEffect
    <2> DEFINE o == chan[c].out["connector"]
               hi == <<Hello>>
               q == sock[s].queue
    <2>2. hi \in Seq(Item) /\ Elems(hi) = {Hello} /\ o \in Seq(Item) /\ Rst \notin Elems(o) /\ q \in Seq(Item) /\ Rst \notin Elems(q)
      BY <1>1, <1>2, <1>3, <1>4, ElemsBasic, ItemTypes, QueueWritable, QueueClean
    <2>3. OutIs(chan, chan', c, "connector", o \o (hi \o q))
      BY <2>1
    <2> HIDE DEF o, hi, q
    <2>4. hi \o q \in Seq(Item) /\ Rst \notin Elems(hi \o q)
      BY <2>2, ElemsConcat, ConcatProperties, Kinds
    <2>5. Rst \notin Elems(o \o (hi \o q))
      <3> DEFINE hq == hi \o q
      <3>1. hq \in Seq(Item) /\ Rst \notin Elems(hq)
        BY <2>4
      <3> HIDE DEF hq
      <3>2. Rst \notin Elems(o \o hq)
        BY <2>2, <3>1, ElemsConcat
      <3> QED  BY <3>2 DEF hq
    <2>6. NoneWritten'
      BY <1>1, <1>3, <2>3, <2>5, NoneWrittenOut
    <2>7. OnlyWhenCut'
      BY <1>1, <2>1 DEF OnlyWhenCut, SameWire
    <2> QED  BY <2>6, <2>7 DEF Resets
  <1>10. ASSUME NEW s \in Sockets, OnRead(s) PROVE Resets'
    <2>1. PICK c \in Conns : c = sock[s].conn
      BY <1>10, OnReadTypes DEF Made
    <2>2. Other("connector") = "binder" /\ chan[c].wire["binder"] # <<>> /\ TakesOff(c, "connector")
      BY <1>10, <2>1, OnReadTypes DEF Other, OnRead, TakesOff
    <2> QED  BY <1>1, <1>3, <2>2, TakesOffResets
  <1>11. ASSUME NEW s \in Sockets, SendMessage(s) PROVE Resets'
    <2>1. CASE chan' = chan
      BY <1>1, <2>1 DEF Resets, NoneWritten, OnlyWhenCut
    <2>2. CASE chan' # chan
      <3>1. PICK c \in Conns, n \in Nat : c = sock[s].conn /\ n = Len(sends["up"][s]) + 1
        BY <1>1, <1>11, <2>2 DEF SendMessage, BooksInv, Connections, Made, RestTypes, SendsType, Dir
      <3>2. SendLinked(c, "connector", Msg("up", s, n))
        BY <1>11, <2>2, <3>1 DEF SendMessage, SendLinked
      <3> QED  BY <1>1, <1>3, <3>2, SendLinkedResets DEF Dir
    <2> QED  BY <2>1, <2>2
  <1>12. ASSUME NEW s \in Sockets, Shutdown(s) PROVE Resets'
    <2>1. CASE chan' = chan
      BY <1>1, <2>1 DEF Resets, NoneWritten, OnlyWhenCut
    <2>2. CASE chan' # chan
      <3>1. PICK c \in Conns : c = sock[s].conn
        BY <1>12, <2>2 DEF Shutdown, BooksInv, Connections, Made
      <3>2. chan' = ShutdownClient(chan, c, "connector")
        BY <1>12, <2>2, <3>1 DEF Shutdown
      <3> QED  BY <1>1, <1>3, <3>2, ShutdownResets
    <2> QED  BY <2>1, <2>2
  <1>13. ASSUME NEW i \in Sockets, BinderSend(i) PROVE Resets'
    <2>1. CASE chan' = chan
      BY <1>1, <2>1 DEF Resets, NoneWritten, OnlyWhenCut
    <2>2. CASE chan' # chan
      <3>1. PICK c \in Conns, n \in Nat : c = binder.route[i] /\ n = Len(sends["down"][i]) + 1
        BY <1>1, <1>13, <2>2 DEF BinderSend, RestTypes, BinderType, SendsType, Dir
      <3>2. SendLinked(c, "binder", Msg("down", i, n))
        BY <1>13, <2>2, <3>1 DEF BinderSend, SendLinked
      <3> QED  BY <1>1, <1>3, <3>2, SendLinkedResets DEF Dir
    <2> QED  BY <2>1, <2>2
  <1>14. ASSUME NEW i \in Sockets, CloseConnection(i) PROVE Resets'
    <2>1. PICK c \in Conns : c = binder.route[i]
      BY <1>1, <1>14 DEF CloseConnection, RestTypes, BinderType
    <2>2. chan' = ShutdownClient(chan, c, "binder")
      BY <1>14, <2>1 DEF CloseConnection
    <2> QED  BY <1>1, <1>3, <2>2, ShutdownResets
  <1>15. ASSUME BinderShutdown PROVE Resets'
    <2> DEFINE reset(d) == ~Held(d) /\ chan[d].made /\ binder.conns[d] = "new" /\ ~chan[d].cut
    <2>1. \A d \in Conns :
            /\ chan'[d].cut = (chan[d].cut \/ reset(d))
            /\ chan'[d].wire["connector"] = chan[d].wire["connector"]
            /\ chan'[d].wire["binder"] = IF reset(d) THEN <<Rst>> ELSE chan[d].wire["binder"]
            /\ chan'[d].out["connector"] = chan[d].out["connector"]
            /\ chan'[d].out["binder"] = IF Held(d) THEN Append(chan[d].out["binder"], Fin) ELSE chan[d].out["binder"]
      BY <1>1, <1>15, BinderShutdownEffect
    <2> HIDE DEF reset
    <2>2. \A d \in Conns : Rst \notin Elems(Append(chan[d].out["binder"], Fin))
      BY <1>2, <1>3, <1>4, ElemsAppend, Kinds
    <2>3. ASSUME NEW d \in Conns, NEW f \in Side PROVE Rst \notin Elems(chan'[d].out[f])
      BY <1>3, <1>4, <2>1, <2>2 DEF Side
    <2>4. ASSUME NEW d \in Conns, NEW f \in Side, Rst \in Elems(chan'[d].wire[f]) PROVE chan'[d].cut
      <3>1. Rst \in Elems(chan[d].wire[f]) => chan[d].cut
        BY <1>1 DEF OnlyWhenCut
      <3> QED  BY <2>1, <2>4, <3>1 DEF Side
    <2> QED  BY <2>3, <2>4 DEF Resets, NoneWritten, OnlyWhenCut
  <1>16. ASSUME NEW c \in Conns, Cut(c) PROVE Resets'
    <2>1. /\ SameOut(chan, chan')
          /\ \A d \in Conns : chan'[d].cut = IF d = c THEN TRUE ELSE chan[d].cut
          /\ \A d \in Conns, side \in Side : d # c => chan'[d].wire[side] = chan[d].wire[side]
      BY <1>1, <1>16, CutEffect
    <2>2. OnlyWhenCut'
      BY <1>1, <2>1 DEF OnlyWhenCut
    <2> QED  BY <1>1, <2>1, <2>2, ResetsSame DEF Resets
  <1>17. CASE chan' = chan
    BY <1>1, <1>17 DEF Resets, NoneWritten, OnlyWhenCut
  <1>18. ASSUME NEW s \in Sockets, Connect(s) \/ RecvMessage(s) \/ ConnectRefused(s) PROVE Resets'
    BY <1>17, <1>18 DEF Connect, RecvMessage, ConnectRefused
  <1>19. ASSUME BinderRecv \/ StrangerLeaves \/ Tick \/ UNCHANGED vars PROVE Resets'
    BY <1>17, <1>19 DEF BinderRecv, StrangerLeaves, Tick, vars
  <1> QED  BY <1>5, <1>6, <1>7, <1>8, <1>9, <1>10, <1>11, <1>12, <1>13, <1>14, <1>15, <1>16, <1>18, <1>19
           DEF Next, Libuv, User, Network

-----------------------------------------------------------------------------
(* The connections.                                                        *)

\* What a step may do to a socket: keep its connection, or drop it; one that goes on
\* connecting has dropped a connection that is cut.
SockGoes(s) ==
    /\ sock'[s].conn # 0 <=> Linked(s)'
    /\ Linked(s)' => sock'[s].queue = <<>> /\ sock'[s].conn = sock[s].conn
    /\ Present(s)' => Present(s) /\ (sock'[s].conn = sock[s].conn \/ chan[sock[s].conn].cut)
\* What it may do to the binder's connections.
BinderGoes ==
    /\ \A c \in Conns \ Made : binder'.conns[c] = "new"
    /\ ~binder'.open => \A c \in Conns : ~Held(c)'

(* A step that makes no connection.                                        *)
LEMMA ConnectionsKept ==
    ASSUME Types, Connections, SameMade(chan, chan'), \A c \in Conns : chan[c].cut => chan'[c].cut,
           BinderGoes, \A s \in Sockets : SockGoes(s)
    PROVE  Connections'
  <1>1. Made' = Made /\ \A c \in Conns : Remote(c)' = Remote(c)
    BY DEF Made, SameMade, Remote
  <1>2. \A c \in Made' : Remote(c)' \in Sockets /\ \A d \in 1 .. c : d \in Made'
    BY <1>1 DEF Connections, Made
  <1>3. \A c \in Conns \ Made' : binder'.conns[c] = "new"
    BY <1>1 DEF BinderGoes
  <1>4. ASSUME NEW s \in Sockets
        PROVE  /\ sock'[s].conn # 0 <=> Linked(s)'
               /\ Linked(s)' => sock'[s].queue = <<>> /\ sock'[s].conn \in Made' /\ chan'[sock'[s].conn].socket = s
               /\ Present(s)' => \A c \in Made' : Remote(c)' = s /\ c # sock'[s].conn => chan'[c].cut
    <2>1. sock'[s].conn # 0 <=> Linked(s)'
      BY DEF SockGoes
    <2>2. ASSUME Linked(s)' PROVE sock'[s].queue = <<>> /\ sock'[s].conn \in Made' /\ chan'[sock'[s].conn].socket = s
      <3>1. sock'[s].queue = <<>> /\ sock'[s].conn = sock[s].conn /\ sock[s].conn # 0
        BY <2>1, <2>2 DEF SockGoes
      <3>2. sock[s].conn \in Made /\ chan[sock[s].conn].socket = s
        BY <3>1 DEF Connections, Remote
      <3>3. chan'[sock[s].conn].socket = s
        BY <3>2 DEF SameMade, Made
      <3> QED  BY <1>1, <3>1, <3>2, <3>3
    <2>3. ASSUME Present(s)', NEW c \in Made', Remote(c)' = s, c # sock'[s].conn PROVE chan'[c].cut
      <3>1. c \in Made /\ Remote(c) = s /\ c \in Conns
        BY <1>1, <2>3 DEF Made
      <3>2. Present(s) /\ (sock'[s].conn = sock[s].conn \/ chan[sock[s].conn].cut)
        BY <2>3 DEF SockGoes
      <3>3. c # sock[s].conn => chan[c].cut
        BY <3>1, <3>2 DEF Connections
      <3>4. chan[c].cut
        <4>1. CASE c = sock[s].conn
          BY <2>3, <3>2, <4>1
        <4>2. CASE c # sock[s].conn
          BY <3>3, <4>2
        <4> QED  BY <4>1, <4>2
      <3> QED  BY <3>1, <3>4
    <2> QED  BY <2>1, <2>2, <2>3
  <1>5. \A c, d \in Made' : c < d /\ Remote(c)' = Remote(d)' => chan'[c].cut
    BY <1>1 DEF Connections, Made
  <1> QED  BY <1>2, <1>3, <1>4, <1>5 DEF Connections, BinderGoes, Remote

(* A socket or a binder that does not move.                                *)
LEMMA StandsStill ==
    /\ Connections /\ sock' = sock => \A s \in Sockets : SockGoes(s)
    /\ Connections /\ binder' = binder => BinderGoes
    /\ Connections /\ binder'.conns = binder.conns /\ binder'.open = binder.open => BinderGoes
  BY DEF Connections, SockGoes, BinderGoes, Linked, Present, Held

(* A connection that keeps its makers keeps the rest of them.              *)
LEMMA ConnsKeepMade ==
    ASSUME NEW old, NEW new, SameConns(old, new)
    PROVE  SameMade(old, new) /\ \A c \in Conns : old[c].cut => new[c].cut
  BY DEF SameConns, SameMade

(* onClientConnected makes the next connection.                            *)
LEMMA ConnectionMade ==
    ASSUME BooksInv, NEW s \in Sockets, OnClientConnected(s)
    PROVE  Connections'
  <1>1. Types /\ Connections
    BY DEF BooksInv
  <1>2. PICK c \in Conns \ Made :
              /\ \A e \in Conns \ Made : c <= e
              /\ chan' \in Chans /\ SameWire(chan, chan')
              /\ \A d \in Conns : chan'[d].made = (IF d = c THEN TRUE ELSE chan[d].made)
                                  /\ chan'[d].socket = (IF d = c THEN s ELSE chan[d].socket)
                                  /\ chan'[d].cut = chan[d].cut
              /\ OutIs(chan, chan', c, "connector", chan[c].out["connector"] \o (<<Hello>> \o sock[s].queue))
              /\ sock' = [sock EXCEPT ![s] = LinkedBy(s, c)]
    BY <1>1, OnClientConnectedEffect
  <1>3. Made' = Made \cup {c} /\ c \notin Made /\ c \in Conns /\ Remote(c)' = s
        /\ \A d \in Made : d \in Conns /\ Remote(d)' = Remote(d)
    BY <1>2 DEF Made, Remote
  <1>4. Conns \subseteq Nat /\ \A d \in Conns : \A e \in 1 .. d : e \in Conns
    BY BoundAssumption DEF Conns
  <1>5. sock[s].phase \in {"opening", "connecting"} /\ sock[s].conn = 0 /\ Present(s) /\ binder' = binder /\ binder.open
    BY <1>1 DEF OnClientConnected, Connections, Linked, Present
  <1>6. /\ sock'[s].phase = "connected" /\ sock'[s].conn = c /\ sock'[s].queue = <<>>
        /\ \A t \in Sockets \ {s} : sock'[t] = sock[t]
    BY <1>1, <1>2 DEF LinkedBy, Types, SockType
  <1>7. \A d \in Made' : Remote(d)' \in Sockets /\ \A e \in 1 .. d : e \in Made'
    <2>1. ASSUME NEW e \in 1 .. c, e # c PROVE e \in Made
      <3>1. e \in Conns /\ c \in Nat /\ e \in Nat /\ e <= c
        BY <1>3, <1>4
      <3>2. ~(c <= e)
        BY <2>1, <3>1
      <3> QED  BY <1>2, <3>1, <3>2
    <2>2. \A d \in Made : Remote(d) \in Sockets /\ \A e \in 1 .. d : e \in Made
      BY <1>1 DEF Connections
    <2> QED  BY <1>3, <2>1, <2>2
  <1>8. \A d \in Conns \ Made' : binder'.conns[d] = "new"
    BY <1>1, <1>3, <1>5 DEF Connections
  <1>9. \A d \in Made : d < c
    <2>1. ASSUME NEW d \in Made, ~(d < c) PROVE FALSE
      <3>1. c \in 1 .. d
        BY <1>3, <1>4, <2>1 DEF Conns
      <3> QED  BY <1>1, <1>3, <3>1 DEF Connections
    <2> QED  BY <2>1
  <1>10. \A d \in Made : Remote(d) = s => chan[d].cut
    <2>1. \A d \in Made : d # 0
      BY <1>3 DEF Conns
    <2> QED  BY <1>1, <1>5, <2>1 DEF Connections
  <1>11. ASSUME NEW d \in Made', NEW e \in Made', d < e, Remote(d)' = Remote(e)' PROVE chan'[d].cut
    <2>1. d \in Made /\ chan'[d].cut = chan[d].cut
      <3>1. d \in Nat /\ e \in Nat /\ c \in Nat
        BY <1>3, <1>4
      <3>2. d # c
        BY <1>3, <1>9, <1>11, <3>1
      <3> QED  BY <1>2, <1>3, <3>2
    <2>2. CASE e = c
      BY <1>3, <1>10, <1>11, <2>1, <2>2
    <2>3. CASE e # c
      BY <1>1, <1>3, <1>11, <2>1, <2>3 DEF Connections
    <2> QED  BY <2>2, <2>3
  <1>12. ASSUME NEW t \in Sockets
         PROVE  /\ sock'[t].conn # 0 <=> Linked(t)'
                /\ Linked(t)' => sock'[t].queue = <<>> /\ sock'[t].conn \in Made' /\ chan'[sock'[t].conn].socket = t
                /\ Present(t)' => \A d \in Made' : Remote(d)' = t /\ d # sock'[t].conn => chan'[d].cut
    <2>1. CASE t = s
      <3>1. Linked(t)' /\ sock'[t].conn # 0
        <4>1. c # 0
          BY <1>3 DEF Conns
        <4> QED  BY <1>6, <2>1, <4>1 DEF Linked
      <3>2. sock'[t].queue = <<>> /\ sock'[t].conn \in Made' /\ chan'[sock'[t].conn].socket = t
        <4>1. chan'[c].socket = s /\ c \in Made'
          BY <1>2, <1>3
        <4> QED  BY <1>6, <2>1, <4>1
      <3>3. \A d \in Made' : Remote(d)' = t /\ d # sock'[t].conn => chan'[d].cut
        BY <1>2, <1>3, <1>6, <1>10, <2>1
      <3> QED  BY <3>1, <3>2, <3>3
    <2>2. CASE t # s
      <3>1. sock'[t] = sock[t]
        BY <1>6, <2>2
      <3>2. (Linked(t)' <=> Linked(t)) /\ (Present(t)' <=> Present(t))
        BY <3>1 DEF Linked, Present
      <3>3. sock[t].conn # 0 <=> Linked(t)
        BY <1>1 DEF Connections
      <3>4. Linked(t) => sock[t].queue = <<>> /\ sock[t].conn \in Made /\ chan[sock[t].conn].socket = t
        BY <1>1 DEF Connections, Remote
      <3>5. Linked(t) => chan'[sock[t].conn].socket = t
        BY <1>2, <1>3, <3>4
      <3>6. Present(t) => \A d \in Made' : Remote(d)' = t /\ d # sock[t].conn => chan'[d].cut
        BY <1>1, <1>2, <1>3, <2>2 DEF Connections
      <3> QED  BY <1>3, <3>1, <3>2, <3>3, <3>4, <3>5, <3>6
    <2> QED  BY <2>1, <2>2
  <1> QED  BY <1>5, <1>7, <1>8, <1>11, <1>12 DEF Connections, Remote

(* onRead of the binder keeps its connections in order.                    *)
LEMMA BinderReads ==
    ASSUME BooksInv, NEW c \in Conns, BinderOnRead(c)
    PROVE  BinderGoes /\ SameConns(chan, chan')
  <1> DEFINE e == Head(chan[c].wire["connector"])
             i == Remote(c)
             read == [chan EXCEPT ![c].wire["connector"] = Tail(@)]
  <1>1. Types /\ Connections /\ TablesAgree /\ binder \in BinderType /\ clock \in 0 .. MaxTime
    BY DEF BooksInv, Types
  <1>2. c \in Made /\ i \in Sockets /\ Held(c) /\ binder.open /\ (e # Hello => TakesOff(c, "binder"))
    BY <1>1, BinderOnReadTypes DEF BinderOnRead, Connections
  <1>3. chan[c].wire["connector"] \in Seq(Item) /\ chan[c].wire["connector"] # <<>>
    BY <1>1, ItemTypes DEF BinderOnRead, Side
  <1>4. e \in Item
    BY <1>3
  <1>5. e = Hello \/ e.kind = "msg" \/ e = Fin \/ e = Rst
    BY <1>4, Kinds
  <1>6. \A d \in Conns \ Made : binder.conns[d] = "new" /\ d # c
    BY <1>1, <1>2 DEF Connections
  <1>7. CASE e = Hello
    <2>1. binder' = Identify(binder, c)
          /\ chan' = Write(IF binder.route[i] = 0 THEN read ELSE ShutdownClient(read, binder.route[i], "binder"),
                           c, "binder", binder.pending[i])
      BY <1>7, Kinds DEF BinderOnRead
    <2>2. /\ binder'.open = binder.open
          /\ \A d \in Conns : binder'.conns[d] = IF d = c THEN "established" ELSE IF d = binder.route[i] THEN "erased" ELSE binder.conns[d]
      <3>1. PICK j \in Sockets : j = Remote(c)
        BY <1>2
      <3>2. /\ SameBut(binder, binder')
            /\ \A d \in Conns : binder'.conns[d] = IF d = c THEN "established" ELSE IF d = binder.route[j] THEN "erased" ELSE binder.conns[d]
        <4>1. binder \in BinderType /\ binder' = Identify(binder, c)
          BY <1>1, <2>1
        <4>2. /\ binder' \in BinderType /\ SameBut(binder, binder') /\ binder'.insertions = binder.insertions
              /\ \A d \in Conns : binder'.conns[d] = IF d = c THEN "established" ELSE IF d = binder.route[j] THEN "erased" ELSE binder.conns[d]
              /\ binder'.route = [binder.route EXCEPT ![j] = c] /\ binder'.goneAt = [binder.goneAt EXCEPT ![j] = Never]
              /\ binder'.pending = [binder.pending EXCEPT ![j] = <<>>]
          BY <3>1, <4>1, IdentifyEffect
        <4> QED  BY <4>2
      <3> QED  BY <3>1, <3>2 DEF SameBut
    <2>3. \A d \in Conns \ Made : d # binder.route[i]
      <3>1. binder.route[i] # 0 => binder.conns[binder.route[i]] = "established"
        BY <1>1, <1>2 DEF TablesAgree, Identified
      <3> QED  BY <1>6, <3>1 DEF Conns
    <2>4. BinderGoes
      BY <1>2, <1>6, <2>2, <2>3 DEF BinderGoes
    <2>5. binder.route[i] \in Conns \cup {0} /\ binder.pending[i] \in Seq(Numbered)
      BY <1>1, <1>2 DEF BinderType
    <2>6. SameConns(chan, chan')
      BY <1>1, <1>3, <2>1, <2>5, IdentifyWrites
    <2> QED  BY <2>4, <2>6
  <1>8. CASE e.kind = "msg"
    <2>1. binder' = Deliver(binder, e)
      BY <1>8, Kinds DEF BinderOnRead
    <2>2. binder'.conns = binder.conns /\ binder'.open = binder.open
      BY <1>1, <2>1 DEF Deliver, BinderType
    <2> QED  BY <1>1, <1>2, <1>8, <2>2, StandsStill, Kinds DEF TakesOff
  <1>9. CASE e = Fin \/ e = Rst
    <2>1. PICK reason \in {"aborted", "disconnected"} : binder' = Leaves(binder, c, reason)
      BY <1>9, Kinds DEF BinderOnRead
    <2>2. binder'.conns = [binder.conns EXCEPT ![c] = "erased"] /\ binder'.open = binder.open
      <3>1. PICK j \in Sockets : j = Remote(c) /\ binder.conns[c] \in {"connected", "established"}
        BY <1>2 DEF Held
      <3>2. SameBut(binder, binder') /\ binder'.conns = [binder.conns EXCEPT ![c] = "erased"]
        <4>1. binder \in BinderType /\ clock \in 0 .. MaxTime
          BY <1>1
        <4>2. /\ binder' \in BinderType /\ SameBut(binder, binder') /\ binder'.conns = [binder.conns EXCEPT ![c] = "erased"]
              /\ binder'.route = IF binder.conns[c] = "connected" THEN binder.route ELSE [binder.route EXCEPT ![j] = 0]
              /\ binder.conns[c] = "connected" \/ reason = "aborted" =>
                    binder'.pending = binder.pending /\ binder'.goneAt = binder.goneAt /\ binder'.insertions = binder.insertions
              /\ binder.conns[c] = "established" /\ reason = "disconnected" =>
                    /\ binder'.pending = [binder.pending EXCEPT ![j] = <<>>]
                    /\ binder'.goneAt[j] # Never /\ Listed(binder', j)
                    /\ \A k \in Sockets \ {j} :
                         /\ binder'.goneAt[k] # Never => binder'.goneAt[k] = binder.goneAt[k]
                         /\ binder.goneAt[k] # Never /\ binder'.goneAt[k] = Never => clock - binder.goneAt[k] > TTL
                         /\ binder'.goneAt[k] # Never /\ Listed(binder, k) => Listed(binder', k)
          BY <2>1, <3>1, <4>1, LeavesEffect
        <4> QED  BY <4>2
      <3> QED  BY <3>2 DEF SameBut
    <2>3. BinderGoes
      BY <1>1, <1>2, <1>6, <2>2 DEF BinderGoes, BinderType
    <2> QED  BY <1>2, <1>9, <2>3, Kinds DEF TakesOff
  <1> QED  BY <1>5, <1>7, <1>8, <1>9

(* The error an end reads is on a cut connection.                          *)
LEMMA RstMeansCut ==
    ASSUME Types, Resets, NEW c \in Conns, NEW side \in Side, chan[c].wire[side] # <<>>, Head(chan[c].wire[side]) = Rst
    PROVE  chan[c].cut
  <1>1. chan[c].wire[side] \in Seq(Item)
    BY ItemTypes
  <1>2. Rst \in Elems(chan[c].wire[side])
    BY <1>1, ElemsTail
  <1> QED  BY <1>2 DEF Resets, OnlyWhenCut

(* onRead of a connector keeps the connection, or gives it up.             *)
LEMMA ConnectorReads ==
    ASSUME BooksInv, NEW s \in Sockets, OnRead(s)
    PROVE  (\A t \in Sockets : SockGoes(t)) /\ SameConns(chan, chan')
  <1> DEFINE e == Head(chan[sock[s].conn].wire["binder"])
  <1>1. Types /\ Resets /\ Connections /\ sock \in [Sockets -> SockType]
    BY DEF BooksInv, Types
  <1>2. SameConns(chan, chan') /\ sock[s].conn \in Conns
    BY OnReadTypes DEF TakesOff, Made
  <1>3. Linked(s) /\ sock[s].conn # 0 /\ sock[s].queue = <<>> /\ Present(s)
    BY <1>1 DEF OnRead, Connections, Linked, Present
  <1>4. chan[sock[s].conn].wire["binder"] \in Seq(Item) /\ chan[sock[s].conn].wire["binder"] # <<>>
    BY <1>1, <1>2, ItemTypes DEF OnRead, Side
  <1>5. e \in Item
    BY <1>4
  <1>6. e = Hello \/ e.kind = "msg" \/ e = Fin \/ e = Rst
    BY <1>5, Kinds
  <1>7. \A t \in Sockets \ {s} : sock'[t] = sock[t]
    BY <1>1 DEF OnRead
  <1>8. ASSUME NEW t \in Sockets \ {s} PROVE SockGoes(t)
    <2>1. sock'[t] = sock[t]
      BY <1>7
    <2> QED  BY <1>1, <2>1 DEF SockGoes, Connections, Linked, Present
  <1>9. SockGoes(s)
    <2>1. CASE e = Hello
      <3>1. sock' = [sock EXCEPT ![s].phase = "established"]
        BY <2>1, Kinds DEF OnRead
      <3>2. sock'[s].phase = "established" /\ sock'[s].conn = sock[s].conn /\ sock'[s].queue = sock[s].queue
        BY <1>1, <3>1 DEF SockType
      <3> QED  BY <1>3, <3>2 DEF SockGoes, Linked, Present
    <2>2. CASE e.kind = "msg"
      <3>1. sock' = [sock EXCEPT ![s] = Deliver(sock[s], e)]
        BY <2>2, Kinds DEF OnRead
      <3>2. sock'[s].phase = sock[s].phase /\ sock'[s].conn = sock[s].conn /\ sock'[s].queue = sock[s].queue
        BY <1>1, <3>1 DEF SockType, Deliver
      <3> QED  BY <1>3, <3>2 DEF SockGoes, Linked, Present
    <2>3. CASE e = Fin
      <3>1. sock' = [sock EXCEPT ![s] = [sock[s] EXCEPT !.phase = "gone", !.conn = 0, !.waits = FALSE]]
        BY <2>3, Kinds DEF OnRead
      <3>2. sock'[s].phase = "gone" /\ sock'[s].conn = 0
        BY <1>1, <3>1 DEF SockType
      <3> QED  BY <3>2 DEF SockGoes, Linked, Present
    <2>4. CASE e = Rst
      <3>1. sock' = [sock EXCEPT ![s] = Aborted(s)]
        BY <2>4, Kinds DEF OnRead
      <3>2. sock'[s].phase = "connecting" /\ sock'[s].conn = 0
        BY <1>1, <3>1 DEF SockType, Aborted
      <3>3. chan[sock[s].conn].cut
        BY <1>1, <1>2, <1>4, <2>4, RstMeansCut DEF Side
      <3> QED  BY <1>3, <3>2, <3>3 DEF SockGoes, Linked, Present
    <2> QED  BY <1>6, <2>1, <2>2, <2>3, <2>4
  <1> QED  BY <1>2, <1>8, <1>9

(* A send changes neither the connections nor their number.                *)
LEMMA SendLinkedConns ==
    ASSUME Types, NEW c \in Conns, NEW side \in Side, NEW d \in Dir, NEW s \in Sockets, NEW n \in Nat,
           SendLinked(c, side, Msg(d, s, n))
    PROVE  SameConns(chan, chan')
  BY SendLinkedEffect

(* Every step keeps the connections in order.                              *)
LEMMA ConnectionsStep ==
    ASSUME BooksInv, [Next]_vars
    PROVE  Connections'
  <1>1. Types /\ Connections /\ TablesAgree /\ chan \in Chans /\ binder \in BinderType /\ clock \in 0 .. MaxTime
        /\ sock \in [Sockets -> SockType] /\ sends \in SendsType
    BY DEF BooksInv, Types, Chans
  <1>2. ASSUME SameConns(chan, chan'), BinderGoes, \A s \in Sockets : SockGoes(s) PROVE Connections'
    BY <1>1, <1>2, ConnectionsKept, ConnsKeepMade
  <1>3. ASSUME SameConns(chan, chan'), sock' = sock, binder' = binder PROVE Connections'
    BY <1>1, <1>2, <1>3, StandsStill
  <1>4. chan' = chan => SameConns(chan, chan')
    BY DEF SameConns
  <1>5. ASSUME NEW c \in Conns, NEW side \in Side, Flush(c, side) \/ OnWriteDone(c, side) PROVE Connections'
    BY <1>1, <1>3, <1>5, FlushEffect, OnWriteDoneEffect DEF Flush, OnWriteDone
  <1>6. ASSUME NEW c \in Conns, Accept(c) PROVE Connections'
    <2>1. SameConns(chan, chan') /\ sock' = sock
      <3>1. <<Hello>> \in Seq(Item) /\ "binder" \in Side
        BY DEF Item, Side
      <3> QED  BY <1>1, <1>6, <3>1, WriteEffect DEF Accept
    <2>2. binder'.open = binder.open /\ binder.open /\ \A d \in Conns : d # c => binder'.conns[d] = binder.conns[d]
      BY <1>1, <1>6 DEF Accept, BinderType
    <2>3. c \in Made
      BY <1>6 DEF Accept, Made
    <2>4. BinderGoes
      BY <1>1, <2>2, <2>3 DEF BinderGoes, Connections
    <2> QED  BY <1>1, <1>2, <2>1, <2>4, StandsStill
  <1>7. ASSUME NEW c \in Conns, BinderOnRead(c) PROVE Connections'
    BY <1>1, <1>2, <1>7, BinderReads, StandsStill DEF BinderOnRead
  <1>8. ASSUME NEW s \in Sockets, OnClientConnected(s) PROVE Connections'
    BY <1>8, ConnectionMade
  <1>9. ASSUME NEW s \in Sockets, OnRead(s) PROVE Connections'
    BY <1>1, <1>2, <1>9, ConnectorReads, StandsStill DEF OnRead
  <1>10. ASSUME NEW s \in Sockets, \A t \in Sockets \ {s} : sock'[t] = sock[t], SockGoes(s), binder' = binder, SameConns(chan, chan')
         PROVE  Connections'
    <2>1. ASSUME NEW t \in Sockets \ {s} PROVE SockGoes(t)
      <3>1. sock'[t] = sock[t]
        BY <1>10
      <3> QED  BY <1>1, <3>1 DEF SockGoes, Connections, Linked, Present
    <2> QED  BY <1>1, <1>2, <1>10, <2>1, StandsStill
  <1>11. ASSUME NEW s \in Sockets, Connect(s) PROVE Connections'
    <2>1. /\ sock'[s].phase = "opening" /\ sock'[s].conn = sock[s].conn /\ sock[s].phase = "new"
          /\ \A t \in Sockets \ {s} : sock'[t] = sock[t]
      BY <1>1, <1>11 DEF Connect, SockType
    <2>2. SockGoes(s)
      BY <1>1, <2>1 DEF SockGoes, Connections, Linked, Present
    <2> QED  BY <1>4, <1>10, <1>11, <2>1, <2>2 DEF Connect
  <1>12. ASSUME NEW s \in Sockets, RecvMessage(s) PROVE Connections'
    <2>1. /\ sock'[s].phase = sock[s].phase /\ sock'[s].conn = sock[s].conn /\ sock'[s].queue = sock[s].queue
          /\ \A t \in Sockets \ {s} : sock'[t] = sock[t]
      BY <1>1, <1>12 DEF RecvMessage, SockType
    <2>2. SockGoes(s)
      BY <1>1, <2>1 DEF SockGoes, Connections, Linked, Present
    <2> QED  BY <1>4, <1>10, <1>12, <2>1, <2>2 DEF RecvMessage
  <1>13. ASSUME NEW s \in Sockets, ConnectRefused(s) PROVE Connections'
    <2>1. /\ sock'[s].phase \in {sock[s].phase, "closed", "gone"} /\ sock'[s].conn = sock[s].conn /\ ~Linked(s)
          /\ \A t \in Sockets \ {s} : sock'[t] = sock[t]
      BY <1>1, <1>13 DEF ConnectRefused, SockType, GivesUp, Linked
    <2>2. SockGoes(s)
      BY <1>1, <2>1 DEF SockGoes, Connections, Linked, Present
    <2> QED  BY <1>4, <1>10, <1>13, <2>1, <2>2 DEF ConnectRefused
  <1>14. ASSUME NEW s \in Sockets, Shutdown(s) PROVE Connections'
    <2>1. /\ sock'[s].phase = "closed" /\ sock'[s].conn = 0
          /\ \A t \in Sockets \ {s} : sock'[t] = sock[t]
      BY <1>1, <1>14 DEF Shutdown, SockType
    <2>2. SockGoes(s)
      BY <2>1 DEF SockGoes, Linked, Present
    <2>3. SameConns(chan, chan')
      <3>1. CASE chan' = chan
        BY <1>4, <3>1
      <3>2. CASE chan' # chan
        BY <1>1, <1>14, <3>2, ShutdownEffect DEF Shutdown, Side, Connections, Made
      <3> QED  BY <3>1, <3>2
    <2> QED  BY <1>10, <1>14, <2>1, <2>2, <2>3 DEF Shutdown
  <1>15. ASSUME NEW s \in Sockets, SendMessage(s) PROVE Connections'
    <2>1. CASE Linked(s)
      <3>1. PICK c \in Conns, n \in Nat : c = sock[s].conn /\ n = Len(sends["up"][s]) + 1
        <4>1. sock[s].conn \in Conns
          BY <1>1, <2>1 DEF Connections, Made
        <4>2. sends["up"][s] \in Seq(Answers)
          BY <1>1 DEF SendsType, Dir
        <4>3. Len(sends["up"][s]) + 1 \in Nat
          BY <4>2
        <4> QED  BY <4>1, <4>3
      <3>2. SendLinked(c, "connector", Msg("up", s, n)) /\ sock' = sock /\ binder' = binder
        BY <1>15, <2>1, <3>1 DEF SendMessage, SendLinked, Linked
      <3> QED  BY <1>1, <1>3, <3>2, SendLinkedConns DEF Dir, Side
    <2>2. CASE ~Linked(s)
      <3>1. /\ sock'[s].phase = sock[s].phase /\ sock'[s].conn = sock[s].conn
            /\ \A t \in Sockets \ {s} : sock'[t] = sock[t]
        BY <1>1, <1>15, <2>2 DEF SendMessage, SockType
      <3>2. SockGoes(s)
        BY <1>1, <2>2, <3>1 DEF SockGoes, Connections, Linked, Present
      <3>3. chan' = chan /\ binder' = binder
        BY <1>15, <2>2 DEF SendMessage
      <3> QED  BY <1>4, <1>10, <3>1, <3>2, <3>3
    <2> QED  BY <2>1, <2>2
  <1>16. ASSUME NEW i \in Sockets, BinderSend(i) PROVE Connections'
    <2>1. CASE binder.route[i] # 0
      <3>1. PICK c \in Conns, n \in Nat : c = binder.route[i] /\ n = Len(sends["down"][i]) + 1
        BY <1>1, <2>1 DEF BinderType, SendsType, Dir
      <3>2. SendLinked(c, "binder", Msg("down", i, n)) /\ sock' = sock /\ binder' = binder
        BY <1>16, <2>1, <3>1 DEF BinderSend, SendLinked
      <3> QED  BY <1>1, <1>3, <3>2, SendLinkedConns DEF Dir, Side
    <2>2. CASE binder.route[i] = 0
      <3>1. binder'.conns = binder.conns /\ binder'.open = binder.open /\ sock' = sock /\ chan' = chan
        BY <1>1, <1>16, <2>2 DEF BinderSend, BinderType
      <3> QED  BY <1>1, <1>2, <1>4, <3>1, StandsStill
    <2> QED  BY <2>1, <2>2
  <1>17. ASSUME NEW i \in Sockets, CloseConnection(i) PROVE Connections'
    <2>1. PICK c \in Conns : c = binder.route[i]
      BY <1>1, <1>17 DEF CloseConnection, BinderType
    <2>2. c \in Identified /\ Remote(c) = i /\ c # 0
      BY <1>1, <1>17, <2>1 DEF CloseConnection, TablesAgree
    <2>3. c \in Made /\ binder.open /\ binder.conns[c] = "established"
      BY <1>1, <1>17, <2>2 DEF Identified, Connections, CloseConnection
    <2>4. binder'.conns = [binder.conns EXCEPT ![c] = "erased"] /\ binder'.open = binder.open
      BY <1>1, <1>17, <2>1, <2>2, <2>3, LeavesEffect DEF CloseConnection, SameBut
    <2>5. BinderGoes
      BY <1>1, <2>3, <2>4 DEF BinderGoes, BinderType, Connections
    <2>6. SameConns(chan, chan') /\ sock' = sock
      BY <1>1, <1>17, <2>1, ShutdownEffect DEF CloseConnection, Side
    <2> QED  BY <1>1, <1>2, <2>5, <2>6, StandsStill
  <1>18. ASSUME BinderShutdown PROVE Connections'
    <2>1. SameMade(chan, chan') /\ (\A c \in Conns : chan[c].cut => chan'[c].cut) /\ sock' = sock
      BY <1>1, <1>18, BinderShutdownEffect DEF BinderShutdown
    <2>2. \A c \in Conns : binder'.conns[c] = IF binder.conns[c] = "new" THEN "new" ELSE "erased"
      BY <1>1, <1>18 DEF BinderShutdown, BinderType
    <2>3. BinderGoes
      BY <1>1, <2>2 DEF BinderGoes, Held, Connections
    <2> QED  BY <1>1, <2>1, <2>3, StandsStill, ConnectionsKept
  <1>19. ASSUME NEW c \in Conns, Cut(c) PROVE Connections'
    <2>1. SameMade(chan, chan') /\ (\A d \in Conns : chan[d].cut => chan'[d].cut) /\ sock' = sock /\ binder' = binder
      BY <1>1, <1>19, CutEffect DEF Cut
    <2> QED  BY <1>1, <2>1, StandsStill, ConnectionsKept
  <1>20. ASSUME BinderRecv PROVE Connections'
    <2>1. binder'.conns = binder.conns /\ binder'.open = binder.open /\ sock' = sock /\ chan' = chan
      BY <1>1, <1>20 DEF BinderRecv, BinderType
    <2> QED  BY <1>1, <1>2, <1>4, <2>1, StandsStill
  <1>21. ASSUME StrangerLeaves PROVE Connections'
    <2>1. binder'.conns = binder.conns /\ binder'.open = binder.open /\ sock' = sock /\ chan' = chan
      BY <1>1, <1>21, PurgeEffect DEF StrangerLeaves, SameBut
    <2> QED  BY <1>1, <1>2, <1>4, <2>1, StandsStill
  <1>22. ASSUME Tick \/ UNCHANGED vars PROVE Connections'
    BY <1>3, <1>4, <1>22 DEF Tick, vars
  <1> QED  BY <1>5, <1>6, <1>7, <1>8, <1>9, <1>11, <1>12, <1>13, <1>14, <1>15, <1>16, <1>17, <1>18, <1>19, <1>20, <1>21, <1>22
           DEF Next, Libuv, User, Network

-----------------------------------------------------------------------------
(* The tables of the binder.                                               *)

(* A step that leaves the tables alone and makes no connection of another  *)
(* identity out of one that is known.                                      *)
LEMMA TablesKept ==
    ASSUME Connections, TablesAgree, \A c \in Made : Remote(c)' = Remote(c),
           binder'.conns = binder.conns, binder'.route = binder.route, binder'.goneAt = binder.goneAt,
           binder'.pending = binder.pending, binder'.insertions = binder.insertions
    PROVE  TablesAgree'
  <1>1. Identified' = Identified /\ Identified \subseteq Made
    BY DEF Identified, Connections
  <1>2. \A c \in Identified : Remote(c)' = Remote(c)
    BY <1>1
  <1>3. \A c \in Identified' : binder'.route[Remote(c)'] = c
    BY <1>1, <1>2 DEF TablesAgree
  <1>4. ASSUME NEW i \in Sockets
        PROVE  /\ binder'.route[i] # 0 => binder'.route[i] \in Identified' /\ chan'[binder'.route[i]].socket = i
               /\ binder'.goneAt[i] # Never => binder'.route[i] = 0 /\ binder'.pending[i] = <<>> /\ Listed(binder', i)
               /\ binder'.pending[i] # <<>> => binder'.route[i] = 0
    <2>1. binder.route[i] # 0 => binder.route[i] \in Identified /\ chan'[binder.route[i]].socket = i
      BY <1>2 DEF TablesAgree, Remote
    <2>2. /\ binder.goneAt[i] # Never => binder.route[i] = 0 /\ binder.pending[i] = <<>> /\ Listed(binder, i)
          /\ binder.pending[i] # <<>> => binder.route[i] = 0
      BY DEF TablesAgree, Listed
    <2>3. Listed(binder, i) => Listed(binder', i)
      BY DEF Listed
    <2> QED  BY <1>1, <2>1, <2>2, <2>3
  <1> QED  BY <1>3, <1>4 DEF TablesAgree, Remote, Listed

\* What an identity's row of the tables says.
Row(b, i) ==
    /\ b.goneAt[i] # Never => b.route[i] = 0 /\ b.pending[i] = <<>> /\ Listed(b, i)
    /\ b.pending[i] # <<>> => b.route[i] = 0

(* The tables agree when the rows do and routes and identified connections *)
(* belong to each other.                                                   *)
LEMMA TablesFrom ==
    ASSUME \A c \in Conns : binder'.conns[c] = "established" => binder'.route[chan'[c].socket] = c,
           \A i \in Sockets : binder'.route[i] # 0 => /\ binder'.route[i] \in Conns
                                                       /\ binder'.conns[binder'.route[i]] = "established"
                                                       /\ chan'[binder'.route[i]].socket = i,
           \A i \in Sockets : Row(binder', i)
    PROVE  TablesAgree'
  BY DEF TablesAgree, Identified, Remote, Row, Listed

(* The same the other way.                                                 *)
LEMMA TablesTo ==
    ASSUME TablesAgree
    PROVE  /\ \A c \in Conns : binder.conns[c] = "established" => binder.route[chan[c].socket] = c
           /\ \A i \in Sockets : binder.route[i] # 0 => /\ binder.route[i] \in Conns
                                                        /\ binder.conns[binder.route[i]] = "established"
                                                        /\ chan[binder.route[i]].socket = i
           /\ \A i \in Sockets : Row(binder, i)
  BY DEF TablesAgree, Identified, Remote, Row, Listed

(* onRemoteDisconnect keeps the tables in agreement.                       *)
LEMMA TablesLeave ==
    ASSUME BooksInv, NEW c \in Conns, NEW reason \in {"aborted", "disconnected"}, Held(c), SameConns(chan, chan'),
           binder' = Leaves(binder, c, reason)
    PROVE  TablesAgree'
  <1>1. Types /\ Connections /\ TablesAgree /\ binder \in BinderType /\ clock \in 0 .. MaxTime
    BY DEF BooksInv, Types
  <1>2. PICK i \in Sockets : i = Remote(c)
    BY <1>1 DEF Connections, Made, Held
  <1>3. binder.conns[c] \in {"connected", "established"}
    BY DEF Held
  <1>4. /\ binder' \in BinderType /\ binder'.conns = [binder.conns EXCEPT ![c] = "erased"]
        /\ binder'.route = IF binder.conns[c] = "connected" THEN binder.route ELSE [binder.route EXCEPT ![i] = 0]
        /\ binder.conns[c] = "connected" \/ reason = "aborted" =>
              binder'.pending = binder.pending /\ binder'.goneAt = binder.goneAt /\ binder'.insertions = binder.insertions
        /\ binder.conns[c] = "established" /\ reason = "disconnected" =>
              /\ binder'.pending = [binder.pending EXCEPT ![i] = <<>>]
              /\ binder'.goneAt[i] # Never /\ Listed(binder', i)
              /\ \A j \in Sockets \ {i} :
                   /\ binder'.goneAt[j] # Never => binder'.goneAt[j] = binder.goneAt[j]
                   /\ binder.goneAt[j] # Never /\ binder'.goneAt[j] = Never => clock - binder.goneAt[j] > TTL
                   /\ binder'.goneAt[j] # Never /\ Listed(binder, j) => Listed(binder', j)
    BY <1>1, <1>2, <1>3, LeavesEffect
  <1>5. \A d \in Conns : binder'.conns[d] = IF d = c THEN "erased" ELSE binder.conns[d]
    BY <1>1, <1>4 DEF BinderType
  <1>6. \A d \in Conns : chan'[d].socket = chan[d].socket
    BY DEF SameConns
  <1>7. chan[c].socket = i
    BY <1>2 DEF Remote
  <1>8. /\ \A d \in Conns : binder.conns[d] = "established" => binder.route[chan[d].socket] = d
        /\ \A j \in Sockets : binder.route[j] # 0 => /\ binder.route[j] \in Conns
                                                     /\ binder.conns[binder.route[j]] = "established"
                                                     /\ chan[binder.route[j]].socket = j
        /\ \A j \in Sockets : Row(binder, j)
    BY <1>1, TablesTo
  <1>9. binder.route \in [Sockets -> Conns \cup {0}] /\ binder.pending \in [Sockets -> Seq(Numbered)]
    BY <1>1 DEF BinderType
  <1>10. \A d \in Conns : binder.conns[d] = "established" => chan[d].socket \in Sockets
    BY <1>1 DEF Connections, Made, Remote
  <1>11. CASE binder.conns[c] = "connected"
    <2>1. binder'.route = binder.route /\ binder'.pending = binder.pending /\ binder'.goneAt = binder.goneAt
          /\ binder'.insertions = binder.insertions
      BY <1>4, <1>11
    <2>2. \A d \in Conns : binder'.conns[d] = "established" => binder'.route[chan'[d].socket] = d
      BY <1>5, <1>6, <1>8, <2>1
    <2>3. \A j \in Sockets : binder'.route[j] # 0 => /\ binder'.route[j] \in Conns
                                                     /\ binder'.conns[binder'.route[j]] = "established"
                                                     /\ chan'[binder'.route[j]].socket = j
      BY <1>5, <1>6, <1>8, <1>11, <2>1
    <2>4. \A j \in Sockets : Row(binder', j)
      BY <1>8, <2>1 DEF Row, Listed
    <2> QED  BY <2>2, <2>3, <2>4, TablesFrom
  <1>12. CASE binder.conns[c] = "established"
    <2>1. binder'.route = [binder.route EXCEPT ![i] = 0] /\ binder.route[i] = c
      BY <1>4, <1>7, <1>8, <1>12
    <2>2. \A j \in Sockets : binder'.route[j] = IF j = i THEN 0 ELSE binder.route[j]
      BY <1>9, <2>1
    <2>3. ASSUME NEW d \in Conns, binder'.conns[d] = "established" PROVE binder'.route[chan'[d].socket] = d
      <3>1. d # c /\ binder.conns[d] = "established" /\ binder.route[chan[d].socket] = d /\ chan[d].socket \in Sockets
        BY <1>5, <1>8, <1>10, <2>3
      <3>2. chan[d].socket # i
        BY <2>1, <3>1
      <3> QED  BY <1>6, <2>2, <3>1, <3>2
    <2>4. ASSUME NEW j \in Sockets, binder'.route[j] # 0
          PROVE  binder'.route[j] \in Conns /\ binder'.conns[binder'.route[j]] = "established" /\ chan'[binder'.route[j]].socket = j
      <3>1. j # i /\ binder'.route[j] = binder.route[j]
        BY <2>2, <2>4
      <3>2. binder.route[j] \in Conns /\ binder.conns[binder.route[j]] = "established" /\ chan[binder.route[j]].socket = j
        BY <1>8, <2>4, <3>1
      <3>3. binder.route[j] # c
        BY <1>7, <3>1, <3>2
      <3> QED  BY <1>5, <1>6, <3>1, <3>2, <3>3
    <2>5. ASSUME NEW j \in Sockets PROVE Row(binder', j)
      <3>1. Row(binder, j)
        BY <1>8
      <3>2. CASE reason = "aborted"
        <4>1. binder'.pending = binder.pending /\ binder'.goneAt = binder.goneAt /\ binder'.insertions = binder.insertions
          BY <1>4, <3>2
        <4> QED  BY <2>2, <3>1, <4>1 DEF Row, Listed
      <3>3. CASE reason = "disconnected" /\ j = i
        <4>1. binder'.pending[i] = <<>> /\ Listed(binder', i) /\ binder'.route[i] = 0
          BY <1>4, <1>9, <1>12, <2>2, <3>3
        <4> QED  BY <3>3, <4>1 DEF Row
      <3>4. CASE reason = "disconnected" /\ j # i
        <4>1. binder'.pending[j] = binder.pending[j] /\ binder'.route[j] = binder.route[j]
          BY <1>4, <1>9, <1>12, <2>2, <3>4
        <4>2. /\ binder'.goneAt[j] # Never => binder'.goneAt[j] = binder.goneAt[j]
              /\ binder'.goneAt[j] # Never /\ Listed(binder, j) => Listed(binder', j)
          BY <1>4, <1>12, <3>4
        <4> QED  BY <3>1, <4>1, <4>2 DEF Row
      <3> QED  BY <3>2, <3>3, <3>4
    <2> QED  BY <2>3, <2>4, <2>5, TablesFrom
  <1> QED  BY <1>3, <1>11, <1>12

(* onRemoteIdentity keeps the tables in agreement.                         *)
LEMMA TablesIdentify ==
    ASSUME BooksInv, NEW c \in Conns, Held(c), SameConns(chan, chan'), binder' = Identify(binder, c)
    PROVE  TablesAgree'
  <1>1. Types /\ Connections /\ TablesAgree /\ binder \in BinderType
    BY DEF BooksInv, Types
  <1>2. PICK i \in Sockets : i = Remote(c)
    BY <1>1 DEF Connections, Made, Held
  <1>3. /\ binder'.insertions = binder.insertions
        /\ \A d \in Conns : binder'.conns[d] = IF d = c THEN "established" ELSE IF d = binder.route[i] THEN "erased" ELSE binder.conns[d]
        /\ binder'.route = [binder.route EXCEPT ![i] = c] /\ binder'.goneAt = [binder.goneAt EXCEPT ![i] = Never]
        /\ binder'.pending = [binder.pending EXCEPT ![i] = <<>>]
    BY <1>1, <1>2, IdentifyEffect
  <1>4. \A d \in Conns : chan'[d].socket = chan[d].socket
    BY DEF SameConns
  <1>5. chan[c].socket = i
    BY <1>2 DEF Remote
  <1>6. /\ \A d \in Conns : binder.conns[d] = "established" => binder.route[chan[d].socket] = d
        /\ \A j \in Sockets : binder.route[j] # 0 => /\ binder.route[j] \in Conns
                                                     /\ binder.conns[binder.route[j]] = "established"
                                                     /\ chan[binder.route[j]].socket = j
        /\ \A j \in Sockets : Row(binder, j)
    BY <1>1, TablesTo
  <1>7. \A j \in Sockets : /\ binder'.route[j] = IF j = i THEN c ELSE binder.route[j]
                           /\ binder'.goneAt[j] = IF j = i THEN Never ELSE binder.goneAt[j]
                           /\ binder'.pending[j] = IF j = i THEN <<>> ELSE binder.pending[j]
    BY <1>1, <1>3 DEF BinderType
  <1>8. \A d \in Conns : binder.conns[d] = "established" => chan[d].socket \in Sockets
    BY <1>1 DEF Connections, Made, Remote
  <1>9. ASSUME NEW d \in Conns, binder'.conns[d] = "established" PROVE binder'.route[chan'[d].socket] = d
    <2>1. CASE d = c
      BY <1>4, <1>5, <1>7, <2>1
    <2>2. CASE d # c
      <3>1. d # binder.route[i] /\ binder.conns[d] = "established"
        BY <1>3, <1>9, <2>2
      <3>2. binder.route[chan[d].socket] = d /\ chan[d].socket \in Sockets
        BY <1>6, <1>8, <3>1
      <3>3. chan[d].socket # i
        BY <3>1, <3>2
      <3> QED  BY <1>4, <1>7, <3>2, <3>3
    <2> QED  BY <2>1, <2>2
  <1>10. ASSUME NEW j \in Sockets, binder'.route[j] # 0
         PROVE  binder'.route[j] \in Conns /\ binder'.conns[binder'.route[j]] = "established" /\ chan'[binder'.route[j]].socket = j
    <2>1. CASE j = i
      <3>1. binder'.route[j] = c
        BY <1>7, <2>1
      <3> QED  BY <1>3, <1>4, <1>5, <2>1, <3>1
    <2>2. CASE j # i
      <3>1. binder'.route[j] = binder.route[j]
        BY <1>7, <2>2
      <3>2. binder.route[j] \in Conns /\ binder.conns[binder.route[j]] = "established" /\ chan[binder.route[j]].socket = j
        BY <1>6, <1>10, <3>1
      <3>3. binder.route[j] # c
        BY <1>5, <2>2, <3>2
      <3>4. binder.route[j] # binder.route[i]
        <4>1. binder.route[i] # 0 => chan[binder.route[i]].socket = i
          BY <1>6
        <4> QED  BY <1>10, <2>2, <3>1, <3>2, <4>1
      <3> QED  BY <1>3, <1>4, <3>1, <3>2, <3>3, <3>4
    <2> QED  BY <2>1, <2>2
  <1>11. ASSUME NEW j \in Sockets PROVE Row(binder', j)
    <2>1. CASE j = i
      BY <1>7, <2>1 DEF Row
    <2>2. CASE j # i
      <3>1. Row(binder, j)
        BY <1>6
      <3>2. binder'.route[j] = binder.route[j] /\ binder'.goneAt[j] = binder.goneAt[j] /\ binder'.pending[j] = binder.pending[j]
        BY <1>7, <2>2
      <3>3. Listed(binder, j) => Listed(binder', j)
        BY <1>3, <3>2 DEF Listed
      <3> QED  BY <3>1, <3>2, <3>3 DEF Row
    <2> QED  BY <2>1, <2>2
  <1> QED  BY <1>9, <1>10, <1>11, TablesFrom

(* Every step keeps the tables in agreement.                               *)
LEMMA TablesStep ==
    ASSUME BooksInv, [Next]_vars
    PROVE  TablesAgree'
  <1>1. Types /\ Connections /\ TablesAgree /\ chan \in Chans /\ binder \in BinderType /\ clock \in 0 .. MaxTime /\ sends \in SendsType
    BY DEF BooksInv, Types, Chans
  <1>2. ASSUME SameMade(chan, chan'), binder' = binder PROVE TablesAgree'
    <2>1. \A c \in Made : Remote(c)' = Remote(c)
      BY <1>2 DEF SameMade, Remote, Made
    <2> QED  BY <1>1, <1>2, <2>1, TablesKept
  <1>3. chan' = chan => SameMade(chan, chan')
    BY DEF SameMade
  <1>4. SameConns(chan, chan') => SameMade(chan, chan')
    BY ConnsKeepMade
  <1>5. ASSUME NEW c \in Conns, NEW side \in Side, Flush(c, side) \/ OnWriteDone(c, side) PROVE TablesAgree'
    BY <1>1, <1>2, <1>4, <1>5, FlushEffect, OnWriteDoneEffect DEF Flush, OnWriteDone
  <1>6. ASSUME NEW c \in Conns, Accept(c) PROVE TablesAgree'
    <2>1. SameConns(chan, chan')
      <3>1. <<Hello>> \in Seq(Item) /\ "binder" \in Side
        BY DEF Item, Side
      <3> QED  BY <1>1, <1>6, <3>1, WriteEffect DEF Accept
    <2>2. /\ \A d \in Conns : binder'.conns[d] = IF d = c THEN "connected" ELSE binder.conns[d]
          /\ binder'.route = binder.route /\ binder'.goneAt = binder.goneAt /\ binder'.pending = binder.pending
          /\ binder'.insertions = binder.insertions /\ binder.conns[c] = "new"
      BY <1>1, <1>6 DEF Accept, BinderType
    <2>3. /\ \A d \in Conns : binder.conns[d] = "established" => binder.route[chan[d].socket] = d
          /\ \A j \in Sockets : binder.route[j] # 0 => /\ binder.route[j] \in Conns
                                                       /\ binder.conns[binder.route[j]] = "established"
                                                       /\ chan[binder.route[j]].socket = j
          /\ \A j \in Sockets : Row(binder, j)
      BY <1>1, TablesTo
    <2>4. \A d \in Conns : chan'[d].socket = chan[d].socket
      BY <2>1 DEF SameConns
    <2>5. \A d \in Conns : binder'.conns[d] = "established" => binder'.route[chan'[d].socket] = d
      BY <2>2, <2>3, <2>4
    <2>6. \A j \in Sockets : binder'.route[j] # 0 => /\ binder'.route[j] \in Conns
                                                     /\ binder'.conns[binder'.route[j]] = "established"
                                                     /\ chan'[binder'.route[j]].socket = j
      BY <2>2, <2>3, <2>4
    <2>7. \A j \in Sockets : Row(binder', j)
      BY <2>2, <2>3 DEF Row, Listed
    <2> QED  BY <2>5, <2>6, <2>7, TablesFrom
  <1>7. ASSUME NEW c \in Conns, BinderOnRead(c) PROVE TablesAgree'
    <2> DEFINE e == Head(chan[c].wire["connector"])
    <2>1. SameConns(chan, chan') /\ Held(c)
      BY <1>7, BinderReads DEF BinderOnRead
    <2>2. CASE binder' = Identify(binder, c)
      BY <1>7, <2>1, <2>2, TablesIdentify
    <2>3. CASE binder' = Deliver(binder, e)
      <3>1. /\ binder'.conns = binder.conns /\ binder'.route = binder.route /\ binder'.goneAt = binder.goneAt
            /\ binder'.pending = binder.pending /\ binder'.insertions = binder.insertions
        BY <1>1, <2>3 DEF Deliver, BinderType
      <3>2. \A d \in Made : Remote(d)' = Remote(d)
        BY <2>1 DEF SameConns, Remote, Made
      <3> QED  BY <1>1, <3>1, <3>2, TablesKept
    <2>4. CASE \E reason \in {"aborted", "disconnected"} : binder' = Leaves(binder, c, reason)
      BY <2>1, <2>4, TablesLeave
    <2> QED  BY <1>7, <2>2, <2>3, <2>4 DEF BinderOnRead
  <1>8. ASSUME NEW s \in Sockets, OnClientConnected(s) PROVE TablesAgree'
    <2>1. PICK c \in Conns \ Made :
              /\ \A e \in Conns \ Made : c <= e
              /\ chan' \in Chans /\ SameWire(chan, chan')
              /\ \A d \in Conns : chan'[d].made = (IF d = c THEN TRUE ELSE chan[d].made)
                                  /\ chan'[d].socket = (IF d = c THEN s ELSE chan[d].socket)
                                  /\ chan'[d].cut = chan[d].cut
              /\ OutIs(chan, chan', c, "connector", chan[c].out["connector"] \o (<<Hello>> \o sock[s].queue))
              /\ sock' = [sock EXCEPT ![s] = LinkedBy(s, c)]
      BY <1>1, <1>8, OnClientConnectedEffect
    <2>2. \A d \in Made : Remote(d)' = Remote(d)
      BY <2>1 DEF Made, Remote
    <2>3. binder' = binder
      BY <1>8 DEF OnClientConnected
    <2> QED  BY <1>1, <2>2, <2>3, TablesKept
  <1>9. ASSUME NEW s \in Sockets, OnRead(s) PROVE TablesAgree'
    BY <1>2, <1>4, <1>9, ConnectorReads DEF OnRead
  <1>10. ASSUME NEW s \in Sockets, Connect(s) \/ RecvMessage(s) \/ ConnectRefused(s) PROVE TablesAgree'
    BY <1>2, <1>3, <1>10 DEF Connect, RecvMessage, ConnectRefused
  <1>11. ASSUME NEW s \in Sockets, SendMessage(s) PROVE TablesAgree'
    <2>1. CASE chan' = chan
      BY <1>2, <1>3, <1>11, <2>1 DEF SendMessage
    <2>2. CASE chan' # chan
      <3>1. PICK c \in Conns, n \in Nat : c = sock[s].conn /\ n = Len(sends["up"][s]) + 1
        BY <1>1, <1>11, <2>2 DEF SendMessage, Connections, Made, SendsType, Dir
      <3>2. SendLinked(c, "connector", Msg("up", s, n)) /\ binder' = binder
        BY <1>11, <2>2, <3>1 DEF SendMessage, SendLinked
      <3> QED  BY <1>1, <1>2, <1>4, <3>2, SendLinkedConns DEF Dir, Side
    <2> QED  BY <2>1, <2>2
  <1>12. ASSUME NEW s \in Sockets, Shutdown(s) PROVE TablesAgree'
    <2>1. CASE chan' = chan
      BY <1>2, <1>3, <1>12, <2>1 DEF Shutdown
    <2>2. CASE chan' # chan
      BY <1>1, <1>2, <1>4, <1>12, <2>2, ShutdownEffect DEF Shutdown, Side, Connections, Made
    <2> QED  BY <2>1, <2>2
  <1>13. ASSUME NEW i \in Sockets, BinderSend(i) PROVE TablesAgree'
    <2>1. CASE binder.route[i] # 0
      <3>1. PICK c \in Conns, n \in Nat : c = binder.route[i] /\ n = Len(sends["down"][i]) + 1
        BY <1>1, <2>1 DEF BinderType, SendsType, Dir
      <3>2. SendLinked(c, "binder", Msg("down", i, n)) /\ binder' = binder
        BY <1>13, <2>1, <3>1 DEF BinderSend, SendLinked
      <3> QED  BY <1>1, <1>2, <1>4, <3>2, SendLinkedConns DEF Dir, Side
    <2>2. CASE binder.route[i] = 0 /\ binder' = binder
      BY <1>2, <1>3, <1>13, <2>2 DEF BinderSend
    <2>3. CASE binder.route[i] = 0 /\ binder' # binder
      <3> DEFINE m == Msg("down", i, Len(sends["down"][i]) + 1)
      <3>1. binder.goneAt[i] = Never /\ chan' = chan /\ binder' = [binder EXCEPT !.pending[i] = Append(@, m)]
        BY <1>13, <2>3 DEF BinderSend
      <3> HIDE DEF m
      <3>2. /\ binder'.conns = binder.conns /\ binder'.route = binder.route /\ binder'.goneAt = binder.goneAt
            /\ binder'.insertions = binder.insertions /\ \A j \in Sockets \ {i} : binder'.pending[j] = binder.pending[j]
        BY <1>1, <3>1 DEF BinderType
      <3>3. /\ \A d \in Conns : binder.conns[d] = "established" => binder.route[chan[d].socket] = d
            /\ \A j \in Sockets : binder.route[j] # 0 => /\ binder.route[j] \in Conns
                                                         /\ binder.conns[binder.route[j]] = "established"
                                                         /\ chan[binder.route[j]].socket = j
            /\ \A j \in Sockets : Row(binder, j)
        BY <1>1, TablesTo
      <3>4. ASSUME NEW j \in Sockets PROVE Row(binder', j)
        <4>1. CASE j = i
          BY <2>3, <3>1, <3>2, <4>1 DEF Row
        <4>2. CASE j # i
          BY <3>2, <3>3, <4>2 DEF Row, Listed
        <4> QED  BY <4>1, <4>2
      <3> QED  BY <3>1, <3>2, <3>3, <3>4, TablesFrom
    <2> QED  BY <2>1, <2>2, <2>3
  <1>14. ASSUME NEW i \in Sockets, CloseConnection(i) PROVE TablesAgree'
    <2>1. PICK c \in Conns : c = binder.route[i] /\ c # 0
      BY <1>1, <1>14 DEF CloseConnection, BinderType
    <2>2. Held(c)
      BY <1>1, <2>1 DEF TablesAgree, Identified, Held
    <2>3. SameConns(chan, chan') /\ binder' = Leaves(binder, c, "disconnected")
      BY <1>1, <1>14, <2>1, ShutdownEffect DEF CloseConnection, Side
    <2> QED  BY <2>2, <2>3, TablesLeave
  <1>15. ASSUME BinderShutdown PROVE TablesAgree'
    <2>1. /\ \A d \in Conns : binder'.conns[d] # "established"
          /\ \A j \in Sockets : binder'.route[j] = 0 /\ binder'.pending[j] = <<>>
          /\ binder'.goneAt = binder.goneAt /\ binder'.insertions = binder.insertions
      BY <1>1, <1>15 DEF BinderShutdown, BinderType
    <2>2. \A j \in Sockets : Row(binder, j)
      BY <1>1, TablesTo
    <2>3. \A j \in Sockets : Row(binder', j)
      BY <2>1, <2>2 DEF Row, Listed
    <2> QED  BY <2>1, <2>3, TablesFrom
  <1>16. ASSUME NEW c \in Conns, Cut(c) PROVE TablesAgree'
    BY <1>1, <1>2, <1>16, CutEffect DEF Cut
  <1>17. ASSUME BinderRecv PROVE TablesAgree'
    <2>1. /\ binder'.conns = binder.conns /\ binder'.route = binder.route /\ binder'.goneAt = binder.goneAt
          /\ binder'.pending = binder.pending /\ binder'.insertions = binder.insertions
      BY <1>1, <1>17 DEF BinderRecv, BinderType
    <2>2. \A d \in Made : Remote(d)' = Remote(d)
      BY <1>17 DEF BinderRecv, Remote
    <2> QED  BY <1>1, <2>1, <2>2, TablesKept
  <1>18. ASSUME StrangerLeaves PROVE TablesAgree'
    <2>1. binder' = Purge(binder) /\ chan' = chan
      BY <1>18 DEF StrangerLeaves
    <2>2. /\ binder'.conns = binder.conns /\ binder'.route = binder.route /\ binder'.pending = binder.pending
          /\ \A i \in Sockets :
                /\ binder'.goneAt[i] # Never => binder'.goneAt[i] = binder.goneAt[i]
                /\ binder'.goneAt[i] # Never /\ Listed(binder, i) => Listed(binder', i)
      BY <1>1, <2>1, PurgeEffect
    <2>3. /\ \A d \in Conns : binder.conns[d] = "established" => binder.route[chan[d].socket] = d
          /\ \A j \in Sockets : binder.route[j] # 0 => /\ binder.route[j] \in Conns
                                                       /\ binder.conns[binder.route[j]] = "established"
                                                       /\ chan[binder.route[j]].socket = j
          /\ \A j \in Sockets : Row(binder, j)
      BY <1>1, TablesTo
    <2>4. \A j \in Sockets : Row(binder', j)
      BY <2>2, <2>3 DEF Row
    <2> QED  BY <2>1, <2>2, <2>3, <2>4, TablesFrom
  <1>19. ASSUME Tick \/ UNCHANGED vars PROVE TablesAgree'
    BY <1>2, <1>3, <1>19 DEF Tick, vars
  <1> QED  BY <1>5, <1>6, <1>7, <1>8, <1>9, <1>10, <1>11, <1>12, <1>13, <1>14, <1>15, <1>16, <1>17, <1>18, <1>19
           DEF Next, Libuv, User, Network

(* No step strands a receiver.                                             *)
LEMMA ReceiversStep ==
    ASSUME BooksInv, [Next]_vars
    PROVE  NoReceiverStranded'
  <1>1. Types /\ NoReceiverStranded /\ binder \in BinderType /\ sock \in [Sockets -> SockType] /\ clock \in 0 .. MaxTime
    BY DEF BooksInv, Types
  <1>2. ASSUME NEW s \in Sockets, \A t \in Sockets \ {s} : sock'[t] = sock[t],
               sock'[s].waits => sock'[s].inbox = <<>> /\ sock'[s].phase \notin {"gone", "closed"},
               binder'.waits = binder.waits, binder'.open = binder.open, binder'.inbox = binder.inbox
        PROVE  NoReceiverStranded'
    BY <1>1, <1>2 DEF NoReceiverStranded
  <1>3. ASSUME sock' = sock, binder'.waits => binder'.open /\ binder'.inbox = <<>> PROVE NoReceiverStranded'
    BY <1>1, <1>3 DEF NoReceiverStranded
  <1>4. ASSUME sock' = sock, SameBut(binder, binder') PROVE NoReceiverStranded'
    BY <1>1, <1>4 DEF NoReceiverStranded, SameBut
  <1>5. binder' = binder => SameBut(binder, binder')
    BY DEF SameBut
  <1>6. ASSUME NEW c \in Conns, NEW side \in Side, Flush(c, side) \/ OnWriteDone(c, side) PROVE NoReceiverStranded'
    BY <1>4, <1>5, <1>6 DEF Flush, OnWriteDone
  <1>7. ASSUME NEW c \in Conns, Accept(c) PROVE NoReceiverStranded'
    <2>1. SameBut(binder, binder') /\ sock' = sock
      BY <1>1, <1>7 DEF Accept, SameBut, BinderType
    <2> QED  BY <1>4, <2>1
  <1>8. ASSUME NEW c \in Conns, Held(c), \/ binder' = Identify(binder, c)
                                         \/ \E reason \in {"aborted", "disconnected"} : binder' = Leaves(binder, c, reason)
        PROVE  SameBut(binder, binder')
    <2>1. PICK i \in Sockets : i = Remote(c)
      BY <1>8 DEF BooksInv, Connections, Made, Held
    <2>2. CASE binder' = Identify(binder, c)
      BY <1>1, <2>1, <2>2, IdentifyEffect
    <2>3. CASE \E reason \in {"aborted", "disconnected"} : binder' = Leaves(binder, c, reason)
      <3>1. PICK reason \in {"aborted", "disconnected"} : binder' = Leaves(binder, c, reason)
        BY <2>3
      <3>2. binder.conns[c] \in {"connected", "established"}
        BY <1>8 DEF Held
      <3> QED  BY <1>1, <2>1, <3>1, <3>2, LeavesEffect
    <2> QED  BY <1>8, <2>2, <2>3
  <1>9. ASSUME NEW c \in Conns, BinderOnRead(c) PROVE NoReceiverStranded'
    <2> DEFINE e == Head(chan[c].wire["connector"])
    <2>1. sock' = sock /\ Held(c)
      BY <1>9 DEF BinderOnRead
    <2>2. CASE binder' = Deliver(binder, e)
      <3>1. ~binder'.waits
        BY <1>1, <2>2 DEF Deliver, BinderType
      <3> QED  BY <1>3, <2>1, <3>1
    <2>3. CASE \/ binder' = Identify(binder, c)
               \/ \E reason \in {"aborted", "disconnected"} : binder' = Leaves(binder, c, reason)
      BY <1>4, <1>8, <2>1, <2>3
    <2> QED  BY <1>9, <2>2, <2>3 DEF BinderOnRead
  <1>10. ASSUME NEW s \in Sockets, OnClientConnected(s) PROVE NoReceiverStranded'
    <2>1. PICK c : sock' = [sock EXCEPT ![s] = LinkedBy(s, c)] /\ binder' = binder
      BY <1>10 DEF OnClientConnected
    <2>2. sock'[s].waits = sock[s].waits /\ sock'[s].inbox = sock[s].inbox /\ sock'[s].phase = "connected"
          /\ \A t \in Sockets \ {s} : sock'[t] = sock[t]
      BY <1>1, <2>1 DEF LinkedBy, SockType
    <2>3. sock'[s].waits => sock'[s].inbox = <<>> /\ sock'[s].phase \notin {"gone", "closed"}
      BY <1>1, <2>2 DEF NoReceiverStranded
    <2> QED  BY <1>2, <2>1, <2>2, <2>3
  <1>11. ASSUME NEW s \in Sockets, OnRead(s) PROVE NoReceiverStranded'
    <2> DEFINE e == Head(chan[sock[s].conn].wire["binder"])
    <2>1. binder' = binder /\ Linked(s)
      BY <1>11 DEF OnRead
    <2>2. /\ \A t \in Sockets \ {s} : sock'[t] = sock[t]
          /\ \/ sock'[s] = [sock[s] EXCEPT !.phase = "established"]
             \/ sock'[s] = Deliver(sock[s], e)
             \/ sock'[s] = [sock[s] EXCEPT !.phase = "gone", !.conn = 0, !.waits = FALSE]
             \/ sock'[s] = Aborted(s)
      BY <1>1, <1>11 DEF OnRead
    <2>3. sock[s].waits => sock[s].inbox = <<>>
      BY <1>1 DEF NoReceiverStranded
    <2>4. sock'[s].waits => sock'[s].inbox = <<>> /\ sock'[s].phase \notin {"gone", "closed"}
      <3>1. sock[s] \in SockType /\ sock[s].phase \in {"connected", "established"}
        BY <1>1, <2>1 DEF Linked
      <3>2. CASE sock'[s] = [sock[s] EXCEPT !.phase = "established"]
        BY <2>3, <3>1, <3>2 DEF SockType
      <3>3. CASE sock'[s] = Deliver(sock[s], e)
        <4>1. ~sock'[s].waits
          BY <3>1, <3>3 DEF SockType, Deliver
        <4> QED  BY <4>1
      <3>4. CASE sock'[s] = [sock[s] EXCEPT !.phase = "gone", !.conn = 0, !.waits = FALSE]
        BY <3>1, <3>4 DEF SockType
      <3>5. CASE sock'[s] = Aborted(s)
        BY <2>3, <3>1, <3>5 DEF SockType, Aborted
      <3> QED  BY <2>2, <3>2, <3>3, <3>4, <3>5
    <2> QED  BY <1>2, <2>1, <2>2, <2>4
  <1>12. ASSUME NEW s \in Sockets, Connect(s) PROVE NoReceiverStranded'
    <2>1. sock'[s].waits = sock[s].waits /\ sock'[s].inbox = sock[s].inbox /\ sock'[s].phase = "opening"
          /\ binder' = binder /\ \A t \in Sockets \ {s} : sock'[t] = sock[t]
      BY <1>1, <1>12 DEF Connect, SockType
    <2>2. sock'[s].waits => sock'[s].inbox = <<>> /\ sock'[s].phase \notin {"gone", "closed"}
      BY <1>1, <2>1 DEF NoReceiverStranded
    <2> QED  BY <1>2, <2>1, <2>2
  <1>13. ASSUME NEW s \in Sockets, SendMessage(s) PROVE NoReceiverStranded'
    <2>1. sock'[s].waits = sock[s].waits /\ sock'[s].inbox = sock[s].inbox /\ sock'[s].phase = sock[s].phase
          /\ binder' = binder /\ \A t \in Sockets \ {s} : sock'[t] = sock[t]
      BY <1>1, <1>13 DEF SendMessage, SockType
    <2>2. sock'[s].waits => sock'[s].inbox = <<>> /\ sock'[s].phase \notin {"gone", "closed"}
      BY <1>1, <2>1 DEF NoReceiverStranded
    <2> QED  BY <1>2, <2>1, <2>2
  <1>14. ASSUME NEW s \in Sockets, RecvMessage(s) PROVE NoReceiverStranded'
    <2>1. binder' = binder /\ ~sock[s].waits /\ sock[s].phase # "closed"
      BY <1>14 DEF RecvMessage, Usable
    <2>2. /\ \A t \in Sockets \ {s} : sock'[t] = sock[t]
          /\ \/ sock'[s] = [sock[s] EXCEPT !.inbox = Tail(sock[s].inbox)]
             \/ sock'[s] = [sock[s] EXCEPT !.waits = TRUE] /\ sock[s].inbox = <<>> /\ sock[s].phase # "gone"
      BY <1>1, <1>14 DEF RecvMessage
    <2>3. sock'[s].waits => sock'[s].inbox = <<>> /\ sock'[s].phase \notin {"gone", "closed"}
      BY <1>1, <2>1, <2>2 DEF SockType
    <2> QED  BY <1>2, <2>1, <2>2, <2>3
  <1>15. ASSUME NEW s \in Sockets, Shutdown(s) PROVE NoReceiverStranded'
    <2>1. ~sock'[s].waits /\ binder' = binder /\ \A t \in Sockets \ {s} : sock'[t] = sock[t]
      BY <1>1, <1>15 DEF Shutdown, SockType
    <2> QED  BY <1>2, <2>1
  <1>16. ASSUME NEW s \in Sockets, ConnectRefused(s) PROVE NoReceiverStranded'
    <2>1. /\ binder' = binder /\ sock[s].phase \in {"opening", "connecting"} /\ \A t \in Sockets \ {s} : sock'[t] = sock[t]
          /\ sock'[s] = [sock[s] EXCEPT !.tries = @ + 1] \/ sock'[s] = GivesUp(s)
      BY <1>1, <1>16 DEF ConnectRefused
    <2>2. sock[s].waits => sock[s].inbox = <<>>
      BY <1>1 DEF NoReceiverStranded
    <2>3. sock'[s].waits => sock'[s].inbox = <<>> /\ sock'[s].phase \notin {"gone", "closed"}
      <3>1. sock[s] \in SockType
        BY <1>1
      <3>2. CASE sock'[s] = [sock[s] EXCEPT !.tries = @ + 1]
        <4>1. sock'[s].waits = sock[s].waits /\ sock'[s].inbox = sock[s].inbox /\ sock'[s].phase = sock[s].phase
          BY <3>1, <3>2 DEF SockType
        <4> QED  BY <2>1, <2>2, <4>1
      <3>3. CASE sock'[s] = GivesUp(s)
        <4>1. ~sock'[s].waits
          BY <3>1, <3>3 DEF SockType, GivesUp
        <4> QED  BY <4>1
      <3> QED  BY <2>1, <3>2, <3>3
    <2> QED  BY <1>2, <2>1, <2>3
  <1>17. ASSUME NEW i \in Sockets, BinderSend(i) PROVE NoReceiverStranded'
    <2>1. SameBut(binder, binder') /\ sock' = sock
      BY <1>1, <1>17 DEF BinderSend, SameBut, BinderType
    <2> QED  BY <1>4, <2>1
  <1>18. ASSUME NEW i \in Sockets, CloseConnection(i) PROVE NoReceiverStranded'
    <2>1. PICK c \in Conns : c = binder.route[i] /\ c # 0
      BY <1>1, <1>18 DEF CloseConnection, BinderType
    <2>2. Held(c)
      BY <2>1 DEF BooksInv, TablesAgree, Identified, Held
    <2>3. binder' = Leaves(binder, c, "disconnected") /\ sock' = sock
      BY <1>18, <2>1 DEF CloseConnection
    <2> QED  BY <1>4, <1>8, <2>2, <2>3
  <1>19. ASSUME BinderRecv PROVE NoReceiverStranded'
    <2>1. sock' = sock /\ ~binder.waits /\ binder.open
      BY <1>19 DEF BinderRecv
    <2>2. \/ binder' = [binder EXCEPT !.inbox = Tail(binder.inbox)]
          \/ binder' = [binder EXCEPT !.waits = TRUE] /\ binder.inbox = <<>>
      BY <1>1, <1>19 DEF BinderRecv, BinderType
    <2>3. binder'.waits => binder'.open /\ binder'.inbox = <<>>
      BY <1>1, <2>1, <2>2 DEF BinderType
    <2> QED  BY <1>3, <2>1, <2>3
  <1>20. ASSUME BinderShutdown PROVE NoReceiverStranded'
    <2>1. ~binder'.waits /\ sock' = sock
      BY <1>1, <1>20 DEF BinderShutdown, BinderType
    <2> QED  BY <1>3, <2>1
  <1>21. ASSUME StrangerLeaves PROVE NoReceiverStranded'
    BY <1>1, <1>4, <1>21, PurgeEffect DEF StrangerLeaves
  <1>22. ASSUME \/ \E c \in Conns : Cut(c)
                \/ Tick \/ UNCHANGED vars
         PROVE  NoReceiverStranded'
    BY <1>4, <1>5, <1>22 DEF Cut, Tick, vars
  <1> QED  BY <1>6, <1>7, <1>9, <1>10, <1>11, <1>12, <1>13, <1>14, <1>15, <1>16, <1>17, <1>18, <1>19, <1>20, <1>21, <1>22
           DEF Next, Libuv, User, Network

(* The initial state.                                                      *)
LEMMA InitBooks == Init => BooksInv
  <1> SUFFICES ASSUME Init PROVE BooksInv
    OBVIOUS
  <1>1. Types
    BY InitTypes
  <1>2. \A c \in Conns : /\ chan[c].made = FALSE /\ binder.conns[c] = "new"
                         /\ \A side \in Side : chan[c].out[side] = <<>> /\ chan[c].wire[side] = <<>>
    BY DEF Init
  <1>3. \A s \in Sockets : /\ sock[s].phase = "new" /\ sock[s].conn = 0 /\ sock[s].waits = FALSE
                           /\ binder.route[s] = 0 /\ binder.goneAt[s] = Never /\ binder.pending[s] = <<>>
    BY DEF Init
  <1>4. binder.open = TRUE /\ binder.waits = FALSE
    BY DEF Init
  <1>5. Resets
    BY <1>2, ElemsBasic DEF Resets, NoneWritten, OnlyWhenCut
  <1>6. Made = {} /\ Identified = {}
    BY <1>2 DEF Made, Identified
  <1>7. Connections
    BY <1>2, <1>3, <1>4, <1>6 DEF Connections, Linked, Present
  <1>8. TablesAgree
    BY <1>3, <1>6 DEF TablesAgree
  <1>9. NoReceiverStranded
    BY <1>3, <1>4 DEF NoReceiverStranded
  <1> QED  BY <1>1, <1>5, <1>7, <1>8, <1>9 DEF BooksInv

(* The books are an invariant.                                             *)
LEMMA BooksAlways == Spec => []BooksInv
  <1>1. BooksInv /\ [Next]_vars => BooksInv'
    <2>1. ASSUME BooksInv, [Next]_vars PROVE BooksInv'
      BY <2>1, NextTypes, ResetsStep, ConnectionsStep, TablesStep, ReceiversStep DEF BooksInv
    <2> QED  BY <2>1
  <1> QED  BY <1>1, InitBooks, PTL DEF Spec

(* The books of both ends agree in every state: the binder's tables with   *)
(* each other and with the connections, a linked connector has nothing     *)
(* queued (initialize asserts it), and nobody waits beside a message.      *)
THEOREM YmqBooks == Spec => []BooksAgree
  <1>1. BooksInv => BooksAgree
    <2> SUFFICES ASSUME BooksInv PROVE TypeOK
      BY DEF BooksInv, BooksAgree
    <2>1. Types /\ Connections
      BY DEF BooksInv
    <2>2. ASSUME NEW s \in Sockets
          PROVE  /\ sock[s].phase \in {"new", "opening", "connecting", "connected", "established", "gone", "closed"}
                 /\ sock[s].conn \in Conns \cup {0} /\ (sock[s].conn # 0 <=> Linked(s))
                 /\ Linked(s) => sock[s].queue = <<>> /\ chan[sock[s].conn].socket = s
                 /\ sock[s].tries \in 0 .. MaxRetry
      <3>1. sock[s] \in SockType
        BY <2>1 DEF Types
      <3>2. (sock[s].conn # 0 <=> Linked(s)) /\ (Linked(s) => sock[s].queue = <<>> /\ chan[sock[s].conn].socket = s)
        BY <2>1 DEF Connections, Remote
      <3> QED  BY <3>1, <3>2 DEF SockType, Phases
    <2>3. \A c \in Conns : binder.conns[c] # "new" => chan[c].made
      BY <2>1 DEF Connections, Made
    <2>4. ASSUME NEW d \in Dir, NEW s \in Sockets, NEW n \in DOMAIN sends[d][s]
          PROVE  sends[d][s][n] \in {"waiting", "ok", "failed", "silent"}
      <3>1. sends[d][s] \in Seq(Answers)
        BY <2>1 DEF Types, SendsType
      <3> QED  BY <3>1 DEF Answers
    <2>5. binder.goneAt \in [Sockets -> 0 .. MaxTime \cup {Never}] /\ clock \in 0 .. MaxTime /\ left \in 0 .. Budget
      BY <2>1 DEF Types, BinderType
    <2> QED  BY <2>2, <2>3, <2>4, <2>5 DEF TypeOK
  <1> QED  BY <1>1, BooksAlways, PTL

-----------------------------------------------------------------------------
(* What the binder forgets.                                                *)

\* No departure is forgotten in this step, but of an identity that is back or an old one.
Forgets(i) ==
    binder.goneAt[i] # Never /\ binder'.goneAt[i] = Never => binder'.route[i] # 0 \/ clock - binder.goneAt[i] > TTL

(* onRemoteDisconnect forgets old departures only.                         *)
LEMMA LeavesForgets ==
    ASSUME BooksInv, NEW c \in Conns, NEW reason \in {"aborted", "disconnected"}, Held(c), binder' = Leaves(binder, c, reason)
    PROVE  \A i \in Sockets : Forgets(i)
  <1>1. Types /\ Connections /\ binder \in BinderType /\ clock \in 0 .. MaxTime
    BY DEF BooksInv, Types
  <1>2. PICK j \in Sockets : j = Remote(c)
    BY <1>1 DEF Connections, Made, Held
  <1>3. binder.conns[c] \in {"connected", "established"}
    BY DEF Held
  <1>4. /\ binder' \in BinderType /\ SameBut(binder, binder') /\ binder'.conns = [binder.conns EXCEPT ![c] = "erased"]
        /\ binder'.route = IF binder.conns[c] = "connected" THEN binder.route ELSE [binder.route EXCEPT ![j] = 0]
        /\ binder.conns[c] = "connected" \/ reason = "aborted" =>
              binder'.pending = binder.pending /\ binder'.goneAt = binder.goneAt /\ binder'.insertions = binder.insertions
        /\ binder.conns[c] = "established" /\ reason = "disconnected" =>
              /\ binder'.pending = [binder.pending EXCEPT ![j] = <<>>]
              /\ binder'.goneAt[j] # Never /\ Listed(binder', j)
              /\ \A k \in Sockets \ {j} :
                   /\ binder'.goneAt[k] # Never => binder'.goneAt[k] = binder.goneAt[k]
                   /\ binder.goneAt[k] # Never /\ binder'.goneAt[k] = Never => clock - binder.goneAt[k] > TTL
                   /\ binder'.goneAt[k] # Never /\ Listed(binder, k) => Listed(binder', k)
    BY <1>1, <1>2, <1>3, LeavesEffect
  <1>5. CASE binder.conns[c] = "connected" \/ reason = "aborted"
    BY <1>4, <1>5 DEF Forgets
  <1>6. CASE binder.conns[c] = "established" /\ reason = "disconnected"
    BY <1>4, <1>6 DEF Forgets
  <1> QED  BY <1>3, <1>5, <1>6

(* An identity that left is forgotten only when it comes back or when its  *)
(* entry is older than the TTL, whatever leaves, connects or is purged in  *)
(* between (purgeExpiredDisconnectedIdentities, onRemoteIdentity).         *)
THEOREM ForgottenWhenOld == Spec => ForgottenOnlyWhenOld
  <1>1. ASSUME BooksInv, [Next]_vars
        PROVE  \A i \in Sockets : Forgets(i)
    <2>1. Types /\ Connections /\ TablesAgree /\ binder \in BinderType /\ clock \in 0 .. MaxTime
      BY <1>1 DEF BooksInv, Types
    <2>2. binder' = binder \/ binder'.goneAt = binder.goneAt => \A i \in Sockets : Forgets(i)
      BY DEF Forgets
    <2>3. ASSUME NEW c \in Conns, BinderOnRead(c) PROVE \A i \in Sockets : Forgets(i)
      <3> DEFINE e == Head(chan[c].wire["connector"])
      <3>1. Held(c)
        BY <2>3 DEF BinderOnRead
      <3>2. CASE binder' = Identify(binder, c)
        <4>1. PICK j \in Sockets : j = Remote(c)
          BY <2>1, <3>1 DEF Connections, Made, Held
        <4>2. /\ binder' \in BinderType /\ SameBut(binder, binder') /\ binder'.insertions = binder.insertions
              /\ \A d \in Conns : binder'.conns[d] = IF d = c THEN "established" ELSE IF d = binder.route[j] THEN "erased" ELSE binder.conns[d]
              /\ binder'.route = [binder.route EXCEPT ![j] = c] /\ binder'.goneAt = [binder.goneAt EXCEPT ![j] = Never]
              /\ binder'.pending = [binder.pending EXCEPT ![j] = <<>>]
          BY <2>1, <3>2, <4>1, IdentifyEffect
        <4>3. c # 0 /\ binder'.route[j] = c /\ \A k \in Sockets \ {j} : binder'.goneAt[k] = binder.goneAt[k]
          BY <2>1, <4>2 DEF Conns, BinderType
        <4> QED  BY <4>3 DEF Forgets
      <3>3. CASE binder' = Deliver(binder, e)
        <4>1. binder'.goneAt = binder.goneAt
          BY <2>1, <3>3 DEF Deliver, BinderType
        <4> QED  BY <2>2, <4>1
      <3>4. CASE \E reason \in {"aborted", "disconnected"} : binder' = Leaves(binder, c, reason)
        BY <1>1, <3>1, <3>4, LeavesForgets
      <3> QED  BY <2>3, <3>2, <3>3, <3>4 DEF BinderOnRead
    <2>4. ASSUME NEW i \in Sockets, CloseConnection(i) PROVE \A k \in Sockets : Forgets(k)
      <3>1. PICK c \in Conns : c = binder.route[i] /\ c # 0
        BY <2>1, <2>4 DEF CloseConnection, BinderType
      <3>2. Held(c)
        BY <2>1, <3>1 DEF TablesAgree, Identified, Held
      <3>3. binder' = Leaves(binder, c, "disconnected")
        BY <2>4, <3>1 DEF CloseConnection
      <3> QED  BY <1>1, <3>2, <3>3, LeavesForgets
    <2>5. ASSUME StrangerLeaves PROVE \A i \in Sockets : Forgets(i)
      BY <2>1, <2>5, PurgeEffect DEF StrangerLeaves, Forgets
    <2>6. ASSUME \/ \E c \in Conns : Accept(c)
                 \/ \E i \in Sockets : BinderSend(i)
                 \/ BinderRecv \/ BinderShutdown
          PROVE  \A i \in Sockets : Forgets(i)
      <3>1. binder'.goneAt = binder.goneAt
        BY <2>1, <2>6 DEF Accept, BinderSend, BinderRecv, BinderShutdown, BinderType
      <3> QED  BY <2>2, <3>1
    <2>7. ASSUME \/ \E c \in Conns, side \in Side : Flush(c, side) \/ OnWriteDone(c, side)
                 \/ \E c \in Conns : Cut(c)
                 \/ \E s \in Sockets : \/ OnClientConnected(s) \/ OnRead(s) \/ Connect(s) \/ SendMessage(s)
                                       \/ RecvMessage(s) \/ Shutdown(s) \/ ConnectRefused(s)
                 \/ Tick \/ UNCHANGED vars
          PROVE  \A i \in Sockets : Forgets(i)
      <3>1. binder' = binder
        BY <2>7 DEF Flush, OnWriteDone, Cut, OnClientConnected, OnRead, Connect, SendMessage, RecvMessage, Shutdown,
                    ConnectRefused, Tick, vars
      <3> QED  BY <2>2, <3>1
    <2> QED  BY <1>1, <2>3, <2>4, <2>5, <2>6, <2>7 DEF Next, Libuv, User, Network
  <1>2. BooksInv /\ [Next]_vars =>
          [\A i \in Sockets : binder.goneAt[i] # Never /\ binder'.goneAt[i] = Never =>
              binder'.route[i] # 0 \/ clock - binder.goneAt[i] > TTL]_vars
    BY <1>1 DEF Forgets
  <1> QED  BY <1>2, BooksAlways, PTL DEF Spec, ForgottenOnlyWhenOld

-----------------------------------------------------------------------------
(***************************************************************************)
(* What is delivered.  A lane is what one end sends to the other: up from  *)
(* a socket to the binder, or down.  A message of a lane is in the queue   *)
(* of its sender, written to one connection (out), under way (wire) or     *)
(* received, and the places are in the order of the numbers:               *)
(*                                                                         *)
(*     received  <  wire  <  out  <  queue                                 *)
(*                                                                         *)
(* for a connection that is read.  The binder may hold two connections of  *)
(* one identity at once; that it does not read the older one when it has   *)
(* identified the newer one is what keeps the order between them, and      *)
(* follows from the error that ends the older one (Marked) and from the    *)
(* order in which the binder looks at its connections (FirstCome).         *)
(***************************************************************************)

Nums(q) == {e.n : e \in {x \in Elems(q) : x.kind = "msg"}}
Below(A, B) == \A a \in A, b \in B : a < b
DirOf(side) == IF side = "connector" THEN "up" ELSE "down"
NumOf(e) == IF e.kind = "msg" THEN {e.n} ELSE {}

\* The messages of q are of this lane, and in the order they were sent.
Fits(e, side, s) == e.kind = "msg" => e.dir = DirOf(side) /\ e.of = s
Sorted(q, side, s) ==
    /\ \A k \in DOMAIN q : Fits(q[k], side, s)
    /\ \A j, k \in DOMAIN q : j < k /\ q[j].kind = "msg" /\ q[k].kind = "msg" => q[j].n < q[k].n

(* The numbers of a list of items are numbers.                             *)
LEMMA NumsType ==
    ASSUME NEW q \in Seq(Item)
    PROVE  Nums(q) \subseteq Nat
  <1>1. \A e \in Elems(q) : e \in Item
    BY ElemsBasic
  <1> QED  BY <1>1, Kinds DEF Nums, Numbered

(* The empty list, one item, and marks that are no messages.               *)
LEMMA NumsBasic ==
    /\ Nums(<<>>) = {} /\ \A side, s : Sorted(<<>>, side, s)
    /\ NumOf(Hello) = {} /\ NumOf(Fin) = {} /\ NumOf(Rst) = {}
    /\ \A side, s : \A e \in {Hello, Fin, Rst} : Fits(e, side, s) /\ e.kind # "msg"
    /\ \A e \in Item : NumOf(e) \subseteq Nat
  <1>1. Nums(<<>>) = {}
    BY ElemsBasic DEF Nums
  <1>2. \A side, s : Sorted(<<>>, side, s)
    BY DEF Sorted
  <1>3. \A e \in Item : NumOf(e) \subseteq Nat
    BY Kinds DEF NumOf, Numbered
  <1> QED  BY <1>1, <1>2, <1>3, Kinds DEF NumOf, Fits

(* One item more.                                                          *)
LEMMA NumsAppend ==
    ASSUME NEW q \in Seq(Item), NEW e \in Item
    PROVE  /\ Nums(Append(q, e)) = Nums(q) \cup NumOf(e)
           /\ \A side, s : Sorted(q, side, s) /\ Fits(e, side, s) /\ Below(Nums(q), NumOf(e))
                               => Sorted(Append(q, e), side, s)
  <1>1. Nums(Append(q, e)) = Nums(q) \cup NumOf(e)
    BY ElemsAppend DEF Nums, NumOf
  <1>2. Len(q) \in Nat /\ DOMAIN q = 1 .. Len(q) /\ DOMAIN Append(q, e) = 1 .. Len(q) + 1
        /\ Append(q, e)[Len(q) + 1] = e /\ \A k \in 1 .. Len(q) : Append(q, e)[k] = q[k]
    OBVIOUS
  <1> DEFINE p == Append(q, e)
  <1>3. DOMAIN p = 1 .. Len(q) + 1 /\ p[Len(q) + 1] = e /\ \A k \in 1 .. Len(q) : p[k] = q[k]
    BY <1>2
  <1> HIDE DEF p
  <1>4. ASSUME NEW side, NEW s, Sorted(q, side, s), Fits(e, side, s), Below(Nums(q), NumOf(e))
        PROVE  Sorted(p, side, s)
    <2>1. \A k \in DOMAIN p : k \in DOMAIN q \/ k = Len(q) + 1
      BY <1>2, <1>3
    <2>2. \A k \in DOMAIN p : Fits(p[k], side, s)
      BY <1>2, <1>3, <1>4, <2>1 DEF Sorted
    <2>3. ASSUME NEW j \in DOMAIN p, NEW k \in DOMAIN p, j < k, p[j].kind = "msg", p[k].kind = "msg"
          PROVE  p[j].n < p[k].n
      <3>1. j \in DOMAIN q /\ p[j] = q[j]
        BY <1>2, <1>3, <2>3
      <3>2. CASE k \in DOMAIN q
        BY <1>2, <1>3, <1>4, <2>3, <3>1, <3>2 DEF Sorted
      <3>3. CASE k = Len(q) + 1
        <4>1. q[j] \in Elems(q)
          BY <3>1 DEF Elems
        <4>2. p[j].n \in Nums(q)
          BY <2>3, <3>1, <4>1 DEF Nums
        <4>3. p[k].n \in NumOf(e)
          BY <1>3, <2>3, <3>3 DEF NumOf
        <4> QED  BY <1>4, <4>2, <4>3 DEF Below
      <3> QED  BY <2>1, <3>2, <3>3
    <2> QED  BY <2>2, <2>3 DEF Sorted
  <1> QED  BY <1>1, <1>4 DEF p

(* A mark at the end changes nothing.                                      *)
LEMMA NumsMark ==
    ASSUME NEW q \in Seq(Item), NEW e \in {Hello, Fin, Rst}
    PROVE  /\ Append(q, e) \in Seq(Item) /\ Nums(Append(q, e)) = Nums(q)
           /\ \A side, s : Sorted(q, side, s) => Sorted(Append(q, e), side, s)
  <1>1. e \in Item /\ NumOf(e) = {} /\ \A side, s : Fits(e, side, s)
    BY NumsBasic DEF Item
  <1>2. Nums(Append(q, e)) = Nums(q) \cup NumOf(e)
    BY <1>1, NumsAppend
  <1>3. Below(Nums(q), NumOf(e))
    BY <1>1 DEF Below
  <1>4. \A side, s : Sorted(q, side, s) => Sorted(Append(q, e), side, s)
    BY <1>1, <1>3, NumsAppend
  <1> QED  BY <1>1, <1>2, <1>4

(* The first item taken off.                                               *)
LEMMA NumsTail ==
    ASSUME NEW q \in Seq(Item), q # <<>>
    PROVE  /\ Head(q) \in Item /\ Tail(q) \in Seq(Item)
           /\ Nums(q) = NumOf(Head(q)) \cup Nums(Tail(q))
           /\ \A side, s : Sorted(q, side, s) =>
                 /\ Sorted(Tail(q), side, s) /\ Fits(Head(q), side, s)
                 /\ Below(NumOf(Head(q)), Nums(Tail(q)))
  <1>1. Len(q) \in Nat \ {0} /\ DOMAIN q = 1 .. Len(q) /\ Head(q) = q[1] /\ Head(q) \in Item /\ Tail(q) \in Seq(Item)
    BY LenProperties, EmptySeq, HeadTailProperties
  <1> DEFINE t == Tail(q)
  <1>2. DOMAIN t = 1 .. Len(q) - 1 /\ \A k \in 1 .. Len(q) - 1 : t[k] = q[k + 1]
    BY HeadTailProperties, LenProperties
  <1>3. Nums(q) = NumOf(Head(q)) \cup Nums(Tail(q))
    BY ElemsTail DEF Nums, NumOf
  <1> HIDE DEF t
  <1>4. ASSUME NEW side, NEW s, Sorted(q, side, s)
        PROVE  Sorted(t, side, s) /\ Fits(Head(q), side, s) /\ Below(NumOf(Head(q)), Nums(t))
    <2>1. \A k \in DOMAIN t : k + 1 \in DOMAIN q /\ t[k] = q[k + 1] /\ 1 \in DOMAIN q /\ 1 < k + 1 /\ k \in Int
      BY <1>1, <1>2
    <2>2. Sorted(t, side, s)
      <3>1. \A k \in DOMAIN t : Fits(t[k], side, s)
        BY <1>4, <2>1 DEF Sorted
      <3>2. ASSUME NEW j \in DOMAIN t, NEW k \in DOMAIN t, j < k, t[j].kind = "msg", t[k].kind = "msg"
            PROVE  t[j].n < t[k].n
        <4>1. j + 1 \in DOMAIN q /\ k + 1 \in DOMAIN q /\ t[j] = q[j + 1] /\ t[k] = q[k + 1] /\ j \in Int /\ k \in Int
          BY <2>1
        <4>2. j + 1 < k + 1
          BY <3>2, <4>1
        <4> QED  BY <1>4, <3>2, <4>1, <4>2 DEF Sorted
      <3> QED  BY <3>1, <3>2 DEF Sorted
    <2>3. Fits(Head(q), side, s)
      BY <1>1, <1>4 DEF Sorted
    <2>4. ASSUME NEW a \in NumOf(Head(q)), NEW b \in Nums(t)
          PROVE  a < b
      <3>1. Head(q).kind = "msg" /\ a = Head(q).n
        BY <2>4 DEF NumOf
      <3>2. PICK k \in DOMAIN t : t[k].kind = "msg" /\ b = t[k].n
        BY <2>4 DEF Nums, Elems
      <3> QED  BY <1>1, <1>4, <2>1, <3>1, <3>2 DEF Sorted
    <2> QED  BY <2>2, <2>3, <2>4 DEF Below
  <1> QED  BY <1>1, <1>3, <1>4 DEF t

(* One list after another.                                                 *)
LEMMA NumsConcat ==
    ASSUME NEW q \in Seq(Item), NEW r \in Seq(Item)
    PROVE  /\ Nums(q \o r) = Nums(q) \cup Nums(r)
           /\ \A side, s : Sorted(q, side, s) /\ Sorted(r, side, s) /\ Below(Nums(q), Nums(r))
                               => Sorted(q \o r, side, s)
  <1>1. Len(q) \in Nat /\ Len(r) \in Nat /\ DOMAIN q = 1 .. Len(q) /\ DOMAIN r = 1 .. Len(r)
    BY LenProperties
  <1>2. Nums(q \o r) = Nums(q) \cup Nums(r)
    BY ElemsConcat DEF Nums
  <1> DEFINE p == q \o r
  <1>3. DOMAIN p = 1 .. Len(q) + Len(r) /\ \A k \in 1 .. Len(q) + Len(r) : p[k] = IF k <= Len(q) THEN q[k] ELSE r[k - Len(q)]
    BY ConcatProperties, LenProperties
  <1> HIDE DEF p
  <1>4. ASSUME NEW side, NEW s, Sorted(q, side, s), Sorted(r, side, s), Below(Nums(q), Nums(r))
        PROVE  Sorted(p, side, s)
    <2>1. \A k \in DOMAIN p : \/ k \in DOMAIN q /\ p[k] = q[k]
                              \/ k > Len(q) /\ k - Len(q) \in DOMAIN r /\ p[k] = r[k - Len(q)]
      BY <1>1, <1>3
    <2>2. \A k \in DOMAIN p : Fits(p[k], side, s)
      BY <1>4, <2>1 DEF Sorted
    <2>3. ASSUME NEW j \in DOMAIN p, NEW k \in DOMAIN p, j < k, p[j].kind = "msg", p[k].kind = "msg"
          PROVE  p[j].n < p[k].n
      <3>0. j \in Int /\ k \in Int
        BY <1>1, <1>3
      <3>1. CASE k \in DOMAIN q /\ p[k] = q[k]
        <4>0. j <= Len(q) /\ ~(j > Len(q))
          BY <1>1, <2>3, <3>0, <3>1
        <4>1. j \in DOMAIN q /\ p[j] = q[j]
          BY <2>1, <4>0
        <4> QED  BY <1>4, <2>3, <3>1, <4>1 DEF Sorted
      <3>2. CASE k > Len(q) /\ k - Len(q) \in DOMAIN r /\ p[k] = r[k - Len(q)]
        <4>1. CASE j \in DOMAIN q /\ p[j] = q[j]
          <5>1. p[j] \in Elems(q) /\ p[k] \in Elems(r)
            BY <3>2, <4>1 DEF Elems
          <5>2. p[j].n \in Nums(q) /\ p[k].n \in Nums(r)
            BY <2>3, <5>1 DEF Nums
          <5> QED  BY <1>4, <5>2 DEF Below
        <4>2. CASE j > Len(q) /\ j - Len(q) \in DOMAIN r /\ p[j] = r[j - Len(q)]
          <5>1. j - Len(q) < k - Len(q)
            BY <1>1, <2>3, <3>0
          <5> QED  BY <1>4, <2>3, <3>2, <4>2, <5>1 DEF Sorted
        <4> QED  BY <2>1, <4>1, <4>2
      <3> QED  BY <2>1, <3>1, <3>2
    <2> QED  BY <2>2, <2>3 DEF Sorted
  <1> QED  BY <1>2, <1>4 DEF p

(* The beginning of a list.                                                *)
LEMMA NumsPrefix ==
    ASSUME NEW q \in Seq(Item), NEW n \in 0 .. Len(q)
    PROVE  /\ SubSeq(q, 1, n) \in Seq(Item) /\ Nums(SubSeq(q, 1, n)) \subseteq Nums(q)
           /\ \A side, s : Sorted(q, side, s) => Sorted(SubSeq(q, 1, n), side, s)
  <1>1. Len(q) \in Nat /\ DOMAIN q = 1 .. Len(q)
    BY LenProperties
  <1>2. SubSeq(q, 1, n) \in Seq(Item) /\ Nums(SubSeq(q, 1, n)) \subseteq Nums(q)
    BY ElemsPrefix DEF Nums
  <1> DEFINE p == SubSeq(q, 1, n)
  <1>3. DOMAIN p = 1 .. n /\ \A k \in 1 .. n : p[k] = q[k]
    OBVIOUS
  <1> HIDE DEF p
  <1>4. \A k \in DOMAIN p : k \in DOMAIN q /\ p[k] = q[k]
    BY <1>1, <1>3
  <1>5. \A side, s : Sorted(q, side, s) => Sorted(p, side, s)
    BY <1>4 DEF Sorted
  <1> QED  BY <1>2, <1>5 DEF p

(* What a cut leaves of a list.                                            *)
LEMMA NumsCut ==
    ASSUME NEW q \in Seq(Item), NEW r, CutTo(q, r)
    PROVE  /\ Nums(r) \subseteq Nums(q) /\ \A side, s : Sorted(q, side, s) => Sorted(r, side, s)
           /\ r # <<>> /\ Rst \in Elems(r) /\ (Head(r) = Rst \/ (q # <<>> /\ Head(r) = Head(q)))
  <1>1. PICK k \in 0 .. Len(q) : r = Append(SubSeq(q, 1, k), Rst)
    BY DEF CutTo
  <1>2. PICK p \in Seq(Item) : p = SubSeq(q, 1, k)
    BY NumsPrefix
  <1>3. Nums(p) \subseteq Nums(q) /\ \A side, s : Sorted(q, side, s) => Sorted(p, side, s)
    BY <1>2, NumsPrefix
  <1>4. Rst \in Item
    BY DEF Item
  <1>5. Nums(r) = Nums(p) /\ \A side, s : Sorted(p, side, s) => Sorted(r, side, s)
    BY <1>1, <1>2, NumsMark
  <1>6. Elems(r) = Elems(p) \cup {Rst}
    <2>1. Elems(Append(p, Rst)) = Elems(p) \cup {Rst}
      BY <1>4, ElemsAppend
    <2> QED  BY <1>1, <1>2, <2>1
  <1>7. r # <<>> /\ (Head(r) = Rst \/ (q # <<>> /\ Head(r) = Head(q)))
    <2>1. Len(q) \in Nat /\ k \in Int
      BY LenProperties
    <2>2. CASE k = 0
      <3>1. p = <<>>
        BY <1>2, <2>2, SubSeqEmpty
      <3>2. r = Append(<<>>, Rst)
        BY <1>1, <1>2, <3>1
      <3>3. r = <<Rst>>
        BY <3>2
      <3> QED  BY <3>3
    <2>3. CASE k # 0
      <3>0. k \in 1 .. Len(q) /\ Len(q) >= 1
        BY <2>1, <2>3
      <3>1. Len(p) = k /\ p[1] = q[1] /\ q # <<>>
        <4>1. Len(SubSeq(q, 1, k)) = k /\ SubSeq(q, 1, k)[1] = q[1]
          BY <2>1, <3>0
        <4>2. q # <<>>
          BY <3>0
        <4> QED  BY <1>2, <4>1, <4>2
      <3>2. r # <<>> /\ r[1] = p[1] /\ Len(r) = k + 1
        <4>1. r = Append(p, Rst) /\ Len(p) \in Nat /\ Len(p) >= 1
          BY <1>1, <1>2, <2>1, <3>0, <3>1
        <4>2. Len(r) = Len(p) + 1 /\ r[1] = p[1]
          BY <1>4, <4>1
        <4> QED  BY <3>0, <3>1, <4>1, <4>2
      <3>3. r \in Seq(Item)
        BY <1>1, <1>2, <1>4
      <3>4. Head(r) = r[1] /\ Head(q) = q[1]
        BY <3>1, <3>2, <3>3, HeadTailProperties
      <3> QED  BY <3>1, <3>2, <3>4
    <2> QED  BY <2>2, <2>3
  <1> QED  BY <1>3, <1>5, <1>6, <1>7

(* The callbacks of the messages in a list of a lane.                      *)
LEMMA MessagesNums ==
    ASSUME NEW q \in Seq(Item)
    PROVE  /\ \A d, s, n : Msg(d, s, n) \in Messages(q) => n \in Nums(q)
           /\ \A side, t : Sorted(q, side, t) =>
                 \A d, s, n : Msg(d, s, n) \in Messages(q) => d = DirOf(side) /\ s = t
  <1>1. ASSUME NEW d, NEW s, NEW n, Msg(d, s, n) \in Messages(q)
        PROVE  \E k \in DOMAIN q : q[k].kind = "msg" /\ q[k].dir = d /\ q[k].of = s /\ q[k].n = n
    BY <1>1 DEF Messages, Msg
  <1>2. \A d, s, n : Msg(d, s, n) \in Messages(q) => n \in Nums(q)
    BY <1>1 DEF Nums, Elems
  <1> QED  BY <1>1, <1>2 DEF Sorted, Fits

(* The one message of an operation.                                        *)
LEMMA OneMessage ==
    ASSUME NEW e \in Item
    PROVE  \A d, s, n : Msg(d, s, n) \in Messages(<<e>>) => n \in NumOf(e) /\ e.dir = d /\ e.of = s
  <1>1. DOMAIN <<e>> = {1} /\ <<e>>[1] = e
    OBVIOUS
  <1> QED  BY <1>1 DEF Messages, Msg, NumOf

-----------------------------------------------------------------------------
(* The lanes as sets of numbers.                                           *)

\* The binder reads the connection, or will when it has accepted it.
Readable(c) == Held(c) \/ (binder.open /\ chan[c].made /\ binder.conns[c] = "new")

Mine(c, s)        == chan[c].made /\ chan[c].socket = s
OnWire(c, side, s) == IF Mine(c, s) THEN Nums(chan[c].wire[side]) ELSE {}
InOut(c, side, s) == IF Mine(c, s) THEN Nums(chan[c].out[side]) ELSE {}
Line(c, side, s)  == OnWire(c, side, s) \cup InOut(c, side, s)
Queue(side, s)    == IF side = "connector" THEN sock[s].queue ELSE binder.pending[s]
Queued(side, s)   == Nums(Queue(side, s))
Reader(side, s)   == IF side = "connector" THEN "binder" ELSE s
SeenIn(r, s)      == {m.n : m \in {x \in Elems(r) : x.of = s}}
Seen(side, s)     == SeenIn(Received(Reader(side, s)), s)
Sent(side, s)     == Len(sends[DirOf(side)][s])
Failed(side, s)   == {n \in 1 .. Sent(side, s) : sends[DirOf(side)][s][n] = "failed"}
Reads(c, side, s) == Mine(c, s) /\ IF side = "connector" THEN Readable(c) ELSE sock[s].conn = c

\* Every number of the lane is that of a message that was sent.
Numbers(side, s) ==
    /\ Sent(side, s) \in Nat /\ Queued(side, s) \subseteq 1 .. Sent(side, s) /\ Seen(side, s) \subseteq 1 .. Sent(side, s)
    /\ \A c \in Conns : OnWire(c, side, s) \subseteq 1 .. Sent(side, s) /\ InOut(c, side, s) \subseteq 1 .. Sent(side, s)
\* What is queued comes last, and what will be read after what has been received.
Ordered(side, s) ==
    /\ Below(Seen(side, s), Queued(side, s))
    /\ \A c \in Conns :
          /\ Below(OnWire(c, side, s), InOut(c, side, s)) /\ Below(Line(c, side, s), Queued(side, s))
          /\ InOut(c, side, s) \cap Seen(side, s) = {}
          /\ Reads(c, side, s) => Below(Seen(side, s), Line(c, side, s))
\* An older connection carries earlier messages; what the binder sends goes over one.
Apart(side, s) ==
    \A c, d \in Conns : c < d =>
        IF side = "connector" THEN Below(Line(c, side, s), Line(d, side, s))
        ELSE Line(c, side, s) \cap Line(d, side, s) = {}
\* A message whose send failed is nowhere.
Nowhere(side, s) ==
    \A n \in Failed(side, s) : n \notin Seen(side, s) \cup Queued(side, s) /\ \A c \in Conns : n \notin Line(c, side, s)

Lane(side, s) == Numbers(side, s) /\ Ordered(side, s) /\ Apart(side, s) /\ Nowhere(side, s)

\* What is read in the next state was read before, or carries nothing.
NoNewReads(side, s) == \A c \in Conns : Reads(c, side, s)' => Reads(c, side, s) \/ Line(c, side, s) = {}

\* Nothing comes to the lane; what fails has been taken off.
Shrinks(side, s) ==
    /\ Sent(side, s)' = Sent(side, s) /\ NoNewReads(side, s)
    /\ Queued(side, s)' \subseteq Queued(side, s) /\ Seen(side, s)' \subseteq Seen(side, s)
    /\ \A c \in Conns : OnWire(c, side, s)' \subseteq OnWire(c, side, s) /\ InOut(c, side, s)' \subseteq InOut(c, side, s)
    /\ \A n \in Failed(side, s)' :
          \/ n \in Failed(side, s)
          \/ n \in Queued(side, s) /\ n \notin Queued(side, s)'
          \/ \E c \in Conns : n \in InOut(c, side, s) /\ n \notin InOut(c, side, s)'

(* A lane that shrinks stays in order.                                     *)
LEMMA LaneShrinks ==
    ASSUME NEW side \in Side, NEW s \in Sockets, Lane(side, s), Shrinks(side, s)
    PROVE  Lane(side, s)'
  <1>1. Numbers(side, s)'
    BY DEF Lane, Shrinks, Numbers
  <1>2. \A c \in Conns : Line(c, side, s)' \subseteq Line(c, side, s)
    BY DEF Shrinks, Line
  <1>3. Ordered(side, s)'
    BY <1>2 DEF Lane, Shrinks, Ordered, NoNewReads, Below
  <1>4. Apart(side, s)'
    BY <1>2 DEF Lane, Apart, Below
  <1>5. Nowhere(side, s)'
    <2> SUFFICES ASSUME NEW n \in Failed(side, s)'
                 PROVE  n \notin Seen(side, s)' \cup Queued(side, s)' /\ \A d \in Conns : n \notin Line(d, side, s)'
      BY DEF Nowhere
    <2>1. CASE n \in Failed(side, s)
      BY <1>2, <2>1 DEF Lane, Shrinks, Nowhere
    <2>2. CASE n \in Queued(side, s) /\ n \notin Queued(side, s)'
      <3>1. n \in Nat
        BY <2>2 DEF Lane, Numbers
      <3> QED  BY <1>2, <2>2, <3>1 DEF Lane, Shrinks, Ordered, Below
    <2>3. ASSUME NEW c \in Conns, n \in InOut(c, side, s), n \notin InOut(c, side, s)'
          PROVE  n \notin Seen(side, s)' \cup Queued(side, s)' /\ \A d \in Conns : n \notin Line(d, side, s)'
      <3>1. n \in Nat /\ n \in Line(c, side, s)
        BY <2>3 DEF Lane, Numbers, Line
      <3>2. n \notin Seen(side, s)' /\ n \notin Queued(side, s)'
        BY <2>3, <3>1 DEF Lane, Shrinks, Ordered, Below
      <3>3. n \notin Line(c, side, s)'
        BY <2>3, <3>1 DEF Lane, Shrinks, Ordered, Below, Line
      <3>4. ASSUME NEW d \in Conns, d # c
            PROVE  n \notin Line(d, side, s)
        <4>1. c < d \/ d < c
          BY <3>4, BoundAssumption DEF Conns
        <4> QED  BY <3>1, <4>1 DEF Lane, Apart, Below
      <3> QED  BY <1>2, <3>2, <3>3, <3>4
    <2> QED  BY <2>1, <2>2, <2>3 DEF Shrinks
  <1> QED  BY <1>1, <1>3, <1>4, <1>5 DEF Lane

\* The message of this number, if it is one, goes from libuv to the wire of c.
Flushes(side, s, c, n) ==
    /\ Sent(side, s)' = Sent(side, s) /\ NoNewReads(side, s) /\ Failed(side, s)' \subseteq Failed(side, s)
    /\ Queued(side, s)' = Queued(side, s) /\ Seen(side, s)' = Seen(side, s)
    /\ InOut(c, side, s) = n \cup InOut(c, side, s)' /\ OnWire(c, side, s)' = OnWire(c, side, s) \cup n
    /\ Below(n, InOut(c, side, s)')
    /\ \A d \in Conns \ {c} : OnWire(d, side, s)' = OnWire(d, side, s) /\ InOut(d, side, s)' = InOut(d, side, s)

(* onWriteDone keeps a lane in order.                                      *)
LEMMA LaneFlushes ==
    ASSUME NEW side \in Side, NEW s \in Sockets, NEW c \in Conns, NEW n, Lane(side, s), Flushes(side, s, c, n)
    PROVE  Lane(side, s)'
  <1>1. \A d \in Conns : Line(d, side, s)' = Line(d, side, s)
    BY DEF Flushes, Line
  <1>2. Numbers(side, s)'
    BY DEF Lane, Flushes, Numbers
  <1>3. Ordered(side, s)'
    <2>1. Below(Seen(side, s), Queued(side, s))'
      BY DEF Lane, Flushes, Ordered, Below
    <2>2. ASSUME NEW d \in Conns
          PROVE  Below(OnWire(d, side, s), InOut(d, side, s))'
      BY DEF Lane, Flushes, Ordered, Below
    <2>3. \A d \in Conns : InOut(d, side, s)' \cap Seen(side, s)' = {} /\ Below(Line(d, side, s), Queued(side, s))'
      BY <1>1 DEF Lane, Flushes, Ordered, Below
    <2>4. \A d \in Conns : Reads(d, side, s)' => Below(Seen(side, s), Line(d, side, s))'
      BY <1>1 DEF Lane, Flushes, Ordered, NoNewReads, Below
    <2> QED  BY <2>1, <2>2, <2>3, <2>4 DEF Ordered
  <1>4. Apart(side, s)'
    BY <1>1 DEF Lane, Apart, Below
  <1>5. Nowhere(side, s)'
    BY <1>1 DEF Lane, Flushes, Nowhere
  <1> QED  BY <1>2, <1>3, <1>4, <1>5 DEF Lane

\* The message of this number, the first on the wire of c, is received.
Receives(side, s, c, n) ==
    /\ Sent(side, s)' = Sent(side, s) /\ Failed(side, s)' \subseteq Failed(side, s) /\ Reads(c, side, s)
    /\ Queued(side, s)' = Queued(side, s) /\ Seen(side, s)' = Seen(side, s) \cup n
    /\ OnWire(c, side, s) = n \cup OnWire(c, side, s)' /\ Below(n, OnWire(c, side, s)')
    /\ InOut(c, side, s)' = InOut(c, side, s)
    /\ \A d \in Conns \ {c} : /\ OnWire(d, side, s)' = OnWire(d, side, s) /\ InOut(d, side, s)' = InOut(d, side, s)
                              /\ Reads(d, side, s)' => side = "connector" /\ c < d /\ Reads(d, side, s)

(* onMessage keeps a lane in order.                                        *)
LEMMA LaneReceives ==
    ASSUME NEW side \in Side, NEW s \in Sockets, NEW c \in Conns, NEW n, Lane(side, s), Receives(side, s, c, n)
    PROVE  Lane(side, s)' /\ Below(Seen(side, s), n)
  <1>1. \A d \in Conns : Line(d, side, s)' \subseteq Line(d, side, s)
    BY DEF Receives, Line
  <1>2. Numbers(side, s)'
    BY DEF Lane, Receives, Numbers
  <1>3. n \subseteq Nat /\ n \subseteq Line(c, side, s) /\ n \subseteq OnWire(c, side, s) /\ Below(Seen(side, s), n)
    BY DEF Lane, Numbers, Receives, Line, Ordered, Below
  <1>4. \A d \in Conns : d # c => c < d \/ d < c
    BY BoundAssumption DEF Conns
  <1>5. ASSUME NEW d \in Conns, d # c
        PROVE  n \cap InOut(d, side, s) = {}
    <2>1. InOut(d, side, s) \subseteq Line(d, side, s) /\ InOut(d, side, s) \subseteq Nat
      BY DEF Line, Lane, Numbers
    <2> QED  BY <1>3, <1>4, <1>5, <2>1 DEF Lane, Apart, Below
  <1>6. Ordered(side, s)'
    <2>1. Below(Seen(side, s), Queued(side, s))'
      BY <1>3 DEF Lane, Receives, Ordered, Below
    <2>2. \A d \in Conns : Below(OnWire(d, side, s), InOut(d, side, s))'
      BY DEF Lane, Receives, Ordered, Below
    <2>3. \A d \in Conns : Below(Line(d, side, s), Queued(side, s))'
      BY <1>1 DEF Lane, Receives, Ordered, Below
    <2>4. n \cap InOut(c, side, s) = {}
      <3>1. Below(OnWire(c, side, s), InOut(c, side, s))
        BY DEF Lane, Ordered
      <3>2. \A a \in n : a \in OnWire(c, side, s) /\ ~(a < a)
        BY <1>3
      <3> QED  BY <3>1, <3>2 DEF Below
    <2>5. \A d \in Conns : InOut(d, side, s)' \cap Seen(side, s)' = {}
      BY <1>5, <2>4 DEF Lane, Receives, Ordered
    <2>6. Below(Seen(side, s), Line(c, side, s))'
      <3>1. Below(Seen(side, s), Line(c, side, s))
        BY DEF Lane, Ordered, Receives
      <3>2. Below(n, Line(c, side, s)')
        BY <1>3 DEF Lane, Ordered, Receives, Line, Below
      <3> QED  BY <1>1, <3>1, <3>2 DEF Receives, Below
    <2>7. ASSUME NEW d \in Conns, d # c, Reads(d, side, s)'
          PROVE  Below(Seen(side, s), Line(d, side, s))'
      <3>1. side = "connector" /\ c < d /\ Reads(d, side, s)
        BY <2>7 DEF Receives
      <3>2. Below(Seen(side, s), Line(d, side, s))
        BY <3>1 DEF Lane, Ordered
      <3>3. Below(n, Line(d, side, s))
        BY <1>3, <3>1 DEF Lane, Apart, Below
      <3> QED  BY <1>1, <3>2, <3>3 DEF Receives, Below
    <2> QED  BY <2>1, <2>2, <2>3, <2>5, <2>6, <2>7 DEF Ordered
  <1>7. Apart(side, s)'
    BY <1>1 DEF Lane, Apart, Below
  <1>8. Nowhere(side, s)'
    <2>1. ASSUME NEW k \in Failed(side, s)'
          PROVE  k \notin Seen(side, s)' \cup Queued(side, s)' /\ \A d \in Conns : k \notin Line(d, side, s)'
      <3>1. k \notin Seen(side, s) /\ k \notin Queued(side, s) /\ \A d \in Conns : k \notin Line(d, side, s)
        BY DEF Lane, Receives, Nowhere
      <3>2. k \notin n
        BY <1>3, <3>1
      <3>3. Seen(side, s)' = Seen(side, s) \cup n /\ Queued(side, s)' = Queued(side, s)
        BY DEF Receives
      <3> QED  BY <1>1, <3>1, <3>2, <3>3
    <2> QED  BY <2>1 DEF Nowhere
  <1> QED  BY <1>2, <1>3, <1>6, <1>7, <1>8 DEF Lane

\* The next message is queued.
Queues(side, s) ==
    /\ Failed(side, s)' \subseteq Failed(side, s) /\ Queued(side, s)' = Queued(side, s) \cup {Sent(side, s) + 1}
    /\ \A d \in Conns : InOut(d, side, s)' = InOut(d, side, s)
\* It goes to libuv over c, the latest connection that carries anything.
Writes(side, s, c) ==
    /\ Failed(side, s)' \subseteq Failed(side, s) /\ Queued(side, s) = {} /\ Queued(side, s)' = {}
    /\ InOut(c, side, s)' = InOut(c, side, s) \cup {Sent(side, s) + 1}
    /\ \A d \in Conns \ {c} : InOut(d, side, s)' = InOut(d, side, s)
    /\ side = "connector" => \A d \in Conns : c < d => Line(d, side, s) = {}
\* It goes nowhere.
Drops(side, s) ==
    /\ Failed(side, s)' \subseteq Failed(side, s) \cup {Sent(side, s) + 1} /\ Queued(side, s)' = Queued(side, s)
    /\ \A d \in Conns : InOut(d, side, s)' = InOut(d, side, s)
\* sendMessage.
SendsOne(side, s) ==
    /\ Sent(side, s)' = Sent(side, s) + 1 /\ Seen(side, s)' = Seen(side, s) /\ NoNewReads(side, s)
    /\ \A d \in Conns : OnWire(d, side, s)' = OnWire(d, side, s)
    /\ Queues(side, s) \/ Drops(side, s) \/ \E c \in Conns : Writes(side, s, c)

(* sendMessage keeps a lane in order.                                      *)
LEMMA LaneSends ==
    ASSUME NEW side \in Side, NEW s \in Sockets, Lane(side, s), SendsOne(side, s)
    PROVE  Lane(side, s)'
  <1> DEFINE m == Sent(side, s) + 1
  <1>0. /\ Sent(side, s) \in Nat /\ m \in Nat /\ Sent(side, s)' = m /\ 1 .. Sent(side, s) \subseteq 1 .. m
        /\ \A a \in 1 .. Sent(side, s) : a < m
    BY DEF Lane, Numbers, SendsOne
  <1>1. /\ \A a \in Queued(side, s) \cup Seen(side, s) \cup Failed(side, s) : a \in Nat /\ a < m
        /\ \A d \in Conns : \A a \in OnWire(d, side, s) \cup InOut(d, side, s) : a \in Nat /\ a < m
        /\ \A d \in Conns : \A a \in Line(d, side, s) : a \in Nat /\ a < m
    BY <1>0 DEF Lane, Numbers, Line, Failed
  <1>2. m \in 1 .. m
    BY <1>0
  <1> HIDE DEF m
  <1>3. CASE Queues(side, s)
    <2>0. Queued(side, s)' = Queued(side, s) \cup {m} /\ Seen(side, s)' = Seen(side, s)
      BY <1>3 DEF Queues, SendsOne, m
    <2>1. Numbers(side, s)'
      BY <1>0, <1>2, <1>3, <2>0 DEF Lane, Numbers, SendsOne, Queues
    <2>2. \A d \in Conns : Line(d, side, s)' = Line(d, side, s)
      BY <1>3 DEF SendsOne, Queues, Line
    <2>3. Ordered(side, s)'
      BY <1>1, <1>3, <2>0, <2>2 DEF Lane, Ordered, SendsOne, Queues, NoNewReads, Below
    <2>4. Apart(side, s)'
      BY <2>2 DEF Lane, Apart, Below
    <2>5. Nowhere(side, s)'
      BY <1>1, <1>3, <2>0, <2>2 DEF Lane, Nowhere, Queues
    <2> QED  BY <2>1, <2>3, <2>4, <2>5 DEF Lane
  <1>4. CASE Drops(side, s)
    <2>1. Numbers(side, s)'
      BY <1>0, <1>4 DEF Lane, Numbers, SendsOne, Drops
    <2>2. \A d \in Conns : Line(d, side, s)' = Line(d, side, s)
      BY <1>4 DEF SendsOne, Drops, Line
    <2>3. Ordered(side, s)'
      BY <1>4, <2>2 DEF Lane, Ordered, SendsOne, Drops, NoNewReads, Below
    <2>4. Apart(side, s)'
      BY <2>2 DEF Lane, Apart, Below
    <2>5. Failed(side, s)' \subseteq Failed(side, s) \cup {m}
      BY <1>4 DEF Drops, m
    <2>6. Nowhere(side, s)'
      BY <1>1, <1>4, <2>2, <2>5 DEF Lane, Nowhere, Drops, SendsOne
    <2> QED  BY <2>1, <2>3, <2>4, <2>6 DEF Lane
  <1>5. ASSUME NEW c \in Conns, Writes(side, s, c)
        PROVE  Lane(side, s)'
    <2>0. InOut(c, side, s)' = InOut(c, side, s) \cup {m} /\ Queued(side, s)' = {} /\ Seen(side, s)' = Seen(side, s)
      BY <1>5 DEF Writes, SendsOne, m
    <2>1. Numbers(side, s)'
      BY <1>0, <1>2, <1>5, <2>0 DEF Lane, Numbers, SendsOne, Writes
    <2>2. /\ Line(c, side, s)' = Line(c, side, s) \cup {m}
          /\ \A d \in Conns \ {c} : Line(d, side, s)' = Line(d, side, s)
      BY <1>5, <2>0 DEF SendsOne, Writes, Line
    <2>3. Ordered(side, s)'
      <3>1. \A d \in Conns : Below(OnWire(d, side, s), InOut(d, side, s))'
        BY <1>1, <1>5, <2>0 DEF Lane, Ordered, SendsOne, Writes, Below
      <3>2. \A d \in Conns : InOut(d, side, s)' \cap Seen(side, s)' = {}
        BY <1>1, <1>5, <2>0 DEF Lane, Ordered, SendsOne, Writes
      <3>3. \A d \in Conns : Reads(d, side, s)' => Below(Seen(side, s), Line(d, side, s))'
        BY <1>1, <2>0, <2>2 DEF Lane, Ordered, SendsOne, NoNewReads, Below
      <3>4. Below(Seen(side, s), Queued(side, s))' /\ \A d \in Conns : Below(Line(d, side, s), Queued(side, s))'
        BY <2>0 DEF Below
      <3> QED  BY <3>1, <3>2, <3>3, <3>4 DEF Ordered
    <2>4. Apart(side, s)'
      <3> SUFFICES ASSUME NEW a \in Conns, NEW b \in Conns, a < b
                   PROVE  IF side = "connector" THEN Below(Line(a, side, s), Line(b, side, s))'
                          ELSE Line(a, side, s)' \cap Line(b, side, s)' = {}
        BY DEF Apart
      <3>0. a # b
        BY BoundAssumption DEF Conns
      <3>1. CASE a # c /\ b # c
        BY <2>2, <3>1 DEF Lane, Apart, Below
      <3>2. CASE a = c
        BY <1>1, <1>5, <2>2, <3>0, <3>2 DEF Lane, Apart, Below, Writes
      <3>3. CASE b = c
        BY <1>1, <1>5, <2>2, <3>0, <3>3 DEF Lane, Apart, Below
      <3> QED  BY <3>1, <3>2, <3>3
    <2>5. Nowhere(side, s)'
      BY <1>1, <1>5, <2>0, <2>2 DEF Lane, Nowhere, Writes
    <2> QED  BY <2>1, <2>3, <2>4, <2>5 DEF Lane
  <1> QED  BY <1>3, <1>4, <1>5 DEF SendsOne

\* What was queued goes to libuv over c, which no later connection precedes.
Drains(side, s, c) ==
    /\ Sent(side, s)' = Sent(side, s) /\ NoNewReads(side, s) /\ Failed(side, s)' \subseteq Failed(side, s)
    /\ Queued(side, s)' = {} /\ Seen(side, s)' = Seen(side, s)
    /\ InOut(c, side, s)' = InOut(c, side, s) \cup Queued(side, s)
    /\ \A d \in Conns \ {c} : InOut(d, side, s)' = InOut(d, side, s)
    /\ \A d \in Conns : OnWire(d, side, s)' = OnWire(d, side, s)
    /\ side = "connector" => \A d \in Conns : c < d => Line(d, side, s) = {}

(* onClientConnected and onRemoteIdentity keep a lane in order.            *)
LEMMA LaneDrains ==
    ASSUME NEW side \in Side, NEW s \in Sockets, NEW c \in Conns, Lane(side, s), Drains(side, s, c)
    PROVE  Lane(side, s)'
  <1>1. /\ Line(c, side, s)' = Line(c, side, s) \cup Queued(side, s)
        /\ \A d \in Conns \ {c} : Line(d, side, s)' = Line(d, side, s)
    BY DEF Drains, Line
  <1>2. Numbers(side, s)'
    BY DEF Lane, Numbers, Drains
  <1>3. \A a \in Queued(side, s) : a \in Nat
    BY DEF Lane, Numbers
  <1>4. Ordered(side, s)'
    <2>1. \A d \in Conns : Below(OnWire(d, side, s), InOut(d, side, s))'
      BY DEF Lane, Ordered, Drains, Below, Line
    <2>2. \A d \in Conns : InOut(d, side, s)' \cap Seen(side, s)' = {}
      BY <1>3 DEF Lane, Ordered, Drains, Below
    <2>3. \A d \in Conns : Reads(d, side, s)' => Below(Seen(side, s), Line(d, side, s))'
      BY <1>1 DEF Lane, Ordered, Drains, NoNewReads, Below
    <2>4. Below(Seen(side, s), Queued(side, s))' /\ \A d \in Conns : Below(Line(d, side, s), Queued(side, s))'
      BY DEF Drains, Below
    <2> QED  BY <2>1, <2>2, <2>3, <2>4 DEF Ordered
  <1>5. Apart(side, s)'
    <2> SUFFICES ASSUME NEW a \in Conns, NEW b \in Conns, a < b
                 PROVE  IF side = "connector" THEN Below(Line(a, side, s), Line(b, side, s))'
                        ELSE Line(a, side, s)' \cap Line(b, side, s)' = {}
      BY DEF Apart
    <2>0. a # b
      BY BoundAssumption DEF Conns
    <2>1. CASE a # c /\ b # c
      BY <1>1, <2>1 DEF Lane, Apart, Below
    <2>2. CASE a = c
      BY <1>1, <1>3, <2>0, <2>2 DEF Lane, Apart, Below, Drains, Ordered
    <2>3. CASE b = c
      BY <1>1, <1>3, <2>0, <2>3 DEF Lane, Apart, Below, Ordered
    <2> QED  BY <2>1, <2>2, <2>3
  <1>6. Nowhere(side, s)'
    BY <1>1 DEF Lane, Nowhere, Drains
  <1> QED  BY <1>2, <1>4, <1>5, <1>6 DEF Lane

-----------------------------------------------------------------------------
(* The lists.                                                              *)

\* r has no other messages than q, in the same order.
Less(q, r) ==
    r \in Seq(Item) /\ Nums(r) \subseteq Nums(q) /\ \A side, s : Sorted(q, side, s) => Sorted(r, side, s)

(* What becomes of a list when nothing is written to it.                   *)
LEMMA LessCases ==
    ASSUME NEW q \in Seq(Item)
    PROVE  /\ Less(q, q) /\ Less(q, <<>>) /\ (q # <<>> => Less(q, Tail(q)))
           /\ Less(q, Append(q, Hello)) /\ Less(q, Append(q, Fin)) /\ Less(q, <<Rst>>)
           /\ \A r : CutTo(q, r) => Less(q, r)
  <1>1. Less(q, q)
    BY DEF Less
  <1>2. Less(q, <<>>)
    BY NumsBasic DEF Less
  <1>3. ASSUME q # <<>>
        PROVE  Less(q, Tail(q))
    BY <1>3, NumsTail DEF Less
  <1>4. Less(q, Append(q, Hello)) /\ Less(q, Append(q, Fin))
    BY NumsMark DEF Less
  <1>5. Less(q, <<Rst>>)
    <2>0. <<>> \in Seq(Item)
      BY EmptySeq
    <2>1. PICK z \in Seq(Item) : z = <<>>
      BY <2>0
    <2>2. Append(z, Rst) \in Seq(Item) /\ Nums(Append(z, Rst)) = Nums(z)
          /\ \A side, s : Sorted(z, side, s) => Sorted(Append(z, Rst), side, s)
      BY NumsMark
    <2>3. Append(z, Rst) = <<Rst>>
      BY <2>1
    <2> QED  BY <2>1, <2>2, <2>3, NumsBasic DEF Less
  <1>6. ASSUME NEW r, CutTo(q, r)
        PROVE  Less(q, r)
    <2>1. PICK k \in 0 .. Len(q) : r = Append(SubSeq(q, 1, k), Rst)
      BY <1>6 DEF CutTo
    <2>2. SubSeq(q, 1, k) \in Seq(Item) /\ Rst \in Item
      BY NumsPrefix DEF Item
    <2>3. r \in Seq(Item)
      BY <2>1, <2>2
    <2> QED  BY <1>6, <2>3, NumsCut DEF Less
  <1> QED  BY <1>1, <1>2, <1>3, <1>4, <1>5, <1>6

\* The lists of every lane are in order, and what is not made carries nothing.
Lists ==
    /\ \A c \in Conns, side \in Side :
          Sorted(chan[c].wire[side], side, chan[c].socket) /\ Sorted(chan[c].out[side], side, chan[c].socket)
    /\ \A c \in Conns : ~chan[c].made =>
          ~chan[c].cut /\ \A side \in Side : chan[c].wire[side] = <<>> /\ chan[c].out[side] = <<>>
    /\ \A s \in Sockets : Sorted(sock[s].queue, "connector", s) /\ Sorted(binder.pending[s], "binder", s)

ChansLess ==
    \A d \in Conns, e \in Side : Less(chan[d].wire[e], chan'[d].wire[e]) /\ Less(chan[d].out[e], chan'[d].out[e])
UnmadeKept ==
    \A d \in Conns : ~chan[d].made =>
        chan'[d].cut = chan[d].cut /\ \A e \in Side : chan'[d].wire[e] = chan[d].wire[e] /\ chan'[d].out[e] = chan[d].out[e]
QueuesLess ==
    \A s \in Sockets : Less(sock[s].queue, sock'[s].queue) /\ Less(binder.pending[s], binder'.pending[s])

(* Nothing is written.                                                     *)
LEMMA ListsShrink ==
    ASSUME Lists, SameMade(chan, chan'), ChansLess, UnmadeKept, QueuesLess
    PROVE  Lists'
  <1>1. \A c \in Conns, side \in Side :
           Sorted(chan'[c].wire[side], side, chan'[c].socket) /\ Sorted(chan'[c].out[side], side, chan'[c].socket)
    BY DEF Lists, SameMade, ChansLess, Less
  <1>2. \A c \in Conns : ~chan'[c].made =>
           ~chan'[c].cut /\ \A side \in Side : chan'[c].wire[side] = <<>> /\ chan'[c].out[side] = <<>>
    BY DEF Lists, SameMade, UnmadeKept
  <1>3. \A s \in Sockets : Sorted(sock'[s].queue, "connector", s) /\ Sorted(binder'.pending[s], "binder", s)
    BY DEF Lists, QueuesLess, Less
  <1> QED  BY <1>1, <1>2, <1>3 DEF Lists

-----------------------------------------------------------------------------
(* What has been received.                                                 *)

ForEnd(m, x) == m.dir = (IF x = "binder" THEN "up" ELSE "down") /\ (x # "binder" => m.of = x)
Heard(r, x) ==
    /\ \A k \in DOMAIN r : ForEnd(r[k], x)
    /\ \A j, k \in DOMAIN r : j < k /\ r[j].of = r[k].of => r[j].n < r[k].n
Arrived == \A x \in Ends : Heard(Received(x), x)

(* The list of what was received.                                          *)
LEMMA ReceivedType ==
    ASSUME Types, NEW x \in Ends
    PROVE  Received(x) \in Seq(Numbered) /\ got[x] \in Seq(Numbered)
  <1>1. got[x] \in Seq(Numbered) /\ binder.inbox \in Seq(Numbered) /\ \A s \in Sockets : sock[s].inbox \in Seq(Numbered)
    BY ItemTypes
  <1>2. x # "binder" => x \in Sockets
    BY DEF Ends
  <1>3. (IF x = "binder" THEN binder.inbox ELSE sock[x].inbox) \in Seq(Numbered)
    BY <1>1, <1>2
  <1> QED  BY <1>1, <1>3, ConcatProperties DEF Received

(* A message more.                                                         *)
LEMMA HeardAppend ==
    ASSUME NEW r \in Seq(Numbered), NEW e \in Numbered, NEW x
    PROVE  /\ \A s : SeenIn(Append(r, e), s) = SeenIn(r, s) \cup (IF e.of = s THEN {e.n} ELSE {})
           /\ Heard(r, x) /\ ForEnd(e, x) /\ Below(SeenIn(r, e.of), {e.n}) => Heard(Append(r, e), x)
  <1>1. Elems(Append(r, e)) = Elems(r) \cup {e}
    BY ElemsAppend
  <1>2. ASSUME NEW s
        PROVE  SeenIn(Append(r, e), s) = SeenIn(r, s) \cup (IF e.of = s THEN {e.n} ELSE {})
    BY <1>1 DEF SeenIn
  <1> DEFINE p == Append(r, e)
  <1>3. Len(r) \in Nat /\ DOMAIN r = 1 .. Len(r) /\ DOMAIN p = 1 .. Len(r) + 1 /\ p[Len(r) + 1] = e
        /\ \A k \in 1 .. Len(r) : p[k] = r[k]
    OBVIOUS
  <1> HIDE DEF p
  <1>4. ASSUME Heard(r, x), ForEnd(e, x), Below(SeenIn(r, e.of), {e.n})
        PROVE  Heard(p, x)
    <2>1. \A k \in DOMAIN p : (k \in DOMAIN r /\ p[k] = r[k]) \/ (k = Len(r) + 1 /\ p[k] = e)
      BY <1>3
    <2>2. \A k \in DOMAIN p : ForEnd(p[k], x)
      BY <1>4, <2>1 DEF Heard
    <2>3. ASSUME NEW j \in DOMAIN p, NEW k \in DOMAIN p, j < k, p[j].of = p[k].of
          PROVE  p[j].n < p[k].n
      <3>1. j \in DOMAIN r /\ p[j] = r[j]
        BY <1>3, <2>3
      <3>2. CASE k \in DOMAIN r /\ p[k] = r[k]
        BY <1>4, <2>3, <3>1, <3>2 DEF Heard
      <3>3. CASE k = Len(r) + 1 /\ p[k] = e
        <4>1. r[j] \in Elems(r)
          BY <3>1 DEF Elems
        <4>2. p[j].n \in SeenIn(r, e.of)
          BY <2>3, <3>1, <3>3, <4>1 DEF SeenIn
        <4> QED  BY <1>4, <3>3, <4>2 DEF Below
      <3> QED  BY <2>1, <3>2, <3>3
    <2> QED  BY <2>2, <2>3 DEF Heard
  <1> QED  BY <1>2, <1>4 DEF p

(* What is buffered is dropped.                                            *)
LEMMA HeardPrefix ==
    ASSUME NEW g \in Seq(Numbered), NEW b \in Seq(Numbered), NEW x
    PROVE  /\ \A s : SeenIn(g, s) \subseteq SeenIn(g \o b, s)
           /\ Heard(g \o b, x) => Heard(g, x)
  <1>1. Elems(g \o b) = Elems(g) \cup Elems(b)
    BY ElemsConcat
  <1> DEFINE p == g \o b
  <1>2. Len(g) \in Nat /\ Len(b) \in Nat /\ DOMAIN g = 1 .. Len(g) /\ DOMAIN p = 1 .. Len(g) + Len(b)
        /\ \A k \in 1 .. Len(g) + Len(b) : p[k] = IF k <= Len(g) THEN g[k] ELSE b[k - Len(g)]
    BY ConcatProperties, LenProperties
  <1> HIDE DEF p
  <1>3. \A k \in DOMAIN g : k \in DOMAIN p /\ p[k] = g[k]
    BY <1>2
  <1>4. Heard(p, x) => Heard(g, x)
    BY <1>3 DEF Heard
  <1>5. \A s : SeenIn(g, s) \subseteq SeenIn(g \o b, s)
    BY <1>1 DEF SeenIn
  <1> QED  BY <1>4, <1>5 DEF p

\* Nothing is received in this step; what was buffered may be dropped.
SeenLess == \A x \in Ends : Received(x)' = Received(x) \/ Received(x)' = got[x]

(* Nothing is received.                                                    *)
LEMMA ArrivedShrinks ==
    ASSUME Types, Arrived, SeenLess
    PROVE  Arrived' /\ \A side \in Side, s \in Sockets : Seen(side, s)' \subseteq Seen(side, s)
  <1>1. ASSUME NEW x \in Ends
        PROVE  Heard(Received(x)', x) /\ \A s : SeenIn(Received(x)', s) \subseteq SeenIn(Received(x), s)
    <2>1. CASE Received(x)' = Received(x)
      BY <2>1 DEF Arrived
    <2>2. CASE Received(x)' = got[x]
      <3>1. PICK b \in Seq(Numbered) : b = IF x = "binder" THEN binder.inbox ELSE sock[x].inbox
        BY ItemTypes DEF Ends
      <3>2. Received(x) = got[x] \o b /\ got[x] \in Seq(Numbered)
        BY <3>1, ReceivedType DEF Received
      <3>3. PICK g \in Seq(Numbered) : g = got[x]
        BY <3>2
      <3>4. Heard(g \o b, x)
        BY <3>2, <3>3 DEF Arrived
      <3>5. Heard(g, x) /\ \A s : SeenIn(g, s) \subseteq SeenIn(g \o b, s)
        BY <3>4, HeardPrefix
      <3> QED  BY <2>2, <3>2, <3>3, <3>5
    <2> QED  BY <2>1, <2>2 DEF SeenLess
  <1>2. ASSUME NEW side \in Side, NEW s \in Sockets
        PROVE  Seen(side, s)' \subseteq Seen(side, s)
    <2>1. CASE side = "connector"
      BY <1>1, <2>1 DEF Seen, Reader, Ends
    <2>2. CASE side # "connector"
      BY <1>1, <2>2 DEF Seen, Reader, Ends
    <2> QED  BY <2>1, <2>2
  <1> QED  BY <1>1, <1>2 DEF Arrived

-----------------------------------------------------------------------------
(* Steps that write nothing and deliver nothing.                           *)

\* No connection is made, identified or read anew.
NoneRead ==
    /\ SameMade(chan, chan') /\ \A c \in Conns : Readable(c)' => Readable(c)
    /\ \A s \in Sockets : sock'[s].conn \in {sock[s].conn, 0}

\* A message has been taken from its queue or from libuv.
Taken(side, s, n) ==
    \/ n \in Queued(side, s) /\ n \notin Queued(side, s)'
    \/ \E c \in Conns : n \in InOut(c, side, s) /\ n \notin InOut(c, side, s)'
\* What fails has been taken off.
FailsTaken ==
    \A side \in Side, s \in Sockets :
        Sent(side, s)' = Sent(side, s) /\ \A n \in Failed(side, s)' : n \in Failed(side, s) \/ Taken(side, s, n)

AllLanes == \A side \in Side, s \in Sockets : Lane(side, s)

(* No connection of a lane is read anew.                                   *)
LEMMA LaneReads ==
    ASSUME NoneRead, NEW side \in Side, NEW s \in Sockets
    PROVE  NoNewReads(side, s) /\ (\A c \in Conns : Reads(c, side, s)' => Reads(c, side, s))
           /\ \A c \in Conns : Mine(c, s)' = Mine(c, s)
  <1>1. \A c \in Conns : Mine(c, s)' = Mine(c, s)
    BY DEF NoneRead, SameMade, Mine
  <1>2. 0 \notin Conns
    BY BoundAssumption DEF Conns
  <1>3. ASSUME NEW c \in Conns, Reads(c, side, s)'
        PROVE  Reads(c, side, s)
    BY <1>1, <1>2, <1>3 DEF Reads, NoneRead
  <1> QED  BY <1>1, <1>3 DEF NoNewReads

(* Nothing is written and nothing is delivered.                            *)
LEMMA ShrinkStep ==
    ASSUME Types, AllLanes, Lists, Arrived, NoneRead, ChansLess, UnmadeKept, QueuesLess, SeenLess, FailsTaken
    PROVE  AllLanes' /\ Lists' /\ Arrived'
  <1>1. Lists'
    BY ListsShrink DEF NoneRead
  <1>2. Arrived' /\ \A side \in Side, s \in Sockets : Seen(side, s)' \subseteq Seen(side, s)
    BY ArrivedShrinks
  <1>3. ASSUME NEW side \in Side, NEW s \in Sockets
        PROVE  Lane(side, s)'
    <2>1. NoNewReads(side, s) /\ \A c \in Conns : Mine(c, s)' = Mine(c, s)
      BY LaneReads
    <2>2. ASSUME NEW c \in Conns
          PROVE  OnWire(c, side, s)' \subseteq OnWire(c, side, s) /\ InOut(c, side, s)' \subseteq InOut(c, side, s)
      BY <2>1 DEF ChansLess, Less, OnWire, InOut
    <2>3. Queued(side, s)' \subseteq Queued(side, s)
      BY DEF QueuesLess, Less, Queued, Queue
    <2>4. Shrinks(side, s)
      BY <1>2, <2>1, <2>2, <2>3 DEF Shrinks, FailsTaken, Taken
    <2> QED  BY <2>4, LaneShrinks DEF AllLanes
  <1> QED  BY <1>1, <1>2, <1>3 DEF AllLanes

(* The book stays as it is, or successes are entered.                      *)
LEMMA NoneFails ==
    ASSUME Types, sends' = sends \/ \E ms : sends' = Answer(sends, ms, "ok")
    PROVE  /\ \A side \in Side, s \in Sockets : Sent(side, s)' = Sent(side, s) /\ Failed(side, s)' \subseteq Failed(side, s)
           /\ FailsTaken
  <1>1. ASSUME NEW side \in Side, NEW s \in Sockets
        PROVE  Sent(side, s)' = Sent(side, s) /\ Failed(side, s)' \subseteq Failed(side, s)
    <2>0. DirOf(side) \in Dir /\ sends \in SendsType
      BY DEF DirOf, Dir, Types
    <2>1. CASE sends' = sends
      BY <2>1 DEF Sent, Failed
    <2>2. ASSUME NEW ms, sends' = Answer(sends, ms, "ok")
          PROVE  Sent(side, s)' = Sent(side, s) /\ Failed(side, s)' \subseteq Failed(side, s)
      <3>1. "ok" \in Answers /\ "ok" # "failed"
        BY DEF Answers
      <3>2. PICK new : new = Answer(sends, ms, "ok")
        OBVIOUS
      <3>3. /\ Len(new[DirOf(side)][s]) = Len(sends[DirOf(side)][s])
            /\ \A n \in 1 .. Len(sends[DirOf(side)][s]) :
                  new[DirOf(side)][s][n] = IF Msg(DirOf(side), s, n) \in ms /\ sends[DirOf(side)][s][n] = "waiting"
                                           THEN "ok" ELSE sends[DirOf(side)][s][n]
        BY <2>0, <3>1, <3>2, AnswerEffect
      <3>4. sends' = new
        BY <2>2, <3>2
      <3> QED  BY <3>1, <3>3, <3>4 DEF Sent, Failed
    <2> QED  BY <2>1, <2>2
  <1> QED  BY <1>1 DEF FailsTaken

(* Failures are entered.                                                   *)
LEMMA TakenFails ==
    ASSUME Types, NEW ms, sends' = Answer(sends, ms, "failed"),
           \A side \in Side, s \in Sockets : \A n : Msg(DirOf(side), s, n) \in ms => Taken(side, s, n)
    PROVE  FailsTaken
  <1> SUFFICES ASSUME NEW side \in Side, NEW s \in Sockets
               PROVE  Sent(side, s)' = Sent(side, s) /\ \A n \in Failed(side, s)' : n \in Failed(side, s) \/ Taken(side, s, n)
    BY DEF FailsTaken
  <1>0. DirOf(side) \in Dir /\ sends \in SendsType /\ "failed" \in Answers
    BY DEF DirOf, Dir, Types, Answers
  <1>2. PICK new : new = Answer(sends, ms, "failed")
    OBVIOUS
  <1>3. /\ Len(new[DirOf(side)][s]) = Len(sends[DirOf(side)][s])
        /\ \A n \in 1 .. Len(sends[DirOf(side)][s]) :
              new[DirOf(side)][s][n] = IF Msg(DirOf(side), s, n) \in ms /\ sends[DirOf(side)][s][n] = "waiting"
                                       THEN "failed" ELSE sends[DirOf(side)][s][n]
    BY <1>0, <1>2, AnswerEffect
  <1>4. sends' = new
    BY <1>2
  <1>5. Sent(side, s)' = Sent(side, s)
    BY <1>3, <1>4 DEF Sent
  <1>6. ASSUME NEW n \in Failed(side, s)'
        PROVE  n \in Failed(side, s) \/ Taken(side, s, n)
    <2>1. n \in 1 .. Sent(side, s) /\ new[DirOf(side)][s][n] = "failed"
      BY <1>4, <1>5 DEF Failed
    <2>2. Msg(DirOf(side), s, n) \in ms \/ sends[DirOf(side)][s][n] = "failed"
      BY <1>3, <2>1 DEF Sent
    <2> QED  BY <2>1, <2>2 DEF Failed
  <1> QED  BY <1>5, <1>6

(* The callbacks of a list of one lane.                                    *)
LEMMA LaneMessages ==
    ASSUME NEW q \in Seq(Item), NEW side \in Side, NEW t, Sorted(q, side, t)
    PROVE  \A e \in Side : \A s, n : Msg(DirOf(e), s, n) \in Messages(q) => e = side /\ s = t /\ n \in Nums(q)
  <1>1. \A e \in Side : DirOf(e) = DirOf(side) => e = side
    BY DEF Side, DirOf
  <1> QED  BY <1>1, MessagesNums

-----------------------------------------------------------------------------
(* Which connections the binder reads.                                     *)

\* A connection begins with the handshake, or is at its end.
Opening(c) ==
    /\ chan[c].wire["connector"] # <<>> => Head(chan[c].wire["connector"]) \in {Hello, Rst}
    /\ chan[c].wire["connector"] = <<>> /\ ~chan[c].cut =>
          chan[c].out["connector"] # <<>> /\ Head(chan[c].out["connector"]) = Hello
\* One that is cut ends with the error.
MarkedAt(c) ==
    /\ chan[c].cut => Rst \in Elems(chan[c].wire["connector"])
    /\ binder.conns[c] # "established" => Opening(c)
Marked == \A c \in Conns : chan[c].made /\ Readable(c) => MarkedAt(c)
\* When one is identified the older ones of its identity are not read.
OldUnread ==
    \A c, d \in Conns : c < d /\ chan[c].made /\ chan[d].made /\ chan[c].socket = chan[d].socket
                            /\ binder.conns[d] = "established" => ~Readable(c)
\* The present connection of a socket is its latest.
Latest == \A s \in Sockets : \A c \in Conns : sock[s].conn # 0 /\ Mine(c, s) => c <= sock[s].conn

Front == Marked /\ OldUnread /\ Latest
LaneInv == AllLanes /\ Lists /\ Arrived /\ Front

\* No connection is identified.
NoneIdentified ==
    \A c \in Conns : /\ binder'.conns[c] = "established" => binder.conns[c] = "established"
                     /\ Readable(c)' /\ binder'.conns[c] # "established" => binder.conns[c] # "established"

(* What is read is marked, and no connection is identified.                *)
LEMMA FrontKept ==
    ASSUME Types, Front, NoneRead, NoneIdentified, \A c \in Conns : chan[c].made /\ Readable(c)' => MarkedAt(c)'
    PROVE  Front'
  <1>1. Marked'
    BY DEF Marked, NoneRead, SameMade
  <1>2. OldUnread'
    BY DEF Front, OldUnread, NoneRead, SameMade, NoneIdentified
  <1>3. Latest'
    <2> SUFFICES ASSUME NEW s \in Sockets, NEW c \in Conns, sock'[s].conn # 0, Mine(c, s)'
                 PROVE  c <= sock'[s].conn
      BY DEF Latest
    <2>1. sock'[s].conn = sock[s].conn /\ Mine(c, s)
      BY DEF NoneRead, SameMade, Mine
    <2> QED  BY <2>1 DEF Front, Latest
  <1> QED  BY <1>1, <1>2, <1>3 DEF Front

\* The beginning of a list is kept.
HeadKept(q, r) == q # <<>> => r # <<>> /\ Head(r) = Head(q)

(* What is written goes to the end.                                        *)
LEMMA WriteKeepsHead ==
    ASSUME NEW q \in Seq(Item)
    PROVE  HeadKept(q, q) /\ (\A e \in Item : HeadKept(q, Append(q, e))) /\ \A r \in Seq(Item) : HeadKept(q, q \o r)
  <1>1. HeadKept(q, q)
    BY DEF HeadKept
  <1>2. ASSUME NEW r \in Seq(Item), q # <<>>
        PROVE  q \o r # <<>> /\ Head(q \o r) = Head(q)
    <2>1. Len(q) \in Nat /\ Len(r) \in Nat /\ Len(q) # 0
      BY <1>2, LenProperties, EmptySeq
    <2>2. q \o r \in Seq(Item) /\ Len(q \o r) = Len(q) + Len(r) /\ (q \o r)[1] = q[1]
      BY <2>1, ConcatProperties
    <2>3. q \o r # <<>>
      BY <2>1, <2>2
    <2> QED  BY <1>2, <2>2, <2>3, HeadTailProperties
  <1>3. ASSUME NEW e \in Item, q # <<>>
        PROVE  Append(q, e) # <<>> /\ Head(Append(q, e)) = Head(q)
    <2>1. Append(q, e) \in Seq(Item) /\ Append(q, e) # <<>>
      BY AppendProperties
    <2>2. Len(q) \in Nat /\ Len(q) # 0
      BY <1>3, LenProperties, EmptySeq
    <2>3. Append(q, e)[1] = q[1]
      BY <2>2, AppendProperties
    <2> QED  BY <1>3, <2>1, <2>3, HeadTailProperties
  <1> QED  BY <1>1, <1>2, <1>3 DEF HeadKept

\* Nothing that the binder meets on a connection changes.
FrontSame ==
    \A d \in Conns :
        /\ chan'[d].wire["connector"] = chan[d].wire["connector"] /\ chan'[d].cut = chan[d].cut
        /\ chan[d].cut \/ HeadKept(chan[d].out["connector"], chan'[d].out["connector"])

(* A connection at which nothing changes.                                  *)
LEMMA MarkedStays ==
    ASSUME Front, NoneRead, NoneIdentified, NEW c \in Conns, chan[c].made, Readable(c)',
           chan'[c].wire["connector"] = chan[c].wire["connector"], chan'[c].cut = chan[c].cut,
           chan[c].cut \/ HeadKept(chan[c].out["connector"], chan'[c].out["connector"])
    PROVE  MarkedAt(c)'
  <1>1. Readable(c) /\ MarkedAt(c)
    BY DEF NoneRead, Front, Marked
  <1>2. chan'[c].cut => Rst \in Elems(chan'[c].wire["connector"])
    BY <1>1 DEF MarkedAt
  <1>3. ASSUME binder'.conns[c] # "established"
        PROVE  Opening(c)'
    <2>1. Opening(c)
      BY <1>1, <1>3 DEF NoneIdentified, MarkedAt
    <2> QED  BY <2>1 DEF Opening, HeadKept
  <1> QED  BY <1>2, <1>3 DEF MarkedAt

(* Nothing that the binder meets changes.                                  *)
LEMMA FrontStays ==
    ASSUME Types, Front, NoneRead, NoneIdentified, FrontSame
    PROVE  Front'
  <1>1. \A c \in Conns : chan[c].made /\ Readable(c)' => MarkedAt(c)'
    BY MarkedStays DEF FrontSame
  <1> QED  BY <1>1, FrontKept

(* Lists that stay as they are.                                            *)
LEMMA LessSame ==
    ASSUME Types
    PROVE  /\ SameWire(chan, chan') => \A d \in Conns, e \in Side : Less(chan[d].wire[e], chan'[d].wire[e])
           /\ SameOut(chan, chan') => \A d \in Conns, e \in Side : Less(chan[d].out[e], chan'[d].out[e])
           /\ \A s \in Sockets : /\ sock'[s].queue = sock[s].queue => Less(sock[s].queue, sock'[s].queue)
                                 /\ binder'.pending[s] = binder.pending[s] => Less(binder.pending[s], binder'.pending[s])
                                 /\ Less(sock[s].queue, <<>>) /\ Less(binder.pending[s], <<>>)
  <1>1. \A c \in Conns, side \in Side : chan[c].out[side] \in Seq(Item) /\ chan[c].wire[side] \in Seq(Item)
    BY ItemTypes
  <1>2. \A s \in Sockets : sock[s].queue \in Seq(Item) /\ binder.pending[s] \in Seq(Item)
    BY ItemTypes, QueueWritable
  <1>3. \A q \in Seq(Item) : Less(q, q) /\ Less(q, <<>>)
    BY LessCases
  <1> QED  BY <1>1, <1>2, <1>3 DEF SameWire, SameOut

\* The binder keeps its connections and what is pending.
BinderKeeps ==
    binder'.conns = binder.conns /\ binder'.open = binder.open /\ binder'.pending = binder.pending

(* A step that leaves the connections alone.                               *)
LEMMA LanesKept ==
    ASSUME Types, LaneInv, chan' = chan, sends' = sends, BinderKeeps, SeenLess,
           \A s \in Sockets : sock'[s].conn = sock[s].conn /\ sock'[s].queue = sock[s].queue
    PROVE  LaneInv'
  <1>1. SameMade(chan, chan') /\ SameWire(chan, chan') /\ SameOut(chan, chan') /\ UnmadeKept
    BY DEF SameMade, SameWire, SameOut, UnmadeKept
  <1>2. NoneRead /\ NoneIdentified
    BY <1>1 DEF NoneRead, NoneIdentified, BinderKeeps, Readable, Held
  <1>3. ChansLess /\ QueuesLess
    BY <1>1, LessSame DEF ChansLess, QueuesLess, BinderKeeps
  <1>4. FailsTaken
    BY NoneFails
  <1>5. AllLanes' /\ Lists' /\ Arrived'
    BY <1>2, <1>1, <1>3, <1>4, ShrinkStep DEF LaneInv
  <1>6. FrontSame
    BY ItemTypes, WriteKeepsHead DEF FrontSame, HeadKept
  <1>7. Front'
    BY <1>2, <1>6, FrontStays DEF LaneInv
  <1> QED  BY <1>5, <1>7 DEF LaneInv

-----------------------------------------------------------------------------
(* Receiving.                                                              *)

Buffer(x) == IF x = "binder" THEN binder.inbox ELSE sock[x].inbox

(* A buffered message is handed over, and a message is buffered or handed  *)
(* over at once, without a change in what has been received before.        *)
LEMMA HandOver ==
    ASSUME NEW g \in Seq(Numbered), NEW b \in Seq(Numbered)
    PROVE  /\ b # <<>> => Append(g, Head(b)) \o Tail(b) = g \o b
           /\ \A e \in Numbered : /\ (g \o <<>>) \o Append(b, e) = Append(g \o b, e)
                                  /\ (g \o <<e>>) \o <<>> = Append(g \o <<>>, e)
  <1>0. Len(g) \in Nat /\ Len(b) \in Nat /\ g \o b \in Seq(Numbered) /\ Len(g \o b) = Len(g) + Len(b)
        /\ \A i \in 1 .. Len(g) + Len(b) : (g \o b)[i] = IF i <= Len(g) THEN g[i] ELSE b[i - Len(g)]
    BY LenProperties, ConcatProperties
  <1>1. ASSUME b # <<>>
        PROVE  Append(g, Head(b)) \o Tail(b) = g \o b
    <2>1. Head(b) \in Numbered /\ Tail(b) \in Seq(Numbered) /\ Len(Tail(b)) = Len(b) - 1 /\ Head(b) = b[1]
          /\ (\A i \in 1 .. Len(Tail(b)) : Tail(b)[i] = b[i + 1]) /\ Len(b) # 0
      BY <1>1, HeadTailProperties, EmptySeq
    <2>2. PICK h \in Numbered : h = Head(b)
      BY <2>1
    <2>3. PICK t \in Seq(Numbered) : t = Tail(b)
      BY <2>1
    <2>4. PICK a \in Seq(Numbered) : a = Append(g, h)
      BY AppendProperties
    <2>5. Len(a) = Len(g) + 1 /\ a[Len(g) + 1] = h /\ \A i \in 1 .. Len(g) : a[i] = g[i]
      BY <1>0, <2>4, AppendProperties
    <2>6. PICK p \in Seq(Numbered) : p = a \o t
      BY ConcatProperties
    <2>7. Len(p) = Len(a) + Len(t) /\ \A i \in 1 .. Len(a) + Len(t) : p[i] = IF i <= Len(a) THEN a[i] ELSE t[i - Len(a)]
      BY <2>6, ConcatProperties
    <2>8. Len(p) = Len(g \o b)
      BY <1>0, <2>1, <2>3, <2>5, <2>7
    <2>9. ASSUME NEW i \in 1 .. Len(p)
          PROVE  p[i] = (g \o b)[i]
      <3>0. i \in 1 .. Len(g) + Len(b) /\ i \in Int
        BY <1>0, <2>8
      <3>1. CASE i <= Len(g)
        BY <1>0, <2>5, <2>7, <2>1, <2>3, <3>0, <3>1
      <3>2. CASE i = Len(g) + 1
        <4>1. p[i] = h
          BY <1>0, <2>1, <2>3, <2>5, <2>7, <3>0, <3>2
        <4>2. (g \o b)[i] = b[1]
          BY <1>0, <3>0, <3>2
        <4> QED  BY <2>1, <2>2, <4>1, <4>2
      <3>3. CASE i > Len(g) + 1
        <4>1. i - Len(a) \in 1 .. Len(t) /\ p[i] = t[i - Len(a)]
          BY <1>0, <2>1, <2>3, <2>5, <2>7, <3>0, <3>3
        <4>2. t[i - Len(a)] = b[(i - Len(a)) + 1]
          BY <2>1, <2>3, <4>1
        <4>3. (g \o b)[i] = b[i - Len(g)] /\ (i - Len(a)) + 1 = i - Len(g)
          BY <1>0, <2>5, <3>0, <3>3
        <4> QED  BY <4>1, <4>2, <4>3
      <3> QED  BY <1>0, <3>0, <3>1, <3>2, <3>3
    <2>10. p = g \o b
      BY <1>0, <2>8, <2>9, SeqEqual
    <2> QED  BY <2>2, <2>3, <2>4, <2>6, <2>10
  <1>2. ASSUME NEW e \in Numbered
        PROVE  (g \o <<>>) \o Append(b, e) = Append(g \o b, e) /\ (g \o <<e>>) \o <<>> = Append(g \o <<>>, e)
    <2>1. <<e>> \in Seq(Numbered) /\ <<>> \in Seq(Numbered)
      BY EmptySeq
    <2>2. Append(b, e) = b \o <<e>> /\ Append(g \o b, e) = (g \o b) \o <<e>> /\ Append(g, e) = g \o <<e>>
      BY <1>0, <2>1, AppendIsConcat
    <2>3. g \o <<>> = g /\ (g \o <<e>>) \o <<>> = g \o <<e>>
      BY <2>1, ConcatEmptySeq, ConcatProperties
    <2>4. (g \o b) \o <<e>> = g \o (b \o <<e>>)
      BY <2>1, ConcatAssociative
    <2> QED  BY <2>2, <2>3, <2>4
  <1> QED  BY <1>1, <1>2

(* The users take what is buffered.                                        *)
LEMMA RecvKeeps ==
    ASSUME Types, NEW x \in Ends, Buffer(x) # <<>>, Buffer(x)' = Tail(Buffer(x)),
           got' = [got EXCEPT ![x] = Append(@, Head(Buffer(x)))],
           \A y \in Ends \ {x} : Buffer(y)' = Buffer(y)
    PROVE  SeenLess
  <1>1. ASSUME NEW y \in Ends, y # x
        PROVE  Received(y)' = Received(y)
    <2>1. got'[y] = got[y] /\ Buffer(y)' = Buffer(y)
      BY <1>1 DEF Types
    <2> QED  BY <2>1 DEF Received, Buffer
  <1>2. Received(x)' = Received(x)
    <2>1. PICK g \in Seq(Numbered) : g = got[x]
      BY ItemTypes
    <2>2. PICK b \in Seq(Numbered) : b = Buffer(x)
      BY ItemTypes DEF Ends, Buffer
    <2>3. got'[x] = Append(g, Head(b))
      BY <2>1, <2>2 DEF Types
    <2>4. Append(g, Head(b)) \o Tail(b) = g \o b
      BY <2>2, HandOver
    <2>5. Received(x) = g \o b /\ Received(x)' = got'[x] \o Buffer(x)'
      BY <2>1, <2>2 DEF Received, Buffer
    <2> QED  BY <2>2, <2>3, <2>4, <2>5
  <1> QED  BY <1>1, <1>2 DEF SeenLess

(* Nobody receives.                                                        *)
LEMMA SeenSame ==
    ASSUME got' = got, \A x \in Ends : Buffer(x)' = Buffer(x)
    PROVE  SeenLess /\ \A side \in Side, s \in Sockets : Seen(side, s)' = Seen(side, s)
  <1>1. \A x \in Ends : Received(x)' = Received(x)
    BY DEF Received, Buffer
  <1>2. \A side \in Side, s \in Sockets : Reader(side, s) \in Ends
    BY DEF Reader, Ends
  <1> QED  BY <1>1, <1>2 DEF SeenLess, Seen, Reader

(* Somebody receives a message.                                            *)
LEMMA SeenMore ==
    ASSUME Types, NEW x \in Ends, NEW e \in Numbered, NEW w \in BOOLEAN, w => Buffer(x) = <<>>,
           got' = [got EXCEPT ![x] = @ \o (IF w THEN <<e>> ELSE <<>>)],
           Buffer(x)' = (IF w THEN Buffer(x) ELSE Append(Buffer(x), e)), \A y \in Ends \ {x} : Buffer(y)' = Buffer(y)
    PROVE  Received(x)' = Append(Received(x), e) /\ \A y \in Ends \ {x} : Received(y)' = Received(y)
  <1>1. ASSUME NEW y \in Ends \ {x}
        PROVE  Received(y)' = Received(y)
    <2>1. got'[y] = got[y] /\ Buffer(y)' = Buffer(y)
      BY DEF Types
    <2> QED  BY <2>1 DEF Received, Buffer
  <1>2. Received(x)' = Append(Received(x), e)
    <2>1. PICK g \in Seq(Numbered) : g = got[x]
      BY ItemTypes
    <2>2. PICK b \in Seq(Numbered) : b = Buffer(x)
      BY ItemTypes DEF Ends, Buffer
    <2>3. got'[x] = g \o (IF w THEN <<e>> ELSE <<>>)
      BY <2>1 DEF Types
    <2>4. (g \o <<>>) \o Append(b, e) = Append(g \o b, e) /\ (g \o <<e>>) \o <<>> = Append(g \o <<>>, e)
      BY HandOver
    <2>5. Received(x) = g \o b /\ Received(x)' = got'[x] \o Buffer(x)'
      BY <2>1, <2>2 DEF Received, Buffer
    <2> QED  BY <2>2, <2>3, <2>4, <2>5
  <1> QED  BY <1>1, <1>2

-----------------------------------------------------------------------------
(* The steps that write nothing and deliver nothing.                       *)

(* Connect, the retries, and what the user of a socket receives.           *)
LEMMA SocketLanes ==
    ASSUME Types, LaneInv, NEW s \in Sockets, Connect(s) \/ ConnectRefused(s) \/ RecvMessage(s)
    PROVE  LaneInv'
  <1>1. chan' = chan /\ sends' = sends /\ binder' = binder
    BY DEF Connect, ConnectRefused, RecvMessage
  <1>2. BinderKeeps /\ s # "binder" /\ s \in Ends
    BY <1>1, NameAssumption DEF BinderKeeps, Ends
  <1>3. sock \in [Sockets -> SockType] /\ sock[s] \in SockType
    BY DEF Types
  <1>4. CASE Connect(s) \/ ConnectRefused(s)
    <2>1. PICK r \in SockType : /\ r.conn = sock[s].conn /\ r.queue = sock[s].queue /\ r.inbox = sock[s].inbox
                              /\ sock' = [sock EXCEPT ![s] = r]
      <3>1. CASE Connect(s)
        <4>1. [sock[s] EXCEPT !.phase = "opening"] \in SockType
          BY <1>3 DEF SockType, Phases
        <4> QED  BY <1>3, <3>1, <4>1 DEF Connect, SockType
      <3>2. CASE ConnectRefused(s)
        <4>1. CASE sock[s].tries < MaxRetry
          <5>1. [sock[s] EXCEPT !.tries = @ + 1] \in SockType
            <6>1. sock[s].tries \in 0 .. MaxRetry /\ MaxRetry \in Nat
              BY <1>3, BoundAssumption DEF SockType
            <6>2. sock[s].tries + 1 \in 0 .. MaxRetry
              BY <4>1, <6>1
            <6> QED  BY <1>3, <6>2 DEF SockType
          <5> QED  BY <1>3, <3>2, <4>1, <5>1 DEF ConnectRefused, SockType
        <4>2. CASE ~(sock[s].tries < MaxRetry)
          <5>1. GivesUp(s) \in SockType /\ GivesUp(s).conn = sock[s].conn /\ GivesUp(s).queue = sock[s].queue
                /\ GivesUp(s).inbox = sock[s].inbox
            BY <1>3 DEF SockType, Phases, GivesUp
          <5> QED  BY <3>2, <4>2, <5>1 DEF ConnectRefused
        <4> QED  BY <4>1, <4>2
      <3> QED  BY <1>4, <3>1, <3>2
    <2>2. \A t \in Sockets : sock'[t] = IF t = s THEN r ELSE sock[t]
      BY <1>3, <2>1
    <2>3. \A x \in Ends : Buffer(x)' = Buffer(x)
      BY <1>1, <2>1, <2>2 DEF Buffer, Ends
    <2>4. got' = got
      BY <1>4 DEF Connect, ConnectRefused
    <2>5. SeenLess
      BY <2>3, <2>4, SeenSame
    <2> QED  BY <1>1, <1>2, <2>1, <2>2, <2>5, LanesKept
  <1>5. CASE RecvMessage(s)
    <2>1. CASE sock[s].inbox = <<>> /\ sock' = [sock EXCEPT ![s].waits = TRUE] /\ got' = got
      <3>1. \A t \in Sockets : sock'[t].conn = sock[t].conn /\ sock'[t].queue = sock[t].queue /\ sock'[t].inbox = sock[t].inbox
        BY <1>3, <2>1 DEF SockType
      <3>2. \A x \in Ends : Buffer(x)' = Buffer(x)
        BY <1>1, <3>1 DEF Buffer, Ends
      <3>3. SeenLess
        BY <2>1, <3>2, SeenSame
      <3> QED  BY <1>1, <1>2, <3>1, <3>3, LanesKept
    <2>2. CASE /\ sock[s].inbox # <<>> /\ got' = [got EXCEPT ![s] = Append(@, Head(sock[s].inbox))]
               /\ sock' = [sock EXCEPT ![s].inbox = Tail(@)]
      <3>1. Buffer(s) = sock[s].inbox /\ Buffer(s)' = sock'[s].inbox
        BY <1>2 DEF Buffer
      <3>2. sock'[s].inbox = Tail(sock[s].inbox) /\ \A t \in Sockets \ {s} : sock'[t] = sock[t]
        BY <1>3, <2>2 DEF SockType
      <3>3. \A y \in Ends \ {s} : Buffer(y)' = Buffer(y)
        BY <1>1, <3>2 DEF Buffer, Ends
      <3>4. \A t \in Sockets : sock'[t].conn = sock[t].conn /\ sock'[t].queue = sock[t].queue
        BY <1>3, <2>2 DEF SockType
      <3>5. SeenLess
        BY <1>2, <2>2, <3>1, <3>2, <3>3, RecvKeeps
      <3> QED  BY <1>1, <1>2, <3>4, <3>5, LanesKept
    <2> QED  BY <1>5, <2>1, <2>2 DEF RecvMessage
  <1> QED  BY <1>4, <1>5

(* What the user of the binder receives, purges, and time.                 *)
LEMMA BinderLanes ==
    ASSUME Types, LaneInv, BinderRecv \/ StrangerLeaves \/ Tick \/ UNCHANGED vars
    PROVE  LaneInv'
  <1>1. chan' = chan /\ sends' = sends /\ sock' = sock
    BY DEF BinderRecv, StrangerLeaves, Tick, vars
  <1>2. BinderKeeps
    <2>0. binder \in BinderType /\ clock \in 0 .. MaxTime
      BY DEF Types
    <2>1. CASE StrangerLeaves
      <3>1. PICK new : new = Purge(binder)
        OBVIOUS
      <3>2. new.conns = binder.conns /\ new.pending = binder.pending /\ new.open = binder.open
        BY <2>0, <3>1, PurgeEffect DEF SameBut
      <3> QED  BY <2>1, <3>1, <3>2 DEF StrangerLeaves, BinderKeeps
    <2>2. CASE BinderRecv
      BY <2>0, <2>2 DEF BinderRecv, BinderKeeps, BinderType
    <2>3. CASE Tick \/ UNCHANGED vars
      BY <2>3 DEF Tick, vars, BinderKeeps
    <2> QED  BY <2>1, <2>2, <2>3
  <1>3. "binder" \in Ends /\ Buffer("binder") = binder.inbox /\ Buffer("binder")' = binder'.inbox
        /\ \A y \in Ends \ {"binder"} : Buffer(y)' = Buffer(y)
    BY <1>1 DEF Ends, Buffer
  <1>4. SeenLess
    <2>1. CASE got' = got /\ binder'.inbox = binder.inbox
      BY <1>3, <2>1, SeenSame
    <2>2. CASE /\ binder.inbox # <<>>
               /\ got' = [got EXCEPT !["binder"] = Append(@, Head(binder.inbox))]
               /\ binder' = [binder EXCEPT !.inbox = Tail(@)]
      <3>1. binder'.inbox = Tail(binder.inbox)
        BY <2>2 DEF Types, BinderType
      <3> QED  BY <1>3, <2>2, <3>1, RecvKeeps
    <2>3. CASE StrangerLeaves
      BY <2>1, <2>3, PurgeEffect DEF StrangerLeaves, Types, SameBut
    <2>4. CASE BinderRecv
      BY <2>1, <2>2, <2>4 DEF BinderRecv, Types, BinderType
    <2>5. CASE Tick \/ UNCHANGED vars
      BY <2>1, <2>5 DEF Tick, vars
    <2> QED  BY <2>3, <2>4, <2>5
  <1> QED  BY <1>1, <1>2, <1>4, LanesKept

(* onWriteDone on a lost connection.                                       *)
LEMMA WriteDoneLanes ==
    ASSUME BooksInv, LaneInv, NEW c \in Conns, NEW side \in Side, OnWriteDone(c, side)
    PROVE  LaneInv'
  <1>0. Types /\ Lists /\ sock' = sock /\ binder' = binder /\ got' = got
    BY DEF BooksInv, LaneInv, OnWriteDone
  <1>1. /\ chan' \in Chans /\ SameConns(chan, chan') /\ SameWire(chan, chan')
        /\ OutIs(chan, chan', c, side, Tail(chan[c].out[side]))
    BY <1>0, OnWriteDoneEffect
  <1>2. chan[c].cut /\ chan[c].out[side] # <<>>
    BY DEF OnWriteDone
  <1>3. PICK q \in Seq(Item) : q = chan[c].out[side]
    BY <1>0, ItemTypes
  <1>4. chan[c].made
    BY <1>0, <1>2 DEF Lists
  <1>5. NoneRead /\ NoneIdentified
    BY <1>0, <1>1 DEF NoneRead, NoneIdentified, SameConns, SameMade, Readable, Held
  <1>6. Less(q, Tail(q)) /\ \A r \in Seq(Item) : Less(r, r)
    BY <1>2, <1>3, LessCases
  <1>7. ChansLess /\ QueuesLess /\ UnmadeKept
    <2>1. \A d \in Conns, e \in Side : Less(chan[d].out[e], chan'[d].out[e])
      BY <1>0, <1>1, <1>3, <1>6, ItemTypes DEF OutIs
    <2>2. \A d \in Conns, e \in Side : Less(chan[d].wire[e], chan'[d].wire[e])
      BY <1>0, <1>1, LessSame
    <2>3. QueuesLess
      BY <1>0, LessSame DEF QueuesLess
    <2>4. UnmadeKept
      BY <1>1, <1>4 DEF UnmadeKept, SameConns, SameWire, OutIs
    <2> QED  BY <2>1, <2>2, <2>3, <2>4 DEF ChansLess
  <1>8. SeenLess
    BY <1>0, SeenSame DEF Buffer
  <1>9. PICK s \in Sockets : s = chan[c].socket
    BY <1>4 DEF BooksInv, Connections, Made, Remote
  <1>10. PICK h \in Item : h = Head(q)
    BY <1>2, <1>3, NumsTail
  <1>11. FailsTaken
    <2>1. CASE sends' = Answer(sends, Messages(<<h>>), "ok")
      BY <1>0, <2>1, NoneFails
    <2>2. CASE sends' = Answer(sends, Messages(<<h>>), "failed")
      <3>1. ASSUME NEW e \in Side, NEW t \in Sockets, NEW n, Msg(DirOf(e), t, n) \in Messages(<<h>>)
            PROVE  Taken(e, t, n)
        <4>1. n \in NumOf(h) /\ h.dir = DirOf(e) /\ h.of = t /\ h.kind = "msg"
          BY <3>1, OneMessage DEF NumOf
        <4>2. Sorted(q, side, s)
          BY <1>0, <1>3, <1>9 DEF Lists
        <4>3. /\ Nums(q) = NumOf(h) \cup Nums(Tail(q)) /\ Fits(h, side, s) /\ Below(NumOf(h), Nums(Tail(q)))
              /\ NumOf(h) \subseteq Nat
          BY <1>2, <1>3, <1>10, <4>2, NumsTail, NumsBasic
        <4>4. e = side /\ t = s
          BY <4>1, <4>3 DEF Fits, DirOf, Side
        <4>5. n \in Nums(q) /\ n \notin Nums(Tail(q))
          BY <4>1, <4>3 DEF Below
        <4>6. Mine(c, s) /\ Mine(c, s)'
          BY <1>1, <1>4, <1>9 DEF Mine, SameConns
        <4>7. n \in InOut(c, e, t) /\ n \notin InOut(c, e, t)'
          BY <1>1, <1>3, <4>4, <4>5, <4>6 DEF InOut, OutIs
        <4> QED  BY <4>7 DEF Taken
      <3> QED  BY <1>0, <2>2, <3>1, TakenFails
    <2> QED  BY <1>3, <1>10, <2>1, <2>2 DEF OnWriteDone
  <1>12. FrontSame
    BY <1>0, <1>1, <1>2, ItemTypes, WriteKeepsHead DEF FrontSame, SameConns, SameWire, OutIs, Side
  <1>13. AllLanes' /\ Lists' /\ Arrived'
    BY <1>0, <1>5, <1>7, <1>8, <1>11, ShrinkStep DEF LaneInv
  <1>14. Front'
    BY <1>0, <1>5, <1>12, FrontStays DEF LaneInv
  <1> QED  BY <1>13, <1>14 DEF LaneInv

(* The network loses a connection.                                         *)
LEMMA CutLanes ==
    ASSUME BooksInv, LaneInv, NEW c \in Conns, Cut(c)
    PROVE  LaneInv'
  <1>0. Types /\ sock' = sock /\ binder' = binder /\ got' = got /\ sends' = sends
    BY DEF BooksInv, Cut
  <1>1. /\ chan' \in Chans /\ SameMade(chan, chan') /\ SameOut(chan, chan') /\ chan[c].made
        /\ \A d \in Conns : chan'[d].cut = IF d = c THEN TRUE ELSE chan[d].cut
        /\ \A d \in Conns, side \in Side :
              IF d = c THEN CutTo(chan[c].wire[side], chan'[c].wire[side])
              ELSE chan'[d].wire[side] = chan[d].wire[side]
    BY <1>0, CutEffect
  <1>5. NoneRead /\ NoneIdentified
    BY <1>0, <1>1 DEF NoneRead, NoneIdentified, SameMade, Readable, Held
  <1>6. \A q \in Seq(Item) : Less(q, q) /\ \A r : CutTo(q, r) => Less(q, r)
    BY LessCases
  <1>7. ChansLess /\ QueuesLess /\ UnmadeKept
    <2>1. \A d \in Conns, e \in Side : Less(chan[d].out[e], chan'[d].out[e])
      BY <1>0, <1>1, LessSame
    <2>2. \A d \in Conns, e \in Side : Less(chan[d].wire[e], chan'[d].wire[e])
      BY <1>0, <1>1, <1>6, ItemTypes
    <2>3. QueuesLess
      BY <1>0, LessSame DEF QueuesLess
    <2>4. UnmadeKept
      BY <1>1 DEF UnmadeKept, SameOut
    <2> QED  BY <2>1, <2>2, <2>3, <2>4 DEF ChansLess
  <1>8. SeenLess /\ FailsTaken
    BY <1>0, SeenSame, NoneFails DEF Buffer
  <1>9. ASSUME NEW d \in Conns, chan[d].made, Readable(d)'
        PROVE  MarkedAt(d)'
    <2>1. CASE d # c
      <3>1. chan'[d].wire["connector"] = chan[d].wire["connector"] /\ chan'[d].cut = chan[d].cut
            /\ HeadKept(chan[d].out["connector"], chan'[d].out["connector"])
        BY <1>0, <1>1, <2>1, ItemTypes, WriteKeepsHead DEF Side, SameOut
      <3> QED  BY <1>5, <1>9, <3>1, MarkedStays DEF LaneInv
    <2>2. CASE d = c
      <3>1. PICK w \in Seq(Item) : w = chan[c].wire["connector"]
        BY <1>0, ItemTypes DEF Side
      <3>2. PICK r : r = chan'[c].wire["connector"]
        OBVIOUS
      <3>3. r # <<>> /\ Rst \in Elems(r) /\ (Head(r) = Rst \/ (w # <<>> /\ Head(r) = Head(w)))
        BY <1>1, <3>1, <3>2, NumsCut DEF Side
      <3>4. MarkedAt(c)
        BY <1>5, <1>9, <2>2 DEF NoneRead, LaneInv, Front, Marked
      <3> QED  BY <1>0, <2>2, <3>1, <3>2, <3>3, <3>4 DEF MarkedAt, Opening
    <2> QED  BY <2>1, <2>2
  <1>13. AllLanes' /\ Lists' /\ Arrived'
    BY <1>0, <1>5, <1>7, <1>8, ShrinkStep DEF LaneInv
  <1>14. Front'
    BY <1>0, <1>5, <1>9, FrontKept DEF LaneInv
  <1> QED  BY <1>13, <1>14 DEF LaneInv

(* A connection is accepted.                                               *)
LEMMA AcceptLanes ==
    ASSUME BooksInv, LaneInv, NEW c \in Conns, Accept(c)
    PROVE  LaneInv'
  <1>0. Types /\ Lists /\ sock' = sock /\ got' = got /\ sends' = sends /\ binder \in BinderType
        /\ chan[c].made /\ binder.open /\ binder.conns[c] = "new" /\ binder' = [binder EXCEPT !.conns[c] = "connected"]
    BY DEF BooksInv, LaneInv, Accept, Types
  <1>1. <<Hello>> \in Seq(Item) /\ Hello \in Item /\ chan \in Chans /\ "binder" \in Side
    BY <1>0 DEF Item, Types, Chans, Side
  <1>2. PICK q \in Seq(Item) : q = chan[c].out["binder"]
    BY <1>0, <1>1, ItemTypes
  <1>3. q \o <<Hello>> = Append(q, Hello)
    BY <1>1, AppendIsConcat
  <1>4. SameConns(chan, chan') /\ SameWire(chan, chan') /\ OutIs(chan, chan', c, "binder", Append(q, Hello))
    <2>1. PICK new : new = Write(chan, c, "binder", <<Hello>>)
      OBVIOUS
    <2>2. SameConns(chan, new) /\ SameWire(chan, new) /\ OutIs(chan, new, c, "binder", q \o <<Hello>>)
      BY <1>1, <1>2, <2>1, WriteEffect
    <2>3. chan' = new
      BY <2>1 DEF Accept
    <2> QED  BY <1>3, <2>2, <2>3
  <1>5. \A d \in Conns : binder'.conns[d] = IF d = c THEN "connected" ELSE binder.conns[d]
    BY <1>0 DEF BinderType
  <1>6. binder'.open = binder.open /\ binder'.inbox = binder.inbox /\ binder'.pending = binder.pending
    BY <1>0 DEF BinderType
  <1>7. NoneRead /\ NoneIdentified
    <2>1. \A d \in Conns : Readable(d)' => Readable(d)
      BY <1>0, <1>4, <1>5, <1>6 DEF Readable, Held, SameConns
    <2> QED  BY <1>0, <1>4, <1>5, <2>1 DEF NoneRead, NoneIdentified, SameConns, SameMade
  <1>8. ChansLess /\ QueuesLess /\ UnmadeKept
    <2>1. Less(q, Append(q, Hello)) /\ \A r \in Seq(Item) : Less(r, r)
      BY LessCases
    <2>2. \A d \in Conns, e \in Side : Less(chan[d].out[e], chan'[d].out[e])
      BY <1>0, <1>2, <1>4, <2>1, ItemTypes DEF OutIs
    <2>3. \A d \in Conns, e \in Side : Less(chan[d].wire[e], chan'[d].wire[e])
      BY <1>0, <1>4, LessSame
    <2>4. QueuesLess
      BY <1>0, <1>6, LessSame DEF QueuesLess
    <2>5. UnmadeKept
      BY <1>0, <1>4 DEF UnmadeKept, SameConns, SameWire, OutIs
    <2> QED  BY <2>2, <2>3, <2>4, <2>5 DEF ChansLess
  <1>9. SeenLess /\ FailsTaken
    BY <1>0, <1>6, SeenSame, NoneFails DEF Buffer
  <1>10. FrontSame
    BY <1>0, <1>4, ItemTypes, WriteKeepsHead DEF FrontSame, SameConns, SameWire, OutIs, Side
  <1>11. AllLanes' /\ Lists' /\ Arrived'
    BY <1>0, <1>7, <1>8, <1>9, ShrinkStep DEF LaneInv
  <1>12. Front'
    BY <1>0, <1>7, <1>10, FrontStays DEF LaneInv
  <1> QED  BY <1>11, <1>12 DEF LaneInv

(* What is buffered at one end is dropped.                                 *)
LEMMA SeenDrops ==
    ASSUME Types, NEW x \in Ends, got' = got, Buffer(x)' = <<>>, \A y \in Ends \ {x} : Buffer(y)' = Buffer(y)
    PROVE  SeenLess
  <1>1. \A y \in Ends \ {x} : Received(y)' = Received(y)
    BY DEF Received, Buffer
  <1>2. Received(x)' = got[x] \o <<>>
    BY DEF Received, Buffer
  <1>3. got[x] \o <<>> = got[x]
    BY ItemTypes, ConcatEmptySeq
  <1> QED  BY <1>1, <1>2, <1>3 DEF SeenLess

(* A queue fails with its end.                                             *)
LEMMA QueueFails ==
    ASSUME Types, Lists, NEW side \in Side, NEW s \in Sockets, Queue(side, s)' = <<>>,
           sends' = Answer(sends, Messages(Queue(side, s)), "failed")
    PROVE  FailsTaken
  <1>1. PICK q \in Seq(Item) : q = Queue(side, s)
    BY ItemTypes, QueueWritable DEF Queue
  <1>2. Sorted(q, side, s)
    BY <1>1 DEF Lists, Queue, Side
  <1>3. ASSUME NEW e \in Side, NEW t \in Sockets, NEW n, Msg(DirOf(e), t, n) \in Messages(q)
        PROVE  Taken(e, t, n)
    <2>1. e = side /\ t = s /\ n \in Nums(q)
      BY <1>2, <1>3, LaneMessages
    <2>2. n \in Queued(side, s) /\ n \notin Queued(side, s)'
      BY <1>1, <2>1, NumsBasic DEF Queued
    <2> QED  BY <2>1, <2>2 DEF Taken
  <1> QED  BY <1>1, <1>3, TakenFails

(* What libuv has not written fails with the client.                       *)
LEMMA OutFails ==
    ASSUME Types, Lists, NEW c \in Conns, NEW side \in Side, SameConns(chan, chan'), chan'[c].out[side] = <<>>,
           sends' = Answer(sends, Messages(chan[c].out[side]), "failed"), Mine(c, chan[c].socket)
    PROVE  FailsTaken
  <1>1. PICK q \in Seq(Item) : q = chan[c].out[side]
    BY ItemTypes
  <1>2. Sorted(q, side, chan[c].socket)
    BY <1>1 DEF Lists
  <1>3. ASSUME NEW e \in Side, NEW t \in Sockets, NEW n, Msg(DirOf(e), t, n) \in Messages(q)
        PROVE  Taken(e, t, n)
    <2>1. e = side /\ t = chan[c].socket /\ n \in Nums(q)
      BY <1>2, <1>3, LaneMessages
    <2>2. Mine(c, t) /\ Mine(c, t)'
      BY <2>1 DEF Mine, SameConns
    <2>3. n \in InOut(c, side, t) /\ n \notin InOut(c, side, t)'
      BY <1>1, <2>1, <2>2, NumsBasic DEF InOut
    <2> QED  BY <2>1, <2>3 DEF Taken
  <1> QED  BY <1>1, <1>3, TakenFails

(* The client of a connection is shut down.                                *)
LEMMA ShutdownLess ==
    ASSUME Types, NEW c \in Conns, NEW side \in Side, chan[c].made, chan' = ShutdownClient(chan, c, side)
    PROVE  /\ SameConns(chan, chan') /\ SameWire(chan, chan') /\ OutIs(chan, chan', c, side, Append(chan[c].out[side], Fin))
           /\ ChansLess /\ UnmadeKept /\ FrontSame
  <1>0. chan \in Chans /\ Fin \in Item
    BY DEF Types, Chans, Item
  <1>1. PICK q \in Seq(Item) : q = chan[c].out[side]
    BY ItemTypes
  <1>2. SameConns(chan, chan') /\ SameWire(chan, chan') /\ OutIs(chan, chan', c, side, Append(q, Fin))
    <2>1. PICK new : new = ShutdownClient(chan, c, side)
      OBVIOUS
    <2>2. SameConns(chan, new) /\ SameWire(chan, new) /\ OutIs(chan, new, c, side, Append(q, Fin))
      BY <1>0, <1>1, <2>1, ShutdownEffect
    <2> QED  BY <2>1, <2>2
  <1>3. Less(q, Append(q, Fin)) /\ HeadKept(q, Append(q, Fin)) /\ \A r \in Seq(Item) : Less(r, r) /\ HeadKept(r, r)
    BY <1>0, LessCases, WriteKeepsHead
  <1>4. \A d \in Conns, e \in Side : Less(chan[d].out[e], chan'[d].out[e])
    BY <1>1, <1>2, <1>3, ItemTypes DEF OutIs
  <1>5. \A d \in Conns, e \in Side : Less(chan[d].wire[e], chan'[d].wire[e])
    BY <1>2, LessSame
  <1>6. UnmadeKept
    BY <1>2 DEF UnmadeKept, SameConns, SameWire, OutIs
  <1>7. FrontSame
    BY <1>1, <1>2, <1>3, ItemTypes DEF FrontSame, SameConns, SameWire, OutIs, Side
  <1> QED  BY <1>1, <1>2, <1>4, <1>5, <1>6, <1>7 DEF ChansLess

(* The connections stay as they are.                                       *)
LEMMA SameLess ==
    ASSUME Types, chan' = chan
    PROVE  SameConns(chan, chan') /\ ChansLess /\ UnmadeKept /\ FrontSame
  <1>1. SameConns(chan, chan') /\ SameWire(chan, chan') /\ SameOut(chan, chan') /\ UnmadeKept
    BY DEF SameConns, SameWire, SameOut, UnmadeKept
  <1> QED  BY <1>1, LessSame DEF ChansLess, FrontSame, HeadKept

(* A socket is shut down.                                                  *)
LEMMA ShutdownLanes ==
    ASSUME BooksInv, LaneInv, NEW s \in Sockets, Shutdown(s)
    PROVE  LaneInv'
  <1>0. Types /\ Lists /\ binder' = binder /\ got' = got /\ s # "binder" /\ s \in Ends /\ sock[s] \in SockType
    BY NameAssumption DEF BooksInv, LaneInv, Shutdown, Types, Ends
  <1>1. SameConns(chan, chan') /\ ChansLess /\ UnmadeKept /\ FrontSame
    <2>1. CASE Linked(s)
      <3>1. PICK c \in Conns : c = sock[s].conn /\ chan[c].made
        BY <2>1 DEF BooksInv, Connections, Made
      <3>2. chan' = ShutdownClient(chan, c, "connector") /\ "connector" \in Side
        BY <2>1, <3>1 DEF Shutdown, Side
      <3> QED  BY <1>0, <3>1, <3>2, ShutdownLess
    <2>2. CASE ~Linked(s)
      BY <1>0, <2>2, SameLess DEF Shutdown
    <2> QED  BY <2>1, <2>2
  <1>2. /\ sock'[s].conn = 0 /\ sock'[s].queue = <<>> /\ sock'[s].inbox = <<>>
        /\ \A t \in Sockets \ {s} : sock'[t] = sock[t]
    BY <1>0 DEF Shutdown, Types, SockType
  <1>3. NoneRead /\ NoneIdentified
    <2>1. \A d \in Conns : Readable(d)' => Readable(d)
      BY <1>0, <1>1 DEF Readable, Held, SameConns
    <2> QED  BY <1>0, <1>1, <1>2, <2>1 DEF NoneRead, NoneIdentified, SameConns, SameMade
  <1>4. QueuesLess
    BY <1>0, <1>2, LessSame DEF QueuesLess
  <1>5. SeenLess
    <2>1. Buffer(s)' = <<>> /\ \A y \in Ends \ {s} : Buffer(y)' = Buffer(y)
      BY <1>0, <1>2 DEF Buffer, Ends
    <2> QED  BY <1>0, <2>1, SeenDrops
  <1>6. FailsTaken
    <2>1. Queue("connector", s) = sock[s].queue /\ Queue("connector", s)' = <<>> /\ "connector" \in Side
      BY <1>2 DEF Queue, Side
    <2>2. sends' = Answer(sends, Messages(Queue("connector", s)), "failed")
      BY <2>1 DEF Shutdown
    <2> QED  BY <1>0, <2>1, <2>2, QueueFails
  <1>7. AllLanes' /\ Lists' /\ Arrived'
    BY <1>0, <1>1, <1>3, <1>4, <1>5, <1>6, ShrinkStep DEF LaneInv
  <1>8. Front'
    BY <1>0, <1>1, <1>3, FrontStays DEF LaneInv
  <1> QED  BY <1>7, <1>8 DEF LaneInv

(* onRead takes an item off the wire.                                      *)
LEMMA TakesOffLess ==
    ASSUME Types, Resets, NEW c \in Conns, NEW side \in Side, chan[c].made, TakesOff(c, side), chan[c].wire[Other(side)] # <<>>
    PROVE  /\ SameConns(chan, chan') /\ ChansLess /\ UnmadeKept
           /\ Head(chan[c].wire[Other(side)]) = Rst => chan'[c].out[side] = <<>>
           /\ side = "connector" => FrontSame
           /\ \A d \in Conns : d # c => chan'[d].wire["connector"] = chan[d].wire["connector"]
           /\ side = "binder" => \A d \in Conns : chan'[d].out["connector"] = chan[d].out["connector"]
  <1>0. Other(side) \in Side /\ Other("connector") = "binder" /\ Side = {"connector", "binder"} /\ Fin \in Item /\ Rst # Fin
    BY Kinds DEF Side, Other, Item
  <1>1. PICK o \in Seq(Item) : o = chan[c].out[side]
    BY ItemTypes
  <1>2. PICK w \in Seq(Item) : w = chan[c].wire[Other(side)]
    BY <1>0, ItemTypes
  <1>3. PICK e : e = Head(w)
    OBVIOUS
  <1>4. /\ SameConns(chan, chan') /\ WireIs(chan, chan', c, Other(side), Tail(w))
        /\ e \notin {Fin, Rst} => SameOut(chan, chan')
        /\ e = Fin => OutIs(chan, chan', c, side, Append(o, Fin))
        /\ e = Rst => OutIs(chan, chan', c, side, <<>>)
    BY <1>1, <1>2, <1>3 DEF TakesOff
  <1>5. /\ Less(w, Tail(w)) /\ Less(o, o) /\ Less(o, <<>>) /\ Less(o, Append(o, Fin))
        /\ HeadKept(o, o) /\ HeadKept(o, Append(o, Fin)) /\ \A r \in Seq(Item) : Less(r, r) /\ HeadKept(r, r)
    BY <1>0, <1>2, LessCases, WriteKeepsHead
  <1>6. \A d \in Conns, x \in Side : Less(chan[d].wire[x], chan'[d].wire[x])
    BY <1>2, <1>4, <1>5, ItemTypes DEF WireIs
  <1>7. e = Rst => chan[c].cut
    BY <1>0, <1>2, <1>3, RstMeansCut
  <1>8. PICK p : /\ OutIs(chan, chan', c, side, p) /\ Less(o, p) /\ (chan[c].cut \/ HeadKept(o, p))
                 /\ e = Rst => p = <<>>
    <2>1. CASE e \notin {Fin, Rst}
      <3>1. OutIs(chan, chan', c, side, o)
        BY <1>1, <1>4, <2>1 DEF OutIs, SameOut
      <3> QED  BY <1>5, <2>1, <3>1
    <2>2. CASE e = Fin
      BY <1>0, <1>4, <1>5, <2>2
    <2>3. CASE e = Rst
      BY <1>4, <1>5, <1>7, <2>3
    <2> QED  BY <2>1, <2>2, <2>3
  <1>9. \A d \in Conns, x \in Side : Less(chan[d].out[x], chan'[d].out[x])
    BY <1>1, <1>5, <1>8, ItemTypes DEF OutIs
  <1>10. UnmadeKept
    BY <1>4, <1>8 DEF UnmadeKept, SameConns, WireIs, OutIs
  <1>11. ASSUME side = "connector"
         PROVE  FrontSame
    <2>1. \A d \in Conns : chan'[d].wire["connector"] = chan[d].wire["connector"]
      BY <1>0, <1>4, <1>11 DEF WireIs
    <2>2. \A d \in Conns : chan[d].cut \/ HeadKept(chan[d].out["connector"], chan'[d].out["connector"])
      BY <1>0, <1>1, <1>5, <1>8, <1>11, ItemTypes DEF OutIs
    <2> QED  BY <1>4, <2>1, <2>2 DEF FrontSame, SameConns
  <1>12. \A d \in Conns : d # c => chan'[d].wire["connector"] = chan[d].wire["connector"]
    BY <1>0, <1>4 DEF WireIs
  <1>13. side = "binder" => \A d \in Conns : chan'[d].out["connector"] = chan[d].out["connector"]
    BY <1>0, <1>8 DEF OutIs
  <1>14. Head(chan[c].wire[Other(side)]) = Rst => chan'[c].out[side] = <<>>
    BY <1>2, <1>3, <1>8 DEF OutIs
  <1> QED  BY <1>4, <1>6, <1>9, <1>10, <1>11, <1>12, <1>13, <1>14 DEF ChansLess

(* onRead of a connector meets the handshake or the end.                   *)
LEMMA OnReadLanes ==
    ASSUME BooksInv, LaneInv, NEW s \in Sockets, OnRead(s), Head(chan[sock[s].conn].wire["binder"]).kind # "msg"
    PROVE  LaneInv'
  <1>0. Types /\ Resets /\ Lists /\ binder' = binder /\ sock[s] \in SockType /\ sock \in [Sockets -> SockType]
    BY DEF BooksInv, LaneInv, OnRead, Types
  <1>1. PICK c \in Conns : c = sock[s].conn /\ chan[c].made /\ chan[c].socket = s
    BY DEF BooksInv, Connections, Made, OnRead, Remote
  <1>2. TakesOff(c, "connector") /\ "connector" \in Side /\ Other("connector") = "binder"
    BY <1>1, OnReadTypes DEF Side, Other
  <1>3. PICK e : e = Head(chan[c].wire["binder"])
    OBVIOUS
  <1>4. chan[c].wire["binder"] # <<>> /\ e.kind # "msg"
    BY <1>1, <1>3 DEF OnRead
  <1>5. /\ SameConns(chan, chan') /\ ChansLess /\ UnmadeKept /\ FrontSame
        /\ e = Rst => chan'[c].out["connector"] = <<>>
    BY <1>0, <1>1, <1>2, <1>3, <1>4, TakesOffLess
  <1>6. got' = got
    BY <1>1, <1>3, <1>4, Kinds DEF OnRead
  <1>7. /\ sock'[s].conn \in {sock[s].conn, 0} /\ sock'[s].queue = sock[s].queue /\ sock'[s].inbox = sock[s].inbox
        /\ \A t \in Sockets \ {s} : sock'[t] = sock[t]
    <2>1. CASE sock' = [sock EXCEPT ![s].phase = "established"]
      BY <1>0, <2>1 DEF SockType
    <2>2. CASE sock' = [sock EXCEPT ![s] = [@ EXCEPT !.phase = "gone", !.conn = 0, !.waits = FALSE]]
      BY <1>0, <2>2 DEF SockType
    <2>3. CASE sock' = [sock EXCEPT ![s] = Aborted(s)]
      BY <1>0, <2>3 DEF SockType, Aborted
    <2> QED  BY <1>1, <1>3, <1>4, <2>1, <2>2, <2>3 DEF OnRead
  <1>8. NoneRead /\ NoneIdentified
    <2>1. \A d \in Conns : Readable(d)' => Readable(d)
      BY <1>0, <1>5 DEF Readable, Held, SameConns
    <2> QED  BY <1>0, <1>5, <1>7, <2>1 DEF NoneRead, NoneIdentified, SameConns, SameMade
  <1>9. QueuesLess
    BY <1>0, <1>7, LessSame DEF QueuesLess
  <1>10. SeenLess
    <2>1. \A x \in Ends : Buffer(x)' = Buffer(x)
      BY <1>0, <1>7 DEF Buffer, Ends
    <2> QED  BY <1>6, <2>1, SeenSame
  <1>11. FailsTaken
    <2>1. CASE sends' = sends
      BY <1>0, <2>1, NoneFails
    <2>2. CASE e = Rst /\ sends' = Answer(sends, Canceled(c, "connector"), "failed")
      <3>1. Mine(c, chan[c].socket)
        BY <1>1 DEF Mine
      <3> QED  BY <1>0, <1>2, <1>5, <2>2, <3>1, OutFails DEF Canceled
    <2> QED  BY <1>1, <1>3, <1>4, <2>1, <2>2 DEF OnRead
  <1>12. AllLanes' /\ Lists' /\ Arrived'
    BY <1>0, <1>5, <1>8, <1>9, <1>10, <1>11, ShrinkStep DEF LaneInv
  <1>13. Front'
    BY <1>0, <1>5, <1>8, FrontStays DEF LaneInv
  <1> QED  BY <1>12, <1>13 DEF LaneInv

(* onRemoteDisconnect on the tables.                                       *)
LEMMA LeavesLess ==
    ASSUME Types, NEW c \in Conns, NEW reason \in {"aborted", "disconnected"}, Held(c), chan[c].socket \in Sockets,
           SameConns(chan, chan'), sock' = sock, got' = got, binder' = Leaves(binder, c, reason)
    PROVE  /\ NoneRead /\ NoneIdentified /\ QueuesLess /\ SeenLess /\ ~Readable(c)'
           /\ reason = "disconnected" /\ binder.conns[c] = "established" => binder'.pending[chan[c].socket] = <<>>
  <1>0. binder \in BinderType /\ clock \in 0 .. MaxTime /\ binder.conns[c] \in {"connected", "established"}
    BY DEF Types, Held
  <1>1. PICK i \in Sockets : i = chan[c].socket /\ i = Remote(c)
    BY DEF Remote
  <1>2. /\ binder' \in BinderType /\ SameBut(binder, binder') /\ binder'.conns = [binder.conns EXCEPT ![c] = "erased"]
        /\ binder'.route = IF binder.conns[c] = "connected" THEN binder.route ELSE [binder.route EXCEPT ![i] = 0]
        /\ binder.conns[c] = "connected" \/ reason = "aborted" =>
              binder'.pending = binder.pending /\ binder'.goneAt = binder.goneAt /\ binder'.insertions = binder.insertions
        /\ binder.conns[c] = "established" /\ reason = "disconnected" =>
              /\ binder'.pending = [binder.pending EXCEPT ![i] = <<>>]
              /\ binder'.goneAt[i] # Never /\ Listed(binder', i)
              /\ \A j \in Sockets \ {i} :
                   /\ binder'.goneAt[j] # Never => binder'.goneAt[j] = binder.goneAt[j]
                   /\ binder.goneAt[j] # Never /\ binder'.goneAt[j] = Never => clock - binder.goneAt[j] > TTL
                   /\ binder'.goneAt[j] # Never /\ Listed(binder, j) => Listed(binder', j)
    BY <1>0, <1>1, LeavesEffect
  <1>3. /\ binder'.conns = [binder.conns EXCEPT ![c] = "erased"]
        /\ binder.conns[c] = "connected" \/ reason = "aborted" => binder'.pending = binder.pending
        /\ binder.conns[c] = "established" /\ reason = "disconnected" => binder'.pending = [binder.pending EXCEPT ![i] = <<>>]
    BY <1>2
  <1>4. binder'.open = binder.open /\ binder'.inbox = binder.inbox
    BY <1>2 DEF SameBut
  <1>5. \A d \in Conns : binder'.conns[d] = IF d = c THEN "erased" ELSE binder.conns[d]
    BY <1>0, <1>3, <1>4 DEF BinderType
  <1>6. ~Readable(c)' /\ \A d \in Conns : Readable(d)' => Readable(d)
    BY <1>4, <1>5 DEF Readable, Held, SameConns
  <1>7. NoneRead
    BY <1>6 DEF NoneRead, SameConns, SameMade
  <1>8. NoneIdentified
    BY <1>5, <1>6 DEF NoneIdentified
  <1>9. ASSUME NEW s \in Sockets
        PROVE  Less(binder.pending[s], binder'.pending[s])
    <2>1. binder'.pending[s] = binder.pending[s] \/ binder'.pending[s] = <<>>
      BY <1>0, <1>3, <1>4 DEF BinderType
    <2> QED  BY <2>1, LessSame
  <1>10. QueuesLess
    BY <1>9, LessSame DEF QueuesLess
  <1>11. SeenLess
    BY <1>4, SeenSame DEF Buffer
  <1>12. reason = "disconnected" /\ binder.conns[c] = "established" => binder'.pending[i] = <<>>
    BY <1>0, <1>3, <1>4 DEF BinderType
  <1> QED  BY <1>1, <1>6, <1>7, <1>8, <1>10, <1>11, <1>12

(* What was pending for an identity that left fails.                       *)
LEMMA AbandonedFails ==
    ASSUME Types, Lists, NEW c \in Conns, chan[c].socket \in Sockets, sends' = Answer(sends, Abandoned(c, "disconnected"), "failed"),
           binder.conns[c] = "established" => binder'.pending[chan[c].socket] = <<>>
    PROVE  FailsTaken
  <1>1. PICK i \in Sockets : i = chan[c].socket
    OBVIOUS
  <1>2. CASE binder.conns[c] = "established"
    <2>1. Queue("binder", i) = binder.pending[i] /\ Queue("binder", i)' = <<>> /\ "binder" \in Side
      BY <1>1, <1>2 DEF Queue, Side
    <2>2. Abandoned(c, "disconnected") = Messages(binder.pending[i])
      BY <1>1, <1>2 DEF Abandoned, Remote
    <2>3. sends' = Answer(sends, Messages(Queue("binder", i)), "failed")
      BY <2>1, <2>2
    <2> QED  BY <2>1, <2>3, QueueFails
  <1>3. CASE binder.conns[c] # "established"
    <2>1. Abandoned(c, "disconnected") = {}
      BY <1>3 DEF Abandoned
    <2>2. PICK ms : ms = {}
      OBVIOUS
    <2>3. sends' = Answer(sends, ms, "failed") /\ \A side \in Side, s \in Sockets : \A n : Msg(DirOf(side), s, n) \in ms => Taken(side, s, n)
      BY <2>1, <2>2
    <2> QED  BY <2>3, TakenFails
  <1> QED  BY <1>2, <1>3

(* closeConnection.                                                        *)
LEMMA CloseLanes ==
    ASSUME BooksInv, LaneInv, NEW i \in Sockets, CloseConnection(i)
    PROVE  LaneInv'
  <1>0. Types /\ Lists /\ TablesAgree /\ sock' = sock /\ got' = got
    BY DEF BooksInv, LaneInv, CloseConnection
  <1>1. PICK c \in Conns : c = binder.route[i] /\ binder.conns[c] = "established" /\ chan[c].socket = i
    BY <1>0, TablesTo DEF CloseConnection
  <1>2. chan[c].made /\ Held(c) /\ "binder" \in Side
    BY <1>1 DEF BooksInv, Connections, Made, Held, Side
  <1>3. /\ chan' = ShutdownClient(chan, c, "binder") /\ binder' = Leaves(binder, c, "disconnected")
        /\ sends' = Answer(sends, Abandoned(c, "disconnected"), "failed")
    BY <1>1 DEF CloseConnection
  <1>4. SameConns(chan, chan') /\ ChansLess /\ UnmadeKept /\ FrontSame
    BY <1>0, <1>2, <1>3, ShutdownLess
  <1>5. NoneRead /\ NoneIdentified /\ QueuesLess /\ SeenLess /\ binder'.pending[i] = <<>>
    BY <1>0, <1>1, <1>2, <1>3, <1>4, LeavesLess
  <1>6. FailsTaken
    BY <1>0, <1>1, <1>3, <1>5, AbandonedFails
  <1>7. AllLanes' /\ Lists' /\ Arrived'
    BY <1>0, <1>4, <1>5, <1>6, ShrinkStep DEF LaneInv
  <1>8. Front'
    BY <1>0, <1>4, <1>5, FrontStays DEF LaneInv
  <1> QED  BY <1>7, <1>8 DEF LaneInv

(* onRead of the binder meets the end of a connection.                     *)
LEMMA BinderEndLanes ==
    ASSUME BooksInv, LaneInv, NEW c \in Conns, BinderOnRead(c), Head(chan[c].wire["connector"]) \in {Fin, Rst}
    PROVE  LaneInv'
  <1>0. Types /\ Resets /\ Lists /\ sock' = sock /\ Held(c) /\ chan[c].wire["connector"] # <<>>
    BY DEF BooksInv, LaneInv, BinderOnRead
  <1>1. TakesOff(c, "binder") /\ "binder" \in Side /\ Other("binder") = "connector" /\ chan[c].made /\ chan[c].socket \in Sockets
    BY BinderOnReadTypes, Kinds DEF Side, Other, Made, Remote
  <1>2. PICK e \in {Fin, Rst} : e = Head(chan[c].wire["connector"])
    OBVIOUS
  <1>3. /\ SameConns(chan, chan') /\ ChansLess /\ UnmadeKept
        /\ e = Rst => chan'[c].out["binder"] = <<>>
        /\ \A d \in Conns : d # c => chan'[d].wire["connector"] = chan[d].wire["connector"]
        /\ \A d \in Conns : chan'[d].out["connector"] = chan[d].out["connector"]
    BY <1>0, <1>1, <1>2, TakesOffLess
  <1>4. PICK reason \in {"aborted", "disconnected"} :
           /\ binder' = Leaves(binder, c, reason) /\ got' = got
           /\ reason = "disconnected" => sends' = Answer(sends, Abandoned(c, "disconnected"), "failed")
           /\ reason = "aborted" => e = Rst /\ sends' = Answer(sends, Canceled(c, "binder"), "failed")
    BY <1>2, Kinds DEF BinderOnRead
  <1>5. /\ NoneRead /\ NoneIdentified /\ QueuesLess /\ SeenLess /\ ~Readable(c)'
        /\ reason = "disconnected" /\ binder.conns[c] = "established" => binder'.pending[chan[c].socket] = <<>>
    BY <1>0, <1>1, <1>3, <1>4, LeavesLess
  <1>6. FailsTaken
    <2>1. CASE reason = "disconnected"
      BY <1>0, <1>1, <1>4, <1>5, <2>1, AbandonedFails
    <2>2. CASE reason = "aborted"
      <3>1. Mine(c, chan[c].socket)
        BY <1>1 DEF Mine
      <3> QED  BY <1>0, <1>1, <1>3, <1>4, <2>2, <3>1, OutFails DEF Canceled
    <2> QED  BY <2>1, <2>2
  <1>7. AllLanes' /\ Lists' /\ Arrived'
    BY <1>0, <1>3, <1>5, <1>6, ShrinkStep DEF LaneInv
  <1>8. ASSUME NEW d \in Conns, chan[d].made, Readable(d)'
        PROVE  MarkedAt(d)'
    <2>1. d # c /\ chan'[d].cut = chan[d].cut
      BY <1>3, <1>5, <1>8 DEF SameConns
    <2>2. HeadKept(chan[d].out["connector"], chan'[d].out["connector"])
      BY <1>3 DEF HeadKept
    <2> QED  BY <1>3, <1>5, <1>8, <2>1, <2>2, MarkedStays DEF LaneInv
  <1>9. Front'
    BY <1>0, <1>5, <1>8, FrontKept DEF LaneInv
  <1> QED  BY <1>7, <1>9 DEF LaneInv

(* shutdown() of the binder.                                               *)
LEMMA BinderShutdownLanes ==
    ASSUME BooksInv, LaneInv, BinderShutdown
    PROVE  LaneInv'
  <1>0. Types /\ Lists /\ Connections /\ sock' = sock /\ got' = got /\ binder \in BinderType /\ "binder" \in Side /\ "connector" \in Side
    BY DEF BooksInv, LaneInv, BinderShutdown, Types, Side
  <1>1. /\ SameMade(chan, chan')
        /\ \A d \in Conns :
             LET reset == ~Held(d) /\ chan[d].made /\ binder.conns[d] = "new" /\ ~chan[d].cut
             IN  /\ chan'[d].cut = (chan[d].cut \/ reset)
                 /\ chan'[d].wire["connector"] = chan[d].wire["connector"]
                 /\ chan'[d].wire["binder"] = IF reset THEN <<Rst>> ELSE chan[d].wire["binder"]
                 /\ chan'[d].out["connector"] = chan[d].out["connector"]
                 /\ chan'[d].out["binder"] = IF Held(d) THEN Append(chan[d].out["binder"], Fin) ELSE chan[d].out["binder"]
    BY <1>0, BinderShutdownEffect
  <1>2. /\ binder'.open = FALSE /\ binder'.inbox = <<>> /\ \A d \in Conns : binder'.conns[d] \in {"new", "erased"}
        /\ \A s \in Sockets : binder'.pending[s] = <<>>
    BY <1>0 DEF BinderShutdown, BinderType
  <1>3. \A d \in Conns : ~Readable(d)'
    BY <1>2 DEF Readable, Held
  <1>4. NoneRead /\ NoneIdentified
    BY <1>0, <1>1, <1>2, <1>3 DEF NoneRead, NoneIdentified
  <1>5. \A q \in Seq(Item) : Less(q, q) /\ Less(q, <<Rst>>) /\ Less(q, Append(q, Fin))
    BY LessCases
  <1>6. ASSUME NEW d \in Conns, NEW e \in Side
        PROVE  Less(chan[d].wire[e], chan'[d].wire[e]) /\ Less(chan[d].out[e], chan'[d].out[e])
    <2>1. chan[d].wire[e] \in Seq(Item) /\ chan[d].out[e] \in Seq(Item)
      BY <1>0, ItemTypes
    <2>2. CASE e = "connector"
      BY <1>1, <1>5, <2>1, <2>2
    <2>3. CASE e = "binder"
      BY <1>1, <1>5, <2>1, <2>3
    <2> QED  BY <2>2, <2>3 DEF Side
  <1>7. UnmadeKept
    <2> SUFFICES ASSUME NEW d \in Conns, ~chan[d].made
                 PROVE  chan'[d].cut = chan[d].cut /\ \A e \in Side : chan'[d].wire[e] = chan[d].wire[e] /\ chan'[d].out[e] = chan[d].out[e]
      BY DEF UnmadeKept
    <2>1. ~Held(d)
      BY <1>0 DEF Connections, Made, Held
    <2>2. chan[d].cut \in BOOLEAN
      BY <1>0 DEF Types, ChanType
    <2> QED  BY <1>1, <2>1, <2>2 DEF Side
  <1>8. QueuesLess
    BY <1>0, <1>2, LessSame DEF QueuesLess
  <1>9. SeenLess
    <2>1. "binder" \in Ends /\ Buffer("binder")' = <<>> /\ \A y \in Ends \ {"binder"} : Buffer(y)' = Buffer(y)
      BY <1>0, <1>2 DEF Buffer, Ends
    <2> QED  BY <1>0, <2>1, SeenDrops
  <1>10. FailsTaken
    <2>1. PICK ms : ms = UNION {Messages(binder.pending[i]) : i \in Sockets}
      OBVIOUS
    <2>2. sends' = Answer(sends, ms, "failed")
      BY <2>1 DEF BinderShutdown
    <2>3. ASSUME NEW e \in Side, NEW t \in Sockets, NEW n, Msg(DirOf(e), t, n) \in ms
          PROVE  Taken(e, t, n)
      <3>1. PICK i \in Sockets : Msg(DirOf(e), t, n) \in Messages(binder.pending[i])
        BY <2>1, <2>3
      <3>2. binder.pending[i] \in Seq(Item) /\ Sorted(binder.pending[i], "binder", i)
        BY <1>0, ItemTypes, QueueWritable DEF Lists
      <3>3. e = "binder" /\ t = i /\ n \in Nums(binder.pending[i])
        BY <1>0, <3>1, <3>2, LaneMessages
      <3>4. n \in Queued(e, t) /\ n \notin Queued(e, t)'
        BY <1>2, <3>3, NumsBasic DEF Queued, Queue
      <3> QED  BY <3>4 DEF Taken
    <2> QED  BY <1>0, <2>2, <2>3, TakenFails
  <1>11. ChansLess
    BY <1>6 DEF ChansLess
  <1>12. AllLanes' /\ Lists' /\ Arrived'
    BY <1>0, <1>4, <1>7, <1>8, <1>9, <1>10, <1>11, ShrinkStep DEF LaneInv
  <1>13. Front'
    BY <1>0, <1>3, <1>4, FrontKept DEF LaneInv
  <1> QED  BY <1>12, <1>13 DEF LaneInv

-----------------------------------------------------------------------------
(* The steps that move a message.                                          *)

(* A lane of which nothing is touched.                                     *)
LEMMA LaneUntouched ==
    ASSUME NEW side \in Side, NEW s \in Sockets, Lane(side, s), NoNewReads(side, s),
           Sent(side, s)' = Sent(side, s), Failed(side, s)' \subseteq Failed(side, s),
           Queued(side, s)' = Queued(side, s), Seen(side, s)' = Seen(side, s),
           \A d \in Conns : OnWire(d, side, s)' = OnWire(d, side, s) /\ InOut(d, side, s)' = InOut(d, side, s)
    PROVE  Lane(side, s)'
  <1>1. Shrinks(side, s)
    BY DEF Shrinks
  <1> QED  BY <1>1, LaneShrinks

(* onWriteDone.                                                            *)
LEMMA FlushLanes ==
    ASSUME BooksInv, LaneInv, NEW c \in Conns, NEW side \in Side, Flush(c, side)
    PROVE  LaneInv'
  <1>0. Types /\ Lists /\ Front /\ sock' = sock /\ binder' = binder /\ got' = got /\ chan[c].made /\ ~chan[c].cut /\ chan[c].out[side] # <<>>
    BY DEF BooksInv, LaneInv, Flush
  <1>1. PICK q \in Seq(Item) : q = chan[c].out[side]
    BY <1>0, ItemTypes
  <1>2. PICK w \in Seq(Item) : w = chan[c].wire[side]
    BY <1>0, ItemTypes
  <1>3. PICK e \in Item : e = Head(q)
    BY <1>0, <1>1, NumsTail
  <1>4. /\ SameConns(chan, chan') /\ OutIs(chan, chan', c, side, Tail(q)) /\ WireIs(chan, chan', c, side, Append(w, e))
    BY <1>0, <1>1, <1>2, <1>3, FlushEffect
  <1>5. PICK s \in Sockets : s = chan[c].socket
    BY <1>0 DEF BooksInv, Connections, Made, Remote
  <1>6. Sorted(q, side, s) /\ Sorted(w, side, s)
    BY <1>0, <1>1, <1>2, <1>5 DEF Lists
  <1>7. /\ Tail(q) \in Seq(Item) /\ Nums(q) = NumOf(e) \cup Nums(Tail(q)) /\ Sorted(Tail(q), side, s)
        /\ Fits(e, side, s) /\ Below(NumOf(e), Nums(Tail(q)))
    BY <1>0, <1>1, <1>3, <1>6, NumsTail
  <1>8. Mine(c, s) /\ (\A d \in Conns, t \in Sockets : Mine(d, t)' = Mine(d, t)) /\ \A t \in Sockets : Mine(c, t) => t = s
    BY <1>0, <1>4, <1>5 DEF Mine, SameConns
  <1>9. Below(Nums(w), Nums(q))
    BY <1>1, <1>2, <1>8 DEF LaneInv, AllLanes, Lane, Ordered, OnWire, InOut
  <1>10. Nums(Append(w, e)) = Nums(w) \cup NumOf(e) /\ Sorted(Append(w, e), side, s)
    BY <1>6, <1>7, <1>9, NumsAppend DEF Below
  <1>11. NoneRead /\ NoneIdentified
    BY <1>0, <1>4 DEF NoneRead, NoneIdentified, SameConns, SameMade, Readable, Held
  <1>12. /\ SeenLess /\ \A x \in Side, t \in Sockets : Seen(x, t)' = Seen(x, t)
    BY <1>0, SeenSame DEF Buffer
  <1>13. \A x \in Side, t \in Sockets : Sent(x, t)' = Sent(x, t) /\ Failed(x, t)' \subseteq Failed(x, t)
    BY <1>0, NoneFails DEF Flush
  <1>14. \A x \in Side, t \in Sockets : Queued(x, t)' = Queued(x, t) /\ NoNewReads(x, t)
    BY <1>0, <1>11, LaneReads DEF Queued, Queue
  <1>15. ASSUME NEW x \in Side, NEW t \in Sockets
         PROVE  Lane(x, t)'
    <2>1. CASE x = side /\ t = s
      <3>1. /\ InOut(c, x, t) = NumOf(e) \cup InOut(c, x, t)' /\ OnWire(c, x, t)' = OnWire(c, x, t) \cup NumOf(e)
            /\ Below(NumOf(e), InOut(c, x, t)')
        BY <1>1, <1>2, <1>4, <1>7, <1>8, <1>10, <2>1 DEF InOut, OnWire, OutIs, WireIs
      <3>2. \A d \in Conns \ {c} : OnWire(d, x, t)' = OnWire(d, x, t) /\ InOut(d, x, t)' = InOut(d, x, t)
        BY <1>4, <1>8 DEF InOut, OnWire, OutIs, WireIs
      <3>3. Flushes(x, t, c, NumOf(e))
        BY <1>12, <1>13, <1>14, <3>1, <3>2 DEF Flushes
      <3> QED  BY <3>3, LaneFlushes DEF LaneInv, AllLanes
    <2>2. CASE ~(x = side /\ t = s)
      <3>1. \A d \in Conns : OnWire(d, x, t)' = OnWire(d, x, t) /\ InOut(d, x, t)' = InOut(d, x, t)
        BY <1>4, <1>8, <2>2 DEF InOut, OnWire, OutIs, WireIs
      <3> QED  BY <1>12, <1>13, <1>14, <3>1, LaneUntouched DEF LaneInv, AllLanes
    <2> QED  BY <2>1, <2>2
  <1>16. Lists'
    <2>1. \A d \in Conns, x \in Side :
             Sorted(chan'[d].wire[x], x, chan'[d].socket) /\ Sorted(chan'[d].out[x], x, chan'[d].socket)
      BY <1>0, <1>4, <1>5, <1>7, <1>10 DEF Lists, SameConns, OutIs, WireIs
    <2>2. \A d \in Conns : ~chan'[d].made =>
             ~chan'[d].cut /\ \A x \in Side : chan'[d].wire[x] = <<>> /\ chan'[d].out[x] = <<>>
      BY <1>0, <1>4 DEF Lists, SameConns, OutIs, WireIs
    <2> QED  BY <1>0, <2>1, <2>2 DEF Lists
  <1>17. Arrived'
    BY <1>0, <1>12, ArrivedShrinks DEF LaneInv
  <1>18. ASSUME NEW d \in Conns, chan[d].made, Readable(d)'
         PROVE  MarkedAt(d)'
    <2>0. "connector" \in Side
      BY DEF Side
    <2>1. CASE ~(d = c /\ side = "connector")
      <3>1. chan'[d].wire["connector"] = chan[d].wire["connector"] /\ chan'[d].cut = chan[d].cut
            /\ HeadKept(chan[d].out["connector"], chan'[d].out["connector"])
        BY <1>4, <2>0, <2>1 DEF SameConns, OutIs, WireIs, HeadKept
      <3> QED  BY <1>0, <1>11, <1>18, <3>1, MarkedStays
    <2>2. CASE d = c /\ side = "connector"
      <3>1. MarkedAt(c) /\ ~chan'[c].cut
        BY <1>0, <1>4, <1>11, <1>18, <2>2 DEF NoneRead, Front, Marked, SameConns
      <3>2. chan'[c].wire["connector"] = Append(w, e) /\ w = chan[c].wire["connector"] /\ q = chan[c].out["connector"]
        BY <1>1, <1>2, <1>4, <2>2 DEF WireIs
      <3>3. HeadKept(w, Append(w, e)) /\ Append(w, e) # <<>>
        BY WriteKeepsHead, AppendProperties
      <3>4. ASSUME w = <<>>
            PROVE  Head(Append(w, e)) = e
        BY <3>4
      <3>5. ASSUME binder'.conns[c] # "established"
            PROVE  Opening(c)'
        <4>1. Opening(c)
          BY <1>0, <3>1, <3>5 DEF MarkedAt
        <4>2. Head(Append(w, e)) \in {Hello, Rst}
          BY <1>0, <1>3, <3>2, <3>3, <3>4, <4>1 DEF Opening, HeadKept
        <4> QED  BY <3>2, <3>3, <4>2 DEF Opening
      <3> QED  BY <2>2, <3>1, <3>5 DEF MarkedAt
    <2> QED  BY <2>1, <2>2
  <1>19. Front'
    BY <1>0, <1>11, <1>18, FrontKept
  <1> QED  BY <1>15, <1>16, <1>17, <1>19 DEF LaneInv, AllLanes

(* A send is entered in the book of its lane.                              *)
LEMMA Tells ==
    ASSUME Types, NEW side \in Side, NEW s \in Sockets, NEW answer \in Answers,
           sends' = [sends EXCEPT ![DirOf(side)][s] = Append(@, answer)]
    PROVE  /\ Sent(side, s) \in Nat /\ Sent(side, s)' = Sent(side, s) + 1
           /\ Failed(side, s)' \subseteq Failed(side, s) \cup {Sent(side, s) + 1}
           /\ answer # "failed" => Failed(side, s)' \subseteq Failed(side, s)
           /\ \A x \in Side, t \in Sockets : ~(x = side /\ t = s) => Sent(x, t)' = Sent(x, t) /\ Failed(x, t)' \subseteq Failed(x, t)
  <1>0. sends \in SendsType /\ (\A x \in Side : DirOf(x) \in Dir) /\ \A x \in Side : DirOf(x) = DirOf(side) => x = side
    BY DEF Types, DirOf, Side, Dir
  <1>1. PICK new : new = [sends EXCEPT ![DirOf(side)][s] = Append(@, answer)]
    OBVIOUS
  <1>2. \A e \in Dir, t \in Sockets : new[e][t] = IF e = DirOf(side) /\ t = s THEN Append(sends[DirOf(side)][s], answer) ELSE sends[e][t]
    BY <1>0, <1>1, TellEffect
  <1>3. sends' = new
    BY <1>1
  <1>4. PICK b \in Seq(Answers) : b = sends[DirOf(side)][s]
    BY <1>0 DEF SendsType
  <1>5. Len(b) \in Nat /\ Len(Append(b, answer)) = Len(b) + 1 /\ Append(b, answer)[Len(b) + 1] = answer
        /\ \A n \in 1 .. Len(b) : Append(b, answer)[n] = b[n]
    BY AppendProperties, LenProperties
  <1>6. sends'[DirOf(side)][s] = Append(b, answer)
    BY <1>0, <1>2, <1>3, <1>4
  <1>7. Sent(side, s) = Len(b) /\ Sent(side, s)' = Len(b) + 1
    BY <1>4, <1>5, <1>6 DEF Sent
  <1>8. ASSUME NEW n \in Failed(side, s)'
        PROVE  n \in Failed(side, s) \/ (n = Len(b) + 1 /\ answer = "failed")
    <2>1. n \in 1 .. Len(b) + 1 /\ Append(b, answer)[n] = "failed"
      BY <1>6, <1>7 DEF Failed
    <2>2. n \in 1 .. Len(b) \/ n = Len(b) + 1
      BY <1>5, <2>1
    <2> QED  BY <1>4, <1>5, <1>7, <2>1, <2>2 DEF Failed
  <1>9. ASSUME NEW x \in Side, NEW t \in Sockets, ~(x = side /\ t = s)
        PROVE  Sent(x, t)' = Sent(x, t) /\ Failed(x, t)' \subseteq Failed(x, t)
    <2>1. sends'[DirOf(x)][t] = sends[DirOf(x)][t]
      BY <1>0, <1>2, <1>3, <1>9
    <2> QED  BY <2>1 DEF Sent, Failed
  <1> QED  BY <1>5, <1>7, <1>8, <1>9

(* The message that is sent next.                                          *)
LEMMA NextMessage ==
    ASSUME NEW side \in Side, NEW s \in Sockets, NEW n \in Nat
    PROVE  LET m == Msg(DirOf(side), s, n)
           IN  m \in Item /\ m \in Numbered /\ NumOf(m) = {n} /\ Fits(m, side, s)
  <1>1. DirOf(side) \in Dir
    BY DEF DirOf, Dir, Side
  <1>2. PICK m : m = Msg(DirOf(side), s, n)
    OBVIOUS
  <1>3. m \in Item /\ m \in Numbered
    BY <1>1, <1>2, MsgType
  <1>4. m.kind = "msg" /\ m.dir = DirOf(side) /\ m.of = s /\ m.n = n
    BY <1>2 DEF Msg
  <1> QED  BY <1>2, <1>3, <1>4 DEF NumOf, Fits

(* sendMessage on a linked connection.                                     *)
LEMMA SendLinkedLanes ==
    ASSUME BooksInv, LaneInv, NEW c \in Conns, NEW side \in Side, NEW s \in Sockets, NEW n \in Nat, n = Sent(side, s) + 1,
           Mine(c, s), Queue(side, s) = <<>>, side = "connector" => \A d \in Conns : Mine(d, s) => d <= c,
           sock' = sock, binder' = binder, got' = got, SendLinked(c, side, Msg(DirOf(side), s, n))
    PROVE  LaneInv'
  <1>0. Types /\ Lists /\ Front /\ DirOf(side) \in Dir
    BY DEF BooksInv, LaneInv, DirOf, Dir
  <1>1. PICK m \in Numbered : m = Msg(DirOf(side), s, n) /\ m \in Item /\ NumOf(m) = {n} /\ Fits(m, side, s)
    BY NextMessage
  <1>2. PICK q \in Seq(Item) : q = chan[c].out[side]
    BY <1>0, ItemTypes
  <1>3. PICK answer \in {"waiting", "silent"} :
              /\ SameConns(chan, chan') /\ SameWire(chan, chan')
              /\ answer = "waiting" => OutIs(chan, chan', c, side, q \o <<m>>)
              /\ answer = "silent" => SameOut(chan, chan')
              /\ sends' = [sends EXCEPT ![DirOf(side)][s] = Append(@, answer)]
    BY <1>0, <1>1, <1>2, SendLinkedEffect
  <1>4. q \o <<m>> = Append(q, m)
    BY <1>1, AppendIsConcat
  <1>5. /\ Sent(side, s)' = n /\ Failed(side, s)' \subseteq Failed(side, s)
        /\ \A x \in Side, t \in Sockets : ~(x = side /\ t = s) => Sent(x, t)' = Sent(x, t) /\ Failed(x, t)' \subseteq Failed(x, t)
    BY <1>0, <1>3, Tells DEF Answers
  <1>6. NoneRead /\ NoneIdentified
    BY <1>3 DEF NoneRead, NoneIdentified, SameConns, SameMade, Readable, Held
  <1>7. SeenLess /\ \A x \in Side, t \in Sockets : Seen(x, t)' = Seen(x, t)
    BY SeenSame DEF Buffer
  <1>8. /\ \A x \in Side, t \in Sockets : Queued(x, t)' = Queued(x, t) /\ NoNewReads(x, t)
        /\ \A d \in Conns, t \in Sockets : Mine(d, t)' = Mine(d, t)
    BY <1>6, LaneReads DEF Queued, Queue
  <1>9. \A d \in Conns, x \in Side, t \in Sockets : OnWire(d, x, t)' = OnWire(d, x, t)
    BY <1>3, <1>8 DEF OnWire, SameWire
  <1>10. \A t \in Sockets : Mine(c, t) => t = s
    BY DEF Mine
  <1>11. Nums(Append(q, m)) = Nums(q) \cup {n} /\ (Below(Nums(q), {n}) /\ Sorted(q, side, s) => Sorted(Append(q, m), side, s))
    BY <1>1, NumsAppend
  <1>12. Numbers(side, s) /\ Sent(side, s) \in Nat
    BY DEF LaneInv, AllLanes, Lane, Numbers
  <1>13. ASSUME NEW x \in Side, NEW t \in Sockets
         PROVE  Lane(x, t)'
    <2>1. CASE ~(x = side /\ t = s)
      <3>1. \A d \in Conns : InOut(d, x, t)' = InOut(d, x, t)
        BY <1>3, <1>8, <1>10, <2>1 DEF InOut, OutIs, SameOut
      <3> QED  BY <1>5, <1>7, <1>8, <1>9, <2>1, <3>1, LaneUntouched DEF LaneInv, AllLanes
    <2>2. CASE x = side /\ t = s
      <3>1. CASE answer = "waiting"
        <4>1. InOut(c, side, s)' = InOut(c, side, s) \cup {n}
          BY <1>2, <1>3, <1>4, <1>8, <1>11, <3>1 DEF InOut, OutIs
        <4>2. \A d \in Conns \ {c} : InOut(d, side, s)' = InOut(d, side, s)
          BY <1>3, <1>8, <3>1 DEF InOut, OutIs
        <4>3. Queued(side, s) = {} /\ Queued(side, s)' = {}
          BY <1>8, NumsBasic DEF Queued
        <4>4. side = "connector" => \A d \in Conns : c < d => Line(d, side, s) = {}
          <5>1. ASSUME side = "connector", NEW d \in Conns, c < d
                PROVE  ~Mine(d, s)
            BY <5>1, BoundAssumption DEF Conns
          <5> QED  BY <5>1 DEF Line, OnWire, InOut
        <4>5. Writes(side, s, c)
          BY <1>5, <4>1, <4>2, <4>3, <4>4 DEF Writes
        <4>6. SendsOne(side, s)
          BY <1>5, <1>7, <1>8, <1>9, <4>5 DEF SendsOne
        <4> QED  BY <2>2, <4>6, LaneSends DEF LaneInv, AllLanes
      <3>2. CASE answer = "silent"
        <4>1. Drops(side, s)
          BY <1>3, <1>5, <1>8, <3>2 DEF Drops, InOut, SameOut
        <4>2. SendsOne(side, s)
          BY <1>5, <1>7, <1>8, <1>9, <4>1 DEF SendsOne
        <4> QED  BY <2>2, <4>2, LaneSends DEF LaneInv, AllLanes
      <3> QED  BY <3>1, <3>2
    <2> QED  BY <2>1, <2>2
  <1>14. Below(Nums(q), {n})
    <2>1. Nums(q) \subseteq 1 .. Sent(side, s)
      BY <1>2, <1>12 DEF Numbers, InOut
    <2> QED  BY <1>12, <2>1 DEF Below
  <1>15. Sorted(Append(q, m), side, s)
    BY <1>0, <1>2, <1>11, <1>14 DEF Lists, Mine
  <1>16. Lists'
    <2>1. \A d \in Conns, x \in Side : Sorted(chan'[d].wire[x], x, chan'[d].socket)
      BY <1>0, <1>3 DEF Lists, SameConns, SameWire
    <2>2. \A d \in Conns, x \in Side : Sorted(chan'[d].out[x], x, chan'[d].socket)
      <3>1. CASE answer = "silent"
        BY <1>0, <1>3, <3>1 DEF Lists, SameConns, SameOut
      <3>2. CASE answer = "waiting"
        <4>1. OutIs(chan, chan', c, side, Append(q, m)) /\ chan'[c].socket = s
          BY <1>3, <1>4, <3>2 DEF SameConns, Mine
        <4> QED  BY <1>0, <1>3, <1>15, <4>1 DEF Lists, SameConns, OutIs
      <3> QED  BY <3>1, <3>2
    <2>3. \A d \in Conns : ~chan'[d].made =>
             ~chan'[d].cut /\ \A x \in Side : chan'[d].wire[x] = <<>> /\ chan'[d].out[x] = <<>>
      BY <1>0, <1>3 DEF Lists, SameConns, SameWire, OutIs, SameOut, Mine
    <2> QED  BY <1>0, <2>1, <2>2, <2>3 DEF Lists
  <1>17. Arrived'
    BY <1>0, <1>7, ArrivedShrinks DEF LaneInv
  <1>18. FrontSame
    <2>1. HeadKept(q, q \o <<m>>) /\ \A r \in Seq(Item) : HeadKept(r, r)
      BY <1>1, <1>4, WriteKeepsHead
    <2>2. \A d \in Conns : HeadKept(chan[d].out["connector"], chan'[d].out["connector"])
      BY <1>0, <1>2, <1>3, <2>1, ItemTypes DEF OutIs, SameOut, Side
    <2> QED  BY <1>3, <2>2 DEF FrontSame, SameConns, SameWire, Side
  <1>19. Front'
    BY <1>0, <1>6, <1>18, FrontStays
  <1> QED  BY <1>13, <1>16, <1>17, <1>19 DEF LaneInv, AllLanes

\* The other queues stay as they are.
OtherQueues(side, s) == \A x \in Side, t \in Sockets : ~(x = side /\ t = s) => Queue(x, t)' = Queue(x, t)

(* sendMessage queues the message, or fails at once.                       *)
LEMMA SendUnlinkedLanes ==
    ASSUME BooksInv, LaneInv, NEW side \in Side, NEW s \in Sockets, NEW n \in Nat, n = Sent(side, s) + 1,
           chan' = chan, got' = got, \A x \in Ends : Buffer(x)' = Buffer(x), OtherQueues(side, s),
           binder'.conns = binder.conns, binder'.open = binder.open, \A t \in Sockets : sock'[t].conn = sock[t].conn,
           \/ Queue(side, s)' = Append(Queue(side, s), Msg(DirOf(side), s, n)) /\ sends' = [sends EXCEPT ![DirOf(side)][s] = Append(@, "waiting")]
           \/ Queue(side, s)' = Queue(side, s) /\ sends' = [sends EXCEPT ![DirOf(side)][s] = Append(@, "failed")]
    PROVE  LaneInv'
  <1>0. Types /\ Lists /\ Front /\ Lane(side, s) /\ Numbers(side, s) /\ "waiting" \in Answers /\ "failed" \in Answers
    BY DEF BooksInv, LaneInv, AllLanes, Lane, Answers
  <1>1. PICK m \in Numbered : m = Msg(DirOf(side), s, n) /\ m \in Item /\ NumOf(m) = {n} /\ Fits(m, side, s)
    BY NextMessage
  <1>2. PICK q \in Seq(Item) : q = Queue(side, s)
    BY <1>0, ItemTypes, QueueWritable DEF Queue
  <1>3. Sorted(q, side, s)
    BY <1>0, <1>2 DEF Lists, Queue, Side
  <1>4. Below(Nums(q), {n})
    <2>1. Nums(q) \subseteq 1 .. Sent(side, s) /\ Sent(side, s) \in Nat
      BY <1>0, <1>2 DEF Numbers, Queued
    <2> QED  BY <2>1 DEF Below
  <1>5. Nums(Append(q, m)) = Nums(q) \cup {n} /\ Sorted(Append(q, m), side, s)
    BY <1>1, <1>3, <1>4, NumsAppend
  <1>6. NoneRead /\ NoneIdentified
    BY DEF NoneRead, NoneIdentified, SameMade, Readable, Held
  <1>7. SeenLess /\ \A x \in Side, t \in Sockets : Seen(x, t)' = Seen(x, t)
    BY SeenSame
  <1>8. /\ \A x \in Side, t \in Sockets : NoNewReads(x, t)
        /\ \A d \in Conns, x \in Side, t \in Sockets : OnWire(d, x, t)' = OnWire(d, x, t) /\ InOut(d, x, t)' = InOut(d, x, t)
    BY <1>6, LaneReads DEF OnWire, InOut, Mine
  <1>9. SendsOne(side, s)
    <2>1. CASE Queue(side, s)' = Append(q, m) /\ sends' = [sends EXCEPT ![DirOf(side)][s] = Append(@, "waiting")]
      <3>1. Sent(side, s)' = n /\ Failed(side, s)' \subseteq Failed(side, s)
        BY <1>0, <2>1, Tells
      <3>2. Queues(side, s)
        BY <1>2, <1>5, <1>8, <2>1, <3>1 DEF Queues, Queued
      <3> QED  BY <1>7, <1>8, <3>1, <3>2 DEF SendsOne
    <2>2. CASE Queue(side, s)' = Queue(side, s) /\ sends' = [sends EXCEPT ![DirOf(side)][s] = Append(@, "failed")]
      <3>1. Sent(side, s)' = n /\ Failed(side, s)' \subseteq Failed(side, s) \cup {n}
        BY <1>0, <2>2, Tells
      <3>2. Drops(side, s)
        BY <1>8, <2>2, <3>1 DEF Drops, Queued
      <3> QED  BY <1>7, <1>8, <3>1, <3>2 DEF SendsOne
    <2> QED  BY <1>1, <1>2, <2>1, <2>2
  <1>10. ASSUME NEW x \in Side, NEW t \in Sockets
         PROVE  Lane(x, t)'
    <2>1. CASE x = side /\ t = s
      BY <1>0, <1>9, <2>1, LaneSends
    <2>2. CASE ~(x = side /\ t = s)
      <3>1. Sent(x, t)' = Sent(x, t) /\ Failed(x, t)' \subseteq Failed(x, t)
        BY <1>0, <2>2, Tells
      <3>2. Queued(x, t)' = Queued(x, t)
        BY <2>2 DEF Queued, OtherQueues
      <3> QED  BY <1>7, <1>8, <3>1, <3>2, LaneUntouched DEF LaneInv, AllLanes
    <2> QED  BY <2>1, <2>2
  <1>11. Lists'
    <2>1. \A x \in Side, t \in Sockets : Sorted(Queue(x, t)', x, t)
      <3>1. \A x \in Side, t \in Sockets : Sorted(Queue(x, t), x, t)
        BY <1>0 DEF Lists, Queue, Side
      <3> QED  BY <1>1, <1>2, <1>5, <3>1 DEF OtherQueues
    <2>2. \A t \in Sockets : Sorted(sock'[t].queue, "connector", t) /\ Sorted(binder'.pending[t], "binder", t)
      BY <2>1 DEF Queue, Side
    <2> QED  BY <1>0, <2>2 DEF Lists
  <1>12. Arrived'
    BY <1>0, <1>7, ArrivedShrinks DEF LaneInv
  <1>13. FrontSame
    BY DEF FrontSame, HeadKept
  <1>14. Front'
    BY <1>0, <1>6, <1>13, FrontStays
  <1> QED  BY <1>10, <1>11, <1>12, <1>14 DEF LaneInv, AllLanes

(* sendMessage of a connector.                                             *)
LEMMA SendMessageLanes ==
    ASSUME BooksInv, LaneInv, NEW s \in Sockets, SendMessage(s)
    PROVE  LaneInv'
  <1>0. /\ Types /\ Connections /\ Latest /\ sock \in [Sockets -> SockType] /\ binder' = binder /\ got' = got
        /\ "connector" \in Side /\ DirOf("connector") = "up" /\ Queue("connector", s) = sock[s].queue
    BY DEF BooksInv, LaneInv, Front, SendMessage, Types, Side, DirOf, Queue
  <1>1. PICK n \in Nat : n = Sent("connector", s) + 1 /\ n = Len(sends["up"][s]) + 1
    BY <1>0 DEF LaneInv, AllLanes, Lane, Numbers, Sent
  <1>2. CASE Linked(s) /\ SendLinked(sock[s].conn, "connector", Msg("up", s, n)) /\ sock' = sock
    <2>1. PICK c \in Conns : c = sock[s].conn /\ chan[c].made /\ chan[c].socket = s /\ sock[s].queue = <<>>
      BY <1>0, <1>2 DEF Connections, Made, Remote
    <2>2. SendLinked(c, "connector", Msg("up", s, n))
      BY <1>2, <2>1
    <2>3. Mine(c, s) /\ \A d \in Conns : Mine(d, s) => d <= c
      BY <1>0, <1>2, <2>1 DEF Mine, Latest, Connections
    <2> QED  BY <1>0, <1>1, <1>2, <2>1, <2>2, <2>3, SendLinkedLanes
  <1>3. CASE /\ sock' = [sock EXCEPT ![s].queue = Append(@, Msg("up", s, n))]
             /\ sends' = [sends EXCEPT !["up"][s] = Append(@, "waiting")] /\ chan' = chan
    <2>1. /\ sock'[s].queue = Append(sock[s].queue, Msg("up", s, n)) /\ \A t \in Sockets \ {s} : sock'[t] = sock[t]
          /\ \A t \in Sockets : sock'[t].conn = sock[t].conn /\ sock'[t].inbox = sock[t].inbox
      BY <1>0, <1>3 DEF SockType
    <2>2. \A x \in Ends : Buffer(x)' = Buffer(x)
      BY <1>0, <2>1 DEF Buffer, Ends
    <2>3. OtherQueues("connector", s) /\ Queue("connector", s)' = Append(Queue("connector", s), Msg("up", s, n))
      BY <1>0, <2>1 DEF OtherQueues, Queue
    <2> QED  BY <1>0, <1>1, <1>3, <2>1, <2>2, <2>3, SendUnlinkedLanes
  <1>4. CASE sends' = [sends EXCEPT !["up"][s] = Append(@, "failed")] /\ sock' = sock /\ chan' = chan
    <2>1. (\A x \in Ends : Buffer(x)' = Buffer(x)) /\ OtherQueues("connector", s) /\ Queue("connector", s)' = Queue("connector", s)
      BY <1>0, <1>4 DEF Buffer, OtherQueues, Queue
    <2> QED  BY <1>0, <1>1, <1>4, <2>1, SendUnlinkedLanes
  <1> QED  BY <1>1, <1>2, <1>3, <1>4 DEF SendMessage

(* sendMessage of the binder.                                              *)
LEMMA BinderSendLanes ==
    ASSUME BooksInv, LaneInv, NEW i \in Sockets, BinderSend(i)
    PROVE  LaneInv'
  <1>0. /\ Types /\ Connections /\ TablesAgree /\ binder \in BinderType /\ sock' = sock /\ got' = got
        /\ "binder" \in Side /\ DirOf("binder") = "down" /\ Queue("binder", i) = binder.pending[i]
    BY DEF BooksInv, LaneInv, BinderSend, Types, Side, DirOf, Queue
  <1>1. PICK n \in Nat : n = Sent("binder", i) + 1 /\ n = Len(sends["down"][i]) + 1
    BY <1>0 DEF LaneInv, AllLanes, Lane, Numbers, Sent
  <1>2. CASE binder.route[i] # 0 /\ SendLinked(binder.route[i], "binder", Msg("down", i, n)) /\ binder' = binder
    <2>1. PICK c \in Conns : c = binder.route[i] /\ binder.conns[c] = "established" /\ chan[c].socket = i /\ binder.pending[i] = <<>>
      BY <1>0, <1>2, TablesTo DEF Row
    <2>2. SendLinked(c, "binder", Msg("down", i, n))
      BY <1>2, <2>1
    <2>3. Mine(c, i)
      BY <1>0, <2>1 DEF Mine, Connections, Made
    <2> QED  BY <1>0, <1>1, <1>2, <2>1, <2>2, <2>3, SendLinkedLanes
  <1>3. CASE /\ binder' = [binder EXCEPT !.pending[i] = Append(@, Msg("down", i, n))]
             /\ sends' = [sends EXCEPT !["down"][i] = Append(@, "waiting")] /\ chan' = chan
    <2>1. /\ binder'.pending[i] = Append(binder.pending[i], Msg("down", i, n))
          /\ \A t \in Sockets \ {i} : binder'.pending[t] = binder.pending[t]
          /\ binder'.inbox = binder.inbox /\ binder'.conns = binder.conns /\ binder'.open = binder.open
      BY <1>0, <1>3 DEF BinderType
    <2>2. \A x \in Ends : Buffer(x)' = Buffer(x)
      BY <1>0, <2>1 DEF Buffer, Ends
    <2>3. OtherQueues("binder", i) /\ Queue("binder", i)' = Append(Queue("binder", i), Msg("down", i, n))
      BY <1>0, <2>1 DEF OtherQueues, Queue, Side
    <2> QED  BY <1>0, <1>1, <1>3, <2>1, <2>2, <2>3, SendUnlinkedLanes
  <1>4. CASE sends' = [sends EXCEPT !["down"][i] = Append(@, "failed")] /\ binder' = binder /\ chan' = chan
    <2>1. (\A x \in Ends : Buffer(x)' = Buffer(x)) /\ OtherQueues("binder", i) /\ Queue("binder", i)' = Queue("binder", i)
      BY <1>0, <1>4 DEF Buffer, OtherQueues, Queue
    <2> QED  BY <1>0, <1>1, <1>4, <2>1, SendUnlinkedLanes
  <1> QED  BY <1>1, <1>2, <1>3, <1>4 DEF BinderSend

(* A message is taken off the wire and received.                           *)
LEMMA ReceiveStep ==
    ASSUME BooksInv, LaneInv, NEW c \in Conns, NEW side \in Side, NEW s \in Sockets, NEW e \in Numbered, Mine(c, s),
           chan[c].wire[side] # <<>>, e = Head(chan[c].wire[side]), SameConns(chan, chan'), SameOut(chan, chan'),
           WireIs(chan, chan', c, side, Tail(chan[c].wire[side])), sends' = sends,
           Received(Reader(side, s))' = Append(Received(Reader(side, s)), e),
           \A y \in Ends \ {Reader(side, s)} : Received(y)' = Received(y),
           \A x \in Side, t \in Sockets : Queue(x, t)' = Queue(x, t), NoneRead, Reads(c, side, s),
           \A d \in Conns \ {c} : Reads(d, side, s)' => side = "connector" /\ c < d
    PROVE  AllLanes' /\ Lists' /\ Arrived'
  <1>0. Types /\ Lists /\ Arrived /\ e \in Item /\ e.kind = "msg" /\ e.n \in Nat
    BY Kinds DEF BooksInv, LaneInv, Item, Numbered
  <1>1. PICK w \in Seq(Item) : w = chan[c].wire[side]
    BY <1>0, ItemTypes
  <1>2. Sorted(w, side, s)
    BY <1>0, <1>1 DEF Lists, Mine
  <1>3. /\ Nums(w) = {e.n} \cup Nums(Tail(w)) /\ Sorted(Tail(w), side, s) /\ Tail(w) \in Seq(Item)
        /\ Fits(e, side, s) /\ Below({e.n}, Nums(Tail(w)))
    <2>1. NumOf(e) = {e.n} /\ e = Head(w) /\ w # <<>>
      BY <1>0, <1>1 DEF NumOf
    <2>2. Tail(w) \in Seq(Item) /\ Nums(w) = NumOf(Head(w)) \cup Nums(Tail(w))
      BY <2>1, NumsTail
    <2>3. Sorted(Tail(w), side, s) /\ Fits(Head(w), side, s) /\ Below(NumOf(Head(w)), Nums(Tail(w)))
      BY <1>2, <2>1, NumsTail
    <2> QED  BY <2>1, <2>2, <2>3
  <1>4. e.dir = DirOf(side) /\ e.of = s
    BY <1>0, <1>3 DEF Fits
  <1>5. PICK x \in Ends : x = Reader(side, s) /\ ForEnd(e, x)
    BY <1>4, NameAssumption DEF Reader, Ends, ForEnd, DirOf, Side
  <1>6. PICK r \in Seq(Numbered) : r = Received(x)
    BY <1>0, ReceivedType
  <1>7. /\ \A t : SeenIn(Append(r, e), t) = SeenIn(r, t) \cup (IF e.of = t THEN {e.n} ELSE {})
        /\ Heard(r, x) /\ ForEnd(e, x) /\ Below(SeenIn(r, e.of), {e.n}) => Heard(Append(r, e), x)
    BY HeardAppend
  <1>7a. Received(x)' = Append(r, e)
    <2>1. (x = "binder" /\ side = "connector") \/ (x = s /\ side # "connector")
      BY <1>5 DEF Reader
    <2> QED  BY <1>5, <1>6, <2>1 DEF Reader
  <1>8. Seen(side, s) = SeenIn(r, s) /\ Seen(side, s)' = Seen(side, s) \cup {e.n}
    <2>0. SeenIn(Append(r, e), s) = SeenIn(r, s) \cup {e.n}
      BY <1>4, <1>7
    <2>1. CASE side = "connector"
      <3>1. Received("binder") = r /\ Received("binder")' = Append(r, e)
        BY <1>5, <1>6, <1>7a, <2>1 DEF Reader
      <3> QED  BY <2>0, <2>1, <3>1 DEF Seen, Reader
    <2>2. CASE side # "connector"
      <3>1. Received(s) = r /\ Received(s)' = Append(r, e)
        BY <1>5, <1>6, <1>7a, <2>2 DEF Reader
      <3> QED  BY <2>0, <2>2, <3>1 DEF Seen, Reader
    <2> QED  BY <2>1, <2>2
  <1>9. ASSUME NEW y \in Side, NEW t \in Sockets, ~(y = side /\ t = s)
        PROVE  Seen(y, t)' = Seen(y, t)
    <2>1. CASE Reader(y, t) = x
      <3>1. t # s
        BY <1>5, <1>9, <2>1, NameAssumption DEF Reader, Side
      <3>2. SeenIn(Append(r, e), t) = SeenIn(r, t)
        BY <1>4, <1>7, <3>1
      <3>3. CASE y = "connector"
        <4>1. Received("binder") = r /\ Received("binder")' = Append(r, e)
          BY <1>6, <1>7a, <2>1, <3>3 DEF Reader
        <4> QED  BY <3>2, <3>3, <4>1 DEF Seen, Reader
      <3>4. CASE y # "connector"
        <4>1. Received(t) = r /\ Received(t)' = Append(r, e)
          BY <1>6, <1>7a, <2>1, <3>4 DEF Reader
        <4> QED  BY <3>2, <3>4, <4>1 DEF Seen, Reader
      <3> QED  BY <3>3, <3>4
    <2>2. CASE Reader(y, t) # x
      BY <1>5, <2>2 DEF Seen, Reader, Ends
    <2> QED  BY <2>1, <2>2
  <1>10. /\ \A y \in Side, t \in Sockets : NoNewReads(y, t) /\ Queued(y, t)' = Queued(y, t)
         /\ (\A d \in Conns, t \in Sockets : Mine(d, t)' = Mine(d, t)) /\ \A d \in Conns : Reads(d, side, s)' => Reads(d, side, s)
    BY LaneReads DEF Queued
  <1>11. \A y \in Side, t \in Sockets : Sent(y, t)' = Sent(y, t) /\ Failed(y, t)' \subseteq Failed(y, t)
    BY DEF Sent, Failed
  <1>12. \A d \in Conns, y \in Side, t \in Sockets : InOut(d, y, t)' = InOut(d, y, t)
    BY <1>10 DEF InOut, SameOut
  <1>13. \A t \in Sockets : Mine(c, t) => t = s
    BY DEF Mine
  <1>14. Receives(side, s, c, {e.n})
    <2>1. OnWire(c, side, s) = {e.n} \cup OnWire(c, side, s)' /\ Below({e.n}, OnWire(c, side, s)')
      BY <1>1, <1>3, <1>10 DEF OnWire, WireIs
    <2>2. \A d \in Conns \ {c} : OnWire(d, side, s)' = OnWire(d, side, s)
      BY <1>10 DEF OnWire, WireIs
    <2> QED  BY <1>8, <1>10, <1>11, <1>12, <2>1, <2>2 DEF Receives
  <1>15. Lane(side, s)' /\ Below(Seen(side, s), {e.n})
    BY <1>14, LaneReceives DEF LaneInv, AllLanes
  <1>16. ASSUME NEW y \in Side, NEW t \in Sockets, ~(y = side /\ t = s)
         PROVE  Lane(y, t)'
    <2>1. \A d \in Conns : OnWire(d, y, t)' = OnWire(d, y, t)
      BY <1>10, <1>13, <1>16 DEF OnWire, WireIs
    <2> QED  BY <1>9, <1>10, <1>11, <1>12, <1>16, <2>1, LaneUntouched DEF LaneInv, AllLanes
  <1>17. Lists'
    <2>1. \A d \in Conns, y \in Side :
             Sorted(chan'[d].wire[y], y, chan'[d].socket) /\ Sorted(chan'[d].out[y], y, chan'[d].socket)
      BY <1>0, <1>1, <1>3 DEF Lists, SameConns, SameOut, WireIs, Mine
    <2>2. \A d \in Conns : ~chan'[d].made =>
             ~chan'[d].cut /\ \A y \in Side : chan'[d].wire[y] = <<>> /\ chan'[d].out[y] = <<>>
      BY <1>0 DEF Lists, SameConns, SameOut, WireIs, Mine
    <2>3. \A t \in Sockets : Sorted(sock'[t].queue, "connector", t) /\ Sorted(binder'.pending[t], "binder", t)
      BY <1>0 DEF Lists, Queue, Side
    <2> QED  BY <2>1, <2>2, <2>3 DEF Lists
  <1>18. Arrived'
    <2>1. Heard(Append(r, e), x)
      BY <1>0, <1>4, <1>5, <1>6, <1>7, <1>8, <1>15 DEF Arrived
    <2>3. \A y \in Ends \ {x} : Received(y)' = Received(y)
      BY <1>5
    <2> QED  BY <1>0, <1>7a, <2>1, <2>3 DEF Arrived
  <1> QED  BY <1>15, <1>16, <1>17, <1>18 DEF AllLanes

(* onMessage of a connector.                                               *)
LEMMA OnMessageLanes ==
    ASSUME BooksInv, LaneInv, NEW s \in Sockets, OnRead(s), Head(chan[sock[s].conn].wire["binder"]).kind = "msg"
    PROVE  LaneInv'
  <1>0. /\ Types /\ Resets /\ Lists /\ Front /\ NoReceiverStranded /\ binder' = binder /\ sock \in [Sockets -> SockType]
        /\ "binder" \in Side /\ s \in Ends /\ s # "binder" /\ Reader("binder", s) = s
    BY NameAssumption DEF BooksInv, LaneInv, OnRead, Types, Side, Ends, Reader
  <1>1. PICK c \in Conns : c = sock[s].conn /\ chan[c].made /\ chan[c].socket = s /\ sock[s].conn # 0
    BY DEF BooksInv, Connections, Made, OnRead, Remote
  <1>2. TakesOff(c, "connector") /\ Other("connector") = "binder" /\ chan[c].wire["binder"] # <<>>
    BY <1>1, OnReadTypes DEF Other, OnRead
  <1>3. PICK e \in Numbered : e = Head(chan[c].wire["binder"])
    <2>1. Head(chan[c].wire["binder"]) \in Item
      BY <1>0, <1>2, ItemTypes, NumsTail
    <2> QED  BY <1>1, <2>1, Kinds
  <1>4. e.kind = "msg" /\ e \notin {Fin, Rst} /\ e # Hello
    BY Kinds
  <1>5. SameConns(chan, chan') /\ SameOut(chan, chan') /\ WireIs(chan, chan', c, "binder", Tail(chan[c].wire["binder"]))
    BY <1>2, <1>3, <1>4 DEF TakesOff
  <1>6. sends' = sends /\ sock' = [sock EXCEPT ![s] = Deliver(@, e)] /\ got' = [got EXCEPT ![s] = @ \o Handed(sock[s], e)]
    BY <1>1, <1>3, <1>4 DEF OnRead
  <1>7. PICK w \in BOOLEAN : w = sock[s].waits
    BY <1>0 DEF SockType
  <1>8. /\ sock'[s].conn = sock[s].conn /\ sock'[s].queue = sock[s].queue
        /\ sock'[s].inbox = (IF w THEN sock[s].inbox ELSE Append(sock[s].inbox, e))
        /\ \A t \in Sockets \ {s} : sock'[t] = sock[t]
    BY <1>0, <1>6, <1>7 DEF Deliver, SockType
  <1>9. Received(s)' = Append(Received(s), e) /\ \A y \in Ends \ {s} : Received(y)' = Received(y)
    <2>1. got' = [got EXCEPT ![s] = @ \o (IF w THEN <<e>> ELSE <<>>)]
      BY <1>6, <1>7 DEF Handed
    <2>2. w => Buffer(s) = <<>>
      BY <1>0, <1>7 DEF NoReceiverStranded, Buffer
    <2>3. Buffer(s)' = (IF w THEN Buffer(s) ELSE Append(Buffer(s), e)) /\ \A y \in Ends \ {s} : Buffer(y)' = Buffer(y)
      BY <1>0, <1>8 DEF Buffer, Ends
    <2> QED  BY <1>0, <2>1, <2>2, <2>3, SeenMore
  <1>10. NoneRead /\ NoneIdentified
    <2>1. \A d \in Conns : Readable(d)' => Readable(d)
      BY <1>0, <1>5 DEF Readable, Held, SameConns
    <2> QED  BY <1>0, <1>5, <1>8, <2>1 DEF NoneRead, NoneIdentified, SameConns, SameMade
  <1>11. \A x \in Side, t \in Sockets : Queue(x, t)' = Queue(x, t)
    BY <1>0, <1>8 DEF Queue
  <1>12. Mine(c, s) /\ Reads(c, "binder", s) /\ \A d \in Conns \ {c} : ~Reads(d, "binder", s)'
    BY <1>1, <1>8 DEF Mine, Reads
  <1>13. Received(Reader("binder", s))' = Append(Received(Reader("binder", s)), e)
    BY <1>9 DEF Reader
  <1>14. AllLanes' /\ Lists' /\ Arrived'
    BY <1>0, <1>2, <1>3, <1>5, <1>6, <1>9, <1>10, <1>11, <1>12, <1>13, ReceiveStep
  <1>15. FrontSame
    BY <1>5 DEF FrontSame, SameConns, SameOut, WireIs, HeadKept, Side
  <1>16. Front'
    BY <1>0, <1>10, <1>15, FrontStays
  <1> QED  BY <1>14, <1>16 DEF LaneInv

(* onMessage of the binder.                                                *)
LEMMA BinderMessageLanes ==
    ASSUME BooksInv, LaneInv, NEW c \in Conns, BinderOnRead(c), Head(chan[c].wire["connector"]).kind = "msg"
    PROVE  LaneInv'
  <1>0. /\ Types /\ Resets /\ Lists /\ Front /\ NoReceiverStranded /\ sock' = sock /\ binder \in BinderType /\ Held(c)
        /\ "connector" \in Side /\ "binder" \in Ends /\ chan[c].wire["connector"] # <<>>
    BY DEF BooksInv, LaneInv, BinderOnRead, Types, Side, Ends
  <1>1. PICK e \in Numbered : e = Head(chan[c].wire["connector"])
    <2>1. Head(chan[c].wire["connector"]) \in Item
      BY <1>0, ItemTypes, NumsTail
    <2> QED  BY <2>1, Kinds
  <1>2. e.kind = "msg" /\ e \notin {Fin, Rst} /\ e # Hello
    BY Kinds
  <1>3. TakesOff(c, "binder") /\ Other("binder") = "connector" /\ chan[c].made
    BY <1>1, <1>2, BinderOnReadTypes DEF Other, Made
  <1>4. PICK s \in Sockets : s = chan[c].socket /\ Reader("connector", s) = "binder"
    BY BinderOnReadTypes DEF Remote, Reader
  <1>5. SameConns(chan, chan') /\ SameOut(chan, chan') /\ WireIs(chan, chan', c, "connector", Tail(chan[c].wire["connector"]))
    BY <1>1, <1>2, <1>3 DEF TakesOff
  <1>6. sends' = sends /\ binder' = Deliver(binder, e) /\ got' = [got EXCEPT !["binder"] = @ \o Handed(binder, e)]
    BY <1>1, <1>2 DEF BinderOnRead
  <1>7. PICK w \in BOOLEAN : w = binder.waits
    BY <1>0 DEF BinderType
  <1>8. /\ binder'.conns = binder.conns /\ binder'.open = binder.open /\ binder'.pending = binder.pending
        /\ binder'.inbox = (IF w THEN binder.inbox ELSE Append(binder.inbox, e))
    BY <1>0, <1>6, <1>7 DEF Deliver, BinderType
  <1>9. Received("binder")' = Append(Received("binder"), e) /\ \A y \in Ends \ {"binder"} : Received(y)' = Received(y)
    <2>1. got' = [got EXCEPT !["binder"] = @ \o (IF w THEN <<e>> ELSE <<>>)]
      BY <1>6, <1>7 DEF Handed
    <2>2. w => Buffer("binder") = <<>>
      BY <1>0, <1>7 DEF NoReceiverStranded, Buffer
    <2>3. Buffer("binder")' = (IF w THEN Buffer("binder") ELSE Append(Buffer("binder"), e))
          /\ \A y \in Ends \ {"binder"} : Buffer(y)' = Buffer(y)
      BY <1>0, <1>8 DEF Buffer, Ends
    <2> QED  BY <1>0, <2>1, <2>2, <2>3, SeenMore
  <1>10. NoneRead /\ NoneIdentified
    <2>1. \A d \in Conns : Readable(d)' => Readable(d)
      BY <1>5, <1>8 DEF Readable, Held, SameConns
    <2> QED  BY <1>0, <1>5, <1>8, <2>1 DEF NoneRead, NoneIdentified, SameConns, SameMade
  <1>11. \A x \in Side, t \in Sockets : Queue(x, t)' = Queue(x, t)
    BY <1>0, <1>8 DEF Queue
  <1>12. Readable(c) /\ MarkedAt(c) /\ binder.conns[c] = "established"
    BY <1>0, <1>1, <1>2, <1>3, Kinds DEF Front, Marked, MarkedAt, Opening, Readable
  <1>13. Mine(c, s) /\ Reads(c, "connector", s)
    BY <1>3, <1>4, <1>12 DEF Mine, Reads
  <1>14. ASSUME NEW d \in Conns \ {c}, Reads(d, "connector", s)'
         PROVE  c < d
    <2>1. Readable(d) /\ Mine(d, s)
      BY <1>5, <1>10, <1>14 DEF Reads, NoneRead, Mine, SameConns
    <2>2. ~(d < c)
      BY <1>0, <1>3, <1>4, <1>12, <2>1 DEF Front, OldUnread, Mine
    <2> QED  BY <1>14, <2>2, BoundAssumption DEF Conns
  <1>15. Received(Reader("connector", s))' = Append(Received(Reader("connector", s)), e)
    BY <1>9 DEF Reader
  <1>16. AllLanes' /\ Lists' /\ Arrived'
    BY <1>0, <1>1, <1>4, <1>5, <1>6, <1>9, <1>10, <1>11, <1>13, <1>14, <1>15, ReceiveStep
  <1>17. ASSUME NEW d \in Conns, chan[d].made, Readable(d)'
         PROVE  MarkedAt(d)'
    <2>1. CASE d # c
      BY <1>0, <1>5, <1>10, <1>17, <2>1, MarkedStays DEF SameConns, SameOut, WireIs, HeadKept
    <2>2. CASE d = c
      <3>1. PICK q \in Seq(Item) : q = chan[c].wire["connector"]
        BY <1>0, ItemTypes
      <3>2. Elems(q) = {e} \cup Elems(Tail(q))
        BY <1>0, <1>1, <3>1, ElemsTail
      <3>3. chan'[c].wire["connector"] = Tail(q) /\ chan'[c].cut = chan[c].cut
        BY <1>0, <1>5, <3>1 DEF WireIs, SameConns
      <3> QED  BY <1>2, <1>8, <1>12, <2>2, <3>1, <3>2, <3>3 DEF MarkedAt
    <2> QED  BY <2>1, <2>2
  <1>18. Front'
    BY <1>0, <1>10, <1>17, FrontKept
  <1> QED  BY <1>16, <1>18 DEF LaneInv

(* The handshake and what was queued.                                      *)
LEMMA HelloThen ==
    ASSUME NEW q \in Seq(Item), NEW side, NEW s, Sorted(q, side, s)
    PROVE  LET r == <<>> \o (<<Hello>> \o q)
           IN  Nums(r) = Nums(q) /\ Sorted(r, side, s) /\ r # <<>> /\ Head(r) = Hello
  <1>0. Hello \in Item
    BY DEF Item
  <1>0a. <<Hello>> \in Seq(Item)
    BY <1>0
  <1>1. PICK h \in Seq(Item) : h = <<Hello>>
    BY <1>0a
  <1>2. PICK z \in Seq(Item) : z = <<>>
    BY EmptySeq
  <1>3. Nums(Append(z, Hello)) = Nums(z) /\ (Sorted(z, side, s) => Sorted(Append(z, Hello), side, s))
    BY NumsMark
  <1>4. Append(z, Hello) = h
    BY <1>1, <1>2
  <1>5. Nums(h) = {} /\ Sorted(h, side, s)
    BY <1>2, <1>3, <1>4, NumsBasic
  <1>6. PICK r \in Seq(Item) : r = h \o q
    BY ConcatProperties
  <1>7. <<>> \o r = r
    BY ConcatEmptySeq
  <1>8. Nums(r) = Nums(q) /\ Sorted(r, side, s)
    <2>1. Below(Nums(h), Nums(q))
      BY <1>5 DEF Below
    <2>2. /\ Nums(h \o q) = Nums(h) \cup Nums(q)
          /\ \A x, t : Sorted(h, x, t) /\ Sorted(q, x, t) /\ Below(Nums(h), Nums(q)) => Sorted(h \o q, x, t)
      BY NumsConcat
    <2>3. Nums(h \o q) = Nums(q) /\ Sorted(h \o q, side, s)
      BY <1>5, <2>1, <2>2
    <2> QED  BY <1>6, <2>3
  <1>9. HeadKept(h, r)
    BY <1>6, WriteKeepsHead
  <1>10. h # <<>> /\ Head(h) = Hello
    BY <1>1
  <1> QED  BY <1>1, <1>6, <1>7, <1>8, <1>9, <1>10 DEF HeadKept

(* onClientConnected.                                                      *)
LEMMA ConnectedLanes ==
    ASSUME BooksInv, LaneInv, NEW s \in Sockets, OnClientConnected(s)
    PROVE  LaneInv'
  <1>0. /\ Types /\ Connections /\ Lists /\ Front /\ binder' = binder /\ sends' = sends /\ got' = got /\ binder.open
        /\ sock \in [Sockets -> SockType] /\ "connector" \in Side /\ "binder" \in Side
    BY DEF BooksInv, LaneInv, OnClientConnected, Types, Side
  <1>1. PICK c \in Conns \ Made :
              /\ \A e \in Conns \ Made : c <= e
              /\ chan' \in Chans /\ SameWire(chan, chan')
              /\ \A d \in Conns : chan'[d].made = (IF d = c THEN TRUE ELSE chan[d].made)
                                  /\ chan'[d].socket = (IF d = c THEN s ELSE chan[d].socket)
                                  /\ chan'[d].cut = chan[d].cut
              /\ OutIs(chan, chan', c, "connector", chan[c].out["connector"] \o (<<Hello>> \o sock[s].queue))
              /\ sock' = [sock EXCEPT ![s] = LinkedBy(s, c)]
    BY <1>0, OnClientConnectedEffect
  <1>2. ~chan[c].made /\ ~chan[c].cut /\ \A x \in Side : chan[c].wire[x] = <<>> /\ chan[c].out[x] = <<>>
    BY <1>0, <1>1 DEF Made, Lists
  <1>3. /\ sock'[s].conn = c /\ sock'[s].queue = <<>> /\ sock'[s].inbox = sock[s].inbox
        /\ \A t \in Sockets \ {s} : sock'[t] = sock[t]
    BY <1>0, <1>1 DEF LinkedBy, SockType
  <1>4. PICK q \in Seq(Item) : q = sock[s].queue
    BY <1>0, ItemTypes, QueueWritable
  <1>5. PICK r : r = <<>> \o (<<Hello>> \o q)
    OBVIOUS
  <1>6. Nums(r) = Nums(q) /\ Sorted(r, "connector", s) /\ r # <<>> /\ Head(r) = Hello
    BY <1>0, <1>4, <1>5, HelloThen DEF Lists
  <1>7. OutIs(chan, chan', c, "connector", r)
    BY <1>0, <1>1, <1>2, <1>4, <1>5
  <1>8. \A d \in Conns : chan[d].made => d < c
    <2> SUFFICES ASSUME NEW d \in Conns, chan[d].made, ~(d < c)
                 PROVE  FALSE
      OBVIOUS
    <2>1. c \in 1 .. d
      BY BoundAssumption DEF Conns
    <2>2. d \in Made
      BY DEF Made
    <2> QED  BY <1>0, <1>1, <2>1, <2>2 DEF Connections
  <1>9. \A d \in Conns : c < d => ~chan[d].made
    BY <1>8, BoundAssumption DEF Conns
  <1>10. binder.conns[c] = "new" /\ sock[s].conn = 0 /\ 0 \notin Conns
    <2>1. binder.conns[c] = "new"
      BY <1>0, <1>1 DEF Connections
    <2>2. ~Linked(s)
      BY DEF OnClientConnected, Linked
    <2>3. sock[s].conn # 0 <=> Linked(s)
      BY <1>0 DEF Connections
    <2>4. 0 \notin Conns
      BY BoundAssumption DEF Conns
    <2> QED  BY <2>1, <2>2, <2>3, <2>4
  <1>11. /\ \A t \in Sockets : ~Mine(c, t) /\ (Mine(c, t)' <=> t = s)
         /\ \A d \in Conns \ {c}, t \in Sockets : Mine(d, t)' = Mine(d, t)
    BY <1>1, <1>2 DEF Mine
  <1>12. \A d \in Conns \ {c} : Readable(d)' = Readable(d)
    BY <1>0, <1>1 DEF Readable, Held
  <1>13. SeenLess /\ \A x \in Side, t \in Sockets : Seen(x, t)' = Seen(x, t)
    <2>1. \A x \in Ends : Buffer(x)' = Buffer(x)
      BY <1>0, <1>3 DEF Buffer, Ends
    <2> QED  BY <1>0, <2>1, SeenSame
  <1>14. \A x \in Side, t \in Sockets : Sent(x, t)' = Sent(x, t) /\ Failed(x, t)' \subseteq Failed(x, t)
    BY <1>0 DEF Sent, Failed
  <1>15. \A x \in Side, t \in Sockets : Line(c, x, t) = {}
    BY <1>11 DEF Line, OnWire, InOut
  <1>16. ASSUME NEW x \in Side, NEW t \in Sockets
         PROVE  NoNewReads(x, t)
    <2> SUFFICES ASSUME NEW d \in Conns, Reads(d, x, t)', d # c
                 PROVE  Reads(d, x, t)
      BY <1>15 DEF NoNewReads
    <2>1. Mine(d, t)
      BY <1>11 DEF Reads
    <2>2. CASE x = "connector"
      BY <1>12, <2>1, <2>2 DEF Reads
    <2>3. CASE x # "connector"
      <3>1. t # s
        BY <1>3, <2>3 DEF Reads
      <3> QED  BY <1>3, <2>1, <2>3, <3>1 DEF Reads
    <2> QED  BY <2>2, <2>3
  <1>17. \A d \in Conns, x \in Side, t \in Sockets : OnWire(d, x, t)' = OnWire(d, x, t)
    <2> SUFFICES ASSUME NEW d \in Conns, NEW x \in Side, NEW t \in Sockets
                 PROVE  OnWire(d, x, t)' = OnWire(d, x, t)
      OBVIOUS
    <2>1. chan'[d].wire[x] = chan[d].wire[x]
      BY <1>1 DEF SameWire
    <2>2. CASE d # c
      BY <1>11, <2>1, <2>2 DEF OnWire
    <2>3. CASE d = c
      <3>1. Nums(chan[c].wire[x]) = {} /\ Nums(chan'[c].wire[x]) = {}
        BY <1>2, <2>1, <2>3, NumsBasic
      <3> QED  BY <2>3, <3>1 DEF OnWire
    <2> QED  BY <2>2, <2>3
  <1>18. \A d \in Conns, x \in Side, t \in Sockets : ~(d = c /\ x = "connector" /\ t = s) => InOut(d, x, t)' = InOut(d, x, t)
    BY <1>2, <1>7, <1>11, NumsBasic DEF InOut, OutIs
  <1>19. ASSUME NEW x \in Side, NEW t \in Sockets
         PROVE  Lane(x, t)'
    <2>1. CASE x = "connector" /\ t = s
      <3>1. Queued("connector", s) = Nums(q) /\ Queued("connector", s)' = {}
        BY <1>3, <1>4, NumsBasic DEF Queued, Queue
      <3>2. InOut(c, "connector", s)' = InOut(c, "connector", s) \cup Queued("connector", s)
        BY <1>0, <1>6, <1>7, <1>11, <3>1 DEF InOut, OutIs
      <3>3. \A d \in Conns : c < d => Line(d, "connector", s) = {}
        BY <1>9 DEF Line, OnWire, InOut, Mine
      <3>4. Drains("connector", s, c)
        BY <1>0, <1>13, <1>14, <1>16, <1>17, <1>18, <3>1, <3>2, <3>3 DEF Drains
      <3> QED  BY <1>0, <2>1, <3>4, LaneDrains DEF LaneInv, AllLanes
    <2>2. CASE ~(x = "connector" /\ t = s)
      <3>1. Queued(x, t)' = Queued(x, t)
        BY <1>0, <1>3, <2>2 DEF Queued, Queue
      <3>2. \A d \in Conns : InOut(d, x, t)' = InOut(d, x, t)
        BY <1>18, <2>2
      <3> QED  BY <1>13, <1>14, <1>16, <1>17, <3>1, <3>2, LaneUntouched DEF LaneInv, AllLanes
    <2> QED  BY <2>1, <2>2
  <1>20a. \A d \in Conns \ {c} :
             /\ chan'[d].made = chan[d].made /\ chan'[d].socket = chan[d].socket /\ chan'[d].cut = chan[d].cut
             /\ \A x \in Side : chan'[d].wire[x] = chan[d].wire[x] /\ chan'[d].out[x] = chan[d].out[x]
    BY <1>1, <1>7 DEF SameWire, OutIs
  <1>20b. /\ chan'[c].made /\ chan'[c].socket = s /\ chan'[c].out["connector"] = r /\ chan'[c].out["binder"] = <<>>
          /\ \A x \in Side : chan'[c].wire[x] = <<>>
    BY <1>0, <1>1, <1>2, <1>7 DEF SameWire, OutIs
  <1>20. Lists'
    <2>1. ASSUME NEW d \in Conns, NEW x \in Side
          PROVE  Sorted(chan'[d].wire[x], x, chan'[d].socket) /\ Sorted(chan'[d].out[x], x, chan'[d].socket)
      <3>1. CASE d # c
        BY <1>0, <1>20a, <3>1 DEF Lists
      <3>2. CASE d = c
        <4>1. Sorted(chan'[c].wire[x], x, s)
          BY <1>20b, NumsBasic
        <4>2. CASE x = "connector"
          BY <1>6, <1>20b, <3>2, <4>1, <4>2
        <4>3. CASE x = "binder"
          BY <1>20b, <3>2, <4>1, <4>3, NumsBasic
        <4> QED  BY <4>2, <4>3 DEF Side
      <3> QED  BY <3>1, <3>2
    <2>2. \A d \in Conns : ~chan'[d].made =>
             ~chan'[d].cut /\ \A x \in Side : chan'[d].wire[x] = <<>> /\ chan'[d].out[x] = <<>>
      BY <1>0, <1>20a, <1>20b DEF Lists
    <2>3. \A t \in Sockets : Sorted(sock'[t].queue, "connector", t) /\ Sorted(binder'.pending[t], "binder", t)
      BY <1>0, <1>3, NumsBasic DEF Lists
    <2> QED  BY <2>1, <2>2, <2>3 DEF Lists
  <1>21. Arrived'
    BY <1>0, <1>13, ArrivedShrinks DEF LaneInv
  <1>22. Marked'
    <2> SUFFICES ASSUME NEW d \in Conns, chan'[d].made, Readable(d)'
                 PROVE  MarkedAt(d)'
      BY DEF Marked
    <2>1. CASE d = c
      <3>1. chan'[c].wire["connector"] = <<>> /\ chan'[c].out["connector"] = r /\ ~chan'[c].cut
        BY <1>0, <1>1, <1>2, <1>7 DEF SameWire, OutIs
      <3> QED  BY <1>6, <2>1, <3>1 DEF MarkedAt, Opening
    <2>2. CASE d # c
      <3>1. MarkedAt(d)
        BY <1>0, <1>1, <1>12, <2>2 DEF Front, Marked
      <3>2. chan'[d].wire["connector"] = chan[d].wire["connector"] /\ chan'[d].out["connector"] = chan[d].out["connector"]
            /\ chan'[d].cut = chan[d].cut
        BY <1>0, <1>1, <1>7, <2>2 DEF SameWire, OutIs
      <3> QED  BY <1>0, <3>1, <3>2 DEF MarkedAt, Opening
    <2> QED  BY <2>1, <2>2
  <1>23. OldUnread'
    <2> SUFFICES ASSUME NEW a \in Conns, NEW b \in Conns, a < b, chan'[a].made, chan'[b].made,
                        chan'[a].socket = chan'[b].socket, binder'.conns[b] = "established"
                 PROVE  ~Readable(a)'
      BY DEF OldUnread
    <2>1. b # c
      BY <1>0, <1>10
    <2>2. a # c
      BY <1>1, <1>9, <2>1
    <2> QED  BY <1>0, <1>1, <1>12, <2>1, <2>2 DEF Front, OldUnread
  <1>24. Latest'
    <2> SUFFICES ASSUME NEW t \in Sockets, NEW d \in Conns, sock'[t].conn # 0, Mine(d, t)'
                 PROVE  d <= sock'[t].conn
      BY DEF Latest
    <2>1. CASE t = s
      <3>1. d = c \/ chan[d].made
        BY <1>1 DEF Mine
      <3> QED  BY <1>3, <1>8, <2>1, <3>1, BoundAssumption DEF Conns
    <2>2. CASE t # s
      BY <1>0, <1>3, <1>11, <2>2 DEF Front, Latest
    <2> QED  BY <2>1, <2>2
  <1> QED  BY <1>19, <1>20, <1>21, <1>22, <1>23, <1>24 DEF LaneInv, AllLanes, Front

(* onRemoteIdentity.                                                       *)
LEMMA IdentifyLanes ==
    ASSUME BooksInv, LaneInv, NEW c \in Conns, BinderOnRead(c), Head(chan[c].wire["connector"]) = Hello
    PROVE  LaneInv'
  <1>0. /\ Types /\ Connections /\ TablesAgree /\ Lists /\ Front /\ AllLanes /\ Arrived /\ sock' = sock
        /\ binder \in BinderType /\ Held(c) /\ "connector" \in Side /\ "binder" \in Side /\ chan[c].wire["connector"] # <<>>
    BY DEF BooksInv, LaneInv, BinderOnRead, Types, Side
  <1>1. FirstCome(c) /\ sends' = sends /\ got' = got /\ binder' = Identify(binder, c)
        /\ LET old == binder.route[Remote(c)]
               read == [chan EXCEPT ![c].wire["connector"] = Tail(@)]
           IN  chan' = Write(IF old = 0 THEN read ELSE ShutdownClient(read, old, "binder"),
                             c, "binder", binder.pending[Remote(c)])
    BY Kinds DEF BinderOnRead
  <1>2. chan[c].made /\ Remote(c) \in Sockets
    BY BinderOnReadTypes DEF Made
  <1>3. PICK i \in Sockets : i = Remote(c)
    BY <1>2
  <1>4. PICK old \in Conns \cup {0} : old = binder.route[i]
    BY <1>0 DEF BinderType
  <1>5. PICK q \in Seq(Numbered) : q = binder.pending[i]
    BY <1>0, ItemTypes
  <1>6. LET read == [chan EXCEPT ![c].wire["connector"] = Tail(@)]
        IN  chan' = Write(IF old = 0 THEN read ELSE ShutdownClient(read, old, "binder"), c, "binder", q)
    BY <1>1, <1>3, <1>4, <1>5
  <1>7. /\ chan' \in Chans /\ SameConns(chan, chan') /\ WireIs(chan, chan', c, "connector", Tail(chan[c].wire["connector"]))
        /\ \A d \in Conns : chan'[d].out["connector"] = chan[d].out["connector"]
        /\ \A d \in Conns \ {c} : chan'[d].out["binder"] =
              IF d = old THEN Append(chan[d].out["binder"], Fin) ELSE chan[d].out["binder"]
        /\ chan'[c].out["binder"] =
              (IF c = old THEN Append(chan[c].out["binder"], Fin) ELSE chan[c].out["binder"]) \o q
    BY <1>0, <1>6, IdentifyWrites
  <1>8. /\ binder' \in BinderType /\ SameBut(binder, binder') /\ binder'.insertions = binder.insertions
        /\ \A d \in Conns : binder'.conns[d] = IF d = c THEN "established" ELSE IF d = binder.route[i] THEN "erased" ELSE binder.conns[d]
        /\ binder'.route = [binder.route EXCEPT ![i] = c] /\ binder'.goneAt = [binder.goneAt EXCEPT ![i] = Never]
        /\ binder'.pending = [binder.pending EXCEPT ![i] = <<>>]
    <2>1. binder \in BinderType /\ binder' = Identify(binder, c)
      BY <1>0, <1>1
    <2> QED  BY <1>3, <2>1, IdentifyEffect
  <1>9. /\ \A d \in Conns : binder'.conns[d] = IF d = c THEN "established" ELSE IF d = old THEN "erased" ELSE binder.conns[d]
        /\ binder'.open = binder.open /\ binder'.inbox = binder.inbox /\ binder'.pending[i] = <<>>
        /\ \A t \in Sockets \ {i} : binder'.pending[t] = binder.pending[t]
    BY <1>0, <1>4, <1>8 DEF SameBut, BinderType
  <1>10. \A d \in Conns : chan'[d].made = chan[d].made /\ chan'[d].socket = chan[d].socket /\ chan'[d].cut = chan[d].cut
    BY <1>7 DEF SameConns
  <1>11. chan[c].socket = i /\ Readable(c) /\ MarkedAt(c)
    BY <1>0, <1>2, <1>3 DEF Remote, Readable, Front, Marked
  <1>12. \A d \in Conns, t \in Sockets : Mine(d, t)' = Mine(d, t)
    BY <1>10 DEF Mine
  <1>13. \A d \in Conns : Readable(d)' => Readable(d) /\ (d # c => binder'.conns[d] = binder.conns[d])
    BY <1>9, <1>10, <1>11 DEF Readable, Held
  <1>14. NoneRead
    BY <1>0, <1>10, <1>13 DEF NoneRead, SameMade
  <1>15. SeenLess /\ \A x \in Side, t \in Sockets : Seen(x, t)' = Seen(x, t)
    <2>1. \A x \in Ends : Buffer(x)' = Buffer(x)
      BY <1>0, <1>9 DEF Buffer, Ends
    <2> QED  BY <1>1, <2>1, SeenSame
  <1>16. \A x \in Side, t \in Sockets : Sent(x, t)' = Sent(x, t) /\ Failed(x, t)' \subseteq Failed(x, t)
    BY <1>0, <1>1, NoneFails
  <1>17. PICK w \in Seq(Item) : w = chan[c].wire["connector"]
    BY <1>0, ItemTypes
  <1>18. /\ Head(w) = Hello /\ w # <<>> /\ Tail(w) \in Seq(Item) /\ Nums(Tail(w)) = Nums(w)
         /\ \A x, t : Sorted(w, x, t) => Sorted(Tail(w), x, t)
    <2>1. w # <<>> /\ Head(w) = Hello
      BY <1>0, <1>17
    <2>2. /\ Head(w) \in Item /\ Tail(w) \in Seq(Item)
          /\ Nums(w) = NumOf(Head(w)) \cup Nums(Tail(w))
          /\ \A side, s : Sorted(w, side, s) =>
                /\ Sorted(Tail(w), side, s) /\ Fits(Head(w), side, s)
                /\ Below(NumOf(Head(w)), Nums(Tail(w)))
      BY <2>1, NumsTail
    <2>3. NumOf(Hello) = {}
      BY NumsBasic
    <2> QED  BY <2>1, <2>2, <2>3
  <1>19. chan'[c].wire["connector"] = Tail(w) /\ chan'[c].wire["binder"] = chan[c].wire["binder"]
         /\ \A d \in Conns \ {c}, x \in Side : chan'[d].wire[x] = chan[d].wire[x]
    BY <1>0, <1>7, <1>17 DEF WireIs
  <1>20. \A d \in Conns, x \in Side : Nums(chan'[d].wire[x]) = Nums(chan[d].wire[x])
    BY <1>17, <1>18, <1>19 DEF Side
  <1>21. q \in Seq(Item) /\ Sorted(q, "binder", i)
    BY <1>0, <1>5, QueueWritable DEF Lists
  <1>22. PICK o \in Seq(Item) : o = IF c = old THEN Append(chan[c].out["binder"], Fin) ELSE chan[c].out["binder"]
    BY <1>0, ItemTypes, NumsMark
  <1>23. Nums(o) = Nums(chan[c].out["binder"]) /\ Sorted(o, "binder", i)
    <2>1. chan[c].out["binder"] \in Seq(Item) /\ Sorted(chan[c].out["binder"], "binder", i)
      BY <1>0, <1>11, ItemTypes DEF Lists
    <2> QED  BY <1>22, <2>1, NumsMark
  <1>24. chan'[c].out["binder"] = o \o q
    BY <1>7, <1>22
  <1>25. /\ Nums(o \o q) = Nums(o) \cup Nums(q)
         /\ \A x, t : Sorted(o, x, t) /\ Sorted(q, x, t) /\ Below(Nums(o), Nums(q)) => Sorted(o \o q, x, t)
    BY <1>21, NumsConcat
  <1>26. Mine(c, i) /\ Queued("binder", i) = Nums(q) /\ Queued("binder", i)' = {}
    BY <1>2, <1>5, <1>9, <1>11, NumsBasic DEF Mine, Queued, Queue
  <1>27. InOut(c, "binder", i) = Nums(o) /\ InOut(c, "binder", i)' = Nums(o) \cup Nums(q)
    BY <1>12, <1>23, <1>24, <1>25, <1>26 DEF InOut
  <1>28. Below(Nums(o), Nums(q))
    <2>1. Below(Line(c, "binder", i), Queued("binder", i))
      BY <1>0 DEF AllLanes, Lane, Ordered
    <2> QED  BY <1>26, <1>27, <2>1 DEF Line, Below
  <1>29. \A d \in Conns \ {c} : Nums(chan'[d].out["binder"]) = Nums(chan[d].out["binder"])
                                /\ \A t : Sorted(chan[d].out["binder"], "binder", t) => Sorted(chan'[d].out["binder"], "binder", t)
    BY <1>0, <1>7, ItemTypes, NumsMark
  <1>30. ASSUME NEW x \in Side, NEW t \in Sockets
         PROVE  Lane(x, t)'
    <2>1. NoNewReads(x, t) /\ Lane(x, t)
      BY <1>0, <1>14, LaneReads DEF AllLanes
    <2>2. \A d \in Conns : OnWire(d, x, t)' = OnWire(d, x, t)
      BY <1>12, <1>20 DEF OnWire
    <2>3. ASSUME NEW d \in Conns, ~(d = c /\ x = "binder" /\ t = i)
          PROVE  InOut(d, x, t)' = InOut(d, x, t)
      <3>1. CASE x = "connector"
        BY <1>7, <1>12, <3>1 DEF InOut
      <3>2. CASE x = "binder" /\ d # c
        BY <1>12, <1>29, <3>2 DEF InOut
      <3>3. CASE x = "binder" /\ d = c
        <4>1. ~Mine(d, t) /\ ~Mine(d, t)'
          BY <1>11, <1>12, <2>3, <3>3 DEF Mine
        <4> QED  BY <4>1 DEF InOut
      <3> QED  BY <3>1, <3>2, <3>3 DEF Side
    <2>4. CASE x = "binder" /\ t = i
      <3>1. InOut(c, x, t)' = InOut(c, x, t) \cup Queued(x, t)
        BY <1>26, <1>27, <2>4
      <3>2. Queued(x, t)' = {} /\ x # "connector"
        BY <1>26, <2>4
      <3>3. Drains(x, t, c)
        BY <1>15, <1>16, <2>1, <2>2, <2>3, <3>1, <3>2 DEF Drains
      <3> QED  BY <2>1, <3>3, LaneDrains
    <2>5. CASE ~(x = "binder" /\ t = i)
      <3>1. Queued(x, t)' = Queued(x, t)
        BY <1>0, <1>9, <2>5 DEF Queued, Queue, Side
      <3> QED  BY <1>15, <1>16, <2>1, <2>2, <2>3, <2>5, <3>1, LaneUntouched
    <2> QED  BY <2>4, <2>5
  <1>31. Lists'
    <2>1. ASSUME NEW d \in Conns
          PROVE  Sorted(chan'[d].wire["connector"], "connector", chan'[d].socket) /\ Sorted(chan'[d].wire["binder"], "binder", chan'[d].socket)
      <3>1. Sorted(chan[d].wire["connector"], "connector", chan[d].socket) /\ Sorted(chan[d].wire["binder"], "binder", chan[d].socket)
        BY <1>0 DEF Lists
      <3>2. CASE d = c
        BY <1>10, <1>17, <1>18, <1>19, <3>1, <3>2
      <3>3. CASE d # c
        BY <1>0, <1>10, <1>19, <3>1, <3>3
      <3> QED  BY <3>2, <3>3
    <2>2. ASSUME NEW d \in Conns
          PROVE  Sorted(chan'[d].out["connector"], "connector", chan'[d].socket) /\ Sorted(chan'[d].out["binder"], "binder", chan'[d].socket)
      <3>1. Sorted(chan[d].out["connector"], "connector", chan[d].socket) /\ Sorted(chan[d].out["binder"], "binder", chan[d].socket)
        BY <1>0 DEF Lists
      <3>2. Sorted(chan'[d].out["connector"], "connector", chan'[d].socket)
        BY <1>7, <1>10, <3>1
      <3>3. CASE d = c
        <4>1. Sorted(o \o q, "binder", i)
          BY <1>21, <1>23, <1>25, <1>28
        <4> QED  BY <1>10, <1>11, <1>24, <3>2, <3>3, <4>1
      <3>4. CASE d # c
        BY <1>10, <1>29, <3>1, <3>2, <3>4
      <3> QED  BY <3>3, <3>4
    <2>3. ASSUME NEW d \in Conns, ~chan'[d].made
          PROVE  ~chan'[d].cut /\ \A x \in Side : chan'[d].wire[x] = <<>> /\ chan'[d].out[x] = <<>>
      <3>1. ~chan[d].made /\ d # c
        BY <1>2, <1>10, <2>3
      <3>2. ~chan[d].cut /\ \A x \in Side : chan[d].wire[x] = <<>> /\ chan[d].out[x] = <<>>
        BY <1>0, <3>1 DEF Lists
      <3>3. d # old
        <4>1. old # 0 => binder.conns[old] = "established"
          BY <1>0, <1>4 DEF TablesAgree, Identified
        <4>2. binder.conns[d] = "new" /\ d # 0
          BY <1>0, <3>1, BoundAssumption DEF Connections, Made, Conns
        <4> QED  BY <4>1, <4>2
      <3>4. chan'[d].out["connector"] = <<>> /\ chan'[d].out["binder"] = <<>>
        BY <1>0, <1>7, <3>1, <3>2, <3>3
      <3> QED  BY <1>10, <1>19, <3>1, <3>2, <3>4 DEF Side
    <2>4. \A t \in Sockets : Sorted(sock'[t].queue, "connector", t) /\ Sorted(binder'.pending[t], "binder", t)
      BY <1>0, <1>9, NumsBasic DEF Lists
    <2>5. \A d \in Conns, x \in Side : Sorted(chan'[d].wire[x], x, chan'[d].socket) /\ Sorted(chan'[d].out[x], x, chan'[d].socket)
      BY <2>1, <2>2 DEF Side
    <2> QED  BY <2>3, <2>4, <2>5 DEF Lists
  <1>32. Arrived'
    BY <1>0, <1>15, ArrivedShrinks
  <1>33. Marked'
    <2> SUFFICES ASSUME NEW d \in Conns, chan'[d].made, Readable(d)'
                 PROVE  MarkedAt(d)'
      BY DEF Marked
    <2>1. CASE d = c
      <3>1. Elems(w) = {Hello} \cup Elems(Tail(w))
        BY <1>18, ElemsTail
      <3>2. chan[c].cut => Rst \in Elems(Tail(w))
        BY <1>11, <1>17, <3>1, Kinds DEF MarkedAt
      <3>3. binder'.conns[c] = "established"
        BY <1>9
      <3> QED  BY <1>10, <1>19, <2>1, <3>2, <3>3 DEF MarkedAt
    <2>2. CASE d # c
      <3>1. MarkedAt(d) /\ binder'.conns[d] = binder.conns[d]
        BY <1>0, <1>10, <1>13, <2>2 DEF Front, Marked
      <3>2. chan'[d].wire["connector"] = chan[d].wire["connector"] /\ chan'[d].out["connector"] = chan[d].out["connector"]
            /\ chan'[d].cut = chan[d].cut
        BY <1>0, <1>7, <1>10, <1>19, <2>2
      <3> QED  BY <3>1, <3>2 DEF MarkedAt, Opening
    <2> QED  BY <2>1, <2>2
  <1>34. OldUnread'
    <2> SUFFICES ASSUME NEW a \in Conns, NEW b \in Conns, a < b, chan'[a].made, chan'[b].made,
                        chan'[a].socket = chan'[b].socket, binder'.conns[b] = "established", Readable(a)'
                 PROVE  FALSE
      BY DEF OldUnread
    <2>0. chan[a].made /\ chan[b].made /\ chan[a].socket = chan[b].socket /\ Readable(a)
      BY <1>10, <1>13
    <2>1. CASE b = c
      <3>1. a \in 1 .. c - 1 /\ a # c
        BY <2>1, BoundAssumption DEF Conns
      <3>2. binder.conns[a] # "new" /\ (binder.conns[a] = "connected" => chan[a].wire["connector"] = <<>>)
        BY <1>1, <3>1 DEF FirstCome
      <3>3. binder.conns[a] = "connected" \/ binder.conns[a] = "established"
        BY <2>0, <3>2 DEF Readable, Held
      <3>4. binder.conns[a] # "established"
        <4>1. ASSUME binder.conns[a] = "established"
              PROVE  FALSE
          <5>1. binder.route[i] = a
            BY <1>0, <1>11, <2>0, <2>1, <4>1 DEF TablesAgree, Identified, Remote
          <5>2. binder'.conns[a] = "erased"
            BY <1>4, <1>9, <3>1, <5>1
          <5> QED  BY <1>13, <3>1, <4>1, <5>2
        <4> QED  BY <4>1
      <3>5. chan[a].cut
        BY <1>0, <2>0, <2>1 DEF Connections, Made, Remote
      <3>6. Rst \in Elems(chan[a].wire["connector"])
        BY <1>0, <2>0, <3>5 DEF Front, Marked, MarkedAt
      <3> QED  BY <3>2, <3>3, <3>4, <3>6, ElemsBasic
    <2>2. CASE b # c
      <3>1. binder.conns[b] = "established"
        BY <1>9, <2>2
      <3> QED  BY <1>0, <2>0, <3>1 DEF Front, OldUnread
    <2> QED  BY <2>1, <2>2
  <1>35. Latest'
    BY <1>0, <1>12 DEF Front, Latest
  <1> QED  BY <1>30, <1>31, <1>32, <1>33, <1>34, <1>35 DEF LaneInv, AllLanes, Front

(* The initial state.                                                      *)
LEMMA InitLanes == Init => LaneInv
  <1> SUFFICES ASSUME Init PROVE LaneInv
    OBVIOUS
  <1>1. \A c \in Conns : /\ ~chan[c].made /\ ~chan[c].cut /\ binder.conns[c] = "new"
                         /\ \A side \in Side : chan[c].out[side] = <<>> /\ chan[c].wire[side] = <<>>
    BY DEF Init
  <1>2. \A s \in Sockets : sock[s].conn = 0 /\ sock[s].queue = <<>> /\ sock[s].inbox = <<>> /\ binder.pending[s] = <<>>
    BY DEF Init
  <1>3. binder.inbox = <<>> /\ \A x \in Ends : got[x] = <<>>
    BY DEF Init, Ends
  <1>4. \A d \in Dir, s \in Sockets : sends[d][s] = <<>>
    BY DEF Init
  <1>5. \A x \in Ends : Received(x) = <<>>
    <2> SUFFICES ASSUME NEW x \in Ends
                 PROVE  Received(x) = <<>>
      OBVIOUS
    <2>1. (IF x = "binder" THEN binder.inbox ELSE sock[x].inbox) = <<>>
      BY <1>2, <1>3 DEF Ends
    <2>2. <<>> \o <<>> = <<>>
      OBVIOUS
    <2> QED  BY <1>3, <2>1, <2>2 DEF Received
  <1>6. ASSUME NEW side \in Side, NEW s \in Sockets
        PROVE  Lane(side, s)
    <2>1. \A c \in Conns : OnWire(c, side, s) = {} /\ InOut(c, side, s) = {} /\ Line(c, side, s) = {}
      BY <1>1 DEF OnWire, InOut, Line, Mine
    <2>2. Queued(side, s) = {}
      BY <1>2, NumsBasic DEF Queued, Queue
    <2>3. Seen(side, s) = {}
      <3>1. Reader(side, s) \in Ends
        BY DEF Reader, Ends
      <3>2. Received(Reader(side, s)) = <<>>
        BY <1>5, <3>1
      <3> QED  BY <3>2, ElemsBasic DEF Seen, SeenIn
    <2>4. Sent(side, s) = 0
      <3>1. DirOf(side) \in Dir
        BY DEF DirOf, Dir
      <3> QED  BY <1>4, <3>1 DEF Sent
    <2>5. Failed(side, s) = {}
      BY <2>4 DEF Failed
    <2>6. Numbers(side, s) /\ Ordered(side, s) /\ Apart(side, s) /\ Nowhere(side, s)
      BY <2>1, <2>2, <2>3, <2>4, <2>5 DEF Numbers, Ordered, Apart, Nowhere, Below
    <2> QED  BY <2>6 DEF Lane
  <1>7. Lists
    BY <1>1, <1>2, NumsBasic DEF Lists
  <1>8. Arrived
    BY <1>5 DEF Arrived, Heard
  <1>9. Front
    BY <1>1, <1>2 DEF Front, Marked, OldUnread, Latest
  <1> QED  BY <1>6, <1>7, <1>8, <1>9 DEF LaneInv, AllLanes

(* Every step keeps the lanes in order.                                    *)
LEMMA LanesStep ==
    ASSUME BooksInv, LaneInv, [Next]_vars
    PROVE  LaneInv'
  <1>0. Types
    BY DEF BooksInv
  <1>1. ASSUME NEW c \in Conns, NEW side \in Side, Flush(c, side) \/ OnWriteDone(c, side) PROVE LaneInv'
    BY <1>1, FlushLanes, WriteDoneLanes
  <1>2. ASSUME NEW c \in Conns, BinderOnRead(c) PROVE LaneInv'
    <2>1. chan[c].wire["connector"] \in Seq(Item) /\ chan[c].wire["connector"] # <<>>
      BY <1>0, <1>2, ItemTypes DEF BinderOnRead, Side
    <2>2. Head(chan[c].wire["connector"]) \in Item
      BY <2>1
    <2>3. \/ Head(chan[c].wire["connector"]).kind = "msg" \/ Head(chan[c].wire["connector"]) = Hello
          \/ Head(chan[c].wire["connector"]) \in {Fin, Rst}
      BY <2>2, Kinds
    <2> QED  BY <1>2, <2>3, BinderMessageLanes, IdentifyLanes, BinderEndLanes
  <1>3. ASSUME NEW s \in Sockets, OnRead(s) PROVE LaneInv'
    BY <1>3, OnReadLanes, OnMessageLanes
  <1>4. ASSUME NEW c \in Conns, Accept(c) \/ Cut(c) PROVE LaneInv'
    BY <1>4, AcceptLanes, CutLanes
  <1>5. ASSUME NEW s \in Sockets, OnClientConnected(s) \/ SendMessage(s) \/ Shutdown(s) PROVE LaneInv'
    BY <1>5, ConnectedLanes, SendMessageLanes, ShutdownLanes
  <1>6. ASSUME NEW s \in Sockets, Connect(s) \/ ConnectRefused(s) \/ RecvMessage(s) PROVE LaneInv'
    BY <1>0, <1>6, SocketLanes
  <1>7. ASSUME NEW i \in Sockets, BinderSend(i) \/ CloseConnection(i) PROVE LaneInv'
    BY <1>7, BinderSendLanes, CloseLanes
  <1>8. ASSUME BinderRecv \/ StrangerLeaves \/ Tick \/ UNCHANGED vars PROVE LaneInv'
    BY <1>0, <1>8, BinderLanes
  <1>9. ASSUME BinderShutdown PROVE LaneInv'
    BY <1>9, BinderShutdownLanes
  <1> QED  BY <1>1, <1>2, <1>3, <1>4, <1>5, <1>6, <1>7, <1>8, <1>9 DEF Next, Libuv, User, Network

(* A message on a list that was received has its number there.             *)
LEMMA ReceivedNums ==
    ASSUME NEW r \in Seq(Numbered), NEW x, Heard(r, x), NEW d, NEW s, NEW n, Msg(d, s, n) \in Messages(r)
    PROVE  n \in SeenIn(r, s) /\ ForEnd(Msg(d, s, n), x)
  <1>1. PICK k \in DOMAIN r : r[k] = Msg(d, s, n)
    BY DEF Messages
  <1>2. r[k] \in Elems(r) /\ ForEnd(r[k], x)
    BY DEF Elems, Heard
  <1>3. r[k].of = s /\ r[k].n = n
    BY <1>1 DEF Msg
  <1> QED  BY <1>1, <1>2, <1>3 DEF SeenIn

(* What the lanes say of what is received.                                 *)
LEMMA DeliveryFrom ==
    ASSUME BooksInv, LaneInv
    PROVE  DeliverySound
  <1>0. Types /\ Connections /\ Lists /\ Arrived /\ AllLanes
    BY DEF BooksInv, LaneInv
  <1>1. InOrder
    BY <1>0 DEF InOrder, Arrived, Heard, Ends
  <1>2. ASSUME NEW d \in Dir, NEW s \in Sockets, NEW n \in DOMAIN sends[d][s], sends[d][s][n] = "failed"
        PROVE  /\ \A y \in Ends : Msg(d, s, n) \notin Messages(Received(y))
               /\ \A c \in Conns : \A side \in Side : Msg(d, s, n) \notin Messages(chan[c].wire[side])
    <2>1. PICK e \in Side : DirOf(e) = d
      BY DEF Dir, DirOf, Side
    <2>2. sends[d][s] \in Seq(Answers)
      BY <1>0 DEF Types, SendsType
    <2>3. n \in Failed(e, s)
      BY <1>2, <2>1, <2>2 DEF Failed, Sent
    <2>4. n \notin Seen(e, s) /\ \A c \in Conns : n \notin Line(c, e, s)
      BY <1>0, <2>3 DEF AllLanes, Lane, Nowhere
    <2>5. ASSUME NEW y \in Ends, Msg(d, s, n) \in Messages(Received(y))
          PROVE  FALSE
      <3>1. Received(y) \in Seq(Numbered) /\ Heard(Received(y), y)
        BY <1>0, ReceivedType DEF Arrived
      <3>2. PICK r \in Seq(Numbered) : r = Received(y)
        BY <3>1
      <3>3. n \in SeenIn(r, s) /\ ForEnd(Msg(d, s, n), y)
        BY <2>5, <3>1, <3>2, ReceivedNums
      <3>4. d = (IF y = "binder" THEN "up" ELSE "down") /\ (y # "binder" => s = y)
        BY <3>3 DEF ForEnd, Msg
      <3>5. Reader(e, s) = y
        BY <2>1, <3>4 DEF Reader, DirOf, Side
      <3> QED  BY <2>4, <3>2, <3>3, <3>5 DEF Seen
    <2>6. ASSUME NEW c \in Conns, NEW side \in Side, Msg(d, s, n) \in Messages(chan[c].wire[side])
          PROVE  FALSE
      <3>1. PICK w \in Seq(Item) : w = chan[c].wire[side]
        BY <1>0, ItemTypes
      <3>2. Sorted(w, side, chan[c].socket)
        BY <1>0, <3>1 DEF Lists
      <3>3. e = side /\ s = chan[c].socket /\ n \in Nums(w)
        BY <2>1, <2>6, <3>1, <3>2, LaneMessages
      <3>4. chan[c].made
        <4>1. ASSUME ~chan[c].made
              PROVE  FALSE
          <5>1. w = <<>>
            BY <1>0, <3>1, <4>1 DEF Lists
          <5> QED  BY <3>3, <5>1, NumsBasic
        <4> QED  BY <4>1
      <3>5. n \in OnWire(c, e, s)
        BY <3>1, <3>3, <3>4 DEF OnWire, Mine
      <3> QED  BY <2>4, <3>5 DEF Line
    <2> QED  BY <2>5, <2>6
  <1>3. FailedNotDelivered
    BY <1>2 DEF FailedNotDelivered, Ends
  <1> QED  BY <1>1, <1>3 DEF DeliverySound

(* What a user receives is what was sent to it: the messages of a sender   *)
(* in the order of its sends and each at most once, whatever connections   *)
(* are cut, replaced or shut down, and never one whose callback got an     *)
(* error, so a caller that sends it again does not send it twice.          *)
THEOREM YmqDelivery == Spec => []DeliverySound
  <1>1. BooksInv /\ LaneInv /\ [Next]_vars => LaneInv'
    <2>1. ASSUME BooksInv, LaneInv, [Next]_vars PROVE LaneInv'
      BY <2>1, LanesStep
    <2> QED  BY <2>1
  <1>2. BooksInv /\ LaneInv => DeliverySound
    <2>1. ASSUME BooksInv, LaneInv PROVE DeliverySound
      BY <2>1, DeliveryFrom
    <2> QED  BY <2>1
  <1> QED  BY <1>1, <1>2, InitLanes, BooksAlways, PTL DEF Spec
=============================================================================
