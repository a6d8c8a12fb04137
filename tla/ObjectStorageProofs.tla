------------------------- MODULE ObjectStorageProofs -------------------------
(***************************************************************************)
(* The server's books are exact and no wake-up is lost, for any clients,   *)
(* objects and calls, and whatever connections are lost: theorems about    *)
(* ObjectStorage.                                                          *)
(***************************************************************************)
EXTENDS ObjectStorage, FoldTheorems

-----------------------------------------------------------------------------
(* The types of requests, messages and books.                              *)

Stuff   == Data \cup {Headers, IdBytes}
Types   == {"set", "get", "delete", "duplicate"}
Ids     == Id \cup {<<>>}
Heads   == [type : Types \cup {"none"}, id : Ids, from : Ids, len : Int, job : Job \cup {NoJob}]
Request == [type : Types, id : Id, from : Ids, len : Int, job : Job]
\* A request that may wait: a get, or a duplicate with the id of its original.
Waiters == {r \in Request : r.type = "get" \/ (r.type = "duplicate" /\ r.from \in Id)}
Answers == [to : Client, data : Stuff, head : Heads]

BookSet == [store : [Id -> Stuff \cup {None}], uses : [Stuff -> Nat], bytes : Nat,
            pending : [Id -> Seq(Waiters)], out : Seq(Answers), todo : Seq(Waiters)]

Length == [d \in Stuff |-> LengthOf(d)]
Holders(b, d) == {i \in Id : b.store[i] = d}
InUse(b) == {d \in Stuff : b.uses[d] > 0}

\* The use counts and the bytes of the books are exact.
Exact(b) ==
    /\ \A d \in Stuff : b.uses[d] = Cardinality(Holders(b, d))
    /\ b.bytes = SumFunctionOnSet(Length, InUse(b))

\* Requests wait for absent objects only.
Apart(b) == \A i \in Id : b.pending[i] # <<>> => b.store[i] = None

Good == {b \in BookSet : Exact(b) /\ Apart(b)}

-----------------------------------------------------------------------------
(* The constants.                                                          *)

(* There are finitely many ids and payloads.                               *)
LEMMA Finite == IsFiniteSet(Id) /\ IsFiniteSet(Stuff)
  <1>1. PICK n \in Nat : n = MaxAttempts
    BY BoundAssumption
  <1>2. IsFiniteSet(1 .. n)
    BY FS_Interval
  <1>3. IsFiniteSet(Id)
    BY <1>1, <1>2, FiniteAssumption, FS_Product DEF Id
  <1>4. IsFiniteSet(Data)
    <2> DEFINE f == [x \in Name |-> Content[x]]
    <2>1. f \in Surjection(Name, Data)
      BY DEF Data, Surjection
    <2>2. IsFiniteSet(Name)
      BY FiniteAssumption
    <2> HIDE DEF f
    <2> QED  BY <2>1, <2>2, FS_Surjection DEF ExistsSurjection
  <1>5. IsFiniteSet(Data \cup {Headers})
    BY <1>4, FS_AddElement
  <1>6. IsFiniteSet((Data \cup {Headers}) \cup {IdBytes})
    BY <1>5, FS_AddElement
  <1>7. Stuff = (Data \cup {Headers}) \cup {IdBytes}
    BY DEF Stuff
  <1> QED  BY <1>3, <1>6, <1>7

(* Every payload has a length.                                             *)
LEMMA Lengths == \A d \in Stuff : LengthOf(d) \in Nat /\ Length[d] = LengthOf(d) /\ d # None
  <1>1. \A d \in Stuff : LengthOf(d) \in Nat
    BY SizeAssumption DEF Stuff, LengthOf
  <1> QED  BY <1>1, DataAssumption DEF Length, Stuff, None, Headers, IdBytes

(* A set of ids has a number of members.                                   *)
LEMMA Counted ==
    ASSUME NEW S \in SUBSET Id
    PROVE  /\ IsFiniteSet(S) /\ Cardinality(S) \in Nat
           /\ \A i \in S : Cardinality(S \ {i}) = Cardinality(S) - 1
           /\ \A i \in Id : i \notin S => Cardinality(S \cup {i}) = Cardinality(S) + 1
           /\ Cardinality(S) = 0 <=> S = {}
  <1>1. IsFiniteSet(S)
    BY Finite, FS_Subset
  <1> QED  BY <1>1, FS_CardinalityType, FS_RemoveElement, FS_AddElement, FS_EmptySet

(* The bytes of a set of payloads.                                         *)
LEMMA Weighed ==
    ASSUME NEW S \in SUBSET Stuff
    PROVE  /\ SumFunctionOnSet(Length, S) \in Nat
           /\ \A d \in S : SumFunctionOnSet(Length, S) = LengthOf(d) + SumFunctionOnSet(Length, S \ {d})
           /\ SumFunctionOnSet(Length, {}) = 0
  <1>1. IsFiniteSet(S)
    BY Finite, FS_Subset
  <1>2. \A d \in S : Length[d] \in Nat
    BY Lengths
  <1>3. /\ SumFunctionOnSet(Length, S) \in Nat
        /\ SumFunctionOnSet(Length, {}) = 0
        /\ \A d \in S : SumFunctionOnSet(Length, S) = Length[d] + SumFunctionOnSet(Length, S \ {d})
    BY <1>1, <1>2, SumAdd
  <1> QED  BY <1>3, Lengths

-----------------------------------------------------------------------------
(* The object manager.                                                     *)

(* The fields of typed books.                                              *)
LEMMA Fields ==
    ASSUME NEW b \in BookSet
    PROVE  /\ b.store \in [Id -> Stuff \cup {None}] /\ b.uses \in [Stuff -> Nat] /\ b.bytes \in Nat
           /\ b.pending \in [Id -> Seq(Waiters)] /\ b.out \in Seq(Answers) /\ b.todo \in Seq(Waiters)
  BY DEF BookSet

(* Deleting an object releases its payload.                                *)
LEMMA DeleteExact ==
    ASSUME NEW b \in BookSet, Exact(b), NEW i \in Id, NEW a, a = DeleteObject(b, i)
    PROVE  /\ a \in BookSet /\ Exact(a)
           /\ a.store = [b.store EXCEPT ![i] = None]
           /\ a.pending = b.pending /\ a.out = b.out /\ a.todo = b.todo
  <1>0. /\ b.store \in [Id -> Stuff \cup {None}] /\ b.uses \in [Stuff -> Nat] /\ b.bytes \in Nat
        /\ b.pending \in [Id -> Seq(Waiters)] /\ b.out \in Seq(Answers) /\ b.todo \in Seq(Waiters)
    BY Fields
  <1>1. CASE b.store[i] = None
    <2>1. a = b
      BY <1>1 DEF DeleteObject
    <2>2. b.store = [b.store EXCEPT ![i] = None]
      BY <1>0, <1>1
    <2> QED  BY <2>1, <2>2
  <1>2. CASE b.store[i] # None
    <2>1. PICK d \in Stuff : d = b.store[i]
      BY <1>0, <1>2
    <2>2. a = [b EXCEPT !.store[i] = None, !.uses[d] = b.uses[d] - 1,
                        !.bytes = IF b.uses[d] = 1 THEN @ - LengthOf(d) ELSE @]
      BY <1>2, <2>1 DEF DeleteObject
    <2>3. i \in Holders(b, d) /\ Holders(b, d) \in SUBSET Id
      BY <2>1 DEF Holders
    <2>4. b.uses[d] = Cardinality(Holders(b, d)) /\ b.uses[d] \in Nat \ {0}
      <3>1. b.uses[d] = Cardinality(Holders(b, d))
        BY DEF Exact
      <3>2. Holders(b, d) # {}
        BY <2>3
      <3> QED  BY <1>0, <2>3, <3>1, <3>2, Counted
    <2>5. /\ a.store = [b.store EXCEPT ![i] = None] /\ a.uses = [b.uses EXCEPT ![d] = b.uses[d] - 1]
          /\ a.bytes = IF b.uses[d] = 1 THEN b.bytes - LengthOf(d) ELSE b.bytes
          /\ a.pending = b.pending /\ a.out = b.out /\ a.todo = b.todo
      BY <2>2 DEF BookSet
    <2>6. LengthOf(d) \in Nat /\ None \notin Stuff
      BY Lengths
    <2>7. \A e \in Stuff : a.uses[e] = Cardinality(Holders(a, e))
      <3>1. Holders(a, d) = Holders(b, d) \ {i}
        BY <1>0, <2>1, <2>5, <2>6 DEF Holders
      <3>2. Cardinality(Holders(a, d)) = Cardinality(Holders(b, d)) - 1
        BY <2>3, <3>1, Counted
      <3>3. a.uses[d] = b.uses[d] - 1 /\ \A e \in Stuff : e # d => a.uses[e] = b.uses[e]
        BY <1>0, <2>5
      <3>4. \A e \in Stuff : e # d => Holders(a, e) = Holders(b, e)
        BY <1>0, <2>1, <2>5, <2>6 DEF Holders
      <3>5. \A e \in Stuff : b.uses[e] = Cardinality(Holders(b, e))
        BY DEF Exact
      <3> QED  BY <2>4, <3>2, <3>3, <3>4, <3>5
    <2>8. a.bytes = SumFunctionOnSet(Length, InUse(a)) /\ a.bytes \in Nat
      <3>1. InUse(b) \in SUBSET Stuff /\ d \in InUse(b) /\ b.bytes = SumFunctionOnSet(Length, InUse(b))
        BY <2>4 DEF InUse, Exact
      <3>2. SumFunctionOnSet(Length, InUse(b)) = LengthOf(d) + SumFunctionOnSet(Length, InUse(b) \ {d})
            /\ SumFunctionOnSet(Length, InUse(b) \ {d}) \in Nat
        <4>1. SumFunctionOnSet(Length, InUse(b)) = LengthOf(d) + SumFunctionOnSet(Length, InUse(b) \ {d})
          BY <3>1, Weighed
        <4>2. InUse(b) \ {d} \in SUBSET Stuff
          BY <3>1
        <4> QED  BY <4>1, <4>2, Weighed
      <3>3. CASE b.uses[d] = 1
        <4>1. InUse(a) = InUse(b) \ {d}
          BY <1>0, <2>5, <3>3 DEF InUse
        <4> QED  BY <2>5, <2>6, <3>1, <3>2, <3>3, <4>1
      <3>4. CASE b.uses[d] # 1
        <4>1. InUse(a) = InUse(b)
          BY <1>0, <2>4, <2>5, <3>4 DEF InUse
        <4> QED  BY <1>0, <2>5, <3>1, <3>4, <4>1
      <3> QED  BY <3>3, <3>4
    <2>9. a \in BookSet
      <3>1. a.store \in [Id -> Stuff \cup {None}] /\ a.uses \in [Stuff -> Nat]
        BY <1>0, <2>4, <2>5
      <3> QED  BY <1>0, <2>2, <2>4, <2>6, <2>8, <2>5, <3>1 DEF BookSet
    <2> QED  BY <2>5, <2>7, <2>8, <2>9 DEF Exact
  <1> QED  BY <1>1, <1>2

(* Storing a payload under an id that holds none counts one more use.      *)
LEMMA StoredExact ==
    ASSUME NEW b \in BookSet, Exact(b), NEW i \in Id, b.store[i] = None, NEW d \in Stuff,
           NEW a, a = Stored(b, i, d)
    PROVE  /\ a \in BookSet /\ Exact(a)
           /\ a.store = [b.store EXCEPT ![i] = d]
           /\ a.pending = b.pending /\ a.out = b.out /\ a.todo = b.todo
  <1>0. /\ b.store \in [Id -> Stuff \cup {None}] /\ b.uses \in [Stuff -> Nat] /\ b.bytes \in Nat
        /\ b.pending \in [Id -> Seq(Waiters)] /\ b.out \in Seq(Answers) /\ b.todo \in Seq(Waiters)
    BY Fields
  <1>1. a = [b EXCEPT !.store[i] = d, !.uses[d] = b.uses[d] + 1,
                      !.bytes = IF b.uses[d] = 0 THEN @ + LengthOf(d) ELSE @]
    BY DEF Stored
  <1>2. /\ a.store = [b.store EXCEPT ![i] = d] /\ a.uses = [b.uses EXCEPT ![d] = b.uses[d] + 1]
        /\ a.bytes = IF b.uses[d] = 0 THEN b.bytes + LengthOf(d) ELSE b.bytes
        /\ a.pending = b.pending /\ a.out = b.out /\ a.todo = b.todo
    BY <1>1 DEF BookSet
  <1>3. LengthOf(d) \in Nat /\ None \notin Stuff
    BY Lengths
  <1>4. \A e \in Stuff : a.uses[e] = Cardinality(Holders(a, e))
    <2>1. Holders(a, d) = Holders(b, d) \cup {i} /\ i \notin Holders(b, d) /\ Holders(b, d) \in SUBSET Id
      BY <1>0, <1>2, <1>3 DEF Holders
    <2>2. Cardinality(Holders(a, d)) = Cardinality(Holders(b, d)) + 1
      BY <2>1, Counted
    <2>3. a.uses[d] = b.uses[d] + 1 /\ \A e \in Stuff : e # d => a.uses[e] = b.uses[e]
      BY <1>0, <1>2
    <2>4. \A e \in Stuff : e # d => Holders(a, e) = Holders(b, e)
      BY <1>0, <1>2, <1>3 DEF Holders
    <2>5. \A e \in Stuff : b.uses[e] = Cardinality(Holders(b, e))
      BY DEF Exact
    <2> QED  BY <2>2, <2>3, <2>4, <2>5
  <1>5. a.bytes = SumFunctionOnSet(Length, InUse(a)) /\ a.bytes \in Nat
    <2>1. InUse(b) \in SUBSET Stuff /\ b.bytes = SumFunctionOnSet(Length, InUse(b)) /\ InUse(a) \in SUBSET Stuff
      BY DEF InUse, Exact
    <2>2. CASE b.uses[d] = 0
      <3>1. d \in InUse(a) /\ InUse(a) \ {d} = InUse(b)
        BY <1>0, <1>2, <2>2 DEF InUse
      <3>2. SumFunctionOnSet(Length, InUse(a)) = LengthOf(d) + SumFunctionOnSet(Length, InUse(b))
        BY <2>1, <3>1, Weighed
      <3> QED  BY <1>0, <1>2, <1>3, <2>1, <2>2, <3>2
    <2>3. CASE b.uses[d] # 0
      <3>1. InUse(a) = InUse(b)
        BY <1>0, <1>2, <2>3 DEF InUse
      <3> QED  BY <1>0, <1>2, <2>1, <2>3, <3>1
    <2> QED  BY <2>2, <2>3
  <1>6. a \in BookSet
    <2>1. a.store \in [Id -> Stuff \cup {None}] /\ a.uses \in [Stuff -> Nat]
      BY <1>0, <1>2
    <2> QED  BY <1>0, <1>1, <1>2, <1>5, <2>1 DEF BookSet
  <1> QED  BY <1>2, <1>4, <1>5, <1>6 DEF Exact

(* Setting and duplicating an object.                                      *)
LEMMA SetExact ==
    ASSUME NEW b \in BookSet, Exact(b), NEW i \in Id, NEW d \in Stuff, NEW a, a = SetObject(b, i, d)
    PROVE  /\ a \in BookSet /\ Exact(a)
           /\ a.store = [b.store EXCEPT ![i] = d]
           /\ a.pending = b.pending /\ a.out = b.out /\ a.todo = b.todo
  <1>1. PICK c : c = DeleteObject(b, i)
    OBVIOUS
  <1>2. /\ c \in BookSet /\ Exact(c)
        /\ c.store = [b.store EXCEPT ![i] = None]
        /\ c.pending = b.pending /\ c.out = b.out /\ c.todo = b.todo
    BY <1>1, DeleteExact
  <1>3. c.store[i] = None /\ a = Stored(c, i, d)
    BY <1>1, <1>2, Fields DEF SetObject
  <1>4. /\ a \in BookSet /\ Exact(a)
        /\ a.store = [c.store EXCEPT ![i] = d]
        /\ a.pending = c.pending /\ a.out = c.out /\ a.todo = c.todo
    <2>1. c \in BookSet /\ Exact(c) /\ c.store[i] = None
      BY <1>2, <1>3
    <2>2. PICK e : e = Stored(c, i, d)
      OBVIOUS
    <2>3. /\ e \in BookSet /\ Exact(e)
          /\ e.store = [c.store EXCEPT ![i] = d]
          /\ e.pending = c.pending /\ e.out = c.out /\ e.todo = c.todo
      BY <2>1, <2>2, StoredExact
    <2> QED  BY <1>3, <2>2, <2>3
  <1>5. a.store = [b.store EXCEPT ![i] = d]
    BY <1>2, <1>4, Fields
  <1> QED  BY <1>2, <1>4, <1>5

\* What a duplicate of the object i under the id n makes of the books b.
Duplicated(b, i, n, a) ==
    /\ a \in BookSet /\ Exact(a)
    /\ \A k \in Id : k # n => a.store[k] = b.store[k]
    /\ b.store[i] # None => a.store[n] = b.store[i]
    /\ a.pending = b.pending /\ a.out = b.out /\ a.todo = b.todo

LEMMA DuplicateExact ==
    ASSUME NEW b \in BookSet, Exact(b), NEW i \in Id, NEW n \in Id
    PROVE  Duplicated(b, i, n, DuplicateObject(b, i, n))
  <1> SUFFICES ASSUME NEW a, a = DuplicateObject(b, i, n)
               PROVE  Duplicated(b, i, n, a)
    OBVIOUS
  <1>0. b.store \in [Id -> Stuff \cup {None}]
    BY Fields
  <1>1. CASE b.store[i] = None
    <2>1. a = b
      BY <1>1 DEF DuplicateObject
    <2> QED  BY <1>1, <2>1 DEF Duplicated
  <1>2. CASE b.store[i] # None
    <2>1. PICK d \in Stuff : d = b.store[i]
      BY <1>0, <1>2
    <2>2. a = SetObject(b, n, d)
      BY <1>2, <2>1 DEF DuplicateObject, SetObject
    <2>3. /\ a \in BookSet /\ Exact(a)
          /\ a.store = [b.store EXCEPT ![n] = d]
          /\ a.pending = b.pending /\ a.out = b.out /\ a.todo = b.todo
      BY <2>2, SetExact
    <2>4. a.store[n] = d /\ \A k \in Id : k # n => a.store[k] = b.store[k]
      BY <1>0, <2>3
    <2> QED  BY <2>1, <2>3, <2>4 DEF Duplicated
  <1> QED  BY <1>1, <1>2

-----------------------------------------------------------------------------
(* The answers.                                                            *)

(* An answer is a header, with or without a payload.                       *)
LEMMA AnswerType ==
    ASSUME NEW r \in Request, NEW t \in Types, NEW d \in Stuff \cup {None}
    PROVE  Answer(r, t, d) \in Seq(Answers)
  <1>1. PICK len \in Int : len = IF d = None THEN 0 ELSE LengthOf(d)
    BY Lengths
  <1>2. PICK h : h = [r EXCEPT !.type = t, !.len = len]
    OBVIOUS
  <1>3. h \in Heads
    BY <1>2 DEF Request, Heads, Ids
  <1>4. Of(r.job) \in Client
    BY WorkAssumption DEF Request, Of
  <1>5. PICK m : m = Message(Of(r.job), Headers, h)
    OBVIOUS
  <1>6. m \in Answers
    BY <1>3, <1>4, <1>5 DEF Message, Answers, Stuff
  <1>7. PICK n : n = Message(Of(r.job), d, NoHeader)
    OBVIOUS
  <1>8. d # None => n \in Answers
    BY <1>4, <1>7 DEF Message, Answers, NoHeader, Heads, Types, Ids
  <1>9. Answer(r, t, d) = <<m>> \o (IF len = 0 THEN <<>> ELSE <<n>>)
    BY <1>1, <1>2, <1>5, <1>7 DEF Answer
  <1>10. len # 0 => d # None
    BY <1>1
  <1>11. <<m>> \in Seq(Answers) /\ (d # None => <<n>> \in Seq(Answers)) /\ << >> \in Seq(Answers)
    BY <1>6, <1>8
  <1> QED  BY <1>9, <1>10, <1>11

(* Sequences put together, and taken apart.                                *)
LEMMA Joined ==
    ASSUME NEW T, NEW s \in Seq(T), NEW t \in Seq(T)
    PROVE  \E u \in Seq(T) : u = s \o t
  <1>1. s \o t \in Seq(T)
    OBVIOUS
  <1> QED  BY <1>1

LEMMA Parted ==
    ASSUME NEW T, NEW s \in Seq(T), s # << >>
    PROVE  \E x \in T : x = Head(s) /\ \E u \in Seq(T) : u = Tail(s)
  <1>1. Head(s) \in T
    OBVIOUS
  <1>2. Tail(s) \in Seq(T)
    OBVIOUS
  <1> QED  BY <1>1, <1>2

(* Something is added to what goes out.                                    *)
LEMMA OutGood ==
    ASSUME NEW b \in BookSet, NEW s \in Seq(Answers), NEW a, a = [b EXCEPT !.out = @ \o s]
    PROVE  /\ a \in BookSet /\ (Exact(b) => Exact(a)) /\ (Apart(b) => Apart(a))
           /\ a.store = b.store /\ a.pending = b.pending /\ a.todo = b.todo
  <1>1. b.out \in Seq(Answers)
    BY Fields
  <1>2. PICK o \in Seq(Answers) : o = b.out \o s
    BY <1>1, Joined
  <1>3. a = [b EXCEPT !.out = o]
    BY <1>2
  <1>4. a \in BookSet
    BY <1>3 DEF BookSet
  <1>5. a.store = b.store /\ a.uses = b.uses /\ a.bytes = b.bytes /\ a.pending = b.pending /\ a.todo = b.todo
    BY <1>3 DEF BookSet
  <1>6. Holders(a, a) = Holders(b, a) /\ InUse(a) = InUse(b) /\ \A d : Holders(a, d) = Holders(b, d)
    BY <1>5 DEF Holders, InUse
  <1> QED  BY <1>4, <1>5, <1>6 DEF Exact, Apart

(* Serving a request that waited.                                          *)
LEMMA ServeGood ==
    ASSUME NEW b \in Good, NEW d \in Stuff
    PROVE  ServeOne(b, d) \in Good
  <1>1. b \in BookSet /\ Exact(b) /\ Apart(b)
    BY DEF Good
  <1>2. CASE b.todo = << >>
    <2>1. ServeOne(b, d) = b
      BY <1>2 DEF ServeOne
    <2> QED  BY <2>1
  <1>3. CASE b.todo # << >>
    <2>0. b.todo \in Seq(Waiters) /\ b.todo # << >>
      BY <1>1, <1>3, Fields
    <2>1. PICK r \in Waiters : r = Head(b.todo)
      BY <2>0, Parted
    <2>2. PICK rest \in Seq(Waiters) : rest = Tail(b.todo)
      BY <2>0, Parted
    <2>3. r \in Request /\ r.id \in Id /\ (r.type = "get" \/ (r.type = "duplicate" /\ r.from \in Id))
      BY <2>1 DEF Waiters, Request
    <2>4. CASE r.type = "get"
      <3>1. PICK s \in Seq(Answers) : s = Answer(r, "get", d)
        BY <2>3, AnswerType DEF Types
      <3>2. PICK o \in Seq(Answers) : o = b.out \o s
        BY <1>1, Fields, Joined
      <3>3. PICK a : a = [b EXCEPT !.out = o, !.todo = rest]
        OBVIOUS
      <3>4. ServeOne(b, d) = a
        BY <1>3, <2>1, <2>2, <2>4, <3>1, <3>2, <3>3 DEF ServeOne
      <3>5. a \in BookSet /\ a.store = b.store /\ a.uses = b.uses /\ a.bytes = b.bytes /\ a.pending = b.pending
        BY <1>1, <3>3 DEF BookSet
      <3>6. Exact(a) /\ Apart(a)
        <4>1. InUse(a) = InUse(b) /\ \A e : Holders(a, e) = Holders(b, e)
          BY <3>5 DEF Holders, InUse
        <4> QED  BY <1>1, <3>5, <4>1 DEF Exact, Apart
      <3> QED  BY <3>4, <3>5, <3>6 DEF Good
    <2>5. CASE r.type = "duplicate" /\ r.from \in Id
      <3>1. PICK s \in Seq(Answers) : s = Answer(r, "duplicate", None)
        BY <2>3, AnswerType DEF Types
      <3>2. PICK c : c = DuplicateObject(b, r.from, r.id)
        OBVIOUS
      <3>3. /\ c \in BookSet /\ Exact(c)
            /\ \A k \in Id : k # r.id => c.store[k] = b.store[k]
            /\ c.pending = b.pending /\ c.out = b.out /\ c.todo = b.todo
        <4>1. Duplicated(b, r.from, r.id, c)
          BY <1>1, <2>3, <2>5, <3>2, DuplicateExact
        <4> QED  BY <4>1 DEF Duplicated
      <3>4. PICK o \in Seq(Answers) : o = c.out \o s
        BY <3>3, Fields, Joined
      <3>5. PICK t \in Seq(Waiters) : t = b.pending[r.id] \o rest
        <4>1. b.pending[r.id] \in Seq(Waiters)
          BY <1>1, <2>3, Fields
        <4> QED  BY <4>1, Joined
      <3>6. PICK a : a = [c EXCEPT !.out = o, !.todo = t, !.pending[r.id] = << >>]
        OBVIOUS
      <3>7. ServeOne(b, d) = a
        <4>1. ServeOne(b, d) = [c EXCEPT !.out = @ \o s,
                                         !.todo = b.pending[r.id] \o Tail(@),
                                         !.pending[r.id] = << >>]
          BY <1>3, <2>1, <2>5, <3>1, <3>2 DEF ServeOne
        <4> QED  BY <2>2, <3>3, <3>4, <3>5, <3>6, <4>1
      <3>8. /\ a.store = c.store /\ a.uses = c.uses /\ a.bytes = c.bytes
            /\ a.pending = [b.pending EXCEPT ![r.id] = << >>] /\ a.out = o /\ a.todo = t
        BY <3>3, <3>6 DEF BookSet
      <3>9. a \in BookSet
        <4>1. a.pending \in [Id -> Seq(Waiters)]
          <5>1. << >> \in Seq(Waiters) /\ b.pending \in [Id -> Seq(Waiters)]
            BY <1>1, Fields
          <5> QED  BY <3>8, <5>1
        <4> QED  BY <3>3, <3>6, <3>8, <4>1 DEF BookSet
      <3>10. Exact(a)
        <4>1. InUse(a) = InUse(c) /\ \A e : Holders(a, e) = Holders(c, e)
          BY <3>8 DEF Holders, InUse
        <4> QED  BY <3>3, <3>8, <4>1 DEF Exact
      <3>11. Apart(a)
        <4>1. \A w \in Id : w # r.id => a.pending[w] = b.pending[w] /\ a.store[w] = b.store[w]
          BY <1>1, <3>3, <3>8, Fields
        <4>2. a.pending[r.id] = << >>
          BY <1>1, <2>3, <3>8, Fields
        <4> QED  BY <1>1, <4>1, <4>2 DEF Apart
      <3> QED  BY <3>7, <3>9, <3>10, <3>11 DEF Good
    <2> QED  BY <2>3, <2>4, <2>5
  <1> QED  BY <1>2, <1>3

-----------------------------------------------------------------------------
\* The first n steps of serving the requests that are to be answered.
Serve(b, d, n) == FoldLeft(LAMBDA s, k : ServeOne(s, d), b, [k \in 1 .. n |-> k])

(* What every step of serving the waiting requests keeps, all of them do.  *)
LEMMA ServeAll ==
    ASSUME NEW V, NEW d, \A b \in V : ServeOne(b, d) \in V, NEW base \in V, NEW n \in Nat
    PROVE  Serve(base, d, n) \in V
  <1> DEFINE S == 1 .. n
             seq == [k \in 1 .. n |-> k]
             pick == [s \in (SUBSET S) \ {{}} |-> Max(s)]
             F == [i \in S |-> [v \in V |-> ServeOne(v, d)]]
             Fn(it) == [s \in SUBSET S |-> IF s = {} THEN base ELSE ServeOne(it[s \ {Max(s)}], d)]
             fold == CHOOSE it : it = Fn(it)
  <1>1. DOMAIN seq = S
    OBVIOUS
  <1>2. FoldLeft(LAMBDA s, k : ServeOne(s, d), base, seq) = fold[S]
    <2> HIDE DEF S, seq
    <2> QED  BY <1>1 DEF FoldLeft, MapThenFoldSet
  <1> HIDE DEF seq
  <1>3. \A s \in SUBSET S : s # {} => Max(s) \in s
    BY MaxSet
  <1>4. IsFiniteSet(S)
    BY FS_Interval
  <1>5. /\ pick \in [(SUBSET S) \ {{}} -> S]
        /\ \A s \in SUBSET S : s # {} => pick[s] \in s /\ pick[s] = Max(s)
    BY <1>3
  <1>6. /\ F \in [S -> [V -> V]]
        /\ \A x \in S, v \in V : F[x][v] = ServeOne(v, d)
    OBVIOUS
  <1> HIDE DEF pick, F, S
  <1>7. PICK it : Iterates(it, S, V, base, F, pick)
    BY <1>4, <1>5, <1>6, IterationExists
  <1>8. it = Fn(it)
    <2>1. it \in [SUBSET S -> V]
      BY <1>7 DEF Iterates
    <2>2. ASSUME NEW s \in SUBSET S
          PROVE  it[s] = Fn(it)[s]
      <3>1. CASE s = {}
        BY <1>7, <3>1 DEF Iterates
      <3>2. CASE s # {}
        <4>1. it[s] = F[pick[s]][it[s \ {pick[s]}]]
          BY <1>7, <3>2 DEF Iterates
        <4>2. pick[s] \in S /\ it[s \ {pick[s]}] \in V /\ pick[s] = Max(s)
          BY <1>5, <2>1, <3>2
        <4> QED  BY <1>6, <3>2, <4>1, <4>2
      <3> QED  BY <3>1, <3>2
    <2> QED  BY <2>1, <2>2
  <1>9. fold = Fn(fold)
    BY <1>8, Zenon
  <1> HIDE DEF fold
  <1>10. Iterates(fold, S, V, base, F, pick)
    <2>1. fold = [s \in SUBSET S |-> fold[s]]
      BY <1>9
    <2>2. fold[{}] = base
      BY <1>9
    <2>3. ASSUME NEW s \in SUBSET S, s # {}, fold[s \ {pick[s]}] \in V
          PROVE  fold[s] = F[pick[s]][fold[s \ {pick[s]}]]
      <3>1. fold[s] = ServeOne(fold[s \ {Max(s)}], d)
        BY <1>9, <2>3
      <3> QED  BY <1>5, <1>6, <2>3, <3>1
    <2>4. \A s \in SUBSET S : s # {} /\ fold[s \ {pick[s]}] \in V => fold[s] = F[pick[s]][fold[s \ {pick[s]}]]
      BY <2>3
    <2>5. /\ pick \in [(SUBSET S) \ {{}} -> S]
          /\ \A s \in SUBSET S : s # {} => pick[s] \in s
      BY <1>5
    <2> HIDE DEF Fn
    <2> QED  BY <1>4, <1>6, <2>1, <2>2, <2>4, <2>5, IterationOnly
  <1>11. fold[S] \in V
    BY <1>10 DEF Iterates
  <1> QED  BY <1>2, <1>11 DEF seq, Serve

(* The waiting requests have numbers.                                      *)
LEMMA WaitingType ==
    ASSUME NEW b \in BookSet
    PROVE  \E n \in Nat : Waiting(b) = [k \in 1 .. n |-> k]
  <1> DEFINE f == [i \in Id |-> Len(b.pending[i])]
  <1>1. \A i \in Id : f[i] \in Nat
    BY Fields
  <1> HIDE DEF f
  <1>2. SumFunctionOnSet(f, Id) \in Nat
    BY <1>1, Finite, SumAdd
  <1> QED  BY <1>2 DEF Waiting, f

(* The books before may have requests that wait for i only.                *)
LEMMA SendGood ==
    ASSUME NEW b \in BookSet, Exact(b), NEW i \in Id, NEW d \in Stuff,
           \A w \in Id : w # i => (b.pending[w] # << >> => b.store[w] = None)
    PROVE  OptionallySendPendingRequests(b, i, d) \in Good
  <1>0. b.pending \in [Id -> Seq(Waiters)]
    BY Fields
  <1>1. CASE b.pending[i] = << >>
    <2>1. OptionallySendPendingRequests(b, i, d) = b
      BY <1>1 DEF OptionallySendPendingRequests
    <2>2. Apart(b)
      BY <1>1 DEF Apart
    <2> QED  BY <2>1, <2>2 DEF Good
  <1>2. CASE b.pending[i] # << >>
    <2>1. PICK n \in Nat : Waiting(b) = [k \in 1 .. n |-> k]
      BY WaitingType
    <2>2. PICK t \in Seq(Waiters) : t = b.pending[i]
      BY <1>0
    <2>3. PICK a : a = [b EXCEPT !.pending[i] = << >>, !.todo = t]
      OBVIOUS
    <2>4. /\ a.store = b.store /\ a.uses = b.uses /\ a.bytes = b.bytes /\ a.out = b.out
          /\ a.pending = [b.pending EXCEPT ![i] = << >>] /\ a.todo = t
      BY <2>3 DEF BookSet
    <2>5. a \in BookSet
      <3>1. << >> \in Seq(Waiters)
        OBVIOUS
      <3>2. a.pending \in [Id -> Seq(Waiters)]
        BY <1>0, <2>4, <3>1
      <3> QED  BY <2>3, <2>4, <3>2 DEF BookSet
    <2>6. Exact(a)
      <3>1. InUse(a) = InUse(b) /\ \A e : Holders(a, e) = Holders(b, e)
        BY <2>4 DEF Holders, InUse
      <3> QED  BY <2>4, <3>1 DEF Exact
    <2>7. Apart(a)
      <3>1. a.pending[i] = << >> /\ \A w \in Id : w # i => a.pending[w] = b.pending[w]
        BY <1>0, <2>4
      <3> QED  BY <2>4, <3>1 DEF Apart
    <2>8. a \in Good
      BY <2>5, <2>6, <2>7 DEF Good
    <2>9. Serve(a, d, n) \in Good
      BY <2>8, ServeGood, ServeAll
    <2>10. OptionallySendPendingRequests(b, i, d) = Serve(a, d, n)
      BY <1>2, <2>1, <2>2, <2>3 DEF OptionallySendPendingRequests, Serve
    <2> QED  BY <2>1, <2>9, <2>10
  <1> QED  BY <1>1, <1>2

-----------------------------------------------------------------------------
(* The requests.                                                           *)

(* A set.                                                                  *)
LEMMA SetGood ==
    ASSUME NEW b \in Good, NEW r \in Request, NEW d \in Stuff
    PROVE  ProcessSetRequest(b, r, d) \in Good
  <1>1. b \in BookSet /\ Exact(b) /\ Apart(b) /\ r.id \in Id
    BY DEF Good, Request
  <1>2. PICK i \in Id : i = r.id
    BY <1>1
  <1>3. PICK a : a = SetObject(b, i, d)
    OBVIOUS
  <1>4. /\ a \in BookSet /\ Exact(a)
        /\ a.store = [b.store EXCEPT ![i] = d]
        /\ a.pending = b.pending /\ a.out = b.out /\ a.todo = b.todo
    BY <1>1, <1>3, SetExact
  <1>5. \A w \in Id : w # i => (a.pending[w] # << >> => a.store[w] = None)
    BY <1>1, <1>4, Fields DEF Apart
  <1>6. PICK s : s = OptionallySendPendingRequests(a, i, d)
    OBVIOUS
  <1>7. s \in Good
    BY <1>4, <1>5, <1>6, SendGood
  <1>8. PICK o \in Seq(Answers) : o = Answer(r, "set", None)
    BY AnswerType DEF Types
  <1>9. ProcessSetRequest(b, r, d) = [s EXCEPT !.out = @ \o o]
    BY <1>2, <1>3, <1>6, <1>8 DEF ProcessSetRequest
  <1> QED  BY <1>7, <1>8, <1>9, OutGood DEF Good

(* A request comes to wait.                                                *)
LEMMA WaitGood ==
    ASSUME NEW b \in Good, NEW i \in Id, b.store[i] = None, NEW r \in Waiters
    PROVE  [b EXCEPT !.pending[i] = Append(@, r)] \in Good
  <1>1. b \in BookSet /\ Exact(b) /\ Apart(b)
    BY DEF Good
  <1>2. b.pending \in [Id -> Seq(Waiters)]
    BY <1>1, Fields
  <1>3. PICK q \in Seq(Waiters) : q = Append(b.pending[i], r)
    <2>1. PICK p \in Seq(Waiters) : p = b.pending[i]
      BY <1>2
    <2>2. Append(p, r) \in Seq(Waiters)
      OBVIOUS
    <2> QED  BY <2>1, <2>2
  <1>4. PICK a : a = [b EXCEPT !.pending[i] = q]
    OBVIOUS
  <1>5. [b EXCEPT !.pending[i] = Append(@, r)] = a
    BY <1>3, <1>4
  <1>6. /\ a.store = b.store /\ a.uses = b.uses /\ a.bytes = b.bytes /\ a.out = b.out
        /\ a.pending = [b.pending EXCEPT ![i] = q] /\ a.todo = b.todo
    BY <1>1, <1>4 DEF BookSet
  <1>7. a \in BookSet
    <2>1. a.pending \in [Id -> Seq(Waiters)]
      BY <1>2, <1>6
    <2> QED  BY <1>1, <1>4, <1>6, <2>1 DEF BookSet
  <1>8. Exact(a)
    <2>1. InUse(a) = InUse(b) /\ \A e : Holders(a, e) = Holders(b, e)
      BY <1>6 DEF Holders, InUse
    <2> QED  BY <1>1, <1>6, <2>1 DEF Exact
  <1>9. Apart(a)
    <2>1. \A w \in Id : w # i => a.pending[w] = b.pending[w]
      BY <1>2, <1>6
    <2> QED  BY <1>1, <1>6, <2>1 DEF Apart
  <1> QED  BY <1>5, <1>7, <1>8, <1>9 DEF Good

(* A get.                                                                  *)
LEMMA GetGood ==
    ASSUME NEW b \in Good, NEW r \in Request, r.type = "get"
    PROVE  ProcessGetRequest(b, r) \in Good
  <1>1. b \in BookSet /\ Exact(b) /\ Apart(b) /\ r \in Waiters
    BY DEF Good, Waiters
  <1>2. PICK i \in Id : i = r.id
    BY DEF Request
  <1>3. CASE b.store[i] # None
    <2>1. PICK d \in Stuff : d = b.store[i]
      BY <1>1, <1>3, Fields
    <2>2. PICK o \in Seq(Answers) : o = Answer(r, "get", d)
      BY AnswerType DEF Types
    <2>3. ProcessGetRequest(b, r) = [b EXCEPT !.out = @ \o o]
      BY <1>2, <1>3, <2>1, <2>2 DEF ProcessGetRequest
    <2> QED  BY <1>1, <2>2, <2>3, OutGood DEF Good
  <1>4. CASE b.store[i] = None
    <2>1. ProcessGetRequest(b, r) = [b EXCEPT !.pending[i] = Append(@, r)]
      BY <1>2, <1>4 DEF ProcessGetRequest
    <2> QED  BY <1>1, <1>4, <2>1, WaitGood
  <1> QED  BY <1>3, <1>4

(* A delete.                                                               *)
LEMMA DeleteGood ==
    ASSUME NEW b \in Good, NEW r \in Request
    PROVE  ProcessDeleteRequest(b, r) \in Good
  <1>1. b \in BookSet /\ Exact(b) /\ Apart(b)
    BY DEF Good
  <1>2. PICK i \in Id : i = r.id
    BY DEF Request
  <1>3. PICK a : a = DeleteObject(b, i)
    OBVIOUS
  <1>4. /\ a \in BookSet /\ Exact(a)
        /\ a.store = [b.store EXCEPT ![i] = None]
        /\ a.pending = b.pending /\ a.out = b.out /\ a.todo = b.todo
    BY <1>1, <1>3, DeleteExact
  <1>5. Apart(a)
    BY <1>1, <1>4, Fields DEF Apart
  <1>6. PICK o \in Seq(Answers) : o = Answer(r, "delete", None)
    BY AnswerType DEF Types
  <1>7. ProcessDeleteRequest(b, r) = [a EXCEPT !.out = @ \o o]
    BY <1>2, <1>3, <1>6 DEF ProcessDeleteRequest
  <1> QED  BY <1>4, <1>5, <1>6, <1>7, OutGood DEF Good

(* A duplicate.                                                            *)
LEMMA CopyGood ==
    ASSUME NEW b \in Good, NEW r \in Request, r.type = "duplicate", r.from \in Id
    PROVE  ProcessDuplicateRequest(b, r) \in Good
  <1>1. b \in BookSet /\ Exact(b) /\ Apart(b) /\ r \in Waiters
    BY DEF Good, Waiters
  <1>2. PICK i \in Id : i = r.from
    OBVIOUS
  <1>3. PICK n \in Id : n = r.id
    BY DEF Request
  <1>4. CASE b.store[i] = None
    <2>1. ProcessDuplicateRequest(b, r) = [b EXCEPT !.pending[i] = Append(@, r)]
      BY <1>2, <1>4 DEF ProcessDuplicateRequest
    <2> QED  BY <1>1, <1>4, <2>1, WaitGood
  <1>5. CASE b.store[i] # None
    <2>1. PICK d \in Stuff : d = b.store[i]
      BY <1>1, <1>5, Fields
    <2>2. PICK a : a = DuplicateObject(b, i, n)
      OBVIOUS
    <2>3. Duplicated(b, i, n, a)
      BY <1>1, <2>2, DuplicateExact
    <2>4. \A w \in Id : w # n => (a.pending[w] # << >> => a.store[w] = None)
      BY <1>1, <2>3 DEF Duplicated, Apart
    <2>5. PICK s : s = OptionallySendPendingRequests(a, n, d)
      OBVIOUS
    <2>6. s \in Good
      BY <2>3, <2>4, <2>5, SendGood DEF Duplicated
    <2>7. PICK o \in Seq(Answers) : o = Answer(r, "duplicate", None)
      BY AnswerType DEF Types
    <2>8. ProcessDuplicateRequest(b, r) = [s EXCEPT !.out = @ \o o]
      BY <1>2, <1>3, <1>5, <2>1, <2>2, <2>5, <2>7 DEF ProcessDuplicateRequest
    <2> QED  BY <2>6, <2>7, <2>8, OutGood DEF Good
  <1> QED  BY <1>4, <1>5

(* Every request leaves good books behind.                                 *)
LEMMA ProcessGood ==
    ASSUME NEW b \in Good, NEW r \in Request, NEW d,
           r.type = "set" => d \in Stuff, r.type = "duplicate" => r.from \in Id
    PROVE  Process(b, r, d) \in Good
  <1>1. CASE r.type = "set"
    <2>1. Process(b, r, d) = ProcessSetRequest(b, r, d)
      BY <1>1 DEF Process
    <2> QED  BY <1>1, <2>1, SetGood
  <1>2. CASE r.type = "get"
    <2>1. Process(b, r, d) = ProcessGetRequest(b, r)
      BY <1>2 DEF Process
    <2> QED  BY <1>2, <2>1, GetGood
  <1>3. CASE r.type = "delete"
    <2>1. Process(b, r, d) = ProcessDeleteRequest(b, r)
      BY <1>3 DEF Process
    <2> QED  BY <2>1, DeleteGood
  <1>4. CASE r.type = "duplicate"
    <2>1. Process(b, r, d) = ProcessDuplicateRequest(b, r)
      BY <1>4 DEF Process
    <2> QED  BY <1>4, <2>1, CopyGood
  <1> QED  BY <1>1, <1>2, <1>3, <1>4 DEF Request, Types

-----------------------------------------------------------------------------
(* The inductive invariant.                                                *)

\* What may be on its way to the server: a header with its request, or a payload.
Msgs == {m \in Answers : /\ m.data = Headers => m.head \in Request
                         /\ m.data = IdBytes => m.head.from \in Id}
\* What the server has of a request whose payload it waits for.
Opened == {NoHeader, Garbage} \cup {r \in Request : r.type \in {"set", "duplicate"}}

BooksOK == Books \in Good
MailOK  == up \in [Client -> Seq(Msgs)] /\ partial \in [Client -> Opened]
Stages  == {"new", "queued", "payload", "reply", "future", "done", "raised"}
LocksOK ==
    /\ stage \in [Job -> Stages]
    /\ attempt \in [Job -> 1 .. MaxAttempts]
    /\ holder \in [Client -> Job \cup {NoJob}]
    /\ \A c \in Client : holder[c] # NoJob =>
          Of(holder[c]) = c /\ stage[holder[c]] \in {"payload", "reply"}
    /\ \A j \in Job : stage[j] = "payload" => holder[Of(j)] = j
RestOK  == closed \subseteq Client /\ working \subseteq Client /\ left \in 0 .. Budget

StorageInv == BooksOK /\ MailOK /\ LocksOK /\ RestOK

(* It says what the runs check.                                            *)
LEMMA InvImplies == StorageInv => CountsExact /\ WaitsForAbsent
  <1> SUFFICES ASSUME StorageInv PROVE CountsExact /\ WaitsForAbsent
    OBVIOUS
  <1>1. Books \in BookSet /\ Exact(Books) /\ Apart(Books)
    BY DEF StorageInv, BooksOK, Good
  <1>2. Books.store = store /\ Books.uses = uses /\ Books.bytes = bytes /\ Books.pending = pending
    BY DEF Books
  <1>3. /\ store \in [Id -> Stuff \cup {None}] /\ uses \in [Stuff -> Nat] /\ bytes \in Nat
        /\ pending \in [Id -> Seq(Waiters)]
    BY <1>1, <1>2, Fields
  <1>4. \A i \in Id, k \in 1 .. Cardinality(Job) :
           k \in DOMAIN pending[i] => pending[i][k].type \in {"get", "duplicate"}
    <2> SUFFICES ASSUME NEW i \in Id, NEW k \in DOMAIN pending[i]
                 PROVE  pending[i][k].type \in {"get", "duplicate"}
      OBVIOUS
    <2>1. pending[i] \in Seq(Waiters)
      BY <1>3
    <2>2. pending[i][k] \in Waiters
      BY <2>1
    <2> QED  BY <2>2 DEF Waiters
  <1>5. TypeOK
    <2>1. store \in [Id -> Data \cup {None, Headers, IdBytes}]
      <3>1. Stuff \cup {None} = Data \cup {None, Headers, IdBytes}
        BY DEF Stuff
      <3> QED  BY <1>3, <3>1
    <2>2. uses \in [Data \cup {Headers, IdBytes} -> Nat] /\ bytes \in Nat
      BY <1>3 DEF Stuff
    <2> QED  BY <1>4, <2>1, <2>2 DEF TypeOK, StorageInv, LocksOK, RestOK, Stages
  <1>6. UsesExact
    <2>1. DOMAIN uses = Stuff
      BY <1>3
    <2>2. \A d \in Stuff : uses[d] = Cardinality({i \in Id : store[i] = d})
      BY <1>1, <1>2 DEF Exact, Holders
    <2>3. bytes = SumFunctionOnSet(Length, {d \in Stuff : uses[d] > 0})
      BY <1>1, <1>2 DEF Exact, InUse
    <2> QED  BY <2>1, <2>2, <2>3 DEF UsesExact, Length
  <1>7. WaitsForAbsent
    BY <1>1, <1>2 DEF Apart, WaitsForAbsent
  <1> QED  BY <1>5, <1>6, <1>7 DEF CountsExact

(* The first state.                                                        *)
LEMMA InitInv == Init => StorageInv
  <1> SUFFICES ASSUME Init PROVE StorageInv
    OBVIOUS
  <1>1. BooksOK
    <2>1. PICK b : b = Books
      OBVIOUS
    <2>2. b = [store |-> store, uses |-> uses, bytes |-> bytes, pending |-> pending,
               out |-> << >>, todo |-> << >>]
      BY <2>1 DEF Books
    <2>3. /\ store = [i \in Id |-> None] /\ uses = [d \in Stuff |-> 0] /\ bytes = 0
          /\ pending = [i \in Id |-> << >>]
      BY DEF Init, Stuff
    <2>4. << >> \in Seq(Waiters) /\ << >> \in Seq(Answers)
      OBVIOUS
    <2>5. pending \in [Id -> Seq(Waiters)]
      BY <2>3, <2>4
    <2>6. b \in BookSet
      BY <2>2, <2>3, <2>4, <2>5 DEF BookSet
    <2>7. b.store = store /\ b.uses = uses /\ b.bytes = bytes /\ b.pending = pending
      BY <2>2
    <2>8. \A d \in Stuff : Holders(b, d) = {} /\ b.uses[d] = 0
      BY <2>3, <2>7, Lengths DEF Holders
    <2>9. InUse(b) = {}
      BY <2>8 DEF InUse
    <2>10. Cardinality({}) = 0 /\ SumFunctionOnSet(Length, {}) = 0
      BY FS_EmptySet, Weighed
    <2>11. Exact(b)
      BY <2>3, <2>7, <2>8, <2>9, <2>10 DEF Exact
    <2>12. Apart(b)
      BY <2>3, <2>7 DEF Apart
    <2> QED  BY <2>1, <2>6, <2>11, <2>12 DEF BooksOK, Good
  <1>2. MailOK
    <2>1. << >> \in Seq(Msgs)
      OBVIOUS
    <2> QED  BY <2>1 DEF Init, MailOK, Opened
  <1>3. LocksOK
    BY BoundAssumption DEF Init, LocksOK, Stages
  <1>4. RestOK
    BY BoundAssumption DEF Init, RestOK
  <1> QED  BY <1>1, <1>2, <1>3, <1>4 DEF StorageInv

(* What is left alone stays as it is.                                      *)
LEMMA Untouched ==
    /\ BooksOK /\ UNCHANGED <<store, uses, bytes, pending>> => BooksOK'
    /\ MailOK /\ UNCHANGED <<up, partial>> => MailOK'
    /\ LocksOK /\ UNCHANGED <<stage, attempt, holder>> => LocksOK'
    /\ RestOK /\ UNCHANGED <<closed, working, left>> => RestOK'
  BY DEF BooksOK, Books, MailOK, LocksOK, RestOK, Of

(* Processed books are entered.                                            *)
LEMMA CommitOK ==
    ASSUME NEW b \in Good, Commit(b)
    PROVE  BooksOK'
  <1>1. b \in BookSet /\ Exact(b) /\ Apart(b)
    BY DEF Good
  <1>2. store' = b.store /\ uses' = b.uses /\ bytes' = b.bytes /\ pending' = b.pending
    BY DEF Commit
  <1>3. PICK a : a = [store |-> store', uses |-> uses', bytes |-> bytes', pending |-> pending',
                      out |-> << >>, todo |-> << >>]
    OBVIOUS
  <1>4. << >> \in Seq(Waiters) /\ << >> \in Seq(Answers)
    OBVIOUS
  <1>5. a \in BookSet
    BY <1>1, <1>2, <1>3, <1>4, Fields DEF BookSet
  <1>6. a.store = b.store /\ a.uses = b.uses /\ a.bytes = b.bytes /\ a.pending = b.pending
    BY <1>2, <1>3
  <1>7. InUse(a) = InUse(b) /\ \A d : Holders(a, d) = Holders(b, d)
    BY <1>6 DEF InUse, Holders
  <1>8. Exact(a) /\ Apart(a)
    BY <1>1, <1>6, <1>7 DEF Exact, Apart
  <1> QED  BY <1>3, <1>5, <1>8 DEF BooksOK, Books, Good

(* A part of what is under way.                                            *)
LEMMA PartOf ==
    ASSUME NEW T, NEW s \in Seq(T), NEW k \in Int, NEW l \in 1 .. 2, k <= Len(s)
    PROVE  SubSeq(s, l, k) \in Seq(T)
  <1>1. \A i \in l .. k : s[i] \in T
    OBVIOUS
  <1> QED  BY <1>1

(* One client's messages are replaced by others.                           *)
LEMMA UpUpdate ==
    ASSUME MailOK, NEW c \in Client, NEW q \in Seq(Msgs), up' = [up EXCEPT ![c] = q],
           UNCHANGED partial
    PROVE  MailOK'
  BY DEF MailOK

-----------------------------------------------------------------------------
(* The actions.                                                            *)

(* The server receives a message.                                          *)
LEMMA ReceiveInv ==
    ASSUME StorageInv, NEW c \in Client, Receive(c)
    PROVE  StorageInv'
  <1>1. BooksOK /\ MailOK /\ LocksOK /\ RestOK
    BY DEF StorageInv
  <1>2. LocksOK'
    BY <1>1, Untouched DEF Receive, caller, conn
  <1>3. PICK q \in Seq(Msgs) : q = up[c]
    BY <1>1 DEF MailOK
  <1>4. q # << >>
    BY <1>3 DEF Receive
  <1>5. PICK m \in Msgs : m = Head(q)
    BY <1>3, <1>4, Parted
  <1>6. PICK t \in Seq(Msgs) : t = Tail(q)
    BY <1>3, <1>4, Parted
  <1>7. m \in Answers /\ m.data \in Stuff /\ m.head \in Heads /\ m.head.from \in Ids
        /\ (m.data = Headers => m.head \in Request) /\ (m.data = IdBytes => m.head.from \in Id)
    BY <1>5 DEF Msgs, Answers, Heads
  <1>8. PICK p0 \in Opened : p0 = partial[c]
    BY <1>1 DEF MailOK
  <1>9. PICK p : p = [p0 EXCEPT !.from = m.head.from]
    OBVIOUS
  <1>10. working' = working /\ left' = left
    BY DEF Receive, conn
  <1>11. Books \in Good
    BY <1>1 DEF BooksOK
  <1>12. ASSUME Completes(c, m)
         PROVE  p0 \in Request /\ p0.type \in {"set", "duplicate"}
    <2>1. p0 # NoHeader /\ p0.len = LengthOf(m.data)
      BY <1>8, <1>12 DEF Completes
    <2>2. LengthOf(m.data) \in Nat
      BY <1>7, Lengths
    <2>3. Garbage.len = -1
      BY DEF Garbage, NoHeader
    <2>4. p0 # Garbage
      BY <2>1, <2>2, <2>3
    <2> QED  BY <1>8, <2>1, <2>4 DEF Opened
  <1>13. ASSUME Completes(c, m), p.type = "duplicate" => m.data = IdBytes,
                partial' = [partial EXCEPT ![c] = NoHeader],
                Commit(Process(Books, p, m.data)), up' = [up EXCEPT ![c] = t], closed' = closed
         PROVE  StorageInv'
    <2>1. p0 \in Request /\ p0.type \in {"set", "duplicate"}
      BY <1>12, <1>13
    <2>2. p \in Request /\ p.type = p0.type /\ p.from = m.head.from
      BY <1>7, <1>9, <2>1 DEF Request
    <2>3. PICK b : b = Process(Books, p, m.data)
      OBVIOUS
    <2>4. b \in Good
      BY <1>7, <1>11, <1>13, <2>2, <2>3, ProcessGood
    <2>5. BooksOK'
      BY <1>13, <2>3, <2>4, CommitOK
    <2>6. MailOK'
      BY <1>1, <1>6, <1>13 DEF MailOK, Opened
    <2>7. RestOK'
      BY <1>1, <1>10, <1>13, Untouched
    <2> QED  BY <1>2, <2>5, <2>6, <2>7 DEF StorageInv
  <1>14. ASSUME NEW o \in Opened, partial' = [partial EXCEPT ![c] = o], up' = [up EXCEPT ![c] = t],
                UNCHANGED <<store, uses, bytes, pending, down, closed>>
         PROVE  StorageInv'
    <2>1. MailOK'
      BY <1>1, <1>6, <1>14 DEF MailOK
    <2> QED  BY <1>1, <1>2, <1>10, <1>14, <2>1, Untouched DEF StorageInv
  <1>15. ASSUME m.data = Headers, m.head.type \in {"get", "delete"},
                partial' = [partial EXCEPT ![c] = NoHeader],
                Commit(Process(Books, m.head, None)), up' = [up EXCEPT ![c] = t], closed' = closed
         PROVE  StorageInv'
    <2>1. PICK r \in Request : r = m.head
      BY <1>7, <1>15
    <2>2. PICK b : b = Process(Books, r, None)
      OBVIOUS
    <2>3. b \in Good
      BY <1>11, <1>15, <2>1, <2>2, ProcessGood
    <2>4. BooksOK'
      BY <1>15, <2>1, <2>2, <2>3, CommitOK
    <2>5. MailOK'
      BY <1>1, <1>6, <1>15 DEF MailOK, Opened
    <2>6. RestOK'
      BY <1>1, <1>10, <1>15, Untouched
    <2> QED  BY <1>2, <2>4, <2>5, <2>6 DEF StorageInv
  <1>16. ASSUME partial' = [partial EXCEPT ![c] = NoHeader], closed' = closed \cup {c},
                \E k \in 1 .. Len(up[c]) : up' = [up EXCEPT ![c] = SubSeq(@, 2, k)],
                UNCHANGED <<store, uses, bytes, pending>>
         PROVE  StorageInv'
    <2>1. PICK k \in 1 .. Len(q) : up' = [up EXCEPT ![c] = SubSeq(q, 2, k)]
      BY <1>1, <1>3, <1>16 DEF MailOK
    <2>2. PICK u : u = SubSeq(q, 2, k)
      OBVIOUS
    <2>3. u \in Seq(Msgs)
      <3>1. k \in Int /\ k <= Len(q)
        OBVIOUS
      <3> QED  BY <2>2, <3>1, PartOf
    <2>4. MailOK'
      BY <1>1, <1>16, <2>1, <2>2, <2>3 DEF MailOK, Opened
    <2>5. RestOK'
      BY <1>1, <1>10, <1>16 DEF RestOK
    <2> QED  BY <1>1, <1>2, <1>16, <2>4, <2>5, Untouched DEF StorageInv
  <1>17. \/ /\ Completes(c, m)
            /\ p.type = "duplicate" => m.data = IdBytes
            /\ partial' = [partial EXCEPT ![c] = NoHeader]
            /\ Commit(Process(Books, p, m.data))
            /\ up' = [up EXCEPT ![c] = t] /\ UNCHANGED closed
         \/ /\ ~ Completes(c, m) /\ m.data = Headers /\ m.head.type \in {"set", "duplicate"}
            /\ partial' = [partial EXCEPT ![c] = m.head]
            /\ up' = [up EXCEPT ![c] = t] /\ UNCHANGED <<store, uses, bytes, pending, down, closed>>
         \/ /\ ~ Completes(c, m) /\ m.data = Headers /\ m.head.type \in {"get", "delete"}
            /\ partial' = [partial EXCEPT ![c] = NoHeader]
            /\ Commit(Process(Books, m.head, None))
            /\ up' = [up EXCEPT ![c] = t] /\ UNCHANGED closed
         \/ /\ ~ Completes(c, m) /\ m.data # Headers
            /\ partial' = [partial EXCEPT ![c] = Garbage]
            /\ up' = [up EXCEPT ![c] = t] /\ UNCHANGED <<store, uses, bytes, pending, down, closed>>
         \/ /\ m.data # Headers
            /\ Completes(c, m) => partial[c].type = "duplicate" /\ m.data # IdBytes
            /\ partial' = [partial EXCEPT ![c] = NoHeader]
            /\ closed' = closed \cup {c}
            /\ \E k \in 1 .. Len(up[c]) : up' = [up EXCEPT ![c] = SubSeq(@, 2, k)]
            /\ UNCHANGED <<store, uses, bytes, pending>>
    BY <1>3, <1>5, <1>6, <1>8, <1>9 DEF Receive
  <1>18. m.data = Headers /\ m.head.type \in {"set", "duplicate"} => m.head \in Opened
    BY <1>7 DEF Opened
  <1>19. Garbage \in Opened
    BY DEF Opened
  <1> QED  BY <1>13, <1>14, <1>15, <1>16, <1>17, <1>18, <1>19

(* What a caller sends.                                                    *)
LEMMA SentType ==
    ASSUME StorageInv, NEW j \in Job
    PROVE  /\ Of(j) \in Client /\ Header(j) \in Msgs
           /\ Payload(j) \in Msgs
  <1>1. /\ Work[j].client \in Client /\ Work[j].name \in Name /\ Work[j].from \in Name
        /\ Work[j].type \in Types
    BY WorkAssumption DEF Types
  <1>2. attempt[j] \in 1 .. MaxAttempts /\ 1 \in 1 .. MaxAttempts
    BY BoundAssumption DEF StorageInv, LocksOK
  <1>3. IdOf(j) \in Id /\ From(j) \in Id
    BY <1>1, <1>2 DEF IdOf, From, Id
  <1>4. Content[Work[j].name] \in Data
    BY <1>1 DEF Data
  <1>5. Of(j) \in Client
    BY <1>1 DEF Of
  <1>6. PICK len \in Int : len = CASE Work[j].type = "set" -> Size[Content[Work[j].name]]
                                   [] Work[j].type = "duplicate" -> IdLen
                                   [] OTHER -> 0
    BY <1>1, <1>4, SizeAssumption
  <1>7. PICK h : h = [type |-> Work[j].type, id |-> IdOf(j), from |-> << >>, job |-> j, len |-> len]
    OBVIOUS
  <1>8. h \in Request /\ h \in Heads
    BY <1>1, <1>3, <1>7 DEF Request, Heads, Ids
  <1>9. Header(j) = [to |-> Of(j), data |-> Headers, head |-> h]
    BY <1>6, <1>7 DEF Header, Message
  <1>10. Header(j) \in Msgs
    BY <1>5, <1>8, <1>9 DEF Msgs, Answers, Stuff, Headers, IdBytes
  <1>11. Payload(j) \in Msgs
    <2>1. NoHeader \in Heads
      BY DEF NoHeader, Heads, Types, Ids
    <2>2. CASE Work[j].type = "set"
      <3>1. PICK d \in Data : d = Content[Work[j].name]
        BY <1>4
      <3>2. d # Headers /\ d # IdBytes
        BY DataAssumption
      <3>3. Payload(j) = [to |-> Of(j), data |-> d, head |-> NoHeader]
        BY <2>2, <3>1 DEF Payload, Message
      <3> QED  BY <1>5, <2>1, <3>2, <3>3 DEF Msgs, Answers, Stuff
    <2>3. CASE Work[j].type # "set"
      <3>1. PICK g : g = [NoHeader EXCEPT !.from = From(j)]
        OBVIOUS
      <3>2. g \in Heads /\ g.from = From(j)
        BY <1>3, <3>1 DEF NoHeader, Heads, Types, Ids
      <3>3. Payload(j) = [to |-> Of(j), data |-> IdBytes, head |-> g]
        BY <2>3, <3>1 DEF Payload, Message
      <3> QED  BY <1>3, <1>5, <3>2, <3>3 DEF Msgs, Answers, Stuff, Headers, IdBytes
    <2> QED  BY <2>2, <2>3
  <1> QED  BY <1>5, <1>10, <1>11

(* A connection is lost: some of what was under way arrives.               *)
LEMMA CutsInv ==
    ASSUME StorageInv, NEW c \in Client, Cuts(c), UNCHANGED partial, working' \subseteq working
    PROVE  MailOK' /\ RestOK'
  <1>1. MailOK /\ RestOK
    BY DEF StorageInv
  <1>2. PICK q \in Seq(Msgs) : q = up[c]
    BY <1>1 DEF MailOK
  <1>3. PICK k \in 0 .. Len(q) : up' = [up EXCEPT ![c] = SubSeq(q, 1, k)]
    BY <1>1, <1>2 DEF Cuts, MailOK
  <1>4. PICK u : u = SubSeq(q, 1, k)
    OBVIOUS
  <1>5. u \in Seq(Msgs)
    <2>1. k \in Int /\ k <= Len(q)
      OBVIOUS
    <2> QED  BY <1>4, <2>1, PartOf
  <1>6. MailOK'
    BY <1>1, <1>3, <1>4, <1>5, UpUpdate
  <1>7. RestOK'
    BY <1>1, BoundAssumption DEF RestOK, Cuts, Happens
  <1> QED  BY <1>6, <1>7

(* A call raises.  Its caller held the connector's lock or nobody did.     *)
LEMMA RaisesInv ==
    ASSUME LocksOK, NEW j \in Job, Raises(j), stage[j] # "payload" => holder[Of(j)] \in {j, NoJob}
    PROVE  LocksOK' /\ working' \subseteq working
  <1>1. /\ stage \in [Job -> Stages] /\ attempt \in [Job -> 1 .. MaxAttempts]
        /\ holder \in [Client -> Job \cup {NoJob}]
        /\ \A c \in Client : holder[c] # NoJob =>
              Of(holder[c]) = c /\ stage[holder[c]] \in {"payload", "reply"}
        /\ \A i \in Job : stage[i] = "payload" => holder[Of(i)] = i
    BY DEF LocksOK
  <1>2. Of(j) \in Client /\ NoJob \notin Job
    BY WorkAssumption DEF Of
  <1>3. holder' = [holder EXCEPT ![Of(j)] = NoJob]
    BY DEF Raises, Unlocked
  <1>4. PICK s \in {"queued", "raised"} : stage' = [stage EXCEPT ![j] = s]
    BY DEF Raises
  <1>5. attempt' \in [Job -> 1 .. MaxAttempts] /\ working' \subseteq working
    BY <1>1, BoundAssumption DEF Raises
  <1>6. stage' \in [Job -> Stages] /\ holder' \in [Client -> Job \cup {NoJob}]
    BY <1>1, <1>2, <1>3, <1>4 DEF Stages
  <1>7. holder[Of(j)] \in {j, NoJob}
    BY <1>1
  <1>8. ASSUME NEW c \in Client, holder'[c] # NoJob
        PROVE  Of(holder'[c]) = c /\ stage'[holder'[c]] \in {"payload", "reply"}
    <2>1. c # Of(j) /\ holder'[c] = holder[c]
      BY <1>1, <1>2, <1>3, <1>8
    <2>2. Of(holder[c]) = c /\ stage[holder[c]] \in {"payload", "reply"} /\ holder[c] \in Job
      BY <1>1, <1>8, <2>1
    <2>3. holder[c] # j
      BY <2>1, <2>2
    <2> QED  BY <1>1, <1>4, <2>1, <2>2, <2>3
  <1>9. ASSUME NEW i \in Job, stage'[i] = "payload"
        PROVE  holder'[Of(i)] = i
    <2>1. i # j /\ stage[i] = "payload"
      BY <1>1, <1>4, <1>9
    <2>2. holder[Of(i)] = i
      BY <1>1, <2>1
    <2>3. Of(i) # Of(j)
      BY <1>2, <1>7, <2>1, <2>2
    <2> QED  BY <1>1, <1>3, <2>2, <2>3
  <1> QED  BY <1>5, <1>6, <1>8, <1>9 DEF LocksOK, Of

(* A call goes on: j takes the lock or leaves it.                          *)
LEMMA LocksStep ==
    ASSUME LocksOK, NEW j \in Job, holder[Of(j)] \in {j, NoJob}, stage[j] \in {"new", "queued", "payload"},
           NEW s \in Stages, stage' = [stage EXCEPT ![j] = s], UNCHANGED attempt,
           NEW h \in {j, NoJob}, holder' = [holder EXCEPT ![Of(j)] = h],
           h = j <=> s \in {"payload", "reply"}
    PROVE  LocksOK'
  <1>1. /\ stage \in [Job -> Stages] /\ attempt \in [Job -> 1 .. MaxAttempts]
        /\ holder \in [Client -> Job \cup {NoJob}]
        /\ \A c \in Client : holder[c] # NoJob =>
              Of(holder[c]) = c /\ stage[holder[c]] \in {"payload", "reply"}
        /\ \A i \in Job : stage[i] = "payload" => holder[Of(i)] = i
    BY DEF LocksOK
  <1>2. Of(j) \in Client /\ NoJob \notin Job
    BY WorkAssumption DEF Of
  <1>3. stage' \in [Job -> Stages] /\ holder' \in [Client -> Job \cup {NoJob}] /\ attempt' = attempt
    BY <1>1, <1>2
  <1>4. ASSUME NEW c \in Client, holder'[c] # NoJob
        PROVE  Of(holder'[c]) = c /\ stage'[holder'[c]] \in {"payload", "reply"}
    <2>1. CASE c = Of(j)
      BY <1>1, <1>2, <1>4, <2>1
    <2>2. CASE c # Of(j)
      <3>1. holder'[c] = holder[c] /\ holder[c] \in Job
        BY <1>1, <1>4, <2>2
      <3>2. Of(holder[c]) = c /\ stage[holder[c]] \in {"payload", "reply"} /\ holder[c] # j
        BY <1>1, <1>4, <2>2, <3>1
      <3> QED  BY <1>1, <3>1, <3>2
    <2> QED  BY <2>1, <2>2
  <1>5. ASSUME NEW i \in Job, stage'[i] = "payload"
        PROVE  holder'[Of(i)] = i
    <2>1. CASE i = j
      BY <1>1, <1>2, <1>5, <2>1
    <2>2. CASE i # j
      <3>1. stage[i] = "payload" /\ holder[Of(i)] = i
        BY <1>1, <1>5, <2>2
      <3>2. Of(i) # Of(j)
        BY <1>2, <2>2, <3>1
      <3> QED  BY <1>1, <3>1, <3>2
    <2> QED  BY <2>1, <2>2
  <1> QED  BY <1>1, <1>3, <1>4, <1>5 DEF LocksOK, Of

(* A call starts.                                                          *)
LEMMA StartInv ==
    ASSUME StorageInv, NEW j \in Job, Start(j)
    PROVE  StorageInv'
  <1>1. LocksOK
    BY DEF StorageInv
  <1>2. PICK s \in {"future", "queued"} : stage' = [stage EXCEPT ![j] = s]
    BY DEF Start
  <1>3. stage[j] = "new" /\ UNCHANGED <<attempt, holder>>
    BY DEF Start
  <1>4. LocksOK'
    BY <1>1, <1>2, <1>3, WorkAssumption DEF LocksOK, Of, Stages
  <1> QED  BY <1>4, Untouched DEF StorageInv, Start, server, network

(* A message is sent, and the call goes on as Returns says.                *)
LEMMA SendInv ==
    ASSUME StorageInv, NEW j \in Job, NEW m \in Msgs,
           stage[j] \in {"queued", "payload"}, holder[Of(j)] \in {j, NoJob},
           NEW s \in Stages, NEW h \in {j, NoJob}, h = j <=> s \in {"payload", "reply"},
           SendMessage(j, m, stage' = [stage EXCEPT ![j] = s] /\ holder' = [holder EXCEPT ![Of(j)] = h]),
           UNCHANGED <<server, result, gets, reading>>
    PROVE  StorageInv'
  <1>1. BooksOK /\ MailOK /\ LocksOK /\ RestOK
    BY DEF StorageInv
  <1>2. BooksOK' /\ UNCHANGED partial
    BY <1>1, Untouched DEF server
  <1>3. Of(j) \in Client
    BY WorkAssumption DEF Of
  <1>4. ASSUME stage' = [stage EXCEPT ![j] = s], holder' = [holder EXCEPT ![Of(j)] = h], UNCHANGED attempt
        PROVE  LocksOK'
    BY <1>1, <1>4, LocksStep
  <1>5. Raises(j) => LocksOK' /\ working' \subseteq working
    BY <1>1, RaisesInv
  <1>6. CASE /\ up' = [up EXCEPT ![Of(j)] = Append(@, m)]
             /\ stage' = [stage EXCEPT ![j] = s] /\ holder' = [holder EXCEPT ![Of(j)] = h]
             /\ UNCHANGED <<down, closed, attempt, working, left>>
    <2>1. PICK q \in Seq(Msgs) : q = up[Of(j)]
      BY <1>1, <1>3 DEF MailOK
    <2>2. Append(q, m) \in Seq(Msgs)
      OBVIOUS
    <2>3. PICK u \in Seq(Msgs) : u = Append(q, m)
      BY <2>2
    <2>4. up' = [up EXCEPT ![Of(j)] = u]
      BY <1>6, <2>1, <2>3
    <2>5. MailOK'
      BY <1>1, <1>2, <1>3, <2>3, <2>4, UpUpdate
    <2> QED  BY <1>1, <1>2, <1>4, <1>6, <2>5, Untouched DEF StorageInv
  <1>7. CASE /\ Cuts(Of(j))
             /\ stage' = [stage EXCEPT ![j] = s] /\ holder' = [holder EXCEPT ![Of(j)] = h]
             /\ UNCHANGED <<attempt, working>>
    BY <1>2, <1>3, <1>4, <1>7, CutsInv DEF StorageInv
  <1>8. CASE Cuts(Of(j)) /\ Raises(j)
    BY <1>2, <1>3, <1>5, <1>8, CutsInv DEF StorageInv
  <1>9. CASE Raises(j) /\ UNCHANGED <<network, left>>
    <2>1. MailOK' /\ RestOK'
      BY <1>1, <1>2, <1>5, <1>9 DEF MailOK, RestOK, network
    <2> QED  BY <1>2, <1>5, <1>9, <2>1 DEF StorageInv
  <1> QED  BY <1>6, <1>7, <1>8, <1>9 DEF SendMessage

(* The stage and the lock of a call whose request is sent.                 *)
LEMMA SentStage ==
    ASSUME LocksOK, NEW j \in Job
    PROVE  \E s \in Stages, h \in {j, NoJob} :
              /\ s = Sent(j) /\ Released(j) = [holder EXCEPT ![Of(j)] = h]
              /\ h = j <=> s \in {"payload", "reply"}
  <1>1. PICK s \in {"reply", "future", "done"} : s = Sent(j)
    BY DEF Sent
  <1>2. PICK h \in {j, NoJob} : h = IF s = "reply" THEN j ELSE NoJob
    OBVIOUS
  <1>3. Released(j) = [holder EXCEPT ![Of(j)] = h]
    BY <1>1, <1>2 DEF Released, Locked, Unlocked
  <1>4. j # NoJob
    BY WorkAssumption
  <1> QED  BY <1>1, <1>2, <1>3, <1>4 DEF Stages

(* A call sends its header, or its payload.                                *)
LEMMA SendHeaderInv ==
    ASSUME StorageInv, NEW j \in Job, SendHeader(j)
    PROVE  StorageInv'
  <1>1. stage[j] = "queued" /\ holder[Of(j)] = NoJob /\ UNCHANGED <<server, result, gets, reading>>
    BY DEF SendHeader
  <1>2. PICK m \in Msgs : m = Header(j)
    BY SentType
  <1>3. CASE Carries(j)
    <2>1. SendMessage(j, m, stage' = [stage EXCEPT ![j] = "payload"] /\ holder' = [holder EXCEPT ![Of(j)] = j])
      BY <1>2, <1>3 DEF SendHeader, SendMessage, Locked
    <2>2. "payload" \in Stages /\ j \in {j, NoJob} /\ j # NoJob
      BY WorkAssumption DEF Stages
    <2> QED  BY <1>1, <2>1, <2>2, SendInv
  <1>4. CASE ~ Carries(j)
    <2>1. PICK s \in Stages, h \in {j, NoJob} :
              /\ s = Sent(j) /\ Released(j) = [holder EXCEPT ![Of(j)] = h]
              /\ h = j <=> s \in {"payload", "reply"}
      BY SentStage DEF StorageInv
    <2>2. SendMessage(j, m, stage' = [stage EXCEPT ![j] = s] /\ holder' = [holder EXCEPT ![Of(j)] = h])
      BY <1>2, <1>4, <2>1 DEF SendHeader, SendMessage
    <2> QED  BY <1>1, <2>1, <2>2, SendInv
  <1> QED  BY <1>3, <1>4

LEMMA SendPayloadInv ==
    ASSUME StorageInv, NEW j \in Job, SendPayload(j)
    PROVE  StorageInv'
  <1>1. stage[j] = "payload" /\ UNCHANGED <<server, result, gets, reading>>
    BY DEF SendPayload
  <1>2. holder[Of(j)] = j
    BY <1>1 DEF StorageInv, LocksOK
  <1>3. PICK m \in Msgs : m = Payload(j)
    BY SentType
  <1>4. PICK s \in Stages, h \in {j, NoJob} :
            /\ s = Sent(j) /\ Released(j) = [holder EXCEPT ![Of(j)] = h]
            /\ h = j <=> s \in {"payload", "reply"}
    BY SentStage DEF StorageInv
  <1>5. SendMessage(j, m, stage' = [stage EXCEPT ![j] = s] /\ holder' = [holder EXCEPT ![Of(j)] = h])
    BY <1>3, <1>4 DEF SendPayload, SendMessage
  <1> QED  BY <1>1, <1>2, <1>4, <1>5, SendInv

(* An answer is delivered: to the caller that holds the lock, or to the    *)
(* gets that wait for the future.                                          *)
LEMMA DeliverInv ==
    ASSUME LocksOK, NEW c \in Client, NEW h, NEW d, Reads(c), Deliver(c, h, d), UNCHANGED attempt
    PROVE  LocksOK'
  <1>1. /\ stage \in [Job -> Stages] /\ attempt \in [Job -> 1 .. MaxAttempts]
        /\ holder \in [Client -> Job \cup {NoJob}]
        /\ \A e \in Client : holder[e] # NoJob =>
              Of(holder[e]) = e /\ stage[holder[e]] \in {"payload", "reply"}
        /\ \A i \in Job : stage[i] = "payload" => holder[Of(i)] = i
    BY DEF LocksOK
  <1>2. PICK W : W = Woken(c, h)
    OBVIOUS
  <1>3. /\ stage' = [j \in Job |-> IF j \in W THEN "done" ELSE stage[j]]
        /\ holder' = IF c \in Sync THEN [holder EXCEPT ![c] = NoJob] ELSE holder
    BY <1>2 DEF Deliver
  <1>4. c \in Sync => holder[c] # NoJob /\ W = {holder[c]}
    BY <1>2 DEF Woken, Reads
  <1>5. c \notin Sync => \A j \in W : stage[j] = "future"
    BY <1>2 DEF Woken, WaitersOf
  <1>6. stage' \in [Job -> Stages] /\ holder' \in [Client -> Job \cup {NoJob}]
    BY <1>1, <1>3 DEF Stages
  <1>7. ASSUME NEW e \in Client, holder'[e] # NoJob
        PROVE  Of(holder'[e]) = e /\ stage'[holder'[e]] \in {"payload", "reply"}
    <2>1. holder'[e] = holder[e] /\ (c \in Sync => e # c)
      BY <1>1, <1>3, <1>7
    <2>2. holder[e] \in Job /\ Of(holder[e]) = e /\ stage[holder[e]] \in {"payload", "reply"}
      BY <1>1, <1>7, <2>1
    <2>3. holder[e] \notin W
      <3>1. CASE c \in Sync
        <4>1. Of(holder[c]) = c
          BY <1>1, <1>4, <3>1
        <4> QED  BY <1>4, <2>1, <2>2, <3>1, <4>1
      <3>2. CASE c \notin Sync
        BY <1>5, <2>2, <3>2
      <3> QED  BY <3>1, <3>2
    <2> QED  BY <1>3, <2>1, <2>2, <2>3
  <1>8. ASSUME NEW i \in Job, stage'[i] = "payload"
        PROVE  holder'[Of(i)] = i
    <2>1. i \notin W /\ stage[i] = "payload"
      BY <1>3, <1>8
    <2>2. holder[Of(i)] = i /\ Of(i) \in Client
      BY <1>1, <2>1, WorkAssumption DEF Of
    <2>3. c \in Sync => Of(i) # c
      BY <1>4, <2>1, <2>2
    <2> QED  BY <1>1, <1>3, <2>2, <2>3
  <1> QED  BY <1>1, <1>6, <1>7, <1>8 DEF LocksOK, Of

(* The connectors read.                                                    *)
LEMMA ReadInv ==
    ASSUME StorageInv, NEW c \in Client, ReadHeader(c) \/ ReadPayload(c) \/ ReadFails(c)
    PROVE  StorageInv'
  <1>1. BooksOK /\ MailOK /\ LocksOK /\ RestOK
    BY DEF StorageInv
  <1>2. BooksOK' /\ MailOK' /\ UNCHANGED attempt
    BY <1>1, Untouched DEF ReadHeader, ReadPayload, ReadFails, server, network, caller
  <1>3. RestOK'
    BY <1>1 DEF RestOK, ReadHeader, ReadPayload, ReadFails, network
  <1>4. Reads(c)
    BY DEF ReadHeader, ReadPayload, ReadFails
  <1>5. \/ UNCHANGED <<stage, holder>>
        \/ Deliver(c, Head(down[c]).head, Empty)
        \/ Deliver(c, reading[c], Head(down[c]).data)
    BY DEF ReadHeader, ReadPayload, ReadFails, caller
  <1>6. ASSUME Deliver(c, Head(down[c]).head, Empty)
        PROVE  LocksOK'
    <2>1. PICK h : h = Head(down[c]).head
      OBVIOUS
    <2>2. Deliver(c, h, Empty)
      BY <1>6, <2>1
    <2> QED  BY <1>1, <1>2, <1>4, <2>2, DeliverInv
  <1>7. ASSUME Deliver(c, reading[c], Head(down[c]).data)
        PROVE  LocksOK'
    <2>1. PICK h : h = reading[c]
      OBVIOUS
    <2>2. PICK d : d = Head(down[c]).data
      OBVIOUS
    <2>3. Deliver(c, h, d)
      BY <1>7, <2>1, <2>2
    <2> QED  BY <1>1, <1>2, <1>4, <2>3, DeliverInv
  <1>8. UNCHANGED <<stage, holder>> => LocksOK'
    BY <1>1, <1>2, Untouched
  <1> QED  BY <1>2, <1>3, <1>5, <1>6, <1>7, <1>8 DEF StorageInv

LEMMA ReadClosedInv ==
    ASSUME StorageInv, NEW c \in Client, ReadClosed(c)
    PROVE  StorageInv'
  <1>1. BooksOK /\ MailOK /\ LocksOK /\ RestOK
    BY DEF StorageInv
  <1>2. BooksOK' /\ MailOK' /\ UNCHANGED <<closed, left>>
    BY <1>1, Untouched DEF ReadClosed, server, network
  <1>3. CASE c \in Sync
    <2>1. PICK j \in Job : j = holder[c]
      BY <1>1, <1>3 DEF ReadClosed, Reads, LocksOK
    <2>2. Of(j) = c /\ holder[Of(j)] = j
      BY <1>1, <2>1, WorkAssumption DEF LocksOK
    <2>3. Raises(j)
      BY <1>3, <2>1 DEF ReadClosed
    <2>4. LocksOK' /\ working' \subseteq working
      BY <1>1, <2>2, <2>3, RaisesInv
    <2> QED  BY <1>1, <1>2, <2>4 DEF StorageInv, RestOK
  <1>4. CASE c \notin Sync
    <2>1. LocksOK'
      BY <1>1, <1>4, Untouched DEF ReadClosed
    <2>2. RestOK'
      BY <1>1, <1>2, <1>4 DEF ReadClosed, RestOK
    <2> QED  BY <1>2, <2>1, <2>2 DEF StorageInv
  <1> QED  BY <1>3, <1>4

(* A connection is lost, a processor dies.                                 *)
LEMMA CutInv ==
    ASSUME StorageInv, NEW c \in Client, Cut(c)
    PROVE  StorageInv'
  <1>1. BooksOK' /\ LocksOK' /\ Cuts(c) /\ UNCHANGED partial /\ working' \subseteq working
    BY Untouched DEF StorageInv, Cut, server, caller, conn
  <1> QED  BY <1>1, CutsInv DEF StorageInv

LEMMA DieInv ==
    ASSUME StorageInv, NEW c \in Client, Die(c)
    PROVE  StorageInv'
  <1>1. BooksOK /\ MailOK /\ LocksOK /\ RestOK
    BY DEF StorageInv
  <1>2. BooksOK' /\ LocksOK' /\ UNCHANGED partial
    BY <1>1, Untouched DEF Die, server, caller
  <1>3. PICK q \in Seq(Msgs) : q = up[c]
    BY <1>1 DEF MailOK
  <1>4. PICK k \in 0 .. Len(q) : up' = [up EXCEPT ![c] = SubSeq(q, 1, k)]
    BY <1>1, <1>3 DEF Die, MailOK
  <1>5. PICK u : u = SubSeq(q, 1, k)
    OBVIOUS
  <1>6. u \in Seq(Msgs)
    <2>1. k \in Int /\ k <= Len(q)
      OBVIOUS
    <2> QED  BY <1>5, <2>1, PartOf
  <1>7. MailOK'
    BY <1>1, <1>2, <1>4, <1>5, <1>6, UpUpdate
  <1>8. RestOK'
    BY <1>1, BoundAssumption DEF RestOK, Die, Happens
  <1> QED  BY <1>2, <1>7, <1>8 DEF StorageInv

(* Every step keeps the invariant.                                         *)
LEMMA StorageInvNext == StorageInv /\ [Next]_vars => StorageInv'
  <1> SUFFICES ASSUME StorageInv, [Next]_vars PROVE StorageInv'
    OBVIOUS
  <1>1. CASE UNCHANGED vars
    BY <1>1, Untouched DEF StorageInv, vars, server, network, caller, conn
  <1>2. ASSUME NEW c \in Client,
               \/ Receive(c) \/ ReadHeader(c) \/ ReadPayload(c) \/ ReadFails(c)
               \/ ReadClosed(c) \/ Cut(c) \/ Die(c)
        PROVE  StorageInv'
    BY <1>2, ReceiveInv, ReadInv, ReadClosedInv, CutInv, DieInv
  <1>3. ASSUME NEW j \in Job, Start(j) \/ SendHeader(j) \/ SendPayload(j)
        PROVE  StorageInv'
    BY <1>3, StartInv, SendHeaderInv, SendPayloadInv
  <1> QED  BY <1>1, <1>2, <1>3 DEF Next

\* The object manager's use counts and its total of bytes are exact after every
\* request (ObjectManager::setObject, deleteObject, duplicateObject and the recursion of
\* optionallySendPendingRequests), and the lock of a connector belongs to a caller that is
\* in the middle of a request: for any clients, objects, calls and lost connections.
THEOREM StorageCountsExact == Spec => []CountsExact
  <1>1. Init => StorageInv
    BY InitInv
  <1>2. StorageInv /\ [Next]_vars => StorageInv'
    BY StorageInvNext
  <1>3. StorageInv => CountsExact
    BY InvImplies
  <1> QED  BY <1>1, <1>2, <1>3, PTL DEF Spec

\* No wake-up is lost at the server: a request waits in pendingRequests only while its
\* object is absent, whichever SET or chain of duplicates has brought other objects.
THEOREM StorageNoLostWakeup == Spec => []WaitsForAbsent
  <1>1. Init => StorageInv
    BY InitInv
  <1>2. StorageInv /\ [Next]_vars => StorageInv'
    BY StorageInvNext
  <1>3. StorageInv => WaitsForAbsent
    BY InvImplies
  <1> QED  BY <1>1, <1>2, <1>3, PTL DEF Spec

=============================================================================
