---------------------------- MODULE ScalingProofs ----------------------------
(***************************************************************************)
(* Theorems about Scaling for any managers, capabilities, rules, limits and *)
(* loads, each of the four policies and any bounds on the environment.     *)
(***************************************************************************)
EXTENDS Scaling, FoldTheorems

-----------------------------------------------------------------------------
(* The inductive invariant.                                                *)

(* There is an entry for every manager, and for no other.                  *)
PerManager ==
    /\ connected = [m \in Manager |-> connected[m]]
    /\ held = [m \in Manager |-> held[m]]
    /\ proc = [m \in Manager |-> proc[m]]

(* A cooldown that is running was started after the last worker was.       *)
Aged == \A m \in Manager : timer[m] # Off => age[m] >= Cooldown - timer[m]

ScalingInv == WithinCapacity /\ PerManager /\ Aged

-----------------------------------------------------------------------------
(* Numbers.                                                                *)

(* max and min of two numbers.                                             *)
LEMMA MaxTwo ==
    ASSUME NEW a \in Int, NEW b \in Int
    PROVE  Max({a, b}) = IF a >= b THEN a ELSE b
  <1> DEFINE c == IF a >= b THEN a ELSE b
  <1>1. c \in {a, b} /\ \A y \in {a, b} : c >= y
    OBVIOUS
  <1>2. \A x \in {a, b} : (\A y \in {a, b} : x >= y) => x = c
    OBVIOUS
  <1> HIDE DEF c
  <1>3. Max({a, b}) = c
    BY <1>1, <1>2 DEF Max
  <1> QED  BY <1>3 DEF c

(* min of two numbers.                                                     *)
LEMMA MinTwo ==
    ASSUME NEW a \in Int, NEW b \in Int
    PROVE  Min({a, b}) = IF a <= b THEN a ELSE b
  <1> DEFINE c == IF a <= b THEN a ELSE b
  <1>1. c \in {a, b} /\ \A y \in {a, b} : c <= y
    OBVIOUS
  <1>2. \A x \in {a, b} : (\A y \in {a, b} : x <= y) => x = c
    OBVIOUS
  <1> HIDE DEF c
  <1>3. Min({a, b}) = c
    BY <1>1, <1>2 DEF Min
  <1> QED  BY <1>3 DEF c

(* The least of a set of positive numbers.                                 *)
LEMMA MinSet ==
    ASSUME NEW S \in SUBSET Nat, S # {}
    PROVE  Min(S) \in S /\ \A x \in S : Min(S) <= x
  <1>1. \E x \in S : \A y \in S : x <= y
    BY Least
  <1> QED  BY <1>1 DEF Min

(* max(1, ceil(n / ratio)).                                                *)
LEMMA NeededType ==
    ASSUME NEW n \in Nat, NEW r \in Nat \ {0}
    PROVE  Needed(n, r) \in Nat
  <1>1. (n + r - 1) \div r \in Int
    OBVIOUS
  <1>2. Max({1, (n + r - 1) \div r}) = IF 1 >= (n + r - 1) \div r THEN 1 ELSE (n + r - 1) \div r
    BY <1>1, MaxTwo
  <1> QED  BY <1>1, <1>2 DEF Needed

(* A limit of -1 leaves the number alone, any other caps it.               *)
LEMMA ClampedType ==
    ASSUME NEW m \in Manager, NEW n \in Int
    PROVE  Clamped(m, n) \in Int /\ Max({0, Clamped(m, n)}) \in Nat
  <1>1. MaxConcurrency[m] \in Int
    BY LimitAssumption
  <1>2. Clamped(m, n) \in Int
    BY <1>1, MinTwo DEF Clamped
  <1> QED  BY <1>2, MaxTwo

-----------------------------------------------------------------------------
(* The requests of the policies are natural numbers.                       *)

(* The load is a natural number, as a whole and of each kind.              *)
LEMMA TaskCountType ==
    ASSUME TypeOK
    PROVE  TaskCount \in Nat /\ \A k \in Kind : tasks[k] \in Nat
  <1>1. tasks \in [Kind -> Nat]
    <2>1. tasks \in [Kind -> Loads \cup {0}] /\ Loads \cup {0} \subseteq Nat
      BY FiniteAssumption DEF TypeOK
    <2> QED  BY <2>1
  <1>2. DOMAIN tasks = Kind /\ \A k \in Kind : tasks[k] \in Nat
    BY <1>1
  <1>3. SumFunctionOnSet(tasks, Kind) \in Nat
    BY <1>2, FiniteAssumption, SumAdd
  <1> QED  BY <1>2, <1>3 DEF TaskCount, SumFunction

(* The workers of a manager can be counted.                                *)
LEMMA WorkerCountType ==
    ASSUME TypeOK, NEW m \in Manager
    PROVE  WorkerCount(m) \in Nat
  <1>1. PICK n \in Nat : n = Slots[m]
    BY BoundAssumption
  <1>2. IsFiniteSet(1 .. n)
    BY FS_Interval
  <1>3. connected[m] \in SUBSET (1 .. n)
    BY <1>1 DEF TypeOK, Slot
  <1>4. IsFiniteSet(connected[m])
    BY <1>2, <1>3, FS_Subset
  <1> QED  BY <1>4, FS_CardinalityType DEF WorkerCount

(* _compute_desired_worker_count of the vanilla policy.                    *)
LEMMA VanillaType ==
    ASSUME TypeOK, NEW m \in Manager
    PROVE  ComputeDesiredWorkerCount(m) \in Nat
  <1> DEFINE current == WorkerCount(m)
             wanted  == CASE AllWorkers = 0 /\ TaskCount > 0 -> current + 1
                          [] AllWorkers = 0 /\ TaskCount = 0 -> current
                          [] AllWorkers > 0 /\ TaskCount > Upper * AllWorkers -> current + 1
                          [] AllWorkers > 0 /\ TaskCount < AllWorkers ->
                                 IF TaskCount = 0 THEN 0 ELSE Needed(TaskCount, Upper)
                          [] OTHER -> current
  <1>1. current \in Int /\ Needed(TaskCount, Upper) \in Int
    BY WorkerCountType, TaskCountType, NeededType, RatioAssumption
  <1>2. wanted \in Int
    <2> HIDE DEF current
    <2> QED  BY <1>1
  <1> HIDE DEF wanted
  <1>3. Max({0, Clamped(m, wanted)}) \in Nat
    BY <1>2, ClampedType
  <1> QED  BY <1>3 DEF ComputeDesiredWorkerCount, wanted

(* _effective_capacity of a rule.                                          *)
LEMMA CapacityType ==
    ASSUME NEW r \in Range(Rules), r.id \in Manager
    PROVE  EffectiveCapacity(r) \in Int
  <1>1. MaxConcurrency[r.id] \in Int
    BY LimitAssumption
  <1>2. r.cap = Omitted \/ r.cap \in Nat
    BY RulesAssumption
  <1> QED  BY <1>1, <1>2, MinTwo DEF EffectiveCapacity

(* The place of a manager's rule in the order of priority.                 *)
Place(m) == CHOOSE i \in DOMAIN Rules : Rules[i].id = m

(* The rule of a manager is the first with its id.                         *)
LEMMA PlaceFacts ==
    ASSUME NEW m, HasRule(m)
    PROVE  /\ Place(m) \in Nat \ {0} /\ Place(m) \in DOMAIN Rules /\ Rules[Place(m)].id = m
           /\ RuleOf(m) = Rules[Place(m)] /\ RuleOf(m) \in Range(Rules)
           /\ Len(Rules) \in Nat /\ DOMAIN Rules = 1 .. Len(Rules)
  <1>1. Len(Rules) \in Nat /\ DOMAIN Rules = 1 .. Len(Rules)
    BY RulesAssumption
  <1>2. \E i \in DOMAIN Rules : Rules[i].id = m
    BY DEF HasRule, Range
  <1>3. Place(m) \in DOMAIN Rules /\ Rules[Place(m)].id = m
    BY <1>2 DEF Place
  <1>4. RuleOf(m) \in Range(Rules) /\ RuleOf(m).id = m
    BY DEF HasRule, RuleOf
  <1>5. PICK i \in DOMAIN Rules : Rules[i] = RuleOf(m)
    BY <1>4 DEF Range
  <1>6. i = Place(m)
    BY <1>3, <1>4, <1>5, RulesAssumption
  <1> QED  BY <1>1, <1>3, <1>4, <1>5, <1>6

(* The rules before it are those at the lower places.                      *)
LEMMA BeforeFacts ==
    ASSUME NEW m, HasRule(m)
    PROVE  /\ Before(m) \in Seq(Range(Rules)) /\ DOMAIN Before(m) = 1 .. Place(m) - 1
           /\ \A i \in 1 .. Place(m) - 1 : i \in DOMAIN Rules /\ Before(m)[i] = Rules[i]
  <1>1. PICK p \in Nat : p = Place(m) /\ p \in 1 .. Len(Rules) /\ Len(Rules) \in Nat /\ DOMAIN Rules = 1 .. Len(Rules)
    BY PlaceFacts
  <1>2. Rules \in Seq(Range(Rules))
    BY RulesAssumption
  <1>3. SubSeq(Rules, 1, p - 1) \in Seq(Range(Rules)) /\ Len(SubSeq(Rules, 1, p - 1)) = p - 1
        /\ \A i \in 1 .. p - 1 : SubSeq(Rules, 1, p - 1)[i] = Rules[i]
    BY <1>1, <1>2
  <1>4. Before(m) = SubSeq(Rules, 1, p - 1)
    BY <1>1 DEF Before, Place
  <1>5. DOMAIN SubSeq(Rules, 1, p - 1) = 1 .. p - 1
    BY <1>3
  <1> QED  BY <1>1, <1>3, <1>4, <1>5

(* What is left after the rule at place k.                                 *)
Rest(v, k, online) ==
    IF Rules[k].id \in online THEN Max({0, v - EffectiveCapacity(Rules[k])}) ELSE v

(* What a rule leaves for those after it.                                  *)
LEMMA RestType ==
    ASSUME NEW online \in SUBSET Manager, NEW v \in Nat, NEW k \in DOMAIN Rules
    PROVE  Rest(v, k, online) \in Nat
  <1>1. CASE Rules[k].id \in online
    <2>1. PICK c \in Int : c = EffectiveCapacity(Rules[k])
      <3>1. Rules[k] \in Range(Rules)
        BY DEF Range
      <3> QED  BY <1>1, <3>1, CapacityType
    <2>2. Max({0, v - c}) \in Nat
      BY MaxTwo
    <2> QED  BY <1>1, <2>1, <2>2 DEF Rest
  <1>2. CASE Rules[k].id \notin online
    BY <1>2 DEF Rest
  <1> QED  BY <1>1, <1>2

(* The loop over the rules, step by step.                                  *)
LEMMA RemainingSteps ==
    ASSUME NEW m, HasRule(m), NEW total \in Nat, NEW online \in SUBSET Manager
    PROVE  \E r \in [0 .. Place(m) - 1 -> Nat] :
              /\ r[0] = total
              /\ \A k \in 1 .. Place(m) - 1 : r[k] = Rest(r[k - 1], k, online)
              /\ Remaining(m, total, online) = r[Place(m) - 1]
  <1>1. PICK n \in Nat : n = Place(m) - 1
    BY PlaceFacts
  <1> DEFINE S == 1 .. n
             seq == Before(m)
             step(v, x) == IF x.id \in online THEN Max({0, v - EffectiveCapacity(x)}) ELSE v
             pick == [s \in (SUBSET S) \ {{}} |-> Max(s)]
             F == [i \in S |-> [v \in Nat |-> Rest(v, i, online)]]
             Fn(it) == [s \in SUBSET S |-> IF s = {} THEN total ELSE step(it[s \ {Max(s)}], seq[Max(s)])]
             fold == CHOOSE it : it = Fn(it)
  <1>2. DOMAIN seq = S /\ \A i \in S : i \in DOMAIN Rules /\ seq[i] = Rules[i]
    BY <1>1, BeforeFacts
  <1>3. Remaining(m, total, online) = fold[S]
    <2> HIDE DEF S
    <2> QED  BY <1>2 DEF Remaining, FoldLeft, MapThenFoldSet
  <1>4. \A i \in S : \A v \in Nat : step(v, seq[i]) = Rest(v, i, online) /\ Rest(v, i, online) \in Nat
    BY <1>2, RestType DEF Rest
  <1> HIDE DEF seq, step
  <1>5. \A s \in SUBSET S : s # {} => Max(s) \in s
    BY MaxSet
  <1>6. IsFiniteSet(S)
    BY FS_Interval
  <1>7. /\ pick \in [(SUBSET S) \ {{}} -> S]
        /\ \A s \in SUBSET S : s # {} => pick[s] \in s /\ pick[s] = Max(s)
    BY <1>5
  <1>8. /\ F \in [S -> [Nat -> Nat]]
        /\ \A x \in S, v \in Nat : F[x][v] = step(v, seq[x])
    BY <1>4
  <1> HIDE DEF pick, F, S
  <1>9. PICK it : Iterates(it, S, Nat, total, F, pick)
    BY <1>6, <1>7, <1>8, IterationExists
  <1>10. it = Fn(it)
    <2>1. it \in [SUBSET S -> Nat]
      BY <1>9 DEF Iterates
    <2>2. ASSUME NEW s \in SUBSET S
          PROVE  it[s] = Fn(it)[s]
      <3>1. CASE s = {}
        BY <1>9, <3>1 DEF Iterates
      <3>2. CASE s # {}
        <4>1. it[s] = F[pick[s]][it[s \ {pick[s]}]]
          BY <1>9, <3>2 DEF Iterates
        <4>2. pick[s] \in S /\ it[s \ {pick[s]}] \in Nat /\ pick[s] = Max(s)
          BY <1>7, <2>1, <3>2
        <4> QED  BY <1>8, <3>2, <4>1, <4>2
      <3> QED  BY <3>1, <3>2
    <2> QED  BY <2>1, <2>2
  <1>11. fold = Fn(fold)
    BY <1>10, Zenon
  <1> HIDE DEF fold
  <1>12. Iterates(fold, S, Nat, total, F, pick)
    <2>1. fold = [s \in SUBSET S |-> fold[s]]
      BY <1>11
    <2>2. fold[{}] = total
      BY <1>11
    <2>3. ASSUME NEW s \in SUBSET S, s # {}, fold[s \ {pick[s]}] \in Nat
          PROVE  fold[s] = F[pick[s]][fold[s \ {pick[s]}]]
      <3>1. fold[s] = step(fold[s \ {Max(s)}], seq[Max(s)])
        BY <1>11, <2>3
      <3> QED  BY <1>7, <1>8, <2>3, <3>1
    <2>4. \A s \in SUBSET S : s # {} /\ fold[s \ {pick[s]}] \in Nat => fold[s] = F[pick[s]][fold[s \ {pick[s]}]]
      BY <2>3
    <2>5. /\ pick \in [(SUBSET S) \ {{}} -> S]
          /\ \A s \in SUBSET S : s # {} => pick[s] \in s
      BY <1>7
    <2> HIDE DEF Fn
    <2> QED  BY <1>6, <1>8, <2>1, <2>2, <2>4, <2>5, IterationOnly
  <1> DEFINE r == [k \in 0 .. n |-> fold[1 .. k]]
  <1>13. fold \in [SUBSET S -> Nat] /\ fold[{}] = total
    BY <1>12 DEF Iterates
  <1>14. r \in [0 .. n -> Nat] /\ r[0] = total /\ r[n] = fold[S]
    BY <1>13 DEF S
  <1>15. ASSUME NEW k \in 1 .. n
         PROVE  r[k] = Rest(r[k - 1], k, online)
    <2>1. 1 .. k \in SUBSET S /\ 1 .. k # {} /\ k \in S
      BY DEF S
    <2>2. Max(1 .. k) = k
      <3>1. PICK T \in SUBSET (1 .. n) : T = 1 .. k
        BY <2>1 DEF S
      <3>2. T # {} /\ k \in T
        BY <3>1
      <3>3. Max(T) \in T /\ k <= Max(T)
        BY <3>2, MaxSet
      <3>4. Max(T) = k
        BY <3>1, <3>3
      <3> QED  BY <3>1, <3>4
    <2>3. (1 .. k) \ {k} = 1 .. k - 1
      OBVIOUS
    <2>4. fold[1 .. k] = step(fold[(1 .. k) \ {Max(1 .. k)}], seq[Max(1 .. k)])
      BY <1>11, <2>1
    <2>5. fold[1 .. k] = step(fold[1 .. k - 1], seq[k])
      BY <2>2, <2>3, <2>4
    <2>6. r[k] = fold[1 .. k] /\ r[k - 1] = fold[1 .. k - 1] /\ r[k - 1] \in Nat
      BY <1>14
    <2> QED  BY <1>4, <2>1, <2>5, <2>6
  <1> HIDE DEF r
  <1> QED  BY <1>1, <1>3, <1>14, <1>15

(* What is left when the loop comes to a manager's rule.                   *)
LEMMA RemainingType ==
    ASSUME NEW m, HasRule(m), NEW total \in Nat, NEW online \in SUBSET Manager
    PROVE  Remaining(m, total, online) \in Nat
  <1>1. PICK r \in [0 .. Place(m) - 1 -> Nat] : Remaining(m, total, online) = r[Place(m) - 1]
    BY RemainingSteps
  <1>2. Place(m) - 1 \in 0 .. Place(m) - 1
    BY PlaceFacts
  <1> QED  BY <1>1, <1>2

(* A share is the least of what is left and what there is room for.        *)
LEMMA ShareType ==
    ASSUME NEW m \in Manager, HasRule(m), NEW total \in Nat, NEW online \in SUBSET Manager
    PROVE  /\ EffectiveCapacity(RuleOf(m)) \in Int
           /\ Share(m, total, online) \in Int
           /\ Share(m, total, online) = IF Remaining(m, total, online) <= EffectiveCapacity(RuleOf(m))
                                        THEN Remaining(m, total, online) ELSE EffectiveCapacity(RuleOf(m))
  <1>1. PICK a \in Nat : a = Remaining(m, total, online)
    BY RemainingType
  <1>2. PICK c \in Int : c = EffectiveCapacity(RuleOf(m))
    <2>1. RuleOf(m) \in Range(Rules) /\ RuleOf(m).id = m
      BY PlaceFacts
    <2> QED  BY <2>1, CapacityType
  <1>3. Min({a, c}) = IF a <= c THEN a ELSE c
    BY MinTwo
  <1> QED  BY <1>1, <1>2, <1>3 DEF Share

(* _allocate_generic_desired returns a number.                             *)
LEMMA GenericType ==
    ASSUME TypeOK, NEW m \in Manager, HasRule(m), NEW online \in SUBSET Manager
    PROVE  AllocateGenericDesired(m, online) \in Int
  <1>1. PICK total \in Nat : total = Needed(TaskCount, Upper)
    BY TaskCountType, NeededType, RatioAssumption
  <1>2. Share(m, total, online) \in Int
    BY ShareType
  <1>3. WorkerCount(m) \in Int
    BY WorkerCountType
  <1> QED  BY <1>1, <1>2, <1>3 DEF AllocateGenericDesired

(* _allocate_capset_desired returns a number.                              *)
LEMMA CapsetType ==
    ASSUME TypeOK, NEW m \in Manager, HasRule(m), NEW online \in SUBSET Manager, NEW k \in Kind
    PROVE  AllocateCapsetDesired(m, k, online) \in Int
  <1>1. PICK total \in Nat : total = Needed(tasks[k], Upper)
    BY TaskCountType, NeededType, RatioAssumption
  <1>2. PICK on \in SUBSET Manager : on = {n \in online : Names(k) \subseteq Names(Caps[n])}
    OBVIOUS
  <1>3. Share(m, total, on) \in Int
    BY ShareType
  <1> QED  BY <1>1, <1>2, <1>3 DEF AllocateCapsetDesired

(* What a command asks for.                                                *)
LEMMA CommandType ==
    ASSUME TypeOK, NEW m \in Manager, NEW online \in SUBSET Manager, NEW c \in GetScalingCommands(m, online)
    PROVE  IsFiniteSet(DOMAIN c) /\ \A k \in DOMAIN c : c[k] \in Nat
  <1>1. CASE policy = "no"
    BY <1>1 DEF GetScalingCommands
  <1>2. CASE policy = "vanilla"
    <2>1. c = [k \in {Generic} |-> ComputeDesiredWorkerCount(m)]
      BY <1>2 DEF GetScalingCommands
    <2>2. DOMAIN c = {Generic} /\ \A k \in DOMAIN c : c[k] = ComputeDesiredWorkerCount(m)
      BY <2>1
    <2> QED  BY <2>2, VanillaType, FS_Singleton
  <1>3. CASE policy = "capability"
    <2>1. c = CapabilityRequests(m)
      BY <1>3 DEF GetScalingCommands
    <2>2. /\ DOMAIN c = {l \in Kind : tasks[l] > 0}
          /\ \A k \in DOMAIN c : c[k] = Max({0, Clamped(m, Needed(tasks[k], CapUpper))})
      BY <2>1 DEF CapabilityRequests
    <2>3. IsFiniteSet(DOMAIN c)
      BY <2>2, FiniteAssumption, FS_Subset
    <2>4. ASSUME NEW k \in DOMAIN c
          PROVE  c[k] \in Nat
      <3>1. PICK n \in Nat : n = Needed(tasks[k], CapUpper)
        BY <2>2, <2>4, TaskCountType, NeededType, RatioAssumption
      <3>2. Max({0, Clamped(m, n)}) \in Nat
        BY ClampedType
      <3> QED  BY <2>2, <3>1, <3>2
    <2> QED  BY <2>3, <2>4
  <1>4. CASE policy = "waterfall"
    <2>1. HasRule(m) /\ c = WaterfallRequests(m, online)
      BY <1>4 DEF GetScalingCommands
    <2>2. /\ DOMAIN c \subseteq Kind \cup {Generic}
          /\ \A k \in DOMAIN c : c[k] = Max({0, IF k = Generic THEN AllocateGenericDesired(m, online)
                                                ELSE AllocateCapsetDesired(m, k, online)})
      BY <2>1 DEF WaterfallRequests
    <2>3. IsFiniteSet(Kind \cup {Generic})
      BY FiniteAssumption, FS_AddElement
    <2>4. IsFiniteSet(DOMAIN c)
      BY <2>2, <2>3, FS_Subset
    <2>5. ASSUME NEW k \in DOMAIN c
          PROVE  c[k] \in Nat
      <3>1. PICK n \in Int : n = IF k = Generic THEN AllocateGenericDesired(m, online)
                                 ELSE AllocateCapsetDesired(m, k, online)
        BY <2>1, <2>2, <2>5, GenericType, CapsetType
      <3>2. Max({0, n}) \in Nat
        BY MaxTwo
      <3> QED  BY <2>2, <3>1, <3>2
    <2> QED  BY <2>4, <2>5
  <1> QED  BY <1>1, <1>2, <1>3, <1>4, PolicyAssumption DEF TypeOK

(* extract_desired_count adds up the requests a manager matches.           *)
LEMMA RequestType ==
    ASSUME TypeOK, NEW m \in Manager, NEW online \in SUBSET Manager, NEW c \in GetScalingCommands(m, online)
    PROVE  ExtractDesiredCount(c, m) \in Nat
  <1>1. IsFiniteSet(DOMAIN c) /\ \A k \in DOMAIN c : c[k] \in Nat
    BY CommandType
  <1>2. PICK S \in SUBSET DOMAIN c : S = {k \in DOMAIN c : k \subseteq Caps[m]}
    OBVIOUS
  <1>3. IsFiniteSet(S)
    BY <1>1, FS_Subset
  <1>4. SumFunctionOnSet(c, S) \in Nat
    BY <1>1, <1>3, SumAdd
  <1> QED  BY <1>2, <1>4 DEF ExtractDesiredCount

-----------------------------------------------------------------------------
(* The slots of a manager.                                                 *)

(* There are n slots among S that have fewer than n others of S below.     *)
LEMMA Ranked ==
    ASSUME NEW S \in SUBSET Nat, IsFiniteSet(S), NEW k \in Nat, k < Cardinality(S)
    PROVE  \E s \in S : Cardinality({r \in S : r < s}) = k
  <1> DEFINE Below(s) == {r \in S : r < s}
             Bad == {i \in Nat : i < Cardinality(S) /\ ~ \E s \in S : Cardinality(Below(s)) = i}
  <1>1. Cardinality(S) \in Nat /\ \A T \in SUBSET S : IsFiniteSet(T) /\ Cardinality(T) \in Nat
    BY FS_Subset, FS_CardinalityType
  <1>2. Bad = {}
    <2> SUFFICES ASSUME Bad # {} PROVE FALSE
      OBVIOUS
    <2>1. PICK i \in Bad : \A j \in Bad : i <= j
      BY Least
    <2>2. i \in Nat /\ i < Cardinality(S) /\ ~ \E s \in S : Cardinality(Below(s)) = i
      OBVIOUS
    <2>3. CASE i = 0
      <3>1. S # {}
        BY <1>1, <2>2, <2>3, FS_EmptySet
      <3>2. PICK s \in S : \A r \in S : s <= r
        BY <3>1, Least
      <3>3. Below(s) = {}
        <4>1. \A r \in S : r \in Int /\ s \in Int /\ ~ (r < s)
          BY <3>2
        <4> QED  BY <4>1
      <3> QED  BY <2>2, <2>3, <3>3, FS_EmptySet
    <2>4. CASE i # 0
      <3>1. i - 1 \in Nat /\ i - 1 \notin Bad
        <4> HIDE DEF Bad
        <4> QED  BY <2>1, <2>2, <2>4
      <3>2. PICK s \in S : Cardinality(Below(s)) = i - 1
        BY <1>1, <2>2, <3>1
      <3> DEFINE Above == {r \in S : s < r}
      <3>3. IsFiniteSet(Below(s)) /\ IsFiniteSet(Below(s) \cup {s}) /\ Cardinality(Below(s) \cup {s}) = i
        <4>1. IsFiniteSet(Below(s)) /\ s \notin Below(s)
          BY <1>1
        <4> HIDE DEF Below
        <4>2. IsFiniteSet(Below(s) \cup {s}) /\ Cardinality(Below(s) \cup {s}) = Cardinality(Below(s)) + 1
          BY <4>1, FS_AddElement
        <4> QED  BY <2>2, <3>2, <4>1, <4>2
      <3>4. Above # {}
        <4>1. CASE Above = {}
          <5>1. S = Below(s) \cup {s}
            <6>1. \A r \in S : r \in Int /\ s \in Int /\ ~ (s < r)
              BY <4>1
            <6>2. \A r \in S : r < s \/ r = s
              BY <6>1
            <6> QED  BY <6>2
          <5> HIDE DEF Below
          <5>2. Cardinality(S) = i
            BY <3>3, <5>1
          <5> QED  BY <2>2, <5>2
        <4> QED  BY <4>1
      <3>5. PICK t \in Above : \A r \in Above : t <= r
        BY <3>4, Least
      <3>6. Below(t) = Below(s) \cup {s}
        <4>1. s < t /\ t \in Int /\ s \in Int /\ \A r \in S : r \in Int /\ (s < r => t <= r)
          BY <3>5
        <4>2. \A r \in S : r < t <=> r < s \/ r = s
          BY <4>1
        <4> QED  BY <4>2
      <3> QED  BY <2>2, <3>3, <3>6
    <2> QED  BY <2>3, <2>4
  <1> QED  BY <1>2

(* start_units gets as many different processes as it asks for.            *)
LEMMA LowestSlotsType ==
    ASSUME NEW S \in SUBSET Nat, IsFiniteSet(S), NEW n \in Nat, n <= Cardinality(S)
    PROVE  LowestSlots(S, n) \in Seq(S) /\ Len(LowestSlots(S, n)) = n
  <1> DEFINE q == [i \in 1 .. n |-> CHOOSE s \in S : Cardinality({r \in S : r < s}) = i - 1]
  <1>1. Cardinality(S) \in Nat
    BY FS_CardinalityType
  <1>2. ASSUME NEW i \in 1 .. n
        PROVE  q[i] \in S
    <2>1. i - 1 \in Nat /\ i - 1 < Cardinality(S)
      BY <1>1
    <2>2. \E s \in S : Cardinality({r \in S : r < s}) = i - 1
      BY <2>1, Ranked
    <2> QED  BY <2>2
  <1>3. q \in [1 .. n -> S]
    BY <1>2
  <1> HIDE DEF q
  <1>4. q \in Seq(S) /\ Len(q) = n
    BY <1>3
  <1> QED  BY <1>4 DEF LowestSlots, q

-----------------------------------------------------------------------------
(* The provisioner.                                                        *)

ProcState == Gone \cup {"starting", "running", "exiting"}

(* The variables one by one.                                               *)
LEMMA Types ==
    ASSUME ScalingInv, NEW m \in Manager
    PROVE  /\ held[m] \in Seq(Slot(m)) /\ Len(held[m]) \in Nat /\ DOMAIN held[m] = 1 .. Len(held[m])
           /\ proc[m] \in [Slot(m) -> ProcState] /\ connected[m] \in SUBSET Slot(m)
           /\ timer[m] \in Int /\ Off <= timer[m] /\ timer[m] <= Cooldown
           /\ age[m] \in Nat /\ age[m] <= Cooldown /\ desired[m] \in Nat /\ Cooldown \in Nat
           /\ Slots[m] \in Nat /\ MaxConcurrency[m] \in Int /\ MaxConcurrency[m] >= -1
           /\ MaxConcurrency[m] # -1 => Len(held[m]) <= MaxConcurrency[m]
  <1>1. TypeOK /\ ListsWithinCapacity
    BY DEF ScalingInv, WithinCapacity
  <1>2. held[m] \in Seq(Slot(m))
    BY <1>1 DEF TypeOK
  <1>3. Len(held[m]) \in Nat /\ DOMAIN held[m] = 1 .. Len(held[m])
    BY <1>2
  <1>4. proc[m] \in [Slot(m) -> ProcState] /\ connected[m] \in SUBSET Slot(m)
    BY <1>1 DEF TypeOK, ProcState
  <1>5. timer[m] \in Off .. Cooldown /\ age[m] \in 0 .. Cooldown /\ desired[m] \in Nat /\ Cooldown \in Nat
    BY <1>1, BoundAssumption DEF TypeOK
  <1>6. timer[m] \in Int /\ Off <= timer[m] /\ timer[m] <= Cooldown
    BY <1>5 DEF Off
  <1>7. age[m] \in Nat /\ age[m] <= Cooldown
    BY <1>5
  <1>8. Slots[m] \in Nat /\ MaxConcurrency[m] \in Int /\ MaxConcurrency[m] >= -1
    BY BoundAssumption, LimitAssumption
  <1> QED  BY <1>1, <1>2, <1>3, <1>4, <1>5, <1>6, <1>7, <1>8 DEF ListsWithinCapacity

(* stop_units stops at most as many as it is told to.                      *)
LEMMA StoppedRange ==
    ASSUME NEW m, NEW n \in Nat
    PROVE  Stopped(m, n) \in Nat /\ Stopped(m, n) <= n
  <1>1. PICK bad \in SUBSET (1 .. n) : bad = {i \in 1 .. n : proc[m][held[m][i]] = "reaped"}
    OBVIOUS
  <1>2. Stopped(m, n) = IF bad = {} THEN n ELSE Min(bad) - 1
    BY <1>1 DEF Stopped
  <1>3. bad \in SUBSET Nat
    OBVIOUS
  <1>4. bad # {} => Min(bad) \in 1 .. n
    BY <1>3, MinSet
  <1> QED  BY <1>2, <1>4

(* What becomes of the processes keeps the types of their states.           *)
LEMMA ReleasedType ==
    ASSUME NEW S, NEW ps \in [S -> ProcState], NEW list
    PROVE  Released(ps, list) \in [S -> ProcState]
  BY DEF Released, ProcState, Gone

(* The same of the ones that were told to stop.                            *)
LEMMA InterruptedType ==
    ASSUME ScalingInv, NEW m \in Manager, NEW k, NEW rest
    PROVE  Interrupted(m, k, rest) \in [Slot(m) -> ProcState]
  <1> DEFINE told == {s \in Slot(m) : \E i \in 1 .. k : s = held[m][i]}
             ps == [s \in Slot(m) |-> IF s \in told /\ proc[m][s] \in {"starting", "running"}
                                      THEN "exiting" ELSE proc[m][s]]
  <1>1. proc[m] \in [Slot(m) -> ProcState]
    BY Types
  <1>2. ps \in [Slot(m) -> ProcState]
    BY <1>1 DEF ProcState
  <1> HIDE DEF ps
  <1>3. Released(ps, rest) \in [Slot(m) -> ProcState]
    BY <1>2, ReleasedType
  <1> QED  BY <1>3 DEF Interrupted, ps

(* How many units are missing: never more than the limit leaves room for,  *)
(* never more too many than there are.                                     *)
LEMMA DeltaFacts ==
    ASSUME ScalingInv, NEW m \in Manager
    PROVE  /\ Delta(m) \in Int /\ - Delta(m) <= Len(held[m])
           /\ MaxConcurrency[m] # -1 => Len(held[m]) + Delta(m) <= MaxConcurrency[m]
  <1>1. PICK len \in Nat : len = Len(held[m])
    BY Types
  <1>2. PICK d \in Nat : d = desired[m]
    BY Types
  <1>3. PICK c \in Int : c = MaxConcurrency[m] /\ c >= -1
    BY Types
  <1>4. Min({d - len, c - len}) = IF d - len <= c - len THEN d - len ELSE c - len
    BY MinTwo
  <1>5. Delta(m) = IF c = -1 THEN d - len ELSE Min({d - len, c - len})
    BY <1>1, <1>2, <1>3 DEF Delta
  <1> QED  BY <1>1, <1>2, <1>3, <1>4, <1>5

(* start_units appends n processes to the list.                            *)
LEMMA StartUnitsType ==
    ASSUME ScalingInv, NEW m \in Manager, NEW n \in Nat, StartUnits(m, n)
    PROVE  /\ \E q \in Seq(Slot(m)) : Len(q) = Len(held[m]) + n /\ held' = [held EXCEPT ![m] = q]
           /\ \E ps \in [Slot(m) -> ProcState] : proc' = [proc EXCEPT ![m] = ps]
           /\ age' = [age EXCEPT ![m] = 0]
  <1>1. PICK S : S = FreeSlots(m)
    OBVIOUS
  <1>2. S \subseteq Slot(m) /\ S \in SUBSET Nat /\ IsFiniteSet(S)
    <2>1. PICK k \in Nat : k = Slots[m]
      BY Types
    <2>2. S \in SUBSET (1 .. k)
      BY <1>1, <2>1 DEF FreeSlots, Slot
    <2>3. IsFiniteSet(1 .. k)
      BY FS_Interval
    <2>4. IsFiniteSet(S)
      BY <2>2, <2>3, FS_Subset
    <2> QED  BY <2>1, <2>2, <2>4 DEF Slot
  <1>3. n <= Cardinality(S)
    <2>1. Cardinality(S) \in Nat /\ Cardinality(S) >= n
      BY <1>1, <1>2, FS_CardinalityType DEF StartUnits
    <2> QED  BY <2>1
  <1>4. PICK new : new = LowestSlots(S, n)
    OBVIOUS
  <1>5. new \in Seq(S) /\ Len(new) = n
    BY <1>2, <1>3, <1>4, LowestSlotsType
  <1>6. new \in Seq(Slot(m))
    <2>1. PICK T : T = Slot(m)
      OBVIOUS
    <2>2. new \in Seq(S) /\ S \subseteq T
      BY <1>2, <1>5, <2>1
    <2>3. new \in Seq(T)
      BY <2>2
    <2> QED  BY <2>1, <2>3
  <1>7. PICK old \in Seq(Slot(m)) : old = held[m]
    BY Types
  <1>8. old \o new \in Seq(Slot(m)) /\ Len(old \o new) = Len(old) + n
    BY <1>5, <1>6
  <1>9. held' = [held EXCEPT ![m] = old \o new]
    BY <1>1, <1>4, <1>7 DEF StartUnits
  <1> DEFINE ps == [s \in Slot(m) |-> CASE s \in Range(new) -> "starting"
                                        [] proc[m][s] = "dead" -> "reaped"
                                        [] OTHER -> proc[m][s]]
  <1>10. proc' = [proc EXCEPT ![m] = ps]
    BY <1>1, <1>4 DEF StartUnits
  <1>11. ps \in [Slot(m) -> ProcState]
    <2>1. proc[m] \in [Slot(m) -> ProcState]
      BY Types
    <2> QED  BY <2>1 DEF ProcState, Gone
  <1> HIDE DEF ps
  <1> QED  BY <1>7, <1>8, <1>9, <1>10, <1>11 DEF StartUnits

(* stop_units takes them off its head.                                     *)
LEMMA StopUnitsType ==
    ASSUME ScalingInv, NEW m \in Manager, NEW n \in Nat, n <= Len(held[m]), StopUnits(m, n)
    PROVE  /\ \E q \in Seq(Slot(m)) : Len(q) <= Len(held[m]) /\ held' = [held EXCEPT ![m] = q]
           /\ \E ps \in [Slot(m) -> ProcState] : proc' = [proc EXCEPT ![m] = ps]
  <1>1. PICK k \in Nat : k = Stopped(m, n) /\ k <= n
    BY StoppedRange
  <1>2. PICK old \in Seq(Slot(m)) : old = held[m]
    BY Types
  <1>3. PICK rest : rest = SubSeq(old, k + 1, Len(old))
    OBVIOUS
  <1>4. rest \in Seq(Slot(m)) /\ Len(rest) <= Len(old)
    <2>1. k <= Len(old) /\ Len(old) \in Nat
      BY <1>1, <1>2
    <2>2. \A i \in k + 1 .. Len(old) : old[i] \in Slot(m)
      BY <1>2
    <2>3. SubSeq(old, k + 1, Len(old)) \in Seq(Slot(m)) /\ Len(SubSeq(old, k + 1, Len(old))) = Len(old) - k
      BY <2>1, <2>2
    <2> QED  BY <1>3, <2>1, <2>3
  <1>5. held' = [held EXCEPT ![m] = rest] /\ proc' = [proc EXCEPT ![m] = Interrupted(m, k, rest)]
    BY <1>1, <1>2, <1>3 DEF StopUnits
  <1>6. Interrupted(m, k, rest) \in [Slot(m) -> ProcState]
    BY InterruptedType
  <1> QED  BY <1>2, <1>4, <1>5, <1>6

-----------------------------------------------------------------------------
(* The invariant variable by variable.                                     *)

ConnectedOK ==
    /\ connected = [m \in Manager |-> connected[m]]
    /\ \A m \in Manager : connected[m] \in SUBSET Slot(m)

HeldOK ==
    /\ held = [m \in Manager |-> held[m]]
    /\ \A m \in Manager : held[m] \in Seq(Slot(m))
    /\ \A m \in Manager : MaxConcurrency[m] # -1 => Len(held[m]) <= MaxConcurrency[m]

ProcOK ==
    /\ proc = [m \in Manager |-> proc[m]]
    /\ \A m \in Manager : proc[m] \in [Slot(m) -> ProcState]

ClockOK ==
    /\ timer \in [Manager -> Off .. Cooldown]
    /\ age \in [Manager -> 0 .. Cooldown]
    /\ Aged

SchedulerOK ==
    /\ policy \in Policies
    /\ tasks \in [Kind -> Loads \cup {0}]
    /\ known \in [Manager -> {"none", "present", "earlier"}]

CoordinatorOK ==
    /\ up \in [Manager -> BOOLEAN]
    /\ desired \in [Manager -> Nat]
    /\ signal \in [Manager -> BOOLEAN]

BoundsOK == shifts \in 0 .. Shifts /\ left \in 0 .. Budget

(* The parts make the whole, now and after a step.                         *)
LEMMA Parts ==
    /\ ScalingInv <=> /\ ConnectedOK /\ HeldOK /\ ProcOK /\ ClockOK
                      /\ SchedulerOK /\ CoordinatorOK /\ BoundsOK
    /\ ScalingInv' <=> /\ ConnectedOK' /\ HeldOK' /\ ProcOK' /\ ClockOK'
                       /\ SchedulerOK' /\ CoordinatorOK' /\ BoundsOK'
  BY Zenon DEF ScalingInv, WithinCapacity, TypeOK, ListsWithinCapacity, PerManager, ConnectedOK, HeldOK,
            ProcOK, ClockOK, SchedulerOK, CoordinatorOK, BoundsOK, ProcState

(* What is left alone stays as it is.                                      *)
LEMMA Untouched ==
    /\ ConnectedOK /\ UNCHANGED connected => ConnectedOK'
    /\ HeldOK /\ UNCHANGED held => HeldOK'
    /\ ProcOK /\ UNCHANGED proc => ProcOK'
    /\ ClockOK /\ UNCHANGED <<timer, age>> => ClockOK'
    /\ SchedulerOK /\ UNCHANGED <<policy, tasks, known>> => SchedulerOK'
    /\ CoordinatorOK /\ UNCHANGED <<up, desired, signal>> => CoordinatorOK'
    /\ BoundsOK /\ UNCHANGED <<shifts, left>> => BoundsOK'
  BY DEF ConnectedOK, HeldOK, ProcOK, ClockOK, Aged, SchedulerOK, CoordinatorOK, BoundsOK

(* One manager's workers, list or processes are replaced by others.        *)
LEMMA ConnectedUpdate ==
    ASSUME ConnectedOK, NEW m \in Manager, NEW c \in SUBSET Slot(m),
           connected' = [connected EXCEPT ![m] = c]
    PROVE  ConnectedOK'
  <1>1. connected' = [n \in Manager |-> IF n = m THEN c ELSE connected[n]]
    BY DEF ConnectedOK
  <1> QED  BY <1>1 DEF ConnectedOK

(* A change to the list of one manager.                                    *)
LEMMA HeldUpdate ==
    ASSUME HeldOK, NEW m \in Manager, NEW q \in Seq(Slot(m)),
           MaxConcurrency[m] # -1 => Len(q) <= MaxConcurrency[m],
           held' = [held EXCEPT ![m] = q]
    PROVE  HeldOK'
  <1>1. held' = [n \in Manager |-> IF n = m THEN q ELSE held[n]]
    BY DEF HeldOK
  <1>2. \A n \in Manager : held'[n] = IF n = m THEN q ELSE held[n]
    BY <1>1
  <1>3. held' = [n \in Manager |-> held'[n]]
    BY <1>1
  <1> QED  BY <1>2, <1>3, Zenon DEF HeldOK

(* A change to the processes of one manager.                               *)
LEMMA ProcUpdate ==
    ASSUME ProcOK, NEW m \in Manager, NEW ps \in [Slot(m) -> ProcState],
           proc' = [proc EXCEPT ![m] = ps]
    PROVE  ProcOK'
  <1>1. proc' = [n \in Manager |-> IF n = m THEN ps ELSE proc[n]]
    BY DEF ProcOK
  <1>2. \A n \in Manager : proc'[n] = IF n = m THEN ps ELSE proc[n]
    BY <1>1
  <1>3. proc' = [n \in Manager |-> proc'[n]]
    BY <1>1
  <1> QED  BY <1>2, <1>3, Zenon DEF ProcOK

(* One manager's cooldown and age change.                                  *)
LEMMA ClockUpdate ==
    ASSUME ClockOK, NEW m \in Manager, NEW t \in Off .. Cooldown, NEW a \in 0 .. Cooldown,
           t # Off => a >= Cooldown - t,
           timer' = [timer EXCEPT ![m] = t], age' = [age EXCEPT ![m] = a]
    PROVE  ClockOK'
  <1>1. timer' \in [Manager -> Off .. Cooldown] /\ age' \in [Manager -> 0 .. Cooldown]
    BY DEF ClockOK
  <1>2. \A n \in Manager : /\ timer'[n] = IF n = m THEN t ELSE timer[n]
                           /\ age'[n] = IF n = m THEN a ELSE age[n]
    BY DEF ClockOK
  <1>3. \A n \in Manager : timer'[n] # Off => age'[n] >= Cooldown - timer'[n]
    BY <1>2 DEF ClockOK, Aged
  <1> QED  BY <1>1, <1>3 DEF ClockOK, Aged

(* A fault is taken from the budget.                                       *)
LEMMA FaultBound ==
    ASSUME BoundsOK, NEW e, Fault(e), shifts' = shifts
    PROVE  BoundsOK'
  <1>1. Budget \in Nat
    BY BoundAssumption
  <1> QED  BY <1>1 DEF BoundsOK, Fault

-----------------------------------------------------------------------------
(* The actions.                                                            *)

(* The first state.                                                        *)
LEMMA InitInv == Init => ScalingInv
  <1> SUFFICES ASSUME Init PROVE ScalingInv
    OBVIOUS
  <1>0. Cooldown \in Nat /\ Shifts \in Nat /\ Budget \in Nat
    BY BoundAssumption
  <1>1. ConnectedOK /\ ProcOK
    BY DEF Init, ConnectedOK, ProcOK, ProcState, Gone
  <1>2. HeldOK
    <2>1. \A m \in Manager : held[m] = << >>
      BY DEF Init
    <2>2. \A m \in Manager : MaxConcurrency[m] \in Nat \cup {-1}
      BY LimitAssumption
    <2>3. ASSUME NEW m \in Manager
          PROVE  held[m] \in Seq(Slot(m)) /\ Len(held[m]) = 0
      <3>1. << >> \in Seq(Slot(m)) /\ Len(<< >>) = 0
        OBVIOUS
      <3> QED  BY <2>1, <3>1
    <2>4. held = [m \in Manager |-> held[m]]
      BY DEF Init
    <2> QED  BY <2>2, <2>3, <2>4 DEF HeldOK
  <1>3. ClockOK
    BY <1>0 DEF Init, ClockOK, Aged, Off
  <1>4. SchedulerOK /\ CoordinatorOK /\ BoundsOK
    BY <1>0 DEF Init, SchedulerOK, CoordinatorOK, BoundsOK
  <1> QED  BY <1>1, <1>2, <1>3, <1>4, Parts

(* The answer to a heartbeat is a number of workers.                       *)
LEMMA HeartbeatInv ==
    ASSUME ScalingInv, NEW m \in Manager, OnHeartbeat(m)
    PROVE  ScalingInv'
  <1>1. TypeOK
    BY DEF ScalingInv, WithinCapacity
  <1>2. CoordinatorOK'
    <2>1. PICK online : online = Online \cup {m}
      OBVIOUS
    <2>2. online \subseteq Manager
      BY <2>1 DEF Online
    <2>3. CASE UNCHANGED <<desired, signal>>
      BY <2>3, Parts DEF CoordinatorOK, OnHeartbeat
    <2>4. CASE \E c \in GetScalingCommands(m, online) :
                  SetDesiredUnitCount(m, ExtractDesiredCount(c, m))
      <3>1. PICK c \in GetScalingCommands(m, online) : SetDesiredUnitCount(m, ExtractDesiredCount(c, m))
        BY <2>4
      <3>2. PICK n \in Nat : n = ExtractDesiredCount(c, m)
        BY <1>1, <2>2, <3>1, RequestType
      <3>3. SetDesiredUnitCount(m, n)
        BY <3>1, <3>2
      <3>4. CoordinatorOK
        BY Parts
      <3> QED  BY <3>2, <3>3, <3>4 DEF SetDesiredUnitCount, CoordinatorOK, OnHeartbeat
    <2> QED  BY <2>1, <2>3, <2>4 DEF OnHeartbeat
  <1>3. SchedulerOK'
    BY Parts DEF SchedulerOK, OnHeartbeat
  <1> QED  BY <1>2, <1>3, Parts, Untouched DEF OnHeartbeat, bounds

(* The scheduler gives up a manager.                                       *)
LEMMA CleanManagersInv ==
    ASSUME ScalingInv, NEW m \in Manager, CleanManagers(m)
    PROVE  ScalingInv'
  <1>1. SchedulerOK'
    BY Parts DEF SchedulerOK, CleanManagers
  <1>2. BoundsOK'
    BY Parts, Untouched, FaultBound DEF CleanManagers, BoundsOK
  <1> QED  BY <1>1, <1>2, Parts, Untouched DEF CleanManagers, manager

(* A worker comes, or is given up.                                         *)
LEMMA WorkerHeartbeatInv ==
    ASSUME ScalingInv, NEW m \in Manager, NEW s \in Slot(m), WorkerHeartbeat(m, s)
    PROVE  ScalingInv'
  <1>1. PICK c : c = connected[m] \cup {s}
    OBVIOUS
  <1>2. c \in SUBSET Slot(m)
    BY <1>1, Types
  <1>3. ConnectedOK'
    BY <1>1, <1>2, Parts, ConnectedUpdate DEF WorkerHeartbeat
  <1>4. PICK ps : ps = [proc[m] EXCEPT ![s] = "running"]
    OBVIOUS
  <1>5. ps \in [Slot(m) -> ProcState]
    BY <1>4, Types DEF ProcState
  <1>6. proc' = [proc EXCEPT ![m] = ps]
    BY <1>4 DEF WorkerHeartbeat
  <1>7. ProcOK'
    BY <1>5, <1>6, Parts, ProcUpdate
  <1> QED  BY <1>3, <1>7, Parts, Untouched DEF WorkerHeartbeat, manager, bounds

(* A worker that falls silent is forgotten by the scheduler only.          *)
LEMMA CleanWorkersInv ==
    ASSUME ScalingInv, NEW m \in Manager, NEW s \in Slot(m), CleanWorkers(m, s)
    PROVE  ScalingInv'
  <1>1. PICK c : c = connected[m] \ {s}
    OBVIOUS
  <1>2. c \in SUBSET Slot(m)
    BY <1>1, Types
  <1>3. ConnectedOK'
    BY <1>1, <1>2, Parts, ConnectedUpdate DEF CleanWorkers
  <1> QED  BY <1>3, Parts, Untouched DEF CleanWorkers, manager, bounds

(* Every worker is told to exit.                                           *)
LEMMA ShutdownInv ==
    ASSUME ScalingInv, OnClientShutdown
    PROVE  ScalingInv'
  <1>1. ConnectedOK'
    BY DEF ConnectedOK, OnClientShutdown
  <1>2. ProcOK'
    <2>1. \A m \in Manager : proc[m] \in [Slot(m) -> ProcState]
      BY Types
    <2>2. proc' = [m \in Manager |-> [s \in Slot(m) |->
                    IF s \in connected[m] /\ proc[m][s] = "running" THEN "exiting" ELSE proc[m][s]]]
      BY DEF OnClientShutdown
    <2>3. \A m \in Manager : \A s \in Slot(m) : proc[m][s] \in ProcState /\ "exiting" \in ProcState
      BY <2>1 DEF ProcState
    <2>4. \A m \in Manager : proc'[m] = [s \in Slot(m) |->
                    IF s \in connected[m] /\ proc[m][s] = "running" THEN "exiting" ELSE proc[m][s]]
      BY <2>2
    <2>5. \A m \in Manager : proc'[m] \in [Slot(m) -> ProcState]
      BY <2>3, <2>4
    <2>6. proc' = [m \in Manager |-> proc'[m]]
      BY <2>2
    <2> QED  BY <2>5, <2>6 DEF ProcOK
  <1>3. BoundsOK'
    BY Parts, FaultBound DEF OnClientShutdown
  <1> QED  BY <1>1, <1>2, <1>3, Parts, Untouched DEF OnClientShutdown, manager

(* One round of the coordinator.  A list shrinks only when no cooldown is  *)
(* left of those it might have to wait for.                                *)
LEMMA ReconcileInv ==
    ASSUME ScalingInv, NEW m \in Manager, Reconcile(m)
    PROVE  /\ ScalingInv'
           /\ \A n \in Manager : Len(held'[n]) < Len(held[n]) => age[n] >= Cooldown
  <1>1. ConnectedOK /\ HeldOK /\ ProcOK /\ ClockOK /\ SchedulerOK /\ CoordinatorOK /\ BoundsOK
    BY Parts
  <1>2. ConnectedOK' /\ SchedulerOK' /\ BoundsOK'
    BY <1>1, Untouched DEF Reconcile, scheduler, bounds
  <1>3. CoordinatorOK'
    BY <1>1 DEF CoordinatorOK, Reconcile
  <1>4. PICK d \in Int : d = Delta(m)
    BY DeltaFacts
  <1>5. PICK t \in Int : t = timer[m]
    BY Types
  <1>6. PICK a \in Nat : a = age[m] /\ a <= Cooldown
    BY Types
  <1>7. Cooldown \in Nat /\ Off <= t /\ t <= Cooldown /\ (t # Off => a >= Cooldown - t)
    BY <1>1, <1>5, <1>6, Types DEF ClockOK, Aged
  <1>8. ASSUME NEW n \in Manager
        PROVE  Len(held[n]) \in Nat
    BY Types
  <1> DEFINE Calm == \A n \in Manager : Len(held'[n]) < Len(held[n]) => age[n] >= Cooldown
  <1>9. UNCHANGED held => Calm
    BY <1>8
  <1>10. CASE d = 0 /\ timer' = [timer EXCEPT ![m] = Off] /\ UNCHANGED <<held, proc, age>>
    <2>1. age' = [age EXCEPT ![m] = a]
      BY <1>1, <1>6, <1>10 DEF ClockOK
    <2>2. ClockOK'
      <3>1. Off \in Off .. Cooldown /\ a \in 0 .. Cooldown
        BY <1>6, <1>7 DEF Off
      <3> QED  BY <1>1, <1>10, <2>1, <3>1, ClockUpdate
    <2> QED  BY <1>1, <1>2, <1>3, <1>9, <1>10, <2>2, Parts, Untouched
  <1>11. CASE d > 0 /\ timer' = [timer EXCEPT ![m] = Off] /\ StartUnits(m, d)
    <2>0. d \in Nat
      BY <1>11
    <2>1. /\ \E q \in Seq(Slot(m)) : Len(q) = Len(held[m]) + d /\ held' = [held EXCEPT ![m] = q]
          /\ \E ps \in [Slot(m) -> ProcState] : proc' = [proc EXCEPT ![m] = ps]
          /\ age' = [age EXCEPT ![m] = 0]
      BY <1>11, <2>0, StartUnitsType
    <2>2. PICK q \in Seq(Slot(m)) : Len(q) = Len(held[m]) + d /\ held' = [held EXCEPT ![m] = q]
      BY <2>1
    <2>3. MaxConcurrency[m] # -1 => Len(q) <= MaxConcurrency[m]
      BY <1>4, <2>2, DeltaFacts
    <2>4. HeldOK'
      BY <1>1, <2>2, <2>3, HeldUpdate
    <2>5. ProcOK'
      BY <1>1, <2>1, ProcUpdate
    <2>6. ClockOK'
      <3>1. Off \in Off .. Cooldown /\ 0 \in 0 .. Cooldown
        BY <1>7 DEF Off
      <3> QED  BY <1>1, <1>11, <2>1, <3>1, ClockUpdate
    <2>7. Calm
      <3>1. \A n \in Manager : held'[n] = IF n = m THEN q ELSE held[n]
        BY <1>1, <2>2 DEF HeldOK
      <3>2. Len(q) >= Len(held[m])
        BY <1>8, <1>11, <2>2
      <3>3. Len(q) \in Nat
        OBVIOUS
      <3> QED  BY <1>8, <3>1, <3>2, <3>3
    <2> QED  BY <1>2, <1>3, <2>4, <2>5, <2>6, <2>7, Parts
  <1>12. CASE Armed(t) > 0 /\ timer' = [timer EXCEPT ![m] = Armed(t)] /\ UNCHANGED <<held, proc, age>>
    <2>1. age' = [age EXCEPT ![m] = a]
      BY <1>1, <1>6, <1>12 DEF ClockOK
    <2>2. PICK u : u = Armed(t)
      OBVIOUS
    <2>3. u \in Off .. Cooldown /\ a \in 0 .. Cooldown /\ (u # Off => a >= Cooldown - u)
      BY <1>6, <1>7, <2>2 DEF Off, Armed
    <2>4. ClockOK'
      BY <1>1, <1>12, <2>1, <2>2, <2>3, ClockUpdate
    <2> QED  BY <1>1, <1>2, <1>3, <1>9, <1>12, <2>4, Parts, Untouched
  <1>13. CASE d < 0 /\ Armed(t) <= 0 /\ StopUnits(m, -d) /\ UNCHANGED age
              /\ timer' = [timer EXCEPT ![m] = IF Stopped(m, -d) = -d THEN Off ELSE t]
    <2>0. -d \in Nat /\ -d <= Len(held[m])
      BY <1>4, <1>13, DeltaFacts
    <2>1. /\ \E q \in Seq(Slot(m)) : Len(q) <= Len(held[m]) /\ held' = [held EXCEPT ![m] = q]
          /\ \E ps \in [Slot(m) -> ProcState] : proc' = [proc EXCEPT ![m] = ps]
      BY <1>13, <2>0, StopUnitsType
    <2>2. PICK q \in Seq(Slot(m)) : Len(q) <= Len(held[m]) /\ held' = [held EXCEPT ![m] = q]
      BY <2>1
    <2>3. MaxConcurrency[m] # -1 => Len(q) <= MaxConcurrency[m]
      <3>1. Len(q) \in Nat
        OBVIOUS
      <3>2. Len(held[m]) \in Nat /\ MaxConcurrency[m] \in Int
            /\ (MaxConcurrency[m] # -1 => Len(held[m]) <= MaxConcurrency[m])
        BY Types
      <3> QED  BY <2>2, <3>1, <3>2
    <2>4. HeldOK'
      BY <1>1, <2>2, <2>3, HeldUpdate
    <2>5. ProcOK'
      BY <1>1, <2>1, ProcUpdate
    <2>6. PICK u : u = IF Stopped(m, -d) = -d THEN Off ELSE t
      OBVIOUS
    <2>7. u \in Off .. Cooldown /\ a \in 0 .. Cooldown /\ (u # Off => a >= Cooldown - u)
      BY <1>6, <1>7, <2>6 DEF Off
    <2>8. ClockOK'
      <3>1. age' = [age EXCEPT ![m] = a]
        BY <1>1, <1>6, <1>13 DEF ClockOK
      <3> QED  BY <1>1, <1>13, <2>6, <2>7, <3>1, ClockUpdate
    <2>9. a >= Cooldown
      BY <1>6, <1>7, <1>13 DEF Armed, Off
    <2>10. Calm
      <3>1. \A n \in Manager : held'[n] = IF n = m THEN q ELSE held[n]
        BY <1>1, <2>2 DEF HeldOK
      <3>2. \A n \in Manager : n # m => ~(Len(held'[n]) < Len(held[n]))
        BY <1>8, <3>1
      <3> QED  BY <1>6, <2>9, <3>2
    <2> QED  BY <1>2, <1>3, <2>4, <2>5, <2>8, <2>10, Parts
  <1>14. \/ d = 0 /\ timer' = [timer EXCEPT ![m] = Off] /\ UNCHANGED <<held, proc, age>>
         \/ d > 0 /\ timer' = [timer EXCEPT ![m] = Off] /\ StartUnits(m, d)
         \/ Armed(t) > 0 /\ timer' = [timer EXCEPT ![m] = Armed(t)] /\ UNCHANGED <<held, proc, age>>
         \/ /\ d < 0 /\ Armed(t) <= 0 /\ StopUnits(m, -d) /\ UNCHANGED age
            /\ timer' = [timer EXCEPT ![m] = IF Stopped(m, -d) = -d THEN Off ELSE t]
    <2>1. \/ /\ d >= 0
             /\ timer' = [timer EXCEPT ![m] = Off]
             /\ IF d > 0 THEN StartUnits(m, d) ELSE UNCHANGED <<held, proc, age>>
          \/ /\ d < 0 /\ Armed(t) > 0
             /\ timer' = [timer EXCEPT ![m] = Armed(t)]
             /\ UNCHANGED <<held, proc, age>>
          \/ /\ d < 0 /\ Armed(t) <= 0
             /\ StopUnits(m, -d)
             /\ timer' = [timer EXCEPT ![m] = IF Stopped(m, -d) = -d THEN Off ELSE t]
             /\ UNCHANGED age
      BY <1>4, <1>5 DEF Reconcile, Disarmed
    <2> QED  BY <2>1
  <1> QED  BY <1>10, <1>11, <1>12, <1>13, <1>14

(* Time passes.                                                            *)
LEMMA TickInv ==
    ASSUME ScalingInv, NEW m \in Manager, Tick(m)
    PROVE  ScalingInv'
  <1>1. ClockOK
    BY Parts
  <1>2. PICK t \in Int : t = timer[m] /\ Off <= t /\ t <= Cooldown
    BY Types
  <1>3. PICK a \in Nat : a = age[m] /\ a <= Cooldown
    BY Types
  <1>4. Cooldown \in Nat
    BY BoundAssumption
  <1>5. t # Off => a >= Cooldown - t
    BY <1>1, <1>2, <1>3 DEF ClockOK, Aged
  <1>6. PICK u \in Int : u = IF t > 0 THEN t - 1 ELSE t
    OBVIOUS
  <1>7. PICK b \in Int : b = IF a + 1 <= Cooldown THEN a + 1 ELSE Cooldown
    BY <1>4
  <1>8. Min({a + 1, Cooldown}) = b
    BY <1>4, <1>7, MinTwo
  <1>9. timer' = [timer EXCEPT ![m] = u] /\ age' = [age EXCEPT ![m] = b]
    BY <1>1, <1>2, <1>3, <1>6, <1>8 DEF Tick, ClockOK
  <1>10. u \in Off .. Cooldown /\ b \in 0 .. Cooldown /\ (u # Off => b >= Cooldown - u)
    BY <1>2, <1>3, <1>4, <1>5, <1>6, <1>7 DEF Off
  <1>11. ClockOK'
    BY <1>1, <1>9, <1>10, ClockUpdate
  <1> QED  BY <1>11, Parts, Untouched DEF Tick, scheduler, bounds

(* A manager ends, whatever becomes of its processes.                      *)
LEMMA DownInv ==
    ASSUME ScalingInv, NEW m \in Manager, NEW e, Fault(e), Down(m), Forgotten(m),
           NEW ps \in [Slot(m) -> ProcState], proc' = [proc EXCEPT ![m] = ps],
           UNCHANGED <<policy, tasks, connected, age, shifts>>
    PROVE  ScalingInv'
  <1>1. ConnectedOK /\ HeldOK /\ ProcOK /\ ClockOK /\ SchedulerOK /\ CoordinatorOK /\ BoundsOK
    BY Parts
  <1>2. ConnectedOK' /\ ProcOK' /\ BoundsOK'
    BY <1>1, Untouched, ProcUpdate, FaultBound
  <1>3. HeldOK'
    <2>1. PICK q : q = << >>
      OBVIOUS
    <2>2. q \in Seq(Slot(m)) /\ Len(q) = 0
      BY <2>1
    <2>3. MaxConcurrency[m] # -1 => Len(q) <= MaxConcurrency[m]
      BY <2>2, LimitAssumption
    <2> QED  BY <1>1, <2>1, <2>2, <2>3, HeldUpdate DEF Forgotten
  <1>4. ClockOK'
    <2>1. PICK a \in Nat : a = age[m] /\ a <= Cooldown
      BY Types
    <2>2. age' = [age EXCEPT ![m] = a] /\ timer' = [timer EXCEPT ![m] = Off]
      BY <1>1, <2>1 DEF ClockOK, Down
    <2>3. Off \in Off .. Cooldown /\ a \in 0 .. Cooldown
      BY <2>1, BoundAssumption DEF Off
    <2> QED  BY <1>1, <2>2, <2>3, ClockUpdate
  <1>5. SchedulerOK'
    BY <1>1 DEF SchedulerOK, Down
  <1>6. CoordinatorOK'
    BY <1>1 DEF CoordinatorOK, Down
  <1> QED  BY <1>2, <1>3, <1>4, <1>5, <1>6, Parts

(* The two ends of a manager, and its new start.                           *)
LEMMA TerminateInv ==
    ASSUME ScalingInv, NEW m \in Manager, Terminate(m)
    PROVE  ScalingInv'
  <1>1. PICK ps : ps = Interrupted(m, Stopped(m, Len(held[m])), << >>)
    OBVIOUS
  <1>2. ps \in [Slot(m) -> ProcState]
    BY <1>1, InterruptedType
  <1>3. proc' = [proc EXCEPT ![m] = ps]
    BY <1>1 DEF Terminate
  <1> QED  BY <1>2, <1>3, DownInv DEF Terminate

(* It crashes.                                                             *)
LEMMA CrashInv ==
    ASSUME ScalingInv, NEW m \in Manager, Crash(m)
    PROVE  ScalingInv'
  <1>1. PICK ps : ps = Released(proc[m], << >>)
    OBVIOUS
  <1>2. ps \in [Slot(m) -> ProcState]
    BY <1>1, Types, ReleasedType
  <1>3. proc' = [proc EXCEPT ![m] = ps]
    BY <1>1 DEF Crash
  <1> QED  BY <1>2, <1>3, DownInv DEF Crash

(* It starts again.                                                        *)
LEMMA RestartInv ==
    ASSUME ScalingInv, NEW m \in Manager, Restart(m)
    PROVE  ScalingInv'
  <1>1. CoordinatorOK'
    BY Parts DEF CoordinatorOK, Restart
  <1> QED  BY <1>1, Parts, Untouched DEF Restart, scheduler, bounds

(* A worker is gone.                                                       *)
LEMMA GoneType ==
    ASSUME ScalingInv, NEW m \in Manager, NEW s
    PROVE  Released([proc[m] EXCEPT ![s] = "dead"], held[m]) \in [Slot(m) -> ProcState]
  <1>1. PICK ps : ps = [proc[m] EXCEPT ![s] = "dead"]
    OBVIOUS
  <1>2. ps \in [Slot(m) -> ProcState]
    BY <1>1, Types DEF ProcState, Gone
  <1>3. Released(ps, held[m]) \in [Slot(m) -> ProcState]
    BY <1>2, ReleasedType
  <1> QED  BY <1>1, <1>3

(* A worker dies, or exits as it was told.                                 *)
LEMMA WorkerDiesInv ==
    ASSUME ScalingInv, NEW m \in Manager, NEW s \in Slot(m), WorkerDies(m, s)
    PROVE  ScalingInv'
  <1>1. ProcOK'
    BY Parts, GoneType, ProcUpdate DEF WorkerDies
  <1>2. BoundsOK'
    BY Parts, FaultBound DEF WorkerDies
  <1> QED  BY <1>1, <1>2, Parts, Untouched DEF WorkerDies, scheduler, manager

(* It exits as it was told to.                                             *)
LEMMA WorkerExitsInv ==
    ASSUME ScalingInv, NEW m \in Manager, NEW s \in Slot(m), WorkerExits(m, s)
    PROVE  ScalingInv'
  <1>1. ProcOK'
    BY Parts, GoneType, ProcUpdate DEF WorkerExits
  <1>2. PICK c : c = connected[m] \ {s}
    OBVIOUS
  <1>3. c \in SUBSET Slot(m)
    BY <1>2, Types
  <1>4. ConnectedOK'
    BY <1>2, <1>3, Parts, ConnectedUpdate DEF WorkerExits
  <1> QED  BY <1>1, <1>4, Parts, Untouched DEF WorkerExits, manager, bounds

(* The load changes.                                                       *)
LEMMA LoadInv ==
    ASSUME ScalingInv, NEW k \in Kind, NEW n \in Loads, Load(k, n)
    PROVE  ScalingInv'
  <1>1. SchedulerOK'
    BY Parts DEF SchedulerOK, Load, scheduler
  <1>2. BoundsOK'
    BY Parts, BoundAssumption DEF BoundsOK, Load
  <1> QED  BY <1>1, <1>2, Parts, Untouched DEF Load, scheduler, manager

-----------------------------------------------------------------------------
(* The steps together.  Only a round of the coordinator shortens the list  *)
(* of a manager that goes on running.                                      *)
LEMMA StepInv ==
    ASSUME ScalingInv, [Next]_vars
    PROVE  /\ ScalingInv'
           /\ \A n \in Manager : up[n] /\ up'[n] /\ Len(held'[n]) < Len(held[n]) => age[n] >= Cooldown
  <1> DEFINE Calm == \A n \in Manager : up[n] /\ up'[n] /\ Len(held'[n]) < Len(held[n]) => age[n] >= Cooldown
  <1>0. UNCHANGED held => Calm
    <2>1. \A n \in Manager : Len(held[n]) \in Nat
      BY Types
    <2> QED  BY <2>1
  <1>1. ASSUME NEW k \in Kind, NEW n \in Loads, Load(k, n)
        PROVE  ScalingInv' /\ Calm
    BY <1>0, <1>1, LoadInv DEF Load, manager
  <1>2. ASSUME NEW m \in Manager,
               OnHeartbeat(m) \/ CleanManagers(m) \/ Tick(m) \/ Restart(m)
        PROVE  ScalingInv' /\ Calm
    <2>1. ScalingInv'
      BY <1>2, HeartbeatInv, CleanManagersInv, TickInv, RestartInv
    <2>2. UNCHANGED held
      BY <1>2 DEF OnHeartbeat, CleanManagers, Tick, Restart, manager
    <2> QED  BY <1>0, <2>1, <2>2
  <1>3. ASSUME NEW m \in Manager, Reconcile(m)
        PROVE  ScalingInv' /\ Calm
    BY <1>3, ReconcileInv
  <1>4. ASSUME NEW m \in Manager, Terminate(m) \/ Crash(m)
        PROVE  ScalingInv' /\ Calm
    <2>1. ScalingInv'
      BY <1>4, TerminateInv, CrashInv
    <2>2. Down(m) /\ Forgotten(m)
      BY <1>4 DEF Terminate, Crash
    <2>3. /\ \A n \in Manager : up'[n] = IF n = m THEN FALSE ELSE up[n]
          /\ \A n \in Manager : n # m => held'[n] = held[n]
      BY <2>2, Parts DEF Down, Forgotten, CoordinatorOK, HeldOK
    <2>4. \A n \in Manager : Len(held[n]) \in Nat
      BY Types
    <2>5. ASSUME NEW n \in Manager, up[n] /\ up'[n] /\ Len(held'[n]) < Len(held[n])
          PROVE  FALSE
      <3>1. n # m
        BY <2>3, <2>5
      <3>2. held'[n] = held[n]
        BY <2>3, <3>1
      <3> QED  BY <2>4, <2>5, <3>2
    <2> QED  BY <2>1, <2>5
  <1>5. ASSUME NEW m \in Manager, NEW s \in Slot(m),
               WorkerHeartbeat(m, s) \/ CleanWorkers(m, s) \/ WorkerDies(m, s) \/ WorkerExits(m, s)
        PROVE  ScalingInv' /\ Calm
    <2>1. ScalingInv'
      BY <1>5, WorkerHeartbeatInv, CleanWorkersInv, WorkerDiesInv, WorkerExitsInv
    <2>2. UNCHANGED held
      BY <1>5 DEF WorkerHeartbeat, CleanWorkers, WorkerDies, WorkerExits, manager
    <2> QED  BY <1>0, <2>1, <2>2
  <1>6. ASSUME OnClientShutdown
        PROVE  ScalingInv' /\ Calm
    BY <1>0, <1>6, ShutdownInv DEF OnClientShutdown, manager
  <1>7. ASSUME UNCHANGED vars
        PROVE  ScalingInv' /\ Calm
    BY <1>0, <1>7, Parts, Untouched DEF vars, scheduler, manager, bounds
  <1> HIDE DEF Calm
  <1>8. ScalingInv' /\ Calm
    <2>1. CASE \E k \in Kind, n \in Loads : Load(k, n)
      BY <1>1, <2>1
    <2>2. CASE \E m \in Manager : \/ OnHeartbeat(m) \/ CleanManagers(m)
                                  \/ Reconcile(m) \/ Tick(m)
                                  \/ Terminate(m) \/ Crash(m) \/ Restart(m)
      BY <1>2, <1>3, <1>4, <2>2
    <2>3. CASE \E m \in Manager : \E s \in Slot(m) :
                  \/ WorkerHeartbeat(m, s) \/ CleanWorkers(m, s)
                  \/ WorkerDies(m, s) \/ WorkerExits(m, s)
      BY <1>5, <2>3
    <2> QED  BY <1>6, <1>7, <2>1, <2>2, <2>3 DEF Next
  <1> QED  BY <1>8 DEF Calm

(* The invariant holds for ever.                                           *)
LEMMA Invariance == Spec => []ScalingInv
  <1>1. ScalingInv /\ [Next]_vars => ScalingInv'
    BY StepInv
  <1> QED  BY <1>1, InitInv, PTL DEF Spec

(* No manager ever holds more workers than its max_task_concurrency,       *)
(* whatever the policies ask of it, for every set of managers, rules,      *)
(* capabilities and loads (_reconcile clamps what is missing, not what is  *)
(* asked).                                                                 *)
THEOREM ScalingWithinCapacity == Spec => []WithinCapacity
  <1>1. ScalingInv => WithinCapacity
    BY DEF ScalingInv
  <1> QED  BY <1>1, Invariance, PTL

(* No manager stops a worker within the cooldown of the start of another   *)
(* (_reconcile and start_if_not_running), however the requests alternate.  *)
THEOREM ScalingNoFlap == Spec => NoFlap
  <1>1. ScalingInv /\ [Next]_vars =>
           [\A m \in Manager : up[m] /\ up'[m] /\ Len(held'[m]) < Len(held[m]) => age[m] >= Cooldown]_vars
    BY StepInv
  <1> QED  BY <1>1, Invariance, PTL DEF Spec, NoFlap

-----------------------------------------------------------------------------
(* The shares of the waterfall.  A manager with a rule and without a limit *)
(* would have the capacity -1 (_effective_capacity): it is left out here.  *)
Limited == \A m \in Manager : HasRule(m) => MaxConcurrency[m] # -1

\* The managers of on up to place k in the order of priority.
Upto(on, k) == {m \in on : Place(m) <= k}

(* A rule is found at its place again.                                     *)
LEMMA RuleAt ==
    ASSUME NEW k \in DOMAIN Rules
    PROVE  HasRule(Rules[k].id) /\ Place(Rules[k].id) = k /\ RuleOf(Rules[k].id) = Rules[k]
  <1>1. HasRule(Rules[k].id)
    BY DEF HasRule, Range
  <1>2. Place(Rules[k].id) \in DOMAIN Rules /\ Rules[Place(Rules[k].id)].id = Rules[k].id
        /\ RuleOf(Rules[k].id) = Rules[Place(Rules[k].id)]
    BY <1>1, PlaceFacts
  <1>3. Place(Rules[k].id) = k
    BY <1>2, RulesAssumption
  <1> QED  BY <1>1, <1>2, <1>3

(* A sum over the managers up to a place, place by place.                  *)
LEMMA SumSteps ==
    ASSUME NEW on \in SUBSET Manager, \A m \in on : HasRule(m), NEW f, \A m \in on : f[m] \in Nat
    PROVE  /\ \A k \in 0 .. Len(Rules) : SumFunctionOnSet(f, Upto(on, k)) \in Nat
           /\ SumFunctionOnSet(f, Upto(on, 0)) = 0
           /\ Upto(on, Len(Rules)) = on
           /\ \A k \in 1 .. Len(Rules) :
                 SumFunctionOnSet(f, Upto(on, k)) =
                    IF Rules[k].id \in on THEN SumFunctionOnSet(f, Upto(on, k - 1)) + f[Rules[k].id]
                    ELSE SumFunctionOnSet(f, Upto(on, k - 1))
  <1>1. Len(Rules) \in Nat /\ DOMAIN Rules = 1 .. Len(Rules)
    BY RulesAssumption
  <1>2. \A m \in on : Place(m) \in 1 .. Len(Rules) /\ Rules[Place(m)].id = m
    BY <1>1, PlaceFacts
  <1>3. \A k : Upto(on, k) \in SUBSET on
    BY DEF Upto
  <1>4. \A k : IsFiniteSet(Upto(on, k))
    BY <1>3, FiniteAssumption, FS_Subset
  <1>5. \A k : \A x \in Upto(on, k) : f[x] \in Nat
    BY <1>3
  <1>6. \A k \in 0 .. Len(Rules) : SumFunctionOnSet(f, Upto(on, k)) \in Nat
    BY <1>4, <1>5, SumAdd
  <1>7. Upto(on, 0) = {} /\ Upto(on, Len(Rules)) = on
    BY <1>1, <1>2 DEF Upto
  <1>8. SumFunctionOnSet(f, {}) = 0
    BY <1>4, <1>5, SumAdd
  <1>9. ASSUME NEW k \in 1 .. Len(Rules)
        PROVE  SumFunctionOnSet(f, Upto(on, k)) =
                  IF Rules[k].id \in on THEN SumFunctionOnSet(f, Upto(on, k - 1)) + f[Rules[k].id]
                  ELSE SumFunctionOnSet(f, Upto(on, k - 1))
    <2>1. k \in DOMAIN Rules /\ k - 1 \in 0 .. Len(Rules)
      BY <1>1
    <2>2. Place(Rules[k].id) = k
      BY <2>1, RuleAt
    <2>3. \A m \in on : Place(m) <= k <=> Place(m) <= k - 1 \/ m = Rules[k].id
      BY <1>1, <1>2, <2>2
    <2>4. CASE Rules[k].id \in on
      <3>1. PICK x : x = Rules[k].id
        OBVIOUS
      <3>2. x \in Upto(on, k) /\ Upto(on, k) \ {x} = Upto(on, k - 1)
        BY <2>2, <2>3, <2>4, <3>1 DEF Upto
      <3>3. SumFunctionOnSet(f, Upto(on, k)) = f[x] + SumFunctionOnSet(f, Upto(on, k) \ {x})
        BY <1>4, <1>5, <3>2, SumAdd
      <3>4. SumFunctionOnSet(f, Upto(on, k)) = f[x] + SumFunctionOnSet(f, Upto(on, k - 1))
        BY <3>2, <3>3
      <3>5. SumFunctionOnSet(f, Upto(on, k - 1)) \in Nat /\ f[x] \in Nat
        BY <1>6, <2>1, <2>4, <3>1
      <3> QED  BY <2>4, <3>1, <3>4, <3>5
    <2>5. CASE Rules[k].id \notin on
      <3>1. Upto(on, k) = Upto(on, k - 1)
        BY <2>3, <2>5 DEF Upto
      <3> QED  BY <2>5, <3>1
    <2> QED  BY <2>4, <2>5
  <1> QED  BY <1>6, <1>7, <1>8, <1>9

\* s is the table of these sums.
SumsUp(s, on, f) ==
    /\ \A i \in 0 .. Len(Rules) : s[i] \in Nat /\ s[i] = SumFunctionOnSet(f, Upto(on, i))
    /\ s[0] = 0
    /\ \A i \in 1 .. Len(Rules) :
          s[i] = IF Rules[i].id \in on THEN s[i - 1] + f[Rules[i].id] ELSE s[i - 1]

(* There is one.                                                           *)
LEMMA SumTable ==
    ASSUME NEW on \in SUBSET Manager, \A m \in on : HasRule(m), NEW f, \A m \in on : f[m] \in Nat
    PROVE  \E s : SumsUp(s, on, f)
  <1>1. PICK s : s = [i \in 0 .. Len(Rules) |-> SumFunctionOnSet(f, Upto(on, i))]
    OBVIOUS
  <1>2. /\ \A k \in 0 .. Len(Rules) : SumFunctionOnSet(f, Upto(on, k)) \in Nat
        /\ SumFunctionOnSet(f, Upto(on, 0)) = 0
        /\ \A k \in 1 .. Len(Rules) :
              SumFunctionOnSet(f, Upto(on, k)) =
                 IF Rules[k].id \in on THEN SumFunctionOnSet(f, Upto(on, k - 1)) + f[Rules[k].id]
                 ELSE SumFunctionOnSet(f, Upto(on, k - 1))
    BY SumSteps
  <1>3. Len(Rules) \in Nat
    BY RulesAssumption
  <1>4. \A i \in 0 .. Len(Rules) : s[i] \in Nat /\ s[i] = SumFunctionOnSet(f, Upto(on, i))
    BY <1>1, <1>2
  <1>5. s[0] = 0
    BY <1>2, <1>3, <1>4
  <1>6. ASSUME NEW i \in 1 .. Len(Rules)
        PROVE  s[i] = IF Rules[i].id \in on THEN s[i - 1] + f[Rules[i].id] ELSE s[i - 1]
    <2>1. i - 1 \in 0 .. Len(Rules) /\ i \in 0 .. Len(Rules)
      BY <1>3
    <2>2. s[i] = SumFunctionOnSet(f, Upto(on, i)) /\ s[i - 1] = SumFunctionOnSet(f, Upto(on, i - 1))
      BY <1>4, <2>1
    <2> QED  BY <1>2, <2>2
  <1>7. SumsUp(s, on, f)
    BY <1>4, <1>5, <1>6 DEF SumsUp
  <1> QED  BY <1>7

(* It grows with the place.                                                *)
LEMMA SumGrows ==
    ASSUME NEW on \in SUBSET Manager, \A m \in on : HasRule(m), NEW f, \A m \in on : f[m] \in Nat,
           NEW j \in 0 .. Len(Rules), NEW k \in 0 .. Len(Rules), j <= k
    PROVE  SumFunctionOnSet(f, Upto(on, j)) <= SumFunctionOnSet(f, Upto(on, k))
  <1>1a. PICK s : SumsUp(s, on, f)
    BY SumTable
  <1>1. /\ \A i \in 0 .. Len(Rules) : s[i] \in Nat /\ s[i] = SumFunctionOnSet(f, Upto(on, i))
        /\ s[0] = 0
        /\ \A i \in 1 .. Len(Rules) :
              s[i] = IF Rules[i].id \in on THEN s[i - 1] + f[Rules[i].id] ELSE s[i - 1]
    BY <1>1a DEF SumsUp
  <1>2. Len(Rules) \in Nat
    BY RulesAssumption
  <1>3. /\ \A i \in 0 .. Len(Rules) : s[i] \in Nat /\ s[i] = SumFunctionOnSet(f, Upto(on, i))
        /\ \A i \in 1 .. Len(Rules) : s[i] >= s[i - 1]
    <2>1. ASSUME NEW i \in 1 .. Len(Rules)
          PROVE  s[i] >= s[i - 1]
      <3>1. i - 1 \in 0 .. Len(Rules)
        BY <1>2
      <3>2. s[i - 1] \in Nat
        BY <1>1, <3>1
      <3>3. s[i] = IF Rules[i].id \in on THEN s[i - 1] + f[Rules[i].id] ELSE s[i - 1]
        BY <1>1
      <3>4. Rules[i].id \in on => f[Rules[i].id] \in Nat
        OBVIOUS
      <3> QED  BY <3>2, <3>3, <3>4
    <2> QED  BY <1>1, <2>1
  <1> DEFINE Bad == {i \in j .. Len(Rules) : s[i] < s[j]}
  <1>4. Bad = {}
    <2>1. SUFFICES ASSUME Bad # {} PROVE FALSE
      OBVIOUS
    <2>2. Bad \in SUBSET Nat
      BY <1>2
    <2>3. PICK n \in Bad : \A i \in Bad : n <= i
      BY <2>1, <2>2, Least
    <2>4. n # j /\ n - 1 \in j .. Len(Rules) /\ n - 1 \notin Bad /\ n \in 1 .. Len(Rules)
      BY <1>2, <1>3, <2>3
    <2>5. s[n - 1] >= s[j] /\ s[n] >= s[n - 1] /\ s[n] < s[j]
      BY <1>2, <1>3, <2>3, <2>4
    <2>6. s[n - 1] \in Nat /\ s[n] \in Nat /\ s[j] \in Nat
      BY <1>2, <1>3, <2>4
    <2> QED  BY <2>5, <2>6
  <1>5. k \in j .. Len(Rules) /\ k \notin Bad
    BY <1>2, <1>4
  <1>6. s[k] >= s[j]
    BY <1>3, <1>5
  <1> QED  BY <1>3, <1>6

\* What n leaves of the total.
Excess(total, n) == IF total >= n THEN total - n ELSE 0

\* The lower of two numbers.
Lower(a, b) == IF a <= b THEN a ELSE b

(* What is left for a manager is what the room before it does not take.    *)
LEMMA RemainingIs ==
    ASSUME NEW on \in SUBSET Manager, \A m \in on : HasRule(m), NEW total \in Nat,
           NEW room, \A m \in on : room[m] = EffectiveCapacity(RuleOf(m)) /\ room[m] \in Nat,
           NEW m \in on
    PROVE  Remaining(m, total, on) = Excess(total, SumFunctionOnSet(room, Upto(on, Place(m) - 1)))
  <1>1. PICK p \in Nat : p = Place(m) - 1 /\ p \in 0 .. Len(Rules)
    <2>1. HasRule(m)
      OBVIOUS
    <2> QED  BY <2>1, PlaceFacts
  <1>2. PICK r \in [0 .. p -> Nat] : /\ r[0] = total
                                     /\ \A k \in 1 .. p : r[k] = Rest(r[k - 1], k, on)
                                     /\ Remaining(m, total, on) = r[p]
    <2>1. \E r \in [0 .. Place(m) - 1 -> Nat] :
              /\ r[0] = total
              /\ \A k \in 1 .. Place(m) - 1 : r[k] = Rest(r[k - 1], k, on)
              /\ Remaining(m, total, on) = r[Place(m) - 1]
      BY RemainingSteps
    <2> QED  BY <1>1, <2>1
  <1>3. Len(Rules) \in Nat /\ DOMAIN Rules = 1 .. Len(Rules)
    BY RulesAssumption
  <1>5a. PICK s : SumsUp(s, on, room)
    BY SumTable
  <1>5. /\ \A i \in 0 .. Len(Rules) : s[i] \in Nat /\ s[i] = SumFunctionOnSet(room, Upto(on, i))
        /\ s[0] = 0
        /\ \A i \in 1 .. Len(Rules) :
              s[i] = IF Rules[i].id \in on THEN s[i - 1] + room[Rules[i].id] ELSE s[i - 1]
    BY <1>5a DEF SumsUp
  <1>6. ASSUME NEW k \in 1 .. p, r[k - 1] = Excess(total, s[k - 1])
        PROVE  r[k] = Excess(total, s[k])
    <2>1. k \in 1 .. Len(Rules) /\ k - 1 \in 0 .. Len(Rules) /\ k \in 0 .. Len(Rules) /\ k - 1 \in 0 .. p
      BY <1>1, <1>3
    <2>2. r[k] = Rest(r[k - 1], k, on) /\ r[k - 1] \in Nat /\ s[k - 1] \in Nat
      BY <1>2, <1>5, <2>1
    <2>3. CASE Rules[k].id \in on
      <3>1. PICK c \in Nat : c = room[Rules[k].id]
        BY <2>3
      <3>2. c = EffectiveCapacity(Rules[k])
        BY <1>3, <2>1, <2>3, <3>1, RuleAt
      <3>3. s[k] = s[k - 1] + c
        BY <1>5, <2>1, <2>3, <3>1
      <3>4. PICK v \in Nat : v = r[k - 1]
        BY <2>2
      <3>5. Max({0, v - c}) = IF 0 >= v - c THEN 0 ELSE v - c
        BY MaxTwo
      <3>6. r[k] = Max({0, v - c})
        BY <2>2, <2>3, <3>2, <3>4 DEF Rest
      <3>7. PICK a \in Nat : a = s[k - 1]
        BY <2>2
      <3>8. v = Excess(total, a) /\ s[k] = a + c
        BY <1>6, <3>3, <3>4, <3>7
      <3>9. r[k] = IF 0 >= v - c THEN 0 ELSE v - c
        BY <3>5, <3>6
      <3>10. (IF 0 >= v - c THEN 0 ELSE v - c) = Excess(total, a + c)
        BY <3>8 DEF Excess
      <3> QED  BY <3>8, <3>9, <3>10
    <2>4. CASE Rules[k].id \notin on
      BY <1>5, <1>6, <2>1, <2>2, <2>4 DEF Rest
    <2> QED  BY <2>3, <2>4
  <1> DEFINE Bad == {i \in 0 .. p : r[i] # Excess(total, s[i])}
  <1>7. Bad = {}
    <2>1. SUFFICES ASSUME Bad # {} PROVE FALSE
      OBVIOUS
    <2>2. Bad \in SUBSET Nat
      OBVIOUS
    <2>3. PICK n \in Bad : \A i \in Bad : n <= i
      BY <2>1, <2>2, Least
    <2>4. n # 0
      BY <1>2, <1>5 DEF Excess
    <2>5. n \in 1 .. p /\ n - 1 \in 0 .. p /\ n - 1 \notin Bad
      BY <2>3, <2>4
    <2>6. r[n - 1] = Excess(total, s[n - 1])
      BY <2>5
    <2> QED  BY <1>6, <2>5, <2>6
  <1>8. r[p] = Excess(total, s[p])
    BY <1>7
  <1> QED  BY <1>1, <1>2, <1>5, <1>8

(* The shares add up to the target, or to all the room there is.           *)
LEMMA SharesAdd ==
    ASSUME NEW on \in SUBSET Manager, \A m \in on : HasRule(m), NEW total \in Nat,
           NEW room, \A m \in on : room[m] = EffectiveCapacity(RuleOf(m)) /\ room[m] \in Nat,
           NEW share, \A m \in on : share[m] = Share(m, total, on)
    PROVE  /\ \A m \in on : share[m] \in Nat
           /\ \A m \in on : share[m] = Lower(Excess(total, SumFunctionOnSet(room, Upto(on, Place(m) - 1))), room[m])
           /\ SumFunctionOnSet(share, on) = Lower(total, SumFunctionOnSet(room, on))
  <1>1. Len(Rules) \in Nat /\ DOMAIN Rules = 1 .. Len(Rules)
    BY RulesAssumption
  <1>3a. PICK s : SumsUp(s, on, room)
    BY SumTable
  <1>3. /\ \A i \in 0 .. Len(Rules) : s[i] \in Nat /\ s[i] = SumFunctionOnSet(room, Upto(on, i))
        /\ s[0] = 0
        /\ \A i \in 1 .. Len(Rules) :
              s[i] = IF Rules[i].id \in on THEN s[i - 1] + room[Rules[i].id] ELSE s[i - 1]
    BY <1>3a DEF SumsUp
  <1>4. ASSUME NEW m \in on
        PROVE  /\ Place(m) - 1 \in 0 .. Len(Rules)
               /\ share[m] = IF Excess(total, s[Place(m) - 1]) <= room[m]
                             THEN Excess(total, s[Place(m) - 1]) ELSE room[m]
               /\ share[m] \in Nat
    <2>1. HasRule(m) /\ m \in Manager
      OBVIOUS
    <2>2. Place(m) - 1 \in 0 .. Len(Rules)
      BY <1>1, <2>1, PlaceFacts
    <2>3. Remaining(m, total, on) = Excess(total, s[Place(m) - 1])
      BY <1>3, <2>2, RemainingIs
    <2>4. PICK e \in Nat : e = Excess(total, s[Place(m) - 1])
      BY <1>3, <2>2 DEF Excess
    <2>5. PICK c \in Nat : c = room[m] /\ c = EffectiveCapacity(RuleOf(m))
      OBVIOUS
    <2>6. Share(m, total, on) = IF e <= c THEN e ELSE c
      BY <2>1, <2>3, <2>4, <2>5, ShareType
    <2> QED  BY <2>2, <2>4, <2>5, <2>6
  <1>6a. PICK t : SumsUp(t, on, share)
    BY <1>4, SumTable
  <1>6. /\ \A i \in 0 .. Len(Rules) : t[i] \in Nat /\ t[i] = SumFunctionOnSet(share, Upto(on, i))
        /\ t[0] = 0
        /\ \A i \in 1 .. Len(Rules) :
              t[i] = IF Rules[i].id \in on THEN t[i - 1] + share[Rules[i].id] ELSE t[i - 1]
    BY <1>6a DEF SumsUp
  <1>7. ASSUME NEW k \in 1 .. Len(Rules), t[k - 1] = IF total <= s[k - 1] THEN total ELSE s[k - 1]
        PROVE  t[k] = IF total <= s[k] THEN total ELSE s[k]
    <2>1. k - 1 \in 0 .. Len(Rules) /\ s[k - 1] \in Nat
      BY <1>1, <1>3
    <2>2. CASE Rules[k].id \in on
      <3>1. PICK m \in on : m = Rules[k].id
        BY <2>2
      <3>2. Place(m) = k
        BY <1>1, <3>1, RuleAt
      <3>3. PICK c \in Nat : c = room[m]
        OBVIOUS
      <3>4. share[m] = IF Excess(total, s[k - 1]) <= c THEN Excess(total, s[k - 1]) ELSE c
        BY <1>4, <3>2, <3>3
      <3>5. s[k] = s[k - 1] + c /\ t[k] = t[k - 1] + share[m]
        BY <1>3, <1>6, <2>2, <3>1, <3>3
      <3> QED  BY <1>7, <2>1, <3>4, <3>5 DEF Excess
    <2>3. CASE Rules[k].id \notin on
      BY <1>3, <1>6, <1>7, <2>1, <2>3
    <2> QED  BY <2>2, <2>3
  <1> DEFINE Bad == {i \in 0 .. Len(Rules) : t[i] # IF total <= s[i] THEN total ELSE s[i]}
  <1>8. Bad = {}
    <2>1. SUFFICES ASSUME Bad # {} PROVE FALSE
      OBVIOUS
    <2>2. Bad \in SUBSET Nat
      BY <1>1
    <2>3. PICK n \in Bad : \A i \in Bad : n <= i
      BY <2>1, <2>2, Least
    <2>4. n # 0
      BY <1>3, <1>6
    <2>5. n \in 1 .. Len(Rules) /\ n - 1 \in 0 .. Len(Rules) /\ n - 1 \notin Bad
      BY <1>1, <2>3, <2>4
    <2>6. t[n - 1] = IF total <= s[n - 1] THEN total ELSE s[n - 1]
      BY <2>5
    <2> QED  BY <1>7, <2>5, <2>6
  <1>9. t[Len(Rules)] = IF total <= s[Len(Rules)] THEN total ELSE s[Len(Rules)]
    BY <1>1, <1>8
  <1>10. t[Len(Rules)] = SumFunctionOnSet(share, on) /\ s[Len(Rules)] = SumFunctionOnSet(room, on)
    <2>1. Upto(on, Len(Rules)) = on
      BY SumSteps
    <2> QED  BY <1>1, <1>3, <1>6, <2>1
  <1> QED  BY <1>3, <1>4, <1>9, <1>10 DEF Lower

(* At any moment the shares of the managers that are online fit together.  *)
LEMMA WaterfallState ==
    ASSUME TypeOK, Limited
    PROVE  WaterfallExact
  <1> DEFINE on    == {m \in Online : HasRule(m)}
             total == Needed(TaskCount, Upper)
             share == [m \in on |-> AllocateGenericDesired(m, on)]
             room  == [m \in on |-> EffectiveCapacity(RuleOf(m))]
  <1>1. SUFFICES ASSUME TaskCount > 0
                 PROVE  /\ SumFunction(share) = Min({total, SumFunction(room)})
                        /\ \A m \in on : share[m] > 0 =>
                              \A r \in Range(Before(m)) : r.id \in on => share[r.id] = room[r.id]
    BY DEF WaterfallExact
  <1>2. on \in SUBSET Manager /\ \A m \in on : HasRule(m)
    BY DEF Online
  <1>3. total \in Nat
    BY TaskCountType, NeededType, RatioAssumption
  <1>4. \A m \in on : room[m] = EffectiveCapacity(RuleOf(m)) /\ room[m] \in Nat
    <2> SUFFICES ASSUME NEW m \in on PROVE EffectiveCapacity(RuleOf(m)) \in Nat
      OBVIOUS
    <2>1. PICK r \in Range(Rules) : r = RuleOf(m) /\ r.id = m
      BY <1>2, PlaceFacts
    <2>2. PICK c \in Nat : c = MaxConcurrency[m]
      BY <1>2, LimitAssumption DEF Limited
    <2>3. r.cap = Omitted \/ r.cap \in Nat
      BY RulesAssumption
    <2>4. EffectiveCapacity(r) \in Nat
      BY <2>1, <2>2, <2>3, MinTwo DEF EffectiveCapacity
    <2> QED  BY <2>1, <2>4
  <1>5. \A m \in on : share[m] = Share(m, total, on)
    BY <1>1 DEF AllocateGenericDesired
  <1>6. DOMAIN share = on /\ DOMAIN room = on
    OBVIOUS
  <1> HIDE DEF on, total, share, room
  <1>7. /\ \A m \in on : share[m] \in Nat
        /\ \A m \in on : share[m] = Lower(Excess(total, SumFunctionOnSet(room, Upto(on, Place(m) - 1))), room[m])
        /\ SumFunctionOnSet(share, on) = Lower(total, SumFunctionOnSet(room, on))
    BY <1>2, <1>3, <1>4, <1>5, SharesAdd
  <1>8. SumFunction(share) = Min({total, SumFunction(room)})
    <2>1. SumFunction(share) = SumFunctionOnSet(share, on) /\ SumFunction(room) = SumFunctionOnSet(room, on)
      BY <1>6 DEF SumFunction
    <2>2. PICK n \in Nat : n = SumFunctionOnSet(room, on)
      <3>1. IsFiniteSet(on)
        BY <1>2, FiniteAssumption, FS_Subset
      <3> QED  BY <1>4, <3>1, SumAdd
    <2>3. Min({total, n}) = IF total <= n THEN total ELSE n
      BY <1>3, MinTwo
    <2> QED  BY <1>7, <2>1, <2>2, <2>3 DEF Lower
  <1>9. ASSUME NEW m \in on, share[m] > 0, NEW r \in Range(Before(m)), r.id \in on
        PROVE  share[r.id] = room[r.id]
    <2>1. HasRule(m)
      BY <1>2
    <2>2. PICK p \in Nat : p = Place(m) - 1 /\ p \in 0 .. Len(Rules) /\ Len(Rules) \in Nat
                           /\ DOMAIN Rules = 1 .. Len(Rules)
      BY <2>1, PlaceFacts
    <2>3. PICK q \in 1 .. p : r = Rules[q]
      <3>1. DOMAIN Before(m) = 1 .. p /\ \A i \in 1 .. p : Before(m)[i] = Rules[i]
        BY <2>1, <2>2, BeforeFacts
      <3>2. PICK q \in DOMAIN Before(m) : Before(m)[q] = r
        BY DEF Range
      <3> QED  BY <3>1, <3>2
    <2>4. q \in DOMAIN Rules /\ q \in 0 .. Len(Rules) /\ q - 1 \in 0 .. Len(Rules) /\ q <= p
      BY <2>2, <2>3
    <2>5. Place(r.id) = q
      BY <2>3, <2>4, RuleAt
    <2>6. PICK a \in Nat : a = SumFunctionOnSet(room, Upto(on, q - 1))
      BY <1>2, <1>4, <2>4, SumSteps
    <2>7. PICK b \in Nat : b = SumFunctionOnSet(room, Upto(on, p))
      BY <1>2, <1>4, <2>2, SumSteps
    <2>8. PICK c \in Nat : c = room[r.id]
      BY <1>4, <1>9
    <2>9. SumFunctionOnSet(room, Upto(on, q)) = a + c
      <3>1. q \in 1 .. Len(Rules)
        BY <2>2, <2>4
      <3>2. \A k \in 1 .. Len(Rules) :
                 SumFunctionOnSet(room, Upto(on, k)) =
                    IF Rules[k].id \in on THEN SumFunctionOnSet(room, Upto(on, k - 1)) + room[Rules[k].id]
                    ELSE SumFunctionOnSet(room, Upto(on, k - 1))
        BY <1>2, <1>4, SumSteps
      <3> QED  BY <1>9, <2>3, <2>6, <2>8, <3>1, <3>2
    <2>10. a + c <= b
      BY <1>2, <1>4, <2>2, <2>4, <2>7, <2>9, SumGrows
    <2>11. total > b
      <3>1. share[m] = IF Excess(total, b) <= room[m] THEN Excess(total, b) ELSE room[m]
        BY <1>7, <2>2, <2>7 DEF Lower
      <3>2. room[m] \in Nat
        BY <1>4
      <3> QED  BY <1>3, <1>9, <3>1, <3>2 DEF Excess
    <2>12. share[r.id] = IF Excess(total, a) <= c THEN Excess(total, a) ELSE c
      BY <1>7, <1>9, <2>5, <2>6, <2>8 DEF Lower
    <2> QED  BY <1>3, <2>8, <2>10, <2>11, <2>12 DEF Excess
  <1> QED  BY <1>8, <1>9

(* However the managers come and go, the shares that the waterfall policy  *)
(* computes one heartbeat at a time fit together                           *)
(* (_allocate_generic_desired), for any number of rules, priorities and    *)
(* caps, provided that the managers with a rule have a limit.              *)
THEOREM ScalingWaterfall ==
    ASSUME Limited
    PROVE  Spec => []WaterfallExact
  <1>1. ScalingInv => WaterfallExact
    BY WaterfallState DEF ScalingInv, WithinCapacity
  <1> QED  BY <1>1, Invariance, PTL

=============================================================================
