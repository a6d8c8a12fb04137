---------------------------- MODULE FoldTheorems ----------------------------
EXTENDS Integers, Folds, FiniteSetsExt, FiniteSetTheorems, WellFoundedInduction, TLAPS

(***************************************************************************)
(* Induction over the folds of the library.  A fold is an iteration over    *)
(* the subsets of a finite set; what is stated of functions instead of      *)
(* operators can be proved here, by a least counterexample.                 *)
(***************************************************************************)

(* A set of natural numbers has a least member.                            *)
LEMMA Least ==
    ASSUME NEW T \in SUBSET Nat, T # {}
    PROVE  \E n \in T : \A m \in T : n <= m
  <1>1. IsWellFoundedOn(OpToRel(<, Nat), Nat)
    BY NatLessThanWellFounded
  <1>2. \E x \in T : \A y \in T : ~ (<<y, x>> \in OpToRel(<, Nat))
    BY <1>1, WFMin
  <1>3. PICK x \in T : \A y \in T : ~ (<<y, x>> \in OpToRel(<, Nat))
    BY <1>2
  <1>4. \A y \in T : ~ (y < x)
    BY <1>3 DEF OpToRel
  <1> QED  BY <1>4

(* it is the iteration of F over the subsets of S, in the order of pick.   *)
Iterates(it, S, V, base, F, pick) ==
    /\ it \in [SUBSET S -> V]
    /\ it[{}] = base
    /\ \A s \in SUBSET S : s # {} => it[s] = F[pick[s]][it[s \ {pick[s]}]]

(* A step of an iteration stays in its range.                              *)
LEMMA Applied ==
    ASSUME NEW S, NEW V, NEW F \in [S -> [V -> V]], NEW x \in S, NEW v \in V
    PROVE  F[x][v] \in V
  <1>1. F[x] \in [V -> V]
    OBVIOUS
  <1> QED  BY <1>1

(* There is such an iteration.                                            *)
LEMMA IterationExists ==
    ASSUME NEW S, IsFiniteSet(S), NEW V, NEW base \in V, NEW F \in [S -> [V -> V]],
           NEW pick \in [(SUBSET S) \ {{}} -> S], \A s \in SUBSET S : s # {} => pick[s] \in s
    PROVE  \E it : Iterates(it, S, V, base, F, pick)
  <1> DEFINE Upto(n) == {s \in SUBSET S : Cardinality(s) <= n}
             Good(it, n) == /\ it \in [SUBSET S -> V]
                            /\ it[{}] = base
                            /\ \A s \in Upto(n) : s # {} => it[s] = F[pick[s]][it[s \ {pick[s]}]]
             Bad == {n \in Nat : ~ \E it : Good(it, n)}
  <1>1. \A s \in SUBSET S : IsFiniteSet(s) /\ Cardinality(s) \in Nat /\ (Cardinality(s) = 0 <=> s = {})
    BY FS_Subset, FS_CardinalityType, FS_EmptySet
  <1>2. \A s \in SUBSET S : s # {} => Cardinality(s \ {pick[s]}) = Cardinality(s) - 1
    BY <1>1, FS_RemoveElement
  <1>3. Bad = {}
    <2> SUFFICES ASSUME Bad # {} PROVE FALSE
      OBVIOUS
    <2>1. PICK n \in Bad : \A m \in Bad : n <= m
      BY Least
    <2>2. CASE n = 0
      <3> DEFINE it == [s \in SUBSET S |-> base]
      <3>1. it \in [SUBSET S -> V] /\ it[{}] = base
        OBVIOUS
      <3>2. \A s \in Upto(0) : s = {}
        BY <1>1
      <3>3. Good(it, 0)
        BY <3>1, <3>2
      <3> QED  BY <2>2, <3>3
    <2>3. CASE n # 0
      <3>1. n - 1 \in Nat /\ n - 1 \notin Bad
        <4>1. n \in Nat /\ \A m \in Bad : n <= m
          BY <2>1
        <4> HIDE DEF Bad
        <4>2. n - 1 \in Nat
          BY <2>3, <4>1
        <4> QED  BY <4>1, <4>2
      <3>2. PICK g : Good(g, n - 1)
        BY <3>1
      <3> DEFINE it == [s \in SUBSET S |-> IF s \in Upto(n - 1) THEN g[s] ELSE F[pick[s]][g[s \ {pick[s]}]]]
      <3>3. it \in [SUBSET S -> V]
        <4> SUFFICES ASSUME NEW s \in SUBSET S PROVE it[s] \in V
          OBVIOUS
        <4>1. CASE s \in Upto(n - 1)
          BY <3>2, <4>1
        <4>2. CASE s \notin Upto(n - 1)
          <5>1. s # {}
            BY <1>1, <3>1, <4>2
          <5>2. pick[s] \in S /\ s \ {pick[s]} \in SUBSET S
            BY <5>1
          <5>3. g[s \ {pick[s]}] \in V
            BY <3>2, <5>2
          <5>4. it[s] = F[pick[s]][g[s \ {pick[s]}]]
            BY <4>2
          <5> HIDE DEF it
          <5>5. PICK x \in S : x = pick[s]
            BY <5>2
          <5>6. PICK v \in V : v = g[s \ {pick[s]}]
            BY <5>3
          <5>7. F[x][v] \in V
            BY Applied
          <5> QED  BY <5>4, <5>5, <5>6, <5>7
        <4> QED  BY <4>1, <4>2
      <3>4. it[{}] = base
        BY <1>1, <3>1, <3>2
      <3>5. ASSUME NEW s \in Upto(n), s # {}
            PROVE  it[s] = F[pick[s]][it[s \ {pick[s]}]]
        <4>1. s \ {pick[s]} \in SUBSET S /\ Cardinality(s) \in Nat /\ Cardinality(s \ {pick[s]}) = Cardinality(s) - 1
          BY <1>1, <1>2, <3>5
        <4>2. s \ {pick[s]} \in Upto(n - 1)
          BY <3>1, <4>1, <3>5
        <4>3. it[s \ {pick[s]}] = g[s \ {pick[s]}]
          BY <4>1, <4>2
        <4> HIDE DEF Upto
        <4>4. CASE s \in Upto(n - 1)
          <5>1. g[s] = F[pick[s]][g[s \ {pick[s]}]]
            BY <3>2, <3>5, <4>4
          <5> QED  BY <4>3, <4>4, <5>1 DEF Upto
        <4>5. CASE s \notin Upto(n - 1)
          BY <4>3, <4>5, <3>5 DEF Upto
        <4> QED  BY <4>4, <4>5
      <3>6. Good(it, n)
        BY <3>3, <3>4, <3>5
      <3> QED  BY <3>6
    <2> QED  BY <2>2, <2>3
  <1>4. Cardinality(S) \in Nat /\ SUBSET S = Upto(Cardinality(S))
    BY <1>1, FS_Subset, FS_CardinalityType
  <1>5. PICK it : Good(it, Cardinality(S))
    BY <1>3, <1>4
  <1> QED  BY <1>4, <1>5 DEF Iterates

(* What satisfies the equations of an iteration is one.                    *)
LEMMA IterationOnly ==
    ASSUME NEW S, IsFiniteSet(S), NEW V, NEW base \in V, NEW F \in [S -> [V -> V]],
           NEW pick \in [(SUBSET S) \ {{}} -> S], \A s \in SUBSET S : s # {} => pick[s] \in s,
           NEW it, it = [s \in SUBSET S |-> it[s]], it[{}] = base,
           \A s \in SUBSET S : s # {} /\ it[s \ {pick[s]}] \in V => it[s] = F[pick[s]][it[s \ {pick[s]}]]
    PROVE  Iterates(it, S, V, base, F, pick)
  <1> DEFINE Bad == {n \in Nat : \E s \in SUBSET S : Cardinality(s) = n /\ it[s] \notin V}
  <1>1. \A s \in SUBSET S : IsFiniteSet(s) /\ Cardinality(s) \in Nat /\ (Cardinality(s) = 0 <=> s = {})
    BY FS_Subset, FS_CardinalityType, FS_EmptySet
  <1>2. \A s \in SUBSET S : s # {} => Cardinality(s \ {pick[s]}) = Cardinality(s) - 1
    BY <1>1, FS_RemoveElement
  <1>3. Bad = {}
    <2> SUFFICES ASSUME Bad # {} PROVE FALSE
      OBVIOUS
    <2>1. PICK n \in Bad : \A m \in Bad : n <= m
      BY Least
    <2>2. PICK s \in SUBSET S : Cardinality(s) = n /\ it[s] \notin V
      OBVIOUS
    <2>3. s # {}
      BY <2>2
    <2>4. s \ {pick[s]} \in SUBSET S /\ Cardinality(s \ {pick[s]}) \in Nat /\ Cardinality(s \ {pick[s]}) = n - 1
      BY <1>1, <1>2, <2>2, <2>3
    <2>5. Cardinality(s \ {pick[s]}) \notin Bad
      <3>1. n \in Nat
        OBVIOUS
      <3> HIDE DEF Bad
      <3> QED  BY <2>1, <2>4, <3>1
    <2>6. it[s \ {pick[s]}] \in V
      BY <2>4, <2>5
    <2>7. pick[s] \in S
      BY <2>3
    <2>8. F[pick[s]][it[s \ {pick[s]}]] \in V
      <3>1. PICK x \in S : x = pick[s]
        BY <2>7
      <3>2. PICK v \in V : v = it[s \ {pick[s]}]
        BY <2>6
      <3>3. F[x][v] \in V
        BY Applied
      <3> QED  BY <3>1, <3>2, <3>3
    <2> QED  BY <2>2, <2>3, <2>6, <2>8
  <1>4. \A s \in SUBSET S : it[s] \in V
    BY <1>1, <1>3
  <1>5. it \in [SUBSET S -> V]
    BY <1>4
  <1>6. \A s \in SUBSET S : s # {} => it[s \ {pick[s]}] \in V
    BY <1>4
  <1> QED  BY <1>5, <1>6 DEF Iterates

(* it adds up w over the subsets of S, in whatever order.                  *)
Totals(it, S, w) ==
    /\ it \in [SUBSET S -> Nat]
    /\ it[{}] = 0
    /\ \A s \in SUBSET S : s # {} => \E x \in s : it[s] = w[x] + it[s \ {x}]

(* The order does not matter.                                              *)
LEMMA TotalsAdd ==
    ASSUME NEW S, IsFiniteSet(S), NEW w, \A x \in S : w[x] \in Nat, NEW it, Totals(it, S, w)
    PROVE  \A s \in SUBSET S : \A x \in s : it[s] = w[x] + it[s \ {x}]
  <1> DEFINE Right(s) == \A x \in s : it[s] = w[x] + it[s \ {x}]
             Bad == {n \in Nat : \E s \in SUBSET S : Cardinality(s) = n /\ ~ Right(s)}
  <1>1. \A s \in SUBSET S : IsFiniteSet(s) /\ Cardinality(s) \in Nat
    BY FS_Subset, FS_CardinalityType
  <1>2. \A s \in SUBSET S : \A x \in s : Cardinality(s \ {x}) = Cardinality(s) - 1
    BY <1>1, FS_RemoveElement
  <1>3. Bad = {}
    <2> SUFFICES ASSUME Bad # {} PROVE FALSE
      OBVIOUS
    <2>1. PICK n \in Bad : \A m \in Bad : n <= m
      BY Least
    <2>2. PICK s \in SUBSET S : Cardinality(s) = n /\ ~ Right(s)
      OBVIOUS
    <2>3. PICK x \in s : it[s] # w[x] + it[s \ {x}]
      BY <2>2
    <2>4. PICK p \in s : it[s] = w[p] + it[s \ {p}]
      BY <2>3 DEF Totals
    <2>5. p # x
      BY <2>3, <2>4
    <2>6. \A t \in SUBSET S : Cardinality(t) = n - 1 => Right(t)
      <3>1. n \in Nat /\ n - 1 \notin Bad
        <4>1. n \in Nat
          OBVIOUS
        <4> HIDE DEF Bad
        <4> QED  BY <2>1, <4>1
      <3> SUFFICES ASSUME NEW t \in SUBSET S, Cardinality(t) = n - 1 PROVE Right(t)
        OBVIOUS
      <3>2. n - 1 \in Nat
        BY <1>1
      <3> QED  BY <3>1, <3>2
    <2>7. Right(s \ {p}) /\ Right(s \ {x})
      BY <1>2, <2>2, <2>6
    <2> DEFINE r == (s \ {x}) \ {p}
    <2>8. it[s \ {p}] = w[x] + it[r]
      <3>1. (s \ {p}) \ {x} = r
        OBVIOUS
      <3>2. it[s \ {p}] = w[x] + it[(s \ {p}) \ {x}]
        BY <2>5, <2>7
      <3> QED  BY <3>1, <3>2
    <2>9. it[s \ {x}] = w[p] + it[r]
      BY <2>5, <2>7
    <2>10. w[x] \in Nat /\ w[p] \in Nat /\ it[r] \in Nat
      BY DEF Totals
    <2> HIDE DEF r
    <2> QED  BY <2>3, <2>4, <2>8, <2>9, <2>10
  <1>4. \A s \in SUBSET S : Right(s)
    BY <1>1, <1>3
  <1> QED  BY <1>4

(* The total of a set does not depend on where it is a subset of.          *)
LEMMA TotalsSame ==
    ASSUME NEW S, IsFiniteSet(S), NEW w, \A x \in S : w[x] \in Nat, NEW it, Totals(it, S, w),
           NEW T \in SUBSET S, NEW v, \A x \in T : v[x] = w[x], NEW jt, Totals(jt, T, v)
    PROVE  \A s \in SUBSET T : jt[s] = it[s]
  <1> DEFINE Bad == {n \in Nat : \E s \in SUBSET T : Cardinality(s) = n /\ jt[s] # it[s]}
  <1>1. \A s \in SUBSET S : IsFiniteSet(s) /\ Cardinality(s) \in Nat
    BY FS_Subset, FS_CardinalityType
  <1>2. \A s \in SUBSET S : \A x \in s : Cardinality(s \ {x}) = Cardinality(s) - 1
    BY <1>1, FS_RemoveElement
  <1>3. Bad = {}
    <2> SUFFICES ASSUME Bad # {} PROVE FALSE
      OBVIOUS
    <2>1. PICK n \in Bad : \A m \in Bad : n <= m
      BY Least
    <2>2. PICK s \in SUBSET T : Cardinality(s) = n /\ jt[s] # it[s]
      OBVIOUS
    <2>3. s # {}
      BY <2>2 DEF Totals
    <2>4. PICK x \in s : jt[s] = v[x] + jt[s \ {x}]
      BY <2>3 DEF Totals
    <2>5. it[s] = w[x] + it[s \ {x}]
      BY TotalsAdd
    <2>6. s \ {x} \in SUBSET T /\ Cardinality(s \ {x}) \in Nat /\ Cardinality(s \ {x}) = n - 1
      BY <1>1, <1>2, <2>2
    <2>7. Cardinality(s \ {x}) \notin Bad
      <3>1. n \in Nat
        OBVIOUS
      <3> HIDE DEF Bad
      <3> QED  BY <2>1, <2>6, <3>1
    <2>8. jt[s \ {x}] = it[s \ {x}]
      BY <2>6, <2>7
    <2> QED  BY <2>2, <2>4, <2>5, <2>8
  <1>4. \A s \in SUBSET T : Cardinality(s) \in Nat
    BY <1>1
  <1> QED  BY <1>3, <1>4

(* SumFunctionOnSet(f, S) adds up f over S.                                *)
LEMMA SumTotals ==
    ASSUME NEW S, IsFiniteSet(S), NEW f, \A x \in S : f[x] \in Nat
    PROVE  \E it : Totals(it, S, f) /\ SumFunctionOnSet(f, S) = it[S]
  <1> DEFINE choose(s) == CHOOSE x \in s : TRUE
             pick == [s \in (SUBSET S) \ {{}} |-> choose(s)]
             F    == [x \in S |-> [v \in Nat |-> f[x] + v]]
             Fn(it) == [s \in SUBSET S |-> IF s = {} THEN 0 ELSE f[choose(s)] + it[s \ {choose(s)}]]
             sum  == CHOOSE it : it = Fn(it)
  <1>1. \A s \in SUBSET S : s # {} => choose(s) \in s
    OBVIOUS
  <1>2. SumFunctionOnSet(f, S) = sum[S]
    BY DEF SumFunctionOnSet, FoldFunctionOnSet, MapThenFoldSet
  <1> HIDE DEF choose
  <1>3. /\ pick \in [(SUBSET S) \ {{}} -> S]
        /\ \A s \in SUBSET S : s # {} => pick[s] \in s /\ pick[s] = choose(s)
    BY <1>1
  <1>4. /\ F \in [S -> [Nat -> Nat]]
        /\ \A x \in S, v \in Nat : F[x][v] = f[x] + v
    OBVIOUS
  <1> HIDE DEF pick, F
  <1>5. PICK it : Iterates(it, S, Nat, 0, F, pick)
    BY <1>3, <1>4, IterationExists
  <1>6. it = Fn(it)
    <2>1. it \in [SUBSET S -> Nat]
      BY <1>5 DEF Iterates
    <2>2. ASSUME NEW s \in SUBSET S
          PROVE  it[s] = Fn(it)[s]
      <3>1. CASE s = {}
        BY <1>5, <3>1 DEF Iterates
      <3>2. CASE s # {}
        <4>1. it[s] = F[pick[s]][it[s \ {pick[s]}]]
          BY <1>5, <3>2 DEF Iterates
        <4>2. pick[s] \in S /\ it[s \ {pick[s]}] \in Nat /\ pick[s] = choose(s)
          BY <1>3, <2>1, <3>2
        <4> QED  BY <1>4, <3>2, <4>1, <4>2
      <3> QED  BY <3>1, <3>2
    <2> QED  BY <2>1, <2>2
  <1>7. sum = Fn(sum)
    BY <1>6, Zenon
  <1> HIDE DEF sum
  <1>8. Iterates(sum, S, Nat, 0, F, pick)
    <2>1. sum = [s \in SUBSET S |-> sum[s]]
      BY <1>7
    <2>2. sum[{}] = 0
      BY <1>7
    <2>3. ASSUME NEW s \in SUBSET S, s # {}, sum[s \ {pick[s]}] \in Nat
          PROVE  sum[s] = F[pick[s]][sum[s \ {pick[s]}]]
      <3>1. sum[s] = f[choose(s)] + sum[s \ {choose(s)}]
        BY <1>7, <2>3
      <3> QED  BY <1>3, <1>4, <2>3, <3>1
    <2>4. \A s \in SUBSET S : s # {} /\ sum[s \ {pick[s]}] \in Nat => sum[s] = F[pick[s]][sum[s \ {pick[s]}]]
      BY <2>3
    <2>5. /\ pick \in [(SUBSET S) \ {{}} -> S]
          /\ \A s \in SUBSET S : s # {} => pick[s] \in s
      BY <1>3
    <2>6. F \in [S -> [Nat -> Nat]] /\ 0 \in Nat
      BY <1>4
    <2> HIDE DEF Fn
    <2> QED  BY <2>1, <2>2, <2>4, <2>5, <2>6, IterationOnly
  <1>9. Totals(sum, S, f)
    <2>1. sum \in [SUBSET S -> Nat] /\ sum[{}] = 0
      BY <1>8 DEF Iterates
    <2>2. ASSUME NEW s \in SUBSET S, s # {}
          PROVE  \E x \in s : sum[s] = f[x] + sum[s \ {x}]
      <3>1. sum[s] = F[pick[s]][sum[s \ {pick[s]}]]
        BY <1>8, <2>2 DEF Iterates
      <3>2. pick[s] \in s /\ pick[s] \in S /\ sum[s \ {pick[s]}] \in Nat
        BY <1>3, <2>1, <2>2
      <3> QED  BY <1>4, <3>1, <3>2
    <2> QED  BY <2>1, <2>2 DEF Totals
  <1> QED  BY <1>2, <1>9

(* A sum of natural numbers is one, and its parts can be taken out of it.  *)
LEMMA SumAdd ==
    ASSUME NEW S, IsFiniteSet(S), NEW f, \A x \in S : f[x] \in Nat
    PROVE  /\ SumFunctionOnSet(f, S) \in Nat
           /\ SumFunctionOnSet(f, {}) = 0
           /\ \A x \in S : SumFunctionOnSet(f, S) = f[x] + SumFunctionOnSet(f, S \ {x})
  <1>1. PICK it : Totals(it, S, f) /\ SumFunctionOnSet(f, S) = it[S]
    BY SumTotals
  <1>2. \A T \in SUBSET S : SumFunctionOnSet(f, T) = it[T]
    <2> SUFFICES ASSUME NEW T \in SUBSET S PROVE SumFunctionOnSet(f, T) = it[T]
      OBVIOUS
    <2>1. IsFiniteSet(T)
      BY FS_Subset
    <2>2. PICK jt : Totals(jt, T, f) /\ SumFunctionOnSet(f, T) = jt[T]
      BY <2>1, SumTotals
    <2>3. \A s \in SUBSET T : jt[s] = it[s]
      BY <1>1, <2>2, TotalsSame
    <2> QED  BY <2>2, <2>3
  <1>3. it[S] \in Nat /\ it[{}] = 0
    BY <1>1 DEF Totals
  <1>4. \A x \in S : it[S] = f[x] + it[S \ {x}]
    BY <1>1, TotalsAdd
  <1>5. \A x \in S : S \ {x} \in SUBSET S
    OBVIOUS
  <1> QED  BY <1>2, <1>3, <1>4, <1>5

(* A set of numbers up to n has a greatest member.                         *)
LEMMA MaxSet ==
    ASSUME NEW n \in Nat, NEW S \in SUBSET (1 .. n), S # {}
    PROVE  Max(S) \in S /\ \A x \in S : x <= Max(S)
  <1> DEFINE T == {n - x : x \in S}
  <1>1. T \in SUBSET Nat /\ T # {}
    <2>1. \A x \in S : n - x \in Nat
      OBVIOUS
    <2>2. PICK x \in S : TRUE
      OBVIOUS
    <2>3. n - x \in T
      OBVIOUS
    <2> QED  BY <2>1, <2>3
  <1>2. PICK d \in T : \A e \in T : d <= e
    BY <1>1, Least
  <1>3. PICK x \in S : d = n - x
    OBVIOUS
  <1>4. \A y \in S : x >= y
    <2> SUFFICES ASSUME NEW y \in S PROVE x >= y
      OBVIOUS
    <2>1. n - y \in T
      OBVIOUS
    <2>2. d <= n - y
      BY <1>2, <2>1
    <2> QED  BY <1>3, <2>2
  <1>5. \E z \in S : \A y \in S : z >= y
    BY <1>4
  <1>6. Max(S) \in S /\ \A y \in S : Max(S) >= y
    BY <1>5 DEF Max
  <1> QED  BY <1>6

=============================================================================
