-------------------------------- MODULE Sums --------------------------------
(***************************************************************************)
(* Least elements, and the sums that MapThenSumSet computes: facts that    *)
(* the proofs about several modules need.                                  *)
(***************************************************************************)
EXTENDS Integers, FiniteSets, FiniteSetTheorems, WellFoundedInduction, TLAPS

(* A set of natural numbers has a least one.                               *)
LEMMA LeastOf ==
  ASSUME NEW S, S \subseteq Nat, S # {}
  PROVE  \E x \in S : \A y \in S : x <= y
<1> DEFINE R == {p \in Nat \X Nat : p[1] < p[2]}
<1>1. IsWellFoundedOn(R, Nat)
  BY NatLessThanWellFounded, Zenon DEF OpToRel
<1>2. PICK x \in S : \A y \in S : <<y, x>> \notin R
  <2> HIDE DEF R
  <2> QED BY <1>1, WFMin
<1>3. \A y \in S : ~(y < x)
  BY <1>2
<1> QED BY <1>3

-----------------------------------------------------------------------------
(* MapThenSumSet adds one element after the other.                         *)

OneOf(s) == CHOOSE x \in s : TRUE
Adds(it, sets, f) ==
  it = [s \in sets |-> IF s = {} THEN 0 ELSE f[OneOf(s)] + it[s \ {OneOf(s)}]]

LEMMA LessOne ==
  ASSUME NEW s, IsFiniteSet(s), s # {}
  PROVE  /\ OneOf(s) \in s /\ IsFiniteSet(s \ {OneOf(s)})
         /\ Cardinality(s) \in Nat /\ Cardinality(s \ {OneOf(s)}) = Cardinality(s) - 1
         /\ Cardinality(s) > 0
<1>1. OneOf(s) \in s
  BY DEF OneOf
<1>2. Cardinality(s \ {OneOf(s)}) = Cardinality(s) - 1 /\ IsFiniteSet(s \ {OneOf(s)})
  BY <1>1, FS_RemoveElement
<1>3. Cardinality(s) \in Nat /\ Cardinality(s \ {OneOf(s)}) \in Nat
  BY <1>2, FS_CardinalityType
<1> QED BY <1>1, <1>2, <1>3

UpTo(S, n) == {s \in SUBSET S : Cardinality(s) <= n}
Addable(sets, f) == \E it : Adds(it, sets, f)

LEMMA SumExists ==
  ASSUME NEW S, IsFiniteSet(S), NEW f
  PROVE  Addable(SUBSET S, f)
<1> DEFINE Up(n) == UpTo(S, n)
           Bad == {n \in Nat : ~Addable(Up(n), f)}
<1>1. \A s \in SUBSET S : IsFiniteSet(s) /\ Cardinality(s) \in Nat /\ Cardinality(s) <= Cardinality(S)
  BY FS_Subset, FS_CardinalityType
<1>2. Cardinality(S) \in Nat
  BY FS_CardinalityType
<1>3. ASSUME Bad # {}
      PROVE  FALSE
  <2>1. PICK m \in Bad : \A n \in Bad : m <= n
    <3> HIDE DEF Bad
    <3>1. Bad \subseteq Nat
      BY DEF Bad
    <3> QED BY <1>3, <3>1, LeastOf
  <2>2. CASE m = 0
    <3>1. ASSUME NEW s \in Up(0), s # {}
          PROVE  FALSE
      <4>1. s \in SUBSET S /\ Cardinality(s) <= 0
        BY <3>1 DEF UpTo
      <4>2. IsFiniteSet(s) /\ Cardinality(s) \in Nat
        BY <4>1, <1>1
      <4>3. Cardinality(s) > 0
        BY <4>2, <3>1, LessOne
      <4> QED BY <4>1, <4>2, <4>3
    <3>2. Adds([s \in Up(0) |-> 0], Up(0), f)
      BY <3>1 DEF Adds
    <3> QED BY <2>1, <2>2, <3>2 DEF Addable
  <2>3. CASE m # 0
    <3>1. m \in Nat /\ m - 1 \in Nat /\ m - 1 \notin Bad
      <4>1. m \in Nat /\ m - 1 \in Nat /\ ~(m <= m - 1)
        BY <2>1, <2>3
      <4> HIDE DEF Bad
      <4> QED BY <4>1, <2>1
    <3>2. PICK it : Adds(it, Up(m - 1), f)
      BY <3>1 DEF Addable
    <3> DEFINE g == [s \in Up(m) |-> IF s = {} THEN 0 ELSE f[OneOf(s)] + it[s \ {OneOf(s)}]]
               h == [s \in Up(m) |-> IF s = {} THEN 0 ELSE f[OneOf(s)] + g[s \ {OneOf(s)}]]
    <3>3. ASSUME NEW s \in Up(m), s # {}
          PROVE  g[s \ {OneOf(s)}] = it[s \ {OneOf(s)}]
      <4> DEFINE t == s \ {OneOf(s)}
      <4>1. t \in SUBSET S /\ Cardinality(t) = Cardinality(s) - 1 /\ Cardinality(s) <= m
            /\ Cardinality(s) \in Nat
        BY <1>1, <3>3, LessOne DEF UpTo
      <4>2. t \in Up(m - 1) /\ t \in Up(m)
        <5> HIDE DEF t
        <5> QED BY <4>1, <3>1 DEF UpTo
      <4> HIDE DEF t
      <4>3. it[t] = IF t = {} THEN 0 ELSE f[OneOf(t)] + it[t \ {OneOf(t)}]
        BY <3>2, <4>2 DEF Adds
      <4>4. g[t] = IF t = {} THEN 0 ELSE f[OneOf(t)] + it[t \ {OneOf(t)}]
        BY <4>2
      <4> QED BY <4>3, <4>4 DEF t
    <3>4. g = h
      <4>1. \A s \in Up(m) : g[s] = h[s]
        <5>1. SUFFICES ASSUME NEW s \in Up(m) PROVE g[s] = h[s]
          OBVIOUS
        <5>2. CASE s = {}
          BY <5>2
        <5>3. CASE s # {}
          <6>1. g[s] = f[OneOf(s)] + it[s \ {OneOf(s)}]
            BY <5>3
          <6>2. h[s] = f[OneOf(s)] + g[s \ {OneOf(s)}]
            <7> HIDE DEF g
            <7> QED BY <5>3
          <6> HIDE DEF g, h
          <6> QED BY <6>1, <6>2, <3>3, <5>3
        <5> QED BY <5>2, <5>3
      <4> QED BY <4>1
    <3>5. Adds(g, Up(m), f)
      <4>1. g = [s \in Up(m) |-> IF s = {} THEN 0 ELSE f[OneOf(s)] + g[s \ {OneOf(s)}]]
        BY <3>4
      <4> HIDE DEF g
      <4> QED BY <4>1 DEF Adds
    <3> HIDE DEF g
    <3> QED BY <2>1, <3>5 DEF Addable
  <2> QED BY <2>2, <2>3
<1>4. Addable(Up(Cardinality(S)), f)
  BY <1>2, <1>3
<1>5. Up(Cardinality(S)) = SUBSET S
  BY <1>1 DEF UpTo
<1> QED BY <1>4, <1>5

(* A sum of natural numbers is one, and at least the number of those that  *)
(* are not zero.                                                           *)
LEMMA SumIsNat ==
  ASSUME NEW S, IsFiniteSet(S), NEW f, \A x \in S : f[x] \in Nat,
         NEW it, Adds(it, SUBSET S, f), NEW T, T \subseteq S, \A x \in T : f[x] > 0
  PROVE  it[S] \in Nat /\ it[S] >= Cardinality(T) /\ Cardinality(T) \in Nat
<1> DEFINE Fair(s) == it[s] \in Nat /\ it[s] >= Cardinality(s \cap T)
           Bad == {n \in Nat : \E s \in SUBSET S : Cardinality(s) = n /\ ~Fair(s)}
<1>1. \A s \in SUBSET S : IsFiniteSet(s) /\ Cardinality(s) \in Nat
                          /\ IsFiniteSet(s \cap T) /\ Cardinality(s \cap T) \in Nat
  <2>1. SUFFICES ASSUME NEW s \in SUBSET S
                 PROVE  IsFiniteSet(s) /\ Cardinality(s) \in Nat
                          /\ IsFiniteSet(s \cap T) /\ Cardinality(s \cap T) \in Nat
    OBVIOUS
  <2>2. IsFiniteSet(s) /\ s \cap T \in SUBSET S /\ s \cap T \subseteq S
    BY FS_Subset
  <2>3. IsFiniteSet(s \cap T)
    BY <2>2, FS_Subset
  <2> QED BY <2>2, <2>3, FS_CardinalityType
<1>2. ASSUME Bad # {}
      PROVE  FALSE
  <2>1. PICK m \in Bad : \A n \in Bad : m <= n
    <3> HIDE DEF Bad
    <3>1. Bad \subseteq Nat
      BY DEF Bad
    <3> QED BY <1>2, <3>1, LeastOf
  <2>2. PICK s \in SUBSET S : Cardinality(s) = m /\ ~Fair(s)
    BY <2>1
  <2>3. it[s] = IF s = {} THEN 0 ELSE f[OneOf(s)] + it[s \ {OneOf(s)}]
    BY DEF Adds
  <2>4. CASE s = {}
    <3>1. it[s] = 0 /\ s \cap T = {}
      BY <2>3, <2>4
    <3>2. Cardinality(s \cap T) = 0
      BY <3>1, FS_EmptySet
    <3> QED BY <2>2, <3>1, <3>2
  <2>5. CASE s # {}
    <3> DEFINE x == OneOf(s)
               t == s \ {x}
    <3>1. /\ x \in s /\ t \in SUBSET S /\ Cardinality(t) = Cardinality(s) - 1
          /\ Cardinality(s) \in Nat /\ Cardinality(s) > 0
      BY <1>1, <2>5, LessOne
    <3>2. Fair(t)
      <4>1. Cardinality(t) \notin Bad /\ Cardinality(t) \in Nat
        <5>1. Cardinality(t) \in Nat /\ ~(m <= Cardinality(t))
          <6> HIDE DEF t, x
          <6> QED BY <2>2, <3>1, <1>1
        <5> HIDE DEF Bad
        <5> QED BY <2>1, <5>1
      <4> QED BY <4>1, <3>1
    <3>3. it[s] = f[x] + it[t] /\ f[x] \in Nat /\ it[t] \in Nat
      BY <2>3, <2>5, <3>1, <3>2
    <3>4. CASE x \in T
      <4>1. s \cap T = (t \cap T) \cup {x} /\ x \notin t \cap T
        BY <3>1, <3>4
      <4>2. Cardinality(s \cap T) = Cardinality(t \cap T) + 1
        <5>1. IsFiniteSet(t \cap T)
          BY <1>1, <3>1
        <5> HIDE DEF t, x
        <5> QED BY <4>1, <5>1, FS_AddElement
      <4>3. f[x] >= 1
        BY <3>4, <3>3
      <4>4. Cardinality(t \cap T) \in Nat /\ it[t] >= Cardinality(t \cap T)
        BY <1>1, <3>1, <3>2
      <4> HIDE DEF t, x
      <4> QED BY <4>2, <4>3, <4>4, <3>3, <2>2
    <3>5. CASE x \notin T
      <4>1. s \cap T = t \cap T
        BY <3>1, <3>5
      <4>2. Cardinality(t \cap T) \in Nat /\ it[t] >= Cardinality(t \cap T)
        BY <1>1, <3>1, <3>2
      <4>3. Cardinality(s \cap T) = Cardinality(t \cap T)
        BY <4>1
      <4> HIDE DEF t, x
      <4> QED BY <4>2, <4>3, <3>3, <2>2
    <3> QED BY <3>4, <3>5
  <2> QED BY <2>4, <2>5
<1>3. Fair(S)
  <2>1. Cardinality(S) \in Nat /\ Cardinality(S) \notin Bad
    BY <1>2, FS_CardinalityType
  <2>2. S \in SUBSET S
    OBVIOUS
  <2> QED BY <2>1, <2>2
<1>4. S \cap T = T
  OBVIOUS
<1> QED BY <1>1, <1>3, <1>4

LEMMA SumTyped ==
  ASSUME NEW S, IsFiniteSet(S), NEW f, \A x \in S : f[x] \in Nat,
         NEW it, Adds(it, SUBSET S, f)
  PROVE  it[S] \in Nat
<1> DEFINE T == {}
<1>1. T \subseteq S /\ \A x \in T : f[x] > 0
  OBVIOUS
<1> HIDE DEF T
<1> QED BY <1>1, SumIsNat
=============================================================================
