-------------------------- MODULE SubsequenceProofs --------------------------
(* What Subsequences picks, for sequences of any length; and induction.    *)
EXTENDS Subsequences, Sequences, TLAPS, FiniteSetTheorems, SequenceTheorems

\* Induction, with a set for the property: the least number outside S, whose
\* interval is minimal among finite sets, would have a predecessor outside S.
LEMMA InductionOverNat ==
    ASSUME NEW S, 0 \in S, \A n \in Nat : n \in S => n + 1 \in S
    PROVE  Nat \subseteq S
  <1> SUFFICES ASSUME NEW k \in Nat, k \notin S PROVE FALSE
    OBVIOUS
  <1> DEFINE T == {0..i : i \in Nat \ S}
             R == StrictSubsetOrdering(Nat)
  <1>1. T \subseteq FiniteSubsetsOf(Nat)
    <2> SUFFICES ASSUME NEW i \in Nat PROVE 0..i \in FiniteSubsetsOf(Nat)
      OBVIOUS
    <2>1. IsFiniteSet(0..i)
      BY FS_Interval
    <2>2. 0..i \in SUBSET Nat
      OBVIOUS
    <2>3. QED
      BY <2>1, <2>2 DEF FiniteSubsetsOf
  <1>2. T # {}
    OBVIOUS
  <1>3. PICK x \in T : \A y \in T : ~(<<y, x>> \in R)
    <2> HIDE DEF T
    <2>1. QED
      BY <1>1, <1>2, FS_StrictSubsetOrderingWellFounded, WFMin
  <1>4. PICK i \in Nat \ S : x = 0..i
    OBVIOUS
  <1>5. i # 0 /\ i - 1 \in Nat \ S
    <2>1. i # 0 /\ i - 1 \in Nat
      OBVIOUS
    <2>2. i - 1 \in S => (i - 1) + 1 \in S
      BY <2>1
    <2>3. QED
      BY <2>1, <2>2
  <1>6. 0..(i - 1) \in T
    BY <1>5
  <1>7. <<0..(i - 1), x>> \in R
    BY <1>4, <1>5 DEF StrictSubsetOrdering
  <1>8. QED
    BY <1>3, <1>6, <1>7

\* How many elements a set of positions has.
LEMMA Count ==
    ASSUME NEW n \in Nat, NEW K \in SUBSET (1..n)
    PROVE  /\ IsFiniteSet(K)
           /\ Cardinality(K) \in 0..n
           /\ Cardinality(K) = 0 <=> K = {}
  <1>1. IsFiniteSet(1..n) /\ Cardinality(1..n) = n
    BY FS_Interval
  <1>2. IsFiniteSet(K) /\ Cardinality(K) <= n
    BY <1>1, FS_Subset
  <1>3. Cardinality(K) \in Nat /\ (Cardinality(K) = 0 <=> K = {})
    BY <1>2, FS_CardinalityType, FS_EmptySet
  <1>4. QED
    BY <1>2, <1>3

\* The positions in K are numbered in increasing order, without gaps.
LEMMA Positions ==
    ASSUME NEW n \in Nat, NEW K \in SUBSET (1..n)
    PROVE  /\ \A k \in 1..Cardinality(K) : PositionIn(K, k) \in K
           /\ \A i \in K : \E k \in 1..Cardinality(K) : PositionIn(K, k) = i
           /\ \A j, k \in 1..Cardinality(K) :
                 j < k => PositionIn(K, j) < PositionIn(K, k)
  <1> DEFINE below(i) == {j \in K : j <= i}
             rank == [i \in K |-> Cardinality(below(i))]
             c == Cardinality(K)
  <1>1. IsFiniteSet(K) /\ c \in Nat
    BY Count
  <1>2. \A i \in K : IsFiniteSet(below(i)) /\ rank[i] \in 1..c
    <2> SUFFICES ASSUME NEW i \in K
                 PROVE  IsFiniteSet(below(i)) /\ rank[i] \in 1..c
      OBVIOUS
    <2>1. below(i) \in SUBSET K /\ below(i) # {}
      OBVIOUS
    <2> HIDE DEF below
    <2>2. IsFiniteSet(below(i)) /\ Cardinality(below(i)) <= c
      BY <1>1, <2>1, FS_Subset
    <2>3. Cardinality(below(i)) \in Nat /\ Cardinality(below(i)) # 0
      BY <2>1, <2>2, FS_CardinalityType, FS_EmptySet
    <2>4. QED
      BY <1>1, <2>2, <2>3
  <1>3. \A i, j \in K : i < j => rank[i] < rank[j]
    <2> SUFFICES ASSUME NEW i \in K, NEW j \in K, i < j PROVE rank[i] < rank[j]
      OBVIOUS
    <2>1. below(i) \in SUBSET below(j) /\ below(j) # below(i)
      <3>1. \A x \in below(i) : x \in below(j)
        OBVIOUS
      <3>2. j \in below(j) /\ j \notin below(i)
        OBVIOUS
      <3>3. QED
        BY <3>1, <3>2
    <2>2. rank[i] = Cardinality(below(i)) /\ rank[j] = Cardinality(below(j))
          /\ rank[i] \in Nat /\ rank[j] \in Nat /\ IsFiniteSet(below(j))
      BY <1>2
    <2> HIDE DEF below, rank
    <2>3. Cardinality(below(i)) <= Cardinality(below(j))
          /\ Cardinality(below(i)) # Cardinality(below(j))
      BY <2>1, <2>2, FS_Subset
    <2>4. QED
      BY <2>2, <2>3
  <1>4. rank \in Injection(K, 1..c)
    <2>1. rank \in [K -> 1..c]
      BY <1>2
    <2>2. \A i, j \in K : rank[i] = rank[j] => i = j
      <3> SUFFICES ASSUME NEW i \in K, NEW j \in K, i # j PROVE rank[i] # rank[j]
        OBVIOUS
      <3> HIDE DEF rank
      <3>1. i < j \/ j < i
        OBVIOUS
      <3>2. QED
        BY <1>3, <2>1, <3>1
    <2>3. QED
      BY <2>1, <2>2 DEF Injection, IsInjective
  <1>5. \A k \in 1..c : \E i \in K : rank[i] = k
    <2>1. IsFiniteSet(1..c) /\ Cardinality(1..c) = c
      <3> HIDE DEF c
      <3>1. QED
        BY <1>1, FS_Interval
    <2>2. rank \in Surjection(K, 1..c)
      <3> HIDE DEF rank
      <3>1. Cardinality(K) = Cardinality(1..c)
        BY <2>1
      <3>2. QED
        BY <1>4, <2>1, <3>1, FS_Injection
    <2>3. QED
      BY <2>2 DEF Surjection
  <1>6. \A k \in 1..c : PositionIn(K, k) \in K /\ rank[PositionIn(K, k)] = k
    BY <1>5 DEF PositionIn
  <1> HIDE DEF rank, c
  <1>7. \A i \in K : PositionIn(K, rank[i]) = i
    BY <1>2, <1>4, <1>6 DEF Injection, IsInjective
  <1>8. \A j, k \in 1..c : j < k => PositionIn(K, j) < PositionIn(K, k)
    <2> SUFFICES ASSUME NEW j \in 1..c, NEW k \in 1..c, j < k
                 PROVE  PositionIn(K, j) < PositionIn(K, k)
      OBVIOUS
    <2> DEFINE p == PositionIn(K, j)
               q == PositionIn(K, k)
    <2>1. p \in K /\ q \in K /\ rank[p] = j /\ rank[q] = k
      BY <1>6
    <2> HIDE DEF p, q
    <2>2. p \in Int /\ q \in Int /\ j \in Int /\ k \in Int
      BY <2>1, <1>1
    <2>3. p < q \/ p = q \/ q < p
      BY <2>2
    <2>4. p < q
      BY <2>1, <2>2, <2>3, <1>3
    <2>5. QED
      BY <2>4 DEF p, q
  <1>9. QED
    BY <1>2, <1>6, <1>7, <1>8 DEF c

\* A number for each position, counting the members of K before it: those of K
\* itself are numbered from 0 without gaps, in increasing order.
LEMMA Numbered ==
    ASSUME NEW n \in Nat, NEW K \in SUBSET (1..n)
    PROVE  /\ \A i \in 1..n : Cardinality({j \in K : j < i}) \in Nat
           /\ \A i \in K, j \in 1..n :
                 i < j => Cardinality({e \in K : e < i}) < Cardinality({e \in K : e < j})
           /\ \A i \in K : Cardinality({j \in K : j < i}) < Cardinality(K)
           /\ \A k \in 0..(Cardinality(K) - 1) :
                 \E i \in K : Cardinality({j \in K : j < i}) = k
  <1> DEFINE before(i) == {j \in K : j < i}
             rank == [i \in K |-> Cardinality(before(i))]
             c == Cardinality(K)
  <1>1. IsFiniteSet(K) /\ c \in Nat
    BY Count
  <1>2. \A i \in 1..n : IsFiniteSet(before(i)) /\ Cardinality(before(i)) \in Nat
    <2> SUFFICES ASSUME NEW i \in 1..n
                 PROVE  IsFiniteSet(before(i)) /\ Cardinality(before(i)) \in Nat
      OBVIOUS
    <2>1. before(i) \in SUBSET K
      OBVIOUS
    <2> HIDE DEF before
    <2>2. QED
      BY <1>1, <2>1, FS_Subset, FS_CardinalityType
  <1>3. \A i \in K, j \in 1..n :
           i < j => Cardinality(before(i)) < Cardinality(before(j))
    <2> SUFFICES ASSUME NEW i \in K, NEW j \in 1..n, i < j
                 PROVE  Cardinality(before(i)) < Cardinality(before(j))
      OBVIOUS
    <2>1. before(i) \in SUBSET before(j) /\ before(j) # before(i)
      <3>1. \A x \in before(i) : x \in before(j)
        OBVIOUS
      <3>2. i \in before(j) /\ i \notin before(i)
        OBVIOUS
      <3>3. QED
        BY <3>1, <3>2
    <2>2. i \in 1..n
      OBVIOUS
    <2> HIDE DEF before
    <2>3. /\ IsFiniteSet(before(j))
          /\ Cardinality(before(i)) \in Nat /\ Cardinality(before(j)) \in Nat
      BY <1>2, <2>2
    <2>4. Cardinality(before(i)) <= Cardinality(before(j))
          /\ Cardinality(before(i)) # Cardinality(before(j))
      BY <2>1, <2>3, FS_Subset
    <2>5. QED
      BY <2>3, <2>4
  <1>4. \A i \in K : Cardinality(before(i)) < c
    <2> SUFFICES ASSUME NEW i \in K PROVE Cardinality(before(i)) < c
      OBVIOUS
    <2>1. before(i) \in SUBSET K /\ before(i) # K /\ i \in 1..n
      <3>1. i \notin before(i)
        OBVIOUS
      <3>2. QED
        BY <3>1
    <2>2. Cardinality(before(i)) \in Nat
      BY <1>2, <2>1
    <2> HIDE DEF before
    <2>3. Cardinality(before(i)) <= c /\ Cardinality(before(i)) # c
      BY <1>1, <2>1, FS_Subset
    <2>4. QED
      BY <1>1, <2>2, <2>3
  <1>5. rank \in Injection(K, 0..(c - 1))
    <2>1. rank \in [K -> 0..(c - 1)]
      <3>1. \A i \in K : i \in 1..n
        OBVIOUS
      <3> HIDE DEF before, c
      <3>2. \A i \in K : Cardinality(before(i)) \in 0..(c - 1)
        BY <1>1, <1>2, <1>4, <3>1
      <3>3. QED
        BY <3>2
    <2>2. \A i, j \in K : rank[i] = rank[j] => i = j
      <3> SUFFICES ASSUME NEW i \in K, NEW j \in K, i # j PROVE rank[i] # rank[j]
        OBVIOUS
      <3>1. (i < j \/ j < i) /\ i \in 1..n /\ j \in 1..n
        OBVIOUS
      <3> HIDE DEF before
      <3>2. Cardinality(before(i)) \in Nat /\ Cardinality(before(j)) \in Nat
        BY <1>2, <3>1
      <3>3. Cardinality(before(i)) < Cardinality(before(j))
            \/ Cardinality(before(j)) < Cardinality(before(i))
        BY <1>3, <3>1
      <3>4. QED
        BY <3>2, <3>3
    <2>3. QED
      BY <2>1, <2>2 DEF Injection, IsInjective
  <1>6. \A k \in 0..(c - 1) : \E i \in K : rank[i] = k
    <2>1. IsFiniteSet(0..(c - 1)) /\ Cardinality(0..(c - 1)) = c
      <3> HIDE DEF c
      <3>1. QED
        BY <1>1, FS_Interval
    <2>2. rank \in Surjection(K, 0..(c - 1))
      <3> HIDE DEF rank
      <3>1. Cardinality(K) = Cardinality(0..(c - 1))
        BY <2>1
      <3>2. QED
        BY <1>5, <2>1, <3>1, FS_Injection
    <2>3. QED
      BY <2>2 DEF Surjection
  <1>7. QED
    BY <1>2, <1>3, <1>4, <1>6

\* A set of positions that is not empty has a last one.
LEMMA LastPosition ==
    ASSUME NEW n \in Nat, NEW K \in SUBSET (1..n), K # {}
    PROVE  \E i \in K : \A j \in K : j <= i
  <1> DEFINE c == Cardinality(K)
             p(k) == PositionIn(K, k)
  <1>0. \A i \in K : i \in Int
    OBVIOUS
  <1>1. c \in 0..n /\ c # 0
    BY Count
  <1>2. /\ \A k \in 1..c : p(k) \in K
        /\ \A i \in K : \E k \in 1..c : p(k) = i
        /\ \A j, k \in 1..c : j < k => p(j) < p(k)
    BY Positions
  <1> HIDE DEF c, p
  <1>3. c \in 1..c /\ (\A k \in 1..c : k = c \/ k < c)
    BY <1>1
  <1>4. ASSUME NEW j \in K PROVE j <= p(c)
    <2>1. PICK k \in 1..c : p(k) = j
      BY <1>2
    <2>2. p(k) \in Int /\ p(c) \in Int
      <3>1. p(k) \in K /\ p(c) \in K
        BY <1>2, <1>3
      <3>2. QED
        BY <1>0, <3>1
    <2>3. p(k) = p(c) \/ p(k) < p(c)
      BY <1>2, <1>3
    <2>4. QED
      BY <2>1, <2>2, <2>3
  <1>5. QED
    BY <1>2, <1>3, <1>4

\* The elements picked: a sequence of them, each at its place, in order.
LEMMA Picked ==
    ASSUME NEW S, NEW s \in Seq(S), NEW K \in SUBSET DOMAIN s
    PROVE  /\ ElementsAt(s, K) \in Seq(S)
           /\ DOMAIN ElementsAt(s, K) = 1..Cardinality(K)
           /\ Len(ElementsAt(s, K)) = Cardinality(K)
           /\ \A k \in 1..Cardinality(K) :
                 PositionIn(K, k) \in K /\ ElementsAt(s, K)[k] = s[PositionIn(K, k)]
           /\ ElementsAt(s, K) = <<>> <=> K = {}
  <1>1. Len(s) \in Nat /\ K \in SUBSET (1..Len(s))
    OBVIOUS
  <1>2. /\ Cardinality(K) \in Nat
        /\ Cardinality(K) = 0 <=> K = {}
        /\ \A k \in 1..Cardinality(K) : PositionIn(K, k) \in K
    <2> DEFINE n == Len(s)
    <2>1. n \in Nat /\ K \in SUBSET (1..n)
      BY <1>1
    <2> HIDE DEF n
    <2>2. Cardinality(K) \in 0..n /\ (Cardinality(K) = 0 <=> K = {})
      BY <2>1, Count
    <2>3. \A k \in 1..Cardinality(K) : PositionIn(K, k) \in K
      BY <2>1, Positions
    <2>4. QED
      BY <2>1, <2>2, <2>3
  <1>3. \A k \in 1..Cardinality(K) : s[PositionIn(K, k)] \in S
    BY <1>2
  <1> DEFINE c == Cardinality(K)
             t == [k \in 1..c |-> s[PositionIn(K, k)]]
  <1>4. t \in Seq(S) /\ DOMAIN t = 1..c /\ Len(t) = c
    <2>1. c \in Nat /\ \A k \in 1..c : s[PositionIn(K, k)] \in S
      BY <1>2, <1>3
    <2> HIDE DEF c
    <2>2. QED
      BY <2>1
  <1>5. t = <<>> <=> c = 0
    <2> HIDE DEF t
    <2>1. QED
      BY <1>4, EmptySeq
  <1>6. QED
    BY <1>2, <1>4, <1>5 DEF ElementsAt

\* They are exactly the elements at those positions.
LEMMA PickedElements ==
    ASSUME NEW S, NEW s \in Seq(S), NEW K \in SUBSET DOMAIN s
    PROVE  /\ \A k \in DOMAIN ElementsAt(s, K) : \E i \in K : ElementsAt(s, K)[k] = s[i]
           /\ \A i \in K : \E k \in DOMAIN ElementsAt(s, K) : ElementsAt(s, K)[k] = s[i]
  <1>1. Len(s) \in Nat /\ K \in SUBSET (1..Len(s))
    OBVIOUS
  <1>2. \A i \in K : \E k \in 1..Cardinality(K) : PositionIn(K, k) = i
    BY <1>1, Positions
  <1>3. QED
    BY <1>2, Picked
=============================================================================
