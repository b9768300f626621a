---------------------------- MODULE SharedLemmas ----------------------------
(***************************************************************************)
(* Lemmas the proofs share: least and greatest elements of sets of numbers, *)
(* the rank of a member, by which the models page, limit and order what    *)
(* the code sorts, and what taking from and appending to a queue does.     *)
(***************************************************************************)
EXTENDS Integers, Sequences, FiniteSets, FiniteSetTheorems, SequenceTheorems,
        WellFoundedInduction, TLAPS

\* A nonempty set of naturals has a least element.
LEMMA MinExists ==
  ASSUME NEW S \in SUBSET Nat, S # {}
  PROVE  \E m \in S : \A k \in S : m <= k
<1> DEFINE R == {p \in Nat \X Nat : p[1] < p[2]}
<1>1. IsWellFoundedOn(R, Nat)
  BY NatLessThanWellFounded, Zenon DEF OpToRel
<1>2. PICK m \in S : \A k \in S : ~ (<<k, m>> \in R)
  <2> HIDE DEF R
  <2> QED BY <1>1, WFMin, Zenon
<1>3. \A k \in S : ~ (k < m)
  BY <1>2
<1> QED BY <1>3

\* A nonempty set of naturals with an upper bound has a greatest element.
LEMMA MaxExists ==
  ASSUME NEW b \in Nat, NEW S \in SUBSET (0 .. b), S # {}
  PROVE  \E m \in S : \A k \in S : k <= m
<1> DEFINE T == {k \in 0 .. b : b - k \in S}
<1>1. \A k \in S : b - k \in T
  OBVIOUS
<1>2. T \in SUBSET Nat /\ T # {}
  <2>1. PICK k \in S : TRUE
    OBVIOUS
  <2>2. b - k \in T
    BY <1>1, <2>1
  <2> QED BY <2>2
<1>3. PICK t \in T : \A k \in T : t <= k
  BY <1>2, MinExists
<1>4. b - t \in S /\ \A k \in S : k <= b - t
  BY <1>1, <1>3
<1> QED BY <1>4

\* The length of an interval from one determines it.
LEMMA IntervalLength ==
  ASSUME NEW m \in Nat, NEW k \in Nat, 1 .. m = 1 .. k
  PROVE  m = k
<1>1. m # 0 => m \in 1 .. k
  OBVIOUS
<1>2. k # 0 => k \in 1 .. m
  OBVIOUS
<1> QED BY <1>1, <1>2

\* A set of naturals up to a bound is finite.
LEMMA BoundedFinite ==
  ASSUME NEW b \in Nat, NEW S \in SUBSET (0 .. b)
  PROVE  IsFiniteSet(S) /\ Cardinality(S) \in Nat
<1>1. IsFiniteSet(0 .. b)
  <2>1. 0 \in Int /\ b \in Int
    OBVIOUS
  <2> QED BY <2>1, FS_Interval, Zenon
<1>2. IsFiniteSet(S)
  BY <1>1, FS_Subset, Zenon
<1> QED BY <1>2, FS_CardinalityType, Zenon

\* The ranks of the members of a finite set of numbers are 0, 1, 2, ...: each but
\* the number of members is the rank of one.
LEMMA RankExists ==
  ASSUME NEW b \in Nat, NEW S \in SUBSET (0 .. b)
  PROVE  \A i \in 0 .. Cardinality(S) - 1 : \E t \in S : Cardinality({u \in S : u < t}) = i
<1> DEFINE Less(t) == {u \in S : u < t}
           n == Cardinality(S)
           r == [t \in S |-> Cardinality(Less(t))]
<1>1. IsFiniteSet(S) /\ n \in Nat
  BY BoundedFinite
<1>2. ASSUME NEW t \in S
      PROVE  /\ IsFiniteSet(Less(t)) /\ Cardinality(Less(t)) \in Nat
             /\ Cardinality(Less(t)) < n
  <2>1. Less(t) \in SUBSET S /\ Less(t) # S
    OBVIOUS
  <2>2. /\ IsFiniteSet(Less(t)) /\ Cardinality(Less(t)) <= n
        /\ (n = Cardinality(Less(t)) => S = Less(t))
    <3> HIDE DEF Less
    <3> QED BY <1>1, <2>1, FS_Subset, Zenon
  <2>3. Cardinality(Less(t)) \in Nat
    <3> HIDE DEF Less
    <3> QED BY <2>2, FS_CardinalityType, Zenon
  <2> HIDE DEF Less
  <2> QED BY <1>1, <2>1, <2>2, <2>3
<1>3. r \in [S -> 0 .. n - 1]
  <2>1. \A t \in S : Cardinality(Less(t)) \in 0 .. n - 1
    <3> HIDE DEF Less, n
    <3> QED BY <1>1, <1>2
  <2> HIDE DEF Less
  <2> QED BY <2>1
<1>4. ASSUME NEW s \in S, NEW t \in S, s < t
      PROVE  r[s] < r[t]
  <2>1. Less(s) \in SUBSET Less(t) /\ s \in Less(t) /\ s \notin Less(s)
    <3>1. S \subseteq Int
      OBVIOUS
    <3>2. \A u \in S : u < s => u < t
      BY <3>1, <1>4
    <3>3. ~(s < s)
      BY <3>1
    <3> QED BY <1>4, <3>2, <3>3, Zenon
  <2>2. IsFiniteSet(Less(t)) /\ Cardinality(Less(t)) \in Nat /\ Cardinality(Less(s)) \in Nat
    BY <1>2
  <2>3. /\ Cardinality(Less(s)) <= Cardinality(Less(t))
        /\ (Cardinality(Less(t)) = Cardinality(Less(s)) => Less(t) = Less(s))
    <3> HIDE DEF Less
    <3> QED BY <2>1, <2>2, FS_Subset, Zenon
  <2> HIDE DEF Less
  <2> QED BY <2>1, <2>2, <2>3
<1>5. r \in Injection(S, 0 .. n - 1)
  <2>1. \A s, t \in S : r[s] = r[t] => s = t
    <3> SUFFICES ASSUME NEW s \in S, NEW t \in S, s # t
                 PROVE  r[s] # r[t]
      OBVIOUS
    <3>1. s < t \/ t < s
      OBVIOUS
    <3>2. r[s] \in Int /\ r[t] \in Int
      BY <1>3
    <3> HIDE DEF r
    <3> QED BY <3>1, <3>2, <1>4
  <2>2. DOMAIN r = S
    OBVIOUS
  <2>3. IsInjective(r)
    <3> HIDE DEF r
    <3> QED BY <2>1, <2>2 DEF IsInjective
  <2> HIDE DEF r
  <2> QED BY <1>3, <2>3, Zenon DEF Injection
<1>6. IsFiniteSet(0 .. n - 1) /\ Cardinality(0 .. n - 1) = n
  <2>1. 0 \in Int /\ n - 1 \in Int
    BY <1>1
  <2>2. IsFiniteSet(0 .. n - 1)
        /\ Cardinality(0 .. n - 1) = IF 0 > n - 1 THEN 0 ELSE (n - 1) - 0 + 1
    <3> HIDE DEF n
    <3> QED BY <2>1, FS_Interval, Zenon
  <2> HIDE DEF n
  <2> QED BY <1>1, <2>2
<1>7. r \in Surjection(S, 0 .. n - 1)
  <2> HIDE DEF r
  <2> QED BY <1>5, <1>6, FS_Injection, Zenon
<1>8. \A i \in 0 .. n - 1 : \E t \in S : r[t] = i
  <2> HIDE DEF r
  <2> QED BY <1>7, Zenon DEF Surjection
<1> QED BY <1>8

\* Taking the first element of a queue leaves the others, one place further on.
LEMMA TailFacts ==
  ASSUME NEW S, NEW q \in Seq(S), q # << >>
  PROVE  /\ Head(q) = q[1] /\ q[1] \in S /\ 1 \in DOMAIN q
         /\ Len(q) \in Nat \ {0}
         /\ Tail(q) \in Seq(S)
         /\ Len(Tail(q)) = Len(q) - 1
         /\ (Tail(q) = << >> <=> Len(q) = 1)
         /\ \A i \in DOMAIN Tail(q) : i + 1 \in DOMAIN q /\ Tail(q)[i] = q[i + 1]
<1>1. /\ Len(q) \in Nat \ {0} /\ DOMAIN q = 1 .. Len(q)
  BY EmptySeq, LenProperties
<1>2. /\ Tail(q) \in Seq(S) /\ Len(Tail(q)) = Len(q) - 1
      /\ \A i \in 1 .. Len(Tail(q)) : Tail(q)[i] = q[i + 1]
  BY HeadTailProperties
<1>3. DOMAIN Tail(q) = 1 .. Len(Tail(q))
  BY <1>2, LenProperties
<1>4. Tail(q) # << >> => Len(Tail(q)) \in Nat \ {0}
  BY <1>2, EmptySeq
<1>5. Tail(q) = << >> => Len(Tail(q)) = 0
  BY EmptySeq
<1>6. Head(q) = q[1] /\ q[1] \in S
  BY <1>1
<1>7. Tail(q) = << >> <=> Len(q) = 1
  BY <1>1, <1>2, <1>4, <1>5
<1>8. \A i \in DOMAIN Tail(q) : i + 1 \in DOMAIN q /\ Tail(q)[i] = q[i + 1]
  BY <1>1, <1>2, <1>3
<1> QED BY <1>1, <1>2, <1>6, <1>7, <1>8

\* The elements behind the first are kept, one place further to the front.
LEMMA TailKeeps ==
  ASSUME NEW S, NEW q \in Seq(S), q # << >>, NEW i \in DOMAIN q, i # 1
  PROVE  i - 1 \in DOMAIN Tail(q) /\ Tail(q)[i - 1] = q[i]
<1>1. /\ Len(q) \in Nat \ {0} /\ DOMAIN q = 1 .. Len(q)
  BY EmptySeq, LenProperties
<1>2. /\ Tail(q) \in Seq(S) /\ Len(Tail(q)) = Len(q) - 1
      /\ \A j \in 1 .. Len(Tail(q)) : Tail(q)[j] = q[j + 1]
  BY HeadTailProperties
<1>3. DOMAIN Tail(q) = 1 .. Len(Tail(q))
  BY <1>2, LenProperties
<1> DEFINE n == Len(q)
<1>4. n \in Nat /\ i \in 1 .. n /\ DOMAIN Tail(q) = 1 .. n - 1
      /\ \A j \in 1 .. n - 1 : Tail(q)[j] = q[j + 1]
  BY <1>1, <1>2, <1>3
<1> HIDE DEF n
<1>5. i - 1 \in 1 .. n - 1 /\ (i - 1) + 1 = i
  BY <1>4
<1> QED BY <1>4, <1>5

\* Only the empty sequence has no element.
LEMMA EmptyIff ==
  ASSUME NEW S, NEW q \in Seq(S)
  PROVE  q = << >> <=> Len(q) = 0
<1>1. q # << >> => Len(q) \in Nat \ {0}
  BY EmptySeq
<1>2. q = << >> => Len(q) = 0
  BY EmptySeq
<1> QED BY <1>1, <1>2
=============================================================================
