---------------------------- MODULE NumberProofs ----------------------------
(***************************************************************************)
(* Numbers, for the proofs of the other modules: induction and recursion   *)
(* over 0..n, tuples of numbers that no steps lower for ever, and the      *)
(* ranks of a sort.  The induction principle is about sets, so that a      *)
(* proof can use it; it follows from the least-number principle.           *)
(***************************************************************************)
EXTENDS Integers, FiniteSetTheorems, WellFoundedInduction, TLAPS

-----------------------------------------------------------------------------
(***************************************************************************)
(* Induction and recursion over 0..n.                                      *)
(***************************************************************************)
LEMMA Smallest ==
    ASSUME NEW T \in SUBSET Nat, T # {}
    PROVE  \E m \in T : \A k \in T : m <= k
<1>1. PICK m \in T : \A k \in T : <<k, m>> \notin OpToRel(<, Nat)
  BY WFMin, NatLessThanWellFounded, Zenon
<1>2. \A k \in T : ~ (k < m)
  BY <1>1, Zenon DEF OpToRel
<1> QED
  BY <1>2

LEMMA Induction ==
    ASSUME NEW n \in Nat, NEW S, 0 \in S, \A k \in 1..n : k - 1 \in S => k \in S
    PROVE  \A k \in 0..n : k \in S
<1> DEFINE T == {k \in 0..n : k \notin S}
<1> SUFFICES ASSUME T # {} PROVE FALSE
  OBVIOUS
<1>1. T \in SUBSET Nat
  OBVIOUS
<1>2. PICK m \in T : \A k \in T : m <= k
  <2> HIDE DEF T
  <2> QED
    BY <1>1, Smallest
<1>3. m # 0 /\ m \in 1..n
  BY <1>2
<1>4. m - 1 \in 0..n /\ m - 1 \notin T
  BY <1>2, <1>3
<1> QED
  BY <1>3, <1>4

\* Functions on 0..m that start with first and go on with next.
Recursions(m, V, first, next) ==
    {f \in [0..m -> V] : f[0] = first /\ \A k \in 1..m : f[k] = next[k][f[k - 1]]}

LEMMA Recursion ==
    ASSUME NEW n \in Nat, NEW V, NEW first \in V, NEW next \in [1..n -> [V -> V]]
    PROVE  Recursions(n, V, first, next) # {}
<1> DEFINE S == {m \in 0..n : Recursions(m, V, first, next) # {}}
<1>1. 0 \in S
  <2>1. [k \in 0..0 |-> first] \in Recursions(0, V, first, next)
    BY DEF Recursions
  <2> QED
    BY <2>1
<1>2. ASSUME NEW m \in 1..n, m - 1 \in S PROVE m \in S
  <2>1. PICK f \in [0..m - 1 -> V] :
            f[0] = first /\ \A k \in 1..m - 1 : f[k] = next[k][f[k - 1]]
    BY <1>2 DEF Recursions
  <2>2. PICK last \in V : last = next[m][f[m - 1]]
    <3>1. f[m - 1] \in V /\ next[m] \in [V -> V]
      OBVIOUS
    <3> QED
      BY <3>1
  <2>3. PICK g \in [0..m -> V] : g[m] = last /\ \A k \in 0..m - 1 : g[k] = f[k]
    <3> DEFINE h == [k \in 0..m |-> IF k = m THEN last ELSE f[k]]
    <3>1. h \in [0..m -> V] /\ h[m] = last
      OBVIOUS
    <3>2. \A k \in 0..m - 1 : h[k] = f[k]
      OBVIOUS
    <3> HIDE DEF h
    <3> QED
      BY <3>1, <3>2
  <2>4. m - 1 \in 0..m - 1 /\ m \in 0..n /\ 0 \in 0..m - 1
    OBVIOUS
  <2>5. g[0] = first
    BY <2>1, <2>3, <2>4
  <2>6. \A k \in 1..m : g[k] = next[k][g[k - 1]]
    <3> TAKE k \in 1..m
    <3>1. CASE k = m
      BY <2>2, <2>3, <2>4, <3>1
    <3>2. CASE k # m
      <4>1. k \in 1..m - 1 /\ k \in 0..m - 1 /\ k - 1 \in 0..m - 1
        BY <3>2
      <4> QED
        BY <2>1, <2>3, <4>1
    <3> QED
      BY <3>1, <3>2
  <2>7. Recursions(m, V, first, next) # {}
    BY <2>5, <2>6 DEF Recursions
  <2> QED
    BY <2>4, <2>7
<1>3. n \in S
  <2> HIDE DEF S
  <2>1. \A k \in 1..n : k - 1 \in S => k \in S
    BY <1>2
  <2>2. \A k \in 0..n : k \in S
    BY <1>1, <2>1, Induction
  <2> QED
    BY <2>2
<1> QED
  BY <1>3

-----------------------------------------------------------------------------
(***************************************************************************)
(* Tuples of five numbers, the one that changes most slowly first.         *)
(***************************************************************************)
Tuples == [1..5 -> Nat]

\* The lexicographic order.
Less(a, b) == \E k \in 1..5 : a[k] < b[k] /\ \A j \in 1..k - 1 : a[j] = b[j]

LEMMA LeastTail ==
    ASSUME NEW T \in SUBSET Tuples, T # {}, NEW k \in 1..5
    PROVE  \E m \in T : \A a \in T : m[k] <= a[k]
<1> DEFINE N == {a[k] : a \in T}
<1>1. N \in SUBSET Nat /\ N # {}
  BY DEF Tuples
<1>2. PICK n \in N : \A l \in N : n <= l
  BY <1>1, Smallest, Zenon
<1>3. PICK m \in T : n = m[k]
  BY <1>2
<1> QED
  BY <1>2, <1>3

\* No descent goes on for ever: of any set of tuples one is the least.
LEMMA LeastTuple ==
    ASSUME NEW T \in SUBSET Tuples, T # {}
    PROVE  \E m \in T : \A a \in T : ~Less(a, m)
<1>0. 1 \in 1..5 /\ 2 \in 1..5 /\ 3 \in 1..5 /\ 4 \in 1..5 /\ 5 \in 1..5
  OBVIOUS
<1>1. PICK m1 \in T : \A a \in T : m1[1] <= a[1]
  BY <1>0, LeastTail, Zenon
<1> DEFINE T1 == {a \in T : a[1] = m1[1]}
<1>2. PICK m2 \in T1 : \A a \in T1 : m2[2] <= a[2]
  <2>1. T1 \in SUBSET Tuples /\ T1 # {}
    OBVIOUS
  <2> QED
    BY <1>0, <2>1, LeastTail, Zenon
<1> DEFINE T2 == {a \in T1 : a[2] = m2[2]}
<1>3. PICK m3 \in T2 : \A a \in T2 : m3[3] <= a[3]
  <2>1. T2 \in SUBSET Tuples /\ T2 # {}
    OBVIOUS
  <2> QED
    BY <1>0, <2>1, LeastTail, Zenon
<1> DEFINE T3 == {a \in T2 : a[3] = m3[3]}
<1>4. PICK m4 \in T3 : \A a \in T3 : m4[4] <= a[4]
  <2>1. T3 \in SUBSET Tuples /\ T3 # {}
    OBVIOUS
  <2> QED
    BY <1>0, <2>1, LeastTail, Zenon
<1> DEFINE T4 == {a \in T3 : a[4] = m4[4]}
<1>5. PICK m \in T4 : \A a \in T4 : m[5] <= a[5]
  <2>1. T4 \in SUBSET Tuples /\ T4 # {}
    OBVIOUS
  <2> QED
    BY <1>0, <2>1, LeastTail, Zenon
<1>6. ASSUME NEW a \in T, NEW k \in 1..5, a[k] < m[k], \A j \in 1..k - 1 : a[j] = m[j]
      PROVE  FALSE
  <2>1. /\ m \in T /\ m[1] = m1[1] /\ m[2] = m2[2] /\ m[3] = m3[3] /\ m[4] = m4[4]
        /\ m \in Tuples /\ a \in Tuples
    OBVIOUS
  <2>2. m[1] <= a[1]
    BY <1>1, <2>1
  <2>3. k > 1 => a[1] = m[1] /\ a \in T1 /\ m[2] <= a[2]
    BY <1>2, <1>6, <2>1
  <2>4. k > 2 => a[2] = m[2] /\ a \in T2 /\ m[3] <= a[3]
    BY <1>3, <1>6, <2>1, <2>3
  <2>5. k > 3 => a[3] = m[3] /\ a \in T3 /\ m[4] <= a[4]
    BY <1>4, <1>6, <2>1, <2>4
  <2>6. k > 4 => a[4] = m[4] /\ a \in T4 /\ m[5] <= a[5]
    BY <1>5, <1>6, <2>1, <2>5
  <2>7. k = 1 \/ k = 2 \/ k = 3 \/ k = 4 \/ k = 5
    OBVIOUS
  <2>8. a[k] \in Nat /\ m[k] \in Nat
    BY <2>1 DEF Tuples
  <2> QED
    BY <1>6, <2>2, <2>3, <2>4, <2>5, <2>6, <2>7, <2>8
<1> QED
  BY <1>6 DEF Less

\* Tuples that differ first at place 1, 2, 3, 4 or 5.
LEMMA LessAt ==
    ASSUME NEW a \in Tuples, NEW b \in Tuples,
           \/ a[1] < b[1]
           \/ a[1] = b[1] /\ a[2] < b[2]
           \/ a[1] = b[1] /\ a[2] = b[2] /\ a[3] < b[3]
           \/ a[1] = b[1] /\ a[2] = b[2] /\ a[3] = b[3] /\ a[4] < b[4]
           \/ a[1] = b[1] /\ a[2] = b[2] /\ a[3] = b[3] /\ a[4] = b[4] /\ a[5] < b[5]
    PROVE  Less(a, b)
<1>1. PICK k \in {1, 2, 3, 4, 5} : a[k] < b[k] /\ \A j \in {1, 2, 3, 4, 5} : j < k => a[j] = b[j]
  OBVIOUS
<1>2. k \in 1..5 /\ \A j \in 1..k - 1 : j \in {1, 2, 3, 4, 5} /\ j < k
  OBVIOUS
<1> QED
  BY <1>1, <1>2 DEF Less

-----------------------------------------------------------------------------
(***************************************************************************)
(* Sorting.  B[i] are the elements of P that come before i.                *)
(***************************************************************************)
Orders(B, P) ==
    /\ B \in [P -> SUBSET P]
    /\ \A i \in P : i \notin B[i]
    /\ \A i, j \in P : i = j \/ i \in B[j] \/ j \in B[i]
    /\ \A i, j \in P : j \in B[i] => B[j] \subseteq B[i]

\* An element with fewer before it comes first.
LEMMA RankOrders ==
    ASSUME NEW P, IsFiniteSet(P), NEW B, Orders(B, P), NEW i \in P, NEW j \in P
    PROVE  /\ Cardinality(B[i]) \in 0..Cardinality(P) - 1
           /\ Cardinality(B[i]) = Cardinality(B[j]) => i = j
           /\ Cardinality(B[j]) < Cardinality(B[i]) <=> j \in B[i]
<1>1. ASSUME NEW S \in SUBSET P, NEW k \in P, k \notin S
      PROVE  /\ Cardinality(S) \in Nat /\ Cardinality(P) \in Nat
             /\ Cardinality(S) < Cardinality(P)
  <2>1. IsFiniteSet(S) /\ Cardinality(S) <= Cardinality(P) /\ Cardinality(S) # Cardinality(P)
    BY <1>1, FS_Subset
  <2> QED
    BY <2>1, FS_CardinalityType
<1>2. ASSUME NEW k \in P, NEW l \in P, l \in B[k] PROVE Cardinality(B[l]) < Cardinality(B[k])
  <2>1. B[l] \subseteq B[k] /\ l \notin B[l] /\ B[k] \subseteq P
    BY <1>2 DEF Orders
  <2>2. IsFiniteSet(B[k])
    BY <2>1, FS_Subset
  <2>3. Cardinality(B[l]) <= Cardinality(B[k]) /\ Cardinality(B[l]) # Cardinality(B[k])
    BY <1>2, <2>1, <2>2, FS_Subset
  <2>4. Cardinality(B[l]) \in Nat /\ Cardinality(B[k]) \in Nat
    BY <2>1, <2>2, FS_Subset, FS_CardinalityType
  <2> QED
    BY <2>3, <2>4
<1>3. B[i] \subseteq P /\ B[j] \subseteq P /\ i \notin B[i] /\ j \notin B[j]
  BY DEF Orders
<1>4. i = j \/ i \in B[j] \/ j \in B[i]
  BY DEF Orders
<1>5. /\ Cardinality(B[i]) \in Nat /\ Cardinality(B[j]) \in Nat /\ Cardinality(P) \in Nat
      /\ Cardinality(B[i]) < Cardinality(P)
  BY <1>1, <1>3
<1> QED
  BY <1>2, <1>3, <1>4, <1>5

\* Every rank is that of an element.
LEMMA RankTaken ==
    ASSUME NEW P, IsFiniteSet(P), NEW B, Orders(B, P), NEW n \in 1..Cardinality(P)
    PROVE  \E i \in P : Cardinality(B[i]) = n - 1
<1> DEFINE rank == [i \in P |-> Cardinality(B[i]) + 1]
           N == Cardinality(P)
<1>1. N \in Nat
  BY FS_CardinalityType
<1>2. rank \in [P -> 1..N]
  BY <1>1, RankOrders
<1>3. \A i, j \in P : rank[i] = rank[j] => i = j
  <2> TAKE i, j \in P
  <2>1. Cardinality(B[i]) \in Nat /\ Cardinality(B[j]) \in Nat
    BY <1>1, RankOrders
  <2> QED
    BY <2>1, RankOrders
<1>4. IsFiniteSet(1..N) /\ Cardinality(1..N) = N
  BY <1>1, FS_Interval
<1>5. rank \in Surjection(P, 1..N)
  <2>1. rank \in Injection(P, 1..N)
    BY <1>2, <1>3 DEF Injection, IsInjective
  <2> HIDE DEF rank
  <2> QED
    BY <1>4, <2>1, FS_Injection
<1>6. PICK i \in P : rank[i] = n
  BY <1>5 DEF Surjection
<1>7. Cardinality(B[i]) \in Nat
  BY <1>1, RankOrders
<1> QED
  BY <1>6, <1>7

\* The first n of them are n, unless they are all.
LEMMA FirstCount ==
    ASSUME NEW P, IsFiniteSet(P), NEW B, Orders(B, P), NEW n \in Nat
    PROVE  LET first == {i \in P : Cardinality(B[i]) < n}
           IN  Cardinality(first) <= n /\ (first # P => Cardinality(first) = n)
<1> DEFINE first == {i \in P : Cardinality(B[i]) < n}
           rank  == [i \in first |-> Cardinality(B[i]) + 1]
<1>1. IsFiniteSet(1..n) /\ Cardinality(1..n) = n
  BY FS_Interval
<1>2. \A i \in P : Cardinality(B[i]) \in Nat /\ Cardinality(B[i]) < Cardinality(P)
  BY FS_CardinalityType, RankOrders
<1>3. rank \in Injection(first, 1..n)
  <2>1. rank \in [first -> 1..n]
    BY <1>2
  <2>2. \A i, j \in first : rank[i] = rank[j] => i = j
    <3> TAKE i, j \in first
    <3>1. Cardinality(B[i]) = Cardinality(B[j]) => i = j
      BY RankOrders
    <3> QED
      BY <1>2, <3>1
  <2> QED
    BY <2>1, <2>2 DEF Injection, IsInjective
<1>4. Cardinality(first) <= n /\ (Cardinality(first) = n <=> rank \in Surjection(first, 1..n))
  <2> HIDE DEF first, rank
  <2> QED
    BY <1>1, <1>3, FS_Injection
<1>5. ASSUME NEW i \in P, i \notin first PROVE rank \in Surjection(first, 1..n)
  <2>1. n <= Cardinality(P) - 1 /\ Cardinality(P) \in Nat
    BY <1>2, <1>5, FS_CardinalityType
  <2>2. \A m \in 1..n : \E j \in first : rank[j] = m
    <3> TAKE m \in 1..n
    <3>1. PICK j \in P : Cardinality(B[j]) = m - 1
      BY <2>1, RankTaken
    <3> QED
      BY <3>1
  <2> QED
    BY <1>3, <2>2 DEF Injection, Surjection
<1> QED
  BY <1>4, <1>5
=============================================================================
