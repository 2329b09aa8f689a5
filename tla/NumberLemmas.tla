---------------------------- MODULE NumberLemmas ----------------------------
(***************************************************************************)
(* What the other proofs need of numbers and of finite sets of them.       *)
(***************************************************************************)
EXTENDS Integers, WellFoundedInduction, FiniteSetTheorems, TLAPS

\* A set of natural numbers that has a member has a least one.
LEMMA LeastMember ==
  ASSUME NEW S \in SUBSET Nat, S # {}
  PROVE  \E m \in S : \A k \in S : m <= k
<1>1. PICK m \in S : \A k \in S : <<k, m>> \notin OpToRel(<, Nat)
  BY WFMin, NatLessThanWellFounded, Zenon
<1>2. \A k \in S : ~(k < m)
  BY <1>1, Zenon DEF OpToRel
<1>3. QED
  BY <1>2

\* One whose members are at most n has a greatest one.
LEMMA GreatestMember ==
  ASSUME NEW n \in Nat, NEW S \in SUBSET 0..n, S # {}
  PROVE  \E m \in S : \A k \in S : m >= k
<1> DEFINE distances == {n - k : k \in S}
<1>0. \A k \in S : n - k \in Nat
  OBVIOUS
<1>1. distances \in SUBSET Nat /\ distances # {}
  BY <1>0
<1>2. PICK d \in distances : \A e \in distances : d <= e
  BY <1>1, LeastMember
<1>3. PICK m \in S : d = n - m
  OBVIOUS
<1>4. ASSUME NEW k \in S PROVE m >= k
  <2>1. n - m <= n - k
    BY <1>2, <1>3
  <2>2. QED
    BY <2>1
<1>5. QED
  BY <1>4

\* A number below the modulus is its own remainder.
LEMMA OwnRemainder ==
  ASSUME NEW w \in Nat \ {0}, NEW x \in 0..(w - 1)
  PROVE  x % w = x
OBVIOUS
-----------------------------------------------------------------------------
\* p lists the n numbers of S, the smaller before the greater.
Enumerates(p, S, n) ==
  /\ p \in [1..n -> S]
  /\ \A k, m \in 1..n : k < m => p[k] < p[m]
  /\ \A i \in S : \E k \in 1..n : p[k] = i

\* As many members of S as k are no greater than the k-th.
LEMMA EnumerationCounts ==
  ASSUME NEW S \in SUBSET Int, NEW n \in Nat, NEW p, Enumerates(p, S, n)
  PROVE  /\ Cardinality(S) = n
         /\ \A k \in 1..n : Cardinality({i \in S : i <= p[k]}) = k
<1>1. /\ p \in [1..n -> S] /\ \A k \in 1..n : p[k] \in Int
      /\ \A k, m \in 1..n : k < m => p[k] < p[m]
      /\ \A i \in S : \E k \in 1..n : p[k] = i
  BY DEF Enumerates
<1>2. ASSUME NEW k \in 1..n PROVE Cardinality({i \in S : i <= p[k]}) = k
  <2> DEFINE T == {i \in S : i <= p[k]}
             q == [m \in 1..k |-> p[m]]
  <2>1. \A m \in 1..k : m \in 1..n
    OBVIOUS
  <2>2. \A m \in 1..k : p[m] \in T
    <3> TAKE m \in 1..k
    <3>1. m < k \/ m = k
      OBVIOUS
    <3>2. QED
      BY <1>1, <2>1, <3>1
  <2>3. q \in [1..k -> T]
    BY <2>2
  <2>4. \A a, b \in 1..k : q[a] = q[b] => a = b
    <3> SUFFICES ASSUME NEW a \in 1..k, NEW b \in 1..k, q[a] = q[b] PROVE a = b
      OBVIOUS
    <3>1. p[a] = p[b] /\ p[a] \in Int /\ p[b] \in Int
      BY <1>1, <2>1
    <3>2. ~(a < b) /\ ~(b < a)
      BY <1>1, <2>1, <3>1
    <3>3. QED
      BY <3>2
  <2>5. \A i \in T : \E m \in 1..k : q[m] = i
    <3> TAKE i \in T
    <3>1. PICK m \in 1..n : p[m] = i
      BY <1>1
    <3>2. p[m] <= p[k]
      BY <3>1
    <3>3. ~(k < m)
      BY <1>1, <3>2
    <3>4. m \in 1..k
      BY <3>3
    <3>5. QED
      BY <3>1, <3>4
  <2> HIDE DEF T, q
  <2>6. q \in Bijection(1..k, T)
    BY <2>3, <2>4, <2>5 DEF Bijection, Injection, Surjection, IsInjective
  <2>7. QED
    BY <2>6, FS_CountingElements DEF ExistsBijection, T
<1>3. Cardinality(S) = n
  <2>1. \A a, b \in 1..n : p[a] = p[b] => a = b
    <3> SUFFICES ASSUME NEW a \in 1..n, NEW b \in 1..n, p[a] = p[b] PROVE a = b
      OBVIOUS
    <3>1. ~(a < b) /\ ~(b < a)
      BY <1>1
    <3>2. QED
      BY <3>1
  <2>2. p \in Bijection(1..n, S)
    BY <1>1, <2>1 DEF Bijection, Injection, Surjection, IsInjective
  <2>3. QED
    BY <2>2, FS_CountingElements DEF ExistsBijection
<1>4. QED
  BY <1>2, <1>3

\* The list stays one when the numbers are moved and keep their order.
LEMMA EnumerationMoves ==
  ASSUME NEW S \in SUBSET Int, NEW T \in SUBSET Int, NEW n \in Nat,
         NEW p, Enumerates(p, S, n), NEW f \in [S -> T],
         \A i, j \in S : i < j => f[i] < f[j],
         \A j \in T : \E i \in S : f[i] = j
  PROVE  Enumerates([k \in 1..n |-> f[p[k]]], T, n)
<1> DEFINE q == [k \in 1..n |-> f[p[k]]]
<1>1. /\ p \in [1..n -> S]
      /\ \A k, m \in 1..n : k < m => p[k] < p[m]
      /\ \A i \in S : \E k \in 1..n : p[k] = i
  BY DEF Enumerates
<1>2. q \in [1..n -> T]
  BY <1>1
<1>3. \A k, m \in 1..n : k < m => q[k] < q[m]
  BY <1>1
<1>4. \A j \in T : \E k \in 1..n : q[k] = j
  <2> TAKE j \in T
  <2>1. PICK i \in S : f[i] = j
    OBVIOUS
  <2>2. PICK k \in 1..n : p[k] = i
    BY <1>1
  <2>3. QED
    BY <2>1, <2>2
<1>5. QED
  BY <1>2, <1>3, <1>4 DEF Enumerates

\* What is left of the list behind its first m numbers.
LEMMA EnumerationRest ==
  ASSUME NEW S \in SUBSET Int, NEW n \in Nat, NEW p, Enumerates(p, S, n),
         NEW m \in 0..n, NEW d \in Int,
         \A k \in 1..m : p[k] <= d, \A k \in (m + 1)..n : p[k] > d
  PROVE  Enumerates([k \in 1..(n - m) |-> p[m + k]], {i \in S : i > d}, n - m)
<1> DEFINE q == [k \in 1..(n - m) |-> p[m + k]]
           T == {i \in S : i > d}
<1>1. /\ p \in [1..n -> S] /\ \A k \in 1..n : p[k] \in Int
      /\ \A k, l \in 1..n : k < l => p[k] < p[l]
      /\ \A i \in S : \E k \in 1..n : p[k] = i
  BY DEF Enumerates
<1>2. \A k \in 1..(n - m) : m + k \in (m + 1)..n /\ m + k \in 1..n
  OBVIOUS
<1>3. q \in [1..(n - m) -> T]
  BY <1>1, <1>2
<1>4. \A k, l \in 1..(n - m) : k < l => q[k] < q[l]
  <2> SUFFICES ASSUME NEW k \in 1..(n - m), NEW l \in 1..(n - m), k < l
               PROVE  p[m + k] < p[m + l]
    OBVIOUS
  <2>1. m + k < m + l
    OBVIOUS
  <2>2. QED
    BY <1>1, <1>2, <2>1
<1>5. \A i \in T : \E k \in 1..(n - m) : q[k] = i
  <2> TAKE i \in T
  <2>1. PICK l \in 1..n : p[l] = i
    BY <1>1
  <2>2. ~(l \in 1..m)
    BY <1>1, <2>1
  <2>3. l - m \in 1..(n - m) /\ m + (l - m) = l
    BY <2>2
  <2>4. q[l - m] = i
    BY <2>1, <2>3
  <2>5. QED
    BY <2>3, <2>4
<1>6. QED
  BY <1>3, <1>4, <1>5 DEF Enumerates
=============================================================================
