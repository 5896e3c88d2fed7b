-------------------------- MODULE Ordering_proofs --------------------------
(***************************************************************************)
(* Lemmas about vectors that are walked in order.                          *)
(***************************************************************************)
EXTENDS Ordering, Sequences, FiniteSetTheorems, TLAPS

\* A function on the first n numbers is a sequence of length n.
LEMMA FunctionIsSeq ==
    ASSUME NEW S, NEW n \in Nat, NEW s \in [1 .. n -> S]
    PROVE  s \in Seq(S) /\ Len(s) = n
OBVIOUS

\* An enumeration of a set of indices is as long as a natural number and stays
\* among the indices.
LEMMA InOrderType ==
    ASSUME NEW n \in Nat, NEW K \in SUBSET (1 .. n), NEW f \in InOrder(K)
    PROVE  /\ Cardinality(K) \in Nat
           /\ DOMAIN f = 1 .. Cardinality(K)
           /\ \A k \in DOMAIN f : f[k] \in K
<1>1. IsFiniteSet(K)
  <2>1. IsFiniteSet(1 .. n)
    BY FS_Interval
  <2> QED
    BY <2>1, FS_Subset
<1>2. Cardinality(K) \in Nat
  BY <1>1, FS_CardinalityType
<1> QED
  BY <1>2 DEF InOrder

\* It visits no position twice.
LEMMA InOrderInjective ==
    ASSUME NEW n \in Nat, NEW K \in SUBSET (1 .. n), NEW f \in InOrder(K),
           NEW j \in DOMAIN f, NEW k \in DOMAIN f, f[j] = f[k]
    PROVE  j = k
<1>1. /\ Cardinality(K) \in Nat
      /\ DOMAIN f = 1 .. Cardinality(K)
      /\ f[j] \in K
      /\ f[k] \in K
  BY InOrderType
<1>2. j \in Nat /\ k \in Nat
  <2>1. j \in 1 .. Cardinality(K) /\ k \in 1 .. Cardinality(K)
    BY <1>1, Zenon
  <2> QED
    BY <1>1, <2>1
<1>3. (j < k => f[j] < f[k]) /\ (k < j => f[k] < f[j])
  BY Zenon DEF InOrder
<1>4. f[j] \in Nat
  <2>1. f[j] \in 1 .. n
    BY <1>1
  <2> QED
    BY <2>1
<1>5. ~(f[j] < f[k]) /\ ~(f[k] < f[j])
  BY <1>4
<1>6. ~(j < k) /\ ~(k < j)
  BY <1>3, <1>5
<1> QED
  BY <1>2, <1>6

\* It visits every element.
LEMMA InOrderSurjective ==
    ASSUME NEW n \in Nat, NEW K \in SUBSET (1 .. n), NEW f \in InOrder(K), NEW x \in K
    PROVE  \E k \in DOMAIN f : f[k] = x
<1> DEFINE c == Cardinality(K)
<1>1. IsFiniteSet(K)
  <2>1. IsFiniteSet(1 .. n)
    BY FS_Interval
  <2> QED
    BY <2>1, FS_Subset
<1>2. c \in Nat /\ DOMAIN f = 1 .. c /\ \A k \in DOMAIN f : f[k] \in K
  BY InOrderType
<1>3. IsFiniteSet(1 .. c) /\ Cardinality(1 .. c) = c
  <2>1. c \in Int /\ 1 \in Int
    BY <1>2
  <2> HIDE DEF c
  <2>2. /\ IsFiniteSet(1 .. c)
        /\ Cardinality(1 .. c) = IF 1 > c THEN 0 ELSE c - 1 + 1
    BY <2>1, FS_Interval
  <2> QED
    BY <1>2, <2>2
<1>4. f \in [1 .. c -> K]
  BY Zenon DEF InOrder
<1>5. \A j, k \in 1 .. c : f[j] = f[k] => j = k
  BY <1>2, InOrderInjective
<1>6. f \in Injection(1 .. c, K)
  BY <1>4, <1>5 DEF Injection, IsInjective
<1>7. f \in Surjection(1 .. c, K)
  BY <1>1, <1>3, <1>6, FS_Injection
<1> QED
  BY <1>2, <1>7 DEF Surjection
=============================================================================
