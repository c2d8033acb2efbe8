---------------------------- MODULE SequenceLemmas ----------------------------
(***************************************************************************)
(* Induction over the natural numbers, and functions defined by recursion  *)
(* on them, stated with sets and functions instead of operators.  The      *)
(* models define by recursion how a sequence is filtered, concatenated and *)
(* encoded; what those definitions yield is proved with these lemmas.      *)
(***************************************************************************)
EXTENDS Integers, Sequences, FiniteSets, WellFoundedInduction, SequenceTheorems,
        FiniteSetTheorems, TLAPS

\* A set of natural numbers has a least element.
LEMMA LeastNat ==
    ASSUME NEW T \in SUBSET Nat, T # {}
    PROVE  \E x \in T : \A y \in T : x <= y
<1> DEFINE R == OpToRel(<, Nat)
<1>1. \A x, y \in Nat : <<y, x>> \in R <=> y < x
  BY DEF OpToRel
<1>2. IsWellFoundedOn(R, Nat)
  BY NatLessThanWellFounded
<1> HIDE DEF R
<1>3. PICK x \in T : \A y \in T : ~ (<<y, x>> \in R)
  BY <1>2, WFMin
<1>4. ASSUME NEW y \in T  PROVE x <= y
  <2>1. x \in Nat /\ y \in Nat /\ ~ (<<y, x>> \in R)
    BY <1>3
  <2>2. ~ (y < x)
    BY <1>1, <2>1
  <2> QED  BY <2>1, <2>2
<1> QED  BY <1>4

\* Induction up to n.
LEMMA UpTo ==
    ASSUME NEW n \in Nat, NEW S, 0 \in S,
           \A i \in 0..n : i \in S /\ i < n => i + 1 \in S
    PROVE  \A i \in 0..n : i \in S
<1> DEFINE T == {i \in 0..n : i \notin S}
<1> SUFFICES ASSUME T # {}  PROVE FALSE
  OBVIOUS
<1>1. T \in SUBSET Nat
  OBVIOUS
<1>2. PICK x \in T : \A y \in T : x <= y
  <2> HIDE DEF T
  <2> QED  BY <1>1, LeastNat
<1>3. x # 0 /\ x - 1 \in 0..n /\ x - 1 \in S
  BY <1>2
<1> QED  BY <1>2, <1>3

\* What every step preserves holds of every value of a function.
LEMMA RecursionType ==
    ASSUME NEW n \in Nat, NEW V, NEW g, g[0] \in V,
           \A i \in 1..n : g[i - 1] \in V => g[i] \in V
    PROVE  \A i \in 0..n : g[i] \in V
<1> DEFINE S == {i \in 0..n : g[i] \in V}
<1>1. 0 \in S
  OBVIOUS
<1>2. ASSUME NEW i \in 0..n, i \in S, i < n
      PROVE  i + 1 \in S
  <2>1. i + 1 \in 1..n /\ (i + 1) - 1 = i
    BY <1>2
  <2> QED  BY <1>2, <2>1
<1> HIDE DEF S
<1>3. \A i \in 0..n : i \in S
  BY <1>1, <1>2, UpTo
<1> QED  BY <1>3 DEF S

\* g starts with base and goes on with step, up to n.
Follows(g, n, V, base, step) ==
    /\ g \in [0..n -> V]
    /\ g[0] = base
    /\ \A i \in 1..n : g[i] = step[<<i, g[i - 1]>>]

Steps(step, n, V) == step \in [(1..n) \X V -> V]

\* There is such a function, which is what a recursive definition chooses.
LEMMA RecursionExists ==
    ASSUME NEW n \in Nat, NEW V, NEW base \in V, NEW step, Steps(step, n, V)
    PROVE  \E g : Follows(g, n, V, base, step)
<1> USE DEF Steps, Follows
<1> DEFINE Good(g, k) == /\ g \in [0..n -> V]
                         /\ g[0] = base
                         /\ \A i \in 1..k : g[i] = step[<<i, g[i - 1]>>]
           S == {k \in 0..n : \E g : Good(g, k)}
<1>1. 0 \in S
  <2>1. Good([i \in 0..n |-> base], 0)
    OBVIOUS
  <2>2. 0 \in 0..n
    OBVIOUS
  <2> HIDE DEF Good
  <2> QED  BY <2>1, <2>2
<1>2. ASSUME NEW k \in 0..n, k \in S, k < n
      PROVE  k + 1 \in S
  <2>1. PICK g : Good(g, k)
    BY <1>2
  <2> DEFINE h == [g EXCEPT ![k + 1] = step[<<k + 1, g[k]>>]]
  <2>2. h \in [0..n -> V] /\ h[0] = base
    BY <2>1, <1>2
  <2>3. ASSUME NEW i \in 1..k + 1
        PROVE  h[i] = step[<<i, h[i - 1]>>]
    <3>1. i - 1 \in 0..n /\ i \in 0..n /\ i - 1 # k + 1
      BY <1>2
    <3>2. h[i - 1] = g[i - 1]
      BY <2>1, <3>1
    <3>3. CASE i = k + 1
      <4>1. h[i] = step[<<k + 1, g[k]>>]
        BY <2>1, <3>1, <3>3
      <4>2. i - 1 = k
        BY <1>2, <3>3
      <4> QED  BY <3>2, <3>3, <4>1, <4>2
    <3>4. CASE i # k + 1
      <4>1. h[i] = g[i] /\ i \in 1..k
        BY <1>2, <2>1, <3>1, <3>4
      <4> QED  BY <2>1, <3>2, <4>1
    <3> QED  BY <3>3, <3>4
  <2>4. Good(h, k + 1)
    BY <2>2, <2>3
  <2>5. k + 1 \in 0..n
    BY <1>2
  <2> HIDE DEF h, Good
  <2> QED  BY <2>4, <2>5
<1>3. n \in S
  <2> HIDE DEF S
  <2>1. \A k \in 0..n : k \in S
    BY <1>1, <1>2, UpTo
  <2> QED  BY <2>1
<1> QED  BY <1>3

-----------------------------------------------------------------------------
(* Counting.                                                               *)

\* Where the elements of T are in seq, and how many there are.
Places(seq, T) == {i \in 1..Len(seq) : seq[i] \in T}
Count(seq, T) == Cardinality(Places(seq, T))

LEMMA CountType ==
    ASSUME NEW S, NEW seq \in Seq(S), NEW T
    PROVE  IsFiniteSet(Places(seq, T)) /\ Count(seq, T) \in Nat
<1>1. IsFiniteSet(1..Len(seq))
  BY FS_Interval
<1>2. IsFiniteSet(Places(seq, T))
  BY <1>1, FS_Subset DEF Places
<1> QED  BY <1>2, FS_CardinalityType DEF Count

\* Something is counted exactly if it is there.
LEMMA CountZero ==
    ASSUME NEW S, NEW seq \in Seq(S), NEW T
    PROVE  Count(seq, T) = 0 <=> \A i \in 1..Len(seq) : seq[i] \notin T
<1>1. IsFiniteSet(Places(seq, T))
  BY CountType
<1>2. Count(seq, T) = 0 <=> Places(seq, T) = {}
  BY <1>1, FS_EmptySet DEF Count
<1> QED  BY <1>2 DEF Places

\* A subset has at most as many elements in seq.
LEMMA CountSubset ==
    ASSUME NEW S, NEW seq \in Seq(S), NEW T, NEW U \in SUBSET T
    PROVE  Count(seq, U) <= Count(seq, T)
<1>1. Places(seq, U) \subseteq Places(seq, T)
  BY DEF Places
<1> QED  BY <1>1, CountType, FS_Subset DEF Count

\* The elements of two disjoint sets are counted separately.
LEMMA CountUnion ==
    ASSUME NEW S, NEW seq \in Seq(S), NEW T, NEW U, T \cap U = {}
    PROVE  Count(seq, T \cup U) = Count(seq, T) + Count(seq, U)
<1>1. /\ Places(seq, T \cup U) = Places(seq, T) \cup Places(seq, U)
      /\ Places(seq, T) \cap Places(seq, U) = {}
  BY DEF Places
<1>2. IsFiniteSet(Places(seq, T)) /\ IsFiniteSet(Places(seq, U))
  BY CountType
<1>3. Cardinality({}) = 0
  BY FS_EmptySet
<1>4. Cardinality(Places(seq, T) \cup Places(seq, U))
          = Cardinality(Places(seq, T)) + Cardinality(Places(seq, U)) - 0
  BY <1>1, <1>2, <1>3, FS_Union
<1>5. Count(seq, T) \in Nat /\ Count(seq, U) \in Nat
  BY CountType
<1>6. Cardinality(Places(seq, T) \cup Places(seq, U)) = Count(seq, T) + Count(seq, U) - 0
  BY <1>4 DEF Count
<1>7. Cardinality(Places(seq, T) \cup Places(seq, U)) = Count(seq, T) + Count(seq, U)
  BY <1>5, <1>6
<1> QED  BY <1>1, <1>7 DEF Count

\* Only the elements of the sequence matter.
LEMMA CountSame ==
    ASSUME NEW S, NEW seq \in Seq(S), NEW T, NEW U, T \cap S = U \cap S
    PROVE  Count(seq, T) = Count(seq, U)
<1>1. \A i \in 1..Len(seq) : seq[i] \in S
  OBVIOUS
<1>2. Places(seq, T) = Places(seq, U)
  BY <1>1 DEF Places
<1> QED  BY <1>2 DEF Count

\* An injection that maps the places in one sequence onto those in another.
LEMMA CountBijection ==
    ASSUME NEW S, NEW seq \in Seq(S), NEW r \in Seq(S), NEW T, NEW U,
           NEW f \in Bijection(Places(r, T), Places(seq, U))
    PROVE  Count(r, T) = Count(seq, U)
<1>1. IsFiniteSet(Places(r, T))
  BY CountType
<1>2. ExistsBijection(Places(r, T), Places(seq, U))
  BY DEF ExistsBijection
<1> QED  BY <1>1, <1>2, FS_Bijection DEF Count

LEMMA CountConcat ==
    ASSUME NEW S, NEW s \in Seq(S), NEW t \in Seq(S), NEW T
    PROVE  Count(s \o t, T) = Count(s, T) + Count(t, T)
<1> DEFINE m == Len(s)
           r == s \o t
           Left == {i \in 1..m : r[i] \in T}
           Right == {i \in m + 1..m + Len(t) : r[i] \in T}
<1>1. /\ m \in Nat /\ Len(t) \in Nat /\ r \in Seq(S) /\ Len(r) = m + Len(t)
      /\ \A i \in 1..m : r[i] = s[i]
      /\ \A i \in 1..Len(t) : r[m + i] = t[i]
  BY ConcatProperties
<1> HIDE DEF m, r
<1>2. Places(r, T) = Left \cup Right /\ Left \cap Right = {}
  BY <1>1 DEF Places
<1>3. Left = Places(s, T)
  BY <1>1 DEF Places, m
<1> DEFINE f == [i \in Places(t, T) |-> m + i]
<1>4. f \in Bijection(Places(t, T), Right)
  <2>1. \A i \in Places(t, T) : i \in Nat /\ m + i \in Right
    BY <1>1 DEF Places
  <2>2. ASSUME NEW i \in Right
        PROVE  i - m \in Places(t, T) /\ m + (i - m) = i
    <3>1. i - m \in 1..Len(t) /\ m + (i - m) = i
      BY <1>1
    <3>2. r[m + (i - m)] = t[i - m]
      BY <1>1, <3>1
    <3> QED  BY <3>1, <3>2 DEF Places
  <2>3. f \in Surjection(Places(t, T), Right)
    BY <2>1, <2>2 DEF Surjection
  <2>4. f \in Injection(Places(t, T), Right)
    BY <1>1, <2>1 DEF Injection, IsInjective
  <2> QED  BY <2>3, <2>4 DEF Bijection
<1>5. IsFiniteSet(Places(t, T)) /\ IsFiniteSet(Places(s, T))
  BY CountType
<1>6. Cardinality(Right) = Count(t, T) /\ IsFiniteSet(Right)
  <2> HIDE DEF f, Right
  <2>1. ExistsBijection(Places(t, T), Right)
    BY <1>4 DEF ExistsBijection
  <2> QED  BY <1>5, <2>1, FS_Bijection DEF Count
<1>7. Cardinality(Left \cup Right) = Cardinality(Left) + Cardinality(Right) - 0
  <2>1. Cardinality(Left \cap Right) = 0
    BY <1>2, FS_EmptySet
  <2> HIDE DEF Left, Right
  <2> QED  BY <1>3, <1>5, <1>6, <2>1, FS_Union
<1>8. Count(s, T) \in Nat /\ Count(t, T) \in Nat
  BY CountType
<1>9. Cardinality(Places(r, T)) = Count(s, T) + Count(t, T)
  <2>1. Cardinality(Left) = Count(s, T)
    BY <1>3 DEF Count
  <2> HIDE DEF Left, Right
  <2> QED  BY <1>2, <1>6, <1>7, <1>8, <2>1
<1> QED  BY <1>9 DEF Count, r
=============================================================================
