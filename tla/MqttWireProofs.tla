---------------------------- MODULE MqttWireProofs ----------------------------
(***************************************************************************)
(* Theorems about packets from end to end: the types, the answers of the   *)
(* output queue, and that the peer gets the packets that were written.     *)
(*                                                                         *)
(* The inductive invariant is QueueInv /\ WireInv /\ ReadInv: the pushes   *)
(* without an answer are those of the queue, in order; the wire carries a  *)
(* beginning of what was pushed and a push is done if it reaches its end;  *)
(* and the peer stands in the packet it reads.  It finds where that packet *)
(* ends because decoding inverts encoding, which is proved first, and      *)
(* where it lies on the wire from lemmas about concatenations.             *)
(***************************************************************************)
EXTENDS MqttWire, SequenceLemmas

-----------------------------------------------------------------------------
(* Concatenations.                                                         *)

\* The recursion that defines FlattenSeq.
Flattened(flat, S, seqs) ==
    /\ flat \in [1..Len(seqs) -> Seq(S)]
    /\ flat[1] = seqs[1]
    /\ \A p \in 2..Len(seqs) : flat[p] = flat[p - 1] \o seqs[p]
    /\ FlattenSeq(seqs) = flat[Len(seqs)]

\* The fold that defines FlattenSeq is a recursion over the positions.
LEMMA FlattenRecursion ==
    ASSUME NEW S, NEW seqs \in Seq(Seq(S)), seqs # <<>>
    PROVE  \E flat : Flattened(flat, S, seqs)
<1> DEFINE N == Len(seqs)
           T == Seq(S)
           step == [x \in (1..N) \X T |-> x[2] \o seqs[x[1]]]
           Rec(g) == [p \in 1..N |-> IF p = 1 THEN seqs[p] ELSE g[p - 1] \o seqs[p]]
           flat == CHOOSE g : g = Rec(g)
<1>1. N \in Nat /\ N > 0 /\ <<>> \in T /\ \A p \in 1..N : seqs[p] \in T
  OBVIOUS
<1>2. PICK f \in [0..N -> T] :
          f[0] = <<>> /\ \A p \in 1..N : f[p] = step[<<p, f[p - 1]>>]
  <2>1. ASSUME NEW p \in 1..N, NEW t \in T
        PROVE  t \o seqs[p] \in T
    BY <1>1
  <2>2. step \in [(1..N) \X T -> T]
    BY <2>1
  <2>3. Steps(step, N, T)
    BY <2>2 DEF Steps
  <2> HIDE DEF step, N, T
  <2>4. \E f : Follows(f, N, T, <<>>, step)
    BY <1>1, <2>3, RecursionExists
  <2> QED  BY <2>4 DEF Follows
<1>3. ASSUME NEW p \in 1..N
      PROVE  f[p] = f[p - 1] \o seqs[p]
  <2>1. <<p, f[p - 1]>> \in (1..N) \X T
    <3> HIDE DEF N, T
    <3> QED  BY <1>1
  <2>2. f[p] = step[<<p, f[p - 1]>>]
    BY <1>2
  <2> QED  BY <2>1, <2>2
<1> DEFINE h == [p \in 1..N |-> f[p]]
<1>4. h = Rec(h)
  <2> HIDE DEF N, T, step
  <2>1. ASSUME NEW p \in 1..N
        PROVE  h[p] = Rec(h)[p]
    <3>1. CASE p = 1
      <4>1. h[p] = <<>> \o seqs[p] /\ seqs[p] \in T
        <5>1. p - 1 = 0
          BY <3>1
        <5>2. f[p] = <<>> \o seqs[p]
          BY <1>2, <1>3, <5>1
        <5> QED  BY <1>1, <5>2
      <4>2. <<>> \o seqs[p] = seqs[p]
        BY <4>1 DEF T
      <4> QED  BY <3>1, <4>1, <4>2
    <3>2. CASE p # 1
      <4>1. p - 1 \in 1..N
        BY <1>1, <3>2
      <4> QED  BY <1>3, <3>2, <4>1
    <3> QED  BY <3>1, <3>2
  <2>2. h = [p \in 1..N |-> h[p]] /\ Rec(h) = [p \in 1..N |-> Rec(h)[p]]
    OBVIOUS
  <2> QED  BY <2>1, <2>2
<1>5. flat = Rec(flat)
  <2> HIDE DEF Rec, h
  <2> QED  BY <1>4
<1>6. FlattenSeq(seqs) = flat[N]
  BY <1>1 DEF FlattenSeq
<1> HIDE DEF flat
<1>7. DOMAIN flat = 1..N /\ flat = [p \in 1..N |-> flat[p]]
  <2> HIDE DEF N, T
  <2> QED  BY <1>5
<1>8. ASSUME NEW p \in 1..N
      PROVE  flat[p] = IF p = 1 THEN seqs[p] ELSE flat[p - 1] \o seqs[p]
  <2> HIDE DEF N, T
  <2> QED  BY <1>5
<1>9. \A p \in 1..N : flat[p] \in T
  <2> DEFINE V == {p \in 0..N : p = 0 \/ flat[p] \in T}
  <2>1. 0 \in V
    BY <1>1
  <2>2. ASSUME NEW p \in 0..N, p \in V, p < N
        PROVE  p + 1 \in V
    <3>1. p + 1 \in 1..N
      BY <1>1, <2>2
    <3>2. seqs[p + 1] \in T
      BY <1>1, <3>1
    <3>3. flat[p + 1] \in T
      <4>1. CASE p = 0
        BY <1>8, <3>1, <3>2, <4>1
      <4>2. CASE p # 0
        <5>1. flat[p] \in T /\ (p + 1) - 1 = p /\ p + 1 # 1
          BY <2>2, <4>2
        <5>2. flat[p + 1] = flat[p] \o seqs[p + 1]
          BY <1>8, <3>1, <5>1
        <5> QED  BY <3>2, <5>1, <5>2
      <4> QED  BY <4>1, <4>2
    <3> QED  BY <3>1, <3>3
  <2> HIDE DEF V, N, T
  <2>3. \A p \in 0..N : p \in V
    BY <1>1, <2>1, <2>2, UpTo
  <2> QED  BY <1>1, <2>3 DEF V
<1>10. flat \in [1..N -> Seq(S)]
  BY <1>7, <1>9
<1>11. flat[1] = seqs[1] /\ \A p \in 2..N : flat[p] = flat[p - 1] \o seqs[p]
  <2> HIDE DEF N, T
  <2>1. 1 \in 1..N /\ \A p \in 2..N : p \in 1..N /\ p # 1
    BY <1>1
  <2> QED  BY <1>8, <2>1
<1> QED  BY <1>6, <1>10, <1>11 DEF Flattened

\* The concatenation of one sequence more.
LEMMA FlattenAppend ==
    ASSUME NEW S, NEW seqs \in Seq(Seq(S)), NEW d \in Seq(S)
    PROVE  /\ FlattenSeq(seqs) \in Seq(S)
           /\ FlattenSeq(Append(seqs, d)) = FlattenSeq(seqs) \o d
<1> DEFINE more == Append(seqs, d)
           N == Len(seqs)
<1>1. /\ N \in Nat /\ more \in Seq(Seq(S)) /\ more # <<>> /\ Len(more) = N + 1
      /\ \A p \in 1..N : more[p] = seqs[p]
      /\ more[N + 1] = d
  <2>1. /\ more \in Seq(Seq(S)) /\ Len(more) = N + 1
        /\ \A p \in 1..N : more[p] = seqs[p]
        /\ more[N + 1] = d
    BY AppendProperties
  <2>2. N \in Nat
    OBVIOUS
  <2> HIDE DEF more
  <2> QED  BY <2>1, <2>2
<1> HIDE DEF more
<1>2. PICK g : Flattened(g, S, more)
  BY <1>1, FlattenRecursion
<1>3. CASE seqs = <<>>
  <2>1. FlattenSeq(seqs) = <<>> /\ N = 0
    BY <1>3 DEF FlattenSeq
  <2>2. FlattenSeq(more) = d
    BY <1>1, <1>2, <2>1 DEF Flattened
  <2>3. <<>> \o d = d /\ <<>> \in Seq(S)
    OBVIOUS
  <2> QED  BY <2>1, <2>2, <2>3 DEF more
<1>4. CASE seqs # <<>>
  <2>1. PICK f : Flattened(f, S, seqs)
    BY <1>4, FlattenRecursion
  <2> DEFINE V == {p \in 0..N : p = 0 \/ g[p] = f[p]}
  <2>2. 0 \in V
    BY <1>1
  <2>3. ASSUME NEW p \in 0..N, p \in V, p < N
        PROVE  p + 1 \in V
    <3>1. p + 1 \in 1..N /\ (p + 1) - 1 = p
      BY <1>1, <2>3
    <3>2. CASE p = 0
      BY <1>1, <1>2, <2>1, <3>1, <3>2 DEF Flattened
    <3>3. CASE p # 0
      <4>1. p + 1 \in 2..N /\ p + 1 \in 2..N + 1
        BY <1>1, <3>1, <3>3
      <4>2. f[p + 1] = f[p] \o seqs[p + 1]
        BY <2>1, <3>1, <4>1 DEF Flattened
      <4>3. g[p + 1] = g[p] \o more[p + 1]
        BY <1>1, <1>2, <3>1, <4>1 DEF Flattened
      <4>4. g[p] = f[p] /\ more[p + 1] = seqs[p + 1]
        BY <1>1, <2>3, <3>1, <3>3
      <4>5. g[p + 1] = f[p + 1] /\ p + 1 \in 0..N
        BY <3>1, <4>2, <4>3, <4>4
      <4> QED  BY <4>5
    <3> QED  BY <3>2, <3>3
  <2> HIDE DEF V
  <2>4. \A p \in 0..N : p \in V
    BY <1>1, <2>2, <2>3, UpTo
  <2>5. N > 0 /\ N \in 1..N /\ N + 1 \in 2..N + 1 /\ (N + 1) - 1 = N
    BY <1>1, <1>4
  <2>6. g[N] = f[N]
    BY <1>1, <2>4, <2>5 DEF V
  <2>7. FlattenSeq(seqs) = f[N] /\ f[N] \in Seq(S)
    BY <2>1, <2>5 DEF Flattened
  <2>8. FlattenSeq(more) = g[N + 1] /\ g[N + 1] = g[N] \o more[N + 1]
    BY <1>1, <1>2, <2>5 DEF Flattened
  <2> QED  BY <1>1, <2>6, <2>7, <2>8 DEF more
<1> QED  BY <1>3, <1>4

\* Where the sequence p of seqs ends in the concatenation.
EndOf(seqs, p) == Len(FlattenSeq(SubSeq(seqs, 1, p)))

\* A beginning of a sequence is the one before it and one more element.
LEMMA SubSeqMore ==
    ASSUME NEW S, NEW s \in Seq(S), NEW p \in 1..Len(s)
    PROVE  /\ SubSeq(s, 1, p - 1) \in Seq(S)
           /\ SubSeq(s, 1, p) = Append(SubSeq(s, 1, p - 1), s[p])
<1> DEFINE r == SubSeq(s, 1, p - 1)
           t == SubSeq(s, 1, p)
<1>1. p \in Nat /\ p > 0 /\ p <= Len(s) /\ Len(s) \in Nat /\ s[p] \in S
  OBVIOUS
<1>2. r \in Seq(S) /\ Len(r) = p - 1 /\ \A i \in 1..p - 1 : r[i] = s[i]
  BY <1>1
<1>3. t \in Seq(S) /\ Len(t) = p /\ \A i \in 1..p : t[i] = s[i]
  BY <1>1
<1> HIDE DEF r, t
<1>4. /\ Append(r, s[p]) \in Seq(S) /\ Len(Append(r, s[p])) = Len(r) + 1
      /\ \A i \in 1..Len(r) : Append(r, s[p])[i] = r[i]
      /\ Append(r, s[p])[Len(r) + 1] = s[p]
  BY <1>1, <1>2, AppendProperties
<1>5. Len(t) = Len(Append(r, s[p]))
  BY <1>1, <1>2, <1>3, <1>4
<1>6. ASSUME NEW i \in 1..Len(t)
      PROVE  t[i] = Append(r, s[p])[i]
  BY <1>1, <1>2, <1>3, <1>4
<1>7. t = Append(r, s[p])
  BY <1>3, <1>4, <1>5, <1>6, SeqEqual
<1> QED  BY <1>2, <1>7 DEF r, t

\* Nothing pushed has no bytes.
LEMMA EndStart ==
    ASSUME NEW S, NEW seqs \in Seq(Seq(S))
    PROVE  EndOf(seqs, 0) = 0
<1>1. SubSeq(seqs, 1, 0) = <<>>
  OBVIOUS
<1>2. FlattenSeq(<<>>) = <<>>
  BY DEF FlattenSeq
<1>3. Len(<<>>) = 0
  OBVIOUS
<1> QED  BY <1>1, <1>2, <1>3 DEF EndOf

\* The next sequence is put behind those before it.
LEMMA EndNext ==
    ASSUME NEW S, NEW seqs \in Seq(Seq(S)), NEW p \in 1..Len(seqs)
    PROVE  /\ FlattenSeq(SubSeq(seqs, 1, p - 1)) \in Seq(S)
           /\ FlattenSeq(SubSeq(seqs, 1, p))
                  = FlattenSeq(SubSeq(seqs, 1, p - 1)) \o seqs[p]
           /\ EndOf(seqs, p - 1) \in Nat
           /\ EndOf(seqs, p) = EndOf(seqs, p - 1) + Len(seqs[p])
<1> DEFINE r == SubSeq(seqs, 1, p - 1)
           t == SubSeq(seqs, 1, p)
<1>1. r \in Seq(Seq(S)) /\ t = Append(r, seqs[p])
  BY SubSeqMore
<1>2. seqs[p] \in Seq(S)
  OBVIOUS
<1> HIDE DEF r, t
<1>3. FlattenSeq(r) \in Seq(S) /\ FlattenSeq(t) = FlattenSeq(r) \o seqs[p]
  BY <1>1, <1>2, FlattenAppend
<1>4. Len(FlattenSeq(r)) \in Nat /\ Len(FlattenSeq(t)) = Len(FlattenSeq(r)) + Len(seqs[p])
  BY <1>2, <1>3
<1> QED  BY <1>3, <1>4 DEF EndOf, r, t

\* Where a push ends is a number of bytes.
LEMMA EndType ==
    ASSUME NEW S, NEW seqs \in Seq(Seq(S)), NEW p \in 0..Len(seqs)
    PROVE  EndOf(seqs, p) \in Nat
<1>1. CASE p = 0
  BY <1>1, EndStart
<1>2. CASE p # 0
  <2>1. p \in 1..Len(seqs) /\ Len(seqs[p]) \in Nat
    BY <1>2
  <2> HIDE DEF EndOf
  <2>2. EndOf(seqs, p - 1) \in Nat /\ EndOf(seqs, p) = EndOf(seqs, p - 1) + Len(seqs[p])
    BY <2>1, EndNext
  <2> QED  BY <2>1, <2>2
<1> QED  BY <1>1, <1>2

\* Later sequences end later.
LEMMA EndsAscend ==
    ASSUME NEW S, NEW seqs \in Seq(Seq(S)), NEW p \in 0..Len(seqs),
           NEW q \in 0..Len(seqs), p <= q
    PROVE  EndOf(seqs, p) <= EndOf(seqs, q)
<1> DEFINE V == {k \in 0..Len(seqs) : k >= p => EndOf(seqs, p) <= EndOf(seqs, k)}
<1>1. 0 \in V
  BY EndType
<1>2. ASSUME NEW k \in 0..Len(seqs), k \in V, k < Len(seqs)
      PROVE  k + 1 \in V
  <2>1. k + 1 \in 1..Len(seqs) /\ (k + 1) - 1 = k /\ Len(seqs[k + 1]) \in Nat
    BY <1>2
  <2>2. EndOf(seqs, k) \in Nat /\ EndOf(seqs, k + 1) = EndOf(seqs, k) + Len(seqs[k + 1])
    BY <2>1, EndNext
  <2>3. EndOf(seqs, p) \in Nat
    BY EndType
  <2>4. ASSUME k + 1 >= p
        PROVE  EndOf(seqs, p) <= EndOf(seqs, k + 1)
    <3>1. CASE k + 1 = p
      BY <2>3, <3>1
    <3>2. CASE k + 1 # p
      <4>1. EndOf(seqs, p) <= EndOf(seqs, k)
        BY <1>2, <2>4, <3>2
      <4> QED  BY <2>1, <2>2, <2>3, <4>1
    <3> QED  BY <3>1, <3>2
  <2> QED  BY <2>1, <2>4
<1>3. Len(seqs) \in Nat
  OBVIOUS
<1> HIDE DEF V
<1>4. \A k \in 0..Len(seqs) : k \in V
  BY <1>1, <1>2, <1>3, UpTo
<1> QED  BY <1>4 DEF V

\* The concatenation up to q begins with that up to p.
LEMMA FlattenPrefix ==
    ASSUME NEW S, NEW seqs \in Seq(Seq(S)), NEW p \in 0..Len(seqs),
           NEW q \in 0..Len(seqs), p <= q, NEW i \in 1..EndOf(seqs, p)
    PROVE  FlattenSeq(SubSeq(seqs, 1, q))[i] = FlattenSeq(SubSeq(seqs, 1, p))[i]
<1> DEFINE flat(k) == FlattenSeq(SubSeq(seqs, 1, k))
           V == {k \in 0..Len(seqs) : k >= p => flat(k)[i] = flat(p)[i]}
<1>1. 0 \in V
  BY EndType
<1>2. ASSUME NEW k \in 0..Len(seqs), k \in V, k < Len(seqs)
      PROVE  k + 1 \in V
  <2>1. k + 1 \in 1..Len(seqs) /\ (k + 1) - 1 = k /\ seqs[k + 1] \in Seq(S)
    BY <1>2
  <2>2. flat(k) \in Seq(S) /\ flat(k + 1) = flat(k) \o seqs[k + 1]
    BY <2>1, EndNext
  <2>3. ASSUME k + 1 >= p
        PROVE  flat(k + 1)[i] = flat(p)[i]
    <3>1. CASE k + 1 = p
      BY <3>1
    <3>2. CASE k + 1 # p
      <4>1. flat(k)[i] = flat(p)[i] /\ p <= k
        BY <1>2, <2>3, <3>2
      <4>2. EndOf(seqs, p) <= EndOf(seqs, k) /\ EndOf(seqs, p) \in Nat
        BY <4>1, EndsAscend, EndType
      <4>3. Len(flat(k)) = EndOf(seqs, k) /\ Len(flat(k)) \in Nat
        BY <2>2 DEF EndOf
      <4>4. i \in 1..Len(flat(k))
        BY <4>2, <4>3
      <4> HIDE DEF flat
      <4> QED  BY <2>1, <2>2, <4>1, <4>4, ConcatProperties
    <3> QED  BY <3>1, <3>2
  <2> HIDE DEF flat
  <2> QED  BY <2>1, <2>3
<1>3. Len(seqs) \in Nat
  OBVIOUS
<1> HIDE DEF V
<1>4. \A k \in 0..Len(seqs) : k \in V
  BY <1>1, <1>2, <1>3, UpTo
<1> QED  BY <1>4 DEF V

\* The last push ends where the concatenation ends.
LEMMA WholeFlatten ==
    ASSUME NEW S, NEW seqs \in Seq(Seq(S))
    PROVE  /\ SubSeq(seqs, 1, Len(seqs)) = seqs
           /\ FlattenSeq(seqs) \in Seq(S)
           /\ Len(FlattenSeq(seqs)) = EndOf(seqs, Len(seqs))
<1>1. SubSeq(seqs, 1, Len(seqs)) = seqs
  OBVIOUS
<1>2. FlattenSeq(seqs) \in Seq(S)
  <2>1. <<>> \in Seq(S)
    OBVIOUS
  <2> QED  BY <2>1, FlattenAppend
<1> QED  BY <1>1, <1>2 DEF EndOf

\* Where the element k of the sequence p is found.
LEMMA FlattenPlace ==
    ASSUME NEW S, NEW seqs \in Seq(Seq(S)), NEW p \in 1..Len(seqs),
           NEW k \in 1..Len(seqs[p])
    PROVE  FlattenSeq(seqs)[EndOf(seqs, p - 1) + k] = seqs[p][k]
<1> DEFINE flat(n) == FlattenSeq(SubSeq(seqs, 1, n))
           i == EndOf(seqs, p - 1) + k
<1>1. /\ flat(p - 1) \in Seq(S) /\ flat(p) = flat(p - 1) \o seqs[p]
      /\ EndOf(seqs, p - 1) \in Nat
      /\ EndOf(seqs, p) = EndOf(seqs, p - 1) + Len(seqs[p])
  BY EndNext
<1>2. seqs[p] \in Seq(S) /\ Len(seqs[p]) \in Nat
  OBVIOUS
<1>3. Len(flat(p - 1)) = EndOf(seqs, p - 1)
  BY DEF EndOf
<1>4. flat(p)[i] = seqs[p][k]
  <2> HIDE DEF flat
  <2>1. i \in Len(flat(p - 1)) + 1..Len(flat(p - 1)) + Len(seqs[p]) /\ i - Len(flat(p - 1)) = k
    <3> DEFINE e == EndOf(seqs, p - 1)
               m == Len(seqs[p])
    <3>1. e \in Nat /\ m \in Nat /\ k \in 1..m /\ Len(flat(p - 1)) = e
      BY <1>1, <1>2, <1>3
    <3> HIDE DEF e, m
    <3>2. e + k \in e + 1..e + m /\ (e + k) - e = k
      BY <3>1
    <3> QED  BY <3>1, <3>2 DEF e, m
  <2> HIDE DEF i
  <2> QED  BY <1>1, <1>2, <2>1, ConcatProperties
<1>5. p \in 0..Len(seqs) /\ Len(seqs) \in 0..Len(seqs) /\ p <= Len(seqs)
  OBVIOUS
<1>6. i \in 1..EndOf(seqs, p)
  BY <1>1, <1>2
<1>7. flat(Len(seqs))[i] = flat(p)[i]
  <2> HIDE DEF i
  <2> QED  BY <1>5, <1>6, FlattenPrefix
<1>8. flat(Len(seqs)) = FlattenSeq(seqs)
  BY WholeFlatten
<1> QED  BY <1>4, <1>7, <1>8

\* One sequence more leaves the ends of the others where they are.
LEMMA EndAppend ==
    ASSUME NEW S, NEW seqs \in Seq(Seq(S)), NEW d \in Seq(S)
    PROVE  /\ \A p \in 0..Len(seqs) : EndOf(Append(seqs, d), p) = EndOf(seqs, p)
           /\ EndOf(Append(seqs, d), Len(seqs) + 1) = EndOf(seqs, Len(seqs)) + Len(d)
           /\ \A i \in 1..EndOf(seqs, Len(seqs)) :
                 FlattenSeq(Append(seqs, d))[i] = FlattenSeq(seqs)[i]
<1> DEFINE more == Append(seqs, d)
<1>1. /\ more \in Seq(Seq(S)) /\ Len(more) = Len(seqs) + 1 /\ Len(seqs) \in Nat
      /\ \A p \in 1..Len(seqs) : more[p] = seqs[p]
      /\ more[Len(seqs) + 1] = d
  <2>1. /\ more \in Seq(Seq(S)) /\ Len(more) = Len(seqs) + 1
        /\ \A p \in 1..Len(seqs) : more[p] = seqs[p]
        /\ more[Len(seqs) + 1] = d
    BY AppendProperties
  <2>2. Len(seqs) \in Nat
    OBVIOUS
  <2> HIDE DEF more
  <2> QED  BY <2>1, <2>2
<1>2. FlattenSeq(seqs) \in Seq(S) /\ FlattenSeq(more) = FlattenSeq(seqs) \o d
  BY FlattenAppend
<1>3. Len(FlattenSeq(seqs)) = EndOf(seqs, Len(seqs))
  BY WholeFlatten
<1> HIDE DEF more
<1>4. ASSUME NEW p \in 0..Len(seqs)
      PROVE  EndOf(more, p) = EndOf(seqs, p)
  <2> DEFINE r == SubSeq(more, 1, p)
             t == SubSeq(seqs, 1, p)
  <2>1. r \in Seq(Seq(S)) /\ Len(r) = p /\ \A i \in 1..p : r[i] = more[i]
    BY <1>1
  <2>2. t \in Seq(Seq(S)) /\ Len(t) = p /\ \A i \in 1..p : t[i] = seqs[i]
    OBVIOUS
  <2> HIDE DEF r, t
  <2>3. ASSUME NEW i \in 1..p
        PROVE  r[i] = t[i]
    <3>1. i \in 1..Len(seqs)
      OBVIOUS
    <3> QED  BY <1>1, <2>1, <2>2, <3>1
  <2>4. r = t
    BY <2>1, <2>2, <2>3, SeqEqual
  <2> QED  BY <2>4 DEF EndOf, r, t
<1>5. EndOf(more, Len(seqs) + 1) = EndOf(seqs, Len(seqs)) + Len(d)
  <2>1. Len(FlattenSeq(more)) = EndOf(more, Len(more))
    BY <1>1, WholeFlatten
  <2>2. Len(FlattenSeq(more)) = Len(FlattenSeq(seqs)) + Len(d)
    BY <1>2
  <2> QED  BY <1>1, <1>3, <2>1, <2>2
<1>6. \A i \in 1..EndOf(seqs, Len(seqs)) : FlattenSeq(more)[i] = FlattenSeq(seqs)[i]
  BY <1>2, <1>3, ConcatProperties
<1> QED  BY <1>4, <1>5, <1>6 DEF more

-----------------------------------------------------------------------------
(* The header of a packet.                                                 *)

Wholes == [head : Byte, rest : Seq(Byte)]

\* Division with remainder, which one digit is.
LEMMA DivMod ==
    ASSUME NEW a \in Nat
    PROVE  /\ a \div Base \in Nat
           /\ a % Base \in 0..Base - 1
           /\ a = Base * (a \div Base) + (a % Base)
BY CodecAssumption

\* The high bit does not change the value of a digit.
LEMMA ModDigit ==
    ASSUME NEW a \in 0..Base - 1
    PROVE  a % Base = a /\ (a + Base) % Base = a
BY CodecAssumption

\* What is left of the size in the loop of fb_mqtt_message_bytes.
LEMMA SizesRecursion ==
    ASSUME NEW n \in Nat
    PROVE  /\ Sizes(n) \in [0..MaxDigits -> Nat]
           /\ Sizes(n)[0] = n
           /\ \A i \in 1..MaxDigits : Sizes(n)[i] = Sizes(n)[i - 1] \div Base
<1> DEFINE step == [x \in (1..MaxDigits) \X Nat |-> x[2] \div Base]
           Rec(g) == [i \in 0..MaxDigits |-> IF i = 0 THEN n ELSE g[i - 1] \div Base]
           size == CHOOSE g : g = Rec(g)
<1>1. MaxDigits \in Nat /\ MaxDigits > 0 /\ Base \in Nat /\ Base > 1
  BY CodecAssumption
<1>2. PICK f \in [0..MaxDigits -> Nat] :
          f[0] = n /\ \A i \in 1..MaxDigits : f[i] = step[<<i, f[i - 1]>>]
  <2>1. \A a \in Nat : a \div Base \in Nat
    BY DivMod
  <2>2. step \in [(1..MaxDigits) \X Nat -> Nat]
    BY <2>1
  <2>3. Steps(step, MaxDigits, Nat)
    BY <2>2 DEF Steps
  <2> HIDE DEF step
  <2>4. \E f : Follows(f, MaxDigits, Nat, n, step)
    BY <1>1, <2>3, RecursionExists
  <2> QED  BY <2>4 DEF Follows
<1>3. f = Rec(f)
  <2>1. ASSUME NEW i \in 0..MaxDigits
        PROVE  f[i] = Rec(f)[i]
    <3>1. CASE i = 0
      BY <1>1, <1>2, <3>1
    <3>2. CASE i # 0
      <4>1. i \in 1..MaxDigits /\ i - 1 \in 0..MaxDigits
        BY <1>1, <3>2
      <4>2. <<i, f[i - 1]>> \in (1..MaxDigits) \X Nat
        BY <4>1
      <4>3. f[i] = step[<<i, f[i - 1]>>]
        BY <1>2, <4>1
      <4> QED  BY <3>2, <4>2, <4>3
    <3> QED  BY <3>1, <3>2
  <2>2. f = [i \in 0..MaxDigits |-> f[i]] /\ Rec(f) = [i \in 0..MaxDigits |-> Rec(f)[i]]
    OBVIOUS
  <2> QED  BY <2>1, <2>2
<1>4. size = Rec(size)
  <2> HIDE DEF Rec
  <2> QED  BY <1>3
<1>5. Sizes(n) = size
  BY DEF Sizes
<1> HIDE DEF size
<1>6. size = [i \in 0..MaxDigits |-> size[i]]
  BY <1>4
<1>7. size[0] = n
  BY <1>1, <1>4
<1>8. ASSUME NEW i \in 1..MaxDigits
      PROVE  size[i] = size[i - 1] \div Base
  BY <1>1, <1>4
<1>9. \A i \in 0..MaxDigits : size[i] \in Nat
  <2>1. \A i \in 1..MaxDigits : size[i - 1] \in Nat => size[i] \in Nat
    BY <1>8, DivMod
  <2> QED  BY <1>1, <1>7, <2>1, RecursionType
<1>10. size \in [0..MaxDigits -> Nat]
  BY <1>6, <1>9
<1> QED  BY <1>5, <1>7, <1>8, <1>10

\* The loop that takes digits off a length ends when nothing is left of it.
LEMMA DigitsEnd ==
    ASSUME NEW n \in Nat, Sizes(n)[MaxDigits] = 0
    PROVE  /\ Digits(n) \in 1..MaxDigits
           /\ Sizes(n)[Digits(n)] = 0
           /\ \A j \in 1..Digits(n) - 1 : Sizes(n)[j] > 0
<1> DEFINE size == Sizes(n)
           Ends == {k \in 1..MaxDigits : size[k] = 0}
<1>1. MaxDigits \in Nat /\ MaxDigits > 0 /\ size \in [0..MaxDigits -> Nat]
  <2>1. MaxDigits \in Nat /\ MaxDigits > 0
    BY CodecAssumption
  <2>2. Sizes(n) \in [0..MaxDigits -> Nat]
    BY SizesRecursion
  <2> QED  BY <2>1, <2>2
<1> HIDE DEF size
<1>2. Ends \in SUBSET Nat /\ Ends # {}
  BY <1>1 DEF size
<1>3. PICK k \in Ends : \A j \in Ends : k <= j
  <2> HIDE DEF Ends
  <2> QED  BY <1>2, LeastNat
<1>4. ASSUME NEW j \in 1..k - 1
      PROVE  size[j] > 0
  <2>1. j \in 1..MaxDigits /\ ~ (k <= j) /\ size[j] \in Nat
    BY <1>1, <1>3
  <2>2. j \notin Ends
    BY <1>3, <2>1
  <2> QED  BY <2>1, <2>2
<1>5. \E d \in 1..MaxDigits : size[d] = 0 /\ \A j \in 1..d - 1 : size[j] > 0
  BY <1>3, <1>4
<1> QED  BY <1>5 DEF Digits, size

\* What fb_mqtt_message_bytes returns: k digits and the rest of n bytes.
Shaped(e, packet, k) ==
    LET n == Len(packet.rest)
        size == Sizes(n)
    IN  /\ k \in 1..MaxDigits /\ size[k] = 0
        /\ e \in Seq(Byte) /\ Len(e) = 1 + k + n
        /\ e[1] = packet.head
        /\ \A i \in 2..k : e[i] >= Base
        /\ e[k + 1] < Base
        /\ \A i \in 1..k : e[i + 1] % Base = size[i - 1] % Base
        /\ \A j \in 1..n : e[1 + k + j] = packet.rest[j]

\* An encoded packet is its head, digits that are its length, and the rest.
LEMMA EncodedShape ==
    ASSUME NEW packet \in Wholes, Encodable(packet)
    PROVE  Shaped(Encoded(packet), packet, Digits(Len(packet.rest)))
<1> DEFINE n == Len(packet.rest)
           size == Sizes(n)
           k == Digits(n)
           digit(i) == size[i - 1] % Base
           written == [i \in 1..k |-> IF i < k THEN digit(i) + Base ELSE digit(i)]
           one == <<packet.head>>
           e == (one \o written) \o packet.rest
<1>1. packet.head \in Byte /\ packet.rest \in Seq(Byte) /\ n \in Nat
  BY DEF Wholes
<1>2. /\ k \in 1..MaxDigits /\ size[k] = 0 /\ MaxDigits \in Nat
      /\ k \in Nat /\ k > 0 /\ k <= MaxDigits
  <2>1. MaxDigits \in Nat
    BY CodecAssumption
  <2>2. k \in 1..MaxDigits /\ size[k] = 0
    BY <1>1, DigitsEnd DEF Encodable
  <2> HIDE DEF k
  <2> QED  BY <2>1, <2>2
<1>3. ASSUME NEW i \in 1..k
      PROVE  size[i - 1] \in Nat /\ digit(i) \in 0..Base - 1
  <2>1. i - 1 \in 0..MaxDigits
    BY <1>2
  <2>2. size[i - 1] \in Nat
    BY <1>1, <2>1, SizesRecursion
  <2> HIDE DEF size
  <2> QED  BY <2>2, DivMod
<1>4. Base \in Nat /\ Base > 1
  BY CodecAssumption
<1> HIDE DEF n, size, k, digit
<1>5. /\ written \in Seq(Byte) /\ Len(written) = k
      /\ \A i \in 1..k : written[i] = IF i < k THEN digit(i) + Base ELSE digit(i)
  <2>1. \A i \in 1..k : (IF i < k THEN digit(i) + Base ELSE digit(i)) \in Byte
    BY <1>3, <1>4 DEF Byte
  <2>2. written \in [1..k -> Byte]
    BY <2>1
  <2> QED  BY <1>2, <2>2
<1>6. one \in Seq(Byte) /\ Len(one) = 1 /\ one[1] = packet.head
  BY <1>1
<1> HIDE DEF written, one
<1>7. /\ one \o written \in Seq(Byte) /\ Len(one \o written) = 1 + k
      /\ (one \o written)[1] = packet.head
      /\ \A i \in 1..k : (one \o written)[i + 1] = written[i]
  <2>1. /\ one \o written \in Seq(Byte) /\ Len(one \o written) = Len(one) + Len(written)
        /\ \A i \in 1..Len(one) + Len(written) :
              (one \o written)[i] = IF i <= Len(one) THEN one[i] ELSE written[i - Len(one)]
    BY <1>5, <1>6, ConcatProperties
  <2>2. \A i \in 1..k : i + 1 \in 1..1 + k /\ ~ (i + 1 <= 1) /\ (i + 1) - 1 = i
    BY <1>2
  <2>3. 1 \in 1..1 + k
    BY <1>2
  <2> QED  BY <1>5, <1>6, <2>1, <2>2, <2>3
<1>8. /\ e \in Seq(Byte) /\ Len(e) = 1 + k + n
      /\ \A i \in 1..1 + k : e[i] = (one \o written)[i]
      /\ \A j \in 1..n : e[1 + k + j] = packet.rest[j]
  <2> DEFINE front == one \o written
  <2>1. front \in Seq(Byte) /\ Len(front) = 1 + k
    BY <1>7
  <2> HIDE DEF front
  <2>2. /\ front \o packet.rest \in Seq(Byte)
        /\ Len(front \o packet.rest) = Len(front) + Len(packet.rest)
        /\ \A i \in 1..Len(front) + Len(packet.rest) :
              (front \o packet.rest)[i] = IF i <= Len(front) THEN front[i]
                                          ELSE packet.rest[i - Len(front)]
    BY <1>1, <2>1, ConcatProperties
  <2>3. e = front \o packet.rest /\ n = Len(packet.rest)
    BY DEF front, n
  <2> HIDE DEF e
  <2>4. \A j \in 1..n : /\ 1 + k + j \in 1..1 + k + n /\ ~ (1 + k + j <= 1 + k)
                        /\ (1 + k + j) - (1 + k) = j
    BY <1>1, <1>2
  <2>5. \A i \in 1..1 + k : i \in 1..1 + k + n /\ i <= 1 + k
    BY <1>1, <1>2
  <2>6. e \in Seq(Byte) /\ Len(e) = 1 + k + n
    BY <1>1, <1>2, <2>1, <2>2, <2>3
  <2>7. \A i \in 1..1 + k : e[i] = front[i]
    BY <2>1, <2>2, <2>3, <2>5
  <2>8. ASSUME NEW j \in 1..n
        PROVE  e[1 + k + j] = packet.rest[j]
    <3> DEFINE i == 1 + k + j
    <3>1. i \in 1..1 + k + n /\ ~ (i <= 1 + k) /\ i - (1 + k) = j
      BY <2>4
    <3> HIDE DEF i
    <3>2. e[i] = packet.rest[j]
      BY <2>1, <2>2, <2>3, <3>1
    <3> QED  BY <3>2 DEF i
  <2> QED  BY <2>6, <2>7, <2>8 DEF front
<1>9. Encoded(packet) = e
  BY DEF Encoded, n, k, size, digit, written, one
<1> HIDE DEF e
<1>10. ASSUME NEW i \in 1..k
       PROVE  e[i + 1] = IF i < k THEN digit(i) + Base ELSE digit(i)
  <2>1. i + 1 \in 1..1 + k
    BY <1>2
  <2> QED  BY <1>5, <1>7, <1>8, <2>1
<1>11. \A i \in 2..k : e[i] >= Base
  <2>1. ASSUME NEW i \in 2..k  PROVE e[i] >= Base
    <3>1. i - 1 \in 1..k /\ (i - 1) + 1 = i /\ i - 1 < k
      BY <1>2
    <3>2. e[i] = digit(i - 1) + Base
      BY <1>10, <3>1
    <3> QED  BY <1>3, <1>4, <3>1, <3>2
  <2> QED  BY <2>1
<1>12. e[k + 1] < Base
  <2>1. k \in 1..k /\ e[k + 1] = digit(k)
    BY <1>2, <1>10
  <2> QED  BY <1>3, <1>4, <2>1
<1>13. \A i \in 1..k : e[i + 1] % Base = size[i - 1] % Base
  <2>1. ASSUME NEW i \in 1..k
        PROVE  e[i + 1] % Base = size[i - 1] % Base
    <3>1. digit(i) \in 0..Base - 1
      BY <1>3
    <3>2. digit(i) % Base = digit(i) /\ (digit(i) + Base) % Base = digit(i)
      BY <3>1, ModDigit
    <3>3. e[i + 1] % Base = digit(i)
      BY <1>10, <3>2
    <3> QED  BY <3>3 DEF digit
  <2> QED  BY <2>1
<1>14. 1 \in 1..1 + k /\ e[1] = packet.head
  BY <1>2, <1>7, <1>8
<1>15. Shaped(e, packet, k)
  BY <1>2, <1>8, <1>11, <1>12, <1>13, <1>14 DEF Shaped, n, size
<1> QED  BY <1>9, <1>15 DEF k, n

\* The recursion that defines PacketLength.
Measured(mult, size, bytes, last) ==
    /\ mult \in [0..last - 1 -> Nat] /\ mult[0] = 1
    /\ \A i \in 1..last - 1 : mult[i] = mult[i - 1] * Base
    /\ size \in [0..last - 1 -> Nat] /\ size[0] = 0
    /\ \A i \in 1..last - 1 :
          size[i] = size[i - 1] + (bytes[i + 1] % Base) * mult[i - 1]
    /\ PacketLength(bytes, last) = last + size[last - 1]

\* mult and size in the loop of fb_mqtt_read_packet, and what it returns.
LEMMA PacketLengthRecursion ==
    ASSUME NEW bytes \in Seq(Byte), NEW last \in 2..Len(bytes)
    PROVE  \E mult, size : Measured(mult, size, bytes, last)
<1> DEFINE m == last - 1
           byBase == [x \in (1..m) \X Nat |-> x[2] * Base]
           MultRec(g) == [i \in 0..m |-> IF i = 0 THEN 1 ELSE g[i - 1] * Base]
           mult == CHOOSE g : g = MultRec(g)
           SizeRec(g) == [i \in 0..m |-> IF i = 0 THEN 0
                             ELSE g[i - 1] + (bytes[i + 1] % Base) * mult[i - 1]]
           size == CHOOSE g : g = SizeRec(g)
<1>1. m \in Nat /\ Base \in Nat /\ 0 \in Nat /\ 1 \in Nat
  BY CodecAssumption
<1>2. PacketLength(bytes, last) = last + size[m]
  BY DEF PacketLength
<1>3. mult = MultRec(mult)
  <2>1. PICK f \in [0..m -> Nat] :
            f[0] = 1 /\ \A i \in 1..m : f[i] = byBase[<<i, f[i - 1]>>]
    <3>1. byBase \in [(1..m) \X Nat -> Nat]
      BY <1>1
    <3>2. Steps(byBase, m, Nat)
      BY <3>1 DEF Steps
    <3> HIDE DEF byBase, m
    <3>3. \E f : Follows(f, m, Nat, 1, byBase)
      BY <1>1, <3>2, RecursionExists
    <3> QED  BY <3>3 DEF Follows
  <2>2. ASSUME NEW i \in 0..m
        PROVE  f[i] = MultRec(f)[i]
    <3>1. CASE i = 0
      BY <1>1, <2>1, <3>1
    <3>2. CASE i # 0
      <4>1. i \in 1..m /\ i - 1 \in 0..m
        BY <1>1, <3>2
      <4>2. <<i, f[i - 1]>> \in (1..m) \X Nat
        BY <4>1
      <4>3. f[i] = byBase[<<i, f[i - 1]>>]
        BY <2>1, <4>1
      <4> QED  BY <3>2, <4>2, <4>3
    <3> QED  BY <3>1, <3>2
  <2>3. f = [i \in 0..m |-> f[i]] /\ MultRec(f) = [i \in 0..m |-> MultRec(f)[i]]
    OBVIOUS
  <2>4. f = MultRec(f)
    BY <2>2, <2>3
  <2> HIDE DEF MultRec
  <2> QED  BY <2>4
<1> HIDE DEF mult
<1>4. mult = [i \in 0..m |-> mult[i]] /\ mult[0] = 1
  BY <1>1, <1>3
<1>5. \A i \in 1..m : mult[i] = mult[i - 1] * Base
  BY <1>1, <1>3
<1>6. \A i \in 0..m : mult[i] \in Nat
  <2>1. \A i \in 1..m : mult[i - 1] \in Nat => mult[i] \in Nat
    BY <1>1, <1>5
  <2> HIDE DEF m
  <2> QED  BY <1>1, <1>4, <2>1, RecursionType
<1>7. ASSUME NEW i \in 1..m
      PROVE  (bytes[i + 1] % Base) * mult[i - 1] \in Nat
  <2>1. i + 1 \in 1..Len(bytes) /\ i - 1 \in 0..m
    OBVIOUS
  <2>2. bytes[i + 1] \in Nat
    BY <1>1, <2>1 DEF Byte
  <2>3. bytes[i + 1] % Base \in Nat /\ mult[i - 1] \in Nat
    <3>1. bytes[i + 1] % Base \in 0..Base - 1
      BY <2>2, DivMod
    <3>2. bytes[i + 1] % Base \in Nat
      BY <1>1, <3>1
    <3> HIDE DEF m
    <3> QED  BY <1>6, <2>1, <3>2
  <2> QED  BY <2>3
<1> DEFINE plus == [x \in (1..m) \X Nat |-> x[2] + (bytes[x[1] + 1] % Base) * mult[x[1] - 1]]
<1>8. size = SizeRec(size)
  <2>1. PICK f \in [0..m -> Nat] :
            f[0] = 0 /\ \A i \in 1..m : f[i] = plus[<<i, f[i - 1]>>]
    <3>1. ASSUME NEW i \in 1..m, NEW a \in Nat
          PROVE  a + (bytes[i + 1] % Base) * mult[i - 1] \in Nat
      BY <1>7
    <3>2. plus \in [(1..m) \X Nat -> Nat]
      BY <3>1
    <3>3. Steps(plus, m, Nat)
      BY <3>2 DEF Steps
    <3> HIDE DEF plus, m
    <3>4. \E f : Follows(f, m, Nat, 0, plus)
      BY <1>1, <3>3, RecursionExists
    <3> QED  BY <3>4 DEF Follows
  <2>2. ASSUME NEW i \in 0..m
        PROVE  f[i] = SizeRec(f)[i]
    <3>1. CASE i = 0
      BY <1>1, <2>1, <3>1
    <3>2. CASE i # 0
      <4>1. i \in 1..m /\ i - 1 \in 0..m
        BY <1>1, <3>2
      <4>2. <<i, f[i - 1]>> \in (1..m) \X Nat
        BY <4>1
      <4>3. f[i] = plus[<<i, f[i - 1]>>]
        BY <2>1, <4>1
      <4> QED  BY <3>2, <4>2, <4>3
    <3> QED  BY <3>1, <3>2
  <2>3. f = [i \in 0..m |-> f[i]] /\ SizeRec(f) = [i \in 0..m |-> SizeRec(f)[i]]
    OBVIOUS
  <2>4. f = SizeRec(f)
    BY <2>2, <2>3
  <2> HIDE DEF SizeRec
  <2> QED  BY <2>4
<1> HIDE DEF size
<1>9. size = [i \in 0..m |-> size[i]] /\ size[0] = 0
  BY <1>1, <1>8
<1>10. \A i \in 1..m : size[i] = size[i - 1] + (bytes[i + 1] % Base) * mult[i - 1]
  BY <1>1, <1>8
<1>11. \A i \in 0..m : size[i] \in Nat
  <2>1. \A i \in 1..m : size[i - 1] \in Nat => size[i] \in Nat
    BY <1>7, <1>10
  <2> HIDE DEF m
  <2> QED  BY <1>1, <1>9, <2>1, RecursionType
<1>12. mult \in [0..m -> Nat] /\ size \in [0..m -> Nat]
  BY <1>4, <1>6, <1>9, <1>11
<1>13. Measured(mult, size, bytes, last)
  BY <1>2, <1>4, <1>5, <1>9, <1>10, <1>12 DEF Measured
<1> QED  BY <1>13

\* bytes starts with the header of e.
StartsHeader(bytes, e, k) ==
    /\ k + 1 <= Len(bytes)
    /\ \A i \in 1..k + 1 : bytes[i] = e[i]

\* Its last digit is found, and the digits give the length of the packet.
LEMMA HeaderRead ==
    ASSUME NEW packet \in Wholes, NEW k, NEW e, Shaped(e, packet, k),
           NEW bytes \in Seq(Byte), StartsHeader(bytes, e, k)
    PROVE  LastDigit(bytes) = {k + 1} /\ PacketLength(bytes, k + 1) = Len(e)
<1> DEFINE n == Len(packet.rest)
           rest(i) == Sizes(n)[i]
<1>1. n \in Nat /\ MaxDigits \in Nat /\ Base \in Nat /\ Base > 1
  <2>1. packet.rest \in Seq(Byte)
    BY DEF Wholes
  <2> QED  BY <2>1, CodecAssumption
<1>2. /\ k \in 1..MaxDigits /\ k \in Nat /\ k > 0 /\ k <= MaxDigits /\ rest(k) = 0
      /\ Len(e) = 1 + k + n
      /\ \A i \in 2..k : e[i] >= Base
      /\ e[k + 1] < Base
      /\ \A i \in 1..k : e[i + 1] % Base = rest(i - 1) % Base
  <2>1. /\ k \in 1..MaxDigits /\ rest(k) = 0
        /\ \A i \in 2..k : e[i] >= Base
        /\ e[k + 1] < Base
    BY DEF Shaped
  <2>2. Len(e) = 1 + k + n
    BY DEF Shaped
  <2>3. \A i \in 1..k : e[i + 1] % Base = rest(i - 1) % Base
    BY DEF Shaped
  <2> HIDE DEF n, rest
  <2> QED  BY <1>1, <2>1, <2>2, <2>3
<1>3. rest(0) = n /\ \A i \in 1..k : rest(i - 1) \in Nat /\ rest(i) = rest(i - 1) \div Base
  <2>1. Sizes(n)[0] = n
    BY <1>1, SizesRecursion
  <2>2. ASSUME NEW i \in 1..k
        PROVE  rest(i - 1) \in Nat /\ rest(i) = rest(i - 1) \div Base
    <3>1. i \in 1..MaxDigits /\ i - 1 \in 0..MaxDigits
      BY <1>1, <1>2
    <3>2. Sizes(n) \in [0..MaxDigits -> Nat] /\ Sizes(n)[i] = Sizes(n)[i - 1] \div Base
      BY <1>1, <3>1, SizesRecursion
    <3> QED  BY <3>1, <3>2
  <2> QED  BY <2>1, <2>2
<1> HIDE DEF n, rest
<1>4. \A i \in 1..Len(bytes) : bytes[i] \in Nat
  BY <1>1 DEF Byte
<1>5. LastDigit(bytes) = {k + 1}
  <2>1. k + 1 \in LastDigit(bytes)
    <3>1. k + 1 \in 2..Len(bytes) /\ bytes[k + 1] < Base
      BY <1>2 DEF StartsHeader
    <3>2. ASSUME NEW j \in 2..(k + 1) - 1
          PROVE  bytes[j] >= Base
      <4>1. j \in 2..k /\ j \in 1..k + 1
        BY <1>2
      <4> QED  BY <1>2, <4>1 DEF StartsHeader
    <3> QED  BY <3>1, <3>2 DEF LastDigit
  <2>2. ASSUME NEW i \in LastDigit(bytes)
        PROVE  i = k + 1
    <3>1. i \in 2..Len(bytes) /\ bytes[i] < Base /\ \A j \in 2..i - 1 : bytes[j] >= Base
      BY DEF LastDigit
    <3>2. CASE i < k + 1
      <4>1. i \in 2..k /\ i \in 1..k + 1 /\ bytes[i] \in Nat
        BY <1>2, <1>4, <3>1, <3>2
      <4>2. bytes[i] >= Base
        BY <1>2, <4>1 DEF StartsHeader
      <4> QED  BY <1>1, <3>1, <4>1, <4>2
    <3>3. CASE i > k + 1
      <4>1. k + 1 \in 2..i - 1 /\ k + 1 \in 1..k + 1 /\ k + 1 \in 1..Len(bytes)
        BY <1>2, <3>1, <3>3
      <4>2. bytes[k + 1] >= Base /\ bytes[k + 1] < Base /\ bytes[k + 1] \in Nat
        BY <1>2, <1>4, <3>1, <4>1 DEF StartsHeader
      <4> QED  BY <1>1, <4>2
    <3> QED  BY <1>2, <3>1, <3>2, <3>3
  <2> QED  BY <2>1, <2>2
<1>6. k + 1 \in 2..Len(bytes) /\ (k + 1) - 1 = k
  BY <1>2 DEF StartsHeader
<1>7. PICK mult, size : Measured(mult, size, bytes, k + 1)
  BY <1>6, PacketLengthRecursion
<1>8. /\ mult \in [0..k -> Nat] /\ mult[0] = 1
      /\ \A i \in 1..k : mult[i] = mult[i - 1] * Base
      /\ size \in [0..k -> Nat] /\ size[0] = 0
      /\ \A i \in 1..k : size[i] = size[i - 1] + (bytes[i + 1] % Base) * mult[i - 1]
      /\ PacketLength(bytes, k + 1) = (k + 1) + size[k]
  BY <1>6, <1>7 DEF Measured
\* What has been read and what is left make up the length.
<1> DEFINE V == {i \in 0..k : size[i] + rest(i) * mult[i] = n}
<1>9. 0 \in V
  BY <1>1, <1>2, <1>3, <1>8
<1>10. ASSUME NEW i \in 0..k, i \in V, i < k
       PROVE  i + 1 \in V
  <2> DEFINE a == rest(i)
             b == mult[i]
             c == size[i]
             q == a \div Base
             r == a % Base
  <2>1. i + 1 \in 1..k /\ (i + 1) - 1 = i
    BY <1>2, <1>10
  <2>2. a \in Nat /\ b \in Nat /\ c \in Nat /\ c + a * b = n
    BY <1>3, <1>8, <1>10, <2>1
  <2>3. rest(i + 1) = q
    BY <1>3, <2>1
  <2>4. mult[i + 1] = b * Base
    BY <1>8, <2>1
  <2>5. bytes[(i + 1) + 1] % Base = r
    <3>1. (i + 1) + 1 \in 1..k + 1
      BY <1>2, <2>1
    <3>2. bytes[(i + 1) + 1] = e[(i + 1) + 1]
      BY <3>1 DEF StartsHeader
    <3>3. e[(i + 1) + 1] % Base = rest((i + 1) - 1) % Base
      BY <1>2, <2>1
    <3> QED  BY <2>1, <3>2, <3>3
  <2>6. size[i + 1] = c + r * b
    BY <1>8, <2>1, <2>5
  <2>7. q \in Nat /\ r \in 0..Base - 1 /\ a = Base * q + r
    BY <2>2, DivMod
  <2> HIDE DEF a, b, c, q, r
  <2>8. (c + r * b) + q * (b * Base) = c + a * b
    <3>1. r \in Nat
      BY <1>1, <2>7
    <3>2. a * b = (Base * q) * b + r * b
      BY <1>1, <2>2, <2>7, <3>1
    <3>3. (Base * q) * b = q * (b * Base)
      BY <1>1, <2>2, <2>7
    <3> DEFINE x == q * (b * Base)
               y == r * b
    <3>4. x \in Nat /\ y \in Nat /\ a * b = x + y
      BY <1>1, <2>2, <2>7, <3>1, <3>2, <3>3
    <3> HIDE DEF x, y
    <3>5. (c + y) + x = c + a * b
      BY <2>2, <3>4
    <3> QED  BY <3>5 DEF x, y
  <2>9. size[i + 1] + rest(i + 1) * mult[i + 1] = n
    BY <2>2, <2>3, <2>4, <2>6, <2>8
  <2> QED  BY <2>1, <2>9
<1> HIDE DEF V
<1>11. k \in V
  <2>1. \A i \in 0..k : i \in V
    BY <1>2, <1>9, <1>10, UpTo
  <2> QED  BY <1>2, <2>1
<1>12. size[k] = n
  <2>1. size[k] + 0 * mult[k] = n /\ size[k] \in Nat /\ mult[k] \in Nat
    BY <1>2, <1>8, <1>11 DEF V
  <2> QED  BY <2>1
<1>13. PacketLength(bytes, k + 1) = Len(e)
  BY <1>1, <1>2, <1>8, <1>12
<1> QED  BY <1>5, <1>13

\* fb_mqtt_message_new_bytes undoes fb_mqtt_message_bytes.
LEMMA DecodedEncoded ==
    ASSUME NEW packet \in Wholes, Encodable(packet)
    PROVE  Decoded(Encoded(packet)) = packet
<1> DEFINE e == Encoded(packet)
           k == Digits(Len(packet.rest))
           n == Len(packet.rest)
           r == SubSeq(e, k + 2, Len(e))
<1>1. Shaped(e, packet, k)
  BY EncodedShape
<1>2. packet.rest \in Seq(Byte) /\ n \in Nat /\ MaxDigits \in Nat
  <2>1. packet.rest \in Seq(Byte)
    BY DEF Wholes
  <2> QED  BY <2>1, CodecAssumption
<1> HIDE DEF e, k
<1>3. /\ k \in 1..MaxDigits /\ e \in Seq(Byte) /\ Len(e) = 1 + k + n
      /\ e[1] = packet.head
      /\ \A j \in 1..n : e[1 + k + j] = packet.rest[j]
  BY <1>1 DEF Shaped
<1> HIDE DEF n
<1>4. k \in Nat /\ k > 0
  BY <1>2, <1>3
<1>5. StartsHeader(e, e, k)
  BY <1>2, <1>3, <1>4 DEF StartsHeader
<1>6. LastDigit(e) = {k + 1}
  BY <1>1, <1>3, <1>5, HeaderRead
<1>7. (CHOOSE i \in LastDigit(e) : TRUE) = k + 1
  BY <1>6
<1>8. r = packet.rest
  <2>1. /\ r \in Seq(Byte) /\ Len(r) = n
        /\ \A j \in 1..n : r[j] = e[1 + k + j]
    <3>1. \A i \in k + 2..Len(e) : e[i] \in Byte
      BY <1>2, <1>3, <1>4
    <3>2. k + 2 \in Int /\ Len(e) \in Int
      BY <1>2, <1>3, <1>4
    <3>3. /\ r \in Seq(Byte)
          /\ Len(r) = IF k + 2 <= Len(e) THEN Len(e) - (k + 2) + 1 ELSE 0
          /\ \A i \in 1..Len(e) - (k + 2) + 1 : r[i] = e[(k + 2) + i - 1]
      BY <3>1, <3>2, SubSeqProperties
    <3>4. Len(e) - (k + 2) + 1 = n /\ \A i \in 1..n : (k + 2) + i - 1 = 1 + k + i
      BY <1>2, <1>3, <1>4
    <3>5. Len(r) = n
      BY <1>2, <1>3, <1>4, <3>3
    <3> QED  BY <3>3, <3>4, <3>5
  <2> HIDE DEF r
  <2>2. \A j \in 1..Len(r) : r[j] = packet.rest[j]
    BY <1>3, <2>1
  <2>3. Len(r) = Len(packet.rest)
    BY <2>1 DEF n
  <2> QED  BY <1>2, <2>1, <2>2, <2>3, SeqEqual
<1>9. Decoded(e) = [head |-> e[1], rest |-> r]
  <2>1. (k + 1) + 1 = k + 2
    BY <1>4
  <2> QED  BY <1>7, <2>1 DEF Decoded
<1>10. packet = [head |-> packet.head, rest |-> packet.rest]
  BY DEF Wholes
<1> QED  BY <1>3, <1>8, <1>9, <1>10 DEF e

-----------------------------------------------------------------------------
(* The output queue.                                                       *)

\* The pushes and their answers.
Tasks ==
    /\ pushed \in Seq(Data)
    /\ queue \in Seq(Push)
    /\ current \in Push \cup {0}
    /\ result \in Seq({"none", "ok", "failed"}) /\ Len(result) = Len(pushed)

Ordered ==
    /\ \A i, j \in 1..Len(queue) : i < j => queue[i] < queue[j]
    /\ \A i \in 1..Len(queue) : current < queue[i]

Idle == closer = "done" => ~pending

QueueInv == Tasks /\ Ordered /\ NoneForgotten /\ Idle

\* The queue starts empty, and nothing is pending.
LEMMA InitQueue == Init => QueueInv
<1> SUFFICES ASSUME Init  PROVE QueueInv
  OBVIOUS
<1> USE DEF Init, OutInit
<1>1. Push = {} /\ Queued = {}
  BY DEF Push, Queued
<1>2. Tasks
  BY <1>1 DEF Tasks
<1>3. Ordered
  BY DEF Ordered
<1>4. NoneForgotten /\ Idle
  BY <1>1 DEF NoneForgotten, Idle
<1> QED  BY <1>2, <1>3, <1>4 DEF QueueInv

\* A push is the newest: it is written at once or goes to the end of the queue.
LEMMA PushQueue ==
    ASSUME QueueInv, NEW data \in Data, PushBytes(data)
    PROVE  QueueInv'
<1> USE DEF QueueInv, Tasks, Ordered, NoneForgotten, Idle, Push, Queued
<1>1. pushed' \in Seq(Data) /\ Len(pushed') = Len(pushed) + 1 /\ Len(pushed) \in Nat
  BY DEF PushBytes
<1>2. Push' = Push \cup {Len(pushed) + 1}
  BY <1>1
<1>3. result' \in Seq({"none", "ok", "failed"}) /\ Len(result') = Len(pushed')
  BY <1>1 DEF PushBytes
<1>4. \A p \in Push : result'[p] = result[p]
  BY <1>1 DEF PushBytes
<1>5. result'[Len(pushed) + 1] = "none"
  BY <1>1 DEF PushBytes
<1>6. CASE ~pending
  <2>1. queue' = <<>> /\ current' = Len(pushed) + 1 /\ pending' = TRUE /\ pending_queued' = TRUE
    BY <1>6 DEF PushBytes
  <2>2. closer' = closer /\ closer = "none"
    BY DEF PushBytes
  <2>3. Tasks' /\ Ordered' /\ Idle'
    BY <1>1, <1>3, <2>1, <2>2
  <2>4. NoneForgotten'
    BY <1>1, <1>2, <1>4, <1>5, <1>6, <2>1
  <2> QED  BY <2>3, <2>4
<1>7. CASE pending
  <2>1. /\ queue' = Append(queue, Len(pushed) + 1)
        /\ current' = current /\ pending' = pending /\ pending_queued' = pending_queued
    BY <1>7 DEF PushBytes
  <2>2. closer' = closer /\ closer = "none"
    BY DEF PushBytes
  <2>3. Tasks'
    BY <1>1, <1>3, <2>1
  <2>4. Ordered' /\ Idle'
    BY <1>1, <2>1, <2>2
  <2>5. Queued' = Queued \cup {Len(pushed) + 1}
    BY <1>1, <2>1
  <2>6. NoneForgotten'
    BY <1>1, <1>2, <1>4, <1>5, <1>7, <2>1, <2>5
  <2> QED  BY <2>3, <2>4, <2>6
<1> QED  BY <1>6, <1>7

\* The push written has been answered and the next one is taken.
LEMMA TakeQueue ==
    ASSUME QueueInv, current # 0, TakeNext(queue),
           UNCHANGED <<pushed, closer>>,
           result' \in Seq({"none", "ok", "failed"}), Len(result') = Len(result),
           result'[current] # "none",
           \A p \in Push \ {current} : result'[p] = result[p]
    PROVE  QueueInv'
<1> USE DEF QueueInv, Tasks, Ordered, NoneForgotten, Idle, Push, Queued
<1>1. CASE queue = <<>>
  BY <1>1 DEF TakeNext
<1>2. CASE queue # <<>>
  <2>1. /\ current' = queue[1] /\ queue' = Tail(queue)
        /\ pending' = pending /\ pending_queued' = pending_queued
    BY <1>2 DEF TakeNext
  <2>2. /\ Len(queue) \in Nat /\ Len(queue) > 0 /\ Len(queue') = Len(queue) - 1
        /\ \A i \in 1..Len(queue') : queue'[i] = queue[i + 1]
        /\ queue' \in Seq(Push)
    BY <1>2, <2>1
  <2>3. Tasks' /\ Ordered' /\ Idle'
    BY <2>1, <2>2
  <2>4. Queued = Queued' \cup {current'}
    <3>1. ASSUME NEW i \in 1..Len(queue)
          PROVE  queue[i] \in Queued' \cup {current'}
      <4>1. CASE i = 1
        BY <4>1, <2>1
      <4>2. CASE i # 1
        <5>1. i - 1 \in 1..Len(queue') /\ queue'[i - 1] = queue[i]
          BY <4>2, <2>2
        <5> QED  BY <5>1
      <4> QED  BY <4>1, <4>2
    <3>2. ASSUME NEW i \in 1..Len(queue')
          PROVE  queue'[i] \in Queued
      <4>1. i + 1 \in 1..Len(queue) /\ queue'[i] = queue[i + 1]
        BY <2>2
      <4> QED  BY <4>1
    <3>3. current' \in Queued
      BY <2>1, <2>2
    <3>4. Queued \subseteq Queued' \cup {current'}
      BY <3>1 DEF Queued
    <3>5. Queued' \subseteq Queued
      BY <3>2 DEF Queued
    <3> QED  BY <3>3, <3>4, <3>5, Zenon
  <2>5. current \notin Queued
    BY <2>2
  <2>6. ASSUME NEW p \in Push
        PROVE  result'[p] = "none" <=> p = current' \/ p \in Queued'
    <3>1. CASE p = current
      BY <2>4, <2>5, <3>1
    <3>2. CASE p # current
      <4>1. result'[p] = result[p] /\ (result[p] = "none" <=> p \in Queued)
        BY <3>2
      <4> QED  BY <2>4, <4>1
    <3> QED  BY <3>1, <3>2
  <2>7. Push' = Push
    OBVIOUS
  <2>8. pending /\ current' # 0
    BY <2>1, <2>2
  <2>9. NoneForgotten'
    BY <2>1, <2>6, <2>7, <2>8
  <2> QED  BY <2>3, <2>9
<1> QED  BY <1>1, <1>2

\* The queue is cleared.
LEMMA ClearedQueue ==
    ASSUME QueueInv, NEW dead \in SUBSET Push, Queued \subseteq dead,
           result' = Failed(dead), queue' = <<>>,
           UNCHANGED <<pushed, closer>>,
           \/ /\ dead = Queued
              /\ UNCHANGED <<current, pending, pending_queued>>
           \/ /\ dead = Queued \cup {current} 
              /\ current' = 0 /\ pending' = FALSE /\ pending_queued' = FALSE
    PROVE  QueueInv'
<1> USE DEF QueueInv, Tasks, Ordered, NoneForgotten, Idle, Push, Queued
<1>0. /\ Len(pushed) \in Nat
      /\ result' \in [1..Len(pushed) -> {"none", "ok", "failed"}]
  BY DEF Failed
<1>1. /\ result' \in Seq({"none", "ok", "failed"}) /\ Len(result') = Len(pushed)
      /\ \A p \in dead : result'[p] = "failed"
      /\ \A p \in Push \ dead : result'[p] = result[p]
  BY <1>0, SeqDef DEF Failed
<1>2. Tasks' /\ Ordered' /\ Idle'
  BY <1>1
<1>3. Queued' = {}
  OBVIOUS
<1>4. current \notin Queued
  OBVIOUS
<1>5. ASSUME NEW p \in Push
      PROVE  result'[p] = "none" <=> p = current'
  <2>1. CASE p \in dead
    BY <1>1, <1>4, <2>1
  <2>2. CASE p \notin dead
    BY <1>1, <2>2
  <2> QED  BY <2>1, <2>2
<1>6. Push' = Push
  OBVIOUS
<1>7. NoneForgotten'
  BY <1>3, <1>5, <1>6
<1> QED  BY <1>2, <1>7

\* Every step keeps the queue in order and forgets no push.
LEMMA NextQueue == QueueInv /\ [Next]_wireVars => QueueInv'
<1> SUFFICES ASSUME QueueInv, [Next]_wireVars
             PROVE  QueueInv'
  OBVIOUS
<1> USE DEF QueueInv, Tasks
<1>1. ASSUME UNCHANGED outVars
      PROVE  QueueInv'
  BY <1>1 DEF outVars, Ordered, NoneForgotten, Idle, Push, Queued
<1>2. ASSUME NEW packet \in Packets, Write(packet)
      PROVE  QueueInv'
  <2>1. Encoded(packet) \in Data /\ PushBytes(Encoded(packet))
    BY <1>2, WireAssumption DEF Write
  <2> QED  BY <2>1, PushQueue
<1>3. CASE Close
  BY <1>3 DEF Close, Ordered, NoneForgotten, Idle, Push, Queued
<1>4. CASE GracefulCloseCb
  BY <1>4 DEF GracefulCloseCb, Ordered, NoneForgotten, Idle, Push, Queued
<1>5. ASSUME NEW p \in owed, Callback(p)
      PROVE  QueueInv'
  <2>1. Queued \subseteq Push
    BY DEF Queued
  <2> QED  BY <1>5, <2>1, ClearedQueue DEF Callback
<1>6. CASE WriteFailed
  <2>1. Queued \subseteq Push /\ current \in Push
    BY <1>6 DEF Queued, WriteFailed
  <2>2. /\ queue' = <<>> /\ current' = 0 /\ pending' = FALSE /\ pending_queued' = FALSE
        /\ result' = Failed(Queued \cup {current}) /\ UNCHANGED <<pushed, closer>>
    <3>1. {current} \cup Queued = Queued \cup {current}
      OBVIOUS
    <3> QED  BY <1>6, <3>1 DEF WriteFailed, TakeNext
  <2> QED  BY <2>1, <2>2, ClearedQueue
<1>7. ASSUME NEW n \in 1..Len(left), Written(n)
      PROVE  QueueInv'
  <2>1. CASE n < Len(left)
    <3>1. UNCHANGED <<pushed, queue, current, pending, pending_queued, result, closer>>
      BY <1>7, <2>1 DEF Written
    <3> QED  BY <3>1 DEF Ordered, NoneForgotten, Idle, Push, Queued
  <2>2. CASE ~(n < Len(left))
    <3>1. /\ current # 0 /\ TakeNext(queue) /\ UNCHANGED <<pushed, closer>>
          /\ result' = [result EXCEPT ![current] = "ok"]
      BY <1>7, <2>2 DEF Written
    <3>2. /\ result' \in Seq({"none", "ok", "failed"}) /\ Len(result') = Len(result)
          /\ result'[current] # "none"
          /\ \A p \in Push \ {current} : result'[p] = result[p]
      BY <3>1 DEF Push
    <3> QED  BY <3>1, <3>2, TakeQueue
  <2> QED  BY <2>1, <2>2
<1>8. CASE Stream
  BY <1>3, <1>4, <1>5, <1>6, <1>7, <1>8 DEF Stream, OutSteps, WriteEnds
<1>9. CASE Read
  BY <1>1, <1>9 DEF Read, CbFill, CbReadPacket
<1> QED
  BY <1>1, <1>2, <1>8, <1>9 DEF Next, wireVars

\* The closer waits until nothing is pending, and so until nothing is unanswered.
LEMMA QueueInvWaits == QueueInv => CloseWaits
BY DEF QueueInv, Tasks, NoneForgotten, Idle, CloseWaits, Queued, Push

-----------------------------------------------------------------------------
(* The bytes on the wire.                                                  *)

\* What the stream below has taken is the beginning of what was pushed.
Carried ==
    /\ wire \in Seq(Byte)
    /\ Len(wire) <= EndOf(pushed, Len(pushed))
    /\ \A i \in 1..Len(wire) : wire[i] = FlattenSeq(pushed)[i]

\* A push that ends where the wire ends, and was cancelled.
Cut(p) == closer # "none" /\ base # "open" /\ Len(wire) = EndOf(pushed, p)

\* A push is reported as done exactly if the wire reaches its end, unless it was
\* cancelled on the way there.
Answered ==
    \A p \in Push :
        /\ result[p] = "ok" => EndOf(pushed, p) <= Len(wire)
        /\ EndOf(pushed, p) <= Len(wire) => result[p] = "ok" \/ Cut(p)

\* left is the end of the push under way that is not on the wire.
Missing ==
    /\ 0 < Len(left) /\ Len(left) <= Len(pushed[current])
    /\ Len(wire) + Len(left) = EndOf(pushed, current)
    /\ \A i \in 1..Len(left) :
          left[i] = pushed[current][Len(pushed[current]) - Len(left) + i]

\* As long as the stream below works, nothing has failed.
Working ==
    /\ \A p \in Push : result[p] # "failed"
    /\ current # 0 => Missing

OwedFailed == \A p \in owed : p \in Push /\ result[p] = "failed"

WireInv ==
    /\ Carried /\ Answered /\ OwedFailed
    /\ left \in Seq(Byte)
    /\ base = "open" => Working

\* What is pushed are bytes, at least one.
LEMMA DataBytes == \A d \in Data : d \in Seq(Byte) /\ Len(d) \in Nat /\ Len(d) > 0
<1> SUFFICES ASSUME NEW d \in Data
             PROVE  d \in Seq(Byte) /\ Len(d) \in Nat /\ Len(d) > 0
  OBVIOUS
<1>1. PICK packet \in Packets : Encodable(packet) /\ d = Encoded(packet)
  BY WireAssumption
<1>2. packet \in Wholes
  BY WireAssumption DEF Wholes
<1>3. Shaped(d, packet, Digits(Len(packet.rest)))
  BY <1>1, <1>2, EncodedShape
<1>4. d \in Seq(Byte)
  BY <1>3 DEF Shaped
<1>5. Len(d) > 0
  BY OutputAssumption
<1> QED  BY <1>4, <1>5

\* The same of each push made so far.
LEMMA PushedBytes ==
    ASSUME pushed \in Seq(Data)
    PROVE  /\ pushed \in Seq(Seq(Byte)) /\ Len(pushed) \in Nat
           /\ \A p \in Push : /\ pushed[p] \in Seq(Byte) /\ Len(pushed[p]) \in Nat
                              /\ Len(pushed[p]) > 0
<1>1. Data \subseteq Seq(Byte)
  BY DataBytes
<1>2. pushed \in Seq(Seq(Byte))
  BY <1>1, SeqMonotonic
<1>3. \A p \in Push : pushed[p] \in Data
  BY DEF Push
<1> QED  BY <1>2, <1>3, DataBytes

\* Pushes are not empty, so a later one ends later.
LEMMA EndLess ==
    ASSUME pushed \in Seq(Data), NEW p \in 0..Len(pushed), NEW q \in 1..Len(pushed), p < q
    PROVE  EndOf(pushed, p) < EndOf(pushed, q)
<1>1. /\ pushed \in Seq(Seq(Byte)) /\ Len(pushed) \in Nat
      /\ Len(pushed[q]) \in Nat /\ Len(pushed[q]) > 0
  BY PushedBytes DEF Push
<1>2. q - 1 \in 0..Len(pushed) /\ p <= q - 1
  BY <1>1
<1>3. EndOf(pushed, p) <= EndOf(pushed, q - 1) /\ EndOf(pushed, p) \in Nat
  BY <1>1, <1>2, EndsAscend, EndType
<1>4. EndOf(pushed, q - 1) \in Nat /\ EndOf(pushed, q) = EndOf(pushed, q - 1) + Len(pushed[q])
  BY <1>1, EndNext
<1> QED  BY <1>1, <1>3, <1>4

\* Nothing is pushed and nothing is on the wire.
LEMMA WireInit == Init => WireInv
<1> SUFFICES ASSUME Init  PROVE WireInv
  OBVIOUS
<1>1. /\ pushed = <<>> /\ current = 0 /\ left = <<>> /\ owed = {} /\ base = "open"
      /\ wire = <<>> /\ Len(pushed) = 0 /\ Len(wire) = 0
  BY DEF Init, OutInit
<1>2. Push = {}
  BY <1>1 DEF Push
<1>3. pushed \in Seq(Seq(Byte)) /\ wire \in Seq(Byte) /\ left \in Seq(Byte)
  BY <1>1
<1>4. EndOf(pushed, 0) = 0
  BY <1>3, EndStart
<1>5. Carried
  BY <1>1, <1>3, <1>4 DEF Carried
<1> QED
  BY <1>1, <1>2, <1>3, <1>5 DEF WireInv, Answered, OwedFailed, Working

\* A step that leaves the pushes, the answers and the wire alone.
LEMMA WireKept ==
    ASSUME WireInv, UNCHANGED <<pushed, current, left, result, owed, base, wire>>,
           closer # "none" => closer' # "none"
    PROVE  WireInv'
<1>1. Answered'
  BY DEF WireInv, Answered, Cut, Push
<1> QED  BY <1>1 DEF WireInv, Carried, OwedFailed, Working, Missing, Push

\* A push that waits has no answer.
LEMMA Unanswered ==
    ASSUME QueueInv
    PROVE  \A q \in Queued : q \in Push /\ result[q] = "none"
BY DEF QueueInv, Tasks, NoneForgotten, Queued, Push

\* Nothing is cut short while the stream below works and before the owner closes.
LEMMA Uncut ==
    ASSUME WireInv, base = "open" \/ closer = "none", NEW p \in Push
    PROVE  result[p] = "ok" <=> EndOf(pushed, p) <= Len(wire)
BY DEF WireInv, Answered, Cut

\* While the stream below works, the wire ends within the push under way, or at
\* the end of all pushes.
LEMMA Behind ==
    ASSUME QueueInv, WireInv, base = "open"
    PROVE  /\ \A p \in Push : current # 0 /\ p < current => result[p] = "ok"
           /\ current = 0 => Len(wire) = EndOf(pushed, Len(pushed))
<1> USE DEF QueueInv, Tasks, WireInv, Working
<1>1. /\ pushed \in Seq(Seq(Byte)) /\ Len(pushed) \in Nat
      /\ \A p \in Push : result[p] \in {"none", "ok", "failed"}
  <2>1. \A p \in Push : result[p] \in {"none", "ok", "failed"}
    BY DEF Push
  <2> QED  BY <2>1, PushedBytes
<1>2. ASSUME NEW p \in Push, current # 0, p < current
      PROVE  result[p] = "ok"
  <2>1. p \notin Queued
    BY <1>2 DEF Ordered, Queued, Push
  <2>2. result[p] # "none"
    BY <1>2, <2>1 DEF NoneForgotten, Push
  <2> QED  BY <1>1, <2>2
<1>3. ASSUME current = 0
      PROVE  Len(wire) = EndOf(pushed, Len(pushed))
  <2>1. Len(wire) \in Nat /\ Len(wire) <= EndOf(pushed, Len(pushed))
    BY DEF Carried
  <2>2. EndOf(pushed, Len(pushed)) \in Nat
    BY <1>1, EndType
  <2>3. EndOf(pushed, Len(pushed)) <= Len(wire)
    <3>1. CASE Len(pushed) = 0
      <4>1. EndOf(pushed, 0) = 0
        BY <1>1, EndStart
      <4> QED  BY <2>1, <3>1, <4>1
    <3>2. CASE Len(pushed) # 0
      <4>1. Len(pushed) \in Push
        BY <1>1, <3>2 DEF Push
      <4>2. queue = <<>>
        BY <1>3 DEF NoneForgotten
      <4>3. Queued = {}
        BY <4>2 DEF Queued
      <4>4. Len(pushed) # 0 /\ current # Len(pushed)
        BY <1>3, <3>2
      <4>5. result[Len(pushed)] # "none"
        BY <4>1, <4>3, <4>4 DEF NoneForgotten
      <4>6. result[Len(pushed)] = "ok"
        BY <1>1, <4>1, <4>5
      <4> QED  BY <4>1, <4>6 DEF Answered
    <3> QED  BY <3>1, <3>2
  <2> QED  BY <2>1, <2>2, <2>3
<1> QED  BY <1>2, <1>3

\* A push adds its bytes behind all others, so that what is on the wire stays a
\* beginning of them and what is missing stays missing.
LEMMA WirePush ==
    ASSUME QueueInv, WireInv, NEW data \in Data, PushBytes(data)
    PROVE  WireInv'
<1> USE DEF QueueInv, Tasks, WireInv
<1> DEFINE N == Len(pushed)
<1>1. /\ pushed \in Seq(Seq(Byte)) /\ N \in Nat
      /\ \A p \in Push : pushed[p] \in Seq(Byte)
  BY PushedBytes
<1>2. data \in Seq(Byte) /\ Len(data) \in Nat /\ Len(data) > 0
  BY DataBytes
<1>3. /\ pushed' = Append(pushed, data) /\ result' = Append(result, "none")
      /\ UNCHANGED <<owed, base, wire>>
  BY DEF PushBytes
<1>4. /\ Len(pushed') = N + 1
      /\ \A p \in Push : pushed'[p] = pushed[p]
      /\ pushed'[N + 1] = data
  BY <1>1, <1>2, <1>3 DEF Push
<1>5. /\ \A p \in 0..N : EndOf(pushed', p) = EndOf(pushed, p)
      /\ EndOf(pushed', N + 1) = EndOf(pushed, N) + Len(data)
      /\ \A i \in 1..EndOf(pushed, N) : FlattenSeq(pushed')[i] = FlattenSeq(pushed)[i]
  BY <1>1, <1>2, <1>3, EndAppend
<1>6. EndOf(pushed, N) \in Nat /\ Len(wire) \in Nat /\ Len(wire) <= EndOf(pushed, N)
  BY <1>1, EndType DEF Carried
<1>7. /\ Push' = Push \cup {N + 1}
      /\ \A p \in Push : p \in 0..N /\ result'[p] = result[p]
      /\ result'[N + 1] = "none"
  BY <1>1, <1>3, <1>4 DEF Push
<1> HIDE DEF N
<1>8. Carried'
  <2>1. Len(wire') <= EndOf(pushed', Len(pushed'))
    BY <1>2, <1>3, <1>4, <1>5, <1>6
  <2>2. \A i \in 1..Len(wire) : i \in 1..EndOf(pushed, N)
    BY <1>6
  <2>3. \A i \in 1..Len(wire') : wire'[i] = FlattenSeq(pushed')[i]
    BY <1>3, <1>5, <2>2 DEF Carried
  <2> QED  BY <1>3, <2>1, <2>3 DEF Carried
<1>9. Answered'
  <2>1. ASSUME NEW p \in Push
        PROVE  result'[p] = "ok" <=> EndOf(pushed', p) <= Len(wire')
    <3>1. EndOf(pushed', p) = EndOf(pushed, p) /\ result'[p] = result[p] /\ wire' = wire
      BY <1>3, <1>5, <1>7
    <3>2. closer = "none"
      BY DEF PushBytes
    <3> QED  BY <3>1, <3>2, Uncut
  <2>2. ~ (EndOf(pushed', N + 1) <= Len(wire'))
    BY <1>2, <1>3, <1>5, <1>6
  <2> QED  BY <1>7, <2>1, <2>2 DEF Answered
<1>10. OwedFailed'
  BY <1>3, <1>7 DEF OwedFailed
<1>11. CASE ~pending
  <2>1. current' = N + 1 /\ left' = data
    BY <1>11 DEF PushBytes, N
  <2>2. ASSUME base' = "open"
        PROVE  Working'
    <3>1. base = "open" /\ current = 0
      BY <1>3, <1>11, <2>2 DEF NoneForgotten
    <3>2. Len(wire) = EndOf(pushed, N)
      BY <3>1, Behind DEF N
    <3>3. Missing'
      <4>1. pushed'[current'] = data /\ EndOf(pushed', current') = EndOf(pushed, N) + Len(data)
        BY <1>4, <1>5, <2>1
      <4>2. Len(wire') + Len(left') = EndOf(pushed', current')
        BY <1>3, <2>1, <3>2, <4>1
      <4>3. \A i \in 1..Len(data) : Len(data) - Len(data) + i = i
        BY <1>2
      <4>4. \A i \in 1..Len(left') :
                left'[i] = pushed'[current'][Len(pushed'[current']) - Len(left') + i]
        BY <2>1, <4>1, <4>3
      <4> QED  BY <1>2, <2>1, <4>1, <4>2, <4>4 DEF Missing
    <3>4. \A p \in Push' : result'[p] # "failed"
      BY <1>7, <3>1 DEF Working
    <3> QED  BY <3>3, <3>4 DEF Working
  <2> QED  BY <1>2, <1>8, <1>9, <1>10, <2>1, <2>2
<1>12. CASE pending
  <2>1. current' = current /\ left' = left /\ current \in Push
    BY <1>12 DEF PushBytes, NoneForgotten
  <2>2. ASSUME base' = "open"
        PROVE  Working'
    <3>1. Missing
      BY <1>3, <1>12, <2>2 DEF NoneForgotten, Working
    <3>2. pushed'[current'] = pushed[current] /\ EndOf(pushed', current') = EndOf(pushed, current)
      BY <1>4, <1>5, <1>7, <2>1
    <3>3. Missing'
      BY <1>3, <2>1, <3>1, <3>2 DEF Missing
    <3>4. \A p \in Push' : result'[p] # "failed"
      BY <1>3, <1>7, <2>2 DEF Working
    <3> QED  BY <3>3, <3>4 DEF Working
  <2> QED  BY <1>8, <1>9, <1>10, <2>1, <2>2
<1> QED  BY <1>11, <1>12

\* The queue is cleared after the stream below has failed.
LEMMA WireFailed ==
    ASSUME QueueInv, WireInv, NEW dead \in SUBSET Push,
           \A p \in dead : result[p] = "none",
           result' = Failed(dead), base' # "open", UNCHANGED <<pushed, wire, closer>>,
           left' \in Seq(Byte),
           \A p \in owed' : p \in owed \/ p \in dead
    PROVE  WireInv'
<1> USE DEF QueueInv, Tasks, WireInv
<1>1. Push' = Push
  BY DEF Push
<1>2. /\ \A p \in dead : result'[p] = "failed"
      /\ \A p \in Push \ dead : result'[p] = result[p]
  BY DEF Failed
<1>3. Carried'
  BY DEF Carried
<1>4. Answered'
  <2>1. ASSUME NEW p \in Push
        PROVE  result'[p] = "ok" <=> result[p] = "ok"
    BY <1>2
  <2>2. \A p \in Push : Cut(p) => Cut(p)'
    BY DEF Cut
  <2> QED  BY <1>1, <2>1, <2>2 DEF Answered
<1>5. OwedFailed'
  BY <1>1, <1>2 DEF OwedFailed
<1> QED  BY <1>3, <1>4, <1>5

\* The wire takes n bytes of the push under way.
LEMMA WireGrows ==
    ASSUME QueueInv, WireInv, current # 0, base = "open", NEW n \in 1..Len(left),
           wire' = wire \o SubSeq(left, 1, n), pushed' = pushed
    PROVE  /\ Carried'
           /\ Len(wire') = Len(wire) + n
           /\ Len(wire') <= EndOf(pushed, current)
<1> USE DEF QueueInv, Tasks, WireInv
<1> DEFINE data == pushed[current]
           start == EndOf(pushed, current - 1)
           end == EndOf(pushed, current)
           part == SubSeq(left, 1, n)
           w == Len(wire)
<1>1. /\ pushed \in Seq(Seq(Byte)) /\ Len(pushed) \in Nat
      /\ current \in Push /\ current \in 1..Len(pushed) /\ current \in 0..Len(pushed)
      /\ data \in Seq(Byte) /\ Len(data) \in Nat
  BY PushedBytes DEF Push
<1>2. Missing
  BY DEF Working
<1>3. /\ wire \in Seq(Byte) /\ w \in Nat /\ left \in Seq(Byte) /\ Len(left) \in Nat
      /\ n \in Nat /\ n > 0 /\ n <= Len(left)
  BY DEF Carried
<1>4. start \in Nat /\ end = start + Len(data) /\ end \in Nat
  BY <1>1, EndNext, EndType
<1>5. /\ Len(left) <= Len(data) /\ w + Len(left) = end
      /\ \A i \in 1..Len(left) : left[i] = data[Len(data) - Len(left) + i]
  BY <1>2 DEF Missing
<1>6. part \in Seq(Byte) /\ Len(part) = n /\ \A i \in 1..n : part[i] = left[i]
  BY <1>3
<1>7. end <= EndOf(pushed, Len(pushed)) /\ EndOf(pushed, Len(pushed)) \in Nat
  <2>1. Len(pushed) \in 0..Len(pushed) /\ current <= Len(pushed)
    BY <1>1
  <2> QED  BY <1>1, <2>1, EndsAscend, EndType
<1>8. \A i \in 1..w : wire[i] = FlattenSeq(pushed)[i]
  BY DEF Carried
<1>9. \A k \in 1..Len(data) : FlattenSeq(pushed)[start + k] = data[k]
  BY <1>1, FlattenPlace
<1>10. wire' = wire \o part
  OBVIOUS
<1> HIDE DEF data, start, end, part, w
<1>11. /\ wire' \in Seq(Byte) /\ Len(wire') = w + n
       /\ \A i \in 1..w + n : wire'[i] = IF i <= w THEN wire[i] ELSE part[i - w]
  BY <1>3, <1>6, <1>10, ConcatProperties DEF w
<1>12. w + n <= end /\ w + n <= EndOf(pushed, Len(pushed))
  BY <1>3, <1>4, <1>5, <1>7
<1>13. ASSUME NEW i \in 1..w + n
       PROVE  wire'[i] = FlattenSeq(pushed)[i]
  <2>1. CASE i <= w
    <3>1. i \in 1..w
      BY <1>3, <2>1
    <3> QED  BY <1>8, <1>11, <2>1, <3>1
  <2>2. CASE ~ (i <= w)
    <3> DEFINE j == i - w
               k == Len(data) - Len(left) + j
    <3>1. j \in 1..n /\ j \in 1..Len(left) /\ k \in 1..Len(data) /\ start + k = i
      <4> DEFINE dl == Len(data)
                 ll == Len(left)
      <4>1. /\ dl \in Nat /\ ll \in Nat /\ w \in Nat /\ n \in Nat /\ n <= ll /\ start \in Nat
            /\ end = start + dl /\ ll <= dl /\ w + ll = end /\ i \in 1..w + n /\ ~ (i <= w)
        BY <1>1, <1>3, <1>4, <1>5, <2>2
      <4> HIDE DEF dl, ll
      <4>2. i - w \in 1..n
        BY <4>1
      <4>3. i - w \in 1..ll
        BY <4>1
      <4>4. dl - ll + (i - w) \in 1..dl /\ start + (dl - ll + (i - w)) = i
        BY <4>1
      <4> QED  BY <4>2, <4>3, <4>4 DEF dl, ll
    <3>2. wire'[i] = part[j]
      BY <1>11, <2>2
    <3> HIDE DEF j
    <3>3. part[j] = data[k]
      BY <1>5, <1>6, <3>1
    <3> HIDE DEF k
    <3>4. FlattenSeq(pushed)[start + k] = data[k]
      BY <1>9, <3>1
    <3> QED  BY <3>1, <3>2, <3>3, <3>4
  <2> QED  BY <2>1, <2>2
<1>14. Carried'
  BY <1>11, <1>12, <1>13 DEF Carried
<1> QED  BY <1>11, <1>12, <1>14 DEF w, end

\* The push under way is cancelled after the stream below has taken n bytes of it.
LEMMA WireCut ==
    ASSUME QueueInv, WireInv, current # 0, base = "open", NEW n \in 1..Len(left),
           wire' = wire \o SubSeq(left, 1, n), UNCHANGED <<pushed, closer>>,
           closer # "none", base' # "open", result' = Failed({current} \cup Queued),
           left' \in Seq(Byte),
           \A p \in owed' : p \in owed \/ p \in {current} \cup Queued
    PROVE  WireInv'
<1> USE DEF QueueInv, Tasks, WireInv
<1> DEFINE end == EndOf(pushed, current)
           w == Len(wire)
           w1 == Len(wire')
<1>1. /\ pushed \in Seq(Seq(Byte)) /\ Len(pushed) \in Nat
      /\ current \in Push /\ current \in 0..Len(pushed) /\ current \in Nat
      /\ Push' = Push
  BY PushedBytes DEF Push
<1>2. /\ Carried' /\ w1 = w + n /\ w1 <= end
      /\ w \in Nat /\ n \in Nat /\ end \in Nat /\ w1 \in Nat
  <2>1. w \in Nat /\ n \in Nat
    BY DEF Carried
  <2>2. Carried' /\ w1 = w + n /\ w1 <= end
    BY WireGrows
  <2> QED  BY <1>1, <2>1, <2>2, EndType
<1>3. \A p \in {current} \cup Queued : p \in Push /\ result[p] = "none"
  <2>1. \A p \in Queued : p \in Push /\ result[p] = "none"
    BY Unanswered
  <2>2. result[current] = "none"
    BY <1>1 DEF NoneForgotten
  <2> QED  BY <1>1, <2>1, <2>2
<1>4. /\ \A p \in {current} \cup Queued : result'[p] = "failed"
      /\ \A p \in Push : result'[p] = "ok" <=> result[p] = "ok"
      /\ \A p \in Push : result[p] = "failed" => result'[p] = "failed"
  BY <1>3 DEF Failed
<1>5. Answered'
  <2> SUFFICES ASSUME NEW p \in Push
               PROVE  /\ result'[p] = "ok" => EndOf(pushed, p) <= w1
                      /\ EndOf(pushed, p) <= w1 => result'[p] = "ok" \/ w1 = EndOf(pushed, p)
    BY <1>1 DEF Answered, Cut
  <2> DEFINE e == EndOf(pushed, p)
  <2>1. p \in 0..Len(pushed) /\ p \in 1..Len(pushed) /\ p \in Nat /\ e \in Nat
    BY <1>1, EndType DEF Push
  <2>2. result[p] = "ok" => e <= w
    BY Uncut
  <2>3. result'[p] = "ok" => e <= w1
    <3>1. result'[p] = "ok" => result[p] = "ok"
      BY <1>4
    <3>2. e \in Nat /\ w \in Nat /\ w1 \in Nat /\ n \in Nat /\ w1 = w + n
      BY <1>2, <2>1
    <3> HIDE DEF e, w, w1
    <3>3. e <= w => e <= w1
      BY <3>2
    <3> QED  BY <2>2, <3>1, <3>3 DEF e, w
  <2>4. p < current \/ p = current \/ p > current
    BY <1>1, <2>1
  <2>5. e <= w1 => result'[p] = "ok" \/ w1 = e
    <3>1. CASE p < current
      BY <1>4, <3>1, Behind
    <3>2. CASE p = current
      <4>1. e = end
        BY <3>2
      <4> HIDE DEF e, end, w1
      <4> QED  BY <1>2, <4>1
    <3>3. CASE p > current
      <4>1. end < e
        BY <1>1, <2>1, <3>3, EndLess
      <4> HIDE DEF e, end, w1
      <4> QED  BY <1>2, <2>1, <4>1
    <3> QED  BY <2>4, <3>1, <3>2, <3>3
  <2> QED  BY <2>3, <2>5
<1>6. OwedFailed'
  BY <1>1, <1>3, <1>4 DEF OwedFailed
<1> QED  BY <1>2, <1>5, <1>6

\* Some bytes of the push under way are still missing.
LEMMA WirePartial ==
    ASSUME QueueInv, WireInv, current # 0, base = "open", NEW n \in 1..Len(left),
           n < Len(left), wire' = wire \o SubSeq(left, 1, n),
           left' = SubSeq(left, n + 1, Len(left)),
           UNCHANGED <<pushed, current, result, owed, base>>
    PROVE  WireInv'
<1> USE DEF QueueInv, Tasks, WireInv
<1> DEFINE data == pushed[current]
           end == EndOf(pushed, current)
           l == Len(left)
<1>1. /\ pushed \in Seq(Seq(Byte)) /\ Len(pushed) \in Nat
      /\ current \in Push /\ current \in 0..Len(pushed)
      /\ data \in Seq(Byte) /\ Len(data) \in Nat
  BY PushedBytes DEF Push
<1>2. /\ Len(wire) \in Nat /\ left \in Seq(Byte) /\ l \in Nat
      /\ n \in Nat /\ n > 0 /\ n < l /\ end \in Nat
  BY <1>1, EndType DEF Carried
<1>3. /\ 0 < l /\ l <= Len(data) /\ Len(wire) + l = end
      /\ \A i \in 1..l : left[i] = data[Len(data) - l + i]
  BY DEF Working, Missing
<1>4. Carried' /\ Len(wire') = Len(wire) + n
  BY WireGrows
<1>5. left' \in Seq(Byte) /\ Len(left') = l - n /\ \A i \in 1..l - n : left'[i] = left[n + i]
  BY <1>2
<1> HIDE DEF data, end, l
<1>6. Missing'
  <2>1. 0 < Len(left') /\ Len(left') <= Len(data) /\ Len(wire') + Len(left') = end
    <3> DEFINE dl == Len(data)
               w == Len(wire)
               w1 == Len(wire')
               l1 == Len(left')
    <3>1. /\ dl \in Nat /\ w \in Nat /\ l \in Nat /\ n \in Nat /\ n < l /\ l <= dl
          /\ w + l = end /\ w1 = w + n /\ l1 = l - n
      BY <1>1, <1>2, <1>3, <1>4, <1>5
    <3> HIDE DEF dl, w, w1, l1
    <3>2. 0 < l1 /\ l1 <= dl /\ w1 + l1 = end
      BY <3>1
    <3> QED  BY <3>2 DEF dl, w1, l1
  <2>2. ASSUME NEW i \in 1..Len(left')
        PROVE  left'[i] = data[Len(data) - Len(left') + i]
    <3>1. i \in 1..l - n /\ n + i \in 1..l
      BY <1>2, <1>5
    <3>2. Len(data) - Len(left') + i = Len(data) - l + (n + i)
      <4> DEFINE dl == Len(data)
                 l1 == Len(left')
      <4>1. dl \in Nat /\ l \in Nat /\ n \in Nat /\ i \in Nat /\ l1 = l - n
        BY <1>1, <1>2, <1>5, <3>1
      <4> HIDE DEF dl, l1
      <4>2. dl - l1 + i = dl - l + (n + i)
        BY <4>1
      <4> QED  BY <4>2 DEF dl, l1
    <3>3. left'[i] = left[n + i]
      BY <1>5, <3>1
    <3>4. left[n + i] = data[Len(data) - l + (n + i)]
      BY <1>3, <3>1
    <3> QED  BY <3>2, <3>3, <3>4
  <2> QED  BY <2>1, <2>2 DEF Missing, data, end
<1>7. Push' = Push /\ Working
  BY DEF Push
<1>8. Answered'
  <2>1. ASSUME NEW p \in Push
        PROVE  result[p] = "ok" <=> EndOf(pushed, p) <= Len(wire')
    <3>1. p \in 0..Len(pushed) /\ EndOf(pushed, p) \in Nat
      BY <1>1, EndType DEF Push
    <3>2. result[p] = "ok" <=> EndOf(pushed, p) <= Len(wire)
      BY Uncut
    <3>3. CASE p < current
      <4>1. result[p] = "ok"
        BY <3>3, Behind
      <4> QED  BY <1>2, <1>4, <3>1, <3>2, <4>1
    <3>4. CASE ~ (p < current)
      <4>1. end <= EndOf(pushed, p)
        <5>1. current <= p
          BY <1>1, <3>1, <3>4
        <5> QED  BY <1>1, <3>1, <5>1, EndsAscend DEF end
      <4>2. Len(wire') < end /\ Len(wire) < end
        BY <1>2, <1>3, <1>4
      <4> QED  BY <1>2, <1>4, <3>1, <3>2, <4>1, <4>2
    <3> QED  BY <3>3, <3>4
  <2> QED  BY <1>7, <2>1 DEF Answered
<1>9. OwedFailed' /\ Working'
  BY <1>6, <1>7 DEF OwedFailed, Working
<1> QED  BY <1>4, <1>5, <1>8, <1>9

\* The push under way is done, and the next one is taken.
LEMMA WireDone ==
    ASSUME QueueInv, WireInv, current # 0, base = "open", 1 <= Len(left),
           wire' = wire \o SubSeq(left, 1, Len(left)), TakeNext(queue),
           result' = [result EXCEPT ![current] = "ok"],
           UNCHANGED <<pushed, owed, base>>
    PROVE  WireInv'
<1> USE DEF QueueInv, Tasks, WireInv
<1> DEFINE N == Len(pushed)
           end == EndOf(pushed, current)
           w == Len(wire)
           w1 == Len(wire')
<1>1. /\ pushed \in Seq(Seq(Byte)) /\ N \in Nat
      /\ current \in Push /\ current \in 0..N /\ current \in Nat
      /\ \A p \in Push : pushed[p] \in Seq(Byte)
  <2>1. current \in Push
    OBVIOUS
  <2>2. pushed \in Seq(Seq(Byte)) /\ N \in Nat /\ \A p \in Push : pushed[p] \in Seq(Byte)
    BY PushedBytes
  <2> HIDE DEF N
  <2> QED  BY <2>1, <2>2 DEF Push, N
<1>2. /\ w \in Nat /\ left \in Seq(Byte) /\ Len(left) \in Nat /\ end \in Nat
      /\ w + Len(left) = end
  <2>1. w \in Nat /\ left \in Seq(Byte) /\ Len(left) \in Nat
    BY DEF Carried
  <2>2. end \in Nat
    BY <1>1, EndType
  <2>3. w + Len(left) = end
    BY DEF Working, Missing
  <2> QED  BY <2>1, <2>2, <2>3
<1>3. Carried' /\ w1 = end
  <2>1. Len(left) \in 1..Len(left)
    BY <1>2
  <2>2. Carried' /\ Len(wire') = Len(wire) + Len(left)
    BY <2>1, WireGrows
  <2> QED  BY <1>2, <2>2
<1>4. Push' = Push
  BY DEF Push
<1>5. /\ result'[current] = "ok"
      /\ \A p \in Push : p # current => result'[p] = result[p]
  BY <1>1 DEF Push
<1>6. Answered'
  <2>1. ASSUME NEW p \in Push
        PROVE  result'[p] = "ok" <=> EndOf(pushed, p) <= w1
    <3> DEFINE e == EndOf(pushed, p)
    <3>1. p \in 0..N /\ p \in 1..N /\ p \in Nat /\ e \in Nat
      BY <1>1, EndType DEF Push
    <3>2. result[p] = "ok" <=> e <= w
      BY Uncut
    <3>3. CASE p = current
      <4>1. e = w1
        BY <1>3, <3>3
      <4> HIDE DEF e, w1
      <4> QED  BY <1>5, <3>1, <3>3, <4>1 DEF e
    <3>4. CASE p < current
      <4>1. result[p] = "ok" /\ result'[p] = result[p]
        BY <1>1, <1>5, <3>1, <3>4, Behind
      <4>2. e <= w
        BY <3>2, <4>1
      <4>3. w <= w1
        BY <1>2, <1>3
      <4> HIDE DEF e, w, w1
      <4>4. e <= w1
        BY <1>2, <1>3, <3>1, <4>2, <4>3
      <4> QED  BY <4>1, <4>4 DEF e
    <3>5. CASE p > current
      <4>1. result'[p] = result[p]
        BY <1>1, <1>5, <3>1, <3>5
      <4>2. end < e
        BY <1>1, <3>1, <3>5, EndLess
      <4>3. w <= end
        BY <1>2
      <4> HIDE DEF e, w, w1, end
      <4>4. ~ (e <= w1) /\ ~ (e <= w)
        BY <1>2, <1>3, <3>1, <4>2, <4>3
      <4> QED  BY <3>2, <4>1, <4>4 DEF e
    <3> QED  BY <1>1, <3>1, <3>3, <3>4, <3>5
  <2> QED  BY <1>4, <2>1 DEF Answered
<1>7. \A p \in Push : result[p] # "failed" /\ result'[p] # "failed"
  BY <1>5 DEF Working
<1>8. OwedFailed'
  BY <1>4, <1>7 DEF OwedFailed
<1>9. CASE queue = <<>>
  <2>1. current' = 0 /\ left' = <<>>
    BY <1>9 DEF TakeNext
  <2>2. Working' /\ left' \in Seq(Byte)
    BY <1>4, <1>7, <2>1 DEF Working
  <2> QED  BY <1>3, <1>6, <1>8, <2>2
<1>10. CASE queue # <<>>
  <2>1. current' = queue[1] /\ left' = pushed[queue[1]]
    BY <1>10 DEF TakeNext
  <2>2. /\ Len(queue) \in Nat /\ 1 \in 1..Len(queue) /\ queue[1] \in Push
        /\ queue[1] \in 1..N /\ current < queue[1]
    <3>1. Len(queue) \in Nat /\ 1 \in 1..Len(queue)
      BY <1>10
    <3> QED  BY <3>1 DEF Ordered, Push
  <2> DEFINE next == current + 1
  <2>3. next \in Push /\ next \in 1..N /\ current < next /\ next <= queue[1] /\ next - 1 = current
    <3> HIDE DEF N
    <3>1. next \in 1..N /\ current < next /\ next <= queue[1] /\ next - 1 = current
      BY <1>1, <2>2
    <3> QED  BY <3>1 DEF Push, N
  \* The next push has no answer, so it waits, and nothing waits before it.
  <2>4. queue[1] = next
    <3>1. end < EndOf(pushed, next)
      BY <1>1, <2>3, EndLess
    <3>2. EndOf(pushed, next) \in Nat
      <4>1. next \in 0..N
        BY <2>3
      <4> HIDE DEF next
      <4> QED  BY <1>1, <4>1, EndType
    <3>3. ~ (EndOf(pushed, next) <= w)
      <4> DEFINE e == EndOf(pushed, next)
      <4>1. w <= end /\ end < e /\ e \in Nat
        BY <1>2, <3>1, <3>2
      <4> HIDE DEF e, w, end
      <4>2. ~ (e <= w)
        BY <1>2, <4>1
      <4> QED  BY <4>2 DEF e
    <3> HIDE DEF next
    <3>4. result[next] # "ok" /\ result[next] # "failed"
      BY <1>7, <2>3, <3>3 DEF Answered
    <3>5. result[next] = "none"
      BY <2>3, <3>4 DEF Push
    <3>6. next # current
      BY <2>3
    <3>7. next \in Queued
      BY <2>3, <3>5, <3>6 DEF NoneForgotten
    <3>8. PICK j \in 1..Len(queue) : queue[j] = next
      BY <3>7 DEF Queued
    <3>9. j = 1 \/ (1 < j /\ queue[1] < queue[j])
      BY <2>2 DEF Ordered
    <3> QED  BY <2>2, <2>3, <3>8, <3>9
  <2>5. /\ Len(left') \in Nat /\ Len(left') > 0 /\ left' \in Seq(Byte)
        /\ pushed'[current'] = left'
    <3>1. \A p \in Push : pushed[p] \in Seq(Byte) /\ Len(pushed[p]) \in Nat /\ Len(pushed[p]) > 0
      BY PushedBytes
    <3> QED  BY <2>1, <2>2, <3>1
  <2>6. EndOf(pushed, next) = EndOf(pushed, next - 1) + Len(pushed[next])
    <3> HIDE DEF next
    <3> QED  BY <1>1, <2>3, EndNext
  <2>7. EndOf(pushed', current') = end + Len(left')
    BY <2>1, <2>3, <2>4, <2>6
  <2>8. Len(wire') + Len(left') = EndOf(pushed', current')
    BY <1>3, <2>7
  <2>9. \A i \in 1..Len(left') : Len(left') - Len(left') + i = i
    BY <2>5
  <2>10. \A i \in 1..Len(left') :
            left'[i] = pushed'[current'][Len(pushed'[current']) - Len(left') + i]
    BY <2>5, <2>9
  <2>11. Missing'
    BY <2>5, <2>8, <2>10 DEF Missing
  <2>12. Working'
    BY <1>4, <1>7, <2>11 DEF Working
  <2> QED  BY <1>3, <1>6, <1>8, <2>5, <2>12
<1> QED  BY <1>9, <1>10

\* Every step keeps what is known of the wire.
LEMMA WireNext == QueueInv /\ WireInv /\ [Next]_wireVars => WireInv'
<1> SUFFICES ASSUME QueueInv, WireInv, [Next]_wireVars
             PROVE  WireInv'
  OBVIOUS
<1>1. ASSUME UNCHANGED outVars
      PROVE  WireInv'
  BY <1>1, WireKept DEF outVars
<1>2. ASSUME NEW packet \in Packets, Write(packet)
      PROVE  WireInv'
  <2>1. Encoded(packet) \in Data /\ PushBytes(Encoded(packet))
    BY <1>2, WireAssumption DEF Write
  <2> QED  BY <2>1, WirePush
<1>3. CASE Close \/ GracefulCloseCb
  BY <1>3, WireKept DEF Close, GracefulCloseCb
<1>4. \A q \in Queued : q \in Push /\ result[q] = "none"
  BY Unanswered
<1>5. ASSUME NEW p \in owed, Callback(p)
      PROVE  WireInv'
  <2>1. p \in Push /\ result[p] = "failed"
    BY DEF WireInv, OwedFailed
  <2>2. base # "open"
    BY <2>1 DEF WireInv, Working
  <2>3. /\ result' = Failed(Queued) /\ base' # "open" /\ UNCHANGED <<pushed, wire, closer>>
        /\ left' \in Seq(Byte)
    BY <1>5, <2>2 DEF Callback, WireInv
  <2>4. PICK later \in SUBSET Queued : owed' = (owed \ {p}) \cup later
    BY <1>5 DEF Callback
  <2>5. Queued \in SUBSET Push /\ \A q \in owed' : q \in owed \/ q \in Queued
    BY <1>4, <2>4
  <2> QED  BY <1>4, <2>3, <2>5, WireFailed
<1>6. CASE WriteFailed
  <2> DEFINE dead == {current} \cup Queued
  <2>1. current \in Push /\ result[current] = "none"
    BY <1>6 DEF WriteFailed, QueueInv, Tasks, NoneForgotten
  <2>2. /\ result' = Failed(dead) /\ base' # "open" /\ UNCHANGED <<pushed, closer>>
        /\ left' \in Seq(Byte) /\ current # 0
    BY <1>6 DEF WriteFailed, TakeNext
  <2>3. PICK later \in SUBSET Queued : owed' = owed \cup later
    BY <1>6 DEF WriteFailed
  <2>4. dead \in SUBSET Push /\ \A q \in dead : result[q] = "none"
    BY <1>4, <2>1
  <2>5. \A q \in owed' : q \in owed \/ q \in dead
    BY <2>3
  <2>6. PICK n \in TakenAnyhow : wire' = wire \o SubSeq(left, 1, n)
    BY <1>6 DEF WriteFailed
  <2>7. CASE n = 0
    <3>1. wire \in Seq(Byte) /\ left \in Seq(Byte)
      BY DEF WireInv, Carried
    <3>2. SubSeq(left, 1, 0) = <<>>
      BY <3>1
    <3>3. wire' = wire
      BY <2>6, <2>7, <3>1, <3>2, ConcatEmptySeq
    <3> HIDE DEF dead
    <3> QED  BY <2>2, <2>4, <2>5, <3>3, WireFailed
  <2>8. CASE n # 0
    <3>1. /\ closer # "none" /\ base = "open" /\ n \in 1..Len(left)
          /\ wire' = wire \o SubSeq(left, 1, n)
      BY <2>6, <2>8 DEF TakenAnyhow
    <3> QED  BY <2>2, <2>5, <3>1, WireCut
  <2> QED  BY <2>7, <2>8
<1>7. ASSUME NEW n \in 1..Len(left), Written(n)
      PROVE  WireInv'
  <2>1. /\ current # 0 /\ base = "open" /\ wire' = wire \o SubSeq(left, 1, n)
        /\ UNCHANGED <<pushed, owed, base>>
    BY <1>7 DEF Written
  <2>2. CASE n < Len(left)
    <3>1. left' = SubSeq(left, n + 1, Len(left)) /\ UNCHANGED <<current, result>>
      BY <1>7, <2>2 DEF Written
    <3> QED  BY <2>1, <2>2, <3>1, WirePartial
  <2>3. CASE ~ (n < Len(left))
    <3>1. n = Len(left) /\ result' = [result EXCEPT ![current] = "ok"] /\ TakeNext(queue)
      BY <1>7, <2>3 DEF Written
    <3>2. 1 <= Len(left)
      BY DEF WireInv
    <3> QED  BY <2>1, <3>1, <3>2, WireDone
  <2> QED  BY <2>2, <2>3
<1>8. CASE Stream
  BY <1>3, <1>5, <1>6, <1>7, <1>8 DEF Stream, OutSteps, WriteEnds
<1>9. CASE Read
  BY <1>1, <1>9 DEF Read, CbFill, CbReadPacket
<1> QED
  BY <1>1, <1>2, <1>8, <1>9 DEF Next, wireVars

\* A failed push is not on the wire as a whole, or it was cut short.
LEMMA WireInvAnswers == QueueInv /\ WireInv => AnswersTrue
<1> SUFFICES ASSUME QueueInv, WireInv, NEW p \in Push
             PROVE  LET end == Len(FlattenSeq(SubSeq(pushed, 1, p)))
                    IN  /\ result[p] = "ok" => end <= Len(wire)
                        /\ result[p] = "failed" =>
                             Len(wire) < end \/ (closer # "none" /\ Len(wire) = end)
  BY DEF AnswersTrue
<1>1. pushed \in Seq(Seq(Byte)) /\ p \in 0..Len(pushed)
  BY PushedBytes DEF QueueInv, Tasks, Push
<1>2. EndOf(pushed, p) \in Nat /\ Len(wire) \in Nat
  BY <1>1, EndType DEF WireInv, Carried
<1>3. /\ result[p] = "ok" => EndOf(pushed, p) <= Len(wire)
      /\ EndOf(pushed, p) <= Len(wire) => result[p] = "ok" \/ Cut(p)
  BY DEF WireInv, Answered
<1>4. Len(wire) < EndOf(pushed, p) <=> ~(EndOf(pushed, p) <= Len(wire))
  BY <1>2
<1> QED  BY <1>3, <1>4 DEF EndOf, Cut

-----------------------------------------------------------------------------
(* The reader.                                                             *)

\* What is pushed is what fb_mqtt_message_bytes made of the packets.
Sent ==
    /\ packets \in Seq(Packets) /\ Len(packets) = Len(pushed)
    /\ \A p \in Push : Encodable(packets[p]) /\ pushed[p] = Encoded(packets[p])

Received ==
    /\ got \in Seq(Packets) /\ Len(got) <= Len(packets)
    /\ \A i \in 1..Len(got) : got[i] = packets[i]

\* Where the packet being read starts.
Start == EndOf(pushed, Len(got))

\* The reader has taken whole packets and the bytes in rbuf, and knows how many
\* bytes of the packet are missing once it has read its header.
Reading ==
    /\ taken \in Nat /\ filled \in Nat /\ taken <= filled /\ filled <= Len(wire)
    /\ rbuf \in Seq(Byte) /\ remz \in Nat
    /\ taken = Start + Len(rbuf)
    /\ \A i \in 1..Len(rbuf) : rbuf[i] = wire[Start + i]
    /\ remz = 0 => rbuf = <<>>
    /\ remz > 0 => /\ Len(got) < Len(pushed)
                   /\ Len(rbuf) + remz = Len(pushed[Len(got) + 1])

ReadInv == Sent /\ Received /\ Reading

\* The reader stands at the beginning of the first packet.
LEMMA ReadInit == Init => ReadInv
<1> SUFFICES ASSUME Init  PROVE ReadInv
  OBVIOUS
<1>1. /\ pushed = <<>> /\ wire = <<>> /\ packets = <<>> /\ filled = 0 /\ taken = 0
      /\ rbuf = <<>> /\ remz = 0 /\ got = <<>> /\ Len(pushed) = 0 /\ Len(got) = 0
      /\ Len(wire) = 0 /\ Len(rbuf) = 0 /\ Len(packets) = 0
  BY DEF Init, OutInit
<1>2. EndOf(pushed, 0) = 0
  <2>1. pushed \in Seq(Seq(Byte))
    BY <1>1
  <2> QED  BY <2>1, EndStart
<1>3. Sent
  BY <1>1 DEF Sent, Push
<1>4. Received
  BY <1>1 DEF Received
<1>5. Reading
  BY <1>1, <1>2 DEF Reading, Start
<1> QED  BY <1>3, <1>4, <1>5 DEF ReadInv

\* The bytes of the packet g + 1 on the wire.
LEMMA WirePlace ==
    ASSUME pushed \in Seq(Data), Carried, NEW g \in 0..Len(pushed), g < Len(pushed),
           NEW i \in 1..Len(pushed[g + 1]), EndOf(pushed, g) + i <= Len(wire)
    PROVE  wire[EndOf(pushed, g) + i] = pushed[g + 1][i]
<1> DEFINE start == EndOf(pushed, g)
<1>1. /\ pushed \in Seq(Seq(Byte)) /\ Len(pushed) \in Nat
      /\ g + 1 \in 1..Len(pushed) /\ (g + 1) - 1 = g
  BY PushedBytes
<1>2. start \in Nat
  BY <1>1, EndType
<1>3. FlattenSeq(pushed)[start + i] = pushed[g + 1][i]
  BY <1>1, FlattenPlace
<1>4. start + i \in 1..Len(wire)
  <2>1. i \in Nat /\ i > 0 /\ Len(wire) \in Nat
    BY DEF Carried
  <2> HIDE DEF start
  <2>2. start + i <= Len(wire)
    BY DEF start
  <2> QED  BY <1>2, <2>1, <2>2
<1> HIDE DEF start
<1>5. wire[start + i] = FlattenSeq(pushed)[start + i]
  BY <1>4 DEF Carried
<1> QED  BY <1>3, <1>5 DEF start

\* At the start of a packet, fb_mqtt_read_packet finds its length or waits.
LEMMA NextPacket ==
    ASSUME QueueInv, WireInv, Sent, NEW g \in 0..Len(pushed), NEW from,
           from = EndOf(pushed, g), NEW to \in Nat, from <= to, to <= Len(wire),
           ReadPacket(from, to)
    PROVE  /\ remz' \in Nat
           /\ remz' > 0 => g < Len(pushed) /\ remz' = Len(pushed[g + 1])
<1> USE DEF QueueInv, Tasks, WireInv
<1> DEFINE bytes == SubSeq(wire, from + 1, to)
           N == Len(pushed)
<1>1. CASE LastDigit(bytes) = {} /\ remz' = 0
  BY <1>1
<1>2. ASSUME NEW last \in LastDigit(bytes), remz' = PacketLength(bytes, last)
      PROVE  g < N /\ remz' \in Nat /\ remz' = Len(pushed[g + 1])
  <2>1. /\ pushed \in Seq(Seq(Byte)) /\ N \in Nat /\ from \in Nat
        /\ wire \in Seq(Byte) /\ Len(wire) \in Nat /\ Len(wire) <= EndOf(pushed, N)
    <3>1. pushed \in Seq(Seq(Byte)) /\ N \in Nat
      BY PushedBytes
    <3>2. from \in Nat
      BY <3>1, EndType
    <3> QED  BY <3>1, <3>2 DEF Carried
  <2>2. bytes \in Seq(Byte) /\ Len(bytes) = to - from /\ \A i \in 1..to - from : bytes[i] = wire[from + i]
    <3>1. \A i \in from + 1..to : wire[i] \in Byte
      BY <2>1
    <3>2. /\ bytes \in Seq(Byte)
          /\ Len(bytes) = IF from + 1 <= to THEN to - (from + 1) + 1 ELSE 0
          /\ \A i \in 1..to - (from + 1) + 1 : bytes[i] = wire[(from + 1) + i - 1]
      BY <2>1, <3>1, SubSeqProperties
    <3> HIDE DEF bytes
    <3>3. to - (from + 1) + 1 = to - from
      BY <2>1
    <3>4. Len(bytes) = to - from
      BY <2>1, <3>2
    <3>5. ASSUME NEW i \in 1..to - from
          PROVE  bytes[i] = wire[from + i]
      <4>1. (from + 1) + i - 1 = from + i
        BY <2>1
      <4> QED  BY <3>2, <3>3, <4>1
    <3> QED  BY <3>2, <3>4, <3>5
  <2> HIDE DEF bytes
  <2>3. last \in 2..Len(bytes) /\ bytes[last] < Base
    BY <1>2 DEF LastDigit
  <2>4. g < N
    <3>1. from < to
      BY <2>1, <2>2, <2>3
    <3>2. CASE g = N
      <4>1. Len(wire) <= from
        BY <2>1, <3>2
      <4> QED  BY <2>1, <3>1, <4>1
    <3> QED  BY <2>1, <3>2
  <2> DEFINE packet == packets[g + 1]
             e == pushed[g + 1]
             k == Digits(Len(packet.rest))
  <2>5. g + 1 \in Push /\ g + 1 \in 1..N
    BY <2>1, <2>4 DEF Push
  <2>6. packet \in Wholes /\ Encodable(packet) /\ e = Encoded(packet)
    <3>1. packet \in Packets
      BY <2>5 DEF Sent
    <3>2. packet \in Wholes
      BY <3>1, WireAssumption DEF Wholes
    <3> QED  BY <2>5, <3>2 DEF Sent
  <2>7. Shaped(e, packet, k)
    BY <2>6, EncodedShape
  <2>8. packet.rest \in Seq(Byte) /\ Len(packet.rest) \in Nat
    BY <2>6 DEF Wholes
  <2> HIDE DEF packet, k
  <2>9. /\ k \in Nat /\ k > 0 /\ e \in Seq(Byte) /\ Len(e) = 1 + k + Len(packet.rest)
        /\ Len(e) \in Nat /\ k + 1 <= Len(e)
        /\ \A i \in 2..k : e[i] >= Base
    <3>1. k \in 1..MaxDigits /\ MaxDigits \in Nat
      BY <2>7, CodecAssumption DEF Shaped
    <3>2. e \in Seq(Byte) /\ Len(e) = 1 + k + Len(packet.rest) /\ \A i \in 2..k : e[i] >= Base
      BY <2>7 DEF Shaped
    <3> DEFINE le == Len(e)
               lr == Len(packet.rest)
    <3>3. k \in 1..MaxDigits /\ MaxDigits \in Nat /\ lr \in Nat /\ le = 1 + k + lr
      BY <2>8, <3>1, <3>2
    <3> HIDE DEF le, lr
    <3>4. k \in Nat /\ k > 0 /\ le \in Nat /\ k + 1 <= le
      BY <3>3
    <3> QED  BY <3>2, <3>4 DEF le
  <2>10. ASSUME NEW i \in 1..Len(e), i <= Len(bytes)
         PROVE  bytes[i] = e[i]
    <3>1. i \in 1..to - from /\ from + i <= Len(wire)
      BY <2>1, <2>2, <2>9, <2>10
    <3>2. bytes[i] = wire[from + i]
      BY <2>2, <3>1
    <3>3. wire[EndOf(pushed, g) + i] = pushed[g + 1][i]
      BY <2>4, <3>1, WirePlace
    <3> QED  BY <3>2, <3>3
  <2> HIDE DEF e
  <2>11. StartsHeader(bytes, e, k)
    <3>1. k + 1 <= Len(bytes)
      <4>1. SUFFICES ASSUME Len(bytes) <= k  PROVE FALSE
        BY <2>1, <2>2, <2>9
      <4>2. last \in 1..Len(e) /\ last <= Len(bytes) /\ last \in 2..k
        <5> DEFINE le == Len(e)
                   lb == Len(bytes)
        <5>1. k \in Nat /\ le \in Nat /\ k + 1 <= le /\ lb <= k /\ last \in 2..lb /\ lb = to - from
          BY <2>2, <2>3, <2>9, <4>1
        <5> HIDE DEF le, lb
        <5>2. last \in 1..le /\ last <= lb /\ last \in 2..k
          BY <2>1, <5>1
        <5> QED  BY <5>2 DEF le, lb
      <4>3. bytes[last] = e[last] /\ e[last] >= Base
        BY <2>9, <2>10, <4>2
      <4>4. bytes[last] \in Byte /\ Base \in Nat
        BY <2>2, <2>3, CodecAssumption
      <4> QED  BY <2>3, <4>3, <4>4 DEF Byte
    <3>2. ASSUME NEW i \in 1..k + 1
          PROVE  bytes[i] = e[i]
      <4>1. i \in 1..Len(e) /\ i <= Len(bytes)
        <5> DEFINE le == Len(e)
                   lb == Len(bytes)
        <5>1. k \in Nat /\ le \in Nat /\ k + 1 <= le /\ k + 1 <= lb /\ lb = to - from
          BY <2>2, <2>9, <3>1
        <5> HIDE DEF le, lb
        <5>2. i \in 1..le /\ i <= lb
          BY <2>1, <5>1
        <5> QED  BY <5>2 DEF le, lb
      <4> QED  BY <2>10, <4>1
    <3> QED  BY <3>1, <3>2 DEF StartsHeader
  <2>12. LastDigit(bytes) = {k + 1} /\ PacketLength(bytes, k + 1) = Len(e)
    BY <2>2, <2>6, <2>7, <2>11, HeaderRead
  <2>13. last = k + 1
    BY <2>12
  <2> QED  BY <1>2, <2>4, <2>9, <2>12, <2>13 DEF e
<1>3. CASE \E last \in LastDigit(bytes) : remz' = PacketLength(bytes, last)
  BY <1>2, <1>3
<1> QED  BY <1>1, <1>3 DEF ReadPacket

\* The wire grows, and the reader does nothing.
LEMMA ReadKept ==
    ASSUME ReadInv, wire \in Seq(Byte), wire' \in Seq(Byte), Len(wire) <= Len(wire'),
           \A i \in 1..Len(wire) : wire'[i] = wire[i],
           \A p \in 0..Len(pushed) : EndOf(pushed, p) \in Nat,
           UNCHANGED <<pushed, packets, readVars>>
    PROVE  ReadInv'
<1> USE DEF ReadInv, readVars
<1>1. Sent' /\ Received'
  BY DEF Sent, Received, Push
<1>2. Len(got) \in 0..Len(pushed)
  BY DEF Sent, Received
<1>3. Start \in Nat /\ Start' = Start
  BY <1>2 DEF Start
<1>4. Len(wire) \in Nat /\ Len(wire') \in Nat /\ Len(rbuf) \in Nat
  BY DEF Reading
<1>5. filled' <= Len(wire')
  BY <1>4 DEF Reading
<1>6. ASSUME NEW i \in 1..Len(rbuf)
      PROVE  rbuf[i] = wire'[Start + i]
  <2>1. Start + Len(rbuf) <= Len(wire)
    BY <1>4 DEF Reading
  <2>2. Start + i \in 1..Len(wire)
    BY <1>3, <1>4, <2>1
  <2> QED  BY <2>2 DEF Reading
<1>7. Reading'
  BY <1>3, <1>5, <1>6 DEF Reading
<1> QED  BY <1>1, <1>7

\* A packet written leaves those before it, and the reader, where they are.
LEMMA ReadWrite ==
    ASSUME QueueInv, ReadInv, NEW packet \in Packets, Write(packet)
    PROVE  ReadInv'
<1> USE DEF QueueInv, Tasks, ReadInv
<1> DEFINE data == Encoded(packet)
           N == Len(pushed)
<1>1. data \in Data /\ Encodable(packet)
  BY WireAssumption DEF Write
<1>2. data \in Seq(Byte) /\ pushed \in Seq(Seq(Byte)) /\ N \in Nat
  BY <1>1, DataBytes, PushedBytes
<1>3. /\ pushed' = Append(pushed, data) /\ packets' = Append(packets, packet)
      /\ UNCHANGED <<wire, filled, taken, rbuf, remz, got>>
  BY DEF Write, PushBytes, readVars
<1> HIDE DEF data
<1>4. /\ Len(pushed') = N + 1
      /\ \A p \in Push : pushed'[p] = pushed[p]
      /\ pushed'[N + 1] = data
      /\ Push' = Push \cup {N + 1}
  BY <1>2, <1>3 DEF Push
<1>5. \A p \in 0..N : EndOf(pushed', p) = EndOf(pushed, p)
  BY <1>2, <1>3, EndAppend
<1> HIDE DEF N
<1>6. /\ packets' \in Seq(Packets) /\ Len(packets') = N + 1
      /\ \A p \in Push : packets'[p] = packets[p]
      /\ packets'[N + 1] = packet
  <2>1. packets \in Seq(Packets) /\ Len(packets) = N /\ Push = 1..N
    BY DEF Sent, Push, N
  <2> QED  BY <1>3, <2>1, AppendProperties
<1>7. Sent'
  <2>1. ASSUME NEW p \in Push'
        PROVE  Encodable(packets'[p]) /\ pushed'[p] = Encoded(packets'[p])
    <3>1. CASE p \in Push
      BY <1>4, <1>6, <3>1 DEF Sent
    <3>2. CASE p = N + 1
      BY <1>1, <1>4, <1>6, <3>2 DEF data
    <3> QED  BY <1>4, <3>1, <3>2
  <2> QED  BY <1>4, <1>6, <2>1 DEF Sent
<1>8. Len(got) \in Nat /\ Len(got) <= N /\ Len(got) \in 0..N
  BY <1>2 DEF Sent, Received, N
<1>9. Received'
  <2>1. \A i \in 1..Len(got) : i \in Push
    BY <1>2, <1>8 DEF Push, N
  <2>2. \A i \in 1..Len(got) : got[i] = packets'[i]
    BY <1>6, <2>1 DEF Received
  <2>3. got' \in Seq(Packets) /\ Len(got') <= Len(packets')
    BY <1>2, <1>3, <1>6, <1>8 DEF Received
  <2> QED  BY <1>3, <2>2, <2>3 DEF Received
<1>10. Start' = Start
  BY <1>3, <1>5, <1>8 DEF Start
<1>11. Reading'
  <2>1. ASSUME remz > 0
        PROVE  Len(got) < Len(pushed') /\ Len(rbuf) + remz = Len(pushed'[Len(got) + 1])
    <3>1. Len(got) < N /\ Len(rbuf) + remz = Len(pushed[Len(got) + 1])
      BY <2>1 DEF Reading, N
    <3>2. Len(got) + 1 \in Push
      BY <1>2, <1>8, <3>1 DEF Push, N
    <3>3. pushed'[Len(got) + 1] = pushed[Len(got) + 1]
      BY <1>4, <3>2
    <3>4. Len(got) < N + 1
      BY <1>2, <1>8, <3>1
    <3> QED  BY <1>4, <3>1, <3>3, <3>4
  <2> QED  BY <1>3, <1>10, <2>1 DEF Reading
<1> QED  BY <1>7, <1>9, <1>11

\* When bytes have come in, the reader finds the length of its packet, or no header.
LEMMA ReadFill ==
    ASSUME QueueInv, WireInv, ReadInv, NEW n \in 1..Len(wire), CbFill(n)
    PROVE  ReadInv'
<1> USE DEF ReadInv
<1>1. /\ remz = 0 /\ filled + n <= Len(wire) /\ filled' = filled + n
      /\ ReadPacket(taken, filled')
      /\ UNCHANGED <<wire, pushed, packets, taken, rbuf, got>>
  BY DEF CbFill, outVars
<1>2. /\ rbuf = <<>> /\ taken = Start + Len(rbuf) /\ taken \in Nat /\ filled \in Nat
      /\ taken <= filled
  BY <1>1 DEF Reading
<1>3. pushed \in Seq(Seq(Byte)) /\ Len(got) \in 0..Len(pushed)
  BY PushedBytes DEF QueueInv, Tasks, Sent, Received
<1>4. taken = EndOf(pushed, Len(got))
  <2>1. Start \in Nat /\ Len(rbuf) = 0
    BY <1>2, <1>3, EndType DEF Start
  <2> QED  BY <1>2, <2>1 DEF Start
<1>5. filled' \in Nat /\ taken <= filled' /\ filled' <= Len(wire)
  BY <1>1, <1>2
<1>6. /\ remz' \in Nat
      /\ remz' > 0 => Len(got) < Len(pushed) /\ remz' = Len(pushed[Len(got) + 1])
  BY <1>1, <1>3, <1>4, <1>5, NextPacket
<1>7. Sent' /\ Received' /\ Start' = Start
  BY <1>1 DEF Sent, Received, Push, Start
<1>8. Len(rbuf) = 0
  BY <1>2
<1>9. remz' > 0 => Len(rbuf) + remz' = Len(pushed[Len(got) + 1])
  BY <1>6, <1>8
<1>10. Reading'
  BY <1>1, <1>2, <1>5, <1>6, <1>7, <1>9 DEF Reading
<1> QED  BY <1>7, <1>10

\* A part of a packet extends rbuf; the last part makes it the packet that was sent.
LEMMA ReadSome ==
    ASSUME QueueInv, WireInv, ReadInv, NEW n \in 1..remz, NEW m \in 0..Len(wire),
           CbReadPacket(n, m)
    PROVE  ReadInv'
<1> DEFINE N == Len(pushed)
           g == Len(got)
           part == SubSeq(wire, taken + 1, taken + n)
           bytes == rbuf \o part
           l == Len(rbuf)
           w == Len(wire)
<1>1. /\ pushed \in Seq(Seq(Byte)) /\ pushed \in Seq(Data) /\ N \in Nat
      /\ g \in Nat /\ g \in 0..N /\ Len(packets) = N
      /\ wire \in Seq(Byte) /\ w \in Nat /\ Sent /\ Carried
  <2>1. g \in Nat /\ g <= Len(packets) /\ Len(packets) = N /\ Sent
    BY DEF ReadInv, Sent, Received
  <2>2. wire \in Seq(Byte) /\ w \in Nat /\ Carried
    BY DEF WireInv, Carried
  <2>3. pushed \in Seq(Seq(Byte)) /\ pushed \in Seq(Data) /\ N \in Nat
    BY PushedBytes DEF QueueInv, Tasks
  <2> HIDE DEF g, w, N
  <2> QED  BY <2>1, <2>2, <2>3
<1>2. Start \in Nat /\ Start = EndOf(pushed, g)
  BY <1>1, EndType DEF Start
<1>3. /\ remz \in Nat /\ n \in Nat /\ n > 0 /\ n <= remz
      /\ rbuf \in Seq(Byte) /\ l \in Nat /\ taken = Start + l /\ taken \in Nat /\ filled \in Nat
      /\ taken <= filled /\ filled <= w
      /\ \A i \in 1..l : rbuf[i] = wire[Start + i]
      /\ g < N /\ l + remz = Len(pushed[g + 1])
  BY DEF ReadInv, Reading
<1>4. /\ taken + n <= w /\ taken' = taken + n
      /\ filled' = (IF taken + n > filled THEN taken + n + m ELSE filled) /\ filled' <= w
      /\ UNCHANGED <<wire, pushed, packets>>
  BY DEF CbReadPacket, outVars
<1>5. taken' \in Nat /\ filled' \in Nat /\ taken' <= filled'
  <2> DEFINE t == taken + n
  <2>1. m \in Nat /\ t \in Nat /\ t + m \in Nat /\ t <= t + m
    <3>1. m \in Nat
      BY <1>1
    <3> QED  BY <1>3, <3>1
  <2>2. taken' = t /\ filled' = IF t > filled THEN t + m ELSE filled
    BY <1>4
  <2> HIDE DEF t
  <2>3. filled \in Nat
    BY <1>3
  <2> QED  BY <2>1, <2>2, <2>3
<1>6. part \in Seq(Byte) /\ Len(part) = n /\ \A i \in 1..n : part[i] = wire[taken + i]
  <2>1. \A i \in taken + 1..taken + n : wire[i] \in Byte
    BY <1>1, <1>3, <1>4
  <2> DEFINE lo == taken + 1
             hi == taken + n
  <2>2. lo \in Int /\ hi \in Int
    BY <1>3
  <2>3. /\ part \in Seq(Byte)
        /\ Len(part) = IF lo <= hi THEN hi - lo + 1 ELSE 0
        /\ \A i \in 1..hi - lo + 1 : part[i] = wire[lo + i - 1]
    <3> HIDE DEF lo, hi
    <3>1. \A i \in lo..hi : wire[i] \in Byte
      BY <2>1 DEF lo, hi
    <3>2. part = SubSeq(wire, lo, hi)
      BY DEF lo, hi
    <3> HIDE DEF part
    <3> QED  BY <2>2, <3>1, <3>2, SubSeqProperties
  <2>4. hi - lo + 1 = n /\ lo <= hi
    BY <1>3
  <2> HIDE DEF part
  <2>5. ASSUME NEW i \in 1..n
        PROVE  part[i] = wire[taken + i]
    <3>1. lo + i - 1 = taken + i
      BY <1>3
    <3> QED  BY <2>3, <2>4, <3>1
  <2> QED  BY <2>3, <2>4, <2>5
<1> HIDE DEF part
<1>7. /\ bytes \in Seq(Byte) /\ Len(bytes) = l + n
      /\ \A i \in 1..l + n : bytes[i] = IF i <= l THEN rbuf[i] ELSE part[i - l]
  <2>1. /\ bytes \in Seq(Byte) /\ Len(bytes) = Len(rbuf) + Len(part)
        /\ \A i \in 1..Len(rbuf) + Len(part) :
              bytes[i] = IF i <= Len(rbuf) THEN rbuf[i] ELSE part[i - Len(rbuf)]
    <3>1. rbuf \in Seq(Byte) /\ part \in Seq(Byte)
      BY <1>3, <1>6
    <3> QED  BY <3>1, ConcatProperties
  <2> HIDE DEF bytes
  <2> QED  BY <1>6, <2>1
<1> HIDE DEF l, g, w, bytes, N
<1>8. ASSUME NEW i \in 1..l + n
      PROVE  bytes[i] = wire[Start + i]
  <2>1. CASE i <= l
    <3>1. i \in 1..l
      BY <1>3, <2>1
    <3> QED  BY <1>3, <1>7, <2>1, <3>1
  <2>2. CASE ~ (i <= l)
    <3>1. i - l \in 1..n /\ taken + (i - l) = Start + i
      BY <1>2, <1>3, <2>2
    <3> QED  BY <1>6, <1>7, <2>2, <3>1
  <2> QED  BY <2>1, <2>2
<1>9. Sent'
  BY <1>1, <1>4 DEF Sent, Push
<1>10. CASE n < remz
  <2>1. remz' = remz - n /\ rbuf' = bytes /\ got' = got
    <3>1. \/ n < remz /\ remz' = remz - n /\ rbuf' = bytes /\ UNCHANGED got
          \/ n = remz
      BY DEF CbReadPacket, bytes, part
    <3>2. n # remz
      BY <1>3, <1>10
    <3> QED  BY <3>1, <3>2
  <2>2. Received' /\ Start' = Start
    BY <1>4, <2>1 DEF ReadInv, Received, Start
  <2>3. remz' \in Nat /\ remz' > 0 /\ taken' = Start + (l + n) /\ (l + n) + remz' = l + remz
    BY <1>2, <1>3, <1>4, <1>10, <2>1
  <2>4. /\ Len(rbuf') = l + n /\ Len(got') = g
        /\ Len(rbuf') + remz' = Len(pushed'[Len(got') + 1]) /\ Len(got') < Len(pushed')
    <3>1. Len(rbuf') = l + n /\ Len(got') = g
      BY <1>7, <2>1 DEF g
    <3>2. (l + n) + remz' = Len(pushed[g + 1])
      BY <1>3, <2>3
    <3>3. g < Len(pushed)
      BY <1>3 DEF N
    <3> QED  BY <1>4, <3>1, <3>2, <3>3
  <2>5. \A i \in 1..Len(rbuf') : rbuf'[i] = wire'[Start' + i]
    BY <1>4, <1>8, <2>1, <2>2, <2>4
  <2>6. filled' <= Len(wire')
    BY <1>4 DEF w
  <2>7. Reading'
    <3>1. taken' = Start' + Len(rbuf') /\ rbuf' \in Seq(Byte)
      BY <1>7, <2>1, <2>2, <2>3, <2>4
    <3>2. remz' # 0
      BY <2>3
    <3> QED  BY <1>5, <2>3, <2>4, <2>5, <2>6, <3>1, <3>2 DEF Reading
  <2> QED  BY <1>9, <2>2, <2>7 DEF ReadInv
<1>11. CASE ~ (n < remz)
  <2>1. /\ n = remz /\ got' = Append(got, Decoded(bytes)) /\ rbuf' = <<>>
        /\ ReadPacket(taken', filled')
    <3>1. \/ n < remz
          \/ /\ n = remz /\ got' = Append(got, Decoded(bytes)) /\ rbuf' = <<>>
             /\ ReadPacket(taken', filled')
      BY DEF CbReadPacket, bytes, part
    <3> QED  BY <1>11, <3>1
  <2> DEFINE p == g + 1
             packet == packets[p]
             end == EndOf(pushed, p)
  <2>2. p \in Push /\ p \in 0..N /\ p \in 1..N /\ p - 1 = g /\ p \in Nat
    <3>1. p \in 0..N /\ p \in 1..N /\ p - 1 = g /\ p \in Nat
      BY <1>1, <1>3
    <3> QED  BY <3>1 DEF Push, N
  <2>3. pushed[p] \in Seq(Byte) /\ Len(pushed[p]) = l + n
    <3>1. pushed[p] \in Seq(Byte)
      <4> HIDE DEF p
      <4> QED  BY <1>1, <2>2 DEF N
    <3>2. l + remz = Len(pushed[p])
      BY <1>3
    <3> QED  BY <2>1, <3>1, <3>2
  \* All bytes of the packet are there.
  <2>4. bytes = pushed[p]
    <3>1. ASSUME NEW i \in 1..Len(bytes)
          PROVE  bytes[i] = pushed[p][i]
      <4>1. i \in 1..l + n /\ i \in 1..Len(pushed[g + 1])
        BY <1>7, <2>3
      <4>2. Start + i <= w
        <5>1. Start + i <= Start + (l + n) /\ Start + (l + n) = taken + n
          BY <1>2, <1>3, <4>1
        <5>2. taken + n <= w
          BY <1>4
        <5>3. Start + i \in Nat /\ taken + n \in Nat
          <6>1. i \in Nat
            BY <1>3, <4>1
          <6>2. Start \in Nat /\ taken \in Nat /\ n \in Nat
            BY <1>2, <1>3
          <6> QED  BY <6>1, <6>2
        <5> DEFINE a == Start + i
                   b == taken + n
        <5>4. a <= b /\ b <= w /\ a \in Nat /\ b \in Nat
          BY <5>1, <5>2, <5>3
        <5> HIDE DEF a, b
        <5>5. a <= w
          BY <1>1, <5>4
        <5> QED  BY <5>5 DEF a
      <4>3. wire[EndOf(pushed, g) + i] = pushed[g + 1][i]
        BY <1>1, <1>2, <1>3, <4>1, <4>2, WirePlace DEF w, N
      <4> QED  BY <1>2, <1>8, <4>1, <4>3
    <3> HIDE DEF p
    <3> QED  BY <1>7, <2>3, <3>1, SeqEqual
  <2>5. packet \in Packets /\ packet \in Wholes /\ Encodable(packet) /\ pushed[p] = Encoded(packet)
    <3>1. packet \in Packets
      BY <1>1, <2>2 DEF Sent
    <3>2. packet \in Wholes
      BY <3>1, WireAssumption DEF Wholes
    <3> HIDE DEF p
    <3>3. Encodable(packets[p]) /\ pushed[p] = Encoded(packets[p])
      BY <1>1, <2>2 DEF Sent
    <3> QED  BY <3>1, <3>2, <3>3
  <2>6. Decoded(bytes) = packet
    BY <2>4, <2>5, DecodedEncoded
  <2>7. end = Start + (l + n) /\ taken' = end
    <3>1. end = EndOf(pushed, p - 1) + Len(pushed[p])
      <4> HIDE DEF p
      <4> QED  BY <1>1, <2>2, EndNext DEF N
    <3>2. end = Start + (l + n)
      BY <1>2, <2>2, <2>3, <3>1
    <3>3. taken' = Start + (l + n)
      BY <1>2, <1>3, <1>4
    <3> QED  BY <3>2, <3>3
  <2> HIDE DEF p, packet, end
  <2>8. /\ got' \in Seq(Packets) /\ Len(got') = p
        /\ \A i \in 1..g : got'[i] = got[i]
        /\ got'[p] = packet
    <3>1. got \in Seq(Packets)
      BY DEF ReadInv, Received
    <3> QED  BY <2>1, <2>5, <2>6, <3>1, AppendProperties DEF g, p
  <2>9. Received'
    <3>1. ASSUME NEW i \in 1..p
          PROVE  got'[i] = packets[i]
      <4>1. CASE i = p
        BY <2>8, <4>1 DEF packet
      <4>2. CASE i # p
        <5>1. i \in 1..g
          BY <1>1, <2>2, <4>2
        <5> QED  BY <2>8, <5>1 DEF ReadInv, Received, g
      <4> QED  BY <4>1, <4>2
    <3>2. p <= Len(packets)
      BY <1>1, <2>2
    <3> QED  BY <1>4, <2>8, <3>1, <3>2 DEF Received
  <2>10. /\ remz' \in Nat
         /\ remz' > 0 => p < Len(pushed) /\ remz' = Len(pushed[p + 1])
    <3>1. taken' = EndOf(pushed, p)
      BY <2>7 DEF end
    <3>2. filled' <= Len(wire)
      BY <1>4 DEF w
    <3> QED  BY <1>1, <1>5, <2>1, <2>2, <3>1, <3>2, NextPacket DEF N
  <2>11. Start' = taken' /\ Len(rbuf') = 0 /\ taken' + 0 = taken'
    <3>1. Start' = EndOf(pushed, p)
      BY <1>4, <2>8 DEF Start
    <3>2. Len(<<>>) = 0
      OBVIOUS
    <3> QED  BY <1>5, <2>1, <2>7, <3>1, <3>2 DEF end
  <2>12. remz' > 0 => Len(got') < Len(pushed') /\ Len(rbuf') + remz' = Len(pushed'[Len(got') + 1])
    BY <1>4, <2>8, <2>10, <2>11
  <2>13. rbuf' \in Seq(Byte) /\ \A i \in 1..Len(rbuf') : rbuf'[i] = wire'[Start' + i]
    BY <2>1, <2>11
  <2>14. filled' <= Len(wire')
    BY <1>4 DEF w
  <2>15. Reading'
    BY <1>5, <2>1, <2>10, <2>11, <2>12, <2>13, <2>14 DEF Reading
  <2> QED  BY <1>9, <2>9, <2>15 DEF ReadInv
<1> QED  BY <1>10, <1>11

\* The stream below takes bytes at the end of the wire only.
LEMMA WireExtends ==
    ASSUME WireInv, Stream
    PROVE  /\ wire' \in Seq(Byte) /\ Len(wire) <= Len(wire')
           /\ \A i \in 1..Len(wire) : wire'[i] = wire[i]
           /\ UNCHANGED <<pushed, packets, readVars>>
<1>1. UNCHANGED <<pushed, packets, readVars>>
  BY DEF Stream, OutSteps, Close, Callback, WriteEnds, WriteFailed, Written, GracefulCloseCb
<1>2. wire \in Seq(Byte) /\ Len(wire) \in Nat /\ left \in Seq(Byte)
  BY DEF WireInv, Carried
<1>3. ASSUME NEW n \in 1..Len(left), Written(n)
      PROVE  /\ wire' \in Seq(Byte) /\ Len(wire) <= Len(wire')
             /\ \A i \in 1..Len(wire) : wire'[i] = wire[i]
  <2> DEFINE part == SubSeq(left, 1, n)
  <2>1. part \in Seq(Byte) /\ Len(part) \in Nat
    BY <1>2
  <2>2. wire' = wire \o part
    BY <1>3 DEF Written
  <2> HIDE DEF part
  <2> QED  BY <1>2, <2>1, <2>2, ConcatProperties
<1>4. CASE UNCHANGED wire
  BY <1>1, <1>2, <1>4
<1>5. CASE WriteFailed
  <2>1. PICK n \in TakenAnyhow : wire' = wire \o SubSeq(left, 1, n)
    BY <1>5 DEF WriteFailed
  <2>2. n \in 0..Len(left)
    BY <1>2 DEF TakenAnyhow
  <2> DEFINE part == SubSeq(left, 1, n)
  <2>3. part \in Seq(Byte) /\ Len(part) \in Nat
    BY <1>2, <2>2
  <2>4. wire' = wire \o part
    BY <2>1
  <2> HIDE DEF part
  <2> QED  BY <1>1, <1>2, <2>3, <2>4, ConcatProperties
<1>6. UNCHANGED wire \/ WriteFailed \/ \E n \in 1..Len(left) : Written(n)
  BY DEF Stream, OutSteps, Close, Callback, WriteEnds, GracefulCloseCb
<1> QED  BY <1>1, <1>3, <1>4, <1>5, <1>6

\* Every step keeps the place of the reader.
LEMMA ReadNext == QueueInv /\ WireInv /\ ReadInv /\ [Next]_wireVars => ReadInv'
<1> SUFFICES ASSUME QueueInv, WireInv, ReadInv, [Next]_wireVars
             PROVE  ReadInv'
  OBVIOUS
<1>1. /\ wire \in Seq(Byte) /\ Len(wire) \in Nat
      /\ \A p \in 0..Len(pushed) : EndOf(pushed, p) \in Nat
  <2>1. pushed \in Seq(Seq(Byte))
    BY PushedBytes DEF QueueInv, Tasks
  <2>2. wire \in Seq(Byte) /\ Len(wire) \in Nat
    BY DEF WireInv, Carried
  <2> QED  BY <2>1, <2>2, EndType
<1>2. ASSUME NEW packet \in Packets, Write(packet)
      PROVE  ReadInv'
  BY <1>2, ReadWrite
<1>3. CASE Stream
  BY <1>1, <1>3, WireExtends, ReadKept
<1>4. ASSUME NEW n \in 1..Len(wire), CbFill(n)
      PROVE  ReadInv'
  BY <1>4, ReadFill
<1>5. ASSUME NEW n \in 1..remz, NEW m \in 0..Len(wire), CbReadPacket(n, m)
      PROVE  ReadInv'
  BY <1>5, ReadSome
<1>6. CASE UNCHANGED wireVars
  <2>1. UNCHANGED <<wire, pushed, packets, readVars>>
    BY <1>6 DEF wireVars, outVars, readVars
  <2>2. wire' \in Seq(Byte) /\ Len(wire) <= Len(wire') /\ \A i \in 1..Len(wire) : wire'[i] = wire[i]
    BY <1>1, <2>1
  <2> QED  BY <1>1, <2>1, <2>2, ReadKept
<1> QED
  BY <1>2, <1>3, <1>4, <1>5, <1>6 DEF Next, Read

\* What it has got is then a beginning of what was written.
LEMMA ReadInvReceived == ReadInv => ReceivedSent
<1> SUFFICES ASSUME ReadInv  PROVE ReceivedSent
  OBVIOUS
<1> DEFINE s == SubSeq(got, 1, Len(got))
           t == SubSeq(packets, 1, Len(got))
<1>1. /\ got \in Seq(Packets) /\ packets \in Seq(Packets) /\ Len(got) \in Nat
      /\ Len(packets) \in Nat /\ Len(got) <= Len(packets)
      /\ \A i \in 1..Len(got) : got[i] = packets[i]
  BY DEF ReadInv, Sent, Received
<1>2. s \in Seq(Packets) /\ Len(s) = Len(got) /\ \A i \in 1..Len(got) : s[i] = got[i]
  BY <1>1
<1>3. t \in Seq(Packets) /\ Len(t) = Len(got) /\ \A i \in 1..Len(got) : t[i] = packets[i]
  BY <1>1
<1> HIDE DEF s, t
<1>4. s = t
  BY <1>1, <1>2, <1>3, SeqEqual
<1> QED  BY <1>1, <1>4 DEF ReceivedSent, IsPrefix, s, t

-----------------------------------------------------------------------------
(* What is left of the types.                                              *)

Plain ==
    /\ Len(pushed) <= MaxPushes
    /\ pending \in BOOLEAN /\ pending_queued \in BOOLEAN
    /\ base \in {"open", "broken"}
    /\ closer \in {"none", "waiting", "done"}

\* Every step keeps these.
LEMMA PlainNext == QueueInv /\ Plain /\ [Next]_wireVars => Plain'
<1> SUFFICES ASSUME QueueInv, Plain, [Next]_wireVars
             PROVE  Plain'
  OBVIOUS
<1>1. CASE UNCHANGED outVars
  BY <1>1 DEF outVars, Plain
<1>2. ASSUME NEW packet \in Packets, Write(packet)
      PROVE  Plain'
  <2> DEFINE n == Len(pushed)
  <2>1. /\ n < MaxPushes /\ pushed' = Append(pushed, Encoded(packet))
        /\ UNCHANGED <<base, closer>>
    BY <1>2 DEF Write, PushBytes
  <2>2. pushed \in Seq(Data) /\ n \in Nat /\ MaxPushes \in Nat
    BY OutputAssumption DEF QueueInv, Tasks
  <2>3. Len(pushed') = n + 1
    BY <2>1, <2>2
  <2>4. Len(pushed') <= MaxPushes
    <3> HIDE DEF n
    <3> QED  BY <2>1, <2>2, <2>3
  <2>5. pending' \in BOOLEAN /\ pending_queued' \in BOOLEAN
    BY <1>2, Zenon DEF Write, PushBytes, Plain
  <2> QED  BY <2>1, <2>4, <2>5 DEF Plain
<1>3. CASE Stream
  <2>1. UNCHANGED pushed /\ base' \in {"open", "broken"}
        /\ closer' \in {"none", "waiting", "done"}
    BY <1>3 DEF Stream, OutSteps, Close, Callback, WriteEnds, WriteFailed, Written,
                GracefulCloseCb, Plain
  <2>2. (pending' = pending \/ pending' = FALSE)
        /\ (pending_queued' = pending_queued \/ pending_queued' = FALSE)
    BY <1>3, Zenon DEF Stream, OutSteps, Close, Callback, WriteEnds, WriteFailed, Written,
                GracefulCloseCb, TakeNext
  <2>3. pending' \in BOOLEAN /\ pending_queued' \in BOOLEAN
    BY <2>2, Zenon DEF Plain
  <2> QED  BY <2>1, <2>3 DEF Plain
<1>4. CASE Read
  BY <1>1, <1>4 DEF Read, CbFill, CbReadPacket
<1> QED
  BY <1>1, <1>2, <1>3, <1>4 DEF Next, wireVars

\* The invariants together give every variable its type.
LEMMA InvTypes == QueueInv /\ WireInv /\ ReadInv /\ Plain => TypeOK
<1> SUFFICES ASSUME QueueInv, WireInv, ReadInv, Plain
             PROVE  TypeOK
  OBVIOUS
<1>1. OutTypeOK
  <2>1. Seq(Byte) \subseteq Seq(Nat)
    BY CodecAssumption DEF Byte
  <2>2. left \in Seq(Nat) /\ wire \in Seq(Nat)
    BY <2>1 DEF WireInv, Carried
  <2>3. /\ pushed \in Seq(Data) /\ queue \in Seq(Push) /\ current \in Push \cup {0}
        /\ result \in [Push -> {"none", "ok", "failed"}]
    BY DEF QueueInv, Tasks, Push
  <2>4. owed \subseteq {p \in Push : result[p] = "failed"}
    BY DEF WireInv, OwedFailed
  <2> QED  BY <2>2, <2>3, <2>4 DEF OutTypeOK, Plain
<1>2. packets \in Seq(Packets) /\ Len(packets) = Len(pushed)
  BY DEF ReadInv, Sent
<1>3. /\ filled \in 0..Len(wire) /\ taken \in 0..filled
      /\ rbuf \in Seq(Byte) /\ remz \in Nat
  <2>1. Len(wire) \in Nat
    BY DEF WireInv, Carried
  <2> QED  BY <2>1 DEF ReadInv, Reading
<1> QED  BY <1>1, <1>2, <1>3 DEF TypeOK

-----------------------------------------------------------------------------
(* The theorems.                                                           *)

\* Every variable keeps its type, whatever is written, however the stream below
\* cuts the bytes and whenever it fails.
THEOREM WireTypes == Spec => []TypeOK
<1>1. Init => Plain
  <2> SUFFICES ASSUME Init  PROVE Plain
    OBVIOUS
  <2>1. Len(pushed) <= MaxPushes /\ base = "open" /\ closer = "none"
    BY OutputAssumption DEF Init, OutInit
  <2>2. pending \in BOOLEAN /\ pending_queued \in BOOLEAN
    BY Zenon DEF Init, OutInit
  <2> QED  BY <2>1, <2>2 DEF Plain
<1> QED
  BY <1>1, PlainNext, InvTypes, InitQueue, NextQueue, WireInit, WireNext, ReadInit,
     ReadNext, PTL DEF Spec

\* Whatever is written and however the stream below behaves, a push without an
\* answer is being written or waits in the queue of a stream that writes.
THEOREM NothingForgotten == Spec => []NoneForgotten
<1>1. QueueInv => NoneForgotten
  BY DEF QueueInv
<1> QED  BY <1>1, InitQueue, NextQueue, PTL DEF Spec

\* The stream below is not closed under a push that is still to be answered.
THEOREM ClosedWhenDone == Spec => []CloseWaits
BY QueueInvWaits, InitQueue, NextQueue, PTL DEF Spec

\* The answer to a push is the truth about its bytes: "ok" only when all of them
\* have been handed down, "failed" only when some have not, after any number of
\* partial writes and clearings of the queue; only the push that the bytes handed
\* down end with is reported as failed wrongly, when the owner has closed.
THEOREM AnswersRight == Spec => []AnswersTrue
BY WireInvAnswers, InitQueue, NextQueue, WireInit, WireNext, PTL DEF Spec

\* The packets the peer gets are the first of those that were written, each of
\* them whole: headers are told from contents and lengths are read rightly for
\* packets of every length a header can hold, however the bytes are cut.
THEOREM SentIsReceived == Spec => []ReceivedSent
BY ReadInvReceived, InitQueue, NextQueue, WireInit, WireNext, ReadInit, ReadNext,
   PTL DEF Spec
=============================================================================
