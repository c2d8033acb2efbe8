--------------------------- MODULE FbMessagesProofs ---------------------------
(***************************************************************************)
(* Theorems about the received messages, for any number of users,          *)
(* messages, contact pictures and simultaneous downloads.  The first part  *)
(* says what selecting from a sequence yields; the rest of the lemmas say  *)
(* what the parts of the handlers do, and each theorem puts the actions    *)
(* together.                                                               *)
(***************************************************************************)
EXTENDS FbMessages, SequenceLemmas, FiniteSetTheorems, TLAPS

-----------------------------------------------------------------------------
(* Selecting from a sequence.                                              *)

\* kept[n] is what Selected takes of the first n elements.
SelectedBy(kept, S, seq, chosen) ==
    /\ kept \in [0..Len(seq) -> Seq(S)]
    /\ kept[0] = <<>>
    /\ \A n \in 1..Len(seq) :
           kept[n] = IF seq[n] \in chosen THEN Append(kept[n - 1], seq[n])
                     ELSE kept[n - 1]
    /\ Selected(seq, chosen) = kept[Len(seq)]

\* The recursion that defines Selected.
LEMMA SelectedRecursion ==
    ASSUME NEW S, NEW seq \in Seq(S), NEW chosen
    PROVE  \E kept : SelectedBy(kept, S, seq, chosen)
<1> DEFINE N == Len(seq)
           T == Seq(S)
           step == [x \in (1..N) \X T |->
                       IF seq[x[1]] \in chosen THEN Append(x[2], seq[x[1]]) ELSE x[2]]
           Rec(g) == [n \in 0..N |->
                         IF n = 0 THEN <<>>
                         ELSE IF seq[n] \in chosen THEN Append(g[n - 1], seq[n])
                         ELSE g[n - 1]]
           kept == CHOOSE g : g = Rec(g)
<1>0. step \in [(1..N) \X T -> T]
  OBVIOUS
<1>1. N \in Nat /\ <<>> \in T
  OBVIOUS
<1>2. PICK f \in [0..N -> T] :
          f[0] = <<>> /\ \A n \in 1..N : f[n] = step[<<n, f[n - 1]>>]
  <2>1. Steps(step, N, T)
    BY <1>0 DEF Steps
  <2> HIDE DEF step, N, T
  <2>2. \E f : Follows(f, N, T, <<>>, step)
    BY <1>1, <2>1, RecursionExists
  <2> QED  BY <2>2 DEF Follows
<1>3. f = Rec(f)
  <2>1. ASSUME NEW n \in 1..N
        PROVE  f[n] = IF seq[n] \in chosen THEN Append(f[n - 1], seq[n]) ELSE f[n - 1]
    <3>1. <<n, f[n - 1]>> \in (1..N) \X T
      <4> HIDE DEF N, T
      <4> QED  BY <1>1
    <3>2. f[n] = step[<<n, f[n - 1]>>]
      BY <1>2
    <3> QED  BY <3>1, <3>2
  <2> HIDE DEF N, T, step
  <2>2. ASSUME NEW n \in 0..N
        PROVE  f[n] = Rec(f)[n]
    <3>1. CASE n = 0
      BY <1>2, <3>1
    <3>2. CASE n # 0
      <4>1. n \in 1..N
        BY <1>1, <3>2
      <4> QED  BY <2>1, <4>1, <3>2
    <3> QED  BY <3>1, <3>2
  <2>3. DOMAIN f = 0..N /\ DOMAIN Rec(f) = 0..N /\ Rec(f) = [n \in 0..N |-> Rec(f)[n]]
    OBVIOUS
  <2> QED  BY <2>2, <2>3
<1>4. kept = Rec(kept)
  <2> HIDE DEF Rec
  <2> QED  BY <1>3
<1>5. Selected(seq, chosen) = kept[N]
  BY DEF Selected
<1> HIDE DEF kept
<1>6. /\ kept[0] = <<>>
      /\ \A n \in 1..N : kept[n] = IF seq[n] \in chosen THEN Append(kept[n - 1], seq[n])
                                   ELSE kept[n - 1]
      /\ DOMAIN kept = 0..N
  <2> HIDE DEF N, T
  <2>1. DOMAIN kept = 0..N
    BY <1>4
  <2>2. kept[0] = <<>>
    <3>1. 0 \in 0..N
      BY <1>1
    <3> QED  BY <1>4, <3>1
  <2>3. ASSUME NEW n \in 1..N
        PROVE  kept[n] = IF seq[n] \in chosen THEN Append(kept[n - 1], seq[n])
                         ELSE kept[n - 1]
    <3>1. n \in 0..N /\ n # 0
      BY <1>1
    <3> QED  BY <1>4, <3>1
  <2> QED  BY <2>1, <2>2, <2>3
<1>7. \A n \in 0..N : kept[n] \in T
  <2>1. ASSUME NEW n \in 1..N, kept[n - 1] \in T
        PROVE  kept[n] \in T
    <3>1. seq[n] \in S
      OBVIOUS
    <3>2. kept[n] = kept[n - 1] \/ kept[n] = Append(kept[n - 1], seq[n])
      BY <1>6
    <3>3. Append(kept[n - 1], seq[n]) \in T
      BY <2>1, <3>1, AppendProperties
    <3> HIDE DEF N, T
    <3> QED  BY <2>1, <3>2, <3>3
  <2>2. kept[0] \in T
    BY <1>1, <1>6
  <2> HIDE DEF N, T
  <2> QED  BY <1>1, <2>1, <2>2, RecursionType
<1>8. kept \in [0..N -> Seq(S)]
  BY <1>4, <1>6, <1>7
<1> QED  BY <1>5, <1>6, <1>8 DEF SelectedBy

\* e maps the positions of r to those of the chosen elements among the first n
\* of seq, in their order.
Embeds(e, r, seq, n, chosen) ==
    /\ e \in [1..Len(r) -> 1..n]
    /\ \A i, j \in 1..Len(r) : i < j => e[i] < e[j]
    /\ \A i \in 1..Len(r) : r[i] = seq[e[i]] /\ r[i] \in chosen
    /\ \A i \in 1..n : seq[i] \in chosen => \E j \in 1..Len(r) : e[j] = i

\* One element more.
LEMMA EmbedsMore ==
    ASSUME NEW S, NEW r \in Seq(S), NEW seq, NEW n \in Nat \ {0}, seq[n] \in S,
           NEW chosen, NEW e, Embeds(e, r, seq, n - 1, chosen)
    PROVE  \E d : Embeds(d, IF seq[n] \in chosen THEN Append(r, seq[n]) ELSE r,
                         seq, n, chosen)
<1>1. Len(r) \in Nat
  OBVIOUS
<1>2. CASE seq[n] \in chosen
  <2> DEFINE t == Append(r, seq[n])
             d == [i \in 1..Len(t) |-> IF i = Len(t) THEN n ELSE e[i]]
  <2>1. /\ Len(t) = Len(r) + 1 /\ t[Len(t)] = seq[n]
        /\ \A i \in 1..Len(r) : t[i] = r[i]
    BY AppendProperties
  <2> HIDE DEF t
  <2>2. d[Len(t)] = n /\ \A i \in 1..Len(r) : d[i] = e[i]
    BY <1>1, <2>1
  <2>3. \A i \in 1..Len(t) : i = Len(t) \/ i \in 1..Len(r)
    BY <1>1, <2>1
  <2>4. d \in [1..Len(t) -> 1..n]
    BY <1>1, <2>1, <2>3 DEF Embeds
  <2> HIDE DEF d
  <2>5. \A i, j \in 1..Len(t) : i < j => d[i] < d[j]
    <3> SUFFICES ASSUME NEW i \in 1..Len(t), NEW j \in 1..Len(t), i < j
                 PROVE  d[i] < d[j]
      OBVIOUS
    <3>1. i \in 1..Len(r) /\ e[i] \in 1..n - 1 /\ d[i] = e[i]
      BY <1>1, <2>1, <2>2 DEF Embeds
    <3>2. CASE j = Len(t)
      BY <2>2, <3>1, <3>2
    <3>3. CASE j # Len(t)
      BY <2>2, <2>3, <3>1, <3>3 DEF Embeds
    <3> QED  BY <3>2, <3>3
  <2>6. \A i \in 1..Len(t) : t[i] = seq[d[i]] /\ t[i] \in chosen
    BY <1>2, <2>1, <2>2, <2>3 DEF Embeds
  <2>7. ASSUME NEW i \in 1..n, seq[i] \in chosen
        PROVE  \E j \in 1..Len(t) : d[j] = i
    <3>1. CASE i = n
      BY <1>1, <2>1, <2>2, <3>1
    <3>2. CASE i # n
      <4>1. PICK j \in 1..Len(r) : e[j] = i
        BY <2>7, <3>2 DEF Embeds
      <4> QED  BY <1>1, <2>1, <2>2, <4>1
    <3> QED  BY <3>1, <3>2
  <2>8. Embeds(d, t, seq, n, chosen)
    BY <2>4, <2>5, <2>6, <2>7 DEF Embeds
  <2> QED  BY <1>2, <2>8 DEF t
<1>3. CASE seq[n] \notin chosen
  <2>1. e \in [1..Len(r) -> 1..n]
    BY <1>1 DEF Embeds
  <2>2. \A i \in 1..n : seq[i] \in chosen => i \in 1..n - 1
    BY <1>3
  <2> QED  BY <1>3, <2>1, <2>2 DEF Embeds
<1> QED  BY <1>2, <1>3

\* What Selected yields.
LEMMA SelectedEmbeds ==
    ASSUME NEW S, NEW seq \in Seq(S), NEW chosen
    PROVE  /\ Selected(seq, chosen) \in Seq(S)
           /\ \E e : Embeds(e, Selected(seq, chosen), seq, Len(seq), chosen)
<1>1. PICK kept : SelectedBy(kept, S, seq, chosen)
  BY SelectedRecursion
<1> USE DEF SelectedBy
<1> DEFINE N == Len(seq)
           Found(n) == \E e : Embeds(e, kept[n], seq, n, chosen)
           I == {n \in 0..N : Found(n)}
<1>2. N \in Nat /\ \A n \in 1..N : seq[n] \in S
  OBVIOUS
<1>3. 0 \in I
  <2>1. Embeds([i \in 1..0 |-> 1], <<>>, seq, 0, chosen)
    BY DEF Embeds
  <2>2. Found(0)
    BY <1>1, <2>1
  <2> QED  BY <1>2, <2>2
<1>4. ASSUME NEW n \in 0..N, n \in I, n < N
      PROVE  n + 1 \in I
  <2> DEFINE m == n + 1
  <2>1. m \in 1..N /\ m \in Nat \ {0} /\ m - 1 = n /\ m \in 0..N
    BY <1>2, <1>4
  <2>2. kept[m] = IF seq[m] \in chosen THEN Append(kept[n], seq[m]) ELSE kept[n]
    BY <1>1, <2>1
  <2>3. kept[n] \in Seq(S)
    BY <1>1
  <2>4. PICK e : Embeds(e, kept[n], seq, m - 1, chosen)
    BY <1>4, <2>1
  <2> HIDE DEF m
  <2>5. Found(m)
    <3>1. seq[m] \in S
      BY <1>2, <2>1
    <3>2. \E d : Embeds(d, IF seq[m] \in chosen THEN Append(kept[n], seq[m]) ELSE kept[n],
                        seq, m, chosen)
      BY <2>1, <2>3, <2>4, <3>1, EmbedsMore
    <3> QED  BY <2>2, <3>2
  <2>6. m \in I
    BY <2>1, <2>5
  <2> QED  BY <2>6 DEF m
<1>5. N \in 0..N
  BY <1>2
<1>6. Found(N)
  <2> HIDE DEF I, Found, N
  <2>1. \A n \in 0..N : n \in I
    BY <1>2, <1>3, <1>4, UpTo
  <2> QED  BY <1>5, <2>1 DEF I
<1> QED  BY <1>1, <1>5, <1>6

\* The elements of r are chosen ones of seq, in the same order.
Filters(r, seq, chosen) ==
    /\ \A i \in 1..Len(r) : r[i] \in chosen /\ \E k \in 1..Len(seq) : r[i] = seq[k]
    /\ \A i, j \in 1..Len(r) :
           i < j => \E k, l \in 1..Len(seq) : k < l /\ r[i] = seq[k] /\ r[j] = seq[l]

\* A loop that filters a list keeps the chosen elements, all of them, in order.
LEMMA SelectedFilters ==
    ASSUME NEW S, NEW seq \in Seq(S), NEW chosen
    PROVE  Filters(Selected(seq, chosen), seq, chosen)
<1> DEFINE r == Selected(seq, chosen)
<1>1. PICK e : Embeds(e, r, seq, Len(seq), chosen)
  BY SelectedEmbeds
<1> HIDE DEF r
<1>2. ASSUME NEW i \in 1..Len(r)
      PROVE  e[i] \in 1..Len(seq) /\ r[i] = seq[e[i]] /\ r[i] \in chosen
  BY <1>1 DEF Embeds
<1>3. ASSUME NEW i \in 1..Len(r), NEW j \in 1..Len(r), i < j
      PROVE  \E k, l \in 1..Len(seq) : k < l /\ r[i] = seq[k] /\ r[j] = seq[l]
  <2>1. e[i] < e[j]
    BY <1>1, <1>3 DEF Embeds
  <2> QED  BY <1>2, <2>1
<1>4. Filters(r, seq, chosen)
  BY <1>2, <1>3 DEF Filters
<1> QED  BY <1>4 DEF r

\* Everything chosen is selected, as often as it is there.
LEMMA CountSelected ==
    ASSUME NEW S, NEW seq \in Seq(S), NEW chosen, NEW T
    PROVE  Count(Selected(seq, chosen), T) = Count(seq, T \cap chosen)
<1> DEFINE r == Selected(seq, chosen)
<1>1. PICK e : Embeds(e, r, seq, Len(seq), chosen)
  BY SelectedEmbeds
<1>2. r \in Seq(S)
  BY SelectedEmbeds
<1> HIDE DEF r
<1> DEFINE P == Places(r, T)
           Q == Places(seq, T \cap chosen)
           f == [i \in P |-> e[i]]
<1>3. Len(r) \in Nat
  BY <1>2
<1>4. ASSUME NEW i \in P
      PROVE  e[i] \in Q
  <2>1. i \in 1..Len(r) /\ r[i] \in T
    BY DEF Places
  <2>2. e[i] \in 1..Len(seq) /\ r[i] = seq[e[i]] /\ r[i] \in chosen
    BY <1>1, <2>1 DEF Embeds
  <2> QED  BY <2>1, <2>2 DEF Places
<1>5. ASSUME NEW k \in Q
      PROVE  \E i \in P : e[i] = k
  <2>1. k \in 1..Len(seq) /\ seq[k] \in T /\ seq[k] \in chosen
    BY DEF Places
  <2>2. PICK i \in 1..Len(r) : e[i] = k
    BY <1>1, <2>1 DEF Embeds
  <2>3. r[i] = seq[k]
    BY <1>1, <2>2 DEF Embeds
  <2> QED  BY <2>1, <2>2, <2>3 DEF Places
<1>6. ASSUME NEW i \in P, NEW j \in P, e[i] = e[j]
      PROVE  i = j
  <2>1. i \in 1..Len(r) /\ j \in 1..Len(r)
    BY DEF Places
  <2>2. e[i] \in Int /\ e[j] \in Int
    BY <1>1, <2>1 DEF Embeds
  <2>3. ~ (i < j) /\ ~ (j < i)
    BY <1>1, <1>6, <2>1, <2>2 DEF Embeds
  <2> QED  BY <1>3, <2>1, <2>3
<1> HIDE DEF P, Q
<1>7. f \in Bijection(P, Q)
  BY <1>4, <1>5, <1>6 DEF Bijection, Injection, Surjection, IsInjective
<1> HIDE DEF f
<1>8. Count(r, T) = Count(seq, T \cap chosen)
  BY <1>2, <1>7, CountBijection DEF P, Q
<1> QED  BY <1>8 DEF r

-----------------------------------------------------------------------------
(* Types.                                                                  *)

AnyPart == Part(Kinds)
Visible == Part({"text", "link", "photo"})
Groups == {"none", "friend", "other"}
Delta == [from : User, parts : Contents]

\* A sequence is one over any set that holds its elements.
LEMMA SeqOfElements ==
    ASSUME NEW S, NEW seq \in Seq(S), NEW V, \A i \in 1..Len(seq) : seq[i] \in V
    PROVE  seq \in Seq(V)
OBVIOUS

\* An element of the range stands somewhere in the sequence.
LEMMA RangeElement ==
    ASSUME NEW S, NEW seq \in Seq(S), NEW x \in Range(seq)
    PROVE  x \in S /\ \E i \in 1..Len(seq) : seq[i] = x
<1>1. PICK i \in DOMAIN seq : seq[i] = x
  BY DEF Range
<1> QED  BY <1>1

\* And the other way round.
LEMMA RangeHas ==
    ASSUME NEW S, NEW seq \in Seq(S), NEW i \in 1..Len(seq)
    PROVE  seq[i] \in Range(seq)
BY DEF Range

\* The two selections of fb_cb_api_messages, and the one that takes messages.
SentBy(r, parts, users) ==
    /\ r \in Seq(AnyPart)
    /\ \A i \in 1..Len(r) : r[i].uid \in users /\ \E k \in 1..Len(parts) : r[i] = parts[k]

\* From returns the parts that the given users have sent.
LEMMA FromType ==
    ASSUME NEW parts \in Seq(AnyPart), NEW users
    PROVE  SentBy(From(parts, users), parts, users)
<1> DEFINE chosen == {p \in Part(Kinds) : p.uid \in users}
           r == Selected(parts, chosen)
<1>1. From(parts, users) = r
  BY DEF From
<1>2. r \in Seq(AnyPart)
  BY SelectedEmbeds
<1>3. Filters(r, parts, chosen)
  BY SelectedFilters
<1> HIDE DEF r
<1> QED  BY <1>1, <1>2, <1>3 DEF Filters, SentBy

\* Requests counts up, at least to one for every sender.
LEMMA RequestsType ==
    ASSUME NEW parts \in Seq(AnyPart), NEW requests \in [User -> Nat]
    PROVE  /\ Requests(requests, parts) \in [User -> Nat]
           /\ \A u \in User : Requests(requests, parts)[u] >= requests[u]
           /\ \A i \in 1..Len(parts) :
                  Requests(requests, parts)[parts[i].uid] > 0
<1> DEFINE Of(u) == {i \in DOMAIN parts : parts[i].uid = u}
<1>1. ASSUME NEW u \in User
      PROVE  IsFiniteSet(Of(u)) /\ Cardinality(Of(u)) \in Nat
  <2>1. Len(parts) \in Nat /\ Of(u) \subseteq 1..Len(parts)
    OBVIOUS
  <2>2. IsFiniteSet(1..Len(parts))
    BY <2>1, FS_Interval
  <2> QED  BY <2>1, <2>2, FS_Subset, FS_CardinalityType
<1>2. Requests(requests, parts) = [u \in User |-> requests[u] + Cardinality(Of(u))]
  BY DEF Requests
<1>3. ASSUME NEW i \in 1..Len(parts)
      PROVE  parts[i].uid \in User /\ Of(parts[i].uid) # {}
  <2>1. parts[i] \in AnyPart /\ i \in DOMAIN parts
    OBVIOUS
  <2>2. i \in Of(parts[i].uid)
    BY <2>1
  <2> QED  BY <2>1, <2>2 DEF AnyPart, Part
<1> HIDE DEF Of
<1>4. ASSUME NEW i \in 1..Len(parts)
      PROVE  Cardinality(Of(parts[i].uid)) > 0
  BY <1>1, <1>3, FS_EmptySet
<1> QED  BY <1>1, <1>2, <1>3, <1>4

\* Parts that are routed are shown or parked, as parts.
LEMMA RouteType ==
    ASSUME NEW parts \in Seq(AnyPart), NEW list \in [User -> Groups],
           NEW waiting \in Seq(AnyPart), NEW requests \in [User -> Nat],
           shown \in Seq(Visible), Route(parts, list, waiting, requests)
    PROVE  parked' \in Seq(AnyPart) /\ asked' \in [User -> Nat] /\ shown' \in Seq(Visible)
<1> DEFINE unknown == From(parts, {u \in User : list[u] = "none"})
           chosen == {p \in Part(Kinds) : list[p.uid] # "none" /\ ~IsPicture(p)}
           known == Selected(parts, chosen)
<1>1. unknown \in Seq(AnyPart)
  BY FromType DEF SentBy
<1>2. known \in Seq(Visible)
  <2>1. known \in Seq(AnyPart)
    BY SelectedEmbeds
  <2>2. ASSUME NEW i \in 1..Len(known)
        PROVE  known[i] \in Visible
    <3>1. Filters(known, parts, chosen)
      BY SelectedFilters
    <3> HIDE DEF known
    <3>2. known[i] \in chosen
      BY <3>1 DEF Filters
    <3> QED  BY <3>2 DEF Part, Visible, Kinds, IsPicture
  <2> HIDE DEF known
  <2> QED  BY <2>1, <2>2, SeqOfElements
<1>3. /\ parked' = waiting \o unknown
      /\ asked' = Requests(requests, unknown)
      /\ shown' = shown \o known
  BY DEF Route
<1> HIDE DEF unknown, known
<1>4. asked' \in [User -> Nat]
  BY <1>1, <1>3, RequestsType
<1> QED  BY <1>1, <1>2, <1>3, <1>4, ConcatProperties

\* The table holds images before and after fb_data_image_queue.
LEMMA QueueImagesType ==
    ASSUME active \subseteq Image, NEW pool \in SUBSET Image, QueueImages(pool)
    PROVE  queued' \subseteq Image /\ active' \subseteq Image
BY DEF QueueImages, Started

\* The same of fb_cb_api_messages as a whole.
LEMMA DeliverType ==
    ASSUME NEW parts \in Seq(AnyPart), NEW list \in [User -> Groups],
           NEW waiting \in Seq(AnyPart), NEW requests \in [User -> Nat],
           shown \in Seq(Visible), queued \subseteq Image, active \subseteq Image,
           Deliver(parts, list, waiting, requests)
    PROVE  /\ parked' \in Seq(AnyPart) /\ asked' \in [User -> Nat] /\ shown' \in Seq(Visible)
           /\ queued' \subseteq Image /\ active' \subseteq Image
<1> DEFINE pictures == {p \in Range(parts) : list[p.uid] # "none" /\ IsPicture(p)}
<1>1. pictures \subseteq Image
  <2>1. \A p \in Range(parts) : p \in AnyPart
    BY RangeElement
  <2> QED  BY <2>1 DEF IsPicture, Image, AnyPart, Part
<1>2. /\ Route(parts, list, waiting, requests)
      /\ IF pictures = {} THEN UNCHANGED imgVars ELSE QueueImages(queued \cup pictures)
  BY DEF Deliver
<1> HIDE DEF pictures
<1>3. queued \cup pictures \subseteq Image
  BY <1>1
<1>4. queued' \subseteq Image /\ active' \subseteq Image
  BY <1>2, <1>3, QueueImagesType DEF imgVars
<1> QED  BY <1>2, <1>4, RouteType

\* The messages of a publication that are looked at: exactly the new ones, in
\* their order.
LEMMA FreshMids ==
    ASSUME TypeOK, NEW new \in Seq(Delta), NEW again \in BOOLEAN,
           Len(log) + Len(new) <= MaxMessages, again => lastmid > 0,
           NEW mids, mids = Fresh(Published(new, again))
    PROVE  /\ mids \in Seq(Message)
           /\ \A i \in 1..Len(mids) : mids[i] \in Len(log) + 1..Len(log) + Len(new)
           /\ \A i, j \in 1..Len(mids) : i < j => mids[i] < mids[j]
           /\ \A m : Count(mids, {m}) = IF m \in Len(log) + 1..Len(log) + Len(new)
                                       THEN 1 ELSE 0
<1> DEFINE L == Len(log)
           N == Len(new)
           before == IF again THEN <<lastmid>> ELSE <<>>
           ids == [i \in 1..N |-> L + i]
           all == before \o ids
           chosen == Message \ {lastmid}
<1>1. L \in Nat /\ N \in Nat /\ L + N <= MaxMessages /\ MaxMessages \in Nat
      /\ lastmid \in 0..L
  BY MessagesAssumption DEF TypeOK
<1>2. mids = Selected(all, chosen)
  BY DEF Fresh, Published
<1> HIDE DEF L, N
<1>3. \A i \in 1..N : L + i \in Message /\ L + i # lastmid
  BY <1>1 DEF Message
<1>4. ids \in Seq(Message) /\ Len(ids) = N /\ \A i \in 1..N : ids[i] = L + i
  BY <1>1, <1>3
<1>5. /\ before \in Seq(Message)
      /\ \A i \in 1..Len(before) : before[i] = lastmid
      /\ Len(before) \in Nat
  <2>1. CASE again
    <3>1. lastmid \in Message
      BY <1>1, <2>1 DEF Message
    <3> QED  BY <2>1, <3>1
  <2>2. CASE ~again
    BY <2>2
  <2> QED  BY <2>1, <2>2
<1> HIDE DEF before, ids
<1>6. /\ all \in Seq(Message) /\ Len(all) = Len(before) + N
      /\ \A i \in 1..Len(before) : all[i] = lastmid
      /\ \A i \in Len(before) + 1..Len(all) : all[i] = L + (i - Len(before))
  <2>1. /\ all \in Seq(Message) /\ Len(all) = Len(before) + Len(ids)
        /\ \A i \in 1..Len(before) + Len(ids) :
               all[i] = IF i <= Len(before) THEN before[i] ELSE ids[i - Len(before)]
    BY <1>4, <1>5, ConcatProperties
  <2> HIDE DEF all
  <2>2. ASSUME NEW i \in Len(before) + 1..Len(all)
        PROVE  all[i] = L + (i - Len(before))
    <3>1. i - Len(before) \in 1..N /\ ~(i <= Len(before)) /\ i \in 1..Len(all)
      BY <1>1, <1>4, <1>5, <2>1
    <3> QED  BY <1>4, <2>1, <3>1
  <2>3. \A i \in 1..Len(before) : all[i] = lastmid
    BY <1>4, <1>5, <2>1
  <2> QED  BY <1>4, <2>1, <2>2, <2>3
<1>7. \A m : Count(mids, {m}) = IF m \in L + 1..L + N THEN 1 ELSE 0
  <2> SUFFICES ASSUME NEW m
               PROVE  Count(mids, {m}) = IF m \in L + 1..L + N THEN 1 ELSE 0
    OBVIOUS
  <2>1. Count(mids, {m}) = Count(all, {m} \cap chosen)
    <3> HIDE DEF all
    <3> QED  BY <1>2, <1>6, CountSelected
  <2>2. Count(all, {m} \cap chosen)
            = Count(before, {m} \cap chosen) + Count(ids, {m} \cap chosen)
    BY <1>4, <1>5, CountConcat
  <2>3. Count(before, {m} \cap chosen) = 0
    BY <1>5, CountZero
  <2>4. CASE m \in L + 1..L + N
    <3>1. m - L \in 1..N /\ L + (m - L) = m
      BY <1>1, <2>4
    <3>2. m \in {m} \cap chosen
      BY <1>3, <3>1
    <3>3. Places(ids, {m} \cap chosen) = {m - L}
      BY <1>1, <1>4, <3>1, <3>2 DEF Places
    <3>4. Count(ids, {m} \cap chosen) = 1
      BY <3>3, FS_Singleton DEF Count
    <3> QED  BY <2>1, <2>2, <2>3, <2>4, <3>4
  <2>5. CASE m \notin L + 1..L + N
    <3>1. \A i \in 1..Len(ids) : ids[i] \notin {m} \cap chosen
      BY <1>1, <1>4, <2>5
    <3>2. Count(ids, {m} \cap chosen) = 0
      BY <1>4, <3>1, CountZero
    <3> QED  BY <2>1, <2>2, <2>3, <2>5, <3>2
  <2> QED  BY <2>4, <2>5
<1>8. mids \in Seq(Message)
  BY <1>2, <1>6, SelectedEmbeds
<1> HIDE DEF all, chosen
<1>9. Filters(mids, all, chosen)
  BY <1>2, <1>6, SelectedFilters
<1>10. \A i \in 1..Len(mids) : mids[i] \in L + 1..L + N
  <2> SUFFICES ASSUME NEW i \in 1..Len(mids)  PROVE mids[i] \in L + 1..L + N
    OBVIOUS
  <2>1. mids[i] # lastmid
    BY <1>9 DEF Filters, chosen
  <2>2. PICK k \in 1..Len(all) : mids[i] = all[k]
    BY <1>9 DEF Filters
  <2>3. k \in Len(before) + 1..Len(all)
    BY <1>1, <1>5, <1>6, <2>1, <2>2
  <2>4. k - Len(before) \in 1..N
    BY <1>1, <1>5, <1>6, <2>3
  <2> QED  BY <1>1, <1>6, <2>2, <2>3, <2>4
<1>11. ASSUME NEW i \in 1..Len(mids), NEW j \in 1..Len(mids), i < j
       PROVE  mids[i] < mids[j]
  <2>1. PICK k, l \in 1..Len(all) : k < l /\ mids[i] = all[k] /\ mids[j] = all[l]
    BY <1>9, <1>11 DEF Filters
  <2>2. mids[i] # lastmid /\ mids[j] # lastmid
    BY <1>1, <1>10
  <2>3. k \in Len(before) + 1..Len(all) /\ l \in Len(before) + 1..Len(all)
    BY <1>1, <1>5, <1>6, <2>1, <2>2
  <2>4. all[k] = L + (k - Len(before)) /\ all[l] = L + (l - Len(before))
    BY <1>6, <2>3
  <2>5. k \in Int /\ l \in Int
    OBVIOUS
  <2> QED  BY <1>1, <1>5, <2>1, <2>4, <2>5
<1> QED  BY <1>7, <1>8, <1>10, <1>11 DEF L, N

\* The parts of a text or an attachment.
At(o) == {p \in AnyPart : Origin(p) = o}

\* InSeq counts the parts of an origin.
LEMMA InSeqCount ==
    ASSUME NEW seq \in Seq(AnyPart), NEW o
    PROVE  InSeq(seq, o) = Count(seq, At(o)) /\ InSeq(seq, o) \in Nat
<1>1. {i \in DOMAIN seq : Origin(seq[i]) = o} = Places(seq, At(o))
  <2>1. DOMAIN seq = 1..Len(seq) /\ \A i \in 1..Len(seq) : seq[i] \in AnyPart
    OBVIOUS
  <2> QED  BY <2>1 DEF Places, At
<1>2. InSeq(seq, o) = Count(seq, At(o))
  BY <1>1 DEF InSeq, Count
<1> QED  BY <1>2, CountType

\* What api.c hands over of the messages mids.
TextsOf(texts, mids, deltas) ==
    /\ texts \in Seq(AnyPart)
    /\ \A i \in 1..Len(texts) :
           /\ texts[i].kind = "text" /\ texts[i].uid = deltas[texts[i].id].from
           /\ \E k \in 1..Len(mids) : texts[i].id = mids[k]
    /\ \A i, j \in 1..Len(texts) : i < j => texts[i].id < texts[j].id
    /\ \A m : InSeq(texts, <<m, "file">>) = 0
    /\ \A m : InSeq(texts, <<m, "text">>)
                 = Count(mids, {m} \cap {n \in DOMAIN deltas : "text" \in deltas[n].parts})

\* The texts that fb_api_cb_publish_ms hands over of given messages.
LEMMA TextsAre ==
    ASSUME NEW deltas \in Seq(Delta), NEW mids \in Seq(Message),
           \A i \in 1..Len(mids) : mids[i] \in 1..Len(deltas),
           \A i, j \in 1..Len(mids) : i < j => mids[i] < mids[j],
           NEW texts, texts = Texts(mids, deltas)
    PROVE  TextsOf(texts, mids, deltas)
<1> DEFINE chosen == {n \in DOMAIN deltas : "text" \in deltas[n].parts}
           sel == Selected(mids, chosen)
<1>1. sel \in Seq(Message)
  BY SelectedEmbeds
<1>2. Filters(sel, mids, chosen)
  BY SelectedFilters
<1>3. \A T : Count(sel, T) = Count(mids, T \cap chosen)
  BY CountSelected
<1>4. texts = [i \in DOMAIN sel |->
                  [id |-> sel[i], uid |-> deltas[sel[i]].from, kind |-> "text"]]
  BY DEF Texts
<1> HIDE DEF sel
<1>5. DOMAIN sel = 1..Len(sel) /\ Len(sel) \in Nat
  BY <1>1
<1>6. ASSUME NEW i \in 1..Len(sel)
      PROVE  /\ sel[i] \in Message /\ sel[i] \in chosen
             /\ deltas[sel[i]].from \in User
             /\ \E k \in 1..Len(mids) : sel[i] = mids[k]
  <2>1. sel[i] \in Message /\ sel[i] \in chosen /\ \E k \in 1..Len(mids) : sel[i] = mids[k]
    BY <1>1, <1>2 DEF Filters
  <2>2. sel[i] \in 1..Len(deltas)
    BY <2>1
  <2>3. deltas[sel[i]] \in Delta
    BY <2>2
  <2> QED  BY <2>1, <2>3 DEF Delta
<1>7. ASSUME NEW i \in 1..Len(sel)
      PROVE  [id |-> sel[i], uid |-> deltas[sel[i]].from, kind |-> "text"] \in AnyPart
  BY <1>6 DEF AnyPart, Part, Kinds
<1>8. texts \in Seq(AnyPart) /\ Len(texts) = Len(sel)
  BY <1>4, <1>5, <1>7
<1>9. ASSUME NEW i \in 1..Len(sel)
      PROVE  /\ texts[i].id = sel[i] /\ texts[i].kind = "text"
             /\ texts[i].uid = deltas[sel[i]].from
  BY <1>4, <1>5
<1>10. ASSUME NEW i \in 1..Len(sel), NEW j \in 1..Len(sel), i < j
       PROVE  texts[i].id < texts[j].id
  <2>1. PICK k, l \in 1..Len(mids) : k < l /\ sel[i] = mids[k] /\ sel[j] = mids[l]
    BY <1>2, <1>10 DEF Filters
  <2>2. sel[i] < sel[j]
    BY <2>1
  <2> QED  BY <1>9, <2>2
<1>11. \A m : InSeq(texts, <<m, "file">>) = 0
  <2> SUFFICES ASSUME NEW m  PROVE InSeq(texts, <<m, "file">>) = 0
    OBVIOUS
  <2>1. \A i \in 1..Len(texts) : texts[i] \notin At(<<m, "file">>)
    BY <1>8, <1>9 DEF At, Origin
  <2>2. Count(texts, At(<<m, "file">>)) = 0
    BY <1>8, <2>1, CountZero
  <2> QED  BY <1>8, <2>2, InSeqCount
<1>12. \A m : InSeq(texts, <<m, "text">>) = Count(mids, {m} \cap chosen)
  <2> SUFFICES ASSUME NEW m
               PROVE  InSeq(texts, <<m, "text">>) = Count(mids, {m} \cap chosen)
    OBVIOUS
  <2>1. ASSUME NEW i \in 1..Len(sel)
        PROVE  Origin(texts[i]) = <<m, "text">> <=> sel[i] \in {m}
    BY <1>9 DEF Origin
  <2>2. DOMAIN texts = 1..Len(sel)
    BY <1>4, <1>5
  <2>3. {i \in DOMAIN texts : Origin(texts[i]) = <<m, "text">>} = Places(sel, {m})
    BY <2>1, <2>2 DEF Places
  <2>4. InSeq(texts, <<m, "text">>) = Count(sel, {m})
    BY <2>3 DEF InSeq, Count
  <2> QED  BY <1>3, <2>4
<1> QED  BY <1>6, <1>8, <1>9, <1>10, <1>11, <1>12 DEF TextsOf

\* A publication looks at the messages New, asks for their attachments, and
\* hands over their texts.
New(new) == Len(log) + 1..Len(log) + Len(new)

PublishStep(new, bad, texts) ==
    /\ new \in Seq(Delta) /\ Len(log) + Len(new) <= MaxMessages
    /\ log' = log \o new
    /\ lastmid' = lastmid \/ lastmid' \in New(new)
    /\ attaching' = attaching \cup {m \in New(new) : "file" \in log'[m].parts}
    /\ texts \in Seq(AnyPart)
    /\ \A i \in 1..Len(texts) :
           /\ texts[i].kind = "text" /\ texts[i].id \in New(new)
           /\ texts[i].uid = log'[texts[i].id].from
    /\ \A i, j \in 1..Len(texts) : i < j => texts[i].id < texts[j].id
    /\ \A m : InSeq(texts, <<m, "file">>) = 0
    /\ \A m : InSeq(texts, <<m, "text">>) =
                  IF m \in New(new) /\ "text" \in log'[m].parts THEN 1 ELSE 0
    /\ IF bad
       THEN /\ failed' = TRUE
            /\ lost' = lost \cup Origins(Range(texts))
            /\ UNCHANGED <<dataVars, imgVars, shown>>
       ELSE Deliver(texts, blist, parked, asked) /\ UNCHANGED <<failed, lost>>
    /\ UNCHANGED <<blist, icons>>

\* Its step in terms of what it adds: the texts of the deltas it has looked at.
LEMMA PublishMsStep ==
    ASSUME TypeOK, NEW new \in SeqOf(Delta, MaxBatch),
           NEW again \in BOOLEAN, NEW bad \in BOOLEAN, PublishMs(new, again, bad)
    PROVE  \E texts : PublishStep(new, bad, texts)
<1> DEFINE mids == Fresh(Published(new, again))
           deltas == log \o new
           texts == Texts(mids, deltas)
<1>1. new \in Seq(Delta)
  <2>1. PICK m \in 0..MaxBatch : new \in [1..m -> Delta]
    BY DEF SeqOf
  <2>2. m \in Nat
    BY MessagesAssumption
  <2> QED  BY <2>1, <2>2
<1>2. Len(log) + Len(new) <= MaxMessages /\ (again => lastmid > 0)
  BY DEF PublishMs
<1>3. log \in Seq(Delta)
  BY DEF TypeOK, Delta
<1>4. /\ deltas \in Seq(Delta) /\ Len(deltas) = Len(log) + Len(new)
      /\ Len(log) \in Nat /\ Len(new) \in Nat
  BY <1>1, <1>3, ConcatProperties
<1>5. /\ log' = deltas
      /\ lastmid' = IF mids = <<>> THEN lastmid ELSE Last(mids)
      /\ attaching' = attaching \cup {m \in Range(mids) : "file" \in deltas[m].parts}
      /\ IF bad
         THEN /\ failed' = TRUE
              /\ lost' = lost \cup Origins(Range(texts))
              /\ UNCHANGED <<dataVars, imgVars, shown>>
         ELSE Deliver(texts, blist, parked, asked) /\ UNCHANGED <<failed, lost>>
      /\ UNCHANGED <<blist, icons>>
  BY DEF PublishMs
<1>6. mids = Fresh(Published(new, again)) /\ texts = Texts(mids, deltas)
  OBVIOUS
<1> HIDE DEF mids, texts, deltas
<1>7. /\ mids \in Seq(Message)
      /\ \A i \in 1..Len(mids) : mids[i] \in New(new)
      /\ \A i, j \in 1..Len(mids) : i < j => mids[i] < mids[j]
      /\ \A m : Count(mids, {m}) = IF m \in New(new) THEN 1 ELSE 0
  BY <1>1, <1>2, <1>6, FreshMids DEF New
<1>8. \A i \in 1..Len(mids) : mids[i] \in 1..Len(deltas)
  BY <1>4, <1>7 DEF New
<1>9. TextsOf(texts, mids, deltas)
  BY <1>4, <1>6, <1>7, <1>8, TextsAre
<1> USE DEF TextsOf
<1>10. Range(mids) = New(new)
  <2>1. ASSUME NEW m \in Range(mids)
        PROVE  m \in New(new)
    BY <1>7, RangeElement
  <2>2. ASSUME NEW m \in New(new)
        PROVE  m \in Range(mids)
    <3>1. Count(mids, {m}) # 0
      BY <1>7
    <3>2. PICK i \in 1..Len(mids) : mids[i] \in {m}
      BY <1>7, <3>1, CountZero
    <3> QED  BY <1>7, <3>2, RangeHas
  <2> QED  BY <2>1, <2>2
<1>11. lastmid' = lastmid \/ lastmid' \in New(new)
  <2>1. CASE mids = <<>>
    BY <1>5, <2>1
  <2>2. CASE mids # <<>>
    <3>1. Len(mids) \in 1..Len(mids)
      BY <1>7, <2>2, EmptySeq
    <3> QED  BY <1>5, <1>7, <2>2, <3>1 DEF Last
  <2> QED  BY <2>1, <2>2
<1>12. ASSUME NEW m
       PROVE  InSeq(texts, <<m, "text">>) =
                  IF m \in New(new) /\ "text" \in deltas[m].parts THEN 1 ELSE 0
  <2> DEFINE having == {n \in DOMAIN deltas : "text" \in deltas[n].parts}
  <2>1. New(new) \subseteq DOMAIN deltas
    BY <1>4 DEF New
  <2>2. CASE m \in having
    <3>1. {m} \cap having = {m}
      BY <2>2
    <3> QED  BY <1>7, <1>9, <2>2, <3>1
  <2>3. CASE m \notin having
    <3>1. Count(mids, {m} \cap having) = 0
      BY <1>7, <2>3, CountZero
    <3> QED  BY <1>9, <2>1, <2>3, <3>1
  <2> QED  BY <2>2, <2>3
<1>13. \A i \in 1..Len(texts) : texts[i].id \in New(new)
  BY <1>7, <1>9
<1>14. attaching' = attaching \cup {m \in New(new) : "file" \in log'[m].parts}
  BY <1>5, <1>10
<1>15. PublishStep(new, bad, texts)
  BY <1>1, <1>2, <1>5, <1>9, <1>11, <1>12, <1>13, <1>14 DEF PublishStep, deltas
<1> QED  BY <1>15

\* The messages of u leave the queue, and u is on the list.
LEMMA TakenType ==
    ASSUME TypeOK, NEW u \in User
    PROVE  /\ TakeMessages(u) \in Seq(AnyPart)
           /\ From(parked, User \ {u}) \in Seq(AnyPart)
           /\ [asked EXCEPT ![u] = @ - 1] \in [User -> Int]
           /\ asked[u] > 0 => [asked EXCEPT ![u] = @ - 1] \in [User -> Nat]
           /\ (IF blist[u] = "none" THEN [blist EXCEPT ![u] = "other"] ELSE blist)
                  \in [User -> Groups]
<1>1. parked \in Seq(AnyPart) /\ asked \in [User -> Nat] /\ blist \in [User -> Groups]
  BY DEF TypeOK, AnyPart, Groups
<1>2. TakeMessages(u) \in Seq(AnyPart) /\ From(parked, User \ {u}) \in Seq(AnyPart)
  BY <1>1, FromType DEF TakeMessages, SentBy
<1> QED  BY <1>1, <1>2 DEF Groups

\* An attachment is a part of its message.
LEMMA AttachmentType ==
    ASSUME TypeOK, NEW m \in attaching, NEW kind \in {"link", "picture"}
    PROVE  <<[id |-> m, uid |-> log[m].from, kind |-> kind]>> \in Seq(AnyPart)
<1>1. m \in 1..Len(log) /\ log \in Seq(Delta) /\ Len(log) \in Nat
  BY DEF TypeOK, Delta
<1>2. log[m].from \in User
  <2>1. log[m] \in Delta
    BY <1>1
  <2> QED  BY <2>1 DEF Delta
<1>3. m \in Message
  BY <1>1, MessagesAssumption DEF TypeOK, Message
<1> QED  BY <1>2, <1>3 DEF AnyPart, Part, Kinds

\* A photo is a part, like the picture it comes from.
LEMMA PhotoType ==
    ASSUME NEW img \in Image, IsPicture(img)
    PROVE  <<[img EXCEPT !.kind = "photo"]>> \in Seq(AnyPart)
<1>1. img \in Part({"picture"})
  BY DEF Image, Icon, IsPicture
<1>2. [img EXCEPT !.kind = "photo"] \in AnyPart
  BY <1>1 DEF Part, AnyPart, Kinds
<1> QED  BY <1>2

\* A page of contacts brings icons.
LEMMA IconsType ==
    ASSUME icons \in 0..MaxIcons, NEW users, NEW changed \in SUBSET User,
           CbContacts(users, changed)
    PROVE  [id : {icons + 1}, uid : changed, kind : {"icon"}] \subseteq Icon
<1>1. CASE changed = {}
  BY <1>1
<1>2. CASE changed # {}
  BY <1>2, MessagesAssumption DEF CbContacts, Icon
<1> QED  BY <1>1, <1>2

\* Every step keeps the types.
LEMMA OvertakenStep ==
    ASSUME [Next]_vars
    PROVE  overtaken' = overtaken \/ Overtake(blist')
<1>1. ASSUME NEW new, NEW again, NEW bad, PublishMs(new, again, bad)
      PROVE  overtaken' = overtaken
  BY <1>1 DEF PublishMs
<1>2. ASSUME NEW m, CbAttach(m) \/ AttachFailed(m)
      PROVE  overtaken' = overtaken
  BY <1>2 DEF CbAttach, AttachFailed
<1>3. ASSUME NEW u, CbContact(u) \/ ContactFailed(u)
      PROVE  overtaken' = overtaken
  BY <1>3 DEF CbContact, ContactFailed
<1>4. ASSUME NEW a, NEW b, CbContacts(a, b) \/ CbContactsDelta(a, b)
      PROVE  Overtake(blist')
  BY <1>4 DEF CbContacts, CbContactsDelta
<1>5. ASSUME NEW img, ImageDone(img) \/ ImageFailed(img)
      PROVE  overtaken' = overtaken
  BY <1>5 DEF ImageDone, ImageFailed
<1>6. CASE Restart
  BY <1>6 DEF Restart
<1>7. CASE UNCHANGED vars
  BY <1>7 DEF vars
<1> QED  BY <1>1, <1>2, <1>3, <1>4, <1>5, <1>6, <1>7 DEF Next

LEMMA TypeStep ==
    ASSUME TypeOK, [Next]_vars
    PROVE  TypeOK'
<1>0. overtaken' \subseteq User
  BY OvertakenStep DEF TypeOK, Overtake
<1>1. /\ log \in Seq(Delta) /\ Len(log) \in 0..MaxMessages /\ MaxMessages \in Nat
      /\ DOMAIN log = 1..Len(log)
      /\ lastmid \in 0..Len(log) /\ failed \in BOOLEAN /\ blist \in [User -> Groups]
      /\ attaching \subseteq 1..Len(log)
      /\ asked \in [User -> Nat] /\ parked \in Seq(AnyPart)
      /\ queued \subseteq Image /\ active \subseteq Image
      /\ icons \in 0..MaxIcons /\ shown \in Seq(Visible)
      /\ lost \subseteq Message \X {"text", "file"}
      /\ attaching \subseteq Message
  BY MessagesAssumption DEF TypeOK, AnyPart, Visible, Groups, Delta, Message
<1>2. ASSUME /\ log' \in Seq(Delta) /\ Len(log') <= MaxMessages
             /\ lastmid' \in 0..Len(log') /\ failed' \in BOOLEAN
             /\ blist' \in [User -> Groups]
             /\ attaching' \subseteq 1..Len(log')
             /\ asked' \in [User -> Nat] /\ parked' \in Seq(AnyPart)
             /\ queued' \subseteq Image /\ active' \subseteq Image
             /\ icons' \in 0..MaxIcons /\ shown' \in Seq(Visible)
             /\ lost' \subseteq Message \X {"text", "file"}
      PROVE  TypeOK'
  <2>1. DOMAIN log' = 1..Len(log')
    BY <1>2
  <2> QED  BY <1>0, <1>2, <2>1 DEF TypeOK, AnyPart, Visible, Groups, Delta
<1> DEFINE Delivering == \E parts \in Seq(AnyPart), list \in [User -> Groups],
                           waiting \in Seq(AnyPart), requests \in [User -> Nat] :
                           Deliver(parts, list, waiting, requests)
<1>3. ASSUME Delivering
      PROVE  /\ parked' \in Seq(AnyPart) /\ asked' \in [User -> Nat]
             /\ shown' \in Seq(Visible)
             /\ queued' \subseteq Image /\ active' \subseteq Image
  BY <1>1, <1>3, DeliverType
<1> HIDE DEF Delivering
<1>4. \A q, o : q \subseteq Image => Origins(q) \subseteq Message \X {"text", "file"}
  BY DEF Origins, Origin, Image, Icon, Part
<1>5. \A seq \in Seq(AnyPart) : Origins(Range(seq)) \subseteq Message \X {"text", "file"}
  <2> SUFFICES ASSUME NEW seq \in Seq(AnyPart), NEW p \in Range(seq)
               PROVE  Origin(p) \in Message \X {"text", "file"}
    BY DEF Origins
  <2>1. p \in AnyPart
    BY RangeElement
  <2> QED  BY <2>1 DEF AnyPart, Part, Origin
<1>6. ASSUME NEW new \in SeqOf(Delta, MaxBatch), NEW again \in BOOLEAN, NEW bad \in BOOLEAN,
             PublishMs(new, again, bad)
      PROVE  TypeOK'
  <2>1. PICK texts : PublishStep(new, bad, texts)
    BY <1>6, PublishMsStep
  <2>2. /\ new \in Seq(Delta) /\ log' = log \o new /\ Len(new) \in Nat
        /\ Len(log) + Len(new) <= MaxMessages
    BY <2>1 DEF PublishStep
  <2>3. log' \in Seq(Delta) /\ Len(log') = Len(log) + Len(new)
    BY <1>1, <2>2, ConcatProperties
  <2>4. New(new) \subseteq 1..Len(log')
    BY <1>1, <2>2, <2>3 DEF New
  <2>5. lastmid' \in 0..Len(log') /\ attaching' \subseteq 1..Len(log')
    <3>1. /\ lastmid' = lastmid \/ lastmid' \in New(new)
          /\ attaching' \subseteq attaching \cup New(new)
      BY <2>1 DEF PublishStep
    <3>2. 1..Len(log) \subseteq 1..Len(log') /\ 0..Len(log) \subseteq 0..Len(log')
      BY <1>1, <2>2, <2>3
    <3>3. 1..Len(log') \subseteq 0..Len(log')
      BY <1>1, <2>2, <2>3
    <3> QED  BY <1>1, <2>4, <3>1, <3>2, <3>3
  <2>6. texts \in Seq(AnyPart) /\ UNCHANGED <<blist, icons>>
    BY <2>1 DEF PublishStep
  <2>7. CASE bad
    <3>1. /\ failed' = TRUE /\ lost' = lost \cup Origins(Range(texts))
          /\ UNCHANGED <<asked, parked, queued, active, shown>>
      BY <2>1, <2>7 DEF PublishStep, dataVars, imgVars
    <3>2. lost' \subseteq Message \X {"text", "file"}
      BY <1>1, <1>5, <2>6, <3>1
    <3> QED  BY <1>1, <1>2, <2>2, <2>3, <2>5, <2>6, <3>1, <3>2
  <2>8. CASE ~bad
    <3>1. Deliver(texts, blist, parked, asked) /\ UNCHANGED <<failed, lost>>
      BY <2>1, <2>8 DEF PublishStep
    <3>2. Delivering
      BY <1>1, <2>6, <3>1 DEF Delivering
    <3> QED  BY <1>1, <1>2, <1>3, <2>2, <2>3, <2>5, <2>6, <3>1, <3>2
  <2> QED  BY <1>6, <2>7, <2>8
<1>7. ASSUME NEW m \in Message, CbAttach(m)
      PROVE  TypeOK'
  <2>1. Delivering
    <3>1. PICK kind \in {"link", "picture"} :
              Deliver(<<[id |-> m, uid |-> log[m].from, kind |-> kind]>>,
                      blist, parked, asked)
      BY <1>7 DEF CbAttach
    <3>2. <<[id |-> m, uid |-> log[m].from, kind |-> kind]>> \in Seq(AnyPart)
      BY <1>7, AttachmentType DEF CbAttach
    <3> QED  BY <1>1, <3>1, <3>2 DEF Delivering
  <2>2. attaching' \subseteq attaching /\ UNCHANGED <<log, lastmid, failed, blist, icons, lost>>
    BY <1>7 DEF CbAttach
  <2> QED  BY <1>1, <1>2, <1>3, <2>1, <2>2
<1>8. ASSUME NEW m \in Message, AttachFailed(m)
      PROVE  TypeOK'
  <2>1. /\ attaching' = attaching \ {m} /\ lost' = lost \cup {<<m, "file">>}
        /\ failed' \in {failed, TRUE}
        /\ UNCHANGED <<log, lastmid, blist, asked, parked, queued, active, icons, shown>>
    BY <1>8 DEF AttachFailed, dataVars, imgVars
  <2>2. /\ log' \in Seq(Delta) /\ Len(log') <= MaxMessages
        /\ lastmid' \in 0..Len(log')
        /\ blist' \in [User -> Groups] /\ attaching' \subseteq 1..Len(log')
    BY <1>1, <2>1
  <2>3. /\ asked' \in [User -> Nat] /\ parked' \in Seq(AnyPart)
        /\ queued' \subseteq Image /\ active' \subseteq Image
        /\ icons' \in 0..MaxIcons /\ shown' \in Seq(Visible)
        /\ lost' \subseteq Message \X {"text", "file"}
    BY <1>1, <2>1
  <2>4. failed' \in BOOLEAN
    BY <1>1, <2>1, Zenon
  <2> QED  BY <1>2, <2>2, <2>3, <2>4
<1>9. ASSUME NEW u \in User, CbContact(u)
      PROVE  TypeOK'
  <2> DEFINE list == IF blist[u] = "none" THEN [blist EXCEPT ![u] = "other"] ELSE blist
             requests == [asked EXCEPT ![u] = @ - 1]
  <2>1. /\ asked[u] > 0 /\ blist' = list /\ UNCHANGED <<log, lastmid, failed, attaching, icons, lost>>
        /\ Deliver(TakeMessages(u), list, From(parked, User \ {u}), requests)
    BY <1>9 DEF CbContact, apiVars
  <2>2. /\ TakeMessages(u) \in Seq(AnyPart) /\ From(parked, User \ {u}) \in Seq(AnyPart)
        /\ list \in [User -> Groups] /\ requests \in [User -> Nat]
    BY <2>1, TakenType
  <2> HIDE DEF list, requests
  <2>3. Delivering
    BY <2>1, <2>2 DEF Delivering
  <2> QED  BY <1>1, <1>2, <1>3, <2>1, <2>2, <2>3
<1>10. ASSUME NEW u \in User, ContactFailed(u)
       PROVE  TypeOK'
  <2>1. /\ asked[u] > 0 /\ asked' = [asked EXCEPT ![u] = @ - 1]
        /\ failed' = TRUE \/ failed' = failed
        /\ UNCHANGED <<log, lastmid, attaching, blist, parked, queued, active, icons, shown, lost>>
    BY <1>10 DEF ContactFailed, imgVars
  <2>2. asked' \in [User -> Nat]
    BY <1>1, <2>1
  <2>3. /\ log' \in Seq(Delta) /\ Len(log') <= MaxMessages
        /\ lastmid' \in 0..Len(log')
        /\ blist' \in [User -> Groups] /\ attaching' \subseteq 1..Len(log')
    BY <1>1, <2>1, <2>2
  <2>4. /\ asked' \in [User -> Nat] /\ parked' \in Seq(AnyPart)
        /\ queued' \subseteq Image /\ active' \subseteq Image
        /\ icons' \in 0..MaxIcons /\ shown' \in Seq(Visible)
        /\ lost' \subseteq Message \X {"text", "file"}
    BY <1>1, <2>1, <2>2
  <2>5. failed' \in BOOLEAN
    BY <1>1, <2>1, Zenon
  <2> QED  BY <1>2, <2>3, <2>4, <2>5
<1>11. ASSUME NEW users \in SUBSET User, NEW changed \in SUBSET users,
              CbContacts(users, changed)
       PROVE  TypeOK'
  <2> DEFINE added == [id : {icons + 1}, uid : changed, kind : {"icon"}]
  <2>1. added \subseteq Image
    BY <1>1, <1>11, IconsType DEF Image
  <2>2. QueueImages(queued \cup added)
    BY <1>11 DEF CbContacts
  <2> HIDE DEF added
  <2>3. queued' \subseteq Image /\ active' \subseteq Image
    BY <1>1, <2>1, <2>2, QueueImagesType
  <2>4. /\ icons' \in 0..MaxIcons /\ blist' \in [User -> Groups]
        /\ UNCHANGED <<log, lastmid, failed, attaching, asked, parked, shown, lost>>
    BY <1>1, <1>11, MessagesAssumption DEF CbContacts, apiVars, dataVars, Groups
  <2> QED  BY <1>1, <1>2, <2>3, <2>4
<1>12. ASSUME NEW added, NEW removed, CbContactsDelta(added, removed)
       PROVE  TypeOK'
  <2>1. /\ blist' \in [User -> Groups]
        /\ UNCHANGED <<log, lastmid, failed, attaching, asked, parked, queued, active,
                       icons, shown, lost>>
    BY <1>1, <1>12 DEF CbContactsDelta, apiVars, dataVars, imgVars, Groups
  <2> QED  BY <1>1, <1>2, <2>1
<1>13. ASSUME NEW img \in Image, ImageDone(img)
       PROVE  TypeOK'
  <2>1. /\ parked' \in Seq(AnyPart) /\ asked' \in [User -> Nat] /\ shown' \in Seq(Visible)
    <3>1. CASE IsPicture(img)
      <4>1. Route(<<[img EXCEPT !.kind = "photo"]>>, blist, parked, asked)
        BY <1>13, <3>1 DEF ImageDone, ImageFunc
      <4>2. <<[img EXCEPT !.kind = "photo"]>> \in Seq(AnyPart)
        BY <3>1, PhotoType
      <4> QED  BY <1>1, <4>1, <4>2, RouteType
    <3>2. CASE ~IsPicture(img)
      BY <1>1, <1>13, <3>2 DEF ImageDone, ImageFunc, dataVars
    <3> QED  BY <3>1, <3>2
  <2>2. queued' \subseteq Image /\ active' \subseteq Image
    BY <1>1, <1>13 DEF ImageDone, Started
  <2>3. UNCHANGED <<log, lastmid, failed, attaching, blist, icons, lost>>
    BY <1>13 DEF ImageDone, apiVars
  <2> QED  BY <1>1, <1>2, <2>1, <2>2, <2>3
<1>14. ASSUME NEW img \in Image, ImageFailed(img)
       PROVE  TypeOK'
  <2>1. /\ active' \subseteq Image /\ lost' = lost \cup Origins({img})
        /\ UNCHANGED <<log, lastmid, failed, attaching, blist, asked, parked, queued, icons, shown>>
    BY <1>1, <1>14 DEF ImageFailed, apiVars, dataVars
  <2>2. lost' \subseteq Message \X {"text", "file"}
    BY <1>1, <1>4, <2>1
  <2>3. /\ log' \in Seq(Delta) /\ Len(log') <= MaxMessages
        /\ lastmid' \in 0..Len(log') /\ failed' \in BOOLEAN
        /\ blist' \in [User -> Groups] /\ attaching' \subseteq 1..Len(log')
    BY <1>1, <2>1, <2>2
  <2>4. /\ asked' \in [User -> Nat] /\ parked' \in Seq(AnyPart)
        /\ queued' \subseteq Image /\ active' \subseteq Image
        /\ icons' \in 0..MaxIcons /\ shown' \in Seq(Visible)
        /\ lost' \subseteq Message \X {"text", "file"}
    BY <1>1, <2>1, <2>2
  <2> QED  BY <1>2, <2>3, <2>4
<1>15. CASE Restart
  <2>1. lost' = lost \cup Origins(queued \cup active \cup Range(parked)) \cup attaching \X {"file"}
    BY <1>15 DEF Restart
  <2>2. Origins(queued \cup active \cup Range(parked))
            = Origins(queued \cup active) \cup Origins(Range(parked))
    BY DEF Origins
  <2>3. lost' \subseteq Message \X {"text", "file"}
    <3>1. Origins(queued \cup active) \subseteq Message \X {"text", "file"}
      BY <1>1, <1>4
    <3>2. Origins(Range(parked)) \subseteq Message \X {"text", "file"}
      BY <1>1, <1>5
    <3> QED  BY <1>1, <2>1, <2>2, <3>1, <3>2
  <2>4. /\ lastmid' = 0 /\ failed' = FALSE /\ attaching' = {}
        /\ asked' \in [User -> Nat] /\ parked' = <<>>
        /\ queued' = {} /\ active' = {}
        /\ UNCHANGED <<log, blist, icons, shown>>
    BY <1>15 DEF Restart
  <2>5. parked' \in Seq(AnyPart) /\ lastmid' \in 0..Len(log')
    BY <1>1, <2>4
  <2>6. /\ log' \in Seq(Delta) /\ Len(log') <= MaxMessages
        /\ lastmid' \in 0..Len(log')
        /\ blist' \in [User -> Groups] /\ attaching' \subseteq 1..Len(log')
    BY <1>1, <2>3, <2>4, <2>5
  <2>7. /\ asked' \in [User -> Nat] /\ parked' \in Seq(AnyPart)
        /\ queued' \subseteq Image /\ active' \subseteq Image
        /\ icons' \in 0..MaxIcons /\ shown' \in Seq(Visible)
        /\ lost' \subseteq Message \X {"text", "file"}
    BY <1>1, <2>3, <2>4, <2>5
  <2>8. failed' \in BOOLEAN
    BY <1>1, <2>4, Zenon
  <2> QED  BY <1>2, <2>6, <2>7, <2>8
<1>16. CASE UNCHANGED vars
  BY <1>1, <1>2, <1>16 DEF vars, apiVars, dataVars, imgVars
<1> QED
  BY <1>6, <1>7, <1>8, <1>9, <1>10, <1>11, <1>12, <1>13, <1>14, <1>15, <1>16
     DEF Next, Delta

\* They hold at the start.
LEMMA TypeInit == Init => TypeOK
<1> SUFFICES ASSUME Init PROVE TypeOK
  OBVIOUS
<1>1. <<>> \in Seq(Part(Kinds)) /\ <<>> \in Seq(Part({"text", "link", "photo"}))
      /\ <<>> \in Seq([from : User, parts : Contents])
  OBVIOUS
<1>2. Len(log) = 0 /\ MaxMessages \in Nat /\ MaxIcons \in Nat
  BY MessagesAssumption DEF Init
<1>3. /\ log = <<>> /\ lastmid = 0 /\ failed = FALSE
      /\ blist \in [User -> {"none", "friend", "other"}]
      /\ attaching = {} /\ asked = [u \in User |-> 0] /\ parked = <<>>
      /\ queued = {} /\ active = {} /\ icons = 0
      /\ shown = <<>> /\ lost = {} /\ overtaken = {}
  BY DEF Init
<1>4. log \in Seq([from : User, parts : Contents]) /\ Len(log) <= MaxMessages
      /\ lastmid \in 0..Len(log)
  BY <1>1, <1>2, <1>3
<1>5. icons \in 0..MaxIcons /\ asked \in [User -> Nat]
  BY <1>2, <1>3
<1>6. attaching \subseteq DOMAIN log
  BY <1>3
<1>7. parked \in Seq(Part(Kinds)) /\ shown \in Seq(Part({"text", "link", "photo"}))
  BY <1>1, <1>3
<1> QED  BY <1>3, <1>4, <1>5, <1>6, <1>7 DEF TypeOK

\* Every part is in a place where it can be: what is shown has been downloaded,
\* and an attachment is only asked for of a message that arrived.
THEOREM Typed == Spec => []TypeOK
<1>1. TypeOK /\ [Next]_vars => TypeOK'
  BY TypeStep
<1> QED  BY <1>1, TypeInit, PTL DEF Spec

-----------------------------------------------------------------------------
(* The table of image downloads.                                           *)

\* What the table satisfies between two steps.
Table == /\ queued \subseteq Image /\ active \subseteq Image
         /\ icons \in Nat
         /\ ActiveBounded
         /\ Busy

\* There are finitely many parts of a kind, up to a message number.
LEMMA FiniteRecords ==
    ASSUME NEW n \in Nat, NEW k
    PROVE  IsFiniteSet([id : 1..n, uid : User, kind : {k}])
<1> DEFINE S == (1..n) \X User
           T == [id : 1..n, uid : User, kind : {k}]
           f == [p \in S |-> [id |-> p[1], uid |-> p[2], kind |-> k]]
<1>1. IsFiniteSet(S)
  <2>1. IsFiniteSet(1..n)
    BY FS_Interval
  <2>2. IsFiniteSet(User)
    BY MessagesAssumption
  <2> QED  BY <2>1, <2>2, FS_Product
<1>2. f \in [S -> T]
  OBVIOUS
<1>3. \A t \in T : \E p \in S : f[p] = t
  <2> TAKE t \in T
  <2>1. <<t.id, t.uid>> \in S
    OBVIOUS
  <2>2. f[<<t.id, t.uid>>] = t
    OBVIOUS
  <2> QED  BY <2>1, <2>2
<1>4. f \in Surjection(S, T)
  BY <1>2, <1>3 DEF Surjection
<1> QED  BY <1>1, <1>4, FS_Surjection

\* Only finitely many images ever enter the table.
LEMMA FiniteImage == IsFiniteSet(Image)
<1>1. IsFiniteSet(Part({"picture"})) /\ IsFiniteSet(Icon)
  BY FiniteRecords, MessagesAssumption DEF Part, Icon, Message
<1> QED  BY <1>1, FS_Union DEF Image

\* What fb_data_image_queue starts: nothing with a full table, else all that
\* wait or as many as fill the table.
LEMMA StartedFills ==
    ASSUME NEW act \in SUBSET Image, NEW pool \in SUBSET Image,
           NEW new \in Started(act, pool),
           Cardinality(act) <= MaxActive
    PROVE  /\ new \subseteq pool
           /\ IsFiniteSet(act \cup new)
           /\ Cardinality(act \cup new) \in Nat
           /\ Cardinality(act \cup new) <= MaxActive
           /\ new = pool \/ Cardinality(act \cup new) = MaxActive
<1>1. new \subseteq pool
  BY DEF Started
<1>2. IsFiniteSet(act \cup new) /\ IsFiniteSet(act)
  BY <1>1, FiniteImage, FS_Subset
<1>3. Cardinality(act \cup new) \in Nat /\ Cardinality(act) \in Nat
  BY <1>2, FS_CardinalityType
<1>4. CASE Cardinality(act) >= MaxActive
  <2>1. new = {}
    BY <1>4 DEF Started
  <2>2. act \cup new = act
    BY <2>1
  <2> QED  BY <1>1, <1>2, <1>3, <1>4, <2>2, MessagesAssumption
<1>5. CASE ~(Cardinality(act) >= MaxActive)
  BY <1>1, <1>2, <1>3, <1>5, MessagesAssumption DEF Started
<1> QED  BY <1>4, <1>5

\* A call of fb_data_image_queue keeps the table in order.
LEMMA QueueImagesTable ==
    ASSUME Table, NEW pool \in SUBSET Image, QueueImages(pool)
    PROVE  queued' \subseteq Image /\ active' \subseteq Image /\ ActiveBounded' /\ Busy'
<1>1. PICK new \in Started(active, pool) :
          active' = active \cup new /\ queued' = pool \ new
  BY DEF QueueImages
<1>2. /\ new \subseteq pool
      /\ Cardinality(active') <= MaxActive
      /\ new = pool \/ Cardinality(active') = MaxActive
  BY <1>1, StartedFills DEF Table, ActiveBounded
<1>3. queued' = {} \/ active' # {}
  BY <1>1, <1>2, FS_EmptySet, MessagesAssumption
<1> QED  BY <1>1, <1>2, <1>3 DEF Table, ActiveBounded, Busy

\* fb_cb_api_messages adds only images.
LEMMA DeliverTable ==
    ASSUME Table, NEW parts \in Seq(AnyPart), NEW list, NEW waiting, NEW requests,
           Deliver(parts, list, waiting, requests)
    PROVE  queued' \subseteq Image /\ active' \subseteq Image /\ ActiveBounded' /\ Busy'
<1> DEFINE pictures == {p \in Range(parts) : list[p.uid] # "none" /\ IsPicture(p)}
<1>1. CASE pictures = {}
  <2>1. queued' = queued /\ active' = active
    BY <1>1 DEF Deliver, imgVars
  <2> QED  BY <2>1 DEF Table, ActiveBounded, Busy
<1>2. CASE pictures # {}
  <2>1. QueueImages(queued \cup pictures)
    BY <1>2 DEF Deliver
  <2>2. \A p \in Range(parts) : p \in AnyPart
    BY RangeElement
  <2>3. queued \cup pictures \subseteq Image
    BY <2>2 DEF Table, IsPicture, Image, AnyPart, Part
  <2> HIDE DEF pictures
  <2> QED  BY <2>1, <2>3, QueueImagesTable
<1> QED  BY <1>1, <1>2

\* The end of a download starts others before the image leaves the table.  As
\* long as two may be active, another one is still there, or none waits.
LEMMA ImageDoneTable ==
    ASSUME Table, NEW img \in Image, ImageDone(img)
    PROVE  Table'
<1>1. PICK new \in Started(active, queued) :
          /\ active' = (active \cup new) \ {img}
          /\ queued' = queued \ new
  BY DEF ImageDone
<1> DEFINE all == active \cup new
<1>2. /\ new \subseteq queued
      /\ IsFiniteSet(all) /\ Cardinality(all) \in Nat
      /\ Cardinality(all) <= MaxActive
      /\ new = queued \/ Cardinality(all) = MaxActive
  BY StartedFills DEF Table, ActiveBounded
<1>3. img \in all /\ active' = all \ {img}
  BY <1>1 DEF ImageDone
<1> HIDE DEF all
<1>4. IsFiniteSet(active') /\ Cardinality(active') = Cardinality(all) - 1
  BY <1>2, <1>3, FS_RemoveElement
<1>5. ActiveBounded'
  BY <1>2, <1>4, MessagesAssumption DEF ActiveBounded
<1>6. queued' = {} \/ active' # {}
  <2>1. CASE new = queued
    BY <2>1, <1>1
  <2>2. CASE Cardinality(all) = MaxActive
    BY <2>2, <1>4, FS_EmptySet, MessagesAssumption
  <2> QED  BY <1>2, <2>1, <2>2
<1>7. queued' \subseteq Image /\ active' \subseteq Image /\ icons' \in Nat
  BY <1>1, <1>2 DEF Table, ImageDone
<1> QED  BY <1>5, <1>6, <1>7 DEF Table, Busy

\* A failed download only leaves the table.
LEMMA ImageFailedTable ==
    ASSUME Table, NEW img \in Image, ImageFailed(img)
    PROVE  Table'
<1>1. ImagesFail /\ active' = active \ {img} /\ queued' = queued /\ icons' = icons
  BY DEF ImageFailed
<1>2. IsFiniteSet(active) /\ Cardinality(active) \in Nat
  BY FiniteImage, FS_Subset, FS_CardinalityType DEF Table
<1>3. Cardinality(active') <= Cardinality(active)
  BY <1>1, <1>2, FS_Subset
<1>4. Cardinality(active') \in Nat
  BY <1>1, <1>2, FS_Subset, FS_CardinalityType
<1>5. ActiveBounded'
  BY <1>2, <1>3, <1>4, MessagesAssumption DEF Table, ActiveBounded
<1> QED  BY <1>1, <1>5 DEF Table, Busy

-----------------------------------------------------------------------------

\* At most MaxActive downloads are active, and none waits while no download
\* is, unless downloads can fail; fb_data_image_queue and fb_data_image_cb.
THEOREM ImagesSafe == Spec => [](ActiveBounded /\ Busy)
<1>1. Init => Table
  BY FS_EmptySet, MessagesAssumption DEF Init, Table, ActiveBounded, Busy
<1>2. TypeOK /\ Table /\ [Next]_vars => Table'
  <2> SUFFICES ASSUME TypeOK, Table, [Next]_vars PROVE Table'
    OBVIOUS
  <2>1. ASSUME icons' = icons,
               \/ UNCHANGED imgVars
               \/ \E parts \in Seq(AnyPart) : \E list, waiting, requests :
                      Deliver(parts, list, waiting, requests)
        PROVE  Table'
    <3>1. CASE UNCHANGED imgVars
      BY <2>1, <3>1 DEF imgVars, Table, ActiveBounded, Busy
    <3>2. CASE \E parts \in Seq(AnyPart) : \E list, waiting, requests :
                   Deliver(parts, list, waiting, requests)
      BY <2>1, <3>2, DeliverTable DEF Table
    <3> QED  BY <2>1, <3>1, <3>2
  <2>2. ASSUME NEW new \in SeqOf(Delta, MaxBatch), NEW again \in BOOLEAN,
               NEW bad \in BOOLEAN, PublishMs(new, again, bad)
        PROVE  Table'
    <3>1. PICK texts : PublishStep(new, bad, texts)
      BY <2>2, PublishMsStep
    <3>2. /\ texts \in Seq(AnyPart) /\ icons' = icons
          /\ UNCHANGED imgVars \/ Deliver(texts, blist, parked, asked)
      BY <3>1 DEF PublishStep
    <3> QED  BY <2>1, <3>2
  <2>3. ASSUME NEW m \in Message, CbAttach(m)
        PROVE  Table'
    <3>1. PICK kind \in {"link", "picture"} :
              Deliver(<<[id |-> m, uid |-> log[m].from, kind |-> kind]>>,
                      blist, parked, asked)
      BY <2>3 DEF CbAttach
    <3>2. <<[id |-> m, uid |-> log[m].from, kind |-> kind]>> \in Seq(AnyPart)
          /\ icons' = icons
      BY <2>3, AttachmentType DEF CbAttach
    <3> QED  BY <2>1, <3>1, <3>2
  <2>4. ASSUME NEW m \in Message, AttachFailed(m)
        PROVE  Table'
    BY <2>4, <2>1 DEF AttachFailed
  <2>5. ASSUME NEW u \in User, CbContact(u)
        PROVE  Table'
    <3>1. TakeMessages(u) \in Seq(AnyPart) /\ icons' = icons
      BY <2>5, TakenType DEF CbContact
    <3> QED  BY <2>5, <2>1, <3>1 DEF CbContact
  <2>6. ASSUME NEW u \in User, ContactFailed(u)
        PROVE  Table'
    BY <2>6, <2>1 DEF ContactFailed
  <2>7. ASSUME NEW users \in SUBSET User, NEW changed \in SUBSET users,
               CbContacts(users, changed)
        PROVE  Table'
    <3> DEFINE added == [id : {icons + 1}, uid : changed, kind : {"icon"}]
    <3>1. icons' \in Nat
      BY <2>7 DEF CbContacts, Table
    <3>2. added \subseteq Icon
      BY <2>7, IconsType DEF TypeOK
    <3>3. QueueImages(queued \cup added)
      BY <2>7 DEF CbContacts
    <3>4. queued \cup added \subseteq Image
      BY <3>2 DEF Table, Image
    <3> HIDE DEF added
    <3> QED  BY <3>1, <3>3, <3>4, QueueImagesTable DEF Table
  <2>8. ASSUME NEW added, NEW removed, CbContactsDelta(added, removed)
        PROVE  Table'
    BY <2>8, <2>1 DEF CbContactsDelta
  <2>9. ASSUME NEW img \in Image, ImageDone(img) \/ ImageFailed(img)
        PROVE  Table'
    BY <2>9, ImageDoneTable, ImageFailedTable
  <2>10. CASE Restart
    BY <2>10, FS_EmptySet, MessagesAssumption
       DEF Restart, Table, ActiveBounded, Busy
  <2>11. CASE UNCHANGED vars
    BY <2>11, <2>1 DEF vars
  <2> QED
    BY <2>2, <2>3, <2>4, <2>5, <2>6, <2>7, <2>8, <2>9, <2>10, <2>11
       DEF Next, Delta
<1>3. Table => ActiveBounded /\ Busy
  BY DEF Table
<1> QED  BY <1>1, <1>2, <1>3, Typed, PTL DEF Spec

\* No image waits while none is downloaded, unless downloads can fail.
THEOREM TableAdvances == Spec => []Busy
BY ImagesSafe, PTL

-----------------------------------------------------------------------------
(* Parked messages and the requests for their senders.                     *)

\* fb_cb_api_messages asks for the sender of everything it parks.
LEMMA RouteAsked ==
    ASSUME NEW parts \in Seq(AnyPart), NEW list, NEW waiting \in Seq(AnyPart),
           NEW requests \in [User -> Nat], Route(parts, list, waiting, requests),
           \A i \in 1..Len(waiting) : requests[waiting[i].uid] > 0
    PROVE  \A p \in Range(parked') : asked'[p.uid] > 0
<1> DEFINE unknown == From(parts, {u \in User : list[u] = "none"})
<1>1. unknown \in Seq(AnyPart)
  BY FromType DEF SentBy
<1>2. parked' = waiting \o unknown /\ asked' = Requests(requests, unknown)
  BY DEF Route
<1> HIDE DEF unknown
<1>3. /\ asked' \in [User -> Nat]
      /\ \A u \in User : asked'[u] >= requests[u]
      /\ \A i \in 1..Len(unknown) : asked'[unknown[i].uid] > 0
  BY <1>1, <1>2, RequestsType
<1>4. /\ parked' \in Seq(AnyPart) /\ Len(parked') = Len(waiting) + Len(unknown)
      /\ Len(waiting) \in Nat /\ Len(unknown) \in Nat
      /\ \A i \in 1..Len(waiting) + Len(unknown) :
             parked'[i] = IF i <= Len(waiting) THEN waiting[i] ELSE unknown[i - Len(waiting)]
  BY <1>1, <1>2, ConcatProperties
<1> SUFFICES ASSUME NEW p \in Range(parked')  PROVE asked'[p.uid] > 0
  OBVIOUS
<1>5. PICK i \in 1..Len(parked') : parked'[i] = p
  BY <1>4, RangeElement
<1>6. CASE i <= Len(waiting)
  <2>1. i \in 1..Len(waiting) /\ parked'[i] = waiting[i]
    BY <1>4, <1>6
  <2>2. waiting[i] \in AnyPart
    BY <2>1
  <2>3. waiting[i].uid \in User /\ requests[waiting[i].uid] \in Nat
    BY <2>2 DEF AnyPart, Part
  <2> QED  BY <1>3, <1>5, <2>1, <2>3
<1>7. CASE ~(i <= Len(waiting))
  <2>1. i - Len(waiting) \in 1..Len(unknown) /\ parked'[i] = unknown[i - Len(waiting)]
    BY <1>4, <1>7
  <2> QED  BY <1>3, <1>5, <2>1
<1> QED  BY <1>5, <1>6, <1>7

\* Every step leaves whoever has something parked with a request under way.
LEMMA ParkedAskedStep ==
    ASSUME TypeOK, ParkedAsked, [Next]_vars
    PROVE  ParkedAsked'
<1> SUFFICES ASSUME ~Nonfatal, ~failed'
             PROVE  \A p \in Range(parked') : asked'[p.uid] > 0
  BY DEF ParkedAsked
<1>1. /\ parked \in Seq(AnyPart) /\ asked \in [User -> Nat]
      /\ blist \in [User -> Groups]
  BY DEF TypeOK, AnyPart, Groups
<1>2. ASSUME ~failed
      PROVE  \A i \in 1..Len(parked) : asked[parked[i].uid] > 0
  BY <1>1, <1>2, RangeHas DEF ParkedAsked
<1>3. ASSUME ~failed, parked' = parked, asked' = asked
      PROVE  \A p \in Range(parked') : asked'[p.uid] > 0
  BY <1>3 DEF ParkedAsked
<1>4. ASSUME ~failed, NEW parts \in Seq(AnyPart), NEW list,
             Route(parts, list, parked, asked)
      PROVE  \A p \in Range(parked') : asked'[p.uid] > 0
  BY <1>1, <1>2, <1>4, RouteAsked
<1>5. ASSUME NEW new \in SeqOf(Delta, MaxBatch), NEW again \in BOOLEAN, NEW bad \in BOOLEAN,
             PublishMs(new, again, bad)
      PROVE  \A p \in Range(parked') : asked'[p.uid] > 0
  <2>1. PICK texts : PublishStep(new, bad, texts)
    BY <1>5, PublishMsStep
  <2>2. texts \in Seq(AnyPart)
    BY <2>1 DEF PublishStep
  <2>3. ~bad
    BY <2>1 DEF PublishStep
  <2>4. failed' = failed /\ Route(texts, blist, parked, asked)
    BY <2>1, <2>3 DEF PublishStep, Deliver
  <2> QED  BY <1>4, <2>2, <2>4
<1>6. ASSUME NEW m \in Message, CbAttach(m)
      PROVE  \A p \in Range(parked') : asked'[p.uid] > 0
  <2>1. PICK kind \in {"link", "picture"} :
            Deliver(<<[id |-> m, uid |-> log[m].from, kind |-> kind]>>, blist, parked, asked)
    BY <1>6 DEF CbAttach
  <2>2. <<[id |-> m, uid |-> log[m].from, kind |-> kind]>> \in Seq(AnyPart)
    BY <1>6, AttachmentType DEF CbAttach
  <2>3. failed' = failed
    BY <1>6 DEF CbAttach
  <2>4. Route(<<[id |-> m, uid |-> log[m].from, kind |-> kind]>>, blist, parked, asked)
    BY <2>1 DEF Deliver
  <2> QED  BY <1>4, <2>2, <2>3, <2>4
<1>7. ASSUME NEW m \in Message, AttachFailed(m)
      PROVE  \A p \in Range(parked') : asked'[p.uid] > 0
  <2>1. failed' \in {failed, TRUE} /\ parked' = parked /\ asked' = asked
    BY <1>7 DEF AttachFailed, dataVars
  <2> QED  BY <1>3, <2>1
<1>8. ASSUME NEW u \in User, CbContact(u)
      PROVE  \A p \in Range(parked') : asked'[p.uid] > 0
  <2> DEFINE list == IF blist[u] = "none" THEN [blist EXCEPT ![u] = "other"] ELSE blist
             requests == [asked EXCEPT ![u] = @ - 1]
             waiting == From(parked, User \ {u})
  <2>1. /\ asked[u] > 0 /\ failed' = failed
        /\ Deliver(TakeMessages(u), list, waiting, requests)
    BY <1>8 DEF CbContact, apiVars
  <2>2. /\ TakeMessages(u) \in Seq(AnyPart) /\ waiting \in Seq(AnyPart)
        /\ list \in [User -> Groups] /\ requests \in [User -> Nat]
    BY <2>1, TakenType
  <2>3. ASSUME NEW i \in 1..Len(waiting)
        PROVE  requests[waiting[i].uid] > 0
    <3>1. /\ waiting[i].uid \in User \ {u}
          /\ \E k \in 1..Len(parked) : waiting[i] = parked[k]
      <4>1. SentBy(waiting, parked, User \ {u})
        BY <1>1, FromType
      <4> HIDE DEF waiting
      <4> QED  BY <4>1 DEF SentBy
    <3> HIDE DEF waiting
    <3>2. asked[waiting[i].uid] > 0
      BY <1>2, <2>1, <3>1
    <3> QED  BY <1>1, <3>1, <3>2
  <2>4. Route(TakeMessages(u), list, waiting, requests)
    BY <2>1 DEF Deliver
  <2> HIDE DEF list, waiting, requests
  <2> QED  BY <2>2, <2>3, <2>4, RouteAsked
<1>9. ASSUME NEW u \in User, ContactFailed(u)
      PROVE  FALSE
  BY <1>9 DEF ContactFailed
<1>10. ASSUME NEW users, NEW changed, CbContacts(users, changed)
       PROVE  \A p \in Range(parked') : asked'[p.uid] > 0
  BY <1>3, <1>10 DEF CbContacts, apiVars, dataVars
<1>11. ASSUME NEW added, NEW removed, CbContactsDelta(added, removed)
       PROVE  \A p \in Range(parked') : asked'[p.uid] > 0
  BY <1>3, <1>11 DEF CbContactsDelta, apiVars, dataVars
<1>12. ASSUME NEW img \in Image, ImageDone(img)
       PROVE  \A p \in Range(parked') : asked'[p.uid] > 0
  <2>1. failed' = failed
    BY <1>12 DEF ImageDone, apiVars
  <2>2. CASE IsPicture(img)
    <3>1. Route(<<[img EXCEPT !.kind = "photo"]>>, blist, parked, asked)
      BY <1>12, <2>2 DEF ImageDone, ImageFunc
    <3>2. <<[img EXCEPT !.kind = "photo"]>> \in Seq(AnyPart)
      BY <2>2, PhotoType
    <3> QED  BY <1>4, <2>1, <3>1, <3>2
  <2>3. CASE ~IsPicture(img)
    BY <1>3, <1>12, <2>1, <2>3 DEF ImageDone, ImageFunc, dataVars
  <2> QED  BY <2>2, <2>3
<1>13. ASSUME NEW img, ImageFailed(img)
       PROVE  \A p \in Range(parked') : asked'[p.uid] > 0
  BY <1>3, <1>13 DEF ImageFailed, apiVars, dataVars
<1>14. CASE Restart
  BY <1>14 DEF Restart, Range
<1>15. CASE UNCHANGED vars
  BY <1>3, <1>15 DEF vars, apiVars, dataVars
<1> QED
  BY <1>5, <1>6, <1>7, <1>8, <1>9, <1>10, <1>11, <1>12, <1>13, <1>14, <1>15
     DEF Next, Delta

\* While a part waits for the name of its sender, a request for that sender is
\* under way, whatever else is parked, taken or removed from the buddy list
\* (fb_data_add_message, fb_cb_api_contact).
THEOREM ParkedIsAsked == Spec => []ParkedAsked
<1>1. Init => ParkedAsked
  BY DEF Init, ParkedAsked, Range
<1>2. TypeOK /\ ParkedAsked /\ [Next]_vars => ParkedAsked'
  BY ParkedAskedStep
<1> QED  BY <1>1, <1>2, Typed, PTL DEF Spec

-----------------------------------------------------------------------------
(* Where each text and attachment is.                                      *)

AllOrigins == Message \X {"text", "file"}

\* A part of a message in senders, and the picture that message may hold.
Of(p, senders) == p.id \in DOMAIN senders /\ p.uid = senders[p.id].from
Picture(m, senders) == [id |-> m, uid |-> senders[m].from, kind |-> "picture"]

PartsOf(seq, senders) == \A i \in 1..Len(seq) : Of(seq[i], senders)
ImagesOf(images, senders) == \A img \in images : IsPicture(img) => Of(img, senders)

\* An image in the table is a file of a message and its sender.
LEMMA OriginsHas ==
    ASSUME NEW q \in SUBSET Image, NEW o \in AllOrigins, NEW senders, ImagesOf(q, senders)
    PROVE  o \in Origins(q) <=> o[2] = "file" /\ Picture(o[1], senders) \in q
<1>1. o = <<o[1], o[2]>>
  BY DEF AllOrigins
<1>2. ASSUME o \in Origins(q)
      PROVE  o[2] = "file" /\ Picture(o[1], senders) \in q
  <2>1. PICK img \in q : img.kind # "icon" /\ o = Origin(img)
    BY <1>2 DEF Origins
  <2>2. img \in Part({"picture"})
    BY <2>1 DEF Image, Icon
  <2>3. img.kind = "picture" /\ img = [id |-> img.id, uid |-> img.uid, kind |-> "picture"]
    BY <2>2 DEF Part
  <2>4. o[1] = img.id /\ o[2] = "file"
    BY <2>1, <2>3 DEF Origin
  <2>5. img.uid = senders[img.id].from
    BY <2>1, <2>3 DEF ImagesOf, IsPicture, Of
  <2> QED  BY <2>3, <2>4, <2>5 DEF Picture
<1>3. ASSUME o[2] = "file", Picture(o[1], senders) \in q
      PROVE  o \in Origins(q)
  <2>1. Origin(Picture(o[1], senders)) = <<o[1], "file">>
    BY DEF Origin, Picture
  <2>2. Picture(o[1], senders).kind # "icon"
    BY DEF Picture
  <2>3. Origin(Picture(o[1], senders)) = o
    BY <1>1, <1>3, <2>1
  <2> HIDE DEF Picture
  <2> QED  BY <1>3, <2>2, <2>3 DEF Origins
<1> QED  BY <1>2, <1>3

\* Starting images moves them from one set to the other.
LEMMA QueueCount ==
    ASSUME NEW pool \in SUBSET Image, active \subseteq Image, NEW o \in AllOrigins,
           NEW senders, ImagesOf(pool, senders), ImagesOf(active, senders),
           QueueImages(pool), ~(o \in Origins(pool) /\ o \in Origins(active))
    PROVE  /\ InSet(Origins(queued'), o) + InSet(Origins(active'), o)
                  = InSet(Origins(pool), o) + InSet(Origins(active), o)
<1> DEFINE pic == Picture(o[1], senders)
<1>1. PICK new \in Started(active, pool) :
          active' = active \cup new /\ queued' = pool \ new
  BY DEF QueueImages
<1>2. new \subseteq pool
  BY DEF Started
<1>3. /\ queued' \subseteq Image /\ active' \subseteq Image
      /\ ImagesOf(queued', senders) /\ ImagesOf(active', senders)
  BY <1>1, <1>2 DEF ImagesOf
<1>4. /\ o \in Origins(pool) <=> o[2] = "file" /\ pic \in pool
      /\ o \in Origins(active) <=> o[2] = "file" /\ pic \in active
      /\ o \in Origins(queued') <=> o[2] = "file" /\ pic \in queued'
      /\ o \in Origins(active') <=> o[2] = "file" /\ pic \in active'
  BY <1>3, OriginsHas
<1> HIDE DEF pic
<1>5. CASE o \in Origins(pool)
  <2>1. pic \in pool /\ pic \notin active /\ o[2] = "file"
    BY <1>4, <1>5
  <2>2. pic \in queued' <=> pic \notin active'
    BY <1>1, <1>2, <2>1
  <2>3. o \in Origins(queued') <=> o \notin Origins(active')
    BY <1>4, <2>1, <2>2
  <2> QED  BY <1>5, <2>3 DEF InSet
<1>6. CASE o \notin Origins(pool)
  <2>1. o \notin Origins(queued') /\ (o \in Origins(active') <=> o \in Origins(active))
    BY <1>1, <1>2, <1>4, <1>6
  <2> QED  BY <1>6, <2>1 DEF InSet
<1> QED  BY <1>5, <1>6

\* The origins of a sequence of parts are those it counts at all.
LEMMA OriginsRange ==
    ASSUME NEW seq \in Seq(AnyPart), NEW o
    PROVE  o \in Origins(Range(seq)) <=> InSeq(seq, o) # 0
<1>1. InSeq(seq, o) = Count(seq, At(o))
  BY InSeqCount
<1>2. Count(seq, At(o)) = 0 <=> \A i \in 1..Len(seq) : seq[i] \notin At(o)
  BY CountZero
<1>3. \A i \in 1..Len(seq) : seq[i] \in AnyPart /\ seq[i].kind # "icon"
  <2> SUFFICES ASSUME NEW i \in 1..Len(seq)  PROVE seq[i] \in AnyPart /\ seq[i].kind # "icon"
    OBVIOUS
  <2>1. seq[i] \in AnyPart
    OBVIOUS
  <2> QED  BY <2>1 DEF AnyPart, Part, Kinds
<1>4. ASSUME o \in Origins(Range(seq))
      PROVE  \E i \in 1..Len(seq) : seq[i] \in At(o)
  <2>1. PICK p \in Range(seq) : Origin(p) = o
    BY <1>4 DEF Origins
  <2>2. PICK i \in 1..Len(seq) : seq[i] = p
    BY RangeElement
  <2> QED  BY <1>3, <2>1, <2>2 DEF At
<1>5. ASSUME NEW i \in 1..Len(seq), seq[i] \in At(o)
      PROVE  o \in Origins(Range(seq))
  <2>1. seq[i] \in Range(seq) /\ Origin(seq[i]) = o
    BY <1>5, RangeHas DEF At
  <2> QED  BY <1>3, <2>1 DEF Origins
<1> QED  BY <1>1, <1>2, <1>4, <1>5

\* Parts of a concatenation are counted on both sides.
LEMMA InSeqConcat ==
    ASSUME NEW s \in Seq(AnyPart), NEW t \in Seq(AnyPart), NEW o
    PROVE  InSeq(s \o t, o) = InSeq(s, o) + InSeq(t, o)
<1>1. s \o t \in Seq(AnyPart)
  BY ConcatProperties
<1>2. Count(s \o t, At(o)) = Count(s, At(o)) + Count(t, At(o))
  BY CountConcat
<1> QED  BY <1>1, <1>2, InSeqCount

\* One part counts for its own origin only.
LEMMA InSeqOne ==
    ASSUME NEW p \in AnyPart, NEW o
    PROVE  InSeq(<<p>>, o) = IF Origin(p) = o THEN 1 ELSE 0
<1>1. DOMAIN <<p>> = {1} /\ <<p>>[1] = p
  OBVIOUS
<1>2. CASE Origin(p) = o
  <2>1. {i \in DOMAIN <<p>> : Origin(<<p>>[i]) = o} = {1}
    BY <1>1, <1>2
  <2> QED  BY <1>2, <2>1, FS_Singleton DEF InSeq
<1>3. CASE Origin(p) # o
  <2>1. {i \in DOMAIN <<p>> : Origin(<<p>>[i]) = o} = {}
    BY <1>1, <1>3
  <2> QED  BY <1>3, <2>1, FS_EmptySet DEF InSeq
<1> QED  BY <1>2, <1>3

\* What one user sent and what the others sent is all there is.
LEMMA FromCount ==
    ASSUME NEW parts \in Seq(AnyPart), NEW u \in User, NEW o
    PROVE  InSeq(From(parts, {u}), o) + InSeq(From(parts, User \ {u}), o) = InSeq(parts, o)
<1> DEFINE mine == {p \in Part(Kinds) : p.uid \in {u}}
           others == {p \in Part(Kinds) : p.uid \in User \ {u}}
<1>1. /\ From(parts, {u}) \in Seq(AnyPart)
      /\ From(parts, User \ {u}) \in Seq(AnyPart)
  BY FromType DEF SentBy
<1>2. /\ InSeq(From(parts, {u}), o) = Count(parts, At(o) \cap mine)
      /\ InSeq(From(parts, User \ {u}), o) = Count(parts, At(o) \cap others)
  <2>1. From(parts, {u}) = Selected(parts, mine)
        /\ From(parts, User \ {u}) = Selected(parts, others)
    BY DEF From
  <2> HIDE DEF mine, others
  <2>2. Count(Selected(parts, mine), At(o)) = Count(parts, At(o) \cap mine)
    BY CountSelected
  <2>3. Count(Selected(parts, others), At(o)) = Count(parts, At(o) \cap others)
    BY CountSelected
  <2> QED  BY <1>1, <2>1, <2>2, <2>3, InSeqCount
<1>3. (At(o) \cap mine) \cap (At(o) \cap others) = {}
  OBVIOUS
<1>4. (At(o) \cap mine) \cup (At(o) \cap others) = At(o)
  BY DEF At, AnyPart, Part
<1> HIDE DEF mine, others
<1>5. Count(parts, (At(o) \cap mine) \cup (At(o) \cap others))
          = Count(parts, At(o) \cap mine) + Count(parts, At(o) \cap others)
  BY <1>3, CountUnion
<1>6. InSeq(parts, o) = Count(parts, At(o))
  BY InSeqCount
<1> QED  BY <1>2, <1>4, <1>5, <1>6

\* fb_cb_api_messages shows, parks or sets aside each part.
Pictures(list) == {p \in AnyPart : list[p.uid] # "none" /\ IsPicture(p)}

RoutedOnce(parts, list, waiting, o) ==
    InSeq(shown', o) + InSeq(parked', o) + Count(parts, At(o) \cap Pictures(list))
        = InSeq(shown, o) + InSeq(waiting, o) + InSeq(parts, o)

\* A routed part is shown, parked or handed on as a picture, once.
LEMMA RouteCount ==
    ASSUME NEW parts \in Seq(AnyPart), NEW list \in [User -> Groups],
           NEW waiting \in Seq(AnyPart), NEW requests \in [User -> Nat],
           shown \in Seq(Visible), Route(parts, list, waiting, requests), NEW o
    PROVE  RoutedOnce(parts, list, waiting, o)
<1> DEFINE A == {p \in Part(Kinds) : p.uid \in {u \in User : list[u] = "none"}}
           B == {p \in Part(Kinds) : list[p.uid] # "none" /\ ~IsPicture(p)}
           unknown == Selected(parts, A)
           known == Selected(parts, B)
<1>1. parked' = waiting \o unknown /\ shown' = shown \o known
  BY DEF Route, From
<1>2. At(o) = (At(o) \cap A) \cup ((At(o) \cap B) \cup (At(o) \cap Pictures(list)))
  BY DEF At, AnyPart, Part, Pictures
<1>3. /\ (At(o) \cap A) \cap ((At(o) \cap B) \cup (At(o) \cap Pictures(list))) = {}
      /\ (At(o) \cap B) \cap (At(o) \cap Pictures(list)) = {}
  BY DEF Pictures
<1> HIDE DEF A, B
<1>4. unknown \in Seq(AnyPart) /\ known \in Seq(AnyPart)
  BY SelectedEmbeds
<1>5. Count(unknown, At(o)) = Count(parts, At(o) \cap A)
      /\ Count(known, At(o)) = Count(parts, At(o) \cap B)
  BY CountSelected
<1> HIDE DEF unknown, known
<1>6. shown \in Seq(AnyPart)
  BY SeqMonotonic DEF Visible, AnyPart, Part, Kinds
<1>7. InSeq(parked', o) = InSeq(waiting, o) + InSeq(unknown, o)
      /\ InSeq(shown', o) = InSeq(shown, o) + InSeq(known, o)
  BY <1>1, <1>4, <1>6, InSeqConcat
<1>8. /\ InSeq(unknown, o) = Count(parts, At(o) \cap A)
      /\ InSeq(known, o) = Count(parts, At(o) \cap B)
      /\ InSeq(parts, o) = Count(parts, At(o))
  BY <1>4, <1>5, InSeqCount
<1>9. /\ Count(parts, At(o) \cap A) \in Nat /\ Count(parts, At(o) \cap B) \in Nat
      /\ Count(parts, At(o) \cap Pictures(list)) \in Nat
  BY CountType
<1>10. InSeq(shown, o) \in Nat /\ InSeq(waiting, o) \in Nat
  BY <1>6, InSeqCount
<1>11. Count(parts, (At(o) \cap B) \cup (At(o) \cap Pictures(list)))
           = Count(parts, At(o) \cap B) + Count(parts, At(o) \cap Pictures(list))
  BY <1>3, CountUnion
<1>12. Count(parts, At(o)) = Count(parts, At(o) \cap A)
           + Count(parts, (At(o) \cap B) \cup (At(o) \cap Pictures(list)))
  <2> DEFINE unlisted == At(o) \cap A
             listed   == (At(o) \cap B) \cup (At(o) \cap Pictures(list))
  <2>1. At(o) = unlisted \cup listed
    BY <1>2
  <2>2. unlisted \cap listed = {}
    BY <1>3
  <2> HIDE DEF unlisted, listed
  <2>3. Count(parts, unlisted \cup listed) = Count(parts, unlisted) + Count(parts, listed)
    BY <2>2, CountUnion
  <2>4. Count(parts, At(o)) = Count(parts, unlisted) + Count(parts, listed)
    BY <2>1, <2>3
  <2> QED  BY <2>4 DEF unlisted, listed
<1> QED  BY <1>7, <1>8, <1>9, <1>10, <1>11, <1>12 DEF RoutedOnce

\* How often o is anywhere but among the lost ones, and how often it should be.
Pending(o) == InSet(Origins(queued), o) + InSet(Origins(active), o)
Total(o) == InSeq(shown, o) + InSeq(parked, o) + Pending(o)
                + InSet(attaching \X {"file"}, o) + InSet(lost, o)
Looked(o, senders) ==
    IF o[1] \in DOMAIN senders /\ o[2] \in senders[o[1]].parts THEN 1 ELSE 0

FromLog(senders) ==
    PartsOf(parked, senders) /\ ImagesOf(queued, senders) /\ ImagesOf(active, senders)
EachOnce == \A o \in AllOrigins : Total(o) = Looked(o, log)

\* fb_cb_api_messages neither loses nor doubles a part, as long as the same
\* part is not in the table already.
LEMMA DeliverCount ==
    ASSUME TypeOK, NEW parts \in Seq(AnyPart), NEW list \in [User -> Groups],
           NEW waiting \in Seq(AnyPart), NEW requests \in [User -> Nat],
           Deliver(parts, list, waiting, requests), NEW o \in AllOrigins,
           NEW senders, PartsOf(parts, senders),
           ImagesOf(queued, senders), ImagesOf(active, senders),
           InSeq(parts, o) + Pending(o) <= 1
    PROVE  InSeq(shown', o) + InSeq(parked', o) + Pending(o)'
               = InSeq(shown, o) + InSeq(waiting, o) + InSeq(parts, o) + Pending(o)
<1> DEFINE pictures == {p \in Range(parts) : list[p.uid] # "none" /\ IsPicture(p)}
           c == Count(parts, At(o) \cap Pictures(list))
           s == InSeq(shown', o)
           k == InSeq(parked', o)
           n == InSeq(parts, o)
<1>1. shown \in Seq(Visible) /\ queued \subseteq Image /\ active \subseteq Image
  BY DEF TypeOK, Visible
<1>2. Route(parts, list, waiting, requests)
  BY DEF Deliver
<1>3. s + k + c = InSeq(shown, o) + InSeq(waiting, o) + n
  BY <1>1, <1>2, RouteCount DEF RoutedOnce
<1>4. parked' \in Seq(AnyPart) /\ shown' \in Seq(Visible)
  BY <1>1, <1>2, RouteType
<1>5. shown \in Seq(AnyPart) /\ shown' \in Seq(AnyPart)
  BY <1>1, <1>4, SeqMonotonic DEF Visible, AnyPart, Part, Kinds
<1>6. /\ s \in Nat /\ k \in Nat /\ n \in Nat /\ c \in Nat
      /\ InSeq(shown, o) \in Nat /\ InSeq(waiting, o) \in Nat
  BY <1>4, <1>5, InSeqCount, CountType
<1>7. c <= n
  <2>1. c <= Count(parts, At(o))
    BY CountSubset
  <2> QED  BY <2>1, InSeqCount
<1>8. c # 0 <=> o \in Origins(pictures)
  <2>1. c = 0 <=> \A i \in 1..Len(parts) : parts[i] \notin At(o) \cap Pictures(list)
    BY CountZero
  <2>2. ASSUME c # 0
        PROVE  o \in Origins(pictures)
    <3>1. PICK i \in 1..Len(parts) : parts[i] \in At(o) \cap Pictures(list)
      BY <2>1, <2>2
    <3>2. parts[i] \in Range(parts)
      BY RangeHas
    <3> QED  BY <3>1, <3>2 DEF At, Pictures, Origins, IsPicture
  <2>3. ASSUME o \in Origins(pictures)
        PROVE  c # 0
    <3>1. PICK p \in pictures : Origin(p) = o
      BY <2>3 DEF Origins
    <3>2. PICK i \in 1..Len(parts) : parts[i] = p
      BY RangeElement
    <3>3. p \in At(o) \cap Pictures(list)
      BY <3>1, RangeElement DEF At, Pictures
    <3> QED  BY <2>1, <3>2, <3>3
  <2> QED  BY <2>2, <2>3
<1>9. \A p \in Range(parts) : p \in AnyPart /\ Of(p, senders)
  BY RangeElement DEF PartsOf
<1>10. pictures \subseteq Image /\ ImagesOf(queued \cup pictures, senders)
  BY <1>9 DEF ImagesOf, IsPicture, Image, AnyPart, Part
<1>11. Pending(o) \in Nat
  BY DEF Pending, InSet
<1>12. Pending(o)' = Pending(o) + c
  <2>1. CASE pictures = {}
    <3>1. queued' = queued /\ active' = active
      BY <2>1 DEF Deliver, imgVars
    <3>2. c = 0
      BY <1>8, <2>1 DEF Origins
    <3> HIDE DEF c
    <3> QED  BY <1>11, <3>1, <3>2 DEF Pending
  <2>2. CASE pictures # {}
    <3>1. QueueImages(queued \cup pictures)
      BY <2>2 DEF Deliver
    <3>2. Origins(queued \cup pictures) = Origins(queued) \cup Origins(pictures)
      BY DEF Origins
    <3> HIDE DEF pictures, c, n
    <3>3. c = InSet(Origins(pictures), o)
      <4>1. c <= 1
        BY <1>6, <1>7, <1>11 DEF n
      <4> QED  BY <1>6, <1>8, <4>1 DEF InSet
    <3>4. o \in Origins(pictures) => o \notin Origins(queued) /\ o \notin Origins(active)
      <4>1. o \in Origins(pictures) => n >= 1
        BY <1>6, <1>7, <1>8
      <4>2. o \in Origins(pictures) => Pending(o) = 0
        BY <1>6, <1>11, <4>1 DEF n
      <4> QED  BY <4>2 DEF Pending, InSet
    <3>5. o \in Origins(queued) => o \notin Origins(active)
      <4>1. Pending(o) <= 1
        BY <1>6, <1>11 DEF n
      <4> QED  BY <4>1 DEF Pending, InSet
    <3>6. InSet(Origins(queued'), o) + InSet(Origins(active'), o)
              = InSet(Origins(queued \cup pictures), o) + InSet(Origins(active), o)
      <4>1. queued \cup pictures \in SUBSET Image
        BY <1>1, <1>10
      <4>2. ~(o \in Origins(queued \cup pictures) /\ o \in Origins(active))
        BY <3>2, <3>4, <3>5
      <4> QED  BY <1>1, <1>10, <3>1, <4>1, <4>2, QueueCount
    <3>7. InSet(Origins(queued \cup pictures), o) = InSet(Origins(queued), o) + c
      <4>1. CASE o \in Origins(pictures)
        <5>1. /\ InSet(Origins(queued \cup pictures), o) = 1
              /\ InSet(Origins(queued), o) = 0 /\ c = 1
          BY <3>2, <3>3, <3>4, <4>1 DEF InSet
        <5> QED  BY <5>1
      <4>2. CASE o \notin Origins(pictures)
        <5>1. /\ InSet(Origins(queued \cup pictures), o) = InSet(Origins(queued), o)
              /\ c = 0
          BY <3>2, <3>3, <4>2 DEF InSet
        <5>2. InSet(Origins(queued), o) \in Nat
          BY DEF InSet
        <5> QED  BY <5>1, <5>2
      <4> QED  BY <4>1, <4>2
    <3>8. InSet(Origins(queued), o) \in Nat /\ InSet(Origins(active), o) \in Nat
      BY DEF InSet
    <3> QED  BY <1>6, <3>6, <3>7, <3>8 DEF Pending
  <2> QED  BY <2>1, <2>2
<1> HIDE DEF s, k, c, n
<1>13. s + k + Pending(o)' = InSeq(shown, o) + InSeq(waiting, o) + n + Pending(o)
  BY <1>3, <1>6, <1>11, <1>12
<1> QED  BY <1>13 DEF s, k, n

\* What is parked or downloaded afterwards was parked, downloaded or handed
\* over before.
LEMMA RouteFromLog ==
    ASSUME NEW parts \in Seq(AnyPart), NEW list, NEW waiting \in Seq(AnyPart),
           NEW requests, Route(parts, list, waiting, requests),
           NEW senders, PartsOf(parts, senders), PartsOf(waiting, senders)
    PROVE  PartsOf(parked', senders)
<1> DEFINE unknown == From(parts, {u \in User : list[u] = "none"})
<1>1. SentBy(unknown, parts, {u \in User : list[u] = "none"})
  BY FromType
<1>2. parked' = waiting \o unknown
  BY DEF Route
<1> HIDE DEF unknown
<1>3. unknown \in Seq(AnyPart) /\ \A i \in 1..Len(unknown) : Of(unknown[i], senders)
  BY <1>1 DEF SentBy, PartsOf
<1>4. /\ Len(parked') = Len(waiting) + Len(unknown)
      /\ Len(waiting) \in Nat /\ Len(unknown) \in Nat
      /\ \A i \in 1..Len(waiting) + Len(unknown) :
             parked'[i] = IF i <= Len(waiting) THEN waiting[i] ELSE unknown[i - Len(waiting)]
  BY <1>2, <1>3, ConcatProperties
<1>5. ASSUME NEW i \in 1..Len(parked')
      PROVE  Of(parked'[i], senders)
  <2>1. CASE i <= Len(waiting)
    BY <1>4, <2>1 DEF PartsOf
  <2>2. CASE ~(i <= Len(waiting))
    <3>1. i - Len(waiting) \in 1..Len(unknown) /\ parked'[i] = unknown[i - Len(waiting)]
      BY <1>4, <2>2
    <3> QED  BY <1>3, <3>1
  <2> QED  BY <2>1, <2>2
<1> QED  BY <1>5 DEF PartsOf

\* fb_cb_api_messages handles parts with the sender they were sent by.
LEMMA DeliverFromLog ==
    ASSUME NEW parts \in Seq(AnyPart), NEW list, NEW waiting \in Seq(AnyPart),
           NEW requests, Deliver(parts, list, waiting, requests),
           NEW senders, PartsOf(parts, senders), PartsOf(waiting, senders),
           ImagesOf(queued, senders), ImagesOf(active, senders)
    PROVE  /\ PartsOf(parked', senders)
           /\ ImagesOf(queued', senders) /\ ImagesOf(active', senders)
<1> DEFINE pictures == {p \in Range(parts) : list[p.uid] # "none" /\ IsPicture(p)}
<1>1. PartsOf(parked', senders)
  BY RouteFromLog DEF Deliver
<1>2. \A p \in Range(parts) : Of(p, senders)
  BY RangeElement DEF PartsOf
<1>3. UNCHANGED imgVars \/ QueueImages(queued \cup pictures)
  BY DEF Deliver
<1>4. ImagesOf(queued \cup pictures, senders)
  BY <1>2 DEF ImagesOf
<1> HIDE DEF pictures
<1>5. ImagesOf(queued', senders) /\ ImagesOf(active', senders)
  BY <1>3, <1>4 DEF imgVars, QueueImages, Started, ImagesOf
<1> QED  BY <1>1, <1>5

\* The end of a download takes an image out of the table, while others start.
LEMMA LeaveCount ==
    ASSUME NEW img \in active, queued \subseteq Image, active \subseteq Image,
           ImagesOf(queued, log), ImagesOf(active, log),
           NEW new \in SUBSET queued,
           active' = (active \cup new) \ {img}, queued' = queued \ new,
           NEW o \in AllOrigins, Pending(o) <= 1
    PROVE  /\ ImagesOf(queued', log) /\ ImagesOf(active', log)
           /\ Pending(o) = Pending(o)' +
                  IF IsPicture(img) /\ o = <<img.id, "file">> THEN 1 ELSE 0
<1> DEFINE pic == Picture(o[1], log)
<1>1. /\ queued' \subseteq Image /\ active' \subseteq Image
      /\ ImagesOf(queued', log) /\ ImagesOf(active', log)
  BY DEF ImagesOf
<1>2. /\ o \in Origins(queued) <=> o[2] = "file" /\ pic \in queued
      /\ o \in Origins(active) <=> o[2] = "file" /\ pic \in active
      /\ o \in Origins(queued') <=> o[2] = "file" /\ pic \in queued'
      /\ o \in Origins(active') <=> o[2] = "file" /\ pic \in active'
  BY <1>1, OriginsHas
<1>3. ~(o \in Origins(queued) /\ o \in Origins(active))
  BY DEF Pending, InSet
<1>4. IsPicture(img) /\ o = <<img.id, "file">> <=> o[2] = "file" /\ pic = img
  <2>1. o = <<o[1], o[2]>> /\ img \in Image
    BY DEF AllOrigins
  <2>2. ASSUME IsPicture(img), o = <<img.id, "file">>
        PROVE  o[2] = "file" /\ pic = img
    <3>1. img \in Part({"picture"})
      BY <2>1, <2>2 DEF Image, Icon, IsPicture
    <3>2. img = [id |-> img.id, uid |-> img.uid, kind |-> "picture"]
      BY <3>1 DEF Part
    <3>3. img.uid = log[img.id].from /\ o[1] = img.id /\ o[2] = "file"
      BY <2>2 DEF ImagesOf, Of
    <3> QED  BY <3>2, <3>3 DEF Picture
  <2>3. ASSUME o[2] = "file", pic = img
        PROVE  IsPicture(img) /\ o = <<img.id, "file">>
    <3>1. img.kind = "picture" /\ img.id = o[1]
      BY <2>3 DEF Picture
    <3> QED  BY <2>1, <2>3, <3>1 DEF IsPicture
  <2> QED  BY <2>2, <2>3
<1> HIDE DEF pic
<1>5. CASE o[2] = "file" /\ pic = img
  <2>1. pic \in active /\ pic \notin queued /\ pic \notin queued' /\ pic \notin active'
    BY <1>2, <1>3, <1>5
  <2>2. Pending(o) = 1 /\ Pending(o)' = 0
    BY <1>2, <1>5, <2>1 DEF Pending, InSet
  <2> QED  BY <1>1, <1>4, <1>5, <2>2
<1>6. CASE ~(o[2] = "file" /\ pic = img)
  <2>1. CASE o[2] # "file"
    BY <1>1, <1>2, <1>4, <2>1 DEF Pending, InSet
  <2>2. CASE o[2] = "file"
    <3>1. pic # img
      BY <1>6, <2>2
    <3>2. (pic \in queued \/ pic \in active) <=> (pic \in queued' \/ pic \in active')
      BY <3>1
    <3>3. ~(pic \in queued' /\ pic \in active')
      BY <1>2, <1>3, <2>2, <3>1
    <3>4. Pending(o) = Pending(o)' /\ Pending(o) \in Nat
      BY <1>2, <1>3, <2>2, <3>2, <3>3 DEF Pending, InSet
    <3> QED  BY <1>1, <1>4, <1>6, <3>4
  <2> QED  BY <2>1, <2>2
<1> QED  BY <1>5, <1>6

\* Every step keeps each part in one place.
LEMMA AccountStep ==
    ASSUME TypeOK, FromLog(log), EachOnce, [Next]_vars
    PROVE  FromLog(log)' /\ EachOnce'
<1>1. /\ log \in Seq(Delta) /\ DOMAIN log = 1..Len(log) /\ Len(log) \in Nat
      /\ blist \in [User -> Groups] /\ attaching \subseteq 1..Len(log)
      /\ asked \in [User -> Nat] /\ parked \in Seq(AnyPart)
      /\ queued \subseteq Image /\ active \subseteq Image
      /\ shown \in Seq(Visible) /\ shown \in Seq(AnyPart)
  <2>1. shown \in Seq(Visible) /\ log \in Seq(Delta)
    BY DEF TypeOK, Visible, Delta
  <2>2. shown \in Seq(AnyPart)
    BY <2>1, SeqMonotonic DEF Visible, AnyPart, Part, Kinds
  <2>3. DOMAIN log = 1..Len(log) /\ Len(log) \in Nat
    BY <2>1
  <2> QED  BY <2>1, <2>2, <2>3 DEF TypeOK, AnyPart, Groups
<1>2. PartsOf(parked, log) /\ ImagesOf(queued, log) /\ ImagesOf(active, log)
  BY DEF FromLog
<1> DEFINE S(o) == InSeq(shown, o)
           K(o) == InSeq(parked, o)
           A(o) == InSet(attaching \X {"file"}, o)
           X(o) == InSet(lost, o)
<1>3. ASSUME NEW o \in AllOrigins
      PROVE  /\ S(o) \in Nat /\ K(o) \in Nat /\ Pending(o) \in Nat
             /\ A(o) \in Nat /\ X(o) \in Nat
             /\ S(o) + K(o) + Pending(o) + A(o) + X(o) = Looked(o, log)
             /\ Looked(o, log) \in {0, 1}
  <2>1. S(o) \in Nat /\ K(o) \in Nat
    BY <1>1, InSeqCount
  <2>2. Pending(o) \in Nat /\ A(o) \in Nat /\ X(o) \in Nat
    BY DEF Pending, InSet
  <2>3. S(o) + K(o) + Pending(o) + A(o) + X(o) = Looked(o, log)
    BY DEF EachOnce, Total
  <2> QED  BY <2>1, <2>2, <2>3 DEF Looked
\* Nothing moves.
<1>4. ASSUME UNCHANGED <<log, attaching, parked, queued, active, shown, lost>>
      PROVE  FromLog(log)' /\ EachOnce'
  BY <1>4 DEF FromLog, EachOnce, Total, Pending
\* Parts are delivered.
<1>5. ASSUME NEW parts \in Seq(AnyPart), NEW list \in [User -> Groups],
             NEW waiting \in Seq(AnyPart), NEW requests \in [User -> Nat],
             Deliver(parts, list, waiting, requests), log' = log,
             PartsOf(parts, log), PartsOf(waiting, log), lost' = lost,
             \A o \in AllOrigins :
                 InSeq(waiting, o) + InSeq(parts, o) + A(o)' = K(o) + A(o)
      PROVE  FromLog(log)' /\ EachOnce'
  <2>1. FromLog(log)'
    <3>1. /\ PartsOf(parked', log)
          /\ ImagesOf(queued', log) /\ ImagesOf(active', log)
      BY <1>2, <1>5, DeliverFromLog
    <3> QED  BY <1>5, <3>1 DEF FromLog
  <2>2. ASSUME NEW o \in AllOrigins
        PROVE  Total(o)' = Looked(o, log)
    <3> DEFINE s == S(o)
               k == K(o)
               p == Pending(o)
               a == A(o)
               x == X(o)
               w == InSeq(waiting, o)
               n == InSeq(parts, o)
               b == A(o)'
               t == InSeq(shown', o) + InSeq(parked', o) + Pending(o)'
    <3>1. w \in Nat /\ n \in Nat /\ b \in Nat
      BY InSeqCount DEF InSet
    <3>2. w + n + b = k + a
      BY <1>5
    <3>3. /\ s \in Nat /\ k \in Nat /\ p \in Nat /\ a \in Nat /\ x \in Nat
          /\ s + k + p + a + x = Looked(o, log)
          /\ Looked(o, log) \in {0, 1}
      BY <1>3
    <3>4. n + p <= 1
      <4> HIDE DEF s, k, p, a, x, w, n, b
      <4> QED  BY <3>1, <3>2, <3>3
    <3>5. t = s + w + n + p
      BY <1>2, <1>5, <3>4, DeliverCount
    <3>6. Total(o)' = t + b + x
      BY <1>5 DEF Total
    <3> HIDE DEF s, k, p, a, x, w, n, b, t
    <3> QED  BY <3>1, <3>2, <3>3, <3>5, <3>6
  <2> QED  BY <1>5, <2>1, <2>2 DEF EachOnce
<1>6. ASSUME NEW new \in SeqOf(Delta, MaxBatch), NEW again \in BOOLEAN, NEW bad \in BOOLEAN,
             PublishMs(new, again, bad)
      PROVE  FromLog(log)' /\ EachOnce'
  <2>1. PICK texts : PublishStep(new, bad, texts)
    BY <1>6, PublishMsStep
  <2>2. /\ new \in Seq(Delta) /\ log' = log \o new /\ texts \in Seq(AnyPart)
        /\ attaching' = attaching \cup {m \in New(new) : "file" \in log'[m].parts}
    BY <2>1 DEF PublishStep
  <2>3. /\ log' \in Seq(Delta) /\ Len(log') = Len(log) + Len(new) /\ Len(new) \in Nat
        /\ DOMAIN log' = 1..Len(log')
        /\ \A i \in 1..Len(log) : log'[i] = log[i]
    BY <1>1, <2>2, ConcatProperties
  <2>4. /\ DOMAIN log' = DOMAIN log \cup New(new)
        /\ New(new) \cap DOMAIN log = {}
    BY <1>1, <2>3 DEF New
  <2>5. \A p : Of(p, log) => Of(p, log')
    BY <1>1, <2>3, <2>4 DEF Of
  <2>6. PartsOf(parked, log') /\ ImagesOf(queued, log') /\ ImagesOf(active, log')
    BY <1>2, <2>5 DEF PartsOf, ImagesOf
  <2>7. PartsOf(texts, log')
    <3>1. \A i \in 1..Len(texts) :
              texts[i].id \in New(new) /\ texts[i].uid = log'[texts[i].id].from
      BY <2>1 DEF PublishStep
    <3> QED  BY <2>4, <3>1 DEF PartsOf, Of
  <2>8. FromLog(log)'
    <3>1. CASE bad
      BY <2>1, <2>6, <3>1 DEF PublishStep, dataVars, imgVars, FromLog
    <3>2. CASE ~bad
      <4>1. Deliver(texts, blist, parked, asked)
        BY <2>1, <3>2 DEF PublishStep
      <4>2. /\ PartsOf(parked', log')
            /\ ImagesOf(queued', log') /\ ImagesOf(active', log')
        BY <1>1, <2>2, <2>6, <2>7, <4>1, DeliverFromLog
      <4> QED  BY <4>2 DEF FromLog
    <3> QED  BY <1>6, <3>1, <3>2
  <2>9. ASSUME NEW o \in AllOrigins
        PROVE  /\ InSeq(texts, o) \in {0, 1} /\ A(o)' \in {0, 1} /\ Looked(o, log') \in {0, 1}
               /\ Looked(o, log') = Looked(o, log) + InSeq(texts, o) + (A(o)' - A(o))
               /\ InSeq(texts, o) = 1 => Looked(o, log) = 0
    <3>1. PICK m \in Message, part \in {"text", "file"} : o = <<m, part>>
      BY DEF AllOrigins
    <3>2. /\ InSeq(texts, <<m, "file">>) = 0
          /\ InSeq(texts, <<m, "text">>) =
                 IF m \in New(new) /\ "text" \in log'[m].parts THEN 1 ELSE 0
      BY <2>1 DEF PublishStep
    <3>3. A(o)' = IF part = "file" /\ m \in attaching' THEN 1 ELSE 0
      BY <3>1 DEF InSet
    <3>4. A(o) = IF part = "file" /\ m \in attaching THEN 1 ELSE 0
      BY <3>1 DEF InSet
    <3>5. /\ Looked(o, log) = IF m \in DOMAIN log /\ part \in log[m].parts THEN 1 ELSE 0
          /\ Looked(o, log') = IF m \in DOMAIN log' /\ part \in log'[m].parts THEN 1 ELSE 0
      BY <3>1 DEF Looked
    <3> HIDE DEF A
    <3>6. CASE m \in New(new)
      <4>1. m \notin DOMAIN log /\ m \in DOMAIN log' /\ m \notin attaching
        BY <1>1, <2>4, <3>6
      <4>2. m \in attaching' <=> "file" \in log'[m].parts
        BY <2>2, <3>6, <4>1
      <4>3. CASE part = "text"
        BY <3>1, <3>2, <3>3, <3>4, <3>5, <3>6, <4>1, <4>3
      <4>4. CASE part = "file"
        BY <3>1, <3>2, <3>3, <3>4, <3>5, <3>6, <4>1, <4>2, <4>4
      <4> QED  BY <4>3, <4>4
    <3>7. CASE m \notin New(new)
      <4>1. (m \in DOMAIN log <=> m \in DOMAIN log') /\ (m \in attaching <=> m \in attaching')
        BY <2>2, <2>4, <3>7
      <4>2. Looked(o, log') = Looked(o, log)
        BY <1>1, <2>3, <3>5, <4>1
      <4>3. A(o)' = A(o)
        BY <3>3, <3>4, <4>1
      <4>4. InSeq(texts, o) = 0
        BY <3>1, <3>2, <3>7
      <4> QED  BY <3>3, <3>4, <3>5, <4>2, <4>3, <4>4
    <3> QED  BY <3>6, <3>7
  <2>10. ASSUME NEW o \in AllOrigins
         PROVE  Total(o)' = Looked(o, log')
    <3> DEFINE s == S(o)
               k == K(o)
               p == Pending(o)
               a == A(o)
               x == X(o)
               n == InSeq(texts, o)
               b == A(o)'
               l == Looked(o, log)
               e == Looked(o, log')
               t == InSeq(shown', o) + InSeq(parked', o) + Pending(o)'
    <3>1. n \in {0, 1} /\ b \in {0, 1} /\ e \in {0, 1} /\ e = l + n + (b - a)
          /\ (n = 1 => l = 0)
      BY <2>9
    <3>2. Total(o)' = t + b + InSet(lost', o)
      BY DEF Total
    <3>3. /\ s \in Nat /\ k \in Nat /\ p \in Nat /\ a \in Nat /\ x \in Nat
          /\ s + k + p + a + x = l
          /\ l \in {0, 1}
      BY <1>3
    <3>4. n + p <= 1 /\ (n = 1 => x = 0)
      <4> HIDE DEF s, k, p, a, x, n, b, l, e
      <4> QED  BY <3>1, <3>3
    <3>5. t \in Int /\ t + InSet(lost', o) = s + k + p + x + n
      <4>1. CASE bad
        <5>1. /\ InSeq(shown', o) = s /\ InSeq(parked', o) = k /\ Pending(o)' = p
              /\ lost' = lost \cup Origins(Range(texts))
          BY <2>1, <4>1 DEF PublishStep, dataVars, imgVars, Pending
        <5>2. o \in Origins(Range(texts)) <=> n # 0
          BY <2>2, OriginsRange
        <5>3. InSet(lost', o) = x + n
          <6>1. CASE n = 0
            <7>1. InSet(lost', o) = x
              BY <5>1, <5>2, <6>1 DEF InSet
            <7> HIDE DEF x, n
            <7> QED  BY <3>3, <6>1, <7>1
          <6>2. CASE n = 1
            <7>1. InSet(lost', o) = 1
              BY <5>1, <5>2, <6>2 DEF InSet
            <7> HIDE DEF x, n
            <7> QED  BY <3>4, <6>2, <7>1
          <6> QED  BY <3>1, <6>1, <6>2
        <5>4. t = s + k + p
          BY <5>1
        <5> HIDE DEF s, k, p, x, n, t
        <5> QED  BY <3>1, <3>3, <5>3, <5>4
      <4>2. CASE ~bad
        <5>1. Deliver(texts, blist, parked, asked) /\ lost' = lost
          BY <2>1, <4>2 DEF PublishStep
        <5>2. t = s + k + n + p
          BY <1>1, <2>2, <2>6, <2>7, <3>4, <5>1, DeliverCount
        <5>3. InSet(lost', o) = x
          BY <5>1
        <5> HIDE DEF s, k, p, x, n, t
        <5> QED  BY <3>1, <3>3, <5>2, <5>3
      <4> QED  BY <1>6, <4>1, <4>2
    <3>6. InSet(lost', o) \in Nat
      BY DEF InSet
    <3>7. Total(o)' = e
      <4> HIDE DEF s, k, p, a, x, n, b, l, e, t
      <4> QED  BY <3>1, <3>2, <3>3, <3>5, <3>6
    <3> QED  BY <3>7
  <2> QED  BY <2>8, <2>10 DEF EachOnce
<1>7. ASSUME NEW m \in Message, CbAttach(m)
      PROVE  FromLog(log)' /\ EachOnce'
  <2>1. PICK kind \in {"link", "picture"} :
            Deliver(<<[id |-> m, uid |-> log[m].from, kind |-> kind]>>,
                    blist, parked, asked)
    BY <1>7 DEF CbAttach
  <2> DEFINE p == [id |-> m, uid |-> log[m].from, kind |-> kind]
  <2>2. <<p>> \in Seq(AnyPart)
    BY <1>7, AttachmentType DEF CbAttach
  <2>3. /\ m \in attaching /\ attaching' = attaching \ {m}
        /\ log' = log /\ lost' = lost
    BY <1>7 DEF CbAttach
  <2>4. Of(p, log)
    BY <1>1, <2>3 DEF Of
  <2>5. Origin(p) = <<m, "file">>
    BY DEF Origin
  <2>6. p \in AnyPart
    <3>1. 1 \in 1..Len(<<p>>) /\ <<p>>[1] = p
      OBVIOUS
    <3> HIDE DEF p
    <3> QED  BY <2>2, <3>1, ElementOfSeq
  <2> HIDE DEF p
  <2>7. ASSUME NEW o \in AllOrigins
        PROVE  K(o) + InSeq(<<p>>, o) + A(o)' = K(o) + A(o)
    <3>1. InSeq(<<p>>, o) = IF o = <<m, "file">> THEN 1 ELSE 0
      BY <2>5, <2>6, InSeqOne
    <3>2. InSeq(<<p>>, o) + A(o)' = A(o)
      <4>1. CASE o = <<m, "file">>
        <5>1. A(o) = 1 /\ A(o)' = 0
          BY <2>3, <4>1 DEF InSet
        <5> HIDE DEF A
        <5> QED  BY <3>1, <4>1, <5>1
      <4>2. CASE o # <<m, "file">>
        <5>1. A(o) = A(o)' /\ A(o) \in Nat
          BY <2>3, <4>2 DEF InSet
        <5> HIDE DEF A
        <5> QED  BY <3>1, <4>2, <5>1
      <4> QED  BY <4>1, <4>2
    <3>3. K(o) \in Nat /\ A(o) \in Nat /\ A(o)' \in Nat /\ InSeq(<<p>>, o) \in Nat
      BY <1>3, <3>1 DEF InSet
    <3> HIDE DEF K, A
    <3> QED  BY <3>2, <3>3
  <2>8. PartsOf(<<p>>, log)
    <3>1. \A i \in 1..Len(<<p>>) : <<p>>[i] = p
      OBVIOUS
    <3> QED  BY <2>4, <3>1 DEF PartsOf
  <2>9. Deliver(<<p>>, blist, parked, asked)
    BY <2>1 DEF p
  <2> HIDE DEF S, A, X
  <2> QED  BY <1>1, <1>2, <1>5, <2>2, <2>3, <2>7, <2>8, <2>9
<1>8. ASSUME NEW m \in Message, AttachFailed(m)
      PROVE  FromLog(log)' /\ EachOnce'
  <2>1. /\ m \in attaching /\ attaching' = attaching \ {m}
        /\ lost' = lost \cup {<<m, "file">>}
        /\ UNCHANGED <<log, parked, queued, active, shown>>
    BY <1>8 DEF AttachFailed, dataVars, imgVars
  <2>2. ASSUME NEW o \in AllOrigins
        PROVE  Total(o)' = Looked(o, log)
    <3> DEFINE s == S(o)
               k == K(o)
               p == Pending(o)
               a == A(o)
               x == X(o)
               b == A(o)'
               y == X(o)'
    <3>1. /\ s \in Nat /\ k \in Nat /\ p \in Nat /\ a \in Nat /\ x \in Nat
          /\ s + k + p + a + x = Looked(o, log)
          /\ Looked(o, log) \in {0, 1}
      BY <1>3
    <3>2. Total(o)' = s + k + p + b + y
      BY <2>1 DEF Total, Pending
    <3>3. CASE o = <<m, "file">>
      <4>1. a = 1 /\ b = 0 /\ y = 1
        BY <2>1, <3>3 DEF InSet
      <4> HIDE DEF s, k, p, a, x, b, y
      <4> QED  BY <3>1, <3>2, <4>1
    <3>4. CASE o # <<m, "file">>
      <4>1. b = a /\ y = x
        BY <2>1, <3>4 DEF InSet
      <4> HIDE DEF s, k, p, a, x, b, y
      <4> QED  BY <3>1, <3>2, <4>1
    <3> QED  BY <3>3, <3>4
  <2> QED  BY <1>2, <2>1, <2>2 DEF FromLog, EachOnce
<1>9. ASSUME NEW u \in User, CbContact(u)
      PROVE  FromLog(log)' /\ EachOnce'
  <2> DEFINE list == IF blist[u] = "none" THEN [blist EXCEPT ![u] = "other"] ELSE blist
             requests == [asked EXCEPT ![u] = @ - 1]
             waiting == From(parked, User \ {u})
             parts == From(parked, {u})
  <2>1. /\ asked[u] > 0 /\ UNCHANGED <<log, attaching, lost>>
        /\ Deliver(parts, list, waiting, requests)
    BY <1>9 DEF CbContact, apiVars, TakeMessages
  <2>2. /\ parts \in Seq(AnyPart) /\ waiting \in Seq(AnyPart)
        /\ list \in [User -> Groups] /\ requests \in [User -> Nat]
    BY <2>1, TakenType DEF TakeMessages
  <2>3. SentBy(parts, parked, {u}) /\ SentBy(waiting, parked, User \ {u})
    BY <1>1, FromType
  <2>4. \A o : InSeq(parts, o) + InSeq(waiting, o) = K(o)
    BY <1>1, FromCount
  <2> HIDE DEF list, requests, waiting, parts
  <2>5. PartsOf(parts, log) /\ PartsOf(waiting, log)
    BY <1>2, <2>3 DEF SentBy, PartsOf
  <2>6. ASSUME NEW o \in AllOrigins
        PROVE  InSeq(waiting, o) + InSeq(parts, o) + A(o)' = K(o) + A(o)
    <3>1. InSeq(parts, o) + InSeq(waiting, o) = K(o) /\ A(o)' = A(o)
      BY <2>1, <2>4
    <3>2. InSeq(parts, o) \in Nat /\ InSeq(waiting, o) \in Nat /\ A(o) \in Nat
      BY <1>3, <2>2, InSeqCount
    <3> HIDE DEF K, A
    <3> QED  BY <3>1, <3>2
  <2> HIDE DEF S, K, A, X
  <2> QED  BY <1>5, <2>1, <2>2, <2>5, <2>6
<1>10. ASSUME NEW u \in User, ContactFailed(u)
       PROVE  FromLog(log)' /\ EachOnce'
  BY <1>4, <1>10 DEF ContactFailed, imgVars
<1>11. ASSUME NEW users \in SUBSET User, NEW changed \in SUBSET users,
              CbContacts(users, changed)
       PROVE  FromLog(log)' /\ EachOnce'
  <2> DEFINE added == [id : {icons + 1}, uid : changed, kind : {"icon"}]
             pool == queued \cup added
  <2>1. added \subseteq Image
    BY <1>11, IconsType DEF TypeOK, Image
  <2>2. \A img \in added : img.kind = "icon"
    OBVIOUS
  <2>3. QueueImages(pool) /\ UNCHANGED <<log, attaching, parked, shown, lost>>
    BY <1>11 DEF CbContacts, apiVars, dataVars
  <2> HIDE DEF added
  <2>4. Origins(pool) = Origins(queued) /\ ImagesOf(pool, log)
    BY <1>2, <2>2 DEF Origins, ImagesOf, IsPicture
  <2>5. pool \in SUBSET Image
    BY <1>1, <2>1
  <2> HIDE DEF pool
  <2>6. ImagesOf(queued', log) /\ ImagesOf(active', log)
    BY <1>2, <2>3, <2>4 DEF QueueImages, Started, ImagesOf
  <2>7. ASSUME NEW o \in AllOrigins
        PROVE  Pending(o)' = Pending(o)
    <3>1. Pending(o) <= 1
      <4> HIDE DEF S, K, A, X
      <4> QED  BY <1>3
    <3>2. ~(o \in Origins(pool) /\ o \in Origins(active))
      BY <2>4, <3>1 DEF Pending, InSet
    <3>3. InSet(Origins(queued'), o) + InSet(Origins(active'), o)
              = InSet(Origins(pool), o) + InSet(Origins(active), o)
      BY <1>1, <1>2, <2>3, <2>4, <2>5, <3>2, QueueCount
    <3> QED  BY <2>4, <3>3 DEF Pending
  <2>8. \A o \in AllOrigins : Total(o)' = Total(o)
    BY <2>3, <2>7 DEF Total
  <2> QED  BY <1>2, <2>3, <2>6, <2>8 DEF FromLog, EachOnce
<1>12. ASSUME NEW added, NEW removed, CbContactsDelta(added, removed)
       PROVE  FromLog(log)' /\ EachOnce'
  BY <1>4, <1>12 DEF CbContactsDelta, apiVars, dataVars, imgVars
<1>13. ASSUME NEW img \in Image, ImageDone(img)
       PROVE  FromLog(log)' /\ EachOnce'
  <2>1. PICK new \in SUBSET queued :
            active' = (active \cup new) \ {img} /\ queued' = queued \ new
    BY <1>13 DEF ImageDone, Started
  <2>2. img \in active /\ UNCHANGED <<log, attaching, lost>>
    BY <1>13 DEF ImageDone, apiVars
  <2>3. ASSUME NEW o \in AllOrigins
        PROVE  /\ ImagesOf(queued', log) /\ ImagesOf(active', log)
               /\ Pending(o) = Pending(o)' +
                      IF IsPicture(img) /\ o = <<img.id, "file">> THEN 1 ELSE 0
               /\ Pending(o)' \in Nat
    <3>1. Pending(o) <= 1
      <4> HIDE DEF S, K, A, X
      <4> QED  BY <1>3
    <3>2. Pending(o)' \in Nat
      BY DEF Pending, InSet
    <3> QED  BY <1>1, <1>2, <2>1, <2>2, <3>1, <3>2, LeaveCount
  <2>4. ImagesOf(queued', log) /\ ImagesOf(active', log)
    BY <1>2, <2>1 DEF ImagesOf
  <2>5. CASE IsPicture(img)
    <3> DEFINE photo == [img EXCEPT !.kind = "photo"]
    <3>1. Route(<<photo>>, blist, parked, asked)
      BY <1>13, <2>5 DEF ImageDone, ImageFunc
    <3>2. <<photo>> \in Seq(AnyPart)
      BY <2>5, PhotoType
    <3>3. img \in Part({"picture"})
      BY <2>5 DEF Image, Icon, IsPicture
    <3>4. photo.id = img.id /\ photo.uid = img.uid /\ photo.kind = "photo"
      BY <3>3 DEF Part
    <3>5. photo \in AnyPart
      <4>1. 1 \in 1..Len(<<photo>>) /\ <<photo>>[1] = photo
        OBVIOUS
      <4> HIDE DEF photo
      <4> QED  BY <3>2, <4>1, ElementOfSeq
    <3> HIDE DEF photo
    <3>6. PartsOf(<<photo>>, log)
      <4>1. \A i \in 1..Len(<<photo>>) : <<photo>>[i] = photo
        OBVIOUS
      <4>2. Of(photo, log)
        BY <1>2, <2>2, <2>5, <3>4 DEF ImagesOf, Of
      <4> QED  BY <4>1, <4>2 DEF PartsOf
    <3>7. PartsOf(parked', log)
      BY <1>1, <1>2, <3>1, <3>2, <3>6, RouteFromLog
    <3>8. ASSUME NEW o \in AllOrigins
          PROVE  Total(o)' = Looked(o, log)
      <4>0. RoutedOnce(<<photo>>, blist, parked, o)
        BY <1>1, <3>1, <3>2, RouteCount
      <4> DEFINE s == S(o)
                 k == K(o)
                 p == Pending(o)
                 a == A(o)
                 x == X(o)
                 n == InSeq(<<photo>>, o)
                 c == Count(<<photo>>, At(o) \cap Pictures(blist))
                 q == Pending(o)'
                 t == InSeq(shown', o) + InSeq(parked', o)
      <4>1. /\ s \in Nat /\ k \in Nat /\ p \in Nat /\ a \in Nat /\ x \in Nat
            /\ s + k + p + a + x = Looked(o, log)
            /\ Looked(o, log) \in {0, 1}
        BY <1>3
      <4>2. Total(o)' = t + q + a + x
        BY <2>2 DEF Total
      <4>3. n = IF o = <<img.id, "file">> THEN 1 ELSE 0
        <5>1. Origin(photo) = <<img.id, "file">>
          BY <3>4 DEF Origin
        <5> QED  BY <3>5, <5>1, InSeqOne
      <4>4. p = q + n /\ q \in Nat
        BY <2>3, <2>5, <4>3
      <4>5. c = 0
        <5>1. \A i \in 1..Len(<<photo>>) : <<photo>>[i] = photo
          OBVIOUS
        <5>2. \A i \in 1..Len(<<photo>>) : <<photo>>[i] \notin At(o) \cap Pictures(blist)
          BY <3>4, <5>1 DEF Pictures, IsPicture
        <5> QED  BY <3>2, <5>2, CountZero
      <4>6. t + c = s + k + n
        BY <4>0 DEF RoutedOnce
      <4>7. t \in Nat
        <5>1. shown' \in Seq(AnyPart) /\ parked' \in Seq(AnyPart)
          <6>1. shown' \in Seq(Visible) /\ parked' \in Seq(AnyPart)
            BY <1>1, <3>1, <3>2, RouteType
          <6> QED  BY <6>1, SeqMonotonic DEF Visible, AnyPart, Part, Kinds
        <5>2. InSeq(shown', o) \in Nat /\ InSeq(parked', o) \in Nat
          BY <5>1, InSeqCount
        <5> QED  BY <5>2
      <4>8. n \in Nat
        BY <4>3
      <4> HIDE DEF s, k, p, a, x, n, c, q, t
      <4> QED  BY <4>1, <4>2, <4>4, <4>5, <4>6, <4>7, <4>8
    <3> QED  BY <2>2, <2>4, <3>7, <3>8 DEF FromLog, EachOnce
  <2>6. CASE ~IsPicture(img)
    <3>1. UNCHANGED <<asked, parked, shown>>
      BY <1>13, <2>6 DEF ImageDone, ImageFunc, dataVars
    <3>2. \A o \in AllOrigins : Pending(o)' = Pending(o)
      BY <2>3, <2>6
    <3>3. \A o \in AllOrigins : Total(o)' = Total(o)
      BY <2>2, <3>1, <3>2 DEF Total
    <3> QED  BY <1>2, <2>2, <2>4, <3>1, <3>3 DEF FromLog, EachOnce
  <2> QED  BY <2>5, <2>6
<1>14. ASSUME NEW img \in Image, ImageFailed(img)
       PROVE  FromLog(log)' /\ EachOnce'
  <2>1. /\ img \in active /\ active' = active \ {img} /\ lost' = lost \cup Origins({img})
        /\ UNCHANGED <<log, attaching, parked, queued, shown>>
    BY <1>14 DEF ImageFailed, apiVars, dataVars
  <2>2. active' = (active \cup {}) \ {img} /\ queued' = queued \ {} /\ {} \in SUBSET queued
    BY <2>1
  <2>3. ImagesOf(queued', log) /\ ImagesOf(active', log)
    BY <1>2, <2>1 DEF ImagesOf
  <2>4. \A o : o \in Origins({img}) <=> IsPicture(img) /\ o = <<img.id, "file">>
    BY DEF Origins, Origin, IsPicture, Image, Icon, Part
  <2>5. ASSUME NEW o \in AllOrigins
        PROVE  Total(o)' = Looked(o, log)
    <3> DEFINE s == S(o)
               k == K(o)
               p == Pending(o)
               a == A(o)
               x == X(o)
               q == Pending(o)'
               y == X(o)'
    <3>1. /\ s \in Nat /\ k \in Nat /\ p \in Nat /\ a \in Nat /\ x \in Nat
          /\ s + k + p + a + x = Looked(o, log)
          /\ Looked(o, log) \in {0, 1}
      BY <1>3
    <3>2. Total(o)' = s + k + q + a + y
      BY <2>1 DEF Total
    <3>3. p <= 1
      <4> HIDE DEF s, k, p, a, x, q, y
      <4> QED  BY <3>1
    <3>4. /\ p = q + IF IsPicture(img) /\ o = <<img.id, "file">> THEN 1 ELSE 0
          /\ q \in Nat
      <4>1. p = q + IF IsPicture(img) /\ o = <<img.id, "file">> THEN 1 ELSE 0
        BY <1>1, <1>2, <2>1, <2>2, <3>3, LeaveCount
      <4> QED  BY <4>1 DEF Pending, InSet
    <3>5. CASE IsPicture(img) /\ o = <<img.id, "file">>
      <4>1. y = 1
        BY <2>1, <2>4, <3>5 DEF InSet
      <4> HIDE DEF s, k, p, a, x, q, y
      <4> QED  BY <3>1, <3>2, <3>4, <3>5, <4>1
    <3>6. CASE ~(IsPicture(img) /\ o = <<img.id, "file">>)
      <4>1. y = x
        BY <2>1, <2>4, <3>6 DEF InSet
      <4> HIDE DEF s, k, p, a, x, q, y
      <4> QED  BY <3>1, <3>2, <3>4, <3>6, <4>1
    <3> QED  BY <3>5, <3>6
  <2> QED  BY <1>2, <2>1, <2>3, <2>5 DEF FromLog, EachOnce
<1>15. CASE Restart
  <2>1. /\ lost' = lost \cup Origins(queued \cup active \cup Range(parked))
                         \cup attaching \X {"file"}
        /\ attaching' = {} /\ parked' = <<>> /\ queued' = {} /\ active' = {}
        /\ UNCHANGED <<log, shown>>
    BY <1>15 DEF Restart
  <2>2. FromLog(log)'
    BY <2>1 DEF FromLog, PartsOf, ImagesOf
  <2>3. ASSUME NEW o \in AllOrigins
        PROVE  Total(o)' = Looked(o, log)
    <3> DEFINE s == S(o)
               k == K(o)
               p == Pending(o)
               a == A(o)
               x == X(o)
               y == X(o)'
    <3>1. /\ s \in Nat /\ k \in Nat /\ p \in Nat /\ a \in Nat /\ x \in Nat
          /\ s + k + p + a + x = Looked(o, log)
          /\ Looked(o, log) \in {0, 1}
      BY <1>3
    <3>2. Total(o)' = s + y
      <4>1. InSeq(parked', o) = 0
        <5>1. {i \in DOMAIN <<>> : Origin(<<>>[i]) = o} = {}
          OBVIOUS
        <5> QED  BY <2>1, <5>1, FS_EmptySet DEF InSeq
      <4>2. Pending(o)' = 0 /\ A(o)' = 0
        BY <2>1 DEF Pending, Origins, InSet
      <4>3. Total(o)' = s + InSeq(parked', o) + Pending(o)' + A(o)' + y
        BY <2>1 DEF Total
      <4>4. y \in Nat
        BY DEF InSet
      <4> HIDE DEF s, A, y
      <4> QED  BY <3>1, <4>1, <4>2, <4>3, <4>4 DEF s
    <3>3. /\ k # 0 <=> o \in Origins(Range(parked))
          /\ p # 0 <=> o \in Origins(queued) \/ o \in Origins(active)
          /\ a # 0 <=> o \in attaching \X {"file"}
          /\ x # 0 <=> o \in lost
      BY <1>1, OriginsRange DEF Pending, InSet
    <3>4. Origins(queued \cup active \cup Range(parked))
              = Origins(queued) \cup Origins(active) \cup Origins(Range(parked))
      BY DEF Origins
    <3>5. o \in lost' <=> k # 0 \/ p # 0 \/ a # 0 \/ x # 0
      BY <2>1, <3>3, <3>4
    <3>6. y = IF k # 0 \/ p # 0 \/ a # 0 \/ x # 0 THEN 1 ELSE 0
      BY <3>5 DEF InSet
    <3> HIDE DEF s, k, p, a, x, y
    <3> QED  BY <3>1, <3>2, <3>6
  <2> QED  BY <2>1, <2>2, <2>3 DEF EachOnce
<1>16. CASE UNCHANGED vars
  BY <1>4, <1>16 DEF vars, apiVars, dataVars, imgVars
<1> QED
  BY <1>6, <1>7, <1>8, <1>9, <1>10, <1>11, <1>12, <1>13, <1>14, <1>15, <1>16
     DEF Next, Delta

\* Nothing has been sent yet.
LEMMA AccountInit == Init => FromLog(log) /\ EachOnce
<1> SUFFICES ASSUME Init PROVE FromLog(log) /\ EachOnce
  OBVIOUS
<1>1. /\ log = <<>> /\ attaching = {} /\ parked = <<>> /\ queued = {} /\ active = {}
      /\ shown = <<>> /\ lost = {}
  BY DEF Init
<1>2. FromLog(log)
  BY <1>1 DEF FromLog, PartsOf, ImagesOf
<1>3. ASSUME NEW o \in AllOrigins
      PROVE  Total(o) = Looked(o, log)
  <2>1. {i \in DOMAIN <<>> : Origin(<<>>[i]) = o} = {}
    OBVIOUS
  <2>2. InSeq(<<>>, o) = 0
    BY <2>1, FS_EmptySet DEF InSeq
  <2>3. Pending(o) = 0 /\ InSet(attaching \X {"file"}, o) = 0 /\ InSet(lost, o) = 0
    BY <1>1 DEF Pending, Origins, InSet
  <2>4. Looked(o, log) = 0
    BY <1>1 DEF Looked
  <2> QED  BY <1>1, <2>2, <2>3, <2>4 DEF Total
<1> QED  BY <1>2, <1>3 DEF EachOnce

\* Every text and attachment of every message the account has looked at is in
\* exactly one place: shown, parked, in the table of downloads, being asked for
\* or lost, whatever the server sends again, whichever buddies come and go,
\* and however often the account signs on again.
THEOREM Conserved == Spec => []Accounted
<1>1. TypeOK /\ FromLog(log) /\ EachOnce /\ [Next]_vars => FromLog(log)' /\ EachOnce'
  BY AccountStep
<1>2. TypeOK /\ EachOnce => Accounted
  <2> SUFFICES ASSUME TypeOK, EachOnce, NEW m \in DOMAIN log, NEW part \in log[m].parts
               PROVE  InSeq(shown, <<m, part>>) + InSeq(parked, <<m, part>>)
                         + InSet(Origins(queued), <<m, part>>)
                         + InSet(Origins(active), <<m, part>>)
                         + InSet(attaching \X {"file"}, <<m, part>>)
                         + InSet(lost, <<m, part>>) = 1
    BY DEF Accounted
  <2>1. log \in Seq(Delta) /\ Len(log) \in Nat /\ Len(log) <= MaxMessages
    BY DEF TypeOK, Delta
  <2>2. m \in 1..Len(log) /\ log[m] \in Delta
    BY <2>1
  <2>3. m \in Message
    BY <2>1, <2>2, MessagesAssumption DEF Message
  <2>4. part \in {"text", "file"}
    BY <2>2 DEF Delta, Contents
  <2>5. Looked(<<m, part>>, log) = 1
    BY DEF Looked
  <2>6. Total(<<m, part>>) = 1
    BY <2>3, <2>4, <2>5 DEF EachOnce, AllOrigins
  <2> DEFINE o == <<m, part>>
             s == InSeq(shown, o)
             k == InSeq(parked, o)
             q == InSet(Origins(queued), o)
             c == InSet(Origins(active), o)
             a == InSet(attaching \X {"file"}, o)
             x == InSet(lost, o)
  <2>7. s + k + (q + c) + a + x = 1
    BY <2>6 DEF Total, Pending
  <2>8. s \in Nat /\ k \in Nat
    <3>1. shown \in Seq(AnyPart)
      BY SeqMonotonic DEF TypeOK, AnyPart, Part, Kinds
    <3>2. parked \in Seq(AnyPart)
      BY DEF TypeOK, AnyPart
    <3> QED  BY <3>1, <3>2, InSeqCount
  <2>9. q \in Nat /\ c \in Nat /\ a \in Nat /\ x \in Nat
    BY DEF InSet
  <2> HIDE DEF s, k, q, c, a, x
  <2>10. s + k + q + c + a + x = 1
    BY <2>7, <2>8, <2>9
  <2> QED  BY <2>10 DEF s, k, q, c, a, x
<1> QED  BY <1>1, <1>2, AccountInit, Typed, PTL DEF Spec

-----------------------------------------------------------------------------
(* The order of the texts.                                                 *)

\* Texts in s of a user who is not in X are older than those in t; those in s
\* ascend; the sender of a text in s has no buddy.
Older(X, p, q) ==
    p.kind = "text" /\ q.kind = "text" /\ p.uid = q.uid /\ p.uid \notin X => p.id < q.id
Before(X, s, t) == \A i \in 1..Len(s), j \in 1..Len(t) : Older(X, s[i], t[j])
Ascending(X, s) == \A i, j \in 1..Len(s) : i < j => Older(X, s[i], s[j])
Unlisted(X, s, list) ==
    \A i \in 1..Len(s) : s[i].kind = "text" /\ s[i].uid \notin X => list[s[i].uid] = "none"

\* Where an element of a concatenation comes from.
LEMMA ConcatElements ==
    ASSUME NEW S, NEW s \in Seq(S), NEW t \in Seq(S), NEW i \in 1..Len(s \o t)
    PROVE  \/ i \in 1..Len(s) /\ (s \o t)[i] = s[i]
           \/ i \notin 1..Len(s) /\ i - Len(s) \in 1..Len(t) /\ (s \o t)[i] = t[i - Len(s)]
<1>1. /\ Len(s \o t) = Len(s) + Len(t) /\ Len(s) \in Nat /\ Len(t) \in Nat
      /\ \A k \in 1..Len(s) + Len(t) :
             (s \o t)[k] = IF k <= Len(s) THEN s[k] ELSE t[k - Len(s)]
  BY ConcatProperties
<1> QED  BY <1>1

\* Texts in order, followed by newer ones in order, are in order.
LEMMA AscendingConcat ==
    ASSUME NEW X, NEW S, NEW s \in Seq(S), NEW t \in Seq(S),
           Ascending(X, s), Ascending(X, t), Before(X, s, t)
    PROVE  Ascending(X, s \o t)
<1> DEFINE r == s \o t
<1> SUFFICES ASSUME NEW i \in 1..Len(r), NEW j \in 1..Len(r), i < j
             PROVE  Older(X, r[i], r[j])
  BY DEF Ascending
<1>1. \/ i \in 1..Len(s) /\ r[i] = s[i]
      \/ i \notin 1..Len(s) /\ i - Len(s) \in 1..Len(t) /\ r[i] = t[i - Len(s)]
  BY ConcatElements
<1>2. \/ j \in 1..Len(s) /\ r[j] = s[j]
      \/ j \notin 1..Len(s) /\ j - Len(s) \in 1..Len(t) /\ r[j] = t[j - Len(s)]
  BY ConcatElements
<1>3. Len(s) \in Nat /\ Len(t) \in Nat
  OBVIOUS
<1>4. i \in Nat /\ j \in Nat
  BY ConcatProperties
<1> HIDE DEF r
<1>5. CASE i \in 1..Len(s) /\ j \in 1..Len(s)
  BY <1>1, <1>2, <1>5 DEF Ascending
<1>6. CASE i \in 1..Len(s) /\ j \notin 1..Len(s)
  BY <1>1, <1>2, <1>6 DEF Before
<1>7. CASE i \notin 1..Len(s)
  <2>1. j \notin 1..Len(s) /\ i - Len(s) < j - Len(s)
    BY <1>1, <1>3, <1>4, <1>7
  <2> QED  BY <1>1, <1>2, <1>7, <2>1 DEF Ascending
<1> QED  BY <1>5, <1>6, <1>7

\* What both of two sequences come before, their concatenation comes before.
LEMMA BeforeConcatLeft ==
    ASSUME NEW X, NEW S, NEW s \in Seq(S), NEW t \in Seq(S), NEW u, Before(X, s, u), Before(X, t, u)
    PROVE  Before(X, s \o t, u)
<1> SUFFICES ASSUME NEW i \in 1..Len(s \o t), NEW j \in 1..Len(u)
             PROVE  Older(X, (s \o t)[i], u[j])
  BY DEF Before
<1>1. \/ i \in 1..Len(s) /\ (s \o t)[i] = s[i]
      \/ i \notin 1..Len(s) /\ i - Len(s) \in 1..Len(t) /\ (s \o t)[i] = t[i - Len(s)]
  BY ConcatElements
<1> QED  BY <1>1 DEF Before

\* What comes before both comes before their concatenation.
LEMMA BeforeConcatRight ==
    ASSUME NEW X, NEW S, NEW s \in Seq(S), NEW t \in Seq(S), NEW u, Before(X, u, s), Before(X, u, t)
    PROVE  Before(X, u, s \o t)
<1> SUFFICES ASSUME NEW i \in 1..Len(s \o t), NEW j \in 1..Len(u)
             PROVE  Older(X, u[j], (s \o t)[i])
  BY DEF Before
<1>1. \/ i \in 1..Len(s) /\ (s \o t)[i] = s[i]
      \/ i \notin 1..Len(s) /\ i - Len(s) \in 1..Len(t) /\ (s \o t)[i] = t[i - Len(s)]
  BY ConcatElements
<1> QED  BY <1>1 DEF Before

\* A filtered list keeps every order.
LEMMA FilterOrder ==
    ASSUME NEW X, NEW r, NEW seq, NEW chosen, Filters(r, seq, chosen)
    PROVE  /\ Ascending(X, seq) => Ascending(X, r)
           /\ \A t : Before(X, seq, t) => Before(X, r, t)
           /\ \A t : Before(X, t, seq) => Before(X, t, r)
BY DEF Filters, Ascending, Before

\* A message of an unknown sender waits behind the older ones of that sender,
\* and one of a known sender has none to wait for.
LEMMA RouteOrder ==
    ASSUME NEW X, NEW parts \in Seq(AnyPart), NEW list \in [User -> Groups],
           NEW waiting \in Seq(AnyPart), NEW requests,
           Route(parts, list, waiting, requests), shown \in Seq(AnyPart),
           Ascending(X, shown), Ascending(X, waiting), Ascending(X, parts),
           Before(X, shown, waiting), Before(X, shown, parts), Before(X, waiting, parts),
           Unlisted(X, waiting, list)
    PROVE  /\ Ascending(X, shown') /\ Ascending(X, parked') /\ Before(X, shown', parked')
           /\ Unlisted(X, parked', list)
<1> DEFINE A == {p \in Part(Kinds) : p.uid \in {u \in User : list[u] = "none"}}
           B == {p \in Part(Kinds) : list[p.uid] # "none" /\ ~IsPicture(p)}
           unknown == Selected(parts, A)
           known == Selected(parts, B)
<1>1. parked' = waiting \o unknown /\ shown' = shown \o known
  BY DEF Route, From
<1>2. /\ \A p \in A : list[p.uid] = "none"
      /\ \A p \in B : list[p.uid] # "none"
  OBVIOUS
<1> HIDE DEF A, B
<1>3. unknown \in Seq(AnyPart) /\ known \in Seq(AnyPart)
  BY SelectedEmbeds
<1>4. Filters(unknown, parts, A)
  BY SelectedFilters
<1>5. Filters(known, parts, B)
  BY SelectedFilters
<1> HIDE DEF unknown, known
<1>6. /\ Ascending(X, unknown) /\ Ascending(X, known)
      /\ Before(X, shown, unknown) /\ Before(X, shown, known)
      /\ Before(X, waiting, unknown)
  BY <1>4, <1>5, FilterOrder
<1>7. /\ \A i \in 1..Len(unknown) : list[unknown[i].uid] = "none"
      /\ \A i \in 1..Len(known) : list[known[i].uid] # "none"
  BY <1>2, <1>4, <1>5 DEF Filters
<1>8. Before(X, known, waiting) /\ Before(X, known, unknown)
  BY <1>7 DEF Before, Older, Unlisted
<1>9. Ascending(X, shown') /\ Ascending(X, parked')
  BY <1>1, <1>3, <1>6, AscendingConcat
<1>10. Before(X, shown, parked') /\ Before(X, known, parked')
  BY <1>1, <1>3, <1>6, <1>8, BeforeConcatRight
<1>11. Before(X, shown', parked')
  BY <1>1, <1>3, <1>10, BeforeConcatLeft
<1>12. ASSUME NEW i \in 1..Len(parked'),
              parked'[i].kind = "text", parked'[i].uid \notin X
       PROVE  list[parked'[i].uid] = "none"
  <2>1. \/ i \in 1..Len(waiting) /\ parked'[i] = waiting[i]
        \/ i \notin 1..Len(waiting) /\ i - Len(waiting) \in 1..Len(unknown)
           /\ parked'[i] = unknown[i - Len(waiting)]
    BY <1>1, <1>3, ConcatElements
  <2> QED  BY <1>7, <1>12, <2>1 DEF Unlisted
<1> QED  BY <1>9, <1>11, <1>12 DEF Unlisted

\* Texts that are shown or parked are texts the account has looked at.
TextsLooked == /\ \A i \in 1..Len(shown) : shown[i].kind = "text" => shown[i].id <= Len(log)
               /\ \A i \in 1..Len(parked) : parked[i].kind = "text" => parked[i].id <= Len(log)

TextOrder ==
    /\ Ascending(overtaken, shown) /\ Ascending(overtaken, parked) /\ Before(overtaken, shown, parked)
    /\ Unlisted(overtaken, parked, blist)
    /\ TextsLooked

\* Routing shows and parks no text newer than those it is given or finds.
LEMMA RouteLooked ==
    ASSUME NEW parts \in Seq(AnyPart), NEW list, NEW waiting \in Seq(AnyPart),
           NEW requests, Route(parts, list, waiting, requests),
           shown \in Seq(AnyPart), NEW n,
           \A i \in 1..Len(shown) : shown[i].kind = "text" => shown[i].id <= n,
           \A i \in 1..Len(waiting) : waiting[i].kind = "text" => waiting[i].id <= n,
           \A i \in 1..Len(parts) : parts[i].kind = "text" => parts[i].id <= n
    PROVE  /\ \A i \in 1..Len(shown') : shown'[i].kind = "text" => shown'[i].id <= n
           /\ \A i \in 1..Len(parked') : parked'[i].kind = "text" => parked'[i].id <= n
<1> DEFINE A == {p \in Part(Kinds) : p.uid \in {u \in User : list[u] = "none"}}
           B == {p \in Part(Kinds) : list[p.uid] # "none" /\ ~IsPicture(p)}
           unknown == Selected(parts, A)
           known == Selected(parts, B)
<1>1. parked' = waiting \o unknown /\ shown' = shown \o known
  BY DEF Route, From
<1> HIDE DEF A, B
<1>2. unknown \in Seq(AnyPart) /\ known \in Seq(AnyPart)
  BY SelectedEmbeds
<1>3. Filters(unknown, parts, A)
  BY SelectedFilters
<1>4. Filters(known, parts, B)
  BY SelectedFilters
<1> HIDE DEF unknown, known
<1>5. ASSUME NEW i \in 1..Len(shown'), shown'[i].kind = "text"
      PROVE  shown'[i].id <= n
  <2>1. \/ i \in 1..Len(shown) /\ shown'[i] = shown[i]
        \/ i \notin 1..Len(shown) /\ i - Len(shown) \in 1..Len(known)
           /\ shown'[i] = known[i - Len(shown)]
    BY <1>1, <1>2, ConcatElements
  <2>2. CASE i \in 1..Len(shown)
    BY <1>5, <2>1, <2>2
  <2>3. CASE i \notin 1..Len(shown)
    <3>1. PICK k \in 1..Len(parts) : shown'[i] = parts[k]
      BY <1>4, <2>1, <2>3 DEF Filters
    <3> QED  BY <1>5, <3>1
  <2> QED  BY <2>2, <2>3
<1>6. ASSUME NEW i \in 1..Len(parked'), parked'[i].kind = "text"
      PROVE  parked'[i].id <= n
  <2>1. \/ i \in 1..Len(waiting) /\ parked'[i] = waiting[i]
        \/ i \notin 1..Len(waiting) /\ i - Len(waiting) \in 1..Len(unknown)
           /\ parked'[i] = unknown[i - Len(waiting)]
    BY <1>1, <1>2, ConcatElements
  <2>2. CASE i \in 1..Len(waiting)
    BY <1>6, <2>1, <2>2
  <2>3. CASE i \notin 1..Len(waiting)
    <3>1. PICK k \in 1..Len(parts) : parked'[i] = parts[k]
      BY <1>3, <2>1, <2>3 DEF Filters
    <3> QED  BY <1>6, <3>1
  <2> QED  BY <2>2, <2>3
<1> QED  BY <1>5, <1>6

\* Every step keeps the texts in order.
LEMMA OrderStep ==
    ASSUME TypeOK, TextOrder, [Next]_vars
    PROVE  TextOrder'
<1>1. /\ Len(log) \in Nat /\ attaching \subseteq 1..Len(log)
      /\ blist \in [User -> Groups] /\ asked \in [User -> Nat]
      /\ parked \in Seq(AnyPart) /\ shown \in Seq(AnyPart)
  <2>1. shown \in Seq(Visible) /\ log \in Seq(Delta)
    BY DEF TypeOK, Visible, Delta
  <2>2. shown \in Seq(AnyPart)
    BY <2>1, SeqMonotonic DEF Visible, AnyPart, Part, Kinds
  <2>3. DOMAIN log = 1..Len(log) /\ Len(log) \in Nat
    BY <2>1
  <2> QED  BY <2>1, <2>2, <2>3 DEF TypeOK, AnyPart, Groups
<1>2. /\ Ascending(overtaken, shown) /\ Ascending(overtaken, parked) /\ Before(overtaken, shown, parked)
      /\ Unlisted(overtaken, parked, blist)
      /\ \A i \in 1..Len(shown) : shown[i].kind = "text" => shown[i].id <= Len(log)
      /\ \A i \in 1..Len(parked) : parked[i].kind = "text" => parked[i].id <= Len(log)
  BY DEF TextOrder, TextsLooked
<1>3. ASSUME UNCHANGED <<log, blist, parked, shown, overtaken>>
      PROVE  TextOrder'
  BY <1>3 DEF TextOrder, TextsLooked
\* Parts that are not texts change nothing.
<1>4. ASSUME NEW parts \in Seq(AnyPart), Route(parts, blist, parked, asked),
             UNCHANGED <<log, blist, overtaken>>,
             \A i \in 1..Len(parts) : parts[i].kind # "text"
      PROVE  TextOrder'
  <2>1. Ascending(overtaken, parts) /\ Before(overtaken, shown, parts) /\ Before(overtaken, parked, parts)
    BY <1>4 DEF Ascending, Before, Older
  <2>2. /\ Ascending(overtaken, shown') /\ Ascending(overtaken, parked') /\ Before(overtaken, shown', parked')
        /\ Unlisted(overtaken, parked', blist)
    BY <1>1, <1>2, <1>4, <2>1, RouteOrder
  <2>3. /\ \A i \in 1..Len(shown') : shown'[i].kind = "text" => shown'[i].id <= Len(log)
        /\ \A i \in 1..Len(parked') : parked'[i].kind = "text" => parked'[i].id <= Len(log)
    <3> DEFINE n == Len(log)
    <3>1. /\ \A i \in 1..Len(shown) : shown[i].kind = "text" => shown[i].id <= n
          /\ \A i \in 1..Len(parked) : parked[i].kind = "text" => parked[i].id <= n
          /\ \A i \in 1..Len(parts) : parts[i].kind = "text" => parts[i].id <= n
      BY <1>2, <1>4
    <3> HIDE DEF n
    <3>2. /\ \A i \in 1..Len(shown') : shown'[i].kind = "text" => shown'[i].id <= n
          /\ \A i \in 1..Len(parked') : parked'[i].kind = "text" => parked'[i].id <= n
      BY <1>1, <1>4, <3>1, RouteLooked
    <3> QED  BY <3>2 DEF n
  <2> QED  BY <1>4, <2>2, <2>3 DEF TextOrder, TextsLooked
<1>5. ASSUME NEW new \in SeqOf(Delta, MaxBatch), NEW again \in BOOLEAN, NEW bad \in BOOLEAN,
             PublishMs(new, again, bad)
      PROVE  TextOrder'
  <2>1. PICK texts : PublishStep(new, bad, texts)
    BY <1>5, PublishMsStep
  <2>0. overtaken' = overtaken
    BY <1>5 DEF PublishMs
  <2>2. /\ new \in Seq(Delta) /\ log' = log \o new /\ blist' = blist
        /\ texts \in Seq(AnyPart)
        /\ \A i \in 1..Len(texts) : texts[i].id \in New(new)
        /\ \A i, j \in 1..Len(texts) : i < j => texts[i].id < texts[j].id
    BY <2>1 DEF PublishStep
  <2>3. Len(log') = Len(log) + Len(new) /\ Len(new) \in Nat
    <3>1. log \in Seq(Delta)
      BY DEF TypeOK, Delta
    <3> QED  BY <2>2, <3>1, ConcatProperties
  <2>4. /\ \A i \in 1..Len(texts) : texts[i].id \in Nat
                /\ Len(log) < texts[i].id /\ texts[i].id <= Len(log')
    BY <1>1, <2>2, <2>3 DEF New
  <2>5. ASSUME NEW s \in Seq(AnyPart),
               \A i \in 1..Len(s) : s[i].kind = "text" => s[i].id <= Len(log)
        PROVE  /\ \A i \in 1..Len(s) : s[i].kind = "text" => s[i].id <= Len(log')
               /\ Before(overtaken, s, texts)
    <3>1. ASSUME NEW i \in 1..Len(s)
          PROVE  s[i].id \in Nat
      <4>1. s[i] \in AnyPart
        OBVIOUS
      <4> QED  BY <4>1, MessagesAssumption DEF AnyPart, Part, Message
    <3>2. ASSUME NEW i \in 1..Len(s), s[i].kind = "text"
          PROVE  s[i].id <= Len(log')
      BY <1>1, <2>3, <2>5, <3>1, <3>2
    <3>3. ASSUME NEW i \in 1..Len(s), s[i].kind = "text", NEW j \in 1..Len(texts)
          PROVE  s[i].id < texts[j].id
      <4>1. s[i].id <= Len(log) /\ s[i].id \in Nat
        BY <2>5, <3>1, <3>3
      <4> QED  BY <1>1, <2>4, <4>1
    <3>4. Before(overtaken, s, texts)
      BY <3>3 DEF Before, Older
    <3> QED  BY <3>2, <3>4
  <2>6. Before(overtaken, shown, texts) /\ Before(overtaken, parked, texts) /\ Ascending(overtaken, texts)
    BY <1>1, <1>2, <2>2, <2>5 DEF Ascending, Older
  <2> DEFINE n == Len(log')
  <2>7. /\ \A i \in 1..Len(shown) : shown[i].kind = "text" => shown[i].id <= n
        /\ \A i \in 1..Len(parked) : parked[i].kind = "text" => parked[i].id <= n
        /\ \A i \in 1..Len(texts) : texts[i].kind = "text" => texts[i].id <= n
    BY <1>1, <1>2, <2>4, <2>5
  <2>8. CASE bad
    <3>1. UNCHANGED <<parked, shown>>
      BY <2>1, <2>8 DEF PublishStep, dataVars
    <3> QED  BY <1>2, <2>0, <2>2, <2>7, <3>1 DEF TextOrder, TextsLooked
  <2>9. CASE ~bad
    <3>1. Route(texts, blist, parked, asked)
      BY <2>1, <2>9 DEF PublishStep, Deliver
    <3>2. /\ Ascending(overtaken, shown') /\ Ascending(overtaken, parked') /\ Before(overtaken, shown', parked')
          /\ Unlisted(overtaken, parked', blist)
      BY <1>1, <1>2, <2>2, <2>6, <3>1, RouteOrder
    <3> HIDE DEF n
    <3>3. /\ \A i \in 1..Len(shown') : shown'[i].kind = "text" => shown'[i].id <= n
          /\ \A i \in 1..Len(parked') : parked'[i].kind = "text" => parked'[i].id <= n
      BY <1>1, <2>2, <2>7, <3>1, RouteLooked
    <3> QED  BY <2>0, <2>2, <3>2, <3>3 DEF TextOrder, TextsLooked, n
  <2> QED  BY <1>5, <2>8, <2>9
<1>6. ASSUME NEW m \in Message, CbAttach(m)
      PROVE  TextOrder'
  <2>1. PICK kind \in {"link", "picture"} :
            Deliver(<<[id |-> m, uid |-> log[m].from, kind |-> kind]>>,
                    blist, parked, asked)
    BY <1>6 DEF CbAttach
  <2> DEFINE parts == <<[id |-> m, uid |-> log[m].from, kind |-> kind]>>
  <2>2. parts \in Seq(AnyPart) /\ UNCHANGED <<log, blist, overtaken>>
    BY <1>6, AttachmentType DEF CbAttach
  <2>3. \A i \in 1..Len(parts) : parts[i].kind # "text"
    OBVIOUS
  <2>4. Route(parts, blist, parked, asked)
    BY <2>1 DEF Deliver
  <2> HIDE DEF parts
  <2> QED  BY <1>4, <2>2, <2>3, <2>4
<1>7. ASSUME NEW m \in Message, AttachFailed(m)
      PROVE  TextOrder'
  BY <1>3, <1>7 DEF AttachFailed, dataVars
<1>8. ASSUME NEW u \in User, CbContact(u)
      PROVE  TextOrder'
  <2> DEFINE list == IF blist[u] = "none" THEN [blist EXCEPT ![u] = "other"] ELSE blist
             requests == [asked EXCEPT ![u] = @ - 1]
             A == {p \in Part(Kinds) : p.uid \in {u}}
             B == {p \in Part(Kinds) : p.uid \in User \ {u}}
             parts == Selected(parked, A)
             waiting == Selected(parked, B)
  <2>1. /\ asked[u] > 0 /\ log' = log /\ blist' = list /\ overtaken' = overtaken
        /\ Route(parts, list, waiting, requests)
    BY <1>8 DEF CbContact, apiVars, TakeMessages, Deliver, From
  <2>2. list \in [User -> Groups] /\ \A v \in User : v # u => list[v] = blist[v]
    BY <1>1 DEF Groups
  <2>3. /\ \A p \in A : p.uid = u
        /\ \A p \in B : p.uid \in User /\ p.uid # u
    OBVIOUS
  <2> HIDE DEF A, B, list, requests
  <2>4. parts \in Seq(AnyPart) /\ waiting \in Seq(AnyPart)
    BY <1>1, SelectedEmbeds
  <2>5. Filters(parts, parked, A)
    BY <1>1, SelectedFilters
  <2>6. Filters(waiting, parked, B)
    BY <1>1, SelectedFilters
  <2> HIDE DEF parts, waiting
  <2>7. /\ Ascending(overtaken, parts) /\ Ascending(overtaken, waiting)
        /\ Before(overtaken, shown, parts) /\ Before(overtaken, shown, waiting)
    BY <1>2, <2>5, <2>6, FilterOrder
  <2>8. /\ \A i \in 1..Len(parts) : parts[i].uid = u
        /\ \A i \in 1..Len(waiting) : waiting[i].uid # u
    BY <2>3, <2>5, <2>6 DEF Filters
  <2>9. Before(overtaken, waiting, parts)
    BY <2>8 DEF Before, Older
  <2>10. Unlisted(overtaken, waiting, list)
    <3> SUFFICES ASSUME NEW i \in 1..Len(waiting), waiting[i].kind = "text",
                        waiting[i].uid \notin overtaken
                 PROVE  list[waiting[i].uid] = "none"
      BY DEF Unlisted
    <3>1. waiting[i] \in B /\ \E k \in 1..Len(parked) : waiting[i] = parked[k]
      BY <2>6 DEF Filters
    <3>2. blist[waiting[i].uid] = "none"
      BY <1>2, <3>1 DEF Unlisted
    <3>3. waiting[i].uid \in User /\ waiting[i].uid # u
      BY <2>3, <3>1
    <3> QED  BY <2>2, <3>2, <3>3
  <2>11. /\ Ascending(overtaken, shown') /\ Ascending(overtaken, parked') /\ Before(overtaken, shown', parked')
         /\ Unlisted(overtaken, parked', list)
    BY <1>1, <1>2, <2>1, <2>2, <2>4, <2>7, <2>9, <2>10, RouteOrder
  <2> DEFINE n == Len(log)
  <2>12. /\ \A i \in 1..Len(shown) : shown[i].kind = "text" => shown[i].id <= n
         /\ \A i \in 1..Len(parts) : parts[i].kind = "text" => parts[i].id <= n
         /\ \A i \in 1..Len(waiting) : waiting[i].kind = "text" => waiting[i].id <= n
    <3>1. \A i \in 1..Len(parts) : parts[i].kind = "text" => parts[i].id <= n
      BY <1>2, <2>5 DEF Filters
    <3>2. \A i \in 1..Len(waiting) : waiting[i].kind = "text" => waiting[i].id <= n
      BY <1>2, <2>6 DEF Filters
    <3> QED  BY <1>2, <3>1, <3>2
  <2> HIDE DEF n
  <2>13. /\ \A i \in 1..Len(shown') : shown'[i].kind = "text" => shown'[i].id <= n
         /\ \A i \in 1..Len(parked') : parked'[i].kind = "text" => parked'[i].id <= n
    BY <1>1, <2>1, <2>4, <2>12, RouteLooked
  <2> QED  BY <2>1, <2>11, <2>13 DEF TextOrder, TextsLooked, n
<1>9. ASSUME NEW u \in User, ContactFailed(u)
      PROVE  TextOrder'
  BY <1>3, <1>9 DEF ContactFailed
\* Who comes onto the list by another way, with a text parked, is excepted from
\* then on.
<1>10. ASSUME Overtake(blist'), UNCHANGED <<log, parked, shown>>
       PROVE  TextOrder'
  <2>1. overtaken \subseteq overtaken'
    BY <1>10 DEF Overtake
  <2>2. Ascending(overtaken', shown) /\ Ascending(overtaken', parked)
        /\ Before(overtaken', shown, parked)
    BY <1>2, <2>1 DEF Ascending, Before, Older
  <2>3. ASSUME NEW i \in 1..Len(parked), parked[i].kind = "text",
               parked[i].uid \notin overtaken'
        PROVE  blist'[parked[i].uid] = "none"
    <3>1. blist[parked[i].uid] = "none"
      BY <1>2, <2>1, <2>3 DEF Unlisted
    <3>2. parked[i] \in Range(parked) /\ parked[i].uid \in User
      <4>1. parked[i] \in AnyPart /\ parked[i] \in Range(parked)
        BY <1>1 DEF Range
      <4> QED  BY <4>1 DEF AnyPart, Part
    <3> QED  BY <1>10, <2>3, <3>1, <3>2 DEF Overtake
  <2> QED  BY <1>2, <1>10, <2>2, <2>3 DEF TextOrder, TextsLooked, Unlisted
<1>11. ASSUME NEW a, NEW b, CbContacts(a, b) \/ CbContactsDelta(a, b)
       PROVE  TextOrder'
  BY <1>10, <1>11 DEF CbContacts, CbContactsDelta, apiVars, dataVars
<1>12. ASSUME NEW img \in Image, ImageDone(img)
       PROVE  TextOrder'
  <2>1. UNCHANGED <<log, blist, overtaken>>
    BY <1>12 DEF ImageDone, apiVars
  <2>2. CASE IsPicture(img)
    <3> DEFINE parts == <<[img EXCEPT !.kind = "photo"]>>
    <3>1. Route(parts, blist, parked, asked)
      BY <1>12, <2>2 DEF ImageDone, ImageFunc
    <3>2. parts \in Seq(AnyPart)
      BY <2>2, PhotoType
    <3>3. img \in Part({"picture"})
      BY <2>2 DEF Image, Icon, IsPicture
    <3>4. \A i \in 1..Len(parts) : parts[i].kind # "text"
      BY <3>3 DEF Part
    <3> HIDE DEF parts
    <3> QED  BY <1>4, <2>1, <3>1, <3>2, <3>4
  <2>3. CASE ~IsPicture(img)
    BY <1>3, <1>12, <2>1, <2>3 DEF ImageDone, ImageFunc, dataVars
  <2> QED  BY <2>2, <2>3
<1>13. ASSUME NEW img, ImageFailed(img)
       PROVE  TextOrder'
  BY <1>3, <1>13 DEF ImageFailed, apiVars, dataVars
<1>14. CASE Restart
  <2>1. parked' = <<>> /\ UNCHANGED <<log, blist, shown, overtaken>>
    BY <1>14 DEF Restart
  <2>2. Ascending(overtaken, parked') /\ Before(overtaken, shown', parked')
        /\ Unlisted(overtaken, parked', blist)
    BY <2>1 DEF Ascending, Before, Unlisted
  <2> QED  BY <1>2, <2>1, <2>2 DEF TextOrder, TextsLooked
<1>15. CASE UNCHANGED vars
  BY <1>3, <1>15 DEF vars, apiVars, dataVars
<1> QED
  BY <1>5, <1>6, <1>7, <1>8, <1>9, <1>11, <1>12, <1>13, <1>14, <1>15
     DEF Next, Delta

\* The texts of each user are shown in the order they were sent, except of those
\* who came onto the buddy list by another way than the reply a text of theirs
\* was waiting for: what is parked of any other user is newer than what is shown,
\* and the reply takes all of it (fb_data_take_messages).
THEOREM TextsInOrder == Spec => []InOrder
<1>1. Init => TextOrder
  BY DEF Init, TextOrder, TextsLooked, Ascending, Before, Unlisted
<1>2. TypeOK /\ TextOrder /\ [Next]_vars => TextOrder'
  BY OrderStep
<1>3. TypeOK /\ TextOrder => InOrder
  <2> SUFFICES ASSUME TypeOK, TextOrder  PROVE InOrder
    OBVIOUS
  <2>1. DOMAIN shown = 1..Len(shown)
    BY DEF TypeOK
  <2> QED  BY <2>1 DEF TextOrder, Ascending, Older, InOrder
<1> QED  BY <1>1, <1>2, <1>3, Typed, PTL DEF Spec
=============================================================================
