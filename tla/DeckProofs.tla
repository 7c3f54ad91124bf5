---------------------------- MODULE DeckProofs ----------------------------
(***************************************************************************)
(* Proofs about the decks of Deck, for any cards and any order of them.    *)
(*                                                                         *)
(* The lists a deck is made of are defined by folds and by functions from  *)
(* one index to the next; what they hold is proved from the least index at *)
(* which it would not (LeastOf).  A list is known by what every card keeps *)
(* of it (Lists): whole segments, not yet numbered, with steps that divide *)
(* as often as they will be refined.  For the drive, what the code has     *)
(* read up to a card is compared with what the cards up to it say; for the *)
(* images, the copies a GX adds lie outside the tags that were there, so   *)
(* the structure is completed plane by plane.                              *)
(***************************************************************************)
EXTENDS Deck, FunctionTheorems, FiniteSetTheorems, SequenceTheorems,
        WellFoundedInduction, TLAPS

(* Induction over the numbers, and functions defined by it                 *)

LEMMA LeastOf ==
    ASSUME NEW S, S \subseteq Nat, S # {}
    PROVE  \E m \in S : \A k \in S : m <= k
<1> DEFINE Below == OpToRel(<, Nat)
<1>1. IsWellFoundedOn(Below, Nat)
  BY NatLessThanWellFounded
<1>2. \A x, y \in Nat : x < y => <<x, y>> \in Below
  BY DEF OpToRel
<1> HIDE DEF Below
<1>3. PICK m \in S : \A y \in S : <<y, m>> \notin Below
  BY <1>1, WFMin
<1>4. \A y \in S : m <= y
  <2> TAKE y \in S
  <2>1. ~(y < m)
    BY <1>2, <1>3
  <2> QED BY <2>1
<1> QED BY <1>3, <1>4

Follows(f, a, step) == f[0] = a /\ \A n \in Nat : f[n + 1] = step[<<n, f[n]>>]

\* A function that is defined from one argument to the next exists.
LEMMA Recursion ==
    ASSUME NEW S, NEW a \in S, NEW step \in [Nat \X S -> S]
    PROVE  \E f \in [Nat -> S] : Follows(f, a, step)
<1> DEFINE Upto(n, g) == /\ g \in [0 .. n -> S] /\ g[0] = a
                         /\ \A i \in 0 .. n - 1 : g[i + 1] = step[<<i, g[i]>>]
<1>1. \A n \in Nat : \E g : Upto(n, g)
  <2> DEFINE Bad == {n \in Nat : ~\E g : Upto(n, g)}
  <2> SUFFICES ASSUME Bad # {} PROVE FALSE
    OBVIOUS
  <2>1. PICK m \in Bad : \A k \in Bad : m <= k
    BY LeastOf
  <2>2. m \in Nat /\ ~\E g : Upto(m, g)
    OBVIOUS
  <2>3. m # 0
    <3> SUFFICES ASSUME m = 0 PROVE FALSE
      OBVIOUS
    <3>1. Upto(0, [i \in 0 .. 0 |-> a])
      OBVIOUS
    <3> QED BY <2>2, <3>1
  <2>4. m - 1 \in Nat /\ m - 1 \notin Bad
    <3> HIDE DEF Bad, Upto
    <3> QED BY <2>1, <2>2, <2>3
  <2>5. PICK g : Upto(m - 1, g)
    BY <2>4
  <2> DEFINE h == [i \in 0 .. m |-> IF i = m THEN step[<<m - 1, g[m - 1]>>] ELSE g[i]]
  <2>6. g[m - 1] \in S
    BY <2>4, <2>5
  <2>7. h \in [0 .. m -> S]
    <3> SUFFICES ASSUME NEW i \in 0 .. m
                 PROVE  (IF i = m THEN step[<<m - 1, g[m - 1]>>] ELSE g[i]) \in S
      OBVIOUS
    <3>1. CASE i = m
      BY <2>4, <2>6, <3>1
    <3>2. CASE i # m
      <4>1. i \in 0 .. m - 1
        BY <2>2, <3>2
      <4> QED BY <2>5, <3>2, <4>1
    <3> QED BY <3>1, <3>2
  <2>8. h[0] = a
    BY <2>2, <2>3, <2>5
  <2>9. \A i \in 0 .. m - 1 : h[i + 1] = step[<<i, h[i]>>]
    <3> SUFFICES ASSUME NEW i \in 0 .. m - 1 PROVE h[i + 1] = step[<<i, h[i]>>]
      OBVIOUS
    <3>1. h[i] = g[i] /\ i + 1 \in 0 .. m /\ i \in Nat
      BY <2>2
    <3>2. CASE i = m - 1
      <4>1. i + 1 = m
        BY <2>2, <3>2
      <4> QED BY <3>1, <3>2, <4>1
    <3>3. CASE i # m - 1
      <4>1. i \in 0 .. (m - 1) - 1 /\ i + 1 # m
        BY <2>2, <3>3
      <4>2. g[i + 1] = step[<<i, g[i]>>]
        BY <2>5, <4>1
      <4> QED BY <3>1, <4>1, <4>2
    <3> QED BY <3>2, <3>3
  <2>10. Upto(m, h)
    BY <2>7, <2>8, <2>9
  <2> QED BY <2>2, <2>10
<1>2. ASSUME NEW n \in Nat, NEW m \in Nat, NEW g, NEW h, Upto(n, g), Upto(m, h),
             NEW i \in (0 .. n) \cap (0 .. m)
      PROVE  g[i] = h[i]
  <2> DEFINE Bad == {k \in (0 .. n) \cap (0 .. m) : g[k] # h[k]}
  <2> SUFFICES ASSUME Bad # {} PROVE FALSE
    OBVIOUS
  <2>1. PICK k \in Bad : \A j \in Bad : k <= j
    <3>1. Bad \subseteq Nat
      OBVIOUS
    <3> HIDE DEF Bad
    <3> QED BY <3>1, LeastOf
  <2>2. k # 0 /\ k \in (0 .. n) \cap (0 .. m) /\ g[k] # h[k]
    BY <1>2
  <2>3. k - 1 \in (0 .. n) \cap (0 .. m) /\ k - 1 \in 0 .. n - 1 /\ k - 1 \in 0 .. m - 1
        /\ k - 1 < k /\ (k - 1) + 1 = k
    BY <2>2
  <2>4. g[k - 1] = h[k - 1]
    <3>1. k - 1 \notin Bad
      BY <2>1, <2>3
    <3> QED BY <2>3, <3>1
  <2>5. g[k] = step[<<k - 1, g[k - 1]>>] /\ h[k] = step[<<k - 1, h[k - 1]>>]
    BY <1>2, <2>3
  <2> QED BY <2>2, <2>4, <2>5
<1> DEFINE best(n) == CHOOSE g : Upto(n, g)
<1>3. \A n \in Nat : Upto(n, best(n))
  BY <1>1
<1> DEFINE f == [n \in Nat |-> best(n)[n]]
<1>4. f \in [Nat -> S]
  <2> SUFFICES ASSUME NEW n \in Nat PROVE best(n)[n] \in S
    OBVIOUS
  <2> HIDE DEF best
  <2>1. best(n) \in [0 .. n -> S] /\ n \in 0 .. n
    BY <1>3
  <2> QED BY <2>1
<1>5. f[0] = a
  <2>1. Upto(0, best(0))
    BY <1>3
  <2> HIDE DEF best
  <2> QED BY <2>1
<1>6. \A n \in Nat : f[n + 1] = step[<<n, f[n]>>]
  <2> SUFFICES ASSUME NEW n \in Nat PROVE f[n + 1] = step[<<n, f[n]>>]
    OBVIOUS
  <2> HIDE DEF best
  <2>1. Upto(n, best(n)) /\ Upto(n + 1, best(n + 1)) /\ n + 1 \in Nat
    BY <1>3
  <2>2. best(n + 1)[n + 1] = step[<<n, best(n + 1)[n]>>]
    <3>1. n \in 0 .. (n + 1) - 1
      OBVIOUS
    <3> QED BY <2>1, <3>1
  <2>3. best(n + 1)[n] = best(n)[n]
    <3>1. n \in (0 .. n + 1) \cap (0 .. n)
      OBVIOUS
    <3> HIDE DEF Upto
    <3> QED BY <1>2, <2>1, <3>1
  <2> QED BY <2>1, <2>2, <2>3
<1> HIDE DEF f
<1> QED BY <1>4, <1>5, <1>6 DEF Follows

\* The same up to a number, as a function of an interval.
FollowsUpto(f, n, a, step) == f[0] = a /\ \A i \in 1 .. n : f[i] = step[<<i - 1, f[i - 1]>>]

LEMMA RecursionUpto ==
    ASSUME NEW n \in Nat, NEW S, NEW a \in S, NEW step \in [Nat \X S -> S]
    PROVE  \E f \in [0 .. n -> S] : FollowsUpto(f, n, a, step)
<1>1. PICK g \in [Nat -> S] : Follows(g, a, step)
  BY Recursion
<1> DEFINE f == [i \in 0 .. n |-> g[i]]
<1>2. f \in [0 .. n -> S] /\ f[0] = a
  BY <1>1 DEF Follows
<1>3. \A i \in 1 .. n : f[i] = step[<<i - 1, f[i - 1]>>]
  <2> TAKE i \in 1 .. n
  <2>1. i - 1 \in Nat /\ i = (i - 1) + 1 /\ i - 1 \in 0 .. n /\ i \in 0 .. n
    OBVIOUS
  <2>2. g[(i - 1) + 1] = step[<<i - 1, g[i - 1]>>]
    BY <1>1, <2>1 DEF Follows
  <2> QED BY <2>1, <2>2
<1> HIDE DEF f
<1> QED BY <1>2, <1>3 DEF FollowsUpto

\* A set of numbers that holds 0 and, with each below n, the next, holds all up to n.
LEMMA Upwards ==
    ASSUME NEW n \in Nat, NEW T, 0 \in T, \A i \in 1 .. n : i - 1 \in T => i \in T
    PROVE  \A i \in 0 .. n : i \in T
<1> DEFINE Bad == {i \in 0 .. n : i \notin T}
<1> SUFFICES ASSUME Bad # {} PROVE FALSE
  OBVIOUS
<1>1. PICK m \in Bad : \A k \in Bad : m <= k
  <2>1. Bad \subseteq Nat
    OBVIOUS
  <2> HIDE DEF Bad
  <2> QED BY <2>1, LeastOf
<1>2. m \in 1 .. n /\ m - 1 \in 0 .. n /\ m - 1 < m /\ m \notin T
  OBVIOUS
<1>3. m - 1 \notin Bad
  <2> HIDE DEF Bad
  <2> QED BY <1>1, <1>2
<1> QED BY <1>2, <1>3
-----------------------------------------------------------------------------
(* Sequences put end to end                                                *)

\* FlattenSeq joins one sequence after another.
Joins(flat, q) == flat[0] = <<>> /\ \A k \in 1 .. Len(q) : flat[k] = flat[k - 1] \o q[k]

LEMMA Flattened ==
    ASSUME NEW S, NEW q \in Seq(Seq(S))
    PROVE  \E flat \in [0 .. Len(q) -> Seq(S)] : Joins(flat, q) /\ FlattenSeq(q) = flat[Len(q)]
<1> DEFINE n == Len(q)
<1>0. n \in Nat /\ q \in [1 .. n -> Seq(S)]
  OBVIOUS
<1>1. CASE n = 0
  <2> DEFINE flat == [k \in 0 .. n |-> <<>>]
  <2>1. q = <<>> /\ FlattenSeq(q) = <<>>
    BY <1>1 DEF FlattenSeq
  <2>2. Joins(flat, q) /\ flat[n] = <<>> /\ flat \in [0 .. n -> Seq(S)]
    BY <1>1 DEF Joins
  <2> QED BY <2>1, <2>2
<1>2. CASE n # 0
  <2> DEFINE step == [x \in Nat \X Seq(S) |->
                        IF x[1] + 1 \in 1 .. n THEN x[2] \o q[x[1] + 1] ELSE x[2]]
  <2>1. step \in [Nat \X Seq(S) -> Seq(S)]
    <3> SUFFICES ASSUME NEW i \in Nat, NEW y \in Seq(S)
                 PROVE  (IF i + 1 \in 1 .. n THEN y \o q[i + 1] ELSE y) \in Seq(S)
      OBVIOUS
    <3> QED BY <1>0
  <2> HIDE DEF step
  <2>2. PICK f \in [0 .. n -> Seq(S)] : FollowsUpto(f, n, <<>>, step)
    <3>1. <<>> \in Seq(S)
      OBVIOUS
    <3> HIDE DEF n
    <3> QED BY <1>0, <2>1, <3>1, RecursionUpto
  <2>3. ASSUME NEW i \in 1 .. n PROVE f[i] = f[i - 1] \o q[i]
    <3>1. i - 1 \in Nat /\ i - 1 \in 0 .. n /\ (i - 1) + 1 = i
      BY <1>0
    <3>2. step[<<i - 1, f[i - 1]>>] = f[i - 1] \o q[i]
      BY <2>2, <3>1 DEF step
    <3> QED BY <2>2, <3>2 DEF FollowsUpto
  <2> DEFINE Eq(g) == g = [i \in 1 .. n |-> IF i = 1 THEN q[i] ELSE g[i - 1] \o q[i]]
             g == CHOOSE h : Eq(h)
  <2>4. \E h : Eq(h)
    <3> DEFINE h == [i \in 1 .. n |-> f[i]]
    <3>1. ASSUME NEW i \in 1 .. n
          PROVE  h[i] = IF i = 1 THEN q[i] ELSE h[i - 1] \o q[i]
      <4>1. CASE i = 1
        <5>0. f[i] = f[i - 1] \o q[i]
          BY <2>3
        <5>1. f[i] = f[i - 1] \o q[i] /\ i - 1 = 0
          BY <4>1, <5>0
        <5>2. q[i] \in Seq(S)
          BY <1>0
        <5>3. f[i] = q[i]
          BY <2>2, <5>1, <5>2, ConcatEmptySeq DEF FollowsUpto
        <5> QED BY <4>1, <5>3
      <4>2. CASE i # 1
        <5>1. i - 1 \in 1 .. n
          BY <1>0, <4>2
        <5> QED BY <2>3, <4>2, <5>1
      <4> QED BY <4>1, <4>2
    <3>2. Eq(h)
      BY <3>1
    <3> HIDE DEF Eq, h
    <3> QED BY <3>2
  <2>5. Eq(g)
    <3> HIDE DEF Eq
    <3> QED BY <2>4
  <2>6. FlattenSeq(q) = g[n]
    BY <1>2 DEF FlattenSeq
  <2> HIDE DEF g
  <2>7. g[1] = q[1] /\ \A i \in 2 .. n : g[i] = g[i - 1] \o q[i]
    <3>1. \A i \in 1 .. n : g[i] = IF i = 1 THEN q[i] ELSE g[i - 1] \o q[i]
      <4> HIDE DEF n
      <4> QED BY <2>5
    <3>2. 1 \in 1 .. n /\ \A i \in 2 .. n : i \in 1 .. n /\ i # 1
      BY <1>0, <1>2
    <3> QED BY <3>1, <3>2
  <2> HIDE DEF Eq
  <2> DEFINE flat == [k \in 0 .. n |-> IF k = 0 THEN <<>> ELSE g[k]]
             T == {k \in 0 .. n : flat[k] \in Seq(S)}
  <2>8. ASSUME NEW k \in 1 .. n PROVE flat[k] = flat[k - 1] \o q[k]
    <3> HIDE DEF n
    <3>0. k \in 0 .. n /\ k - 1 \in 0 .. n /\ k # 0
      BY <1>0
    <3>1. CASE k = 1
      <4>1. q[1] \in Seq(S)
        BY <1>0, <3>1
      <4>2. flat[k] = g[k] /\ flat[k - 1] = <<>> /\ g[k] = q[k]
        BY <2>7, <3>0, <3>1
      <4>3. q[k] = <<>> \o q[k]
        BY <3>1, <4>1, ConcatEmptySeq
      <4> HIDE DEF flat
      <4> QED BY <4>2, <4>3
    <3>2. CASE k # 1
      <4>1. k \in 2 .. n /\ k - 1 # 0
        BY <1>0, <3>2
      <4>2. flat[k] = g[k] /\ flat[k - 1] = g[k - 1]
        BY <3>0, <4>1
      <4>3. g[k] = g[k - 1] \o q[k]
        BY <2>7, <4>1
      <4> HIDE DEF flat
      <4> QED BY <4>2, <4>3
    <3> QED BY <3>1, <3>2
  <2>9. flat[0] = <<>>
    BY <1>0
  <2>10. \A k \in 0 .. n : k \in T
    <3>1. 0 \in T
      BY <1>0
    <3>2. ASSUME NEW k \in 1 .. n, k - 1 \in T PROVE k \in T
      <4>1. flat[k - 1] \in Seq(S) /\ q[k] \in Seq(S)
        BY <1>0, <3>2
      <4>2. flat[k] \in Seq(S)
        <5>1. flat[k] = flat[k - 1] \o q[k]
          BY <2>8
        <5> HIDE DEF flat
        <5> QED BY <4>1, <5>1, ConcatProperties
      <4> QED BY <4>2
    <3> HIDE DEF T
    <3> QED BY <1>0, <3>1, <3>2, Upwards
  <2>11. flat \in [0 .. n -> Seq(S)] /\ flat[n] = g[n]
    BY <1>0, <1>2, <2>10
  <2> HIDE DEF flat
  <2> QED BY <2>6, <2>8, <2>9, <2>11 DEF Joins
<1> QED BY <1>1, <1>2

LEMMA IntervalSeq ==
    ASSUME NEW S, NEW n \in Nat, NEW q \in [1 .. n -> S]
    PROVE  q \in Seq(S) /\ Len(q) = n /\ DOMAIN q = 1 .. n /\ \A i \in 1 .. n : q[i] \in S
OBVIOUS

\* Two sequences end to end.
LEMMA Joined ==
    ASSUME NEW S, NEW a \in Seq(S), NEW b \in Seq(S), NEW c, c = a \o b
    PROVE  /\ c \in Seq(S) /\ Len(c) = Len(a) + Len(b)
           /\ \A i \in 1 .. Len(a) : c[i] = a[i]
           /\ \A i \in 1 .. Len(b) : c[Len(a) + i] = b[i]
           /\ \A i \in 1 .. Len(c) : i \in 1 .. Len(a) \/ i - Len(a) \in 1 .. Len(b)
OBVIOUS

LEMMA EndToEnd ==
    ASSUME NEW S, NEW a \in Seq(S), NEW b \in Seq(S)
    PROVE  a \o b \in Seq(S) /\ Len(a \o b) = Len(a) + Len(b)
OBVIOUS

\* What is joined is of what was in the sequences, as many as they are long.
LEMMA FlatLength ==
    ASSUME NEW S, NEW q \in Seq(Seq(S)), NEW l \in Nat, \A k \in 1 .. Len(q) : Len(q[k]) = l
    PROVE  FlattenSeq(q) \in Seq(S) /\ Len(FlattenSeq(q)) = Len(q) * l
<1> DEFINE n == Len(q)
<1>0. n \in Nat /\ \A k \in 1 .. n : q[k] \in Seq(S)
  OBVIOUS
<1>1. PICK flat \in [0 .. n -> Seq(S)] : Joins(flat, q) /\ FlattenSeq(q) = flat[n]
  BY Flattened
<1> DEFINE T == {k \in 0 .. n : Len(flat[k]) = k * l}
<1>2. 0 \in T
  BY <1>0, <1>1 DEF Joins
<1>3. ASSUME NEW k \in 1 .. n, k - 1 \in T PROVE k \in T
  <2>1. flat[k] = flat[k - 1] \o q[k] /\ flat[k - 1] \in Seq(S) /\ q[k] \in Seq(S)
    BY <1>0, <1>1, <1>3 DEF Joins
  <2>2. Len(flat[k]) = (k - 1) * l + l
    <3>1. Len(flat[k]) = Len(flat[k - 1]) + Len(q[k])
      BY <2>1, Joined
    <3>2. Len(flat[k - 1]) = (k - 1) * l /\ Len(q[k]) = l
      BY <1>3
    <3> QED BY <3>1, <3>2
  <2>3. (k - 1) * l + l = k * l
    <3>1. k - 1 \in Int /\ k = (k - 1) + 1
      BY <1>0
    <3>2. \A m \in Int : m * l + l = (m + 1) * l
      OBVIOUS
    <3> QED BY <3>1, <3>2
  <2> QED BY <1>0, <2>2, <2>3
<1>4. n \in T
  <2> HIDE DEF T
  <2>1. \A k \in 0 .. n : k \in T
    BY <1>0, <1>2, <1>3, Upwards
  <2> QED BY <1>0, <2>1
<1> QED BY <1>0, <1>1, <1>4

\* Where each sequence goes: place[k - 1] elements come before it.
Placed(place, q, flat) ==
    /\ place[0] = 0
    /\ \A k \in 1 .. Len(q) : place[k] = place[k - 1] + Len(q[k])
    /\ Len(flat) = place[Len(q)]
    /\ \A k \in 1 .. Len(q) : \A i \in 1 .. Len(q[k]) :
         /\ place[k - 1] + i \in 1 .. Len(flat)
         /\ flat[place[k - 1] + i] = q[k][i]
    /\ \A h \in 1 .. Len(flat) : \E k \in 1 .. Len(q) : \E i \in 1 .. Len(q[k]) :
         h = place[k - 1] + i

LEMMA FlatPlaces ==
    ASSUME NEW S, NEW q \in Seq(Seq(S))
    PROVE  /\ FlattenSeq(q) \in Seq(S)
           /\ \E place \in [0 .. Len(q) -> Nat] : Placed(place, q, FlattenSeq(q))
<1> DEFINE n == Len(q)
<1>0. n \in Nat /\ \A k \in 1 .. n : q[k] \in Seq(S) /\ Len(q[k]) \in Nat
  OBVIOUS
<1>1. PICK flat \in [0 .. n -> Seq(S)] : Joins(flat, q) /\ FlattenSeq(q) = flat[n]
  BY Flattened
<1> DEFINE place == [k \in 0 .. n |-> Len(flat[k])]
<1>2. place \in [0 .. n -> Nat]
  OBVIOUS
<1>3. ASSUME NEW k \in 1 .. n
      PROVE  /\ k - 1 \in 0 .. n /\ k \in 0 .. n
             /\ flat[k] = flat[k - 1] \o q[k] /\ flat[k - 1] \in Seq(S) /\ flat[k] \in Seq(S)
             /\ place[k] = place[k - 1] + Len(q[k])
             /\ \A i \in 1 .. Len(flat[k - 1]) : flat[k][i] = flat[k - 1][i]
             /\ \A i \in 1 .. Len(q[k]) : flat[k][place[k - 1] + i] = q[k][i]
  <2>1. k - 1 \in 0 .. n /\ k \in 0 .. n
    BY <1>0
  <2>2. flat[k] = flat[k - 1] \o q[k] /\ flat[k - 1] \in Seq(S) /\ flat[k] \in Seq(S)
        /\ q[k] \in Seq(S)
    BY <1>0, <1>1, <2>1 DEF Joins
  <2>3. place[k] = Len(flat[k]) /\ place[k - 1] = Len(flat[k - 1])
    BY <2>1
  <2> HIDE DEF place
  <2>4. place[k] = place[k - 1] + Len(q[k])
    BY <2>2, <2>3, ConcatProperties
  <2>5. /\ \A i \in 1 .. Len(flat[k - 1]) : flat[k][i] = flat[k - 1][i]
        /\ \A i \in 1 .. Len(q[k]) : flat[k][Len(flat[k - 1]) + i] = q[k][i]
    <3> DEFINE a == flat[k - 1]
               b == q[k]
               c == flat[k]
    <3>1. a \in Seq(S) /\ b \in Seq(S) /\ c = a \o b
      BY <2>2
    <3> HIDE DEF a, b, c
    <3>2. /\ \A i \in 1 .. Len(a) : c[i] = a[i]
          /\ \A i \in 1 .. Len(b) : c[Len(a) + i] = b[i]
      BY <3>1, Joined
    <3> QED BY <3>2 DEF a, b, c
  <2>6. \A i \in 1 .. Len(q[k]) : flat[k][place[k - 1] + i] = q[k][i]
    BY <2>3, <2>5
  <2> QED BY <2>1, <2>2, <2>4, <2>5, <2>6
<1>4. place[0] = 0 /\ place[n] = Len(flat[n]) /\ \A k \in 0 .. n : place[k] = Len(flat[k])
  BY <1>0, <1>1 DEF Joins
<1> HIDE DEF place, n
<1> DEFINE Sound(m) == \A k \in 1 .. m : \A i \in 1 .. Len(q[k]) :
                          /\ place[k - 1] + i \in 1 .. place[m]
                          /\ flat[m][place[k - 1] + i] = q[k][i]
           Covered(m) == \A h \in 1 .. place[m] : \E k \in 1 .. m : \E i \in 1 .. Len(q[k]) :
                            h = place[k - 1] + i
           T == {m \in 0 .. n : Sound(m) /\ Covered(m)}
<1>5. 0 \in T
  BY <1>0, <1>4
<1>6. ASSUME NEW m \in 1 .. n, m - 1 \in T PROVE m \in T
  <2>0. /\ m \in 0 .. n /\ m - 1 \in 0 .. n /\ m - 1 \in Nat
        /\ place[m] = place[m - 1] + Len(q[m])
        /\ place[m] \in Nat /\ place[m - 1] \in Nat /\ Len(q[m]) \in Nat
    <3>1. m \in 0 .. n /\ m - 1 \in 0 .. n /\ m - 1 \in Nat
      BY <1>0
    <3>2. place[m] = place[m - 1] + Len(q[m])
      BY <1>3
    <3>3. place[m] \in Nat /\ place[m - 1] \in Nat
      BY <1>2, <3>1
    <3>4. Len(q[m]) \in Nat
      BY <1>0
    <3> QED BY <3>1, <3>2, <3>3, <3>4
  <2>1. Sound(m)
    <3> SUFFICES ASSUME NEW k \in 1 .. m, NEW i \in 1 .. Len(q[k])
                 PROVE  /\ place[k - 1] + i \in 1 .. place[m]
                        /\ flat[m][place[k - 1] + i] = q[k][i]
      OBVIOUS
    <3>1. CASE k = m
      <4>1. flat[m][place[m - 1] + i] = q[m][i]
        BY <1>3, <3>1
      <4> QED BY <2>0, <3>1, <4>1
    <3>2. CASE k # m
      <4>1. k \in 1 .. (m - 1)
        BY <2>0, <3>2
      <4>2. place[k - 1] + i \in 1 .. place[m - 1]
            /\ flat[m - 1][place[k - 1] + i] = q[k][i]
        BY <1>6, <4>1
      <4>3. place[m - 1] = Len(flat[m - 1])
        BY <1>4, <2>0
      <4>4. flat[m][place[k - 1] + i] = flat[m - 1][place[k - 1] + i]
        BY <1>3, <4>2, <4>3
      <4> QED BY <2>0, <4>2, <4>4
    <3> QED BY <3>1, <3>2
  <2>2. Covered(m)
    <3> SUFFICES ASSUME NEW h \in 1 .. place[m]
                 PROVE  \E k \in 1 .. m : \E i \in 1 .. Len(q[k]) : h = place[k - 1] + i
      OBVIOUS
    <3>1. CASE h <= place[m - 1]
      <4>1. h \in 1 .. place[m - 1]
        BY <2>0, <3>1
      <4>2. PICK k \in 1 .. (m - 1) : \E i \in 1 .. Len(q[k]) : h = place[k - 1] + i
        BY <1>6, <4>1
      <4>3. k \in 1 .. m
        BY <2>0
      <4> QED BY <4>2, <4>3
    <3>2. CASE ~(h <= place[m - 1])
      <4>1. h - place[m - 1] \in 1 .. Len(q[m]) /\ h = place[m - 1] + (h - place[m - 1])
        BY <2>0, <3>2
      <4>2. m \in 1 .. m
        BY <2>0
      <4> QED BY <4>1, <4>2
    <3> QED BY <3>1, <3>2
  <2> QED BY <2>0, <2>1, <2>2
<1>7. n \in T
  <2> HIDE DEF T
  <2>1. \A k \in 0 .. n : k \in T
    BY <1>0, <1>5, <1>6, Upwards
  <2> QED BY <1>0, <2>1
<1>8. Len(flat[n]) = place[n] /\ flat[n] \in Seq(S)
  BY <1>0, <1>1, <1>4
<1>9. Placed(place, q, flat[n])
  <2>1. place[0] = 0 /\ \A k \in 1 .. n : place[k] = place[k - 1] + Len(q[k])
    BY <1>3, <1>4
  <2>2. Sound(n) /\ Covered(n)
    BY <1>7
  <2> QED BY <1>8, <2>1, <2>2 DEF Placed, n
<1> QED BY <1>1, <1>2, <1>8, <1>9 DEF n
-----------------------------------------------------------------------------
(* Points and the maps that copies are made with                           *)

LEMMA PointParts ==
    ASSUME NEW p \in Points
    PROVE  /\ p[1] \in Int /\ p[2] \in Int /\ p[3] \in Int /\ DOMAIN p = Axes
           /\ \A a \in Axes : a = 1 \/ a = 2 \/ a = 3
BY DEF Points, Axes

LEMMA SamePoint ==
    ASSUME NEW p \in Points, NEW q \in Points
    PROVE  p = q <=> p[1] = q[1] /\ p[2] = q[2] /\ p[3] = q[3]
BY DEF Points, Axes

LEMMA PlusOf ==
    ASSUME NEW p \in Points, NEW q \in Points
    PROVE  Plus(p, q) \in Points /\ \A a \in Axes : Plus(p, q)[a] = p[a] + q[a]
BY DEF Points, Plus

LEMMA MinusOf ==
    ASSUME NEW p \in Points, NEW q \in Points
    PROVE  Minus(p, q) \in Points /\ \A a \in Axes : Minus(p, q)[a] = p[a] - q[a]
BY DEF Points, Minus

LEMMA TimesOf ==
    ASSUME NEW p \in Points, NEW k \in Int
    PROVE  Times(k, p) \in Points /\ \A a \in Axes : Times(k, p)[a] = k * p[a]
BY DEF Points, Times

LEMMA QuarterTurnOf ==
    ASSUME NEW p \in Points
    PROVE  /\ QuarterTurn(p) \in Points
           /\ QuarterTurn(p)[1] = -p[2] /\ QuarterTurn(p)[2] = p[1] /\ QuarterTurn(p)[3] = p[3]
BY DEF Points, Axes, QuarterTurn

LEMMA MirrorOf ==
    ASSUME NEW p \in Points, NEW a \in Axes
    PROVE  /\ Mirror(p, a) \in Points /\ Mirror(p, a)[a] = -p[a]
           /\ \A b \in Axes : b # a => Mirror(p, a)[b] = p[b]
BY DEF Points, Mirror

\* The vectors whose parts are all multiples of t, and the thirds of what is between
\* two points.
Multiples(t) == {t * k : k \in Int}
Spans(p, q, t) == \A a \in Axes : q[a] - p[a] \in Multiples(t)
OnThird(p, q, r, j) == \A a \in Axes : 3 * r[a] = (3 - j) * p[a] + j * q[a]

LEMMA MultiplesKept ==
    ASSUME NEW t \in {1, 3}, NEW x \in Multiples(t), NEW k \in Int
    PROVE  x \in Int /\ -x \in Multiples(t) /\ k * x \in Multiples(t)
<1>1. PICK m \in Int : x = t * m
  BY DEF Multiples
<1>2. -x = t * (-m)
  BY <1>1
<1>3. k * x = t * (k * m)
  <2>1. k * m \in Int
    OBVIOUS
  <2>2. \A y \in Int : k * (3 * y) = 3 * (k * y)
    OBVIOUS
  <2>3. CASE t = 1
    BY <1>1, <2>1, <2>3
  <2>4. CASE t = 3
    BY <1>1, <2>2, <2>4
  <2> QED BY <2>3, <2>4
<1>4. k * m \in Int /\ -m \in Int
  OBVIOUS
<1> QED BY <1>1, <1>2, <1>3, <1>4 DEF Multiples

\* What is asked of a map that copies are made with: points stay apart, their
\* distances multiples, and thirds thirds.
Keeps(f) ==
    /\ \A p, q \in Points : f[p] = f[q] => p = q
    /\ \A p, q \in Points : \A t \in {1, 3} : Spans(p, q, t) => Spans(f[p], f[q], t)
    /\ \A p, q, r \in Points : \A j \in 0 .. 3 :
         OnThird(p, q, r, j) => OnThird(f[p], f[q], f[r], j)

Rigid == {f \in [Points -> Points] : Keeps(f)}

LEMMA ThirdsOfNumbers ==
    ASSUME NEW x \in Int, NEW y \in Int, NEW z \in Int, NEW w \in Int, NEW j \in 0 .. 3,
           3 * z = (3 - j) * x + j * y
    PROVE  /\ 3 * (-z) = (3 - j) * (-x) + j * (-y)
           /\ 3 * (z + w) = (3 - j) * (x + w) + j * (y + w)
           /\ 3 * (w * z) = (3 - j) * (w * x) + j * (w * y)
<1>1. j = 0 \/ j = 1 \/ j = 2 \/ j = 3
  OBVIOUS
<1>2. 3 * (w * z) = (3 - j) * (w * x) + j * (w * y)
  <2>1. w * (3 * z) = 3 * (w * z)
    OBVIOUS
  <2>2. w * ((3 - j) * x + j * y) = (3 - j) * (w * x) + j * (w * y)
    BY <1>1
  <2> QED BY <2>1, <2>2
<1> QED BY <1>1, <1>2

LEMMA RigidAfter ==
    ASSUME NEW f \in Rigid, NEW g \in Rigid
    PROVE  [p \in Points |-> g[f[p]]] \in Rigid
<1> DEFINE h == [p \in Points |-> g[f[p]]]
<1>1. f \in [Points -> Points] /\ g \in [Points -> Points] /\ Keeps(f) /\ Keeps(g)
  BY DEF Rigid
<1>2. h \in [Points -> Points] /\ \A p \in Points : h[p] = g[f[p]] /\ f[p] \in Points
  BY <1>1
<1> HIDE DEF h
<1>3. Keeps(h)
  <2>1. \A p, q \in Points : h[p] = h[q] => p = q
    BY <1>1, <1>2 DEF Keeps
  <2>2. \A p, q \in Points : \A t \in {1, 3} : Spans(p, q, t) => Spans(h[p], h[q], t)
    BY <1>1, <1>2 DEF Keeps
  <2>3. \A p, q, r \in Points : \A j \in 0 .. 3 :
          OnThird(p, q, r, j) => OnThird(h[p], h[q], h[r], j)
    BY <1>1, <1>2 DEF Keeps
  <2> QED BY <2>1, <2>2, <2>3 DEF Keeps
<1> QED BY <1>2, <1>3 DEF Rigid, h

LEMMA StillRigid == [p \in Points |-> p] \in Rigid
<1> DEFINE f == [p \in Points |-> p]
<1>1. f \in [Points -> Points] /\ \A p \in Points : f[p] = p
  OBVIOUS
<1> HIDE DEF f
<1>2. Keeps(f)
  BY <1>1 DEF Keeps
<1> QED BY <1>1, <1>2 DEF Rigid, f

LEMMA QuarterTurnRigid == [p \in Points |-> QuarterTurn(p)] \in Rigid
<1> DEFINE f == [p \in Points |-> QuarterTurn(p)]
<1>1. f \in [Points -> Points]
  BY QuarterTurnOf
<1>2. \A p \in Points : f[p][1] = -p[2] /\ f[p][2] = p[1] /\ f[p][3] = p[3]
  BY QuarterTurnOf
<1> HIDE DEF f
<1>3. \A p, q \in Points : f[p] = f[q] => p = q
  <2> SUFFICES ASSUME NEW p \in Points, NEW q \in Points, f[p] = f[q] PROVE p = q
    OBVIOUS
  <2>1. p[1] = q[1] /\ p[2] = q[2] /\ p[3] = q[3]
    BY <1>2, PointParts
  <2> QED BY <2>1, SamePoint
<1>4. ASSUME NEW p \in Points, NEW q \in Points, NEW t \in {1, 3}, Spans(p, q, t)
      PROVE  Spans(f[p], f[q], t)
  <2>1. q[1] - p[1] \in Multiples(t) /\ q[2] - p[2] \in Multiples(t)
        /\ q[3] - p[3] \in Multiples(t)
    BY <1>4 DEF Spans, Axes
  <2>2. -(q[2] - p[2]) \in Multiples(t)
    BY <2>1, MultiplesKept
  <2>3. f[q][1] - f[p][1] = -(q[2] - p[2])
    BY <1>2, PointParts
  <2>4. /\ f[q][1] - f[p][1] \in Multiples(t) /\ f[q][2] - f[p][2] \in Multiples(t)
        /\ f[q][3] - f[p][3] \in Multiples(t)
    BY <1>2, <2>1, <2>2, <2>3
  <2> QED BY <2>4, PointParts DEF Spans
<1>5. ASSUME NEW p \in Points, NEW q \in Points, NEW r \in Points, NEW j \in 0 .. 3,
             OnThird(p, q, r, j)
      PROVE  OnThird(f[p], f[q], f[r], j)
  <2>1. /\ 3 * r[1] = (3 - j) * p[1] + j * q[1] /\ 3 * r[2] = (3 - j) * p[2] + j * q[2]
        /\ 3 * r[3] = (3 - j) * p[3] + j * q[3]
    BY <1>5 DEF OnThird, Axes
  <2>2. 3 * (-r[2]) = (3 - j) * (-p[2]) + j * (-q[2])
    <3>1. p[2] \in Int /\ q[2] \in Int /\ r[2] \in Int
      BY PointParts
    <3> QED BY <2>1, <3>1, ThirdsOfNumbers
  <2>3. /\ 3 * f[r][1] = (3 - j) * f[p][1] + j * f[q][1]
        /\ 3 * f[r][2] = (3 - j) * f[p][2] + j * f[q][2]
        /\ 3 * f[r][3] = (3 - j) * f[p][3] + j * f[q][3]
    BY <1>2, <2>1, <2>2
  <2> QED BY <2>3, PointParts DEF OnThird
<1> QED BY <1>1, <1>3, <1>4, <1>5 DEF Rigid, Keeps, f

LEMMA MirrorRigid ==
    ASSUME NEW a \in Axes
    PROVE  [p \in Points |-> Mirror(p, a)] \in Rigid
<1> DEFINE f == [p \in Points |-> Mirror(p, a)]
<1>1. f \in [Points -> Points]
  BY MirrorOf
<1>2. \A p \in Points : f[p][a] = -p[a] /\ \A b \in Axes : b # a => f[p][b] = p[b]
  BY MirrorOf
<1> HIDE DEF f
<1>0. \A p \in Points : \A b \in Axes : p[b] \in Int
  BY DEF Points
<1>3. \A p, q \in Points : f[p] = f[q] => p = q
  <2> SUFFICES ASSUME NEW p \in Points, NEW q \in Points, f[p] = f[q] PROVE p = q
    OBVIOUS
  <2>1. \A b \in Axes : p[b] = q[b]
    BY <1>0, <1>2
  <2>2. 1 \in Axes /\ 2 \in Axes /\ 3 \in Axes
    BY DEF Axes
  <2> QED BY <2>1, <2>2, SamePoint
<1>4. ASSUME NEW p \in Points, NEW q \in Points, NEW t \in {1, 3}, Spans(p, q, t)
      PROVE  Spans(f[p], f[q], t)
  <2> SUFFICES ASSUME NEW b \in Axes PROVE f[q][b] - f[p][b] \in Multiples(t)
    BY DEF Spans
  <2>1. q[b] - p[b] \in Multiples(t)
    BY <1>4 DEF Spans
  <2>2. -(q[b] - p[b]) \in Multiples(t)
    BY <2>1, MultiplesKept
  <2>3. CASE b = a
    <3>1. f[q][b] - f[p][b] = -(q[b] - p[b])
      BY <1>0, <1>2, <2>3
    <3> QED BY <2>2, <3>1
  <2>4. CASE b # a
    BY <1>2, <2>1, <2>4
  <2> QED BY <2>3, <2>4
<1>5. ASSUME NEW p \in Points, NEW q \in Points, NEW r \in Points, NEW j \in 0 .. 3,
             OnThird(p, q, r, j)
      PROVE  OnThird(f[p], f[q], f[r], j)
  <2> SUFFICES ASSUME NEW b \in Axes PROVE 3 * f[r][b] = (3 - j) * f[p][b] + j * f[q][b]
    BY DEF OnThird
  <2>1. 3 * r[b] = (3 - j) * p[b] + j * q[b]
    BY <1>5 DEF OnThird
  <2>2. 3 * (-r[b]) = (3 - j) * (-p[b]) + j * (-q[b])
    <3>1. p[b] \in Int /\ q[b] \in Int /\ r[b] \in Int
      BY <1>0
    <3> QED BY <2>1, <3>1, ThirdsOfNumbers
  <2> QED BY <1>2, <2>1, <2>2
<1> QED BY <1>1, <1>3, <1>4, <1>5 DEF Rigid, Keeps, f

LEMMA ShiftRigid ==
    ASSUME NEW v \in Points
    PROVE  [p \in Points |-> Plus(p, v)] \in Rigid
<1> DEFINE f == [p \in Points |-> Plus(p, v)]
<1>1. f \in [Points -> Points]
  BY PlusOf
<1>2. \A p \in Points : \A b \in Axes : f[p][b] = p[b] + v[b]
  BY PlusOf
<1> HIDE DEF f
<1>0. \A p \in Points : \A b \in Axes : p[b] \in Int
  BY DEF Points
<1>3. \A p, q \in Points : f[p] = f[q] => p = q
  <2> SUFFICES ASSUME NEW p \in Points, NEW q \in Points, f[p] = f[q] PROVE p = q
    OBVIOUS
  <2>1. \A b \in Axes : p[b] = q[b]
    <3> TAKE b \in Axes
    <3>1. p[b] \in Int /\ q[b] \in Int /\ v[b] \in Int /\ p[b] + v[b] = q[b] + v[b]
      BY <1>0, <1>2
    <3>2. \A x, y, w \in Int : x + w = y + w => x = y
      OBVIOUS
    <3> QED BY <3>1, <3>2
  <2>2. 1 \in Axes /\ 2 \in Axes /\ 3 \in Axes
    BY DEF Axes
  <2> QED BY <2>1, <2>2, SamePoint
<1>4. ASSUME NEW p \in Points, NEW q \in Points, NEW t \in {1, 3}, Spans(p, q, t)
      PROVE  Spans(f[p], f[q], t)
  <2> SUFFICES ASSUME NEW b \in Axes PROVE f[q][b] - f[p][b] \in Multiples(t)
    BY DEF Spans
  <2>1. f[q][b] - f[p][b] = q[b] - p[b]
    BY <1>0, <1>2
  <2> QED BY <1>4, <2>1 DEF Spans
<1>5. ASSUME NEW p \in Points, NEW q \in Points, NEW r \in Points, NEW j \in 0 .. 3,
             OnThird(p, q, r, j)
      PROVE  OnThird(f[p], f[q], f[r], j)
  <2> SUFFICES ASSUME NEW b \in Axes PROVE 3 * f[r][b] = (3 - j) * f[p][b] + j * f[q][b]
    BY DEF OnThird
  <2>1. 3 * r[b] = (3 - j) * p[b] + j * q[b]
    BY <1>5 DEF OnThird
  <2>2. p[b] \in Int /\ q[b] \in Int /\ r[b] \in Int /\ v[b] \in Int
    BY <1>0
  <2>3. 3 * (r[b] + v[b]) = (3 - j) * (p[b] + v[b]) + j * (q[b] + v[b])
    <3> DEFINE x == p[b]
               y == q[b]
               z == r[b]
               w == v[b]
    <3>1. /\ x \in Int /\ y \in Int /\ z \in Int /\ w \in Int
          /\ 3 * z = (3 - j) * x + j * y
      BY <2>1, <2>2
    <3> HIDE DEF x, y, z, w
    <3>2. 3 * (z + w) = (3 - j) * (x + w) + j * (y + w)
      BY <3>1, ThirdsOfNumbers
    <3> QED BY <3>2 DEF x, y, z, w
  <2> QED BY <1>2, <2>3
<1> QED BY <1>1, <1>3, <1>4, <1>5 DEF Rigid, Keeps, f

LEMMA ScaleRigid ==
    ASSUME NEW k \in Nat \ {0}
    PROVE  [p \in Points |-> Times(k, p)] \in Rigid
<1> DEFINE f == [p \in Points |-> Times(k, p)]
<1>1. f \in [Points -> Points]
  BY TimesOf
<1>2. \A p \in Points : \A b \in Axes : f[p][b] = k * p[b]
  BY TimesOf
<1> HIDE DEF f
<1>0. \A p \in Points : \A b \in Axes : p[b] \in Int
  BY DEF Points
<1>3. \A p, q \in Points : f[p] = f[q] => p = q
  <2> SUFFICES ASSUME NEW p \in Points, NEW q \in Points, f[p] = f[q] PROVE p = q
    OBVIOUS
  <2>0. \A x, y \in Int : k * x = k * y => x = y
    OBVIOUS
  <2>1. \A b \in Axes : p[b] = q[b]
    BY <1>0, <1>2, <2>0
  <2>2. 1 \in Axes /\ 2 \in Axes /\ 3 \in Axes
    BY DEF Axes
  <2> QED BY <2>1, <2>2, SamePoint
<1>4. ASSUME NEW p \in Points, NEW q \in Points, NEW t \in {1, 3}, Spans(p, q, t)
      PROVE  Spans(f[p], f[q], t)
  <2> SUFFICES ASSUME NEW b \in Axes PROVE f[q][b] - f[p][b] \in Multiples(t)
    BY DEF Spans
  <2>1. q[b] - p[b] \in Multiples(t)
    BY <1>4 DEF Spans
  <2>2. k * (q[b] - p[b]) \in Multiples(t)
    BY <2>1, MultiplesKept
  <2>3. \A x, y \in Int : k * x - k * y = k * (x - y)
    OBVIOUS
  <2>4. f[q][b] - f[p][b] = k * (q[b] - p[b])
    BY <1>0, <1>2, <2>3
  <2> QED BY <2>2, <2>4
<1>5. ASSUME NEW p \in Points, NEW q \in Points, NEW r \in Points, NEW j \in 0 .. 3,
             OnThird(p, q, r, j)
      PROVE  OnThird(f[p], f[q], f[r], j)
  <2> SUFFICES ASSUME NEW b \in Axes PROVE 3 * f[r][b] = (3 - j) * f[p][b] + j * f[q][b]
    BY DEF OnThird
  <2>1. 3 * r[b] = (3 - j) * p[b] + j * q[b]
    BY <1>5 DEF OnThird
  <2>2. p[b] \in Int /\ q[b] \in Int /\ r[b] \in Int /\ k \in Int
    BY <1>0
  <2>3. 3 * (k * r[b]) = (3 - j) * (k * p[b]) + j * (k * q[b])
    <3> DEFINE x == p[b]
               y == q[b]
               z == r[b]
               w == k
    <3>1. /\ x \in Int /\ y \in Int /\ z \in Int /\ w \in Int
          /\ 3 * z = (3 - j) * x + j * y
      BY <2>1, <2>2
    <3> HIDE DEF x, y, z, w
    <3>2. 3 * (w * z) = (3 - j) * (w * x) + j * (w * y)
      BY <3>1, ThirdsOfNumbers
    <3> QED BY <3>2 DEF x, y, z, w
  <2> QED BY <1>2, <2>3
<1> QED BY <1>1, <1>3, <1>4, <1>5 DEF Rigid, Keeps, f

LEMMA TurnedRigid ==
    ASSUME NEW quarters \in 0 .. 3
    PROVE  /\ [p \in Points |-> Turned(p, quarters)] \in Rigid
           /\ \A p \in Points : Turned(p, quarters) \in Points
<1> DEFINE q1 == [p \in Points |-> QuarterTurn(p)]
           q2 == [p \in Points |-> q1[q1[p]]]
           q3 == [p \in Points |-> q1[q2[p]]]
<1>1. q1 \in Rigid
  BY QuarterTurnRigid
<1>2. q2 \in Rigid
  <2> HIDE DEF q1
  <2> QED BY <1>1, RigidAfter
<1>3. q3 \in Rigid
  <2> HIDE DEF q1, q2
  <2> QED BY <1>1, <1>2, RigidAfter
<1>4. \A p \in Points : /\ QuarterTurn(p) \in Points /\ q1[p] = QuarterTurn(p)
                        /\ q2[p] = QuarterTurn(QuarterTurn(p))
                        /\ q3[p] = QuarterTurn(QuarterTurn(QuarterTurn(p)))
  BY QuarterTurnOf
<1> HIDE DEF q1, q2, q3
<1>5. CASE quarters = 0
  BY <1>5, StillRigid DEF Turned
<1>6. CASE quarters = 1
  <2>1. \A p \in Points : Turned(p, quarters) = q1[p]
    BY <1>4, <1>6 DEF Turned
  <2>2. [p \in Points |-> Turned(p, quarters)] = q1
    BY <1>1, <2>1 DEF Rigid
  <2> QED BY <1>1, <2>1, <2>2 DEF Rigid
<1>7. CASE quarters = 2
  <2>1. \A p \in Points : Turned(p, quarters) = q2[p]
    BY <1>4, <1>7 DEF Turned
  <2>2. [p \in Points |-> Turned(p, quarters)] = q2
    BY <1>2, <2>1 DEF Rigid
  <2> QED BY <1>2, <2>1, <2>2 DEF Rigid
<1>8. CASE quarters = 3
  <2>1. \A p \in Points : Turned(p, quarters) = q3[p]
    BY <1>4, <1>8 DEF Turned
  <2>2. [p \in Points |-> Turned(p, quarters)] = q3
    BY <1>3, <2>1 DEF Rigid
  <2> QED BY <1>3, <2>1, <2>2 DEF Rigid
<1> QED BY <1>5, <1>6, <1>7, <1>8
-----------------------------------------------------------------------------
(* What the geometry cards make                                            *)

\* The segments a deck's cards make, spanning multiples of t; and lists of them within
\* the budget and the tags there are.
Shape(t) ==
    {x \in [tag : Nat, from : Points, to : Points, radius : Int, part : {"whole"},
            num : {0}, abs : {0}, parent : {0}] :
        x.from # x.to /\ Spans(x.from, x.to, t)}

Lists(t) == {s \in Seq(Shape(t)) : /\ Len(s) <= MAX_SEGMENTS
                                   /\ \A i \in DOMAIN s : s[i].tag <= MaxTag}

LEMMA CopyTagIn ==
    ASSUME NEW tag \in Nat, NEW by \in Nat
    PROVE  CopyTag(tag, by) \in Nat
BY DEF CopyTag

LEMMA ImageShape ==
    ASSUME NEW t \in {1, 3}, NEW x \in Shape(t), NEW by \in Nat, NEW f \in Rigid
    PROVE  Image(x, by, f[x.from], f[x.to]) \in Shape(t)
<1>1. x.from \in Points /\ x.to \in Points /\ x.from # x.to /\ Spans(x.from, x.to, t)
  BY DEF Shape
<1>2. /\ f[x.from] \in Points /\ f[x.to] \in Points /\ f[x.from] # f[x.to]
      /\ Spans(f[x.from], f[x.to], t)
  BY <1>1 DEF Rigid, Keeps
<1>3. CopyTag(x.tag, by) \in Nat
  BY CopyTagIn DEF Shape
<1>4. Image(x, by, f[x.from], f[x.to]) =
        [x EXCEPT !.tag = CopyTag(x.tag, by), !.from = f[x.from], !.to = f[x.to]]
  BY DEF Image
<1> DEFINE y == [x EXCEPT !.tag = CopyTag(x.tag, by), !.from = f[x.from], !.to = f[x.to]]
<1>5. /\ y \in [tag : Nat, from : Points, to : Points, radius : Int, part : {"whole"},
                num : {0}, abs : {0}, parent : {0}]
      /\ y.from = f[x.from] /\ y.to = f[x.to]
  BY <1>2, <1>3 DEF Shape
<1> HIDE DEF y
<1>6. y \in Shape(t)
  BY <1>2, <1>5 DEF Shape
<1> QED BY <1>4, <1>6 DEF y

LEMMA CopiedBlock ==
    ASSUME NEW t \in {1, 3}, NEW s \in Seq(Shape(t)), NEW by \in Nat, NEW f \in Rigid
    PROVE  /\ [i \in DOMAIN s |-> Image(s[i], by, f[s[i].from], f[s[i].to])] \in Seq(Shape(t))
           /\ Len([i \in DOMAIN s |-> Image(s[i], by, f[s[i].from], f[s[i].to])]) = Len(s)
<1> DEFINE z == [i \in DOMAIN s |-> Image(s[i], by, f[s[i].from], f[s[i].to])]
<1>1. \A i \in 1 .. Len(s) : Image(s[i], by, f[s[i].from], f[s[i].to]) \in Shape(t)
  BY ImageShape
<1>2. z \in [1 .. Len(s) -> Shape(t)]
  BY <1>1
<1> HIDE DEF z
<1>3. z \in Seq(Shape(t)) /\ Len(z) = Len(s)
  BY <1>2
<1> QED BY <1>3 DEF z

LEMMA CheckedIn ==
    ASSUME NEW t \in {1, 3}, NEW s \in Seq(Shape(t)), Len(s) <= MAX_SEGMENTS
    PROVE  Checked(s) \in [ok : BOOLEAN, segs : Lists(t)] /\ (Checked(s).ok => Checked(s).segs = s)
<1>1. <<>> \in Lists(t)
  BY DeckAssumption DEF Lists
<1>2. CASE \E i \in DOMAIN s : s[i].tag > MaxTag
  BY <1>1, <1>2 DEF Checked, Refusal
<1>3. CASE ~\E i \in DOMAIN s : s[i].tag > MaxTag
  <2>1. \A i \in DOMAIN s : s[i].tag <= MaxTag
    <3> TAKE i \in DOMAIN s
    <3>1. s[i].tag \in Nat /\ ~(s[i].tag > MaxTag) /\ MaxTag \in Nat
      BY <1>3, DeckAssumption DEF Shape
    <3> QED BY <3>1
  <2>2. s \in Lists(t)
    BY <2>1 DEF Lists
  <2> QED BY <1>3, <2>2 DEF Checked, Made
<1> QED BY <1>2, <1>3

\* A wire of a deck, or of the refined deck.
WireCards(t) ==
    {c \in [card : {"GW"}, tag : 0 .. MaxTag, at : Points, step : Points, n : Nat,
            radius : Int] : \A a \in Axes : c.step[a] \in Multiples(t)}

LEMMA WireMade ==
    ASSUME NEW t \in {1, 3}, NEW s \in Lists(t), NEW c \in WireCards(t)
    PROVE  Wire(c, s) \in [ok : BOOLEAN, segs : Lists(t)]
<1> DEFINE new == [i \in 1 .. c.n |-> Seg(c.tag, Plus(c.at, Times(i - 1, c.step)),
                                          Plus(c.at, Times(i, c.step)), c.radius)]
<1>0. /\ c.tag \in 0 .. MaxTag /\ c.at \in Points /\ c.step \in Points /\ c.n \in Nat
      /\ c.radius \in Int /\ \A a \in Axes : c.step[a] \in Multiples(t)
      /\ MAX_SEGMENTS \in Nat /\ MaxTag \in Nat
  BY DeckAssumption DEF WireCards
<1>1. CASE c.n = 0 \/ c.step = Origin \/ OverBudget(Len(s), c.n)
  <2>1. <<>> \in Lists(t)
    BY <1>0 DEF Lists
  <2> QED BY <1>1, <2>1 DEF Wire, Refusal
<1>2. CASE ~(c.n = 0 \/ c.step = Origin \/ OverBudget(Len(s), c.n))
  <2>1. \E a \in Axes : c.step[a] # 0
    <3>1. Origin \in Points /\ Origin[1] = 0 /\ Origin[2] = 0 /\ Origin[3] = 0
      BY DEF Origin, Points, Axes
    <3> QED BY <1>0, <1>2, <3>1, SamePoint DEF Axes
  <2>2. ASSUME NEW i \in 1 .. c.n
        PROVE  Seg(c.tag, Plus(c.at, Times(i - 1, c.step)), Plus(c.at, Times(i, c.step)),
                   c.radius) \in Shape(t)
    <3> DEFINE p == Plus(c.at, Times(i - 1, c.step))
               q == Plus(c.at, Times(i, c.step))
    <3>1. /\ p \in Points /\ q \in Points
          /\ \A a \in Axes : p[a] = c.at[a] + (i - 1) * c.step[a]
          /\ \A a \in Axes : q[a] = c.at[a] + i * c.step[a]
      <4>1. /\ Times(i - 1, c.step) \in Points /\ Times(i, c.step) \in Points
            /\ \A a \in Axes : Times(i - 1, c.step)[a] = (i - 1) * c.step[a]
            /\ \A a \in Axes : Times(i, c.step)[a] = i * c.step[a]
        <5>1. i \in Int /\ i - 1 \in Int /\ c.step \in Points
          BY <1>0
        <5>2. \A k \in Int : /\ Times(k, c.step) \in Points
                              /\ \A a \in Axes : Times(k, c.step)[a] = k * c.step[a]
          BY <5>1, TimesOf
        <5> QED BY <5>1, <5>2
      <4>2. \A u, v \in Points : /\ Plus(u, v) \in Points
                                 /\ \A a \in Axes : Plus(u, v)[a] = u[a] + v[a]
        BY PlusOf
      <4> QED BY <1>0, <4>1, <4>2
    <3> HIDE DEF p, q
    <3>2. \A a \in Axes : q[a] - p[a] = c.step[a]
      <4> TAKE a \in Axes
      <4>1. c.at[a] \in Int /\ c.step[a] \in Int
        BY <1>0 DEF Points
      <4>2. \A x, y \in Int : (x + i * y) - (x + (i - 1) * y) = y
        OBVIOUS
      <4> QED BY <3>1, <4>1, <4>2
    <3>3. Spans(p, q, t)
      BY <1>0, <3>2 DEF Spans
    <3>4. p # q
      <4>1. PICK a \in Axes : c.step[a] # 0
        BY <2>1
      <4>2. p[a] \in Int /\ q[a] \in Int /\ q[a] - p[a] # 0
        BY <3>1, <3>2, <4>1 DEF Points
      <4> QED BY <4>2
    <3>5. /\ Seg(c.tag, p, q, c.radius) \in
                [tag : Nat, from : Points, to : Points, radius : Int, part : {"whole"},
                 num : {0}, abs : {0}, parent : {0}]
          /\ Seg(c.tag, p, q, c.radius).from = p /\ Seg(c.tag, p, q, c.radius).to = q
      BY <1>0, <3>1 DEF Seg
    <3>6. Seg(c.tag, p, q, c.radius) \in Shape(t)
      BY <3>3, <3>4, <3>5 DEF Shape
    <3> QED BY <3>6 DEF p, q
  <2>3. new \in [1 .. c.n -> Shape(t)] /\ \A i \in 1 .. c.n : new[i].tag = c.tag
    BY <2>2 DEF Seg
  <2> HIDE DEF new
  <2>4. new \in Seq(Shape(t)) /\ Len(new) = c.n
    BY <1>0, <2>3
  <2>5. s \in Seq(Shape(t)) /\ Len(s) \in Nat
    BY DEF Lists
  <2> DEFINE all == s \o new
  <2>6. /\ all \in Seq(Shape(t)) /\ Len(all) = Len(s) + Len(new)
        /\ \A i \in 1 .. Len(s) : all[i] = s[i]
        /\ \A i \in 1 .. Len(new) : all[Len(s) + i] = new[i]
        /\ \A i \in 1 .. Len(all) : i \in 1 .. Len(s) \/ i - Len(s) \in 1 .. Len(new)
    <3>1. all = s \o new
      OBVIOUS
    <3> HIDE DEF all
    <3> QED BY <2>4, <2>5, <3>1, Joined
  <2>7. Wire(c, s) = Made(all)
    BY <1>2 DEF Wire, new
  <2> HIDE DEF all
  <2>8. Len(all) <= MAX_SEGMENTS
    BY <1>0, <1>2, <2>4, <2>5, <2>6 DEF OverBudget
  <2>9. \A i \in DOMAIN all : all[i].tag <= MaxTag
    <3> SUFFICES ASSUME NEW i \in 1 .. Len(all) PROVE all[i].tag <= MaxTag
      BY <2>6
    <3>1. CASE i \in 1 .. Len(s)
      BY <2>6, <3>1 DEF Lists
    <3>2. CASE i - Len(s) \in 1 .. Len(new)
      <4>1. all[Len(s) + (i - Len(s))] = new[i - Len(s)] /\ Len(s) + (i - Len(s)) = i
        BY <2>5, <2>6, <3>2
      <4>2. all[i].tag = c.tag
        BY <2>3, <2>4, <3>2, <4>1
      <4> QED BY <1>0, <4>2
    <3> QED BY <2>6, <3>1, <3>2
  <2>10. all \in Lists(t)
    BY <2>6, <2>8, <2>9 DEF Lists
  <2> QED BY <2>7, <2>10 DEF Made
<1> QED BY <1>1, <1>2

LEMMA Suffix ==
    ASSUME NEW S, NEW s \in Seq(S), NEW k \in 1 .. Len(s)
    PROVE  /\ SubSeq(s, k, Len(s)) \in Seq(S) /\ Len(SubSeq(s, k, Len(s))) = Len(s) - k + 1
           /\ \A i \in 1 .. Len(s) - k + 1 : SubSeq(s, k, Len(s))[i] = s[k + i - 1]
           /\ SubSeq(s, 1, k - 1) \in Seq(S) /\ Len(SubSeq(s, 1, k - 1)) = k - 1
           /\ \A i \in 1 .. k - 1 : SubSeq(s, 1, k - 1)[i] = s[i]
OBVIOUS

\* The cards as the parser lets them through.
GMCards == [card : {"GM"}, inc : Nat, times : Nat, its : Nat, shift : Points, turn : 0 .. 3]
GRCards == [card : {"GR"}, inc : Nat, n : {1, 2, 4}]
GXCards == [card : {"GX"}, inc : Nat, planes : SUBSET Axes]
GSCards == [card : {"GS"}, by : Nat \ {0}]

\* The map a GM's copies are made with.
StepMap(c) == [p \in Points |-> Plus(Turned(p, c.turn), c.shift)]

LEMMA StepMapRigid ==
    ASSUME NEW c \in GMCards
    PROVE  StepMap(c) \in Rigid
<1> DEFINE f == [p \in Points |-> Turned(p, c.turn)]
           g == [p \in Points |-> Plus(p, c.shift)]
           h == [p \in Points |-> g[f[p]]]
<1>1. c.turn \in 0 .. 3 /\ c.shift \in Points
  BY DEF GMCards
<1>2. f \in Rigid /\ \A p \in Points : f[p] = Turned(p, c.turn) /\ f[p] \in Points
  BY <1>1, TurnedRigid
<1>3. g \in Rigid /\ \A p \in Points : g[p] = Plus(p, c.shift)
  BY <1>1, ShiftRigid
<1> HIDE DEF f, g
<1>4. h \in Rigid
  BY <1>2, <1>3, RigidAfter
<1>5. h = StepMap(c)
  BY <1>2, <1>3 DEF StepMap
<1> QED BY <1>4, <1>5

LEMMA OnceMoreIs ==
    ASSUME NEW t \in {1, 3}, NEW s \in Seq(Shape(t)), NEW c \in GMCards
    PROVE  OnceMore(c, s) =
             [i \in DOMAIN s |-> Image(s[i], c.inc, StepMap(c)[s[i].from], StepMap(c)[s[i].to])]
<1>1. \A i \in DOMAIN s : s[i].from \in Points /\ s[i].to \in Points
  BY DEF Shape
<1> QED BY <1>1 DEF OnceMore, StepMap

LEMMA OnceMoreShapes ==
    ASSUME NEW t \in {1, 3}, NEW s \in Seq(Shape(t)), NEW c \in GMCards
    PROVE  OnceMore(c, s) \in Seq(Shape(t)) /\ Len(OnceMore(c, s)) = Len(s)
<1>1. c.inc \in Nat /\ StepMap(c) \in Rigid
  BY StepMapRigid DEF GMCards
<1> QED BY <1>1, OnceMoreIs, CopiedBlock

\* Each of a GM's copies is of the one before, the first of the block.
CopiesOf(copy, c, block) ==
    copy[0] = block /\ \A k \in 1 .. c.times : copy[k] = OnceMore(c, copy[k - 1])

LEMMA CopiesMade ==
    ASSUME NEW t \in {1, 3}, NEW block \in Seq(Shape(t)), NEW c \in GMCards
    PROVE  \E copy \in [0 .. c.times -> {s \in Seq(Shape(t)) : Len(s) = Len(block)}] :
              /\ CopiesOf(copy, c, block)
              /\ Copies(c, block) = [k \in 1 .. c.times |-> copy[k]]
<1> DEFINE S == {s \in Seq(Shape(t)) : Len(s) = Len(block)}
           n == c.times
           step == [x \in Nat \X S |-> OnceMore(c, x[2])]
           Eq(f) == f = [k \in 0 .. n |-> IF k = 0 THEN block ELSE OnceMore(c, f[k - 1])]
           copy == CHOOSE f : Eq(f)
<1>1. n \in Nat /\ block \in S
  BY DEF GMCards
<1>2. step \in [Nat \X S -> S]
  <2>1. \A s \in S : OnceMore(c, s) \in S
    BY OnceMoreShapes
  <2> QED BY <2>1
<1> HIDE DEF step
<1>3. PICK f \in [0 .. n -> S] : FollowsUpto(f, n, block, step)
  <2> HIDE DEF S, n
  <2> QED BY <1>1, <1>2, RecursionUpto
<1>4. Eq(f)
  <2>1. ASSUME NEW k \in 0 .. n
        PROVE  f[k] = IF k = 0 THEN block ELSE OnceMore(c, f[k - 1])
    <3>1. CASE k = 0
      BY <1>3, <3>1 DEF FollowsUpto
    <3>2. CASE k # 0
      <4>1. k \in 1 .. n /\ k - 1 \in Nat /\ k - 1 \in 0 .. n
        BY <1>1, <3>2
      <4>2. f[k] = step[<<k - 1, f[k - 1]>>] /\ f[k - 1] \in S
        BY <1>3, <4>1 DEF FollowsUpto
      <4>3. step[<<k - 1, f[k - 1]>>] = OnceMore(c, f[k - 1])
        BY <4>1, <4>2 DEF step
      <4> QED BY <3>2, <4>2, <4>3
    <3> QED BY <3>1, <3>2
  <2>2. f = [k \in 0 .. n |-> f[k]]
    BY <1>3
  <2> QED BY <2>1, <2>2
<1>5. Eq(copy)
  <2>1. \E g : Eq(g)
    BY <1>4
  <2> HIDE DEF Eq
  <2> QED BY <2>1
<1>6. Copies(c, block) = [k \in 1 .. n |-> copy[k]]
  BY DEF Copies
<1> HIDE DEF copy
<1>7. copy[0] = block /\ \A k \in 1 .. n : copy[k] = OnceMore(c, copy[k - 1])
  <2>1. \A k \in 0 .. n : copy[k] = IF k = 0 THEN block ELSE OnceMore(c, copy[k - 1])
    <3> HIDE DEF n
    <3> QED BY <1>5
  <2>2. 0 \in 0 .. n /\ \A k \in 1 .. n : k \in 0 .. n /\ k # 0
    BY <1>1
  <2> QED BY <2>1, <2>2
<1>8. DOMAIN copy = 0 .. n
  BY <1>5
<1> HIDE DEF Eq
<1> DEFINE T == {k \in 0 .. n : copy[k] \in S}
<1>9. \A k \in 0 .. n : k \in T
  <2>1. 0 \in T
    BY <1>1, <1>7
  <2>2. ASSUME NEW k \in 1 .. n, k - 1 \in T PROVE k \in T
    <3>1. copy[k - 1] \in S /\ copy[k] = OnceMore(c, copy[k - 1])
      BY <1>7, <2>2
    <3>2. OnceMore(c, copy[k - 1]) \in S
      BY <3>1, OnceMoreShapes
    <3> QED BY <1>1, <3>1, <3>2
  <2> HIDE DEF T
  <2> QED BY <1>1, <2>1, <2>2, Upwards
<1>10. copy \in [0 .. n -> S] /\ CopiesOf(copy, c, block)
  <2>1. copy = [k \in 0 .. n |-> copy[k]]
    <3>1. copy = [k \in 0 .. n |-> IF k = 0 THEN block ELSE OnceMore(c, copy[k - 1])]
      BY <1>5 DEF Eq
    <3> QED BY <3>1
  <2> QED BY <1>7, <1>9, <2>1 DEF CopiesOf
<1> QED BY <1>6, <1>10

LEMMA CopiesFlat ==
    ASSUME NEW t \in {1, 3}, NEW block \in Seq(Shape(t)), NEW c \in GMCards
    PROVE  /\ Copies(c, block) \in Seq(Seq(Shape(t))) /\ Len(Copies(c, block)) = c.times
           /\ FlattenSeq(Copies(c, block)) \in Seq(Shape(t))
           /\ Len(FlattenSeq(Copies(c, block))) = Len(block) * c.times
<1> DEFINE S == {s \in Seq(Shape(t)) : Len(s) = Len(block)}
           q == Copies(c, block)
<1>1. PICK copy \in [0 .. c.times -> S] : q = [k \in 1 .. c.times |-> copy[k]]
  BY CopiesMade
<1>2. c.times \in Nat /\ Len(block) \in Nat
  BY DEF GMCards
<1>3. \A k \in 1 .. c.times : q[k] \in S
  BY <1>1, <1>2
<1>4. q \in Seq(Seq(Shape(t))) /\ Len(q) = c.times
  <2>1. DOMAIN q = 1 .. c.times
    BY <1>1
  <2>2. \A k \in 1 .. c.times : q[k] \in Seq(Shape(t))
    BY <1>3
  <2>3. q = [k \in 1 .. c.times |-> q[k]]
    BY <1>1, <2>1
  <2> HIDE DEF q
  <2>4. q \in [1 .. c.times -> Seq(Shape(t))]
    BY <2>2, <2>3
  <2> DEFINE n == c.times
             B == Seq(Shape(t))
  <2>5. n \in Nat /\ q \in [1 .. n -> B]
    BY <1>2, <2>4
  <2> HIDE DEF n, B
  <2>6. q \in Seq(B) /\ Len(q) = n
    BY <2>5, IntervalSeq
  <2> QED BY <2>6 DEF n, B
<1> HIDE DEF q
<1>5. \A k \in 1 .. Len(q) : Len(q[k]) = Len(block)
  BY <1>3, <1>4
<1>6. FlattenSeq(q) \in Seq(Shape(t)) /\ Len(FlattenSeq(q)) = Len(q) * Len(block)
  <2> DEFINE l == Len(block)
  <2>1. l \in Nat /\ \A k \in 1 .. Len(q) : Len(q[k]) = l
    BY <1>2, <1>5
  <2> HIDE DEF l
  <2>2. FlattenSeq(q) \in Seq(Shape(t)) /\ Len(FlattenSeq(q)) = Len(q) * l
    BY <1>4, <2>1, FlatLength
  <2> QED BY <2>2 DEF l
<1>7. c.times * Len(block) = Len(block) * c.times
  BY <1>2
<1> QED BY <1>4, <1>6, <1>7 DEF q

\* The first segment a GM's ITS names.
Nominees(c, s) == {i \in DOMAIN s : c.its = 0 \/ s[i].tag = c.its}
FirstOf(c, s) == CHOOSE i \in Nominees(c, s) : \A j \in Nominees(c, s) : i <= j

LEMMA FirstIs ==
    ASSUME NEW t, NEW s \in Seq(Shape(t)), NEW c \in GMCards, Nominees(c, s) # {}
    PROVE  /\ FirstOf(c, s) \in 1 .. Len(s) /\ FirstOf(c, s) \in Nominees(c, s)
           /\ \A j \in Nominees(c, s) : FirstOf(c, s) <= j
<1>1. Nominees(c, s) \subseteq 1 .. Len(s) /\ 1 .. Len(s) \subseteq Nat
  BY DEF Nominees
<1>2. \E i \in Nominees(c, s) : \A j \in Nominees(c, s) : i <= j
  <2>1. Nominees(c, s) \subseteq Nat
    BY <1>1
  <2> QED BY <2>1, LeastOf
<1> QED BY <1>1, <1>2 DEF FirstOf

MovedInPlace(c, s) ==
    SubSeq(s, 1, FirstOf(c, s) - 1) \o OnceMore(c, SubSeq(s, FirstOf(c, s), Len(s)))
MovedCopies(c, s) ==
    s \o FlattenSeq(Copies(c, SubSeq(s, FirstOf(c, s), Len(s))))

\* What a GM makes: the deck it was, a refusal, or the structure moved or copied.
LEMMA MovedIs ==
    ASSUME NEW t, NEW s \in Seq(Shape(t)), NEW c \in GMCards
    PROVE  \/ Moved(c, s) = Refusal
           \/ s = <<>> /\ Moved(c, s) = Made(s)
           \/ /\ s # <<>> /\ Nominees(c, s) # {} /\ c.times = 0
              /\ Moved(c, s) = Checked(MovedInPlace(c, s))
           \/ /\ s # <<>> /\ Nominees(c, s) # {} /\ c.times # 0
              /\ ~OverBudget(Len(s), Len(SubSeq(s, FirstOf(c, s), Len(s))) * c.times)
              /\ Moved(c, s) = Checked(MovedCopies(c, s))
<1> DEFINE m == Moved(c, s)
           Over == OverBudget(Len(s), Len(SubSeq(s, FirstOf(c, s), Len(s))) * c.times)
<1>1. m = CASE s = <<>> -> IF c.its = 0 THEN Made(s) ELSE Refusal
            [] s # <<>> /\ Nominees(c, s) = {} -> Refusal
            [] c.times = 0 /\ Nominees(c, s) # {} -> Checked(MovedInPlace(c, s))
            [] OTHER -> IF Over THEN Refusal ELSE Checked(MovedCopies(c, s))
  BY DEF Moved, Nominees, FirstOf, MovedInPlace, MovedCopies
<1> HIDE DEF m, Over
<1>0. s = <<>> => Nominees(c, s) = {}
  BY DEF Nominees
<1>2. CASE s = <<>>
  BY <1>1, <1>2, <1>0 DEF m
<1>3. CASE s # <<>> /\ Nominees(c, s) = {}
  BY <1>1, <1>3 DEF m
<1>4. CASE s # <<>> /\ c.times = 0 /\ Nominees(c, s) # {}
  <2>1. m = Checked(MovedInPlace(c, s))
    BY <1>1, <1>4
  <2> QED BY <1>4, <2>1 DEF m
<1>5. CASE s # <<>> /\ c.times # 0 /\ Nominees(c, s) # {}
  <2>1. m = IF Over THEN Refusal ELSE Checked(MovedCopies(c, s))
    BY <1>1, <1>5
  <2> QED BY <1>5, <2>1 DEF m, Over
<1> QED BY <1>2, <1>3, <1>4, <1>5

LEMMA MovedMade ==
    ASSUME NEW t \in {1, 3}, NEW s \in Lists(t), NEW c \in GMCards
    PROVE  Moved(c, s) \in [ok : BOOLEAN, segs : Lists(t)]
<1>0. s \in Seq(Shape(t)) /\ Len(s) \in Nat /\ Len(s) <= MAX_SEGMENTS /\ MAX_SEGMENTS \in Nat
  BY DeckAssumption DEF Lists
<1>1. CASE Moved(c, s) = Refusal
  <2>1. <<>> \in Lists(t)
    BY <1>0 DEF Lists
  <2> QED BY <1>1, <2>1 DEF Refusal
<1>2. CASE s = <<>> /\ Moved(c, s) = Made(s)
  <2>1. Moved(c, s) = [ok |-> TRUE, segs |-> s]
    BY <1>2 DEF Made
  <2> QED BY <2>1
<1> DEFINE suffix == SubSeq(s, FirstOf(c, s), Len(s))
           first == FirstOf(c, s)
<1>3. ASSUME Nominees(c, s) # {}
      PROVE  /\ suffix \in Seq(Shape(t)) /\ Len(suffix) = Len(s) - first + 1
             /\ first \in 1 .. Len(s)
             /\ SubSeq(s, 1, first - 1) \in Seq(Shape(t)) /\ Len(SubSeq(s, 1, first - 1)) = first - 1
  <2>1. first \in 1 .. Len(s)
    BY <1>0, <1>3, FirstIs
  <2> QED BY <1>0, <2>1, Suffix
<1>4. CASE /\ Nominees(c, s) # {} /\ c.times = 0 /\ Moved(c, s) = Checked(MovedInPlace(c, s))
  <2>1. OnceMore(c, suffix) \in Seq(Shape(t)) /\ Len(OnceMore(c, suffix)) = Len(suffix)
    BY <1>3, <1>4, OnceMoreShapes
  <2>2. /\ MovedInPlace(c, s) \in Seq(Shape(t))
        /\ Len(MovedInPlace(c, s)) = first - 1 + Len(suffix)
    BY <1>3, <1>4, <2>1, ConcatProperties DEF MovedInPlace
  <2>3. Len(MovedInPlace(c, s)) <= MAX_SEGMENTS
    BY <1>0, <1>3, <1>4, <2>2
  <2> QED BY <1>4, <2>2, <2>3, CheckedIn
<1>5. CASE /\ Nominees(c, s) # {} /\ Moved(c, s) = Checked(MovedCopies(c, s))
           /\ ~OverBudget(Len(s), Len(SubSeq(s, FirstOf(c, s), Len(s))) * c.times)
  <2>1. /\ FlattenSeq(Copies(c, suffix)) \in Seq(Shape(t))
        /\ Len(FlattenSeq(Copies(c, suffix))) = Len(suffix) * c.times
    BY <1>3, <1>5, CopiesFlat
  <2>2. /\ MovedCopies(c, s) \in Seq(Shape(t))
        /\ Len(MovedCopies(c, s)) = Len(s) + Len(suffix) * c.times
    BY <1>0, <2>1, ConcatProperties DEF MovedCopies
  <2>3. Len(MovedCopies(c, s)) <= MAX_SEGMENTS
    <3> DEFINE l == Len(suffix) * c.times
    <3>1. l \in Nat
      BY <1>3, <1>5 DEF GMCards
    <3>2. Len(MovedCopies(c, s)) = Len(s) + l /\ ~(Len(s) + l > MAX_SEGMENTS)
      BY <1>5, <2>2 DEF OverBudget
    <3> HIDE DEF l
    <3> QED BY <1>0, <3>1, <3>2
  <2> QED BY <1>5, <2>2, <2>3, CheckedIn
<1> QED BY <1>0, <1>1, <1>2, <1>4, <1>5, MovedIs

\* The map a GR's copy k is made with.
TurnMap(c, k) == [p \in Points |-> Turned(p, k * (4 \div c.n))]

LEMMA TurnMapRigid ==
    ASSUME NEW c \in GRCards, NEW k \in 1 .. c.n - 1
    PROVE  /\ TurnMap(c, k) \in Rigid /\ k * c.inc \in Nat
           /\ \A p \in Points : Turned(p, k * (4 \div c.n)) = TurnMap(c, k)[p]
<1>1. c.n \in {1, 2, 4} /\ c.inc \in Nat
  BY DEF GRCards
<1>2. k * (4 \div c.n) \in 0 .. 3
  <2>1. CASE c.n = 1
    BY <2>1
  <2>2. CASE c.n = 2
    <3>1. 4 \div 2 = 2
      OBVIOUS
    <3> QED BY <2>2, <3>1
  <2>3. CASE c.n = 4
    <3>1. 4 \div 4 = 1
      OBVIOUS
    <3> QED BY <2>3, <3>1
  <2> QED BY <1>1, <2>1, <2>2, <2>3
<1>3. k \in Nat /\ k * c.inc \in Nat
  <2>1. k \in Nat
    BY <1>1
  <2> QED BY <1>1, <2>1
<1> QED BY <1>2, <1>3, TurnedRigid DEF TurnMap

LEMMA RotatedCopyIs ==
    ASSUME NEW t \in {1, 3}, NEW s \in Seq(Shape(t)), NEW c \in GRCards,
           NEW k \in 1 .. c.n - 1
    PROVE  /\ RotatedCopy(c, s, k) =
                [i \in DOMAIN s |-> Image(s[i], k * c.inc, TurnMap(c, k)[s[i].from],
                                          TurnMap(c, k)[s[i].to])]
           /\ RotatedCopy(c, s, k) \in Seq(Shape(t)) /\ Len(RotatedCopy(c, s, k)) = Len(s)
<1>1. \A i \in DOMAIN s : s[i].from \in Points /\ s[i].to \in Points
  BY DEF Shape
<1>2. RotatedCopy(c, s, k) =
        [i \in DOMAIN s |-> Image(s[i], k * c.inc, TurnMap(c, k)[s[i].from],
                                  TurnMap(c, k)[s[i].to])]
  BY <1>1, TurnMapRigid DEF RotatedCopy
<1>3. TurnMap(c, k) \in Rigid /\ k * c.inc \in Nat
  BY TurnMapRigid
<1> QED BY <1>2, <1>3, CopiedBlock

RotatedCopies(c, s) == [k \in 1 .. c.n - 1 |-> RotatedCopy(c, s, k)]

LEMMA RotatedFlat ==
    ASSUME NEW t \in {1, 3}, NEW s \in Seq(Shape(t)), NEW c \in GRCards
    PROVE  /\ RotatedCopies(c, s) \in Seq(Seq(Shape(t))) /\ Len(RotatedCopies(c, s)) = c.n - 1
           /\ FlattenSeq(RotatedCopies(c, s)) \in Seq(Shape(t))
           /\ Len(FlattenSeq(RotatedCopies(c, s))) = Len(s) * (c.n - 1)
<1> DEFINE q == RotatedCopies(c, s)
           l == Len(s)
<1>1. c.n - 1 \in Nat /\ l \in Nat
  BY DEF GRCards
<1>2. q \in [1 .. c.n - 1 -> Seq(Shape(t))] /\ \A k \in 1 .. c.n - 1 : Len(q[k]) = l
  BY RotatedCopyIs DEF RotatedCopies
<1> HIDE DEF q, l
<1>3. q \in Seq(Seq(Shape(t))) /\ Len(q) = c.n - 1
  BY <1>1, <1>2, IntervalSeq
<1>4. FlattenSeq(q) \in Seq(Shape(t)) /\ Len(FlattenSeq(q)) = Len(q) * l
  BY <1>1, <1>2, <1>3, FlatLength
<1>5. (c.n - 1) * l = l * (c.n - 1)
  BY <1>1
<1> QED BY <1>3, <1>4, <1>5 DEF q, l

LEMMA RotatedMade ==
    ASSUME NEW t \in {1, 3}, NEW s \in Lists(t), NEW c \in GRCards
    PROVE  Rotated(c, s) \in [ok : BOOLEAN, segs : Lists(t)]
<1>0. s \in Seq(Shape(t)) /\ Len(s) \in Nat /\ Len(s) <= MAX_SEGMENTS /\ MAX_SEGMENTS \in Nat
  BY DeckAssumption DEF Lists
<1>1. CASE c.n <= 1
  <2>1. Rotated(c, s) = [ok |-> TRUE, segs |-> s]
    BY <1>1 DEF Rotated, Made
  <2> QED BY <2>1
<1>2. CASE ~(c.n <= 1) /\ OverBudget(Len(s), Len(s) * (c.n - 1))
  <2>1. <<>> \in Lists(t)
    BY <1>0 DEF Lists
  <2> QED BY <1>2, <2>1 DEF Refusal, Rotated
<1>3. CASE ~(c.n <= 1) /\ ~OverBudget(Len(s), Len(s) * (c.n - 1))
  <2> DEFINE l == Len(s) * (c.n - 1)
             all == s \o FlattenSeq(RotatedCopies(c, s))
  <2>1. Rotated(c, s) = Checked(all)
    BY <1>3 DEF Rotated, RotatedCopies
  <2>2. all \in Seq(Shape(t)) /\ Len(all) = Len(s) + l
    <3> DEFINE more == FlattenSeq(RotatedCopies(c, s))
    <3>1. more \in Seq(Shape(t)) /\ Len(more) = l
      BY <1>0, RotatedFlat
    <3> HIDE DEF more, l
    <3>2. s \o more \in Seq(Shape(t)) /\ Len(s \o more) = Len(s) + l
      BY <1>0, <3>1, EndToEnd
    <3> QED BY <3>2 DEF more
  <2>3. l \in Nat /\ ~(Len(s) + l > MAX_SEGMENTS)
    <3>1. c.n - 1 \in Nat
      BY DEF GRCards
    <3> QED BY <1>0, <1>3, <3>1 DEF OverBudget
  <2> HIDE DEF l, all
  <2>4. Len(all) <= MAX_SEGMENTS
    BY <1>0, <2>2, <2>3
  <2> QED BY <2>1, <2>2, <2>4, CheckedIn
<1> QED BY <1>1, <1>2, <1>3

\* The mirror image of a structure in one plane, and its tags' increment there.
MirrorMap(a) == [p \in Points |-> Mirror(p, a)]
PlanesBefore(c, a) == Cardinality({b \in c.planes : b > a})
StepOf(c, a) == PlaneStep(c.inc, PlanesBefore(c, a))
ImagesIn(c, s, a) ==
    [i \in DOMAIN s |-> Image(s[i], StepOf(c, a), Mirror(s[i].from, a), Mirror(s[i].to, a))]

LEMMA StepOfIn ==
    ASSUME NEW c \in GXCards, NEW a \in Axes
    PROVE  /\ PlanesBefore(c, a) \in 0 .. 2 /\ StepOf(c, a) \in Nat
           /\ StepOf(c, a) = c.inc * 2 ^ PlanesBefore(c, a)
<1> DEFINE B == {b \in c.planes : b > a}
<1>1. B \subseteq {2, 3}
  BY DEF GXCards, Axes
<1>2. IsFiniteSet({2, 3}) /\ Cardinality({2, 3}) = 2
  <2> DEFINE i == 2
             j == 3
  <2>1. {2, 3} = i .. j /\ i \in Int /\ j \in Int /\ ~(i > j) /\ j - i + 1 = 2
    OBVIOUS
  <2> HIDE DEF i, j
  <2>2. IsFiniteSet(i .. j) /\ Cardinality(i .. j) = 2
    BY <2>1, FS_Interval
  <2> QED BY <2>1, <2>2
<1>3. IsFiniteSet(B) /\ Cardinality(B) \in Nat /\ Cardinality(B) <= 2
  <2> HIDE DEF B
  <2>1. IsFiniteSet(B) /\ Cardinality(B) <= Cardinality({2, 3})
    BY <1>1, <1>2, FS_Subset
  <2>2. Cardinality(B) \in Nat
    BY <2>1, FS_CardinalityType
  <2> QED BY <1>2, <2>1, <2>2
<1> DEFINE n == PlanesBefore(c, a)
<1>4. n \in 0 .. 2
  BY <1>3 DEF PlanesBefore
<1> HIDE DEF n
<1>5. 2 ^ n \in Nat
  <2>1. CASE n = 0
    BY <2>1
  <2>2. CASE n = 1
    BY <2>2
  <2>3. CASE n = 2
    BY <2>3
  <2> QED BY <1>4, <2>1, <2>2, <2>3
<1>6. c.inc * 2 ^ n \in Nat
  <2> DEFINE m == 2 ^ n
  <2>1. m \in Nat /\ c.inc \in Nat
    BY <1>5 DEF GXCards
  <2> HIDE DEF m
  <2>2. c.inc * m \in Nat
    BY <2>1
  <2> QED BY <2>2 DEF m
<1>7. StepOf(c, a) = c.inc * 2 ^ n
  BY DEF StepOf, PlaneStep, n
<1> QED BY <1>4, <1>6, <1>7 DEF n

LEMMA ImagesInIs ==
    ASSUME NEW t \in {1, 3}, NEW s \in Seq(Shape(t)), NEW c \in GXCards, NEW a \in Axes
    PROVE  /\ ImagesIn(c, s, a) =
                [i \in DOMAIN s |-> Image(s[i], StepOf(c, a), MirrorMap(a)[s[i].from],
                                          MirrorMap(a)[s[i].to])]
           /\ ImagesIn(c, s, a) \in Seq(Shape(t)) /\ Len(ImagesIn(c, s, a)) = Len(s)
<1>1. \A i \in DOMAIN s : s[i].from \in Points /\ s[i].to \in Points
  BY DEF Shape
<1>2. \A p \in Points : Mirror(p, a) = MirrorMap(a)[p]
  BY DEF MirrorMap
<1>3. ImagesIn(c, s, a) =
        [i \in DOMAIN s |-> Image(s[i], StepOf(c, a), MirrorMap(a)[s[i].from],
                                  MirrorMap(a)[s[i].to])]
  BY <1>1, <1>2 DEF ImagesIn
<1>4. MirrorMap(a) \in Rigid /\ StepOf(c, a) \in Nat
  BY MirrorRigid, StepOfIn DEF MirrorMap
<1> DEFINE f == MirrorMap(a)
           by == StepOf(c, a)
<1>5. f \in Rigid /\ by \in Nat
  BY <1>4
<1>6. ImagesIn(c, s, a) = [i \in DOMAIN s |-> Image(s[i], by, f[s[i].from], f[s[i].to])]
  BY <1>3
<1> HIDE DEF f, by
<1>7. ImagesIn(c, s, a) \in Seq(Shape(t)) /\ Len(ImagesIn(c, s, a)) = Len(s)
  BY <1>5, <1>6, CopiedBlock
<1> QED BY <1>3, <1>7

\* What one plane of a GX makes of what there is.
LEMMA ReflectedInIs ==
    ASSUME NEW c \in GXCards, NEW m, NEW a \in Axes
    PROVE  \/ (~m.ok \/ a \notin c.planes) /\ ReflectedIn(c, m, a) = m
           \/ ReflectedIn(c, m, a) = Refusal
           \/ /\ m.ok /\ a \in c.planes
              /\ ~OverBudget(Len(m.segs), Len(m.segs))
              /\ ~\E i \in DOMAIN m.segs : InPlane(m.segs[i], a)
              /\ ReflectedIn(c, m, a) = Checked(m.segs \o ImagesIn(c, m.segs, a))
<1>1. CASE ~m.ok \/ a \notin c.planes
  BY <1>1 DEF ReflectedIn
<1>2. CASE m.ok /\ a \in c.planes
  BY <1>2 DEF ReflectedIn, ImagesIn, StepOf, PlanesBefore
<1> QED BY <1>1, <1>2

LEMMA ReflectedInMade ==
    ASSUME NEW t \in {1, 3}, NEW c \in GXCards, NEW m \in [ok : BOOLEAN, segs : Lists(t)],
           NEW a \in Axes
    PROVE  ReflectedIn(c, m, a) \in [ok : BOOLEAN, segs : Lists(t)]
<1> DEFINE s == m.segs
<1>0. s \in Seq(Shape(t)) /\ Len(s) \in Nat /\ Len(s) <= MAX_SEGMENTS /\ MAX_SEGMENTS \in Nat
  BY DeckAssumption DEF Lists
<1>1. <<>> \in Lists(t)
  BY <1>0 DEF Lists
<1>2. Refusal \in [ok : BOOLEAN, segs : Lists(t)]
  BY <1>1 DEF Refusal
<1>3. CASE ~OverBudget(Len(s), Len(s)) /\ ReflectedIn(c, m, a) = Checked(s \o ImagesIn(c, s, a))
  <2> DEFINE all == s \o ImagesIn(c, s, a)
  <2>1. all \in Seq(Shape(t)) /\ Len(all) = Len(s) + Len(s)
    <3> DEFINE more == ImagesIn(c, s, a)
    <3>1. more \in Seq(Shape(t)) /\ Len(more) = Len(s)
      BY <1>0, ImagesInIs
    <3> HIDE DEF more, s
    <3>2. s \o more \in Seq(Shape(t)) /\ Len(s \o more) = Len(s) + Len(s)
      BY <1>0, <3>1, EndToEnd
    <3> QED BY <3>2 DEF more
  <2> HIDE DEF all
  <2>2. Len(all) <= MAX_SEGMENTS
    BY <1>0, <1>3, <2>1 DEF OverBudget
  <2> QED BY <1>3, <2>1, <2>2, CheckedIn DEF all
<1> QED BY <1>2, <1>3, ReflectedInIs

LEMMA ReflectedMade ==
    ASSUME NEW t \in {1, 3}, NEW s \in Lists(t), NEW c \in GXCards
    PROVE  Reflected(c, s) \in [ok : BOOLEAN, segs : Lists(t)]
<1>1. Made(s) \in [ok : BOOLEAN, segs : Lists(t)] /\ 1 \in Axes /\ 2 \in Axes /\ 3 \in Axes
  BY DEF Made, Axes
<1> QED BY <1>1, ReflectedInMade DEF Reflected

\* The map of a GS.
ScaleMap(c) == [p \in Points |-> Times(c.by, p)]

LEMMA ScaledMade ==
    ASSUME NEW t \in {1, 3}, NEW s \in Lists(t), NEW c \in GSCards
    PROVE  /\ Scaled(c, s) \in [ok : BOOLEAN, segs : Lists(t)]
           /\ Scaled(c, s).ok /\ Len(Scaled(c, s).segs) = Len(s)
           /\ \A i \in DOMAIN s : /\ Scaled(c, s).segs[i].tag = s[i].tag
                                  /\ Scaled(c, s).segs[i].from = ScaleMap(c)[s[i].from]
                                  /\ Scaled(c, s).segs[i].to = ScaleMap(c)[s[i].to]
<1> DEFINE f == ScaleMap(c)
           One(x) == [x EXCEPT !.from = Times(c.by, @), !.to = Times(c.by, @),
                               !.radius = @ * c.by]
           z == [i \in DOMAIN s |-> One(s[i])]
<1>0. s \in Seq(Shape(t)) /\ Len(s) \in Nat /\ Len(s) <= MAX_SEGMENTS /\ c.by \in Nat \ {0}
  BY DEF Lists, GSCards
<1>1. f \in Rigid /\ \A p \in Points : Times(c.by, p) = f[p]
  BY <1>0, ScaleRigid DEF ScaleMap
<1>2. ASSUME NEW x \in Shape(t)
      PROVE  /\ One(x) \in Shape(t) /\ One(x).tag = x.tag
             /\ One(x).from = f[x.from] /\ One(x).to = f[x.to]
  <2>1. x.from \in Points /\ x.to \in Points /\ x.from # x.to /\ Spans(x.from, x.to, t)
    BY DEF Shape
  <2>2. /\ f[x.from] \in Points /\ f[x.to] \in Points /\ f[x.from] # f[x.to]
        /\ Spans(f[x.from], f[x.to], t)
    BY <1>1, <2>1 DEF Rigid, Keeps
  <2>3. x.radius * c.by \in Int
    BY <1>0 DEF Shape
  <2> DEFINE y == [x EXCEPT !.from = f[x.from], !.to = f[x.to], !.radius = x.radius * c.by]
  <2>4. One(x) = y
    BY <1>1, <2>1
  <2>5. /\ y \in [tag : Nat, from : Points, to : Points, radius : Int, part : {"whole"},
                  num : {0}, abs : {0}, parent : {0}]
        /\ y.from = f[x.from] /\ y.to = f[x.to] /\ y.tag = x.tag
    <3> HIDE DEF f
    <3> QED BY <2>2, <2>3 DEF Shape
  <2> HIDE DEF y
  <2>6. y \in Shape(t)
    BY <2>2, <2>5 DEF Shape
  <2> HIDE DEF f, One
  <2> QED BY <2>4, <2>5, <2>6
<1> HIDE DEF f, One
<1>3. /\ z \in Seq(Shape(t)) /\ Len(z) = Len(s) /\ DOMAIN z = DOMAIN s
      /\ \A i \in DOMAIN s : z[i] = One(s[i])
  <2>1. z \in [1 .. Len(s) -> Shape(t)]
    BY <1>0, <1>2
  <2> QED BY <1>0, <2>1
<1>4. Scaled(c, s) = [ok |-> TRUE, segs |-> z]
  BY DEF Scaled, Made, One
<1> HIDE DEF z
<1>5. \A i \in DOMAIN s : /\ z[i].tag = s[i].tag /\ z[i].from = f[s[i].from]
                          /\ z[i].to = f[s[i].to]
  BY <1>0, <1>2, <1>3
<1>6. z \in Lists(t)
  BY <1>0, <1>3, <1>5 DEF Lists
<1> QED BY <1>3, <1>4, <1>5, <1>6 DEF f

\* A card of a deck, and what it makes.
DeckCards(t) == WireCards(t) \cup GMCards \cup GRCards \cup GXCards \cup GSCards

LEMMA ExpandedIs ==
    ASSUME NEW t, NEW s, NEW c \in DeckCards(t)
    PROVE  \/ c \in WireCards(t) /\ c.card = "GW" /\ Expanded(c, s) = Wire(c, s)
           \/ c \in GMCards /\ c.card = "GM" /\ Expanded(c, s) = Moved(c, s)
           \/ c \in GRCards /\ c.card = "GR" /\ Expanded(c, s) = Rotated(c, s)
           \/ c \in GXCards /\ c.card = "GX" /\ Expanded(c, s) = Reflected(c, s)
           \/ c \in GSCards /\ c.card = "GS" /\ Expanded(c, s) = Scaled(c, s)
<1>1. CASE c \in WireCards(t)
  <2>1. c.card = "GW"
    BY <1>1 DEF WireCards
  <2> QED BY <1>1, <2>1 DEF Expanded
<1>2. CASE c \in GMCards
  <2>1. c.card = "GM"
    BY <1>2 DEF GMCards
  <2> QED BY <1>2, <2>1 DEF Expanded
<1>3. CASE c \in GRCards
  <2>1. c.card = "GR"
    BY <1>3 DEF GRCards
  <2> QED BY <1>3, <2>1 DEF Expanded
<1>4. CASE c \in GXCards
  <2>1. c.card = "GX"
    BY <1>4 DEF GXCards
  <2> QED BY <1>4, <2>1 DEF Expanded
<1>5. CASE c \in GSCards
  <2>1. c.card = "GS"
    BY <1>5 DEF GSCards
  <2> QED BY <1>5, <2>1 DEF Expanded
<1> QED BY <1>1, <1>2, <1>3, <1>4, <1>5 DEF DeckCards

LEMMA ExpandedMade ==
    ASSUME NEW t \in {1, 3}, NEW s \in Lists(t), NEW c \in DeckCards(t)
    PROVE  Expanded(c, s) \in [ok : BOOLEAN, segs : Lists(t)]
BY ExpandedIs, WireMade, MovedMade, RotatedMade, ReflectedMade, ScaledMade

LEMMA CardsOfDecks ==
    ASSUME NEW c \in Wires \cup Moves
    PROVE  c \in DeckCards(3) /\ Finer(c) \in DeckCards(1)
<1>1. CASE c \in Moves
  <2>1. c \in GMCards \cup GRCards \cup GXCards \cup GSCards
    BY <1>1, DeckAssumption DEF GMCards, GRCards, GXCards, GSCards
  <2>2. c.card # "GW"
    BY <2>1 DEF GMCards, GRCards, GXCards, GSCards
  <2> QED BY <2>1, <2>2 DEF DeckCards, Finer
<1>2. CASE c \in Wires
  <2>1. /\ c \in [card : {"GW"}, tag : 0 .. MaxTag, at : Points, step : Points, n : Nat,
                  radius : Int]
        /\ \A a \in Axes : c.step[a] \in Int /\ c.step[a] % 3 = 0
    <3>1. /\ c \in [card : {"GW"}, tag : 0 .. MaxTag, at : Points, step : Points, n : Nat,
                    radius : Int]
          /\ \A a \in Axes : c.step[a] % 3 = 0
      BY <1>2, DeckAssumption
    <3> QED BY <3>1 DEF Points
  <2>2. \A a \in Axes : c.step[a] \in Multiples(3) /\ c.step[a] \div 3 \in Multiples(1)
                        /\ c.step[a] \div 3 \in Int /\ 3 * (c.step[a] \div 3) = c.step[a]
    <3> TAKE a \in Axes
    <3>1. \A x \in Int : x % 3 = 0 => x = 3 * (x \div 3) /\ x \div 3 \in Int
      OBVIOUS
    <3>2. c.step[a] = 3 * (c.step[a] \div 3) /\ c.step[a] \div 3 \in Int
      BY <2>1, <3>1
    <3>3. c.step[a] \div 3 = 1 * (c.step[a] \div 3)
      BY <3>2
    <3> QED BY <3>2, <3>3 DEF Multiples
  <2>3. c \in WireCards(3)
    BY <2>1, <2>2 DEF WireCards
  <2>4. Finer(c) \in WireCards(1)
    <3>1. CASE c.n > 0
      <4> DEFINE d == [c EXCEPT !.n = 3 * c.n, !.step = [a \in Axes |-> c.step[a] \div 3]]
      <4>1. Finer(c) = d
        BY <2>1, <3>1 DEF Finer, Factor
      <4>2. [a \in Axes |-> c.step[a] \div 3] \in Points
        BY <2>2 DEF Points
      <4>3. 3 * c.n \in Nat
        BY <2>1
      <4>4. /\ d \in [card : {"GW"}, tag : 0 .. MaxTag, at : Points, step : Points, n : Nat,
                      radius : Int]
            /\ \A a \in Axes : d.step[a] = c.step[a] \div 3
        BY <2>1, <4>2, <4>3
      <4> HIDE DEF d
      <4>5. d \in WireCards(1)
        BY <2>2, <4>4 DEF WireCards
      <4> QED BY <4>1, <4>5
    <3>2. CASE ~(c.n > 0)
      <4>1. Finer(c) = c
        BY <3>2 DEF Finer
      <4>2. \A a \in Axes : c.step[a] \in Multiples(1)
        <5> TAKE a \in Axes
        <5>1. c.step[a] = 1 * c.step[a]
          BY <2>1
        <5> QED BY <2>1, <5>1 DEF Multiples
      <4> QED BY <2>1, <4>1, <4>2 DEF WireCards
    <3> QED BY <3>1, <3>2
  <2> QED BY <2>3, <2>4 DEF DeckCards
<1> QED BY <1>1, <1>2
-----------------------------------------------------------------------------
(* Numbering, and refining                                                 *)

\* The segments of every list: whole, or thirds of one.
Parts == {"whole", "centre", "flank"}
Piece ==
    {x \in [tag : 0 .. MaxTag, from : Points, to : Points, radius : Int, part : Parts,
            num : Nat, abs : Nat, parent : Nat] : x.from # x.to}

\* Of the segments a list counts, those with one tag up to a place, and all of them.
OfTag(s, i, tag) == {j \in 1 .. i : Counts(s[j]) /\ s[j].tag = tag}
OfAny(s, i) == {j \in 1 .. i : Counts(s[j])}

LEMMA CountedIn ==
    ASSUME NEW n \in Nat, NEW B, B \subseteq 1 .. n
    PROVE  IsFiniteSet(B) /\ Cardinality(B) \in Nat /\ Cardinality(B) <= n
<1>1. IsFiniteSet(1 .. n) /\ Cardinality(1 .. n) = n
  <2> DEFINE i == 1
  <2>1. i \in Int /\ n \in Int /\ (IF i > n THEN 0 ELSE n - i + 1) = n
    OBVIOUS
  <2> HIDE DEF i
  <2>2. IsFiniteSet(i .. n) /\ Cardinality(i .. n) = n
    BY <2>1, FS_Interval
  <2> QED BY <2>2 DEF i
<1>2. IsFiniteSet(B) /\ Cardinality(B) <= n
  BY <1>1, FS_Subset
<1> QED BY <1>2, FS_CardinalityType

LEMMA NumberedIs ==
    ASSUME NEW s \in Seq(Piece)
    PROVE  /\ Numbered(s) \in Seq(Piece) /\ Len(Numbered(s)) = Len(s)
           /\ \A i \in 1 .. Len(s) :
                LET x == s[i]
                    y == Numbered(s)[i]
                IN /\ y.tag = x.tag /\ y.from = x.from /\ y.to = x.to
                   /\ y.radius = x.radius /\ y.part = x.part
                   /\ x.part # "flank" => /\ y.num = Cardinality(OfTag(s, i, x.tag))
                                          /\ y.abs = Cardinality(OfAny(s, i))
                                          /\ y.parent = x.parent
                   /\ x.part = "flank" =>
                        /\ y.num = x.num /\ y.abs = x.abs
                        /\ y.parent = Cardinality(OfTag(s, i, x.tag))
                             + IF i < Len(s) /\ s[i + 1].part = "centre" THEN 1 ELSE 0
<1> DEFINE n == Len(s)
           Of(i) == IF Counts(s[i])
                    THEN [s[i] EXCEPT !.num = Cardinality(OfTag(s, i, s[i].tag)),
                                      !.abs = Cardinality(OfAny(s, i))]
                    ELSE [s[i] EXCEPT !.parent = Cardinality(OfTag(s, i, s[i].tag))
                             + IF i < Len(s) /\ s[i + 1].part = "centre" THEN 1 ELSE 0]
           z == [i \in DOMAIN s |-> Of(i)]
<1>0. n \in Nat /\ DOMAIN s = 1 .. n /\ \A i \in 1 .. n : s[i] \in Piece
  OBVIOUS
<1>1. Numbered(s) = z
  BY DEF Numbered, OfTag, OfAny
<1>2. ASSUME NEW i \in 1 .. n
      PROVE  /\ Cardinality(OfTag(s, i, s[i].tag)) \in Nat /\ Cardinality(OfAny(s, i)) \in Nat
             /\ Cardinality(OfTag(s, i, s[i].tag))
                  + (IF i < Len(s) /\ s[i + 1].part = "centre" THEN 1 ELSE 0) \in Nat
  <2>1. OfTag(s, i, s[i].tag) \subseteq 1 .. i /\ OfAny(s, i) \subseteq 1 .. i /\ i \in Nat
    BY <1>0 DEF OfTag, OfAny
  <2>2. Cardinality(OfTag(s, i, s[i].tag)) \in Nat /\ Cardinality(OfAny(s, i)) \in Nat
    BY <2>1, CountedIn
  <2> QED BY <2>2
<1>3. ASSUME NEW i \in 1 .. n
      PROVE  /\ Of(i) \in Piece /\ Of(i).tag = s[i].tag /\ Of(i).from = s[i].from
             /\ Of(i).to = s[i].to /\ Of(i).radius = s[i].radius /\ Of(i).part = s[i].part
             /\ s[i].part # "flank" => /\ Of(i).num = Cardinality(OfTag(s, i, s[i].tag))
                                       /\ Of(i).abs = Cardinality(OfAny(s, i))
                                       /\ Of(i).parent = s[i].parent
             /\ s[i].part = "flank" =>
                  /\ Of(i).num = s[i].num /\ Of(i).abs = s[i].abs
                  /\ Of(i).parent = Cardinality(OfTag(s, i, s[i].tag))
                       + IF i < Len(s) /\ s[i + 1].part = "centre" THEN 1 ELSE 0
  <2> DEFINE x == s[i]
             num == Cardinality(OfTag(s, i, s[i].tag))
             abs == Cardinality(OfAny(s, i))
             parent == num + IF i < Len(s) /\ s[i + 1].part = "centre" THEN 1 ELSE 0
  <2>1. x \in Piece /\ num \in Nat /\ abs \in Nat /\ parent \in Nat
    BY <1>0, <1>2
  <2>2. Of(i) = IF x.part # "flank" THEN [x EXCEPT !.num = num, !.abs = abs]
                                    ELSE [x EXCEPT !.parent = parent]
    BY DEF Counts
  <2> HIDE DEF x, num, abs, parent, Of
  <2>3. CASE x.part # "flank"
    <3>1. Of(i) = [x EXCEPT !.num = num, !.abs = abs]
      BY <2>2, <2>3
    <3>2. /\ Of(i) \in Piece /\ Of(i).tag = x.tag /\ Of(i).from = x.from /\ Of(i).to = x.to
          /\ Of(i).radius = x.radius /\ Of(i).part = x.part
          /\ Of(i).num = num /\ Of(i).abs = abs /\ Of(i).parent = x.parent
      BY <2>1, <3>1 DEF Piece
    <3> QED BY <2>3, <3>2 DEF x, num, abs, parent
  <2>4. CASE x.part = "flank"
    <3>1. Of(i) = [x EXCEPT !.parent = parent]
      BY <2>2, <2>4
    <3>2. /\ Of(i) \in Piece /\ Of(i).tag = x.tag /\ Of(i).from = x.from /\ Of(i).to = x.to
          /\ Of(i).radius = x.radius /\ Of(i).part = x.part
          /\ Of(i).num = x.num /\ Of(i).abs = x.abs /\ Of(i).parent = parent
      BY <2>1, <3>1 DEF Piece
    <3> QED BY <2>4, <3>2 DEF x, num, abs, parent
  <2> QED BY <2>3, <2>4
<1> HIDE DEF Of
<1>4. z \in [1 .. n -> Piece] /\ \A i \in 1 .. n : z[i] = Of(i)
  BY <1>0, <1>3
<1> HIDE DEF z
<1>5. z \in Seq(Piece) /\ Len(z) = n
  BY <1>0, <1>4, IntervalSeq
<1> QED BY <1>1, <1>3, <1>4, <1>5

LEMMA ListsArePieces ==
    ASSUME NEW t \in {1, 3}, NEW s \in Lists(t)
    PROVE  s \in Seq(Piece) /\ Len(s) \in Nat /\ \A i \in 1 .. Len(s) : s[i].part = "whole"
<1>0. s \in Seq(Shape(t)) /\ Len(s) \in Nat /\ DOMAIN s = 1 .. Len(s)
  BY DEF Lists
<1>1. ASSUME NEW i \in 1 .. Len(s) PROVE s[i] \in Piece /\ s[i].part = "whole"
  <2>1. s[i] \in Shape(t) /\ s[i].tag <= MaxTag /\ MaxTag \in Nat
    BY <1>0, DeckAssumption DEF Lists
  <2>2. s[i].tag \in 0 .. MaxTag /\ s[i].part = "whole"
    BY <2>1 DEF Shape
  <2>3. s[i] \in [tag : 0 .. MaxTag, from : Points, to : Points, radius : Int, part : Parts,
                  num : Nat, abs : Nat, parent : Nat]
    BY <2>1, <2>2 DEF Shape, Parts
  <2>4. s[i].from # s[i].to
    BY <2>1 DEF Shape
  <2> QED BY <2>2, <2>3, <2>4 DEF Piece
<1>2. s \in [1 .. Len(s) -> Piece]
  <2>1. s = [i \in 1 .. Len(s) |-> s[i]]
    BY <1>0
  <2> QED BY <1>1, <2>1
<1> QED BY <1>0, <1>1, <1>2, IntervalSeq

\* The thirds of a segment whose span is a multiple of 3.
LEMMA ThirdsAre ==
    ASSUME NEW x \in Piece, Spans(x.from, x.to, 3)
    PROVE  /\ Thirds(x) \in Seq(Piece) /\ Len(Thirds(x)) = 3
           /\ \A k \in 1 .. 3 :
                LET y == Thirds(x)[k]
                IN /\ y.tag = x.tag /\ y.radius = x.radius
                   /\ y.num = x.num /\ y.abs = x.abs /\ y.parent = x.parent
                   /\ y.part = IF k = 2 THEN "centre" ELSE "flank"
                   /\ OnThird(x.from, x.to, y.from, k - 1) /\ OnThird(x.from, x.to, y.to, k)
<1> DEFINE third == [a \in Axes |-> Along(x)[a] \div 3]
           At(k) == Plus(x.from, Times(k, third))
           Third(k, part) == [x EXCEPT !.from = At(k), !.to = At(k + 1), !.part = part]
<1>0. x.from \in Points /\ x.to \in Points /\ x.from # x.to
  BY DEF Piece
<1>1. Along(x) \in Points /\ \A a \in Axes : Along(x)[a] = x.to[a] - x.from[a]
  BY <1>0, MinusOf DEF Along
<1>2. third \in Points /\ \A a \in Axes : third[a] \in Int /\ 3 * third[a] = x.to[a] - x.from[a]
  <2>1. ASSUME NEW a \in Axes
        PROVE  Along(x)[a] \div 3 \in Int /\ 3 * (Along(x)[a] \div 3) = x.to[a] - x.from[a]
    <3>1. PICK m \in Int : x.to[a] - x.from[a] = 3 * m
      BY DEF Spans, Multiples
    <3>2. (3 * m) \div 3 = m
      OBVIOUS
    <3> QED BY <1>1, <3>1, <3>2
  <2> QED BY <2>1 DEF Points
<1> HIDE DEF third
<1>3. \A k \in Int : At(k) \in Points /\ \A a \in Axes : At(k)[a] = x.from[a] + k * third[a]
  <2> TAKE k \in Int
  <2>1. Times(k, third) \in Points /\ \A a \in Axes : Times(k, third)[a] = k * third[a]
    BY <1>2, TimesOf
  <2> QED BY <1>0, <2>1, PlusOf
<1> HIDE DEF At
<1>4. \A k \in 0 .. 3 : OnThird(x.from, x.to, At(k), k)
  <2> SUFFICES ASSUME NEW k \in 0 .. 3, NEW a \in Axes
               PROVE  3 * At(k)[a] = (3 - k) * x.from[a] + k * x.to[a]
    BY DEF OnThird
  <2> DEFINE f == x.from[a]
             g == x.to[a]
             h == third[a]
  <2>1. f \in Int /\ g \in Int /\ h \in Int /\ 3 * h = g - f
    BY <1>0, <1>2 DEF Points
  <2>2. At(k)[a] = f + k * h
    BY <1>3
  <2> HIDE DEF f, g, h
  <2>3. 3 * (f + k * h) = (3 - k) * f + k * g
    <3>1. k = 0 \/ k = 1 \/ k = 2 \/ k = 3
      OBVIOUS
    <3> QED BY <2>1, <3>1
  <2> QED BY <2>2, <2>3 DEF f, g
<1>5. \A k \in 0 .. 2 : At(k) # At(k + 1)
  <2> TAKE k \in 0 .. 2
  <2>1. PICK a \in Axes : x.to[a] # x.from[a]
    BY <1>0, SamePoint DEF Axes
  <2>2. third[a] # 0 /\ third[a] \in Int /\ x.from[a] \in Int /\ x.to[a] \in Int
    BY <1>0, <1>2, <2>1 DEF Points
  <2>3. \A f, h \in Int : h # 0 => f + k * h # f + (k + 1) * h
    <3>1. k = 0 \/ k = 1 \/ k = 2
      OBVIOUS
    <3> QED BY <3>1
  <2>4. At(k)[a] # At(k + 1)[a]
    <3> DEFINE f == x.from[a]
               h == third[a]
    <3>1. k \in Int /\ k + 1 \in Int
      OBVIOUS
    <3>2. At(k)[a] = f + k * h /\ At(k + 1)[a] = f + (k + 1) * h
      BY <1>3, <3>1
    <3>3. f \in Int /\ h \in Int /\ h # 0
      BY <2>2
    <3> HIDE DEF f, h
    <3>4. f + k * h # f + (k + 1) * h
      BY <2>3, <3>3
    <3> QED BY <3>2, <3>4
  <2> QED BY <2>4
<1>6. ASSUME NEW k \in 0 .. 2, NEW part \in Parts
      PROVE  /\ Third(k, part) \in Piece /\ Third(k, part).tag = x.tag
             /\ Third(k, part).radius = x.radius /\ Third(k, part).num = x.num
             /\ Third(k, part).abs = x.abs /\ Third(k, part).parent = x.parent
             /\ Third(k, part).part = part
             /\ Third(k, part).from = At(k) /\ Third(k, part).to = At(k + 1)
  <2>1. At(k) \in Points /\ At(k + 1) \in Points /\ At(k) # At(k + 1)
    <3>1. k \in Int /\ k + 1 \in Int
      OBVIOUS
    <3> QED BY <1>3, <1>5, <3>1
  <2> QED BY <2>1 DEF Piece
<1>7. Thirds(x) = <<Third(0, "flank"), Third(1, "centre"), Third(2, "flank")>>
  BY DEF Thirds, third, At
<1> HIDE DEF Third
<1>8. "flank" \in Parts /\ "centre" \in Parts /\ 0 \in 0 .. 2 /\ 1 \in 0 .. 2 /\ 2 \in 0 .. 2
      /\ 0 + 1 = 1 /\ 1 + 1 = 2 /\ 2 + 1 = 3
  BY DEF Parts
<1>9. Thirds(x) \in Seq(Piece) /\ Len(Thirds(x)) = 3
  BY <1>6, <1>7, <1>8
<1>10. Thirds(x)[1] = Third(0, "flank") /\ Thirds(x)[2] = Third(1, "centre")
       /\ Thirds(x)[3] = Third(2, "flank")
  BY <1>7
<1>11. ASSUME NEW k \in 1 .. 3
       PROVE  LET y == Thirds(x)[k]
              IN /\ y.tag = x.tag /\ y.radius = x.radius
                 /\ y.num = x.num /\ y.abs = x.abs /\ y.parent = x.parent
                 /\ y.part = IF k = 2 THEN "centre" ELSE "flank"
                 /\ OnThird(x.from, x.to, y.from, k - 1) /\ OnThird(x.from, x.to, y.to, k)
  <2>1. CASE k = 1
    BY <1>4, <1>6, <1>8, <1>10, <2>1
  <2>2. CASE k = 2
    BY <1>4, <1>6, <1>8, <1>10, <2>2
  <2>3. CASE k = 3
    BY <1>4, <1>6, <1>8, <1>10, <2>3
  <2> QED BY <2>1, <2>2, <2>3
<1> QED BY <1>9, <1>11

\* The parts a refined list has of each segment.
PartsOf(s, free) == [i \in DOMAIN s |-> IF i \in free THEN Thirds(s[i]) ELSE <<s[i]>>]

LEMMA PartsAre ==
    ASSUME NEW s \in Lists(3), NEW free
    PROVE  /\ PartsOf(s, free) \in Seq(Seq(Piece)) /\ Len(PartsOf(s, free)) = Len(s)
           /\ \A i \in 1 .. Len(s) : /\ s[i] \in Piece /\ Spans(s[i].from, s[i].to, 3)
                                     /\ i \in free => PartsOf(s, free)[i] = Thirds(s[i])
                                     /\ i \notin free => PartsOf(s, free)[i] = <<s[i]>>
<1>0. s \in Seq(Piece) /\ Len(s) \in Nat /\ DOMAIN s = 1 .. Len(s)
  BY ListsArePieces
<1>1. \A i \in 1 .. Len(s) : s[i] \in Piece /\ Spans(s[i].from, s[i].to, 3)
  BY <1>0 DEF Lists, Shape
<1>2. \A i \in 1 .. Len(s) : Thirds(s[i]) \in Seq(Piece) /\ <<s[i]>> \in Seq(Piece)
  BY <1>1, ThirdsAre
<1> DEFINE q == PartsOf(s, free)
<1>3. q \in [1 .. Len(s) -> Seq(Piece)]
  BY <1>0, <1>2 DEF PartsOf
<1>4. \A i \in 1 .. Len(s) : /\ i \in free => q[i] = Thirds(s[i])
                             /\ i \notin free => q[i] = <<s[i]>>
  BY <1>0 DEF PartsOf
<1> HIDE DEF q
<1>5. q \in Seq(Seq(Piece)) /\ Len(q) = Len(s)
  BY <1>0, <1>3, IntervalSeq
<1> QED BY <1>1, <1>4, <1>5 DEF q

LEMMA RefinedIs ==
    ASSUME NEW s \in Lists(3), NEW free
    PROVE  /\ Refined(s, free) \in Seq(Piece)
           /\ \E place \in [0 .. Len(s) -> Nat] :
                Placed(place, PartsOf(s, free), Refined(s, free))
<1>1. Refined(s, free) = FlattenSeq(PartsOf(s, free))
  BY DEF Refined, PartsOf
<1> DEFINE q == PartsOf(s, free)
<1>2. q \in Seq(Seq(Piece)) /\ Len(q) = Len(s)
  BY PartsAre
<1> HIDE DEF q
<1>3. FlattenSeq(q) \in Seq(Piece) /\ \E place \in [0 .. Len(q) -> Nat] : Placed(place, q, FlattenSeq(q))
  BY <1>2, FlatPlaces
<1> QED BY <1>1, <1>2, <1>3 DEF q
-----------------------------------------------------------------------------
(* The invariant of the deck                                               *)

\* What Hallen solves, before the decks it refuses are told apart.
SolvedFor == Numbered(Refined(segs, Free(segs, ground # "free")))

Built ==
    /\ segs # <<>> /\ ~Overlapping(segs)
    /\ deck = Numbered(segs) /\ hallen \in {<<>>, SolvedFor}
    /\ contact = Contact(SolvedFor, ground = "pec")
    /\ contact.kind # "none" => hallen = SolvedFor
    /\ \E f \in Lists(1) : fine = Numbered(f)

DeckInv ==
    /\ cards \in Seq(Wires \cup Moves) /\ Len(cards) <= MaxCards
    /\ ex \in Seq(Sources) /\ Len(ex) <= MaxSources
    /\ stage \in {"reading", "refused", "built"} /\ ground \in Grounds
    /\ segs \in Lists(3)
    /\ stage # "built" => fine \in Lists(1) /\ deck = <<>> /\ hallen = <<>>
    /\ stage = "built" => Built

LEMMA NoneListed ==
    ASSUME NEW t \in {1, 3}
    PROVE  <<>> \in Lists(t)
BY DeckAssumption DEF Lists

LEMMA DeckInvInit == Init => DeckInv
<1> SUFFICES ASSUME Init PROVE DeckInv
  OBVIOUS
<1>1. <<>> \in Lists(1) /\ <<>> \in Lists(3)
  BY NoneListed
<1> QED BY <1>1, DeckAssumption DEF Init, DeckInv

\* The refined deck of the next card.
FinerNext(c) == IF fine = <<>> /\ segs # <<>> THEN <<>> ELSE Expanded(Finer(c), fine).segs

LEMMA CardKeepsInv ==
    ASSUME DeckInv, NEW c \in Wires \cup Moves, GeometryCard(c)
    PROVE  DeckInv'
<1>0. /\ cards \in Seq(Wires \cup Moves) /\ segs \in Lists(3) /\ fine \in Lists(1)
      /\ Len(cards) \in Nat /\ Len(cards) < MaxCards /\ MaxCards \in Nat
      /\ stage = "reading" /\ deck = <<>> /\ hallen = <<>>
      /\ cards' = Append(cards, c) /\ UNCHANGED <<ground, deck, hallen, contact, ex>>
  BY DeckAssumption DEF DeckInv, GeometryCard
<1>1. c \in DeckCards(3) /\ Finer(c) \in DeckCards(1)
  BY CardsOfDecks
<1>2. Expanded(c, segs) \in [ok : BOOLEAN, segs : Lists(3)]
  BY <1>0, <1>1, ExpandedMade
<1>3. FinerNext(c) \in Lists(1)
  <2>1. Expanded(Finer(c), fine) \in [ok : BOOLEAN, segs : Lists(1)]
    BY <1>0, <1>1, ExpandedMade
  <2>2. <<>> \in Lists(1)
    BY NoneListed
  <2> QED BY <2>1, <2>2 DEF FinerNext
<1>4. \/ segs' = Expanded(c, segs).segs /\ fine' = FinerNext(c) /\ stage' = stage
      \/ stage' = "refused" /\ segs' = segs /\ fine' = fine
  BY DEF GeometryCard, FinerNext
<1>5. segs' \in Lists(3) /\ fine' \in Lists(1) /\ stage' \in {"reading", "refused"}
  BY <1>0, <1>2, <1>3, <1>4
<1>6. cards' \in Seq(Wires \cup Moves) /\ Len(cards') <= MaxCards
  BY <1>0
<1> QED BY <1>0, <1>5, <1>6 DEF DeckInv

LEMMA EndKeepsInv ==
    ASSUME DeckInv, GeometryEnd
    PROVE  DeckInv'
<1>0. /\ segs \in Lists(3) /\ fine \in Lists(1) /\ stage = "reading" /\ deck = <<>>
      /\ hallen = <<>> /\ cards' = cards /\ segs' = segs /\ ground' = ground /\ ex' = ex
  BY DEF DeckInv, GeometryEnd
<1>1. CASE stage' = "refused" /\ UNCHANGED <<deck, hallen, fine, contact>>
  BY <1>0, <1>1 DEF DeckInv
<1>2. CASE /\ ~(segs = <<>> \/ Overlapping(segs)) /\ stage' = "built" /\ deck' = Numbered(segs)
           /\ fine' = Numbered(fine) /\ contact' = Contact(SolvedFor, ground = "pec")
           /\ hallen' = IF /\ Contact(SolvedFor, ground = "pec").kind = "none"
                           /\ OneSegmentRunTopology(SolvedFor)
                        THEN <<>> ELSE SolvedFor
  <2>1. SolvedFor' = SolvedFor
    BY <1>0 DEF SolvedFor
  <2>2. hallen' \in {<<>>, SolvedFor} /\ (contact'.kind # "none" => hallen' = SolvedFor)
    BY <1>2
  <2>3. Built'
    BY <1>0, <1>2, <2>1, <2>2 DEF Built
  <2> QED BY <1>0, <1>2, <2>3 DEF DeckInv
<1> QED BY <1>1, <1>2 DEF GeometryEnd, SolvedFor

LEMMA ExciteKeepsInv ==
    ASSUME DeckInv, NEW x \in Sources, Excite(x)
    PROVE  DeckInv'
<1>0. /\ UNCHANGED <<cards, segs, fine, stage, ground, deck, hallen, contact>>
      /\ ex' = Append(ex, x) /\ ex \in Seq(Sources) /\ Len(ex) < MaxSources /\ MaxSources \in Nat
  BY DeckAssumption DEF DeckInv, Excite
<1>1. Built' = Built
  BY <1>0 DEF Built, SolvedFor
<1>2. ex' \in Seq(Sources) /\ Len(ex') <= MaxSources
  BY <1>0
<1> QED BY <1>0, <1>1, <1>2 DEF DeckInv

LEMMA DeckInvStep == DeckInv /\ [Next]_vars => DeckInv'
<1> SUFFICES ASSUME DeckInv, [Next]_vars PROVE DeckInv'
  OBVIOUS
<1>1. CASE UNCHANGED vars
  <2>1. Built' = Built
    BY <1>1 DEF vars, Built, SolvedFor
  <2> QED BY <1>1, <2>1 DEF vars, DeckInv
<1>2. CASE \E c \in Wires \cup Moves : GeometryCard(c)
  BY <1>2, CardKeepsInv
<1>3. CASE GeometryEnd
  BY <1>3, EndKeepsInv
<1>4. CASE \E x \in Sources : Excite(x)
  BY <1>4, ExciteKeepsInv
<1> QED BY <1>1, <1>2, <1>3, <1>4 DEF Next

\* The deck is built in every state as its cards say, and nothing after its GE changes it.
THEOREM DeckInvariant == Spec => []DeckInv
<1>1. Init => DeckInv
  BY DeckInvInit
<1>2. DeckInv /\ [Next]_vars => DeckInv'
  BY DeckInvStep
<1> QED BY <1>1, <1>2, PTL DEF Spec

\* A deck's own segments are numbered 1, 2, 3...
LEMMA DeckNumbers ==
    ASSUME NEW t \in {1, 3}, NEW s \in Lists(t), NEW i \in 1 .. Len(s)
    PROVE  /\ OfAny(s, i) = 1 .. i /\ Numbered(s)[i].abs = i
           /\ OfTag(s, i, s[i].tag) = {j \in 1 .. i : s[j].tag = s[i].tag}
           /\ Numbered(s)[i].num = Cardinality(OfTag(s, i, s[i].tag))
<1>1. s \in Seq(Piece) /\ Len(s) \in Nat /\ \A j \in 1 .. Len(s) : s[j].part = "whole"
  BY ListsArePieces
<1>2. \A j \in 1 .. i : Counts(s[j])
  BY <1>1 DEF Counts
<1>3. OfAny(s, i) = 1 .. i /\ OfTag(s, i, s[i].tag) = {j \in 1 .. i : s[j].tag = s[i].tag}
  BY <1>2 DEF OfAny, OfTag
<1>4. Cardinality(1 .. i) = i
  <2> DEFINE k == 1
  <2>1. k \in Int /\ i \in Int /\ (IF k > i THEN 0 ELSE i - k + 1) = i
    BY <1>1
  <2> HIDE DEF k
  <2>2. Cardinality(k .. i) = i
    BY <2>1, FS_Interval
  <2> QED BY <2>2 DEF k
<1>5. /\ Numbered(s)[i].num = Cardinality(OfTag(s, i, s[i].tag))
      /\ Numbered(s)[i].abs = Cardinality(OfAny(s, i))
  BY <1>1, NumberedIs
<1> QED BY <1>3, <1>4, <1>5

LEMMA HallenIsPieces ==
    ASSUME DeckInv
    PROVE  hallen \in Seq(Piece)
<1>0. segs \in Lists(3) /\ segs \in Seq(Piece) /\ Len(segs) \in Nat
  BY ListsArePieces DEF DeckInv, Lists
<1>1. hallen = <<>> \/ hallen = SolvedFor
  BY DEF DeckInv, Built
<1>2. SolvedFor \in Seq(Piece)
  <2> DEFINE r == Refined(segs, Free(segs, ground # "free"))
  <2>1. r \in Seq(Piece)
    BY <1>0, RefinedIs
  <2> HIDE DEF r
  <2>2. Numbered(r) \in Seq(Piece)
    BY <2>1, NumberedIs
  <2> QED BY <2>2 DEF r, SolvedFor
<1>3. <<>> \in Seq(Piece)
  OBVIOUS
<1> QED BY <1>1, <1>2, <1>3

LEMMA DeckInvTypes == DeckInv => TypeOK
<1> SUFFICES ASSUME DeckInv PROVE TypeOK
  OBVIOUS
<1>0. segs \in Lists(3) /\ Len(segs) <= MAX_SEGMENTS /\ segs \in Seq(Piece) /\ Len(segs) \in Nat
  BY ListsArePieces DEF DeckInv, Lists
<1>1. /\ stage # "built" => fine \in Seq(Piece) /\ Len(fine) <= MAX_SEGMENTS
      /\ stage = "built" => \E f \in Lists(1) : fine = Numbered(f)
  BY ListsArePieces DEF DeckInv, Lists, Built
<1>2. fine \in Seq(Piece) /\ Len(fine) <= MAX_SEGMENTS
  <2>1. CASE stage # "built"
    BY <1>1, <2>1
  <2>2. CASE stage = "built"
    <3>1. PICK f \in Lists(1) : fine = Numbered(f)
      BY <1>1, <2>2
    <3>2. f \in Seq(Piece) /\ Len(f) <= MAX_SEGMENTS
      BY ListsArePieces DEF Lists
    <3> QED BY <3>1, <3>2, NumberedIs
  <2> QED BY <2>1, <2>2
<1>3. deck \in Seq(Piece) /\ (stage = "built" => deck = Numbered(segs) /\ Len(deck) = Len(segs))
  <2>1. stage # "built" => deck = <<>>
    BY DEF DeckInv
  <2>2. stage = "built" => deck = Numbered(segs)
    BY DEF DeckInv, Built
  <2>3. Numbered(segs) \in Seq(Piece) /\ Len(Numbered(segs)) = Len(segs)
    BY <1>0, NumberedIs
  <2>4. <<>> \in Seq(Piece)
    OBVIOUS
  <2> QED BY <2>1, <2>2, <2>3, <2>4
<1>4. hallen \in Seq(Piece)
  BY HallenIsPieces
<1>5. ASSUME NEW s \in {segs, fine, deck, hallen}, NEW i \in DOMAIN s
      PROVE  /\ DOMAIN s[i] = {"tag", "from", "to", "radius", "part", "num", "abs", "parent"}
             /\ s[i].tag \in 0 .. MaxTag /\ s[i].part \in {"whole", "centre", "flank"}
             /\ s[i].from # s[i].to
  <2>1. s \in Seq(Piece)
    BY <1>0, <1>2, <1>3, <1>4
  <2>2. s[i] \in Piece
    BY <2>1
  <2> QED BY <2>2 DEF Piece, Parts
<1>6. stage = "built" =>
        Len(deck) = Len(segs) /\ [i \in DOMAIN deck |-> deck[i].abs] = [i \in DOMAIN deck |-> i]
  <2> SUFFICES ASSUME stage = "built", NEW i \in DOMAIN deck PROVE deck[i].abs = i
    BY <1>3
  <2>1. i \in 1 .. Len(segs) /\ deck = Numbered(segs)
    BY <1>3
  <2> QED BY <1>0, <2>1, DeckNumbers
<1>7. /\ Len(cards) <= MaxCards /\ stage \in {"reading", "refused", "built"} /\ ground \in Grounds
      /\ stage # "built" => deck = <<>> /\ hallen = <<>>
  BY DEF DeckInv
<1> QED BY <1>0, <1>2, <1>5, <1>6, <1>7 DEF TypeOK

\* Every list of segments is within its budget, its segments have two ends, and a deck's
\* numbers are its own (build_unnumbered, check_segment_budget, number, geometry.rs).
THEOREM DeckTypes == Spec => []TypeOK
BY DeckInvariant, DeckInvTypes, PTL
-----------------------------------------------------------------------------
(* What drives a deck                                                      *)

EntryOf == [idx : Nat, role : {"gap", "current"}, cards : SUBSET Nat,
            overridden : SUBSET (Nat \X Nat)]

\* The cards of one type on one segment, of the first m; and the last of some.
OnUpto(s, x, i, kind, m) == {c \in 1 .. m : x[c].kind = kind /\ IndexOf(s, x[c]) = i}
LastIn(S) == {c \in S : \A k \in S : k <= c}

LEMMA LastOfNumbers ==
    ASSUME NEW n \in Nat, NEW S, S \subseteq 1 .. n, S # {}
    PROVE  \E m \in S : LastIn(S) = {m} /\ \A k \in S : k <= m
<1> DEFINE R == {n - k : k \in S}
<1>1. R \subseteq Nat /\ R # {}
  <2>1. \A k \in S : k \in Int /\ n - k \in Nat
    OBVIOUS
  <2>2. R \subseteq Nat
    BY <2>1
  <2>3. PICK k \in S : TRUE
    OBVIOUS
  <2>4. n - k \in R
    OBVIOUS
  <2> QED BY <2>2, <2>4
<1> HIDE DEF R
<1>2. PICK l \in R : \A k \in R : l <= k
  BY <1>1, LeastOf
<1>3. PICK m \in S : l = n - m
  BY DEF R
<1>4. \A k \in S : k <= m
  <2> TAKE k \in S
  <2>1. n - k \in R /\ k \in Int /\ m \in Int
    BY DEF R
  <2>2. n - m <= n - k
    BY <1>2, <1>3, <2>1
  <2> QED BY <2>1, <2>2
<1>5. LastIn(S) = {m}
  <2>1. m \in LastIn(S)
    BY <1>4 DEF LastIn
  <2>2. \A c \in LastIn(S) : c = m
    <3> TAKE c \in LastIn(S)
    <3>1. m <= c /\ c <= m /\ c \in Int /\ m \in Int
      BY <1>4 DEF LastIn
    <3> QED BY <3>1
  <2> QED BY <2>1, <2>2
<1> QED BY <1>4, <1>5

\* The entries after the first m cards: one a driven segment, with its type-5 cards and
\* its last type-0 card; every other type-0 card is overridden; and a row a current.
ReadUpto(s, x, e, m) ==
    /\ e \in Seq(EntryOf)
    /\ \A d, f \in DOMAIN e :
         e[d].role = "gap" /\ e[f].role = "gap" /\ e[d].idx = e[f].idx => d = f
    /\ \A d \in DOMAIN e : e[d].role = "gap" =>
         LET slopes == OnUpto(s, x, e[d].idx, "slope", m)
             gaps == OnUpto(s, x, e[d].idx, "gap", m)
         IN /\ e[d].cards = slopes \cup LastIn(gaps)
            /\ \A c : (\E k : <<c, k>> \in e[d].overridden) <=> c \in gaps \ LastIn(gaps)
    /\ \A d \in DOMAIN e : e[d].role = "current" =>
         \E c \in 1 .. m : /\ x[c].kind = "current" /\ e[d].cards = {c}
                           /\ e[d].idx = IndexOf(s, x[c]) /\ e[d].overridden = {}
    /\ \A d, f \in DOMAIN e :
         e[d].role = "current" /\ e[f].role = "current" /\ e[d].cards = e[f].cards => d = f
    /\ \A c \in 1 .. m : x[c].kind \in {"gap", "slope"} =>
         \E d \in DOMAIN e : e[d].role = "gap" /\ e[d].idx = IndexOf(s, x[c])
    /\ \A c \in 1 .. m : x[c].kind = "current" =>
         \E d \in DOMAIN e : e[d].role = "current" /\ e[d].cards = {c}

LEMMA OnUptoNext ==
    ASSUME NEW s, NEW x, NEW i, NEW kind, NEW m \in Nat \ {0}
    PROVE  /\ x[m].kind = kind /\ IndexOf(s, x[m]) = i =>
                OnUpto(s, x, i, kind, m) = OnUpto(s, x, i, kind, m - 1) \cup {m}
           /\ ~(x[m].kind = kind /\ IndexOf(s, x[m]) = i) =>
                OnUpto(s, x, i, kind, m) = OnUpto(s, x, i, kind, m - 1)
           /\ OnUpto(s, x, i, kind, m - 1) \subseteq 1 .. m - 1
<1>1. \A c : c \in 1 .. m <=> c \in 1 .. m - 1 \/ c = m
  OBVIOUS
<1> QED BY <1>1 DEF OnUpto

LEMMA OnUptoAdds ==
    ASSUME NEW s, NEW x, NEW i, NEW kind, NEW m \in Nat \ {0}, x[m].kind = kind, IndexOf(s, x[m]) = i
    PROVE  OnUpto(s, x, i, kind, m) = OnUpto(s, x, i, kind, m - 1) \cup {m}
BY OnUptoNext

LEMMA OnUptoStays ==
    ASSUME NEW s, NEW x, NEW i, NEW kind, NEW m \in Nat \ {0}, x[m].kind # kind \/ IndexOf(s, x[m]) # i
    PROVE  OnUpto(s, x, i, kind, m) = OnUpto(s, x, i, kind, m - 1)
BY OnUptoNext

\* A later type-0 card is the last.
LEMMA NewLast ==
    ASSUME NEW m \in Nat \ {0}, NEW S, S \subseteq 1 .. m - 1
    PROVE  LastIn(S \cup {m}) = {m}
<1>1. \A k \in S : k \in Int /\ k <= m /\ ~(m <= k)
  OBVIOUS
<1>2. m \in LastIn(S \cup {m})
  <2>1. m <= m
    OBVIOUS
  <2> QED BY <1>1, <2>1 DEF LastIn
<1>3. \A c \in LastIn(S \cup {m}) : c = m
  BY <1>1 DEF LastIn
<1> QED BY <1>2, <1>3

\* A wave drives no segment.
LEMMA WaveRead ==
    ASSUME NEW s, NEW x, NEW e, NEW m \in Nat \ {0}, ReadUpto(s, x, e, m - 1),
           x[m].kind = "wave"
    PROVE  ReadUpto(s, x, e, m) /\ ReadCard(s, x, e, m) = e
<1>1. ReadCard(s, x, e, m) = e
  BY DEF ReadCard, Drives
<1>2. \A i : \A kind \in {"gap", "slope"} : OnUpto(s, x, i, kind, m) = OnUpto(s, x, i, kind, m - 1)
  BY OnUptoNext
<1>3. \A c : c \in 1 .. m <=> c \in 1 .. m - 1 \/ c = m
  OBVIOUS
<1> QED BY <1>1, <1>2, <1>3 DEF ReadUpto

LEMMA SameEntry ==
    ASSUME NEW a \in EntryOf, NEW b \in EntryOf, a.idx = b.idx, a.role = b.role,
           a.cards = b.cards, a.overridden = b.overridden
    PROVE  a = b
BY DEF EntryOf

\* A current source is a row of its own.
LEMMA CurrentRead ==
    ASSUME NEW s, NEW x, NEW e, NEW m \in Nat \ {0}, ReadUpto(s, x, e, m - 1),
           x[m].kind = "current", IndexOf(s, x[m]) \in Nat
    PROVE  ReadUpto(s, x, ReadCard(s, x, e, m), m)
<1> DEFINE i == IndexOf(s, x[m])
           new == [idx |-> i, role |-> "current", cards |-> {m}, overridden |-> {}]
           z == Append(e, new)
           n == Len(e)
<1>1. ReadCard(s, x, e, m) = z
  <2> DEFINE a == Entry(i, "current")
             b == [a EXCEPT !.cards = {m}]
  <2>1. b = new
    <3>1. /\ a \in EntryOf /\ a.idx = i /\ a.role = "current" /\ a.cards = {}
          /\ a.overridden = {}
      BY DEF Entry, EntryOf
    <3> HIDE DEF a
    <3>2. /\ b \in EntryOf /\ b.idx = i /\ b.role = "current" /\ b.cards = {m}
          /\ b.overridden = {}
      BY <3>1 DEF EntryOf
    <3>3. /\ new \in EntryOf /\ new.idx = i /\ new.role = "current" /\ new.cards = {m}
          /\ new.overridden = {}
      BY DEF EntryOf
    <3> HIDE DEF b, new
    <3> QED BY <3>2, <3>3, SameEntry
  <2>2. ReadCard(s, x, e, m) = Append(e, [Entry(i, "current") EXCEPT !.cards = {m}])
    BY DEF ReadCard, Drives
  <2> QED BY <2>1, <2>2
<1>2. e \in Seq(EntryOf) /\ n \in Nat /\ DOMAIN e = 1 .. n /\ new \in EntryOf
  BY DEF ReadUpto, EntryOf
<1>3. /\ new.role = "current" /\ new.idx = i /\ new.cards = {m} /\ new.overridden = {}
  OBVIOUS
<1> HIDE DEF new
<1>4. /\ z \in Seq(EntryOf) /\ DOMAIN z = 1 .. n + 1 /\ z[n + 1] = new
      /\ \A d \in 1 .. n : z[d] = e[d]
  BY <1>2
<1> HIDE DEF z
<1>5. \A d \in DOMAIN z : d = n + 1 \/ d \in DOMAIN e
  BY <1>2, <1>4
<1>6. \A j : \A kind \in {"gap", "slope"} : OnUpto(s, x, j, kind, m) = OnUpto(s, x, j, kind, m - 1)
  BY OnUptoNext
<1>7. \A c : c \in 1 .. m <=> c \in 1 .. m - 1 \/ c = m
  OBVIOUS
<1>8. \A d \in DOMAIN e : d \in DOMAIN z /\ z[d] = e[d]
  BY <1>2, <1>4
<1>9. n + 1 \in DOMAIN z
  BY <1>2, <1>4
<1>10. \A d \in DOMAIN z : z[d].role = "gap" => d \in DOMAIN e /\ z[d] = e[d]
  BY <1>3, <1>4, <1>5, <1>8
<1>11. \A d, f \in DOMAIN z :
         z[d].role = "gap" /\ z[f].role = "gap" /\ z[d].idx = z[f].idx => d = f
  BY <1>10 DEF ReadUpto
<1>12. \A d \in DOMAIN z : z[d].role = "gap" =>
         LET slopes == OnUpto(s, x, z[d].idx, "slope", m)
             gaps == OnUpto(s, x, z[d].idx, "gap", m)
         IN /\ z[d].cards = slopes \cup LastIn(gaps)
            /\ \A c : (\E k : <<c, k>> \in z[d].overridden) <=> c \in gaps \ LastIn(gaps)
  <2> SUFFICES ASSUME NEW d \in DOMAIN e, e[d].role = "gap"
               PROVE  LET slopes == OnUpto(s, x, e[d].idx, "slope", m)
                          gaps == OnUpto(s, x, e[d].idx, "gap", m)
                      IN /\ e[d].cards = slopes \cup LastIn(gaps)
                         /\ \A c : (\E k : <<c, k>> \in e[d].overridden)
                                     <=> c \in gaps \ LastIn(gaps)
    BY <1>10
  <2> QED BY <1>6 DEF ReadUpto
<1>13. ASSUME NEW d \in DOMAIN e, e[d].role = "current"
       PROVE  \E c \in 1 .. m - 1 : /\ x[c].kind = "current" /\ e[d].cards = {c}
                                    /\ e[d].idx = IndexOf(s, x[c]) /\ e[d].overridden = {}
  BY <1>13 DEF ReadUpto
<1>14. \A d \in DOMAIN z : z[d].role = "current" =>
         \E c \in 1 .. m : /\ x[c].kind = "current" /\ z[d].cards = {c}
                           /\ z[d].idx = IndexOf(s, x[c]) /\ z[d].overridden = {}
  <2> SUFFICES ASSUME NEW d \in DOMAIN z, z[d].role = "current"
               PROVE  \E c \in 1 .. m : /\ x[c].kind = "current" /\ z[d].cards = {c}
                                        /\ z[d].idx = IndexOf(s, x[c]) /\ z[d].overridden = {}
    OBVIOUS
  <2>1. CASE d = n + 1
    BY <1>3, <1>4, <1>7, <2>1
  <2>2. CASE d \in DOMAIN e
    BY <1>7, <1>8, <1>13, <2>2
  <2> QED BY <1>5, <2>1, <2>2
<1>15. \A d \in DOMAIN e : e[d].role = "current" => e[d].cards # {m}
  <2> SUFFICES ASSUME NEW d \in DOMAIN e, e[d].role = "current", e[d].cards = {m} PROVE FALSE
    OBVIOUS
  <2>1. PICK c \in 1 .. m - 1 : e[d].cards = {c}
    BY <1>13
  <2> QED BY <2>1
<1>16. \A d, f \in DOMAIN z :
         z[d].role = "current" /\ z[f].role = "current" /\ z[d].cards = z[f].cards => d = f
  <2> SUFFICES ASSUME NEW d \in DOMAIN z, NEW f \in DOMAIN z, z[d].role = "current",
                      z[f].role = "current", z[d].cards = z[f].cards
               PROVE  d = f
    OBVIOUS
  <2>1. CASE d = n + 1 /\ f \in DOMAIN e
    BY <1>3, <1>4, <1>8, <1>15, <2>1
  <2>2. CASE f = n + 1 /\ d \in DOMAIN e
    BY <1>3, <1>4, <1>8, <1>15, <2>2
  <2>3. CASE d \in DOMAIN e /\ f \in DOMAIN e
    BY <1>8, <2>3 DEF ReadUpto
  <2> QED BY <1>5, <2>1, <2>2, <2>3
<1>17. \A c \in 1 .. m : x[c].kind \in {"gap", "slope"} =>
         \E d \in DOMAIN z : z[d].role = "gap" /\ z[d].idx = IndexOf(s, x[c])
  <2> SUFFICES ASSUME NEW c \in 1 .. m - 1, x[c].kind \in {"gap", "slope"}
               PROVE  \E d \in DOMAIN z : z[d].role = "gap" /\ z[d].idx = IndexOf(s, x[c])
    BY <1>7
  <2>1. PICK d \in DOMAIN e : e[d].role = "gap" /\ e[d].idx = IndexOf(s, x[c])
    BY DEF ReadUpto
  <2> QED BY <1>8, <2>1
<1>18. \A c \in 1 .. m : x[c].kind = "current" =>
         \E d \in DOMAIN z : z[d].role = "current" /\ z[d].cards = {c}
  <2> SUFFICES ASSUME NEW c \in 1 .. m, x[c].kind = "current"
               PROVE  \E d \in DOMAIN z : z[d].role = "current" /\ z[d].cards = {c}
    OBVIOUS
  <2>1. CASE c = m
    BY <1>3, <1>4, <1>9, <2>1
  <2>2. CASE c \in 1 .. m - 1
    <3>1. PICK d \in DOMAIN e : e[d].role = "current" /\ e[d].cards = {c}
      BY <2>2 DEF ReadUpto
    <3> QED BY <1>8, <3>1
  <2> QED BY <1>7, <2>1, <2>2
<1>19. ReadUpto(s, x, z, m)
  BY <1>4, <1>11, <1>12, <1>14, <1>16, <1>17, <1>18 DEF ReadUpto
<1> QED BY <1>1, <1>19

\* The first type-0 or type-5 card of a segment opens its entry.
LEMMA OpeningRead ==
    ASSUME NEW s, NEW x, NEW e, NEW m \in Nat \ {0}, ReadUpto(s, x, e, m - 1),
           x[m].kind \in {"gap", "slope"}, IndexOf(s, x[m]) \in Nat,
           \A d \in DOMAIN e : ~(e[d].idx = IndexOf(s, x[m]) /\ e[d].role = "gap")
    PROVE  ReadUpto(s, x, ReadCard(s, x, e, m), m)
<1> DEFINE i == IndexOf(s, x[m])
           new == [idx |-> i, role |-> "gap", cards |-> {m}, overridden |-> {}]
           z == Append(e, new)
           n == Len(e)
<1>2. e \in Seq(EntryOf) /\ n \in Nat /\ DOMAIN e = 1 .. n /\ new \in EntryOf
  BY DEF ReadUpto, EntryOf
<1>1. ReadCard(s, x, e, m) = z
  <2> DEFINE at == {d \in DOMAIN e : e[d].idx = i /\ e[d].role = "gap"}
             into == Append(e, Entry(i, "gap"))
             d == Len(into)
             lost == {k \in into[d].cards : Assigns(x[m]) /\ Assigns(x[k])}
             y == [into EXCEPT ![d].cards = (@ \ lost) \cup {m},
                               ![d].overridden = @ \cup (lost \X {m})]
  <2>1. at = {}
    OBVIOUS
  <2>2. ReadCard(s, x, e, m) = y
    BY <2>1 DEF ReadCard, Drives
  <2>3. /\ Entry(i, "gap") = [idx |-> i, role |-> "gap", cards |-> {}, overridden |-> {}]
        /\ Entry(i, "gap") \in EntryOf
    BY DEF Entry, EntryOf
  <2>4. /\ into \in Seq(EntryOf) /\ Len(into) = n + 1 /\ d = n + 1 /\ DOMAIN into = 1 .. n + 1
        /\ into[d] = Entry(i, "gap") /\ \A f \in 1 .. n : into[f] = e[f]
    BY <1>2, <2>3
  <2>5. lost = {}
    BY <2>3, <2>4
  <2> HIDE DEF lost, into
  <2>6. y = [into EXCEPT ![d] = new]
    <3> DEFINE a == into[d]
               b == [a EXCEPT !.cards = (@ \ lost) \cup {m}, !.overridden = @ \cup (lost \X {m})]
    <3>1. b = new
      <4>1. /\ a \in EntryOf /\ a.idx = i /\ a.role = "gap" /\ a.cards = {}
            /\ a.overridden = {}
        BY <2>3, <2>4
      <4> HIDE DEF a
      <4>2. /\ b \in EntryOf /\ b.idx = i /\ b.role = "gap" /\ b.cards = {m}
            /\ b.overridden = {}
        <5>1. (a.cards \ lost) \cup {m} = {m} /\ a.overridden \cup (lost \X {m}) = {}
          BY <2>5, <4>1
        <5> QED BY <4>1, <5>1 DEF EntryOf
      <4>3. /\ new \in EntryOf /\ new.idx = i /\ new.role = "gap" /\ new.cards = {m}
            /\ new.overridden = {}
        BY DEF EntryOf
      <4> HIDE DEF b, new
      <4> QED BY <4>2, <4>3, SameEntry
    <3>2. y = [into EXCEPT ![d] = [into[d] EXCEPT !.cards = (@ \ lost) \cup {m},
                                                  !.overridden = @ \cup (lost \X {m})]]
      OBVIOUS
    <3> HIDE DEF y, new
    <3> QED BY <3>1, <3>2
  <2> HIDE DEF y, new
  <2>7. y \in Seq(EntryOf) /\ Len(y) = n + 1 /\ y[n + 1] = new /\ \A f \in 1 .. n : y[f] = e[f]
    BY <1>2, <2>4, <2>6
  <2>8. z \in Seq(EntryOf) /\ Len(z) = n + 1 /\ z[n + 1] = new /\ \A f \in 1 .. n : z[f] = e[f]
    BY <1>2
  <2>9. y = z
    <3> HIDE DEF z
    <3>1. \A f \in 1 .. n + 1 : f = n + 1 \/ f \in 1 .. n
      BY <1>2
    <3>2. \A f \in 1 .. n + 1 : y[f] = z[f]
      BY <2>7, <2>8, <3>1
    <3> QED BY <2>7, <2>8, <3>2
  <2> QED BY <2>2, <2>9
<1>3. /\ new.role = "gap" /\ new.idx = i /\ new.cards = {m} /\ new.overridden = {}
  OBVIOUS
<1> HIDE DEF new
<1>4. /\ z \in Seq(EntryOf) /\ DOMAIN z = 1 .. n + 1 /\ z[n + 1] = new
      /\ \A d \in 1 .. n : z[d] = e[d]
  BY <1>2
<1> HIDE DEF z
<1>5. \A d \in DOMAIN z : d = n + 1 \/ d \in DOMAIN e
  BY <1>2, <1>4
<1>7. \A c : c \in 1 .. m <=> c \in 1 .. m - 1 \/ c = m
  OBVIOUS
<1>8. \A d \in DOMAIN e : d \in DOMAIN z /\ z[d] = e[d]
  BY <1>2, <1>4
<1>9. n + 1 \in DOMAIN z
  BY <1>2, <1>4
<1>10. \A d \in DOMAIN e : e[d].role = "gap" => e[d].idx # i
  OBVIOUS
<1>11. \A d, f \in DOMAIN z :
         z[d].role = "gap" /\ z[f].role = "gap" /\ z[d].idx = z[f].idx => d = f
  <2> SUFFICES ASSUME NEW d \in DOMAIN z, NEW f \in DOMAIN z, z[d].role = "gap",
                      z[f].role = "gap", z[d].idx = z[f].idx
               PROVE  d = f
    OBVIOUS
  <2>1. CASE d = n + 1 /\ f \in DOMAIN e
    BY <1>3, <1>4, <1>8, <1>10, <2>1
  <2>2. CASE f = n + 1 /\ d \in DOMAIN e
    BY <1>3, <1>4, <1>8, <1>10, <2>2
  <2>3. CASE d \in DOMAIN e /\ f \in DOMAIN e
    BY <1>8, <2>3 DEF ReadUpto
  <2> QED BY <1>5, <2>1, <2>2, <2>3
<1>12. \A c \in 1 .. m - 1 : x[c].kind \in {"gap", "slope"} => IndexOf(s, x[c]) # i
  <2> SUFFICES ASSUME NEW c \in 1 .. m - 1, x[c].kind \in {"gap", "slope"}
               PROVE  IndexOf(s, x[c]) # i
    OBVIOUS
  <2>1. PICK d \in DOMAIN e : e[d].role = "gap" /\ e[d].idx = IndexOf(s, x[c])
    BY DEF ReadUpto
  <2> QED BY <1>10, <2>1
<1>13. OnUpto(s, x, i, "gap", m - 1) = {} /\ OnUpto(s, x, i, "slope", m - 1) = {}
  BY <1>12 DEF OnUpto
<1>14. ASSUME NEW d \in DOMAIN z, z[d].role = "gap"
       PROVE  LET slopes == OnUpto(s, x, z[d].idx, "slope", m)
                  gaps == OnUpto(s, x, z[d].idx, "gap", m)
              IN /\ z[d].cards = slopes \cup LastIn(gaps)
                 /\ \A c : (\E k : <<c, k>> \in z[d].overridden) <=> c \in gaps \ LastIn(gaps)
  <2>1. CASE d = n + 1
    <3>1. z[d].idx = i /\ z[d].cards = {m} /\ z[d].overridden = {}
      BY <1>3, <1>4, <2>1
    <3>2. LastIn({}) = {} /\ LastIn({m}) = {m}
      <4>1. m <= m
        OBVIOUS
      <4> QED BY <4>1 DEF LastIn
    <3>3. CASE x[m].kind = "gap"
      <4>1. OnUpto(s, x, i, "gap", m) = {m} /\ OnUpto(s, x, i, "slope", m) = {}
        BY <1>13, <3>3, OnUptoNext
      <4> QED BY <3>1, <3>2, <4>1
    <3>4. CASE x[m].kind = "slope"
      <4>1. OnUpto(s, x, i, "gap", m) = {} /\ OnUpto(s, x, i, "slope", m) = {m}
        BY <1>13, <3>4, OnUptoNext
      <4> QED BY <3>1, <3>2, <4>1
    <3> QED BY <3>3, <3>4
  <2>2. CASE d \in DOMAIN e
    <3>1. z[d] = e[d] /\ e[d].role = "gap" /\ e[d].idx # i
      BY <1>8, <1>10, <1>14, <2>2
    <3>2. \A kind \in {"gap", "slope"} :
            OnUpto(s, x, e[d].idx, kind, m) = OnUpto(s, x, e[d].idx, kind, m - 1)
      BY <3>1, OnUptoStays
    <3>3. LET slopes == OnUpto(s, x, e[d].idx, "slope", m - 1)
              gaps == OnUpto(s, x, e[d].idx, "gap", m - 1)
          IN /\ e[d].cards = slopes \cup LastIn(gaps)
             /\ \A c : (\E k : <<c, k>> \in e[d].overridden) <=> c \in gaps \ LastIn(gaps)
      BY <2>2, <3>1 DEF ReadUpto
    <3> QED BY <3>1, <3>2, <3>3
  <2> QED BY <1>5, <2>1, <2>2
<1>15. \A d \in DOMAIN z : z[d].role = "current" => d \in DOMAIN e /\ z[d] = e[d]
  BY <1>3, <1>4, <1>5, <1>8
<1>16. \A d \in DOMAIN z : z[d].role = "current" =>
         \E c \in 1 .. m : /\ x[c].kind = "current" /\ z[d].cards = {c}
                           /\ z[d].idx = IndexOf(s, x[c]) /\ z[d].overridden = {}
  <2> SUFFICES ASSUME NEW d \in DOMAIN e, e[d].role = "current"
               PROVE  \E c \in 1 .. m : /\ x[c].kind = "current" /\ e[d].cards = {c}
                                        /\ e[d].idx = IndexOf(s, x[c]) /\ e[d].overridden = {}
    BY <1>15
  <2>1. PICK c \in 1 .. m - 1 : /\ x[c].kind = "current" /\ e[d].cards = {c}
                                /\ e[d].idx = IndexOf(s, x[c]) /\ e[d].overridden = {}
    BY DEF ReadUpto
  <2> QED BY <1>7, <2>1
<1>17. \A d, f \in DOMAIN z :
         z[d].role = "current" /\ z[f].role = "current" /\ z[d].cards = z[f].cards => d = f
  <2>1. \A d, f \in DOMAIN e :
          e[d].role = "current" /\ e[f].role = "current" /\ e[d].cards = e[f].cards => d = f
    BY DEF ReadUpto
  <2> HIDE DEF z
  <2> QED BY <1>15, <2>1
<1>18. \A c \in 1 .. m : x[c].kind \in {"gap", "slope"} =>
         \E d \in DOMAIN z : z[d].role = "gap" /\ z[d].idx = IndexOf(s, x[c])
  <2> SUFFICES ASSUME NEW c \in 1 .. m, x[c].kind \in {"gap", "slope"}
               PROVE  \E d \in DOMAIN z : z[d].role = "gap" /\ z[d].idx = IndexOf(s, x[c])
    OBVIOUS
  <2>1. CASE c = m
    BY <1>3, <1>4, <1>9, <2>1
  <2>2. CASE c \in 1 .. m - 1
    <3>1. PICK d \in DOMAIN e : e[d].role = "gap" /\ e[d].idx = IndexOf(s, x[c])
      BY <2>2 DEF ReadUpto
    <3> QED BY <1>8, <3>1
  <2> QED BY <1>7, <2>1, <2>2
<1>19. \A c \in 1 .. m : x[c].kind = "current" =>
         \E d \in DOMAIN z : z[d].role = "current" /\ z[d].cards = {c}
  <2> SUFFICES ASSUME NEW c \in 1 .. m - 1, x[c].kind = "current"
               PROVE  \E d \in DOMAIN z : z[d].role = "current" /\ z[d].cards = {c}
    BY <1>7
  <2>1. PICK d \in DOMAIN e : e[d].role = "current" /\ e[d].cards = {c}
    BY DEF ReadUpto
  <2> QED BY <1>8, <2>1
<1>20. ReadUpto(s, x, z, m)
  BY <1>4, <1>11, <1>14, <1>16, <1>17, <1>18, <1>19 DEF ReadUpto
<1> QED BY <1>1, <1>20

\* A later one reads into it.
LEMMA AddingRead ==
    ASSUME NEW s, NEW x, NEW e, NEW m \in Nat \ {0}, ReadUpto(s, x, e, m - 1),
           x[m].kind \in {"gap", "slope"}, IndexOf(s, x[m]) \in Nat,
           \E d \in DOMAIN e : e[d].idx = IndexOf(s, x[m]) /\ e[d].role = "gap"
    PROVE  ReadUpto(s, x, ReadCard(s, x, e, m), m)
<1> DEFINE i == IndexOf(s, x[m])
           at == {d \in DOMAIN e : e[d].idx = i /\ e[d].role = "gap"}
           d == CHOOSE d \in at : TRUE
           lost == {k \in e[d].cards : Assigns(x[m]) /\ Assigns(x[k])}
           z == [e EXCEPT ![d].cards = (@ \ lost) \cup {m},
                          ![d].overridden = @ \cup (lost \X {m})]
           slopes == OnUpto(s, x, i, "slope", m - 1)
           gaps == OnUpto(s, x, i, "gap", m - 1)
<1>1. ReadCard(s, x, e, m) = z
  <2>1. at # {}
    OBVIOUS
  <2> QED BY <2>1 DEF ReadCard, Drives
<1>2. e \in Seq(EntryOf) /\ d \in DOMAIN e /\ e[d].idx = i /\ e[d].role = "gap"
  <2>1. d \in at
    OBVIOUS
  <2>2. e \in Seq(EntryOf)
    BY DEF ReadUpto
  <2> HIDE DEF d
  <2> QED BY <2>1, <2>2
<1> HIDE DEF d
<1>3. /\ e[d].cards = slopes \cup LastIn(gaps)
      /\ \A c : (\E k : <<c, k>> \in e[d].overridden) <=> c \in gaps \ LastIn(gaps)
  <2>1. LET sl == OnUpto(s, x, e[d].idx, "slope", m - 1)
            ga == OnUpto(s, x, e[d].idx, "gap", m - 1)
        IN /\ e[d].cards = sl \cup LastIn(ga)
           /\ \A c : (\E k : <<c, k>> \in e[d].overridden) <=> c \in ga \ LastIn(ga)
    BY <1>2 DEF ReadUpto
  <2> QED BY <1>2, <2>1
<1>4. /\ z \in Seq(EntryOf) /\ DOMAIN z = DOMAIN e
      /\ z[d].idx = i /\ z[d].role = "gap"
      /\ z[d].cards = (e[d].cards \ lost) \cup {m}
      /\ z[d].overridden = e[d].overridden \cup (lost \X {m})
      /\ \A f \in DOMAIN e : f # d => z[f] = e[f]
  <2> DEFINE a == e[d]
             b == [a EXCEPT !.cards = (@ \ lost) \cup {m}, !.overridden = @ \cup (lost \X {m})]
             y == [e EXCEPT ![d] = b]
  <2>1. a \in EntryOf /\ lost \subseteq a.cards /\ a.idx = i /\ a.role = "gap"
    BY <1>2
  <2>2. z = y
    OBVIOUS
  <2>3. lost \X {m} \subseteq Nat \X Nat
    BY <2>1 DEF EntryOf
  <2>4. (a.cards \ lost) \cup {m} = b.cards /\ a.overridden \cup (lost \X {m}) = b.overridden
        /\ b \in EntryOf /\ b.idx = i /\ b.role = "gap"
    <3> HIDE DEF lost, a
    <3> QED BY <2>1, <2>3 DEF EntryOf
  <2> HIDE DEF b, lost
  <2>5. y \in Seq(EntryOf) /\ DOMAIN y = DOMAIN e /\ y[d] = b
        /\ \A f \in DOMAIN e : f # d => y[f] = e[f]
    BY <1>2, <2>4
  <2> HIDE DEF y, z
  <2> QED BY <2>2, <2>4, <2>5
<1> HIDE DEF z
<1>5. \A c : c \in 1 .. m <=> c \in 1 .. m - 1 \/ c = m
  OBVIOUS
<1>6. gaps \subseteq 1 .. m - 1 /\ slopes \subseteq 1 .. m - 1
  BY OnUptoNext
<1>7. LET sl == OnUpto(s, x, i, "slope", m)
          ga == OnUpto(s, x, i, "gap", m)
      IN /\ z[d].cards = sl \cup LastIn(ga)
         /\ \A c : (\E k : <<c, k>> \in z[d].overridden) <=> c \in ga \ LastIn(ga)
  <2>1. CASE x[m].kind = "slope"
    <3>1. OnUpto(s, x, i, "slope", m) = slopes \cup {m} /\ OnUpto(s, x, i, "gap", m) = gaps
      <4> DEFINE Slope == "slope"
                 Gap == "gap"
      <4>1. x[m].kind = Slope /\ x[m].kind # Gap /\ IndexOf(s, x[m]) = i
        BY <2>1
      <4> HIDE DEF i, Slope, Gap
      <4>2. OnUpto(s, x, i, Slope, m) = OnUpto(s, x, i, Slope, m - 1) \cup {m}
        BY <4>1, OnUptoAdds
      <4>3. OnUpto(s, x, i, Gap, m) = OnUpto(s, x, i, Gap, m - 1)
        BY <4>1, OnUptoStays
      <4> QED BY <4>2, <4>3 DEF Slope, Gap
    <3>2. lost = {}
      BY <2>1 DEF Assigns
    <3>3. lost \X {m} = {}
      BY <3>2
    <3> QED BY <1>3, <1>4, <3>1, <3>2, <3>3
  <2>2. CASE x[m].kind = "gap"
    <3>1. OnUpto(s, x, i, "slope", m) = slopes /\ OnUpto(s, x, i, "gap", m) = gaps \cup {m}
      <4> DEFINE Slope == "slope"
                 Gap == "gap"
      <4>1. x[m].kind = Gap /\ x[m].kind # Slope /\ IndexOf(s, x[m]) = i
        BY <2>2
      <4> HIDE DEF i, Slope, Gap
      <4>2. OnUpto(s, x, i, Slope, m) = OnUpto(s, x, i, Slope, m - 1)
        BY <4>1, OnUptoStays
      <4>3. OnUpto(s, x, i, Gap, m) = OnUpto(s, x, i, Gap, m - 1) \cup {m}
        BY <4>1, OnUptoAdds
      <4> QED BY <4>2, <4>3 DEF Slope, Gap
    <3>2. LastIn(gaps \cup {m}) = {m}
      BY <1>6, NewLast
    <3>3. lost = LastIn(gaps)
      <4>1. \A k \in slopes : x[k].kind = "slope"
        BY DEF OnUpto
      <4>2. \A k \in LastIn(gaps) : x[k].kind = "gap"
        BY DEF OnUpto, LastIn
      <4>3. Assigns(x[m]) /\ (\A k \in slopes : ~Assigns(x[k])) /\ \A k \in LastIn(gaps) : Assigns(x[k])
        BY <2>2, <4>1, <4>2 DEF Assigns
      <4>4. lost = {k \in slopes \cup LastIn(gaps) : Assigns(x[m]) /\ Assigns(x[k])}
        BY <1>3
      <4> HIDE DEF slopes, gaps, lost
      <4> QED BY <4>3, <4>4
    <3>4. z[d].cards = slopes \cup {m}
      <4>1. \A k \in slopes : k \notin LastIn(gaps)
        BY DEF OnUpto, LastIn
      <4> QED BY <1>3, <1>4, <3>3, <4>1
    <3>5. ASSUME NEW c
          PROVE  (\E k : <<c, k>> \in z[d].overridden) <=> c \in (gaps \cup {m}) \ {m}
      <4>1. (\E k : <<c, k>> \in lost \X {m}) <=> c \in lost
        <5> HIDE DEF lost
        <5> QED OBVIOUS
      <4>2. (\E k : <<c, k>> \in z[d].overridden) <=>
              (\E k : <<c, k>> \in e[d].overridden) \/ (\E k : <<c, k>> \in lost \X {m})
        <5> HIDE DEF lost
        <5> QED BY <1>4
      <4>3. (\E k : <<c, k>> \in z[d].overridden) <=> c \in gaps
        <5>1. LastIn(gaps) \subseteq gaps
          BY DEF LastIn
        <5> HIDE DEF lost, gaps
        <5> QED BY <1>3, <3>3, <4>1, <4>2, <5>1
      <4>4. m \notin gaps
        BY <1>6
      <4> QED BY <4>3, <4>4
    <3> QED BY <3>1, <3>2, <3>4, <3>5
  <2> QED BY <2>1, <2>2
<1>8. \A f \in DOMAIN e : e[f].role = "gap" /\ f # d => e[f].idx # i
  BY <1>2 DEF ReadUpto
<1>9. \A f \in DOMAIN e : z[f].idx = e[f].idx /\ z[f].role = e[f].role
  BY <1>2, <1>4
<1>10. \A f \in DOMAIN e : e[f].role = "current" => z[f] = e[f]
  BY <1>2, <1>4
<1>11. \A f, g \in DOMAIN z :
         z[f].role = "gap" /\ z[g].role = "gap" /\ z[f].idx = z[g].idx => f = g
  <2>1. \A f, g \in DOMAIN e :
          e[f].role = "gap" /\ e[g].role = "gap" /\ e[f].idx = e[g].idx => f = g
    BY DEF ReadUpto
  <2> SUFFICES ASSUME NEW f \in DOMAIN e, NEW g \in DOMAIN e, z[f].role = "gap",
                      z[g].role = "gap", z[f].idx = z[g].idx
               PROVE  f = g
    BY <1>4
  <2>2. e[f].role = "gap" /\ e[g].role = "gap" /\ e[f].idx = e[g].idx
    BY <1>9
  <2> QED BY <2>1, <2>2
<1>12. ASSUME NEW f \in DOMAIN z, z[f].role = "gap"
       PROVE  LET sl == OnUpto(s, x, z[f].idx, "slope", m)
                  ga == OnUpto(s, x, z[f].idx, "gap", m)
              IN /\ z[f].cards = sl \cup LastIn(ga)
                 /\ \A c : (\E k : <<c, k>> \in z[f].overridden) <=> c \in ga \ LastIn(ga)
  <2>1. CASE f = d
    BY <1>4, <1>7, <2>1
  <2>2. CASE f # d
    <3>1. z[f] = e[f] /\ f \in DOMAIN e /\ e[f].role = "gap" /\ e[f].idx # i
      BY <1>4, <1>8, <1>12, <2>2
    <3>2. \A kind \in {"gap", "slope"} :
            OnUpto(s, x, e[f].idx, kind, m) = OnUpto(s, x, e[f].idx, kind, m - 1)
      BY <3>1, OnUptoStays
    <3>3. LET sl == OnUpto(s, x, e[f].idx, "slope", m - 1)
              ga == OnUpto(s, x, e[f].idx, "gap", m - 1)
          IN /\ e[f].cards = sl \cup LastIn(ga)
             /\ \A c : (\E k : <<c, k>> \in e[f].overridden) <=> c \in ga \ LastIn(ga)
      BY <3>1 DEF ReadUpto
    <3> QED BY <3>1, <3>2, <3>3
  <2> QED BY <2>1, <2>2
<1>13. \A f \in DOMAIN z : z[f].role = "current" =>
         \E c \in 1 .. m : /\ x[c].kind = "current" /\ z[f].cards = {c}
                           /\ z[f].idx = IndexOf(s, x[c]) /\ z[f].overridden = {}
  <2> SUFFICES ASSUME NEW f \in DOMAIN e, e[f].role = "current"
               PROVE  \E c \in 1 .. m : /\ x[c].kind = "current" /\ e[f].cards = {c}
                                        /\ e[f].idx = IndexOf(s, x[c]) /\ e[f].overridden = {}
    BY <1>4, <1>9, <1>10
  <2>1. PICK c \in 1 .. m - 1 : /\ x[c].kind = "current" /\ e[f].cards = {c}
                                /\ e[f].idx = IndexOf(s, x[c]) /\ e[f].overridden = {}
    BY DEF ReadUpto
  <2> QED BY <1>5, <2>1
<1>14. \A f, g \in DOMAIN z :
         z[f].role = "current" /\ z[g].role = "current" /\ z[f].cards = z[g].cards => f = g
  <2>1. \A f, g \in DOMAIN e :
          e[f].role = "current" /\ e[g].role = "current" /\ e[f].cards = e[g].cards => f = g
    BY DEF ReadUpto
  <2> SUFFICES ASSUME NEW f \in DOMAIN e, NEW g \in DOMAIN e, z[f].role = "current",
                      z[g].role = "current", z[f].cards = z[g].cards
               PROVE  f = g
    BY <1>4
  <2>2. e[f].role = "current" /\ e[g].role = "current" /\ e[f].cards = e[g].cards
    BY <1>9, <1>10
  <2> QED BY <2>1, <2>2
<1>15. \A c \in 1 .. m : x[c].kind \in {"gap", "slope"} =>
         \E f \in DOMAIN z : z[f].role = "gap" /\ z[f].idx = IndexOf(s, x[c])
  <2> SUFFICES ASSUME NEW c \in 1 .. m, x[c].kind \in {"gap", "slope"}
               PROVE  \E f \in DOMAIN z : z[f].role = "gap" /\ z[f].idx = IndexOf(s, x[c])
    OBVIOUS
  <2>1. CASE c = m
    BY <1>2, <1>4, <2>1
  <2>2. CASE c \in 1 .. m - 1
    <3>1. PICK f \in DOMAIN e : e[f].role = "gap" /\ e[f].idx = IndexOf(s, x[c])
      BY <2>2 DEF ReadUpto
    <3> QED BY <1>4, <1>9, <3>1
  <2> QED BY <1>5, <2>1, <2>2
<1>16. \A c \in 1 .. m : x[c].kind = "current" =>
         \E f \in DOMAIN z : z[f].role = "current" /\ z[f].cards = {c}
  <2> SUFFICES ASSUME NEW c \in 1 .. m - 1, x[c].kind = "current"
               PROVE  \E f \in DOMAIN z : z[f].role = "current" /\ z[f].cards = {c}
    BY <1>5
  <2>1. PICK f \in DOMAIN e : e[f].role = "current" /\ e[f].cards = {c}
    BY DEF ReadUpto
  <2> QED BY <1>4, <1>10, <2>1
<1>17. ReadUpto(s, x, z, m)
  BY <1>4, <1>11, <1>12, <1>13, <1>14, <1>15, <1>16 DEF ReadUpto
<1> QED BY <1>1, <1>17
-----------------------------------------------------------------------------
(* The sum of the cards' voltages                                          *)

Volting(x, S, g) ==
    g = [T \in SUBSET S |-> IF T = {} THEN 0
                            ELSE LET c == CHOOSE c \in T : TRUE IN g[T \ {c}] + x[c].volts]

LEMMA VoltsFold ==
    ASSUME NEW x, NEW S
    PROVE  VoltsOf(x, S) = (CHOOSE g : Volting(x, S, g))[S]
BY DEF VoltsOf, FoldSet, MapThenFoldSet, Volting

\* The least of a set of finite sets.
LEMMA SmallestOf ==
    ASSUME NEW U, IsFiniteSet(U), NEW W, W \subseteq SUBSET U, W # {}
    PROVE  \E T \in W : \A R \in W : Cardinality(T) <= Cardinality(R)
<1> DEFINE N == {Cardinality(T) : T \in W}
<1>1. \A T \in W : Cardinality(T) \in Nat
  <2> TAKE T \in W
  <2>1. T \in SUBSET U
    OBVIOUS
  <2>2. IsFiniteSet(T)
    BY <2>1, FS_Subset
  <2> QED BY <2>2, FS_CardinalityType
<1>2. N \subseteq Nat /\ N # {}
  BY <1>1
<1> HIDE DEF N
<1>3. PICK m \in N : \A k \in N : m <= k
  BY <1>2, LeastOf
<1>4. PICK T \in W : m = Cardinality(T)
  BY DEF N
<1> QED BY <1>3, <1>4 DEF N

Summing(x, U, g) ==
    /\ g \in [SUBSET U -> Int] /\ g[{}] = 0
    /\ \A T \in SUBSET U : T # {} =>
         LET c == CHOOSE c \in T : TRUE IN g[T] = g[T \ {c}] + x[c].volts

LEMMA SummingExists ==
    ASSUME NEW x, NEW U, IsFiniteSet(U), \A c \in U : x[c].volts \in Int
    PROVE  \E g : Summing(x, U, g)
<1> DEFINE F == [SUBSET U -> Int]
           next(h) == [T \in SUBSET U |->
                         IF T = {} THEN 0
                         ELSE LET c == CHOOSE c \in T : TRUE IN h[T \ {c}] + x[c].volts]
           none == [T \in SUBSET U |-> 0]
           step == [p \in Nat \X F |-> next(p[2])]
<1>1. ASSUME NEW h \in F PROVE next(h) \in F
  <2> SUFFICES ASSUME NEW T \in SUBSET U, T # {}
               PROVE  LET c == CHOOSE c \in T : TRUE IN h[T \ {c}] + x[c].volts \in Int
    OBVIOUS
  <2> DEFINE c == CHOOSE c \in T : TRUE
  <2>1. c \in T
    OBVIOUS
  <2> HIDE DEF c
  <2>2. T \ {c} \in SUBSET U /\ x[c].volts \in Int
    BY <2>1
  <2>3. h[T \ {c}] + x[c].volts \in Int
    BY <2>2
  <2> QED BY <2>3 DEF c
<1>2. step \in [Nat \X F -> F]
  <2> HIDE DEF next, F
  <2> QED BY <1>1
<1>3. none \in F
  OBVIOUS
<1>4. \A n \in Nat : \A h \in F : step[<<n, h>>] = next(h)
  <2> HIDE DEF next, F
  <2> QED OBVIOUS
<1> HIDE DEF F, none, step
<1>5. PICK f \in [Nat -> F] : Follows(f, none, step)
  BY <1>2, <1>3, Recursion
<1>6. \A n \in Nat : f[n] \in F /\ f[n + 1] = next(f[n])
  BY <1>4, <1>5 DEF Follows
<1> DEFINE g == [T \in SUBSET U |-> f[Cardinality(T)][T]]
<1>7. \A T \in SUBSET U : IsFiniteSet(T) /\ Cardinality(T) \in Nat
  BY FS_Subset, FS_CardinalityType
<1>8. g \in [SUBSET U -> Int]
  <2> SUFFICES ASSUME NEW T \in SUBSET U PROVE f[Cardinality(T)][T] \in Int
    OBVIOUS
  <2>1. f[Cardinality(T)] \in [SUBSET U -> Int]
    BY <1>6, <1>7 DEF F
  <2> QED BY <2>1
<1>9. g[{}] = 0
  <2>1. {} \in SUBSET U /\ Cardinality({}) = 0 /\ f[0] = none
    BY <1>5, FS_EmptySet DEF Follows
  <2> QED BY <2>1 DEF none
<1>10. ASSUME NEW T \in SUBSET U, T # {}
       PROVE  LET c == CHOOSE c \in T : TRUE IN g[T] = g[T \ {c}] + x[c].volts
  <2> DEFINE c == CHOOSE c \in T : TRUE
             n == Cardinality(T) - 1
  <2>1. c \in T
    BY <1>10
  <2>2. Cardinality(T) \in Nat /\ Cardinality(T) # 0
    BY <1>7, <1>10, FS_EmptySet
  <2>3. n \in Nat /\ n + 1 = Cardinality(T)
    BY <2>2
  <2>4. f[n + 1][T] = f[n][T \ {c}] + x[c].volts
    <3>1. f[n + 1] = next(f[n])
      BY <1>6, <2>3
    <3> QED BY <1>10, <3>1
  <2> HIDE DEF c
  <2>5. T \ {c} \in SUBSET U /\ Cardinality(T \ {c}) = n
    BY <1>7, <2>1, FS_RemoveElement
  <2> HIDE DEF n
  <2>6. g[T] = f[n + 1][T] /\ g[T \ {c}] = f[n][T \ {c}]
    BY <2>3, <2>5
  <2> HIDE DEF g
  <2>7. g[T] = g[T \ {c}] + x[c].volts
    BY <2>4, <2>6
  <2> QED BY <2>7 DEF c
<1> HIDE DEF g
<1> QED BY <1>8, <1>9, <1>10 DEF Summing

LEMMA SummingVolts ==
    ASSUME NEW x, NEW U, IsFiniteSet(U), NEW g, Summing(x, U, g), NEW S \in SUBSET U
    PROVE  VoltsOf(x, S) = g[S]
<1> DEFINE h == CHOOSE h : Volting(x, S, h)
           r == [T \in SUBSET S |-> g[T]]
<1>1. Volting(x, S, r)
  <2>1. ASSUME NEW T \in SUBSET S
        PROVE  r[T] = IF T = {} THEN 0
                      ELSE LET c == CHOOSE c \in T : TRUE IN r[T \ {c}] + x[c].volts
    <3>1. CASE T = {}
      BY <3>1 DEF Summing
    <3>2. CASE T # {}
      <4> DEFINE c == CHOOSE c \in T : TRUE
      <4>1. T \in SUBSET U /\ T \ {c} \in SUBSET S
        OBVIOUS
      <4>2. g[T] = g[T \ {c}] + x[c].volts
        BY <3>2, <4>1 DEF Summing
      <4> HIDE DEF c
      <4>3. r[T] = r[T \ {c}] + x[c].volts
        BY <4>1, <4>2
      <4> HIDE DEF r
      <4> QED BY <3>2, <4>3 DEF c
    <3> QED BY <3>1, <3>2
  <2>2. r = [T \in SUBSET S |-> r[T]]
    OBVIOUS
  <2> HIDE DEF r
  <2>3. [T \in SUBSET S |-> r[T]] =
          [T \in SUBSET S |-> IF T = {} THEN 0
                              ELSE LET c == CHOOSE c \in T : TRUE IN r[T \ {c}] + x[c].volts]
    BY <2>1
  <2> QED BY <2>2, <2>3 DEF Volting
<1>2. Volting(x, S, h)
  <2> HIDE DEF r
  <2> QED BY <1>1
<1> HIDE DEF h, r
<1>3. /\ h[{}] = 0
      /\ \A T \in SUBSET S : T # {} =>
           LET c == CHOOSE c \in T : TRUE IN h[T] = h[T \ {c}] + x[c].volts
  <2>1. {} \in SUBSET S
    OBVIOUS
  <2> QED BY <1>2, <2>1 DEF Volting
<1>4. \A T \in SUBSET S : h[T] = g[T]
  <2> DEFINE W == {T \in SUBSET S : h[T] # g[T]}
  <2> SUFFICES ASSUME W # {} PROVE FALSE
    OBVIOUS
  <2>1. IsFiniteSet(S) /\ W \subseteq SUBSET S
    BY FS_Subset
  <2>2. PICK T \in W : \A R \in W : Cardinality(T) <= Cardinality(R)
    <3> HIDE DEF W
    <3> QED BY <2>1, SmallestOf
  <2>3. T \in SUBSET S /\ h[T] # g[T] /\ T # {} /\ IsFiniteSet(T)
    <3>1. T \in SUBSET S /\ h[T] # g[T]
      OBVIOUS
    <3>2. T # {}
      BY <1>3, <3>1 DEF Summing
    <3> QED BY <2>1, <3>1, <3>2, FS_Subset
  <2> DEFINE c == CHOOSE c \in T : TRUE
  <2>4. c \in T
    BY <2>3
  <2>5. h[T] = h[T \ {c}] + x[c].volts
    BY <1>3, <2>3
  <2>6. g[T] = g[T \ {c}] + x[c].volts
    <3>1. T \in SUBSET U
      BY <2>3
    <3> QED BY <2>3, <3>1 DEF Summing
  <2> HIDE DEF c
  <2>7. T \ {c} \notin W
    <3>1. Cardinality(T \ {c}) = Cardinality(T) - 1 /\ Cardinality(T) \in Nat
      BY <2>3, <2>4, FS_RemoveElement, FS_CardinalityType
    <3> HIDE DEF W
    <3> QED BY <2>2, <3>1
  <2>8. h[T \ {c}] = g[T \ {c}]
    BY <2>3, <2>7
  <2> QED BY <2>3, <2>5, <2>6, <2>8
<1>5. VoltsOf(x, S) = h[S]
  BY VoltsFold DEF h
<1> QED BY <1>4, <1>5

\* A card more adds its voltage.
LEMMA VoltsAdded ==
    ASSUME NEW x, NEW U, IsFiniteSet(U), \A c \in U : x[c].volts \in Int,
           NEW S \in SUBSET U, NEW c \in U, c \notin S
    PROVE  VoltsOf(x, S \cup {c}) = VoltsOf(x, S) + x[c].volts
<1>1. PICK g : Summing(x, U, g)
  BY SummingExists
<1>2. g \in [SUBSET U -> Int] /\ \A T \in SUBSET U : g[T] \in Int
  BY <1>1 DEF Summing
<1> DEFINE W == {T \in SUBSET U : \E d \in T : g[T] # g[T \ {d}] + x[d].volts}
<1>3. W = {}
  <2> SUFFICES ASSUME W # {} PROVE FALSE
    OBVIOUS
  <2>1. PICK T \in W : \A R \in W : Cardinality(T) <= Cardinality(R)
    <3>1. W \subseteq SUBSET U
      OBVIOUS
    <3> HIDE DEF W
    <3> QED BY <3>1, SmallestOf
  <2>2. T \in SUBSET U
    OBVIOUS
  <2>3. PICK d \in T : g[T] # g[T \ {d}] + x[d].volts
    OBVIOUS
  <2> DEFINE p == CHOOSE p \in T : TRUE
  <2>4. p \in T
    BY <2>3
  <2>5. g[T] = g[T \ {p}] + x[p].volts
    BY <1>1, <2>2, <2>3 DEF Summing
  <2> HIDE DEF p
  <2>6. p # d
    BY <2>3, <2>5
  <2>7. ASSUME NEW q \in T PROVE T \ {q} \in SUBSET U /\ T \ {q} \notin W
    <3>1. IsFiniteSet(T)
      BY <2>2, FS_Subset
    <3>2. Cardinality(T \ {q}) = Cardinality(T) - 1 /\ Cardinality(T) \in Nat
      BY <3>1, FS_RemoveElement, FS_CardinalityType
    <3> HIDE DEF W
    <3> QED BY <2>1, <2>2, <3>2
  <2> DEFINE R == (T \ {p}) \ {d}
  <2>8. g[T \ {p}] = g[R] + x[d].volts
    <3>1. d \in T \ {p} /\ T \ {p} \in SUBSET U /\ T \ {p} \notin W
      BY <2>3, <2>4, <2>6, <2>7
    <3> QED BY <3>1
  <2>9. g[T \ {d}] = g[R] + x[p].volts
    <3>1. p \in T \ {d} /\ T \ {d} \in SUBSET U /\ T \ {d} \notin W
      BY <2>3, <2>4, <2>6, <2>7
    <3>2. (T \ {d}) \ {p} = R
      OBVIOUS
    <3> HIDE DEF R
    <3> QED BY <3>1, <3>2
  <2>10. g[R] \in Int /\ x[d].volts \in Int /\ x[p].volts \in Int
    BY <1>2, <2>2, <2>3, <2>4
  <2> HIDE DEF R
  <2> QED BY <2>3, <2>5, <2>8, <2>9, <2>10
<1>4. g[S \cup {c}] = g[S] + x[c].volts
  <2>1. S \cup {c} \in SUBSET U /\ (S \cup {c}) \ {c} = S /\ c \in S \cup {c}
    OBVIOUS
  <2>2. S \cup {c} \notin W
    BY <1>3
  <2> QED BY <2>1, <2>2
<1>5. VoltsOf(x, S \cup {c}) = g[S \cup {c}] /\ VoltsOf(x, S) = g[S]
  BY <1>1, SummingVolts
<1> QED BY <1>4, <1>5
-----------------------------------------------------------------------------
(* The drive of a deck is NEC-2's                                          *)

LEMMA IndexIsNumber ==
    ASSUME NEW s \in Seq(Piece), NEW tag, NEW n
    PROVE  FindDeckSegment(s, tag, n) \in Nat
<1> DEFINE found == {i \in DOMAIN s : IF tag = 0 THEN s[i].abs = n
                                      ELSE s[i].tag = tag /\ s[i].num = n}
<1>1. CASE n = 0 \/ found = {}
  BY <1>1 DEF FindDeckSegment, None
<1>2. CASE ~(n = 0 \/ found = {})
  <2>1. found \subseteq Nat
    OBVIOUS
  <2> DEFINE least == CHOOSE i \in found : \A j \in found : i <= j
  <2>2. FindDeckSegment(s, tag, n) = least
    BY <1>2 DEF FindDeckSegment
  <2> HIDE DEF found
  <2>3. \E i \in found : \A j \in found : i <= j
    BY <1>2, <2>1, LeastOf
  <2>4. least \in found
    BY <2>3
  <2> HIDE DEF least
  <2> QED BY <2>1, <2>2, <2>4
<1> QED BY <1>1, <1>2

LEMMA OneRead ==
    ASSUME NEW s \in Seq(Piece), NEW x \in Seq(Sources), NEW e, NEW m \in 1 .. Len(x),
           ReadUpto(s, x, e, m - 1)
    PROVE  ReadUpto(s, x, ReadCard(s, x, e, m), m)
<1>1. m \in Nat \ {0} /\ x[m] \in Sources
  OBVIOUS
<1>2. x[m].kind \in {"gap", "slope", "current", "wave"}
  BY <1>1, DeckAssumption DEF Kinds
<1>3. IndexOf(s, x[m]) \in Nat
  BY IndexIsNumber DEF IndexOf
<1>4. CASE x[m].kind = "wave"
  BY <1>1, <1>4, WaveRead
<1>5. CASE x[m].kind = "current"
  BY <1>1, <1>3, <1>5, CurrentRead
<1>6. CASE x[m].kind \in {"gap", "slope"}
  <2>1. CASE \E d \in DOMAIN e : e[d].idx = IndexOf(s, x[m]) /\ e[d].role = "gap"
    BY <1>1, <1>3, <1>6, <2>1, AddingRead
  <2>2. CASE ~\E d \in DOMAIN e : e[d].idx = IndexOf(s, x[m]) /\ e[d].role = "gap"
    BY <1>1, <1>3, <1>6, <2>2, OpeningRead
  <2> QED BY <2>1, <2>2
<1> QED BY <1>2, <1>4, <1>5, <1>6

LEMMA NoneRead ==
    ASSUME NEW s, NEW x
    PROVE  ReadUpto(s, x, <<>>, 0)
<1>1. <<>> \in Seq(EntryOf) /\ DOMAIN <<>> = {} /\ \A c : c \notin 1 .. 0
  OBVIOUS
<1> QED BY <1>1 DEF ReadUpto

Reading(s, x, read) ==
    read = [c \in 0 .. Len(x) |-> IF c = 0 THEN <<>> ELSE ReadCard(s, x, read[c - 1], c)]

LEMMA ReadingExists ==
    ASSUME NEW s \in Seq(Piece), NEW x \in Seq(Sources)
    PROVE  \E read : Reading(s, x, read)
<1> DEFINE n == Len(x)
           E == Seq(EntryOf)
           next(i, e) == IF i + 1 \in 1 .. n /\ ReadUpto(s, x, e, i)
                         THEN ReadCard(s, x, e, i + 1) ELSE e
           step == [p \in Nat \X E |-> next(p[1], p[2])]
<1>0. n \in Nat /\ <<>> \in E
  OBVIOUS
<1>1. ASSUME NEW i \in Nat, NEW e \in E PROVE next(i, e) \in E
  <2>1. CASE i + 1 \in 1 .. n /\ ReadUpto(s, x, e, i)
    <3> DEFINE m == i + 1
    <3>1. m \in 1 .. n /\ m - 1 = i
      BY <2>1
    <3>2. ReadUpto(s, x, e, m - 1)
      BY <2>1, <3>1
    <3> HIDE DEF m
    <3>3. ReadUpto(s, x, ReadCard(s, x, e, m), m)
      BY <3>1, <3>2, OneRead
    <3> QED BY <2>1, <3>3 DEF ReadUpto, m
  <2>2. CASE ~(i + 1 \in 1 .. n /\ ReadUpto(s, x, e, i))
    BY <2>2
  <2> QED BY <2>1, <2>2
<1>2. step \in [Nat \X E -> E]
  <2> HIDE DEF next, E
  <2> QED BY <1>1
<1>3. \A i \in Nat : \A e \in E : step[<<i, e>>] = next(i, e)
  <2> HIDE DEF next, E
  <2> QED OBVIOUS
<1> HIDE DEF step, E
<1>4. PICK f \in [0 .. n -> E] : FollowsUpto(f, n, <<>>, step)
  <2> HIDE DEF n
  <2> QED BY <1>0, <1>2, RecursionUpto
<1>5. f[0] = <<>> /\ \A i \in 1 .. n : f[i] = next(i - 1, f[i - 1])
  <2>1. ASSUME NEW i \in 1 .. n PROVE f[i] = next(i - 1, f[i - 1])
    <3>1. i - 1 \in Nat /\ i - 1 \in 0 .. n
      BY <1>0
    <3>2. f[i - 1] \in E
      BY <1>4, <3>1
    <3> HIDE DEF next
    <3> QED BY <1>3, <1>4, <3>1, <3>2 DEF FollowsUpto
  <2> HIDE DEF next
  <2> QED BY <1>4, <2>1 DEF FollowsUpto
<1> DEFINE T == {i \in 0 .. n : ReadUpto(s, x, f[i], i)}
<1>6. ASSUME NEW i \in 1 .. n, i - 1 \in T
      PROVE  i \in T /\ f[i] = ReadCard(s, x, f[i - 1], i)
  <2>1. (i - 1) + 1 = i /\ i \in 0 .. n /\ ReadUpto(s, x, f[i - 1], i - 1)
    BY <1>0, <1>6
  <2>2. f[i] = ReadCard(s, x, f[i - 1], i)
    <3>1. f[i] = next(i - 1, f[i - 1])
      BY <1>5
    <3> QED BY <2>1, <3>1
  <2>3. ReadUpto(s, x, f[i], i)
    BY <2>1, <2>2, OneRead
  <2> QED BY <2>1, <2>2, <2>3
<1>7. \A i \in 0 .. n : i \in T
  <2>1. 0 \in T
    BY <1>0, <1>5, NoneRead
  <2> HIDE DEF T, n
  <2> QED BY <1>0, <1>6, <2>1, Upwards
<1>8. ASSUME NEW i \in 0 .. n
      PROVE  f[i] = IF i = 0 THEN <<>> ELSE ReadCard(s, x, f[i - 1], i)
  <2>1. CASE i = 0
    BY <1>5, <2>1
  <2>2. CASE i # 0
    <3>1. i \in 1 .. n /\ i - 1 \in 0 .. n
      BY <1>0, <2>2
    <3>2. i - 1 \in T
      BY <1>7, <3>1
    <3> HIDE DEF T
    <3> QED BY <1>6, <2>2, <3>1, <3>2
  <2> QED BY <2>1, <2>2
<1>9. Reading(s, x, f)
  <2> HIDE DEF T
  <2>1. f = [i \in 0 .. n |-> f[i]]
    BY <1>4
  <2>2. [i \in 0 .. n |-> f[i]] =
          [i \in 0 .. n |-> IF i = 0 THEN <<>> ELSE ReadCard(s, x, f[i - 1], i)]
    BY <1>8
  <2> QED BY <2>1, <2>2 DEF Reading
<1> QED BY <1>9

\* What driven_segments has read when the deck ends.
LEMMA CardsAreRead ==
    ASSUME NEW s \in Seq(Piece), NEW x \in Seq(Sources)
    PROVE  ReadUpto(s, x, ReadCards(s, x), Len(x))
<1> DEFINE n == Len(x)
           f == CHOOSE read : Reading(s, x, read)
           T == {i \in 0 .. n : ReadUpto(s, x, f[i], i)}
<1>0. n \in Nat
  OBVIOUS
<1>1. Reading(s, x, f)
  BY ReadingExists
<1>2. ReadCards(s, x) = f[n]
  BY DEF ReadCards, Reading
<1> HIDE DEF f
<1>3. f[0] = <<>> /\ \A i \in 1 .. n : f[i] = ReadCard(s, x, f[i - 1], i)
  <2>1. ASSUME NEW i \in 0 .. n
        PROVE  f[i] = IF i = 0 THEN <<>> ELSE ReadCard(s, x, f[i - 1], i)
    BY <1>1 DEF Reading
  <2>2. 0 \in 0 .. n /\ \A i \in 1 .. n : i \in 0 .. n /\ i # 0
    BY <1>0
  <2> QED BY <2>1, <2>2
<1>4. \A i \in 0 .. n : i \in T
  <2>1. 0 \in T
    BY <1>0, <1>3, NoneRead
  <2>2. ASSUME NEW i \in 1 .. n, i - 1 \in T PROVE i \in T
    <3>1. ReadUpto(s, x, f[i - 1], i - 1) /\ i \in 0 .. n
      BY <1>0, <2>2
    <3>2. ReadUpto(s, x, ReadCard(s, x, f[i - 1], i), i)
      BY <3>1, OneRead
    <3> QED BY <1>3, <3>1, <3>2
  <2> HIDE DEF T, n
  <2> QED BY <1>0, <2>1, <2>2, Upwards
<1>5. n \in 0 .. n
  BY <1>0
<1> QED BY <1>2, <1>4, <1>5

\* The entries of a deck that has ended.
LEMMA DrivenIs ==
    ASSUME NEW s \in Seq(Piece), NEW x \in Seq(Sources)
    PROVE  LET e == ReadCards(s, x)
               z == Driven(s, x)
           IN /\ ReadUpto(s, x, e, Len(x)) /\ Len(z) = Len(e) /\ DOMAIN z = DOMAIN e
              /\ \A d \in DOMAIN e :
                   /\ z[d].idx = e[d].idx /\ z[d].role = e[d].role /\ z[d].cards = e[d].cards
                   /\ e[d].role = "gap" =>
                        \A c \in OnUpto(s, x, e[d].idx, "gap", Len(x)) :
                          \/ c \in LastIn(OnUpto(s, x, e[d].idx, "gap", Len(x)))
                          \/ \E k \in z[d].cards : k > c /\ <<c, k>> \in z[d].overridden
<1> DEFINE e == ReadCards(s, x)
           z == Driven(s, x)
           n == Len(x)
<1>1. ReadUpto(s, x, e, n)
  BY CardsAreRead
<1>2. z = [d \in DOMAIN e |-> Settled(x, e[d])]
  BY DEF Driven
<1>3. e \in Seq(EntryOf) /\ n \in Nat
  BY <1>1 DEF ReadUpto
<1> HIDE DEF e, z
<1>4. Len(z) = Len(e) /\ DOMAIN z = DOMAIN e
  BY <1>2, <1>3
<1>5. ASSUME NEW d \in DOMAIN e
      PROVE  /\ z[d] = Settled(x, e[d]) /\ e[d] \in EntryOf
             /\ z[d].idx = e[d].idx /\ z[d].role = e[d].role /\ z[d].cards = e[d].cards
             /\ z[d].overridden =
                  LET won == {k \in e[d].cards : Assigns(x[k])}
                  IN {<<pair[1], CHOOSE k \in won : TRUE>> : pair \in e[d].overridden}
  <2>1. z[d] = Settled(x, e[d]) /\ e[d] \in EntryOf
    BY <1>2, <1>3
  <2> DEFINE a == e[d]
             over == LET won == {k \in a.cards : Assigns(x[k])}
                     IN {<<pair[1], CHOOSE k \in won : TRUE>> : pair \in a.overridden}
  <2>2. Settled(x, a) = [a EXCEPT !.overridden = over]
    BY DEF Settled
  <2> HIDE DEF over
  <2>3. /\ Settled(x, a).idx = a.idx /\ Settled(x, a).role = a.role
        /\ Settled(x, a).cards = a.cards /\ Settled(x, a).overridden = over
    <3> HIDE DEF a
    <3>1. a \in EntryOf
      BY <2>1 DEF a
    <3> QED BY <2>2, <3>1 DEF EntryOf
  <2> QED BY <2>1, <2>3 DEF over
<1>6. ASSUME NEW d \in DOMAIN e, e[d].role = "gap",
             NEW c \in OnUpto(s, x, e[d].idx, "gap", n),
             c \notin LastIn(OnUpto(s, x, e[d].idx, "gap", n))
      PROVE  \E k \in z[d].cards : k > c /\ <<c, k>> \in z[d].overridden
  <2> DEFINE i == e[d].idx
             slopes == OnUpto(s, x, i, "slope", n)
             gaps == OnUpto(s, x, i, "gap", n)
             won == {k \in e[d].cards : Assigns(x[k])}
             top == CHOOSE k \in won : TRUE
  <2>1. /\ e[d].cards = slopes \cup LastIn(gaps)
        /\ \A b : (\E k : <<b, k>> \in e[d].overridden) <=> b \in gaps \ LastIn(gaps)
    BY <1>1, <1>6 DEF ReadUpto
  <2>2. gaps \subseteq 1 .. n /\ gaps # {}
    BY <1>6 DEF OnUpto
  <2>3. PICK m \in gaps : LastIn(gaps) = {m} /\ \A k \in gaps : k <= m
    <3> HIDE DEF gaps
    <3> QED BY <1>3, <2>2, LastOfNumbers
  <2>4. won = {m}
    <3>1. \A k \in slopes : ~Assigns(x[k])
      BY DEF OnUpto, Assigns
    <3>2. Assigns(x[m])
      BY DEF OnUpto, Assigns
    <3> HIDE DEF slopes, gaps
    <3> QED BY <2>1, <2>3, <3>1, <3>2
  <2>5. top = m
    <3> HIDE DEF won
    <3> QED BY <2>4
  <2>6. PICK k : <<c, k>> \in e[d].overridden
    BY <1>6, <2>1
  <2>7. z[d].overridden = {<<pair[1], top>> : pair \in e[d].overridden}
    BY <1>5
  <2> HIDE DEF top
  <2>8. <<c, m>> \in z[d].overridden
    <3>1. <<c, top>> \in {<<pair[1], top>> : pair \in e[d].overridden}
      <4>1. <<c, k>>[1] = c
        OBVIOUS
      <4> QED BY <2>6, <4>1
    <3> QED BY <2>5, <2>7, <3>1
  <2>9. m > c /\ m \in z[d].cards
    <3>1. c \in gaps /\ c # m
      BY <1>6, <2>3
    <3>2. c <= m /\ c \in Int /\ m \in Int
      BY <2>2, <2>3, <3>1
    <3>3. m \in e[d].cards
      BY <2>1, <2>3
    <3> QED BY <1>5, <3>1, <3>2, <3>3
  <2> QED BY <2>8, <2>9
<1>7. ASSUME NEW d \in DOMAIN e
      PROVE  /\ z[d].idx = e[d].idx /\ z[d].role = e[d].role /\ z[d].cards = e[d].cards
             /\ e[d].role = "gap" =>
                  \A c \in OnUpto(s, x, e[d].idx, "gap", Len(x)) :
                    \/ c \in LastIn(OnUpto(s, x, e[d].idx, "gap", Len(x)))
                    \/ \E k \in z[d].cards : k > c /\ <<c, k>> \in z[d].overridden
  BY <1>5, <1>6
<1> QED BY <1>1, <1>4, <1>7 DEF e, z

\* The entry a card is in.
Holds(s, x, z, c, d) == z[d].idx = IndexOf(s, x[c]) /\ \A f \in DOMAIN z : c \in z[f].cards <=> f = d

\* Every driven card is in one entry, its segment's, or is a type-0 card overridden there.
LEMMA DrivenHolds ==
    ASSUME NEW s \in Seq(Piece), NEW x \in Seq(Sources), NEW c \in DOMAIN x, Drives(x[c])
    PROVE  LET z == Driven(s, x)
           IN \E d \in DOMAIN z :
                /\ z[d].idx = IndexOf(s, x[c])
                /\ \/ Holds(s, x, z, c, d)
                   \/ /\ x[c].kind = "gap" /\ \A f \in DOMAIN z : c \notin z[f].cards
                      /\ c \notin LastIn(OnUpto(s, x, IndexOf(s, x[c]), "gap", Len(x)))
                      /\ \E k \in z[d].cards : k > c /\ <<c, k>> \in z[d].overridden
<1> DEFINE e == ReadCards(s, x)
           z == Driven(s, x)
           n == Len(x)
           i == IndexOf(s, x[c])
           slopes(j) == OnUpto(s, x, j, "slope", n)
           gaps(j) == OnUpto(s, x, j, "gap", n)
<1>0. n \in Nat /\ DOMAIN x = 1 .. n /\ c \in 1 .. n /\ x[c].kind \in {"gap", "slope", "current"}
  <2>1. x[c] \in Sources
    OBVIOUS
  <2> QED BY <2>1, DeckAssumption DEF Kinds, Drives
<1>1. /\ ReadUpto(s, x, e, n) /\ DOMAIN z = DOMAIN e
      /\ \A d \in DOMAIN e :
           /\ z[d].idx = e[d].idx /\ z[d].role = e[d].role /\ z[d].cards = e[d].cards
           /\ e[d].role = "gap" =>
                \A b \in gaps(e[d].idx) :
                  \/ b \in LastIn(gaps(e[d].idx))
                  \/ \E k \in z[d].cards : k > b /\ <<b, k>> \in z[d].overridden
  BY DrivenIs
<1> HIDE DEF e, z
<1>2. \A d, f \in DOMAIN e :
        e[d].role = "gap" /\ e[f].role = "gap" /\ e[d].idx = e[f].idx => d = f
  BY <1>1 DEF ReadUpto
<1>3. \A d \in DOMAIN e : e[d].role = "gap" =>
        e[d].cards = slopes(e[d].idx) \cup LastIn(gaps(e[d].idx))
  BY <1>1 DEF ReadUpto
<1>4. \A d \in DOMAIN e : e[d].role = "current" =>
        \E b \in 1 .. n : /\ x[b].kind = "current" /\ e[d].cards = {b}
                          /\ e[d].idx = IndexOf(s, x[b])
  BY <1>1 DEF ReadUpto
<1>5. \A d, f \in DOMAIN e :
        e[d].role = "current" /\ e[f].role = "current" /\ e[d].cards = e[f].cards => d = f
  BY <1>1 DEF ReadUpto
<1>6. \A d \in DOMAIN e : e[d].role \in {"gap", "current"}
  <2> TAKE d \in DOMAIN e
  <2>1. e \in Seq(EntryOf)
    BY <1>1 DEF ReadUpto
  <2>2. e[d] \in EntryOf
    BY <2>1
  <2> QED BY <2>2 DEF EntryOf
<1>7. \A j : \A b \in slopes(j) : x[b].kind = "slope" /\ IndexOf(s, x[b]) = j
  BY DEF OnUpto
<1>8. \A j : \A b \in gaps(j) : x[b].kind = "gap" /\ IndexOf(s, x[b]) = j
  BY DEF OnUpto
<1>9. \A j : LastIn(gaps(j)) \subseteq gaps(j)
  BY DEF LastIn
<1>10. x[c].kind = "slope" => c \in slopes(i)
  BY <1>0 DEF OnUpto
<1>11. x[c].kind = "gap" => c \in gaps(i)
  BY <1>0 DEF OnUpto
<1> HIDE DEF slopes, gaps
<1>12. \A f \in DOMAIN e : e[f].role = "gap" /\ c \in e[f].cards =>
         x[c].kind \in {"gap", "slope"} /\ e[f].idx = i
  BY <1>3, <1>7, <1>8, <1>9
<1>13. \A f \in DOMAIN e : e[f].role = "current" /\ c \in e[f].cards =>
         x[c].kind = "current" /\ e[f].cards = {c}
  BY <1>4
<1>14. CASE x[c].kind = "current"
  <2>1. PICK d \in DOMAIN e : e[d].role = "current" /\ e[d].cards = {c}
    BY <1>0, <1>1, <1>14 DEF ReadUpto
  <2>2. e[d].idx = i
    <3>1. PICK b \in 1 .. n : e[d].cards = {b} /\ e[d].idx = IndexOf(s, x[b])
      BY <1>4, <2>1
    <3>2. b = c
      BY <2>1, <3>1
    <3> QED BY <3>1, <3>2
  <2>3. \A f \in DOMAIN e : c \in e[f].cards <=> f = d
    BY <1>5, <1>6, <1>12, <1>13, <1>14, <2>1
  <2> QED BY <1>1, <2>2, <2>3 DEF Holds, z
<1>15. CASE x[c].kind \in {"gap", "slope"}
  <2>1. PICK d \in DOMAIN e : e[d].role = "gap" /\ e[d].idx = i
    BY <1>0, <1>1, <1>15 DEF ReadUpto
  <2>2. \A f \in DOMAIN e : c \in e[f].cards => f = d
    BY <1>2, <1>6, <1>12, <1>13, <1>15, <2>1
  <2>3. CASE c \in e[d].cards
    <3>1. \A f \in DOMAIN e : c \in e[f].cards <=> f = d
      BY <2>2, <2>3
    <3> QED BY <1>1, <2>1, <3>1 DEF Holds, z
  <2>4. CASE c \notin e[d].cards
    <3>1. x[c].kind = "gap" /\ c \in gaps(i) /\ c \notin LastIn(gaps(i))
      BY <1>3, <1>10, <1>11, <1>15, <2>1, <2>4
    <3>2. \A f \in DOMAIN z : c \notin z[f].cards
      BY <1>1, <2>2, <2>4
    <3>3. \E k \in z[d].cards : k > c /\ <<c, k>> \in z[d].overridden
      BY <1>1, <2>1, <3>1
    <3>4. z[d].idx = i /\ d \in DOMAIN z
      BY <1>1, <2>1
    <3> QED BY <3>1, <3>2, <3>3, <3>4 DEF z, gaps
  <2> QED BY <2>3, <2>4
<1> QED BY <1>0, <1>14, <1>15

\* The segment's drive: one entry, its type-5 cards and its last type-0 card.
LEMMA DrivenVolts ==
    ASSUME NEW s \in Seq(Piece), NEW x \in Seq(Sources), NEW i,
           OnUpto(s, x, i, "gap", Len(x)) \cup OnUpto(s, x, i, "slope", Len(x)) # {}
    PROVE  LET z == Driven(s, x)
               gaps == OnUpto(s, x, i, "gap", Len(x))
               last == CHOOSE c \in gaps : \A d \in gaps : d <= c
           IN \E d \in DOMAIN z :
                /\ z[d].idx = i /\ z[d].role = "gap"
                /\ \A e \in DOMAIN z : z[e].idx = i /\ z[e].role = "gap" => e = d
                /\ Volts(x, z[d]) = VoltsOf(x, OnUpto(s, x, i, "slope", Len(x)))
                                      + IF gaps = {} THEN 0 ELSE x[last].volts
<1> DEFINE e == ReadCards(s, x)
           z == Driven(s, x)
           n == Len(x)
           slopes == OnUpto(s, x, i, "slope", n)
           gaps == OnUpto(s, x, i, "gap", n)
           last == CHOOSE c \in gaps : \A d \in gaps : d <= c
<1>0. n \in Nat /\ DOMAIN x = 1 .. n
  OBVIOUS
<1>1. /\ ReadUpto(s, x, e, n) /\ DOMAIN z = DOMAIN e
      /\ \A d \in DOMAIN e :
           z[d].idx = e[d].idx /\ z[d].role = e[d].role /\ z[d].cards = e[d].cards
  BY DrivenIs
<1> HIDE DEF e, z
<1>2. PICK d \in DOMAIN e : e[d].role = "gap" /\ e[d].idx = i
  <2>1. PICK c \in gaps \cup slopes : TRUE
    OBVIOUS
  <2>2. c \in 1 .. n /\ x[c].kind \in {"gap", "slope"} /\ IndexOf(s, x[c]) = i
    BY <2>1 DEF OnUpto
  <2> QED BY <1>1, <2>2 DEF ReadUpto
<1>3. \A f \in DOMAIN e : e[f].idx = i /\ e[f].role = "gap" => f = d
  BY <1>1, <1>2 DEF ReadUpto
<1>4. e[d].cards = slopes \cup LastIn(gaps)
  <2>1. LET sl == OnUpto(s, x, e[d].idx, "slope", n)
            ga == OnUpto(s, x, e[d].idx, "gap", n)
        IN e[d].cards = sl \cup LastIn(ga)
    BY <1>1, <1>2 DEF ReadUpto
  <2> QED BY <1>2, <2>1
<1>5. /\ slopes \subseteq 1 .. n /\ gaps \subseteq 1 .. n /\ \A c \in gaps : c \notin slopes
  BY DEF OnUpto
<1>6. \A c \in 1 .. n : x[c].volts \in Int
  <2> TAKE c \in 1 .. n
  <2>1. x[c] \in Sources
    BY <1>0
  <2> QED BY <2>1, DeckAssumption
<1>7. IsFiniteSet(1 .. n)
  <2> DEFINE k == 1
  <2>1. k \in Int /\ n \in Int
    BY <1>0
  <2> HIDE DEF k, n
  <2>2. IsFiniteSet(k .. n)
    BY <2>1, FS_Interval
  <2> QED BY <2>2 DEF k
<1>8. \A T \in SUBSET (1 .. n) : VoltsOf(x, T) \in Int
  <2> DEFINE U == 1 .. n
  <2>0. IsFiniteSet(U) /\ \A c \in U : x[c].volts \in Int
    BY <1>6, <1>7
  <2> HIDE DEF U
  <2>1. PICK g : Summing(x, U, g)
    BY <2>0, SummingExists
  <2>2. ASSUME NEW T \in SUBSET U PROVE VoltsOf(x, T) \in Int
    <3>1. VoltsOf(x, T) = g[T]
      BY <2>0, <2>1, SummingVolts
    <3>2. g \in [SUBSET U -> Int]
      BY <2>1 DEF Summing
    <3> QED BY <3>1, <3>2
  <2> QED BY <2>2 DEF U
<1> HIDE DEF slopes, gaps
<1>9. VoltsOf(x, e[d].cards) = VoltsOf(x, slopes) + IF gaps = {} THEN 0 ELSE x[last].volts
  <2>1. CASE gaps = {}
    <3>1. LastIn(gaps) = {}
      BY <2>1 DEF LastIn
    <3>2. e[d].cards = slopes
      BY <1>4, <3>1
    <3>3. VoltsOf(x, slopes) \in Int
      BY <1>5, <1>8
    <3> QED BY <2>1, <3>2, <3>3
  <2>2. CASE gaps # {}
    <3>1. PICK m \in gaps : LastIn(gaps) = {m} /\ \A k \in gaps : k <= m
      BY <1>0, <1>5, <2>2, LastOfNumbers
    <3>2. last = m
      <4>1. last \in gaps /\ \A k \in gaps : k <= last
        BY <3>1
      <4> HIDE DEF last
      <4>2. last <= m /\ m <= last /\ m \in Int /\ last \in Int
        BY <1>5, <3>1, <4>1
      <4> QED BY <4>2
    <3>3. VoltsOf(x, slopes \cup {m}) = VoltsOf(x, slopes) + x[m].volts
      <4>1. slopes \in SUBSET (1 .. n) /\ m \in 1 .. n /\ m \notin slopes
        BY <1>5, <3>1
      <4> HIDE DEF n
      <4> QED BY <1>6, <1>7, <4>1, VoltsAdded
    <3> HIDE DEF last
    <3> QED BY <1>4, <2>2, <3>1, <3>2, <3>3
  <2> QED BY <2>1, <2>2
<1>10. Volts(x, z[d]) = VoltsOf(x, e[d].cards)
  BY <1>1, <1>2 DEF Volts
<1>11. d \in DOMAIN z /\ z[d].idx = i /\ z[d].role = "gap"
       /\ \A f \in DOMAIN z : z[f].idx = i /\ z[f].role = "gap" => f = d
  BY <1>1, <1>2, <1>3
<1> QED BY <1>9, <1>10, <1>11 DEF z, slopes, gaps

LEMMA PrintedIs ==
    ASSUME NEW s \in Seq(Piece), NEW x \in Seq(Sources), Printed(x) # 0
    PROVE  /\ Printed(x) \in DOMAIN x /\ Drives(x[Printed(x)])
           /\ x[Printed(x)].kind = "gap" =>
                Printed(x) \in LastIn(OnUpto(s, x, IndexOf(s, x[Printed(x)]), "gap", Len(x)))
<1> DEFINE LastOf(kind) == {c \in DOMAIN x : /\ x[c].kind = kind
                                             /\ \A d \in DOMAIN x : x[d].kind = kind => d <= c}
           of == IF LastOf("slope") # {} THEN LastOf("slope") ELSE LastOf("gap")
           c == CHOOSE c \in of : TRUE
<1>1. Printed(x) = IF of = {} THEN 0 ELSE c
  BY DEF Printed
<1>2. of # {} /\ Printed(x) = c
  BY <1>1
<1>3. c \in of
  <2> HIDE DEF of
  <2> QED BY <1>2
<1> HIDE DEF c
<1>4. c \in LastOf("slope") \/ c \in LastOf("gap")
  BY <1>3
<1>5. c \in DOMAIN x /\ x[c].kind \in {"slope", "gap"} /\ DOMAIN x = 1 .. Len(x)
      /\ (x[c].kind = "gap" => \A d \in DOMAIN x : x[d].kind = "gap" => d <= c)
  BY <1>4
<1>6. ASSUME x[c].kind = "gap"
      PROVE  c \in LastIn(OnUpto(s, x, IndexOf(s, x[c]), "gap", Len(x)))
  BY <1>5, <1>6 DEF LastIn, OnUpto
<1> QED BY <1>2, <1>5, <1>6 DEF Drives

LEMMA DriveOfTypes ==
    ASSUME hallen \in Seq(Piece), ex \in Seq(Sources)
    PROVE  DriveIsNec2s
<1> DEFINE z == Driven(hallen, ex)
           n == Len(ex)
           on(i, kind) == {c \in DOMAIN ex : ex[c].kind = kind /\ IndexOf(hallen, ex[c]) = i}
           last(cs) == CHOOSE c \in cs : \A d \in cs : d <= c
           rows(c) == {d \in DOMAIN z : c \in z[d].cards}
           driving == {c \in DOMAIN ex : Drives(ex[c])}
<1>0. n \in Nat /\ DOMAIN ex = 1 .. n
  OBVIOUS
<1>1. \A i, kind : on(i, kind) = OnUpto(hallen, ex, i, kind, n)
  BY <1>0 DEF OnUpto
<1>2. ASSUME NEW i \in DOMAIN hallen, on(i, "gap") \cup on(i, "slope") # {}
      PROVE  \E d \in DOMAIN z :
               /\ z[d].idx = i /\ z[d].role = "gap"
               /\ \A e \in DOMAIN z : z[e].idx = i /\ z[e].role = "gap" => e = d
               /\ Volts(ex, z[d]) = VoltsOf(ex, on(i, "slope"))
                    + IF on(i, "gap") = {} THEN 0 ELSE ex[last(on(i, "gap"))].volts
  <2>1. on(i, "gap") = OnUpto(hallen, ex, i, "gap", n)
        /\ on(i, "slope") = OnUpto(hallen, ex, i, "slope", n)
    BY <1>1
  <2> HIDE DEF on
  <2>2. OnUpto(hallen, ex, i, "gap", n) \cup OnUpto(hallen, ex, i, "slope", n) # {}
    BY <1>2, <2>1
  <2> HIDE DEF z
  <2>3. LET gaps == OnUpto(hallen, ex, i, "gap", n)
            top == CHOOSE c \in gaps : \A d \in gaps : d <= c
        IN \E d \in DOMAIN z :
             /\ z[d].idx = i /\ z[d].role = "gap"
             /\ \A e \in DOMAIN z : z[e].idx = i /\ z[e].role = "gap" => e = d
             /\ Volts(ex, z[d]) = VoltsOf(ex, OnUpto(hallen, ex, i, "slope", n))
                                    + IF gaps = {} THEN 0 ELSE ex[top].volts
    BY <2>2, DrivenVolts DEF z
  <2> QED BY <2>1, <2>3
<1>3. ASSUME NEW c \in driving
      PROVE  \E d \in DOMAIN z :
               /\ z[d].idx = IndexOf(hallen, ex[c])
               /\ \/ Holds(hallen, ex, z, c, d)
                  \/ /\ ex[c].kind = "gap" /\ \A f \in DOMAIN z : c \notin z[f].cards
                     /\ c \notin LastIn(OnUpto(hallen, ex, IndexOf(hallen, ex[c]), "gap", n))
                     /\ \E k \in z[d].cards : k > c /\ <<c, k>> \in z[d].overridden
  BY DrivenHolds
<1> HIDE DEF z
<1>4. ASSUME NEW c, NEW d \in DOMAIN z, Holds(hallen, ex, z, c, d)
      PROVE  rows(c) = {d}
  BY <1>4 DEF Holds
<1>5. ASSUME NEW c \in driving
      PROVE  \/ Cardinality(rows(c)) = 1
             \/ /\ rows(c) = {}
                /\ \E d \in DOMAIN z : \E k \in z[d].cards : k > c /\ <<c, k>> \in z[d].overridden
  <2>1. PICK d \in DOMAIN z :
               \/ Holds(hallen, ex, z, c, d)
               \/ /\ \A f \in DOMAIN z : c \notin z[f].cards
                  /\ \E k \in z[d].cards : k > c /\ <<c, k>> \in z[d].overridden
    BY <1>3
  <2>2. CASE Holds(hallen, ex, z, c, d)
    <3>1. rows(c) = {d}
      BY <1>4, <2>2
    <3> HIDE DEF rows
    <3> QED BY <3>1, FS_Singleton
  <2>3. CASE /\ \A f \in DOMAIN z : c \notin z[f].cards
             /\ \E k \in z[d].cards : k > c /\ <<c, k>> \in z[d].overridden
    BY <2>3
  <2> QED BY <2>1, <2>2, <2>3
<1>6. Printed(ex) # 0 => rows(Printed(ex)) # {}
  <2> SUFFICES ASSUME Printed(ex) # 0 PROVE rows(Printed(ex)) # {}
    OBVIOUS
  <2> DEFINE c == Printed(ex)
  <2>1. /\ c \in driving
        /\ ex[c].kind = "gap" =>
             c \in LastIn(OnUpto(hallen, ex, IndexOf(hallen, ex[c]), "gap", n))
    BY PrintedIs
  <2> HIDE DEF c
  <2>2. PICK d \in DOMAIN z : Holds(hallen, ex, z, c, d)
    BY <1>3, <2>1
  <2>3. rows(c) = {d}
    BY <1>4, <2>2
  <2> QED BY <2>3 DEF c
<1>7. ASSUME ~MoreThanOneFeedpoint(hallen, ex)
      PROVE  Cardinality({IndexOf(hallen, ex[c]) : c \in driving}) <= 1
  <2> DEFINE I == {IndexOf(hallen, ex[c]) : c \in driving}
  <2>0. z \in Seq(EntryOf) \/ (Len(z) \in Nat /\ DOMAIN z = 1 .. Len(z))
    <3> DEFINE e == ReadCards(hallen, ex)
    <3>1. ReadUpto(hallen, ex, e, n) /\ Len(z) = Len(e) /\ DOMAIN z = DOMAIN e
      BY DrivenIs DEF z
    <3>2. e \in Seq(EntryOf)
      BY <3>1 DEF ReadUpto
    <3> HIDE DEF e
    <3> QED BY <3>1, <3>2
  <2>1. Len(z) \in Nat /\ DOMAIN z = 1 .. Len(z) /\ Len(z) <= 1
    BY <1>7, <2>0 DEF MoreThanOneFeedpoint, z
  <2>2. \A d, f \in DOMAIN z : d = f
    BY <2>1
  <2>3. \A c \in driving : \E d \in DOMAIN z : z[d].idx = IndexOf(hallen, ex[c])
    BY <1>3
  <2>4. \A i, j \in I : i = j
    BY <2>2, <2>3
  <2>5. I = {} \/ \E i : I = {i}
    BY <2>4
  <2> HIDE DEF I
  <2>6. Cardinality(I) = 0 \/ Cardinality(I) = 1
    BY <2>5, FS_EmptySet, FS_Singleton
  <2>7. Cardinality(I) <= 1
    BY <2>6
  <2> QED BY <2>7 DEF I
<1> QED BY <1>2, <1>5, <1>6, <1>7 DEF DriveIsNec2s, z

\* A segment's drive is the sum of its type-5 cards and its last type-0 card; every driven
\* card is in one entry or overridden in it by a later one; the printed impedance is of a
\* card that drives; one feedpoint is one segment (driven_segments, excitation.rs).
THEOREM DeckDriveIsNec2s == Spec => []DriveIsNec2s
<1>1. DeckInv => DriveIsNec2s
  <2> SUFFICES ASSUME DeckInv PROVE DriveIsNec2s
    OBVIOUS
  <2>1. ex \in Seq(Sources) /\ hallen \in Seq(Piece)
    BY HallenIsPieces DEF DeckInv
  <2> QED BY <2>1, DriveOfTypes
<1> QED BY <1>1, DeckInvariant, PTL
-----------------------------------------------------------------------------
(* The images GX adds complete the structure                               *)

MirrorLine(l, a) == {Mirror(p, a) : p \in l}
LinesOf(s) == {Ends(s[i]) : i \in DOMAIN s}
ImagesOf(L, a) == {MirrorLine(l, a) : l \in L}

LEMMA MirrorLines ==
    ASSUME NEW l \in SUBSET Points, NEW a \in Axes, NEW b \in Axes
    PROVE  /\ MirrorLine(MirrorLine(l, a), a) = l
           /\ MirrorLine(MirrorLine(l, a), b) = MirrorLine(MirrorLine(l, b), a)
           /\ MirrorLine(l, a) \in SUBSET Points
<1>1. \A p \in Points : Mirror(Mirror(p, a), a) = p
  <2> TAKE p \in Points
  <2> DEFINE q == Mirror(p, a)
  <2>1. q \in Points /\ q[a] = -p[a] /\ \A d \in Axes : d # a => q[d] = p[d]
    BY MirrorOf
  <2> HIDE DEF q
  <2> DEFINE r == Mirror(q, a)
  <2>2. r \in Points /\ r[a] = -q[a] /\ \A d \in Axes : d # a => r[d] = q[d]
    BY <2>1, MirrorOf
  <2> HIDE DEF r
  <2>3. \A d \in Axes : r[d] = p[d]
    <3>1. p[a] \in Int
      BY DEF Points
    <3>2. r[a] = p[a]
      BY <2>1, <2>2, <3>1
    <3> QED BY <2>1, <2>2, <3>2
  <2>4. 1 \in Axes /\ 2 \in Axes /\ 3 \in Axes
    BY DEF Axes
  <2>5. r = p
    BY <2>2, <2>3, <2>4, SamePoint
  <2> QED BY <2>5 DEF r, q
<1>2. \A p \in Points : Mirror(Mirror(p, a), b) = Mirror(Mirror(p, b), a)
  <2> TAKE p \in Points
  <2>1. CASE a = b
    BY <2>1
  <2>2. CASE a # b
    <3> DEFINE q == Mirror(p, a)
               r == Mirror(p, b)
    <3>1. q \in Points /\ q[a] = -p[a] /\ \A d \in Axes : d # a => q[d] = p[d]
      BY MirrorOf
    <3>2. r \in Points /\ r[b] = -p[b] /\ \A d \in Axes : d # b => r[d] = p[d]
      BY MirrorOf
    <3> HIDE DEF q, r
    <3> DEFINE u == Mirror(q, b)
               v == Mirror(r, a)
    <3>3. u \in Points /\ u[b] = -q[b] /\ \A d \in Axes : d # b => u[d] = q[d]
      BY <3>1, MirrorOf
    <3>4. v \in Points /\ v[a] = -r[a] /\ \A d \in Axes : d # a => v[d] = r[d]
      BY <3>2, MirrorOf
    <3> HIDE DEF u, v
    <3>5. \A d \in Axes : u[d] = v[d]
      BY <2>2, <3>1, <3>2, <3>3, <3>4
    <3>6. 1 \in Axes /\ 2 \in Axes /\ 3 \in Axes
      BY DEF Axes
    <3>7. u = v
      BY <3>3, <3>4, <3>5, <3>6, SamePoint
    <3> QED BY <3>7 DEF u, v, q, r
  <2> QED BY <2>1, <2>2
<1>3. \A p \in Points : \A d \in Axes : Mirror(p, d) \in Points
  BY MirrorOf
<1>4. MirrorLine(MirrorLine(l, a), a) = l
  BY <1>1 DEF MirrorLine
<1>5. \A d, e \in Axes : MirrorLine(MirrorLine(l, d), e) = {Mirror(Mirror(p, d), e) : p \in l}
  BY DEF MirrorLine
<1>6. {Mirror(Mirror(p, a), b) : p \in l} = {Mirror(Mirror(p, b), a) : p \in l}
  BY <1>2
<1>7. MirrorLine(MirrorLine(l, a), b) = MirrorLine(MirrorLine(l, b), a)
  BY <1>5, <1>6
<1>8. MirrorLine(l, a) \in SUBSET Points
  BY <1>3 DEF MirrorLine
<1> QED BY <1>4, <1>7, <1>8

\* Completing a structure in one plane keeps it complete in another.
LEMMA CompletedLines ==
    ASSUME NEW L \in SUBSET (SUBSET Points), NEW a \in Axes
    PROVE  /\ ImagesOf(L \cup ImagesOf(L, a), a) = L \cup ImagesOf(L, a)
           /\ \A b \in Axes : ImagesOf(L, b) = L =>
                ImagesOf(L \cup ImagesOf(L, a), b) = L \cup ImagesOf(L, a)
<1>1. \A d, e \in Axes : \A l \in L :
        /\ MirrorLine(MirrorLine(l, d), d) = l
        /\ MirrorLine(MirrorLine(l, d), e) = MirrorLine(MirrorLine(l, e), d)
  BY MirrorLines
<1>2. ImagesOf(L \cup ImagesOf(L, a), a) = L \cup ImagesOf(L, a)
  <2>1. ImagesOf(ImagesOf(L, a), a) = L
    BY <1>1 DEF ImagesOf
  <2>2. ImagesOf(L \cup ImagesOf(L, a), a) = ImagesOf(L, a) \cup ImagesOf(ImagesOf(L, a), a)
    BY DEF ImagesOf
  <2> QED BY <2>1, <2>2
<1>3. ASSUME NEW b \in Axes, ImagesOf(L, b) = L
      PROVE  ImagesOf(L \cup ImagesOf(L, a), b) = L \cup ImagesOf(L, a)
  <2>1. ImagesOf(L \cup ImagesOf(L, a), b) = ImagesOf(L, b) \cup ImagesOf(ImagesOf(L, a), b)
    BY DEF ImagesOf
  <2>2. ImagesOf(ImagesOf(L, a), b) = ImagesOf(ImagesOf(L, b), a)
    <3>1. \A d, e \in Axes : ImagesOf(ImagesOf(L, d), e) = {MirrorLine(MirrorLine(l, d), e) : l \in L}
      BY DEF ImagesOf
    <3>2. {MirrorLine(MirrorLine(l, a), b) : l \in L} = {MirrorLine(MirrorLine(l, b), a) : l \in L}
      BY <1>1
    <3> QED BY <3>1, <3>2
  <2> QED BY <1>3, <2>1, <2>2
<1> QED BY <1>2, <1>3

\* The segments of one plane's images.
LEMMA ReflectedInAdds ==
    ASSUME NEW t \in {1, 3}, NEW c \in GXCards, NEW m \in [ok : BOOLEAN, segs : Lists(t)],
           NEW a \in Axes, ReflectedIn(c, m, a).ok
    PROVE  LET s == m.segs
               r == ReflectedIn(c, m, a).segs
           IN /\ m.ok /\ r \in Lists(t)
              /\ a \notin c.planes => r = s
              /\ a \in c.planes =>
                   /\ Len(r) = Len(s) + Len(s)
                   /\ \A i \in 1 .. Len(s) : r[i] = s[i]
                   /\ \A i \in 1 .. Len(s) :
                        /\ r[Len(s) + i].tag = CopyTag(s[i].tag, StepOf(c, a))
                        /\ r[Len(s) + i].from = Mirror(s[i].from, a)
                        /\ r[Len(s) + i].to = Mirror(s[i].to, a)
                   /\ ~\E i \in 1 .. Len(s) : InPlane(s[i], a)
<1> DEFINE s == m.segs
           r == ReflectedIn(c, m, a).segs
           more == ImagesIn(c, s, a)
<1>0. s \in Seq(Shape(t)) /\ Len(s) \in Nat /\ DOMAIN s = 1 .. Len(s)
  BY DEF Lists
<1>1. ReflectedIn(c, m, a) \in [ok : BOOLEAN, segs : Lists(t)]
  BY ReflectedInMade
<1>2. CASE (~m.ok \/ a \notin c.planes) /\ ReflectedIn(c, m, a) = m
  BY <1>1, <1>2
<1>3. CASE ReflectedIn(c, m, a) = Refusal
  BY <1>3 DEF Refusal
<1>4. CASE /\ m.ok /\ a \in c.planes
           /\ ~OverBudget(Len(s), Len(s))
           /\ ~\E i \in DOMAIN s : InPlane(s[i], a)
           /\ ReflectedIn(c, m, a) = Checked(s \o more)
  <2>1. more \in Seq(Shape(t)) /\ Len(more) = Len(s)
    BY <1>0, ImagesInIs
  <2>2. \A i \in 1 .. Len(s) :
          more[i] = Image(s[i], StepOf(c, a), Mirror(s[i].from, a), Mirror(s[i].to, a))
    BY <1>0 DEF ImagesIn
  <2>3. \A i \in 1 .. Len(s) : /\ more[i].tag = CopyTag(s[i].tag, StepOf(c, a))
                               /\ more[i].from = Mirror(s[i].from, a)
                               /\ more[i].to = Mirror(s[i].to, a)
    <3> TAKE i \in 1 .. Len(s)
    <3>1. s[i] \in Shape(t)
      BY <1>0
    <3>2. DOMAIN s[i] = {"tag", "from", "to", "radius", "part", "num", "abs", "parent"}
      BY <3>1 DEF Shape
    <3> DEFINE x == s[i]
    <3>3. more[i] = Image(x, StepOf(c, a), Mirror(x.from, a), Mirror(x.to, a))
      BY <2>2
    <3>4. x \in Shape(t)
      BY <3>1
    <3> HIDE DEF x, more
    <3> QED BY <3>3, <3>4 DEF Image, Shape, x
  <2> HIDE DEF more, s
  <2> DEFINE all == s \o more
  <2>4. /\ all \in Seq(Shape(t)) /\ Len(all) = Len(s) + Len(s)
        /\ \A i \in 1 .. Len(s) : all[i] = s[i] /\ all[Len(s) + i] = more[i]
    <3>1. all = s \o more
      OBVIOUS
    <3> HIDE DEF all
    <3>2. all \in Seq(Shape(t)) /\ Len(all) = Len(s) + Len(more)
      <4>1. s \in Seq(Shape(t)) /\ more \in Seq(Shape(t))
        BY <1>0, <2>1
      <4>2. s \o more \in Seq(Shape(t)) /\ Len(s \o more) = Len(s) + Len(more)
        BY <4>1, EndToEnd
      <4> QED BY <3>1, <4>2
    <3>3. \A i \in 1 .. Len(s) : all[i] = s[i]
      BY <1>0, <2>1, <3>1, Joined
    <3>4. \A i \in 1 .. Len(more) : all[Len(s) + i] = more[i]
      BY <1>0, <2>1, <3>1, Joined
    <3> QED BY <2>1, <3>2, <3>3, <3>4
  <2> HIDE DEF all
  <2>5. Len(all) <= MAX_SEGMENTS
    BY <1>0, <1>4, <2>4, DeckAssumption DEF OverBudget
  <2>6. r = all
    <3>1. ReflectedIn(c, m, a) = Checked(all)
      BY <1>4 DEF all
    <3> QED BY <2>4, <2>5, <3>1, CheckedIn
  <2> HIDE DEF r
  <2>7. r \in Lists(t)
    BY <1>1 DEF r
  <2> QED BY <1>0, <1>4, <2>3, <2>4, <2>6, <2>7 DEF s, r
<1> QED BY <1>2, <1>3, <1>4, ReflectedInIs

LEMMA ReflectedLines ==
    ASSUME NEW t \in {1, 3}, NEW c \in GXCards, NEW m \in [ok : BOOLEAN, segs : Lists(t)],
           NEW a \in Axes, ReflectedIn(c, m, a).ok
    PROVE  LET r == ReflectedIn(c, m, a).segs
           IN /\ a \in c.planes => ImagesOf(LinesOf(r), a) = LinesOf(r)
              /\ \A b \in Axes : ImagesOf(LinesOf(m.segs), b) = LinesOf(m.segs) =>
                                   ImagesOf(LinesOf(r), b) = LinesOf(r)
<1> DEFINE s == m.segs
           r == ReflectedIn(c, m, a).segs
<1>1. /\ m.ok /\ r \in Lists(t)
      /\ a \notin c.planes => r = s
      /\ a \in c.planes =>
           /\ Len(r) = Len(s) + Len(s)
           /\ \A i \in 1 .. Len(s) : r[i] = s[i]
           /\ \A i \in 1 .. Len(s) :
                /\ r[Len(s) + i].from = Mirror(s[i].from, a)
                /\ r[Len(s) + i].to = Mirror(s[i].to, a)
  BY ReflectedInAdds
<1>2. s \in Lists(t)
  OBVIOUS
<1> HIDE DEF s, r
<1>3. CASE a \notin c.planes
  BY <1>1, <1>3 DEF s, r
<1>4. CASE a \in c.planes
  <2>0. /\ s \in Seq(Shape(t)) /\ Len(s) \in Nat /\ DOMAIN s = 1 .. Len(s)
        /\ DOMAIN r = 1 .. Len(s) + Len(s)
    BY <1>1, <1>2, <1>4 DEF Lists
  <2>1. \A i \in 1 .. Len(s) : Ends(r[i]) = Ends(s[i]) /\ Ends(r[Len(s) + i]) = MirrorLine(Ends(s[i]), a)
    BY <1>1, <1>4 DEF Ends, MirrorLine
  <2>2. \A i \in DOMAIN r : i \in 1 .. Len(s) \/ (i - Len(s) \in 1 .. Len(s) /\ i = Len(s) + (i - Len(s)))
    BY <2>0
  <2>3. \A i \in 1 .. Len(s) : i \in DOMAIN r /\ Len(s) + i \in DOMAIN r
    BY <2>0
  <2>4. LinesOf(r) = LinesOf(s) \cup ImagesOf(LinesOf(s), a)
    <3>1. ASSUME NEW l \in LinesOf(r) PROVE l \in LinesOf(s) \cup ImagesOf(LinesOf(s), a)
      <4>1. PICK i \in DOMAIN r : l = Ends(r[i])
        BY DEF LinesOf
      <4>2. CASE i \in 1 .. Len(s)
        BY <2>0, <2>1, <4>1, <4>2 DEF LinesOf
      <4>3. CASE i - Len(s) \in 1 .. Len(s) /\ i = Len(s) + (i - Len(s))
        <5> DEFINE j == i - Len(s)
        <5>1. j \in 1 .. Len(s) /\ l = MirrorLine(Ends(s[j]), a)
          BY <2>1, <4>1, <4>3
        <5> HIDE DEF j
        <5> QED BY <2>0, <5>1 DEF LinesOf, ImagesOf
      <4> QED BY <2>2, <4>2, <4>3
    <3>2. ASSUME NEW l \in LinesOf(s) PROVE l \in LinesOf(r) /\ MirrorLine(l, a) \in LinesOf(r)
      <4>1. PICK i \in 1 .. Len(s) : l = Ends(s[i])
        BY <2>0 DEF LinesOf
      <4> QED BY <2>1, <2>3, <4>1 DEF LinesOf
    <3> QED BY <3>1, <3>2 DEF ImagesOf
  <2>5. LinesOf(s) \in SUBSET (SUBSET Points)
    <3>1. \A i \in DOMAIN s : s[i].from \in Points /\ s[i].to \in Points
      BY <2>0 DEF Shape
    <3> QED BY <3>1 DEF LinesOf, Ends
  <2> QED BY <2>4, <2>5, CompletedLines DEF s, r
<1> QED BY <1>3, <1>4

\* Block k of the images has the tags of the structure, k increments on.
Tagged(s, r, c, b) ==
    /\ Len(r) = Len(s) * 2 ^ b
    /\ \A k \in Nat : \A j \in 1 .. Len(s) :
         k * Len(s) + j <= Len(r) => r[k * Len(s) + j].tag = s[j].tag + c.inc * k

\* Place j of block k, in the first q blocks or q blocks on.
LEMMA BlockPlaces ==
    ASSUME NEW n \in Nat \ {0}, NEW q \in Nat, NEW k \in Nat, NEW j \in 1 .. n
    PROVE  /\ k * n + j \in Nat /\ 1 <= k * n + j
           /\ k < q => k * n + j <= n * q
           /\ ~(k < q) => /\ k - q \in Nat
                          /\ k * n + j = n * q + ((k - q) * n + j)
<1>1. k * n \in Nat
  OBVIOUS
<1>2. ASSUME k < q PROVE k * n + j <= n * q
  <2> DEFINE d == q - (k + 1)
  <2>1. d \in Nat /\ q = k + 1 + d
    BY <1>2
  <2> HIDE DEF d
  <2>2. n * q = k * n + n + n * d /\ n * d \in Nat
    BY <2>1
  <2> QED BY <1>1, <2>2
<1>3. ASSUME ~(k < q) PROVE k - q \in Nat /\ k * n + j = n * q + ((k - q) * n + j)
  <2> DEFINE d == k - q
  <2>1. d \in Nat /\ k = q + d
    BY <1>3
  <2> HIDE DEF d
  <2>2. k * n + j = n * q + (d * n + j)
    BY <2>1
  <2> QED BY <2>1, <2>2 DEF d
<1> QED BY <1>1, <1>2, <1>3

LEMMA TaggedOn ==
    ASSUME NEW s, NEW u, NEW r, NEW c \in GXCards, NEW b \in 0 .. 2, Tagged(s, u, c, b),
           Len(s) \in Nat \ {0}, Len(r) = Len(u) + Len(u),
           \A i \in 1 .. Len(s) : s[i].tag \in Nat \ {0},
           \A i \in 1 .. Len(u) : /\ r[i] = u[i]
                                  /\ r[Len(u) + i].tag = CopyTag(u[i].tag, c.inc * 2 ^ b)
    PROVE  Tagged(s, r, c, b + 1)
<1> DEFINE n == Len(s)
           q == 2 ^ b
<1>1. q \in Nat /\ 2 ^ (b + 1) = q + q
  <2>1. CASE b = 0
    BY <2>1
  <2>2. CASE b = 1
    BY <2>2
  <2>3. CASE b = 2
    BY <2>3
  <2> QED BY <2>1, <2>2, <2>3
<1>2. n \in Nat \ {0} /\ Len(u) = n * q /\ n * q \in Nat /\ c.inc \in Nat
  <2>1. n \in Nat \ {0} /\ Len(u) = n * q /\ c.inc \in Nat
    BY DEF Tagged, GXCards
  <2> HIDE DEF n, q
  <2> QED BY <1>1, <2>1
<1>3. \A k \in Nat : \A j \in 1 .. n :
        k * n + j <= n * q => u[k * n + j].tag = s[j].tag + c.inc * k
  <2>1. \A k \in Nat : \A j \in 1 .. n :
          k * n + j <= Len(u) => u[k * n + j].tag = s[j].tag + c.inc * k
    BY DEF Tagged
  <2> QED BY <1>2, <2>1
<1>4. \A i \in 1 .. n * q : r[i] = u[i] /\ r[n * q + i].tag = CopyTag(u[i].tag, c.inc * q)
  BY <1>2
<1>5. Len(r) = n * q + n * q
  BY <1>2
<1>6. \A j \in 1 .. n : s[j].tag \in Nat \ {0}
  OBVIOUS
<1> HIDE DEF n, q
<1>7. ASSUME NEW k \in Nat, NEW j \in 1 .. n, k * n + j <= n * q + n * q
      PROVE  r[k * n + j].tag = s[j].tag + c.inc * k
  <2>1. CASE k < q
    <3> DEFINE h == k * n + j
    <3>1. h \in 1 .. n * q
      <4>1. h \in Nat /\ 1 <= h /\ h <= n * q
        BY <1>1, <1>2, <2>1, BlockPlaces
      <4> DEFINE l == n * q
      <4>2. l \in Nat /\ h <= l
        BY <1>2, <4>1
      <4> HIDE DEF h, l
      <4>3. h \in 1 .. l
        BY <4>1, <4>2
      <4> QED BY <4>3 DEF l
    <3>2. r[h] = u[h]
      <4> HIDE DEF h
      <4> QED BY <1>4, <3>1
    <3>3. u[h].tag = s[j].tag + c.inc * k
      BY <1>3, <3>1
    <3> HIDE DEF h
    <3> QED BY <3>2, <3>3 DEF h
  <2>2. CASE ~(k < q)
    <3> DEFINE d == k - q
               h == d * n + j
               l == n * q
    <3>1. d \in Nat /\ k * n + j = l + h
      BY <1>1, <1>2, <2>2, BlockPlaces
    <3>2. h \in Nat /\ 1 <= h
      <4> HIDE DEF d
      <4> QED BY <1>1, <1>2, <3>1, BlockPlaces
    <3>3. h <= l /\ l \in Nat
      <4>1. l \in Nat /\ l + h <= l + l
        BY <1>2, <1>7, <3>1
      <4> HIDE DEF h, l
      <4> QED BY <3>2, <4>1
    <3>4. u[h].tag = s[j].tag + c.inc * d
      <4> HIDE DEF d
      <4> QED BY <1>3, <3>1, <3>3
    <3>5. r[l + h].tag = CopyTag(u[h].tag, c.inc * q)
      <4>1. h \in 1 .. n * q
        BY <3>2, <3>3
      <4> HIDE DEF h
      <4> QED BY <1>4, <4>1
    <3> HIDE DEF h, l
    <3>6. s[j].tag \in Nat \ {0} /\ c.inc * d \in Nat /\ c.inc * q \in Nat
      <4>1. s[j].tag \in Nat \ {0} /\ d \in Nat
        BY <1>6, <3>1
      <4> HIDE DEF d
      <4> QED BY <1>1, <1>2, <4>1
    <3>7. c.inc * d + c.inc * q = c.inc * k
      <4>1. d \in Nat /\ k = d + q
        BY <1>1, <3>1
      <4> HIDE DEF d
      <4> QED BY <1>1, <1>2, <4>1
    <3>8. r[l + h].tag = s[j].tag + c.inc * k
      <4> DEFINE x == s[j].tag
                 y == c.inc * d
                 z == c.inc * q
                 w == c.inc * k
      <4>1. x \in Nat \ {0} /\ y \in Nat /\ z \in Nat /\ y + z = w
        BY <3>6, <3>7
      <4>2. r[l + h].tag = CopyTag(x + y, z)
        BY <3>4, <3>5
      <4> HIDE DEF x, y, z, w
      <4>3. r[l + h].tag = x + w
        BY <4>1, <4>2 DEF CopyTag
      <4> QED BY <4>3 DEF x, w
    <3> QED BY <3>1, <3>8
  <2> QED BY <2>1, <2>2
<1>8. Len(r) = n * 2 ^ (b + 1)
  BY <1>1, <1>2, <1>5
<1> QED BY <1>5, <1>7, <1>8 DEF Tagged, n

\* As many planes are done before the next as before this one, and this one if it is one.
LEMMA PlanesDone ==
    ASSUME NEW c \in GXCards, NEW a \in Axes
    PROVE  /\ PlanesBefore(c, 3) = 0
           /\ a # 1 /\ a \notin c.planes => PlanesBefore(c, a - 1) = PlanesBefore(c, a)
           /\ a # 1 /\ a \in c.planes => PlanesBefore(c, a - 1) = PlanesBefore(c, a) + 1
<1> DEFINE B(d) == {b \in c.planes : b > d}
<1>1. c.planes \subseteq {1, 2, 3} /\ a \in {1, 2, 3}
  BY DEF GXCards, Axes
<1>2. IsFiniteSet(B(a))
  <2>1. IsFiniteSet(1 .. 3)
    <3> DEFINE i == 1
               j == 3
    <3>1. i \in Int /\ j \in Int
      OBVIOUS
    <3> HIDE DEF i, j
    <3>2. IsFiniteSet(i .. j)
      BY <3>1, FS_Interval
    <3> QED BY <3>2 DEF i, j
  <2>2. B(a) \in SUBSET (1 .. 3)
    BY <1>1
  <2> HIDE DEF B
  <2> QED BY <2>1, <2>2, FS_Subset
<1>3. B(3) = {}
  BY <1>1
<1>4. a # 1 /\ a \notin c.planes => B(a - 1) = B(a)
  BY <1>1
<1>5. a # 1 /\ a \in c.planes => B(a - 1) = B(a) \cup {a} /\ a \notin B(a)
  BY <1>1
<1>6. \A d : PlanesBefore(c, d) = Cardinality(B(d))
  BY DEF PlanesBefore
<1> HIDE DEF B
<1>7. PlanesBefore(c, 3) = 0
  BY <1>3, <1>6, FS_EmptySet
<1>8. a # 1 /\ a \notin c.planes => PlanesBefore(c, a - 1) = PlanesBefore(c, a)
  BY <1>4, <1>6
<1>9. a # 1 /\ a \in c.planes => PlanesBefore(c, a - 1) = PlanesBefore(c, a) + 1
  <2> SUFFICES ASSUME a # 1, a \in c.planes
               PROVE  PlanesBefore(c, a - 1) = PlanesBefore(c, a) + 1
    OBVIOUS
  <2>1. B(a - 1) = B(a) \cup {a} /\ a \notin B(a)
    BY <1>5
  <2>2. Cardinality(B(a) \cup {a}) = Cardinality(B(a)) + 1
    BY <1>2, <2>1, FS_AddElement
  <2> QED BY <1>6, <2>1, <2>2
<1> QED BY <1>7, <1>8, <1>9

\* One plane after another: the tags after each.
LEMMA ReflectedTags ==
    ASSUME NEW s, NEW c \in GXCards, NEW m \in [ok : BOOLEAN, segs : Lists(3)], NEW a \in Axes,
           ReflectedIn(c, m, a).ok, Len(s) \in Nat \ {0},
           \A i \in 1 .. Len(s) : s[i].tag \in Nat \ {0},
           Tagged(s, m.segs, c, PlanesBefore(c, a))
    PROVE  \E b \in 0 .. 3 : /\ Tagged(s, ReflectedIn(c, m, a).segs, c, b)
                             /\ a # 1 => b = PlanesBefore(c, a - 1)
<1> DEFINE u == m.segs
           r == ReflectedIn(c, m, a).segs
           n == PlanesBefore(c, a)
<1>1. n \in 0 .. 2 /\ StepOf(c, a) = c.inc * 2 ^ n
  BY StepOfIn
<1>2. CASE a \notin c.planes
  <2>1. r = u
    BY <1>2, ReflectedInAdds
  <2>2. a # 1 => n = PlanesBefore(c, a - 1)
    BY <1>2, PlanesDone
  <2>3. Tagged(s, r, c, n) /\ n \in 0 .. 3
    BY <1>1, <2>1
  <2> QED BY <2>2, <2>3
<1>3. CASE a \in c.planes
  <2>1. /\ Len(r) = Len(u) + Len(u)
        /\ \A i \in 1 .. Len(u) : /\ r[i] = u[i]
                                  /\ r[Len(u) + i].tag = CopyTag(u[i].tag, c.inc * 2 ^ n)
    BY <1>1, <1>3, ReflectedInAdds
  <2>2. a # 1 => n + 1 = PlanesBefore(c, a - 1)
    BY <1>3, PlanesDone
  <2>3. Tagged(s, u, c, n)
    OBVIOUS
  <2> HIDE DEF n, r, u
  <2>4. Tagged(s, r, c, n + 1)
    <3>1. n \in 0 .. 2
      BY <1>1
    <3>2. Len(r) = Len(u) + Len(u)
      BY <2>1
    <3>3. \A i \in 1 .. Len(u) : /\ r[i] = u[i]
                                  /\ r[Len(u) + i].tag = CopyTag(u[i].tag, c.inc * 2 ^ n)
      BY <2>1
    <3> QED BY <2>3, <3>1, <3>2, <3>3, TaggedOn
  <2>5. n + 1 \in 0 .. 3
    BY <1>1
  <2> QED BY <2>2, <2>4, <2>5 DEF r
<1> QED BY <1>2, <1>3

\* The tags of two blocks are apart when the structure's fit in the increment.
LEMMA BlocksApart ==
    ASSUME NEW inc \in Nat, NEW x \in 1 .. inc, NEW y \in 1 .. inc, NEW k \in Nat, NEW l \in Nat,
           x + inc * k = y + inc * l
    PROVE  k = l
<1>1. ASSUME NEW u \in 1 .. inc, NEW v \in 1 .. inc, NEW f \in Nat, NEW g \in Nat, f < g
      PROVE  u + inc * f # v + inc * g
  <2> DEFINE d == g - (f + 1)
  <2>1. d \in Nat /\ g = f + 1 + d
    BY <1>1
  <2> HIDE DEF d
  <2>2. inc * g = inc * f + inc + inc * d /\ inc * d \in Nat /\ inc * f \in Nat
    BY <2>1
  <2> QED BY <2>2
<1>2. ~(k < l) /\ ~(l < k)
  BY <1>1
<1> QED BY <1>2

LEMMA DivisionIs ==
    ASSUME NEW m \in Nat, NEW n \in Nat \ {0}
    PROVE  m \div n \in Nat /\ n * (m \div n) <= m /\ m < n * (m \div n) + n
OBVIOUS

LEMMA ReflectedCompletes ==
    ASSUME NEW s \in Lists(3), s # <<>>, NEW c \in GXCards, Reflected(c, s).ok
    PROVE  LET r == Reflected(c, s).segs
           IN /\ \A a \in c.planes : ImagesOf(LinesOf(r), a) = LinesOf(r)
              /\ (\A i \in DOMAIN s : s[i].tag \in 1 .. c.inc) =>
                   \A i, j \in DOMAIN r :
                     r[i].tag = r[j].tag => (i - 1) \div Len(s) = (j - 1) \div Len(s)
<1> DEFINE A == Made(s)
           B == ReflectedIn(c, A, 3)
           C == ReflectedIn(c, B, 2)
           D == ReflectedIn(c, C, 1)
           n == Len(s)
<1>0. 1 \in Axes /\ 2 \in Axes /\ 3 \in Axes /\ \A a \in Axes : a = 1 \/ a = 2 \/ a = 3
  BY DEF Axes
<1>1. A \in [ok : BOOLEAN, segs : Lists(3)] /\ A.segs = s
  BY DEF Made
<1>2. B \in [ok : BOOLEAN, segs : Lists(3)]
  <2> HIDE DEF A
  <2> QED BY <1>0, <1>1, ReflectedInMade
<1>3. C \in [ok : BOOLEAN, segs : Lists(3)]
  <2> HIDE DEF B
  <2> QED BY <1>0, <1>2, ReflectedInMade
<1>4. Reflected(c, s) = D
  BY DEF Reflected
<1>5. D.ok /\ D.segs \in Lists(3) /\ C.ok
  <2>1. D.ok
    BY <1>4
  <2> HIDE DEF C
  <2> QED BY <1>0, <1>3, <2>1, ReflectedInAdds
<1>6. B.ok
  <2>1. C.ok
    BY <1>5
  <2> HIDE DEF B
  <2> QED BY <1>0, <1>2, <2>1, ReflectedInAdds
<1>7. ASSUME NEW a \in c.planes PROVE ImagesOf(LinesOf(D.segs), a) = LinesOf(D.segs)
  <2>0. a \in Axes
    BY DEF GXCards
  <2>1. /\ 3 \in c.planes => ImagesOf(LinesOf(B.segs), 3) = LinesOf(B.segs)
    <3> HIDE DEF A
    <3> QED BY <1>0, <1>1, <1>6, ReflectedLines
  <2>2. /\ 2 \in c.planes => ImagesOf(LinesOf(C.segs), 2) = LinesOf(C.segs)
        /\ \A b \in Axes : ImagesOf(LinesOf(B.segs), b) = LinesOf(B.segs) =>
                             ImagesOf(LinesOf(C.segs), b) = LinesOf(C.segs)
    <3>1. C.ok
      BY <1>5
    <3> HIDE DEF B
    <3> QED BY <1>0, <1>2, <3>1, ReflectedLines
  <2>3. /\ 1 \in c.planes => ImagesOf(LinesOf(D.segs), 1) = LinesOf(D.segs)
        /\ \A b \in Axes : ImagesOf(LinesOf(C.segs), b) = LinesOf(C.segs) =>
                             ImagesOf(LinesOf(D.segs), b) = LinesOf(D.segs)
    <3>1. D.ok
      BY <1>5
    <3> HIDE DEF C
    <3> QED BY <1>0, <1>3, <3>1, ReflectedLines
  <2> HIDE DEF B, C, D
  <2> QED BY <1>0, <2>0, <2>1, <2>2, <2>3
<1>8. ASSUME \A i \in DOMAIN s : s[i].tag \in 1 .. c.inc, NEW i \in DOMAIN D.segs,
             NEW j \in DOMAIN D.segs, D.segs[i].tag = D.segs[j].tag
      PROVE  (i - 1) \div n = (j - 1) \div n
  <2>1. /\ s \in Seq(Shape(3)) /\ n \in Nat \ {0} /\ DOMAIN s = 1 .. n /\ c.inc \in Nat
        /\ \A h \in 1 .. n : s[h].tag \in Nat \ {0}
    <3>1. s \in Seq(Shape(3)) /\ n \in Nat /\ DOMAIN s = 1 .. n /\ c.inc \in Nat
      BY DEF Lists, GXCards
    <3>2. n # 0
      BY <3>1
    <3> HIDE DEF D
    <3>3. \A h \in 1 .. n : s[h].tag \in Nat \ {0}
      BY <1>8, <3>1
    <3> QED BY <3>1, <3>2, <3>3
  <2>2. Tagged(s, A.segs, c, PlanesBefore(c, 3))
    <3>1. PlanesBefore(c, 3) = 0
      BY <1>0, PlanesDone
    <3>2. n * 2 ^ 0 = n
      <4>1. 2 ^ 0 = 1
        OBVIOUS
      <4> HIDE DEF n
      <4>2. n \in Nat /\ n * 1 = n
        BY <2>1
      <4> QED BY <4>1, <4>2
    <3>3. ASSUME NEW k \in Nat, NEW h \in 1 .. n, k * n + h <= n
          PROVE  s[k * n + h].tag = s[h].tag + c.inc * k
      <4>1. k = 0
        <5> SUFFICES ASSUME k # 0 PROVE FALSE
          OBVIOUS
        <5> DEFINE d == k - 1
        <5>1. d \in Nat /\ k = d + 1
          OBVIOUS
        <5> HIDE DEF d
        <5>2. k * n = d * n + n /\ d * n \in Nat
          BY <2>1, <5>1
        <5> QED BY <2>1, <3>3, <5>2
      <4>2. k * n + h = h /\ c.inc * k = 0
        BY <2>1, <4>1
      <4>3. s[h].tag \in Nat
        BY <2>1
      <4> QED BY <4>2, <4>3
    <3> QED BY <1>1, <3>1, <3>2, <3>3 DEF Tagged
  <2>3. Tagged(s, B.segs, c, PlanesBefore(c, 2))
    <3> HIDE DEF A
    <3>1. B.ok
      BY <1>6
    <3>2. \E b \in 0 .. 3 : Tagged(s, B.segs, c, b) /\ (3 # 1 => b = PlanesBefore(c, 3 - 1))
      BY <1>0, <1>1, <2>1, <2>2, <3>1, ReflectedTags
    <3> HIDE DEF B
    <3> QED BY <3>2
  <2>4. Tagged(s, C.segs, c, PlanesBefore(c, 1))
    <3>1. C.ok
      BY <1>5
    <3> HIDE DEF B
    <3>2. \E b \in 0 .. 3 : Tagged(s, C.segs, c, b) /\ (2 # 1 => b = PlanesBefore(c, 2 - 1))
      BY <1>0, <1>2, <2>1, <2>3, <3>1, ReflectedTags
    <3> HIDE DEF C
    <3> QED BY <3>2
  <2>5. \E b \in 0 .. 3 : Tagged(s, D.segs, c, b)
    <3>1. D.ok
      BY <1>5
    <3> HIDE DEF C
    <3> QED BY <1>0, <1>3, <2>1, <2>4, <3>1, ReflectedTags
  <2> DEFINE r == D.segs
  <2>6. r \in Lists(3)
    BY <1>5
  <2> HIDE DEF D
  <2>7. Len(r) \in Nat /\ DOMAIN r = 1 .. Len(r)
    BY <2>6 DEF Lists
  <2>8. \A k \in Nat : \A h \in 1 .. n :
          k * n + h <= Len(r) => r[k * n + h].tag = s[h].tag + c.inc * k
    BY <2>5 DEF Tagged
  <2> HIDE DEF r
  <2>9. ASSUME NEW h \in DOMAIN r
        PROVE  \E x \in 1 .. c.inc : /\ (h - 1) \div n \in Nat
                                     /\ r[h].tag = x + c.inc * ((h - 1) \div n)
    <3> DEFINE k == (h - 1) \div n
               g == h - k * n
    <3>1. h - 1 \in Nat /\ h \in Nat /\ h <= Len(r)
      BY <2>7
    <3>2. k \in Nat /\ n * k <= h - 1 /\ h - 1 < n * k + n
      BY <2>1, <3>1, DivisionIs
    <3> HIDE DEF k
    <3>3. g \in 1 .. n /\ k * n + g = h
      <4>1. k * n \in Nat /\ k * n = n * k
        BY <2>1, <3>2
      <4> QED BY <2>1, <3>1, <3>2, <4>1
    <3> HIDE DEF g
    <3>4. r[h].tag = s[g].tag + c.inc * k
      <4>1. k * n + g <= Len(r)
        BY <3>1, <3>3
      <4>2. r[k * n + g].tag = s[g].tag + c.inc * k
        BY <2>8, <3>2, <3>3, <4>1
      <4> QED BY <3>3, <4>2
    <3>5. s[g].tag \in 1 .. c.inc
      BY <1>8, <2>1, <3>3
    <3> QED BY <3>2, <3>4, <3>5 DEF k
  <2>10. PICK x \in 1 .. c.inc : /\ (i - 1) \div n \in Nat
                                 /\ r[i].tag = x + c.inc * ((i - 1) \div n)
    BY <2>9 DEF r
  <2>11. PICK y \in 1 .. c.inc : /\ (j - 1) \div n \in Nat
                                 /\ r[j].tag = y + c.inc * ((j - 1) \div n)
    BY <2>9 DEF r
  <2> DEFINE k == (i - 1) \div n
             l == (j - 1) \div n
  <2>12. k \in Nat /\ l \in Nat /\ x + c.inc * k = y + c.inc * l
    BY <1>8, <2>10, <2>11 DEF r
  <2> HIDE DEF k, l
  <2>13. k = l
    BY <2>1, <2>12, BlocksApart
  <2> QED BY <2>13 DEF k, l
<1> HIDE DEF D
<1> QED BY <1>4, <1>7, <1>8

\* Nothing has no images.
LEMMA NoneReflected ==
    ASSUME NEW c \in GXCards, <<>> \in Lists(3), Reflected(c, <<>>).ok
    PROVE  Reflected(c, <<>>).segs = <<>>
<1> DEFINE A == Made(<<>>)
           B == ReflectedIn(c, A, 3)
           C == ReflectedIn(c, B, 2)
           D == ReflectedIn(c, C, 1)
<1>0. 1 \in Axes /\ 2 \in Axes /\ 3 \in Axes
  BY DEF Axes
<1>1. ASSUME NEW m \in [ok : BOOLEAN, segs : Lists(3)], m.segs = <<>>, NEW a \in Axes
      PROVE  /\ ReflectedIn(c, m, a) \in [ok : BOOLEAN, segs : Lists(3)]
             /\ ReflectedIn(c, m, a).ok => ReflectedIn(c, m, a).segs = <<>>
             /\ ReflectedIn(c, m, a).ok => m.ok
  <2> DEFINE r == ReflectedIn(c, m, a)
  <2>1. r \in [ok : BOOLEAN, segs : Lists(3)]
    BY ReflectedInMade
  <2>2. ASSUME r.ok PROVE r.segs = <<>> /\ m.ok
    <3>1. m.ok /\ (a \notin c.planes => r.segs = <<>>)
          /\ (a \in c.planes => Len(r.segs) = Len(<<>>) + Len(<<>>))
      BY <1>1, <2>2, ReflectedInAdds
    <3> HIDE DEF r
    <3>2. r.segs \in Seq(Shape(3))
      BY <2>1 DEF Lists
    <3> QED BY <3>1, <3>2
  <2> QED BY <2>1, <2>2
<1>2. A \in [ok : BOOLEAN, segs : Lists(3)] /\ A.segs = <<>>
  BY DEF Made
<1> HIDE DEF A
<1>3. B \in [ok : BOOLEAN, segs : Lists(3)] /\ (B.ok => B.segs = <<>>)
  BY <1>0, <1>1, <1>2
<1>4. B.segs = <<>> => C \in [ok : BOOLEAN, segs : Lists(3)] /\ (C.ok => C.segs = <<>> /\ B.ok)
  BY <1>0, <1>1, <1>3
<1>5. C \in [ok : BOOLEAN, segs : Lists(3)] /\ (C.ok => B.ok)
  <2> HIDE DEF B
  <2> QED BY <1>0, <1>3, ReflectedInMade, ReflectedInAdds
<1> HIDE DEF B
<1>6. D.ok => C.ok
  <2> HIDE DEF C
  <2> QED BY <1>0, <1>5, ReflectedInAdds
<1> HIDE DEF C
<1>7. D.ok
  BY DEF Reflected, A, B, C
<1>8. C.ok /\ C.segs = <<>>
  BY <1>3, <1>4, <1>5, <1>6, <1>7
<1>9. D.segs = <<>>
  BY <1>0, <1>1, <1>5, <1>7, <1>8
<1> QED BY <1>9 DEF Reflected, A, B, C

\* The images GX adds complete the structure, and when its tags fit in the increment none
\* of one image is another's (apply_gx, geometry.rs).
THEOREM DeckImagesComplete == Spec => ImagesComplete
<1> DEFINE c == Last(cards')
           L == {Ends(segs'[i]) : i \in DOMAIN segs'}
           Complete == cards' # cards /\ c.card = "GX" /\ segs' # segs =>
             /\ \A a \in c.planes : {{Mirror(p, a) : p \in l} : l \in L} = L
             /\ (\A i \in DOMAIN segs : segs[i].tag \in 1 .. c.inc) =>
                  \A i, j \in DOMAIN segs' : segs'[i].tag = segs'[j].tag =>
                    (i - 1) \div Len(segs) = (j - 1) \div Len(segs)
<1>1. DeckInv /\ [Next]_vars => Complete
  <2> SUFFICES ASSUME DeckInv, [Next]_vars, cards' # cards, c.card = "GX", segs' # segs
               PROVE  /\ \A a \in c.planes : {{Mirror(p, a) : p \in l} : l \in L} = L
                      /\ (\A i \in DOMAIN segs : segs[i].tag \in 1 .. c.inc) =>
                           \A i, j \in DOMAIN segs' : segs'[i].tag = segs'[j].tag =>
                             (i - 1) \div Len(segs) = (j - 1) \div Len(segs)
    OBVIOUS
  <2>1. PICK d \in Wires \cup Moves : GeometryCard(d)
    <3>1. CASE UNCHANGED vars
      BY <3>1 DEF vars
    <3>2. CASE GeometryEnd
      BY <3>2 DEF GeometryEnd
    <3>3. CASE \E x \in Sources : Excite(x)
      BY <3>3 DEF Excite
    <3> QED BY <3>1, <3>2, <3>3 DEF Next
  <2>2. cards \in Seq(Wires \cup Moves) /\ segs \in Lists(3)
    BY DEF DeckInv
  <2>3. c = d
    <3>1. cards' = Append(cards, d)
      BY <2>1 DEF GeometryCard
    <3> QED BY <2>2, <3>1 DEF Last
  <2>4. d \in DeckCards(3) /\ d.card = "GX"
    BY <2>3, CardsOfDecks
  <2>5. d \in GXCards /\ Expanded(d, segs) = Reflected(d, segs)
    BY <2>4, ExpandedIs
  <2>6. Expanded(d, segs).ok /\ segs' = Expanded(d, segs).segs
    BY <2>1 DEF GeometryCard
  <2>7. segs # <<>>
    <3> SUFFICES ASSUME segs = <<>> PROVE FALSE
      OBVIOUS
    <3>1. Reflected(d, <<>>).segs = <<>>
      BY <2>2, <2>5, <2>6, NoneReflected
    <3> QED BY <2>5, <2>6, <3>1
  <2>8. /\ \A a \in d.planes : ImagesOf(LinesOf(segs'), a) = LinesOf(segs')
        /\ (\A i \in DOMAIN segs : segs[i].tag \in 1 .. d.inc) =>
             \A i, j \in DOMAIN segs' :
               segs'[i].tag = segs'[j].tag => (i - 1) \div Len(segs) = (j - 1) \div Len(segs)
    BY <2>2, <2>5, <2>6, <2>7, ReflectedCompletes
  <2>9. LinesOf(segs') = L /\ \A a : ImagesOf(L, a) = {{Mirror(p, a) : p \in l} : l \in L}
    BY DEF LinesOf, ImagesOf, MirrorLine
  <2> HIDE DEF c, L
  <2> QED BY <2>3, <2>8, <2>9
<1>2. DeckInv /\ [Next]_vars =>
        [LET last == Last(cards')
             block(i) == (i - 1) \div Len(segs)
             lines == {Ends(segs'[i]) : i \in DOMAIN segs'}
         IN cards' # cards /\ last.card = "GX" /\ segs' # segs =>
              /\ \A a \in last.planes : {{Mirror(p, a) : p \in l} : l \in lines} = lines
              /\ (\A i \in DOMAIN segs : segs[i].tag \in 1 .. last.inc) =>
                   \A i, j \in DOMAIN segs' : segs'[i].tag = segs'[j].tag => block(i) = block(j)
        ]_vars
  BY <1>1
<1> QED BY <1>2, DeckInvariant, PTL DEF Spec, ImagesComplete
====
