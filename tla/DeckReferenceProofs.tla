------------------------- MODULE DeckReferenceProofs -------------------------
(***************************************************************************)
(* A card's reference to a segment, a tag and a number of that tag's or a  *)
(* number of the whole deck's, leads to the same piece of the structure    *)
(* wherever the program carries it: onto the geometry refined at its free  *)
(* ends that Hallen solves, onto the deck meshed three times finer, and,   *)
(* over ground, onto the problem of the structure and its image.           *)
(*                                                                         *)
(* A number is the rank of the segment among those of its tag, so a map    *)
(* that is strictly rising on the segments that count, and onto them,      *)
(* keeps every number (RanksKept): the middles of the pieces are such a    *)
(* map of the refined list (CutNumbers, CutFacts), and the segments that   *)
(* stand for themselves of the doubled one.  A deck meshed finer is built  *)
(* again from its cards, so there the argument is an invariant of the      *)
(* building: card by card, the finer list is the other with each segment   *)
(* cut in three (FineCut).                                                 *)
(***************************************************************************)
EXTENDS DeckProofs
-----------------------------------------------------------------------------
(* Ranks: a number's place among those of a set                            *)

UpTo(S, i) == {j \in S : j <= i}

LEMMA RanksApart ==
    ASSUME NEW n \in Nat, NEW S \in SUBSET (1 .. n), NEW i \in S, NEW j \in S,
           Cardinality(UpTo(S, i)) = Cardinality(UpTo(S, j))
    PROVE  i = j
<1>1. ASSUME NEW x \in S, NEW y \in S, x < y,
             Cardinality(UpTo(S, x)) = Cardinality(UpTo(S, y))
      PROVE  FALSE
  <2>0. \A z \in S : z \in Int
    OBVIOUS
  <2>1. UpTo(S, x) \subseteq UpTo(S, y) /\ UpTo(S, y) \subseteq 1 .. n
    <3>1. \A z \in S : z <= x => z <= y
      BY <1>1, <2>0
    <3> QED BY <3>1 DEF UpTo
  <2>2. IsFiniteSet(UpTo(S, y))
    BY <2>1, CountedIn
  <2>3. UpTo(S, x) = UpTo(S, y)
    BY <1>1, <2>1, <2>2, FS_Subset
  <2>4. y \in UpTo(S, y) /\ y \notin UpTo(S, x)
    BY <1>1, <2>0 DEF UpTo
  <2> QED BY <2>3, <2>4
<1>2. i \in Int /\ j \in Int
  OBVIOUS
<1> QED BY <1>1, <1>2

LEMMA RankedEvery ==
    ASSUME NEW n \in Nat, NEW S \in SUBSET (1 .. n), NEW m \in 1 .. Cardinality(S)
    PROVE  \E i \in S : Cardinality(UpTo(S, i)) = m
<1> DEFINE count(i) == Cardinality(UpTo(S, i))
           Enough == {i \in 0 .. n : m <= count(i)}
<1>0. \A i : UpTo(S, i) \subseteq 1 .. n
  BY DEF UpTo
<1>1. \A i : count(i) \in Nat /\ IsFiniteSet(UpTo(S, i))
  BY <1>0, CountedIn
<1>2. UpTo(S, n) = S /\ UpTo(S, 0) = {}
  <2>1. \A j \in S : j \in Int /\ j <= n /\ ~(j <= 0)
    OBVIOUS
  <2> QED BY <2>1 DEF UpTo
<1>3. n \in Enough
  BY <1>2
<1>4. PICK k \in Enough : \A i \in Enough : k <= i
  <2>1. Enough \subseteq Nat /\ Enough # {}
    BY <1>3
  <2> HIDE DEF Enough
  <2> QED BY <2>1, LeastOf
<1>5. k # 0
  BY <1>2, <1>4, FS_EmptySet
<1>6. k - 1 \in 0 .. n /\ k - 1 \notin Enough /\ k \in 1 .. n
  <2> HIDE DEF Enough
  <2>1. k \in 0 .. n
    BY <1>4 DEF Enough
  <2> QED BY <1>4, <1>5, <2>1
<1>7. count(k - 1) < m /\ m <= count(k)
  BY <1>1, <1>4, <1>6
<1>8. k \in S
  <2> SUFFICES ASSUME k \notin S PROVE FALSE
    OBVIOUS
  <2>1. \A j \in S : j <= k <=> j <= k - 1
    BY <1>6
  <2>2. UpTo(S, k) = UpTo(S, k - 1)
    BY <2>1 DEF UpTo
  <2> QED BY <1>1, <1>7, <2>2
<1>9. UpTo(S, k) = UpTo(S, k - 1) \cup {k}
  <2>1. \A j \in S : j <= k <=> j <= k - 1 \/ j = k
    BY <1>6
  <2> QED BY <1>6, <1>8, <2>1 DEF UpTo
<1>10. k \notin UpTo(S, k - 1)
  BY <1>6 DEF UpTo
<1>11. count(k) = count(k - 1) + 1
  BY <1>1, <1>9, <1>10, FS_AddElement
<1>12. count(k) = m
  <2> HIDE DEF count
  <2> QED BY <1>1, <1>7, <1>11
<1> QED BY <1>8, <1>12

LEMMA SameCount ==
    ASSUME NEW n \in Nat, NEW S \in SUBSET (1 .. n), NEW T, NEW f,
           \A x \in S : f[x] \in T,
           \A x, y \in S : f[x] = f[y] => x = y,
           \A y \in T : \E x \in S : y = f[x]
    PROVE  Cardinality(T) = Cardinality(S)
<1> DEFINE g == [x \in S |-> f[x]]
<1>1. IsFiniteSet(S)
  BY CountedIn
<1>2. g \in Bijection(S, T)
  <2>1. g \in [S -> T]
    OBVIOUS
  <2>2. \A x, y \in S : g[x] = g[y] => x = y
    OBVIOUS
  <2>3. \A y \in T : \E x \in S : g[x] = y
    OBVIOUS
  <2> HIDE DEF g
  <2> QED BY <2>1, <2>2, <2>3 DEF Bijection, Injection, Surjection, IsInjective
<1>3. ExistsBijection(S, T)
  BY <1>2 DEF ExistsBijection
<1> QED BY <1>1, <1>3, FS_Bijection

Rising(c, n, k) == c \in [1 .. n -> 1 .. k] /\ \A i, j \in 1 .. n : i < j => c[i] < c[j]
ImageOf(T, S, c) == (\A x \in S : c[x] \in T) /\ \A y \in T : \E x \in S : y = c[x]

\* A rising map keeps every rank.
LEMMA RanksKept ==
    ASSUME NEW n \in Nat, NEW k \in Nat, NEW S \in SUBSET (1 .. n), NEW T,
           NEW c, Rising(c, n, k), ImageOf(T, S, c)
    PROVE  /\ Cardinality(T) = Cardinality(S)
           /\ \A i \in 1 .. n : Cardinality(UpTo(T, c[i])) = Cardinality(UpTo(S, i))
<1>1. \A i \in 1 .. n : i \in Int /\ c[i] \in Int
  BY DEF Rising
<1>2. \A i, j \in 1 .. n : c[i] <= c[j] <=> i <= j
  BY <1>1 DEF Rising
<1>3. \A i, j \in 1 .. n : c[i] = c[j] => i = j
  BY <1>1, <1>2
<1>4. Cardinality(T) = Cardinality(S)
  <2>1. \A x, y \in S : c[x] = c[y] => x = y
    BY <1>3
  <2> QED BY <2>1, SameCount DEF ImageOf
<1>5. ASSUME NEW i \in 1 .. n
      PROVE  Cardinality(UpTo(T, c[i])) = Cardinality(UpTo(S, i))
  <2>1. UpTo(S, i) \in SUBSET (1 .. n)
    BY DEF UpTo
  <2>2. \A x \in UpTo(S, i) : c[x] \in UpTo(T, c[i])
    BY <1>2 DEF UpTo, ImageOf
  <2>3. \A x, y \in UpTo(S, i) : c[x] = c[y] => x = y
    BY <1>3, <2>1
  <2>4. \A y \in UpTo(T, c[i]) : \E x \in UpTo(S, i) : y = c[x]
    BY <1>2 DEF UpTo, ImageOf
  <2> QED BY <2>1, <2>2, <2>3, <2>4, SameCount
<1> QED BY <1>4, <1>5

\* The two, each by itself.
LEMMA CountKept ==
    ASSUME NEW n \in Nat, NEW k \in Nat, NEW S \in SUBSET (1 .. n), NEW T,
           NEW c, Rising(c, n, k), ImageOf(T, S, c)
    PROVE  Cardinality(T) = Cardinality(S)
BY RanksKept

LEMMA RankKept ==
    ASSUME NEW n \in Nat, NEW k \in Nat, NEW S \in SUBSET (1 .. n), NEW T,
           NEW c, Rising(c, n, k), ImageOf(T, S, c), NEW i \in 1 .. n
    PROVE  Cardinality(UpTo(T, c[i])) = Cardinality(UpTo(S, i))
BY RanksKept

-----------------------------------------------------------------------------
(* References: where a tag and a number lead                               *)

TaggedIn(s, tag) == {i \in 1 .. Len(s) : Counts(s[i]) /\ s[i].tag = tag}
CountedOf(s) == {i \in 1 .. Len(s) : Counts(s[i])}

Unnumbered(s) == \A i \in 1 .. Len(s) : s[i].num = 0 /\ s[i].abs = 0

\* Where the segments of s are in r, which is made of it: in their order, each with its
\* tag, and all of r that counts.
Kept(c, s, r) ==
    /\ Rising(c, Len(s), Len(r))
    /\ \A h \in 1 .. Len(r) : Counts(r[h]) => \E i \in 1 .. Len(s) : h = c[i]
    /\ \A i \in 1 .. Len(s) : Counts(s[i]) /\ Counts(r[c[i]]) /\ r[c[i]].tag = s[i].tag

\* The number of a segment is its rank.
LEMMA NumbersAreRanks ==
    ASSUME NEW s \in Seq(Piece), Unnumbered(s), NEW i \in 1 .. Len(s)
    PROVE  LET y == Numbered(s)[i]
               S == TaggedIn(s, s[i].tag)
               A == CountedOf(s)
           IN /\ y.tag = s[i].tag /\ y.part = s[i].part /\ (Counts(y) <=> Counts(s[i]))
              /\ Counts(s[i]) => /\ y.num = Cardinality(UpTo(S, i)) /\ y.num \in Nat /\ y.num # 0
                                 /\ y.abs = Cardinality(UpTo(A, i)) /\ y.abs \in Nat /\ y.abs # 0
              /\ ~Counts(s[i]) => y.num = 0 /\ y.abs = 0
<1> DEFINE y == Numbered(s)[i]
           S == TaggedIn(s, s[i].tag)
           A == CountedOf(s)
<1>0. Len(s) \in Nat
  OBVIOUS
<1>1. /\ y.tag = s[i].tag /\ y.part = s[i].part
      /\ s[i].part # "flank" => y.num = Cardinality(OfTag(s, i, s[i].tag))
                                /\ y.abs = Cardinality(OfAny(s, i))
      /\ s[i].part = "flank" => y.num = s[i].num /\ y.abs = s[i].abs
  BY NumberedIs
<1>2. UpTo(S, i) = OfTag(s, i, s[i].tag) /\ UpTo(A, i) = OfAny(s, i)
  <2>1. \A j \in 1 .. Len(s) : j <= i <=> j \in 1 .. i
    OBVIOUS
  <2>2. \A j \in 1 .. i : j \in 1 .. Len(s)
    OBVIOUS
  <2> QED BY <2>1, <2>2 DEF UpTo, TaggedIn, CountedOf, OfTag, OfAny
<1>3. UpTo(S, i) \subseteq 1 .. Len(s) /\ UpTo(A, i) \subseteq 1 .. Len(s)
  BY DEF UpTo, TaggedIn, CountedOf
<1>4. /\ IsFiniteSet(UpTo(S, i)) /\ Cardinality(UpTo(S, i)) \in Nat
      /\ IsFiniteSet(UpTo(A, i)) /\ Cardinality(UpTo(A, i)) \in Nat
  BY <1>0, <1>3, CountedIn
<1>5. Counts(s[i]) => i \in UpTo(S, i) /\ i \in UpTo(A, i)
  <2>1. i <= i
    OBVIOUS
  <2> QED BY <2>1 DEF UpTo, TaggedIn, CountedOf
<1>6. Counts(s[i]) => Cardinality(UpTo(S, i)) # 0 /\ Cardinality(UpTo(A, i)) # 0
  BY <1>4, <1>5, FS_EmptySet
<1> HIDE DEF y, S, A
<1>7. Counts(s[i]) <=> s[i].part # "flank"
  BY DEF Counts
<1>8. Counts(y) <=> y.part # "flank"
  BY DEF Counts
<1>9. ~Counts(s[i]) => y.num = 0 /\ y.abs = 0
  BY <1>1, <1>7 DEF Unnumbered
<1>10. Counts(s[i]) => /\ y.num = Cardinality(UpTo(S, i)) /\ y.num \in Nat /\ y.num # 0
                       /\ y.abs = Cardinality(UpTo(A, i)) /\ y.abs \in Nat /\ y.abs # 0
  BY <1>1, <1>2, <1>4, <1>6, <1>7
<1> QED BY <1>1, <1>7, <1>8, <1>9, <1>10 DEF y, S, A

\* A number leads to the segment that has it.
LEMMA FoundByNumber ==
    ASSUME NEW s \in Seq(Piece), Unnumbered(s), NEW i \in 1 .. Len(s), Counts(s[i])
    PROVE  /\ FindDeckSegment(Numbered(s), 0, Numbered(s)[i].abs) = i
           /\ s[i].tag # 0 => FindDeckSegment(Numbered(s), s[i].tag, Numbered(s)[i].num) = i
<1> DEFINE t == Numbered(s)
<1>0. Len(s) \in Nat /\ DOMAIN t = 1 .. Len(s)
  BY NumberedIs
<1>1. ASSUME NEW k \in 1 .. Len(s), t[k].abs = t[i].abs PROVE k = i
  <2>1. Counts(s[k]) /\ t[k].abs = Cardinality(UpTo(CountedOf(s), k))
    BY <1>1, NumbersAreRanks
  <2>2. t[i].abs = Cardinality(UpTo(CountedOf(s), i))
    BY NumbersAreRanks
  <2>3. CountedOf(s) \in SUBSET (1 .. Len(s)) /\ k \in CountedOf(s) /\ i \in CountedOf(s)
    BY <2>1 DEF CountedOf
  <2> QED BY <1>0, <1>1, <2>1, <2>2, <2>3, RanksApart
<1>2. ASSUME NEW k \in 1 .. Len(s), t[k].tag = s[i].tag, t[k].num = t[i].num PROVE k = i
  <2> DEFINE S == TaggedIn(s, s[i].tag)
  <2>1. Counts(s[k]) /\ s[k].tag = s[i].tag /\ t[k].num = Cardinality(UpTo(S, k))
    BY <1>2, NumbersAreRanks
  <2>2. t[i].num = Cardinality(UpTo(S, i))
    BY NumbersAreRanks
  <2>3. S \in SUBSET (1 .. Len(s)) /\ k \in S /\ i \in S
    BY <2>1 DEF TaggedIn
  <2> HIDE DEF S
  <2> QED BY <1>0, <1>2, <2>1, <2>2, <2>3, RanksApart
<1>3. t[i].abs # 0 /\ t[i].num # 0 /\ t[i].tag = s[i].tag
  BY NumbersAreRanks
<1> HIDE DEF t
<1>4. FindDeckSegment(t, 0, t[i].abs) = i
  <2>1. {k \in DOMAIN t : IF 0 = 0 THEN t[k].abs = t[i].abs
                          ELSE t[k].tag = 0 /\ t[k].num = t[i].abs} = {i}
    BY <1>0, <1>1
  <2>2. i <= i
    OBVIOUS
  <2> QED BY <1>3, <2>1, <2>2 DEF FindDeckSegment
<1>5. ASSUME s[i].tag # 0 PROVE FindDeckSegment(t, s[i].tag, t[i].num) = i
  <2>1. {k \in DOMAIN t : IF s[i].tag = 0 THEN t[k].abs = t[i].num
                          ELSE t[k].tag = s[i].tag /\ t[k].num = t[i].num} = {i}
    BY <1>0, <1>2, <1>3, <1>5
  <2>2. i <= i
    OBVIOUS
  <2> QED BY <1>3, <2>1, <2>2 DEF FindDeckSegment
<1> QED BY <1>4, <1>5 DEF t

Middle(S) == (Cardinality(S) + 1) \div 2

\* A tag alone leads to the segment in the middle of it.
LEMMA PortIsMiddle ==
    ASSUME NEW s \in Seq(Piece), Unnumbered(s), NEW tag \in Nat \ {0}, TaggedIn(s, tag) # {}
    PROVE  /\ FindPort(Numbered(s), tag, 0) \in TaggedIn(s, tag)
           /\ Cardinality(UpTo(TaggedIn(s, tag), FindPort(Numbered(s), tag, 0)))
                = Middle(TaggedIn(s, tag))
<1> DEFINE t == Numbered(s)
           S == TaggedIn(s, tag)
           Rank(i) == Cardinality({j \in S : j <= i})
<1>0. Len(s) \in Nat /\ DOMAIN t = 1 .. Len(s)
  BY NumberedIs
<1>1. {i \in DOMAIN t : t[i].tag = tag /\ Counts(t[i])} = S
  <2>1. \A i \in 1 .. Len(s) : t[i].tag = s[i].tag /\ (Counts(t[i]) <=> Counts(s[i]))
    BY NumbersAreRanks
  <2> HIDE DEF t
  <2> QED BY <1>0, <2>1 DEF TaggedIn
<1>2. S \in SUBSET (1 .. Len(s)) /\ S # {}
  BY DEF TaggedIn
<1> HIDE DEF t
<1>3. FindPort(t, tag, 0) = CHOOSE i \in S : Rank(i) = Middle(S)
  BY <1>1, <1>2 DEF FindPort, Middle
<1> HIDE DEF S
<1>4. \A i : Rank(i) = Cardinality(UpTo(S, i))
  BY DEF UpTo
<1>5. Middle(S) \in 1 .. Cardinality(S)
  <2>1. IsFiniteSet(S) /\ Cardinality(S) \in Nat
    BY <1>0, <1>2, CountedIn
  <2>2. Cardinality(S) # 0
    BY <1>2, <2>1, FS_EmptySet
  <2> QED BY <2>1, <2>2 DEF Middle
<1> HIDE DEF Rank
<1>6. \E i \in S : Rank(i) = Middle(S)
  <2> DEFINE m == Middle(S)
  <2>1. m \in 1 .. Cardinality(S)
    BY <1>5
  <2> HIDE DEF m
  <2>2. \E i \in S : Cardinality(UpTo(S, i)) = m
    BY <1>0, <1>2, <2>1, RankedEvery
  <2> QED BY <1>4, <2>2 DEF m
<1>7. FindPort(t, tag, 0) \in S /\ Rank(FindPort(t, tag, 0)) = Middle(S)
  BY <1>3, <1>6
<1> QED BY <1>4, <1>7 DEF S, t

\* What is kept is counted alike.
LEMMA KeptRanks ==
    ASSUME NEW s \in Seq(Piece), NEW r \in Seq(Piece), NEW c, Kept(c, s, r), NEW tag
    PROVE  /\ Cardinality(TaggedIn(r, tag)) = Cardinality(TaggedIn(s, tag))
           /\ \A i \in 1 .. Len(s) :
                /\ Cardinality(UpTo(TaggedIn(r, tag), c[i])) = Cardinality(UpTo(TaggedIn(s, tag), i))
                /\ Cardinality(UpTo(CountedOf(r), c[i])) = Cardinality(UpTo(CountedOf(s), i))
                /\ i \in TaggedIn(s, tag) <=> c[i] \in TaggedIn(r, tag)
<1>0. Len(s) \in Nat /\ Len(r) \in Nat
  OBVIOUS
<1>1. /\ Rising(c, Len(s), Len(r)) /\ \A i \in 1 .. Len(s) : c[i] \in 1 .. Len(r)
      /\ \A h \in 1 .. Len(r) : Counts(r[h]) => \E i \in 1 .. Len(s) : h = c[i]
      /\ \A i \in 1 .. Len(s) : Counts(s[i]) /\ Counts(r[c[i]]) /\ r[c[i]].tag = s[i].tag
  BY DEF Kept, Rising
<1>2. /\ TaggedIn(s, tag) \in SUBSET (1 .. Len(s)) /\ CountedOf(s) \in SUBSET (1 .. Len(s))
      /\ TaggedIn(r, tag) \in SUBSET (1 .. Len(r)) /\ CountedOf(r) \in SUBSET (1 .. Len(r))
  BY DEF TaggedIn, CountedOf
<1>3. \A i \in 1 .. Len(s) : i \in TaggedIn(s, tag) <=> c[i] \in TaggedIn(r, tag)
  BY <1>1 DEF TaggedIn
<1>4. ImageOf(TaggedIn(r, tag), TaggedIn(s, tag), c)
  <2>1. \A x \in TaggedIn(s, tag) : c[x] \in TaggedIn(r, tag)
    BY <1>2, <1>3
  <2>2. \A y \in TaggedIn(r, tag) : \E x \in TaggedIn(s, tag) : y = c[x]
    BY <1>1, <1>3 DEF TaggedIn
  <2> QED BY <2>1, <2>2 DEF ImageOf
<1>5. ImageOf(CountedOf(r), CountedOf(s), c)
  <2>1. \A x \in CountedOf(s) : c[x] \in CountedOf(r)
    BY <1>1 DEF CountedOf
  <2>2. \A y \in CountedOf(r) : \E x \in CountedOf(s) : y = c[x]
    BY <1>1 DEF CountedOf
  <2> QED BY <2>1, <2>2 DEF ImageOf
<1> DEFINE n == Len(s)
           k == Len(r)
<1>6. ASSUME NEW S \in SUBSET (1 .. Len(s)), NEW T, ImageOf(T, S, c)
      PROVE  /\ Cardinality(T) = Cardinality(S)
             /\ \A i \in 1 .. Len(s) : Cardinality(UpTo(T, c[i])) = Cardinality(UpTo(S, i))
  <2>1. n \in Nat /\ k \in Nat /\ S \in SUBSET (1 .. n) /\ Rising(c, n, k)
    BY <1>0, <1>1
  <2> HIDE DEF n, k
  <2>2. Cardinality(T) = Cardinality(S)
    BY <1>6, <2>1, CountKept
  <2>3. \A i \in 1 .. n : Cardinality(UpTo(T, c[i])) = Cardinality(UpTo(S, i))
    BY <1>6, <2>1, RankKept
  <2> QED BY <2>2, <2>3 DEF n
<1>7. /\ Cardinality(TaggedIn(r, tag)) = Cardinality(TaggedIn(s, tag))
      /\ \A i \in 1 .. Len(s) :
           Cardinality(UpTo(TaggedIn(r, tag), c[i])) = Cardinality(UpTo(TaggedIn(s, tag), i))
  BY <1>2, <1>4, <1>6
<1>8. \A i \in 1 .. Len(s) :
        Cardinality(UpTo(CountedOf(r), c[i])) = Cardinality(UpTo(CountedOf(s), i))
  BY <1>2, <1>5, <1>6
<1> QED BY <1>3, <1>7, <1>8

LEMMA KeptNumbers ==
    ASSUME NEW s \in Seq(Piece), NEW r \in Seq(Piece), Unnumbered(s), Unnumbered(r), NEW c,
           Kept(c, s, r), NEW i \in 1 .. Len(s)
    PROVE  /\ Numbered(r)[c[i]].num = Numbered(s)[i].num
           /\ Numbered(r)[c[i]].abs = Numbered(s)[i].abs
           /\ FindDeckSegment(Numbered(r), 0, Numbered(s)[i].abs) = c[i]
           /\ s[i].tag # 0 => FindDeckSegment(Numbered(r), s[i].tag, Numbered(s)[i].num) = c[i]
<1>1. Counts(s[i]) /\ c[i] \in 1 .. Len(r) /\ Counts(r[c[i]]) /\ r[c[i]].tag = s[i].tag
  BY DEF Kept, Rising
<1>2. /\ Numbered(s)[i].num = Cardinality(UpTo(TaggedIn(s, s[i].tag), i))
      /\ Numbered(s)[i].abs = Cardinality(UpTo(CountedOf(s), i))
  BY <1>1, NumbersAreRanks
<1> DEFINE h == c[i]
<1>3. h \in 1 .. Len(r) /\ Counts(r[h]) /\ r[h].tag = s[i].tag
  BY <1>1
<1> HIDE DEF h
<1>4. /\ Numbered(r)[h].num = Cardinality(UpTo(TaggedIn(r, s[i].tag), h))
      /\ Numbered(r)[h].abs = Cardinality(UpTo(CountedOf(r), h))
  BY <1>3, NumbersAreRanks
<1>5. /\ Cardinality(UpTo(TaggedIn(r, s[i].tag), c[i])) = Cardinality(UpTo(TaggedIn(s, s[i].tag), i))
      /\ Cardinality(UpTo(CountedOf(r), c[i])) = Cardinality(UpTo(CountedOf(s), i))
  BY KeptRanks
<1>6. Numbered(r)[h].num = Numbered(s)[i].num /\ Numbered(r)[h].abs = Numbered(s)[i].abs
  BY <1>2, <1>4, <1>5 DEF h
<1>7. /\ FindDeckSegment(Numbered(r), 0, Numbered(r)[h].abs) = h
      /\ r[h].tag # 0 => FindDeckSegment(Numbered(r), r[h].tag, Numbered(r)[h].num) = h
  BY <1>3, FoundByNumber
<1> QED BY <1>3, <1>6, <1>7 DEF h

LEMMA KeptPort ==
    ASSUME NEW s \in Seq(Piece), NEW r \in Seq(Piece), Unnumbered(s), Unnumbered(r), NEW c,
           Kept(c, s, r), NEW tag \in Nat \ {0}, TaggedIn(s, tag) # {}
    PROVE  /\ FindPort(Numbered(s), tag, 0) \in TaggedIn(s, tag)
           /\ FindPort(Numbered(r), tag, 0) = c[FindPort(Numbered(s), tag, 0)]
<1> DEFINE p == FindPort(Numbered(s), tag, 0)
           q == FindPort(Numbered(r), tag, 0)
           S == TaggedIn(s, tag)
           T == TaggedIn(r, tag)
<1>1. p \in S /\ Cardinality(UpTo(S, p)) = Middle(S)
  BY PortIsMiddle
<1>2. p \in 1 .. Len(s)
  BY <1>1 DEF TaggedIn
<1>3. Cardinality(T) = Cardinality(S) /\ Cardinality(UpTo(T, c[p])) = Cardinality(UpTo(S, p))
  BY <1>2, KeptRanks
<1>4. c[p] \in T
  BY <1>1, <1>2, KeptRanks
<1>5. q \in T /\ Cardinality(UpTo(T, q)) = Middle(T)
  BY <1>4, PortIsMiddle
<1>6. T \in SUBSET (1 .. Len(r)) /\ Len(r) \in Nat
  BY DEF TaggedIn
<1> HIDE DEF p, q, S, T
<1>7. Middle(T) = Middle(S)
  BY <1>3 DEF Middle
<1>8. q = c[p]
  BY <1>1, <1>3, <1>4, <1>5, <1>6, <1>7, RanksApart
<1> QED BY <1>1, <1>8 DEF p, q, S
-----------------------------------------------------------------------------
(* The pieces of a refined list                                            *)

\* The k-th third of a segment.
IsThird(x, y, k) ==
    /\ y.tag = x.tag /\ y.num = x.num /\ y.abs = x.abs
    /\ y.part = IF k = 2 THEN "centre" ELSE "flank"
    /\ OnThird(x.from, x.to, y.from, k - 1) /\ OnThird(x.from, x.to, y.to, k)

Pieces(place, s, r, free, i) ==
    /\ place[i - 1] \in Nat /\ place[i] \in Nat
    /\ i \in free => /\ place[i] = place[i - 1] + 3
                     /\ \A k \in 1 .. 3 : IsThird(s[i], r[place[i - 1] + k], k)
    /\ i \notin free => place[i] = place[i - 1] + 1 /\ r[place[i - 1] + 1] = s[i]

\* A list r is cut from s: the pieces of the i-th segment are those after place[i - 1], up
\* to place[i].
CutFrom(place, s, r, free) ==
    /\ \A i \in 1 .. Len(s) : Pieces(place, s, r, free, i)
    /\ \A i \in 1 .. Len(s) : place[i] <= Len(r)
    /\ \A h \in 1 .. Len(r) : \E i \in 1 .. Len(s) : place[i - 1] < h /\ h <= place[i]

LEMMA RefinedIsCut ==
    ASSUME NEW s \in Lists(3), NEW free
    PROVE  \E place : CutFrom(place, s, Refined(s, free), free)
<1> DEFINE r == Refined(s, free)
           q == PartsOf(s, free)
<1>0. /\ q \in Seq(Seq(Piece)) /\ Len(q) = Len(s) /\ Len(s) \in Nat
      /\ \A i \in 1 .. Len(s) : /\ s[i] \in Piece /\ Spans(s[i].from, s[i].to, 3)
                                /\ i \in free => q[i] = Thirds(s[i])
                                /\ i \notin free => q[i] = <<s[i]>>
  BY PartsAre, ListsArePieces
<1>1. PICK place \in [0 .. Len(s) -> Nat] : Placed(place, q, r)
  BY RefinedIs
<1> HIDE DEF q, r
<1>2. /\ \A k \in 1 .. Len(s) : place[k] = place[k - 1] + Len(q[k])
      /\ \A k \in 1 .. Len(s) : \A i \in 1 .. Len(q[k]) :
           place[k - 1] + i \in 1 .. Len(r) /\ r[place[k - 1] + i] = q[k][i]
      /\ \A h \in 1 .. Len(r) : \E k \in 1 .. Len(s) : \E i \in 1 .. Len(q[k]) : h = place[k - 1] + i
  BY <1>0, <1>1 DEF Placed
<1>3. ASSUME NEW i \in 1 .. Len(s)
      PROVE  /\ Pieces(place, s, r, free, i) /\ place[i] <= Len(r)
             /\ Len(q[i]) \in Nat /\ place[i - 1] \in Nat /\ place[i] = place[i - 1] + Len(q[i])
  <2>1. i \in 0 .. Len(s) /\ i - 1 \in 0 .. Len(s)
    BY <1>0
  <2>2. place[i] \in Nat /\ place[i - 1] \in Nat /\ place[i] = place[i - 1] + Len(q[i])
    BY <1>1, <1>2, <2>1
  <2>3. CASE i \in free
    <3>1. /\ Len(q[i]) = 3
          /\ \A k \in 1 .. 3 : IsThird(s[i], q[i][k], k)
      BY <1>0, <2>3, ThirdsAre DEF IsThird
    <3>2. 3 \in 1 .. Len(q[i]) /\ \A k \in 1 .. 3 : k \in 1 .. Len(q[i])
      BY <3>1
    <3>3. place[i - 1] + 3 \in 1 .. Len(r) /\ \A k \in 1 .. 3 : r[place[i - 1] + k] = q[i][k]
      BY <1>2, <3>2
    <3>4. place[i - 1] + 3 <= Len(r)
      BY <3>3
    <3> QED BY <2>2, <2>3, <3>1, <3>3, <3>4 DEF Pieces
  <2>4. CASE i \notin free
    <3>1. q[i] = <<s[i]>>
      BY <1>0, <2>4
    <3>2. Len(q[i]) = 1 /\ q[i][1] = s[i] /\ 1 \in 1 .. Len(q[i])
      BY <3>1
    <3>3. place[i - 1] + 1 \in 1 .. Len(r) /\ r[place[i - 1] + 1] = s[i]
      BY <1>2, <3>2
    <3>4. place[i - 1] + 1 <= Len(r)
      BY <3>3
    <3> QED BY <2>2, <2>4, <3>2, <3>3, <3>4 DEF Pieces
  <2> QED BY <2>3, <2>4
<1>4. ASSUME NEW h \in 1 .. Len(r)
      PROVE  \E i \in 1 .. Len(s) : place[i - 1] < h /\ h <= place[i]
  <2>1. PICK k \in 1 .. Len(s) : \E i \in 1 .. Len(q[k]) : h = place[k - 1] + i
    BY <1>2
  <2>2. PICK i \in 1 .. Len(q[k]) : h = place[k - 1] + i
    BY <2>1
  <2>3. place[k - 1] \in Nat /\ place[k] = place[k - 1] + Len(q[k]) /\ Len(q[k]) \in Nat
    BY <1>3
  <2>4. place[k - 1] < h /\ h <= place[k]
    BY <2>2, <2>3
  <2> QED BY <2>4
<1>5. CutFrom(place, s, r, free)
  BY <1>3, <1>4 DEF CutFrom
<1> QED BY <1>5 DEF r

\* Later segments have later pieces.
LEMMA PiecesRise ==
    ASSUME NEW n \in Nat, NEW place, \A i \in 1 .. n : /\ place[i - 1] \in Nat /\ place[i] \in Nat
                                                       /\ place[i - 1] <= place[i]
    PROVE  \A i, j \in 1 .. n : i < j => place[i] <= place[j - 1]
<1> SUFFICES ASSUME NEW i \in 1 .. n PROVE \A j \in 1 .. n : i < j => place[i] <= place[j - 1]
  OBVIOUS
<1> DEFINE T == {j \in 0 .. n : i <= j => place[i] <= place[j]}
<1>1. 0 \in T
  OBVIOUS
<1>2. ASSUME NEW j \in 1 .. n, j - 1 \in T PROVE j \in T
  <2>1. place[j - 1] \in Nat /\ place[j] \in Nat /\ place[j - 1] <= place[j] /\ place[i] \in Nat
    OBVIOUS
  <2>2. CASE i = j
    BY <2>1, <2>2
  <2>3. CASE i # j
    BY <1>2, <2>1, <2>3
  <2> QED BY <2>2, <2>3
<1>3. \A j \in 0 .. n : j \in T
  <2> HIDE DEF T
  <2> QED BY <1>1, <1>2, Upwards
<1> QED BY <1>3
Centres(place, s, free) == [i \in 1 .. Len(s) |-> place[i - 1] + IF i \in free THEN 2 ELSE 1]

\* What a piece is.
LEMMA PieceIs ==
    ASSUME NEW s, NEW r, NEW free, NEW place, NEW i \in 1 .. Len(s), s[i].part = "whole",
           Pieces(place, s, r, free, i), NEW h \in Nat, place[i - 1] < h, h <= place[i]
    PROVE  LET c == Centres(place, s, free)[i]
           IN /\ c \in Nat /\ place[i - 1] < c /\ c <= place[i]
              /\ r[h].tag = s[i].tag /\ r[h].num = s[i].num /\ r[h].abs = s[i].abs
              /\ i \notin free => h = c /\ r[h] = s[i]
              /\ i \in free => \/ h = c /\ IsThird(s[i], r[h], 2)
                               \/ h = c - 1 /\ IsThird(s[i], r[h], 1)
                               \/ h = c + 1 /\ IsThird(s[i], r[h], 3)
              /\ Counts(r[h]) <=> h = c
              /\ r[c].part = IF i \in free THEN "centre" ELSE "whole"
<1> DEFINE c == Centres(place, s, free)[i]
           p == place[i - 1]
<1>1. p \in Nat /\ place[i] \in Nat
  BY DEF Pieces
<1>2. c = p + IF i \in free THEN 2 ELSE 1
  BY DEF Centres
<1>3. CASE i \in free
  <2>1. place[i] = p + 3 /\ \A k \in 1 .. 3 : IsThird(s[i], r[p + k], k)
    BY <1>3 DEF Pieces
  <2> HIDE DEF p, c
  <2>2. IsThird(s[i], r[p + 1], 1) /\ IsThird(s[i], r[p + 2], 2) /\ IsThird(s[i], r[p + 3], 3)
    BY <2>1
  <2>3. c = p + 2 /\ c \in Nat /\ p < c /\ c <= place[i]
    BY <1>1, <1>2, <1>3, <2>1
  <2>4. p < h /\ h <= p + 3
    BY <2>1 DEF p
  <2>5. \/ h = p + 1 /\ h = c - 1
        \/ h = p + 2 /\ h = c
        \/ h = p + 3 /\ h = c + 1
    BY <1>1, <2>3, <2>4
  <2>6. \/ h = c /\ IsThird(s[i], r[h], 2)
        \/ h = c - 1 /\ IsThird(s[i], r[h], 1)
        \/ h = c + 1 /\ IsThird(s[i], r[h], 3)
    BY <2>2, <2>5
  <2>7. h = c => ~(h = c - 1 \/ h = c + 1)
    BY <2>3
  <2>8. /\ r[h].tag = s[i].tag /\ r[h].num = s[i].num /\ r[h].abs = s[i].abs
        /\ Counts(r[h]) <=> h = c
    BY <2>6, <2>7 DEF IsThird, Counts
  <2>9. r[c].part = "centre"
    BY <2>2, <2>3 DEF IsThird
  <2> QED BY <1>3, <2>3, <2>6, <2>8, <2>9 DEF c, p
<1>4. CASE i \notin free
  <2>1. place[i] = p + 1 /\ r[p + 1] = s[i]
    BY <1>4 DEF Pieces
  <2> HIDE DEF p, c
  <2>2. c = p + 1 /\ c \in Nat /\ p < c /\ c <= place[i]
    BY <1>1, <1>2, <1>4, <2>1
  <2>3. p < h /\ h <= p + 1
    BY <2>1 DEF p
  <2>4. h = c /\ r[c] = s[i]
    BY <1>1, <2>1, <2>2, <2>3
  <2>5. Counts(s[i])
    BY DEF Counts
  <2> QED BY <1>4, <2>2, <2>4, <2>5 DEF c, p
<1> QED BY <1>3, <1>4

\* Whatever is cut is cut from one segment.
LEMMA CutKept ==
    ASSUME NEW s \in Lists(3), NEW r \in Seq(Piece), NEW free, NEW place, CutFrom(place, s, r, free)
    PROVE  Kept(Centres(place, s, free), s, r) /\ Unnumbered(s) /\ Unnumbered(r)
<1> DEFINE c == Centres(place, s, free)
<1>0. Len(s) \in Nat /\ Len(r) \in Nat /\ s \in Seq(Piece) /\ \A i \in 1 .. Len(s) : s[i].part = "whole"
  BY ListsArePieces
<1>1. \A i \in 1 .. Len(s) : s[i].num = 0 /\ s[i].abs = 0
  BY DEF Lists, Shape
<1>2. \A i \in 1 .. Len(s) : Pieces(place, s, r, free, i) /\ place[i] <= Len(r)
                             /\ place[i - 1] \in Nat /\ place[i] \in Nat
  BY DEF CutFrom, Pieces
<1>3. ASSUME NEW i \in 1 .. Len(s)
      PROVE  /\ c[i] \in Nat /\ place[i - 1] < c[i] /\ c[i] <= place[i] /\ c[i] \in 1 .. Len(r)
             /\ place[i - 1] <= place[i]
             /\ Counts(s[i]) /\ Counts(r[c[i]]) /\ r[c[i]].tag = s[i].tag
  <2>1. /\ place[i - 1] \in Nat /\ place[i] \in Nat /\ place[i] <= Len(r) /\ s[i].part = "whole"
        /\ Pieces(place, s, r, free, i)
    BY <1>0, <1>2
  <2> DEFINE h == c[i]
  <2>2. h = place[i - 1] + IF i \in free THEN 2 ELSE 1
    BY DEF Centres
  <2>3. place[i] = place[i - 1] + IF i \in free THEN 3 ELSE 1
    BY <2>1 DEF Pieces
  <2> HIDE DEF h
  <2>4. h \in Nat /\ place[i - 1] < h /\ h <= place[i] /\ h \in 1 .. Len(r)
        /\ place[i - 1] <= place[i]
    BY <1>0, <2>1, <2>2, <2>3
  <2>5. r[h].tag = s[i].tag /\ (Counts(r[h]) <=> h = Centres(place, s, free)[i])
    BY <2>1, <2>4, PieceIs
  <2>6. Counts(s[i])
    BY <2>1 DEF Counts
  <2> QED BY <2>4, <2>5, <2>6 DEF h
<1>4. \A i, j \in 1 .. Len(s) : i < j => place[i] <= place[j - 1]
  BY <1>0, <1>2, <1>3, PiecesRise
<1>5. \A i, j \in 1 .. Len(s) : i < j => c[i] < c[j]
  <2> SUFFICES ASSUME NEW i \in 1 .. Len(s), NEW j \in 1 .. Len(s), i < j PROVE c[i] < c[j]
    OBVIOUS
  <2>1. c[i] \in Nat /\ c[i] <= place[i] /\ c[j] \in Nat /\ place[j - 1] < c[j]
    BY <1>3
  <2>2. place[i] \in Nat /\ place[j - 1] \in Nat
    BY <1>2
  <2>3. place[i] <= place[j - 1]
    BY <1>4
  <2> HIDE DEF c
  <2> QED BY <2>1, <2>2, <2>3
<1>6. ASSUME NEW h \in 1 .. Len(r)
      PROVE  \E i \in 1 .. Len(s) : /\ place[i - 1] < h /\ h <= place[i]
                                    /\ r[h].num = s[i].num /\ r[h].abs = s[i].abs
                                    /\ Counts(r[h]) => h = c[i]
  <2>1. PICK i \in 1 .. Len(s) : place[i - 1] < h /\ h <= place[i]
    BY DEF CutFrom
  <2>2. s[i].part = "whole" /\ Pieces(place, s, r, free, i) /\ h \in Nat
    BY <1>0, <1>2
  <2>3. r[h].num = s[i].num /\ r[h].abs = s[i].abs /\ (Counts(r[h]) <=> h = c[i])
    BY <2>1, <2>2, PieceIs
  <2> QED BY <2>1, <2>3
<1>7. Rising(c, Len(s), Len(r))
  <2>1. c \in [1 .. Len(s) -> 1 .. Len(r)]
    <3>1. \A i \in 1 .. Len(s) : c[i] \in 1 .. Len(r)
      BY <1>3
    <3>2. c = [i \in 1 .. Len(s) |-> c[i]]
      BY DEF Centres
    <3> HIDE DEF c
    <3> QED BY <3>1, <3>2
  <2> QED BY <1>5, <2>1 DEF Rising
<1>8. \A i \in 1 .. Len(s) : Counts(s[i]) /\ Counts(r[c[i]]) /\ r[c[i]].tag = s[i].tag
  BY <1>3
<1>9. \A h \in 1 .. Len(r) : Counts(r[h]) => \E i \in 1 .. Len(s) : h = c[i]
  BY <1>6
<1>10. Unnumbered(s) /\ Unnumbered(r)
  <2>1. \A h \in 1 .. Len(r) : r[h].num = 0 /\ r[h].abs = 0
    BY <1>1, <1>6
  <2> QED BY <1>1, <2>1 DEF Unnumbered
<1> HIDE DEF c
<1> QED BY <1>7, <1>8, <1>9, <1>10 DEF Kept, c
-----------------------------------------------------------------------------
(* Overlaps                                                                *)

LEMMA CancelFactor ==
    ASSUME NEW D \in Int \ {0}, NEW x \in Int, NEW y \in Int, D * x = D * y
    PROVE  x = y
OBVIOUS

LEMMA TimesOrder ==
    ASSUME NEW k \in Nat \ {0}, NEW x \in Int, NEW y \in Int
    PROVE  x < y <=> k * x < k * y
OBVIOUS

LEMMA CrossCancels ==
    ASSUME NEW D \in Int \ {0}, NEW E \in Int, NEW da \in Int, NEW db \in Int, NEW ea \in Int,
           NEW eb \in Int, NEW wa \in Int, NEW wb \in Int,
           D * ea = da * E, D * eb = db * E, da * wb = db * wa
    PROVE  ea * wb = eb * wa
<1>1. (D * ea) * wb = (da * E) * wb /\ (D * eb) * wa = (db * E) * wa
  OBVIOUS
<1>2. (da * E) * wb = E * (da * wb)
  OBVIOUS
<1>3. (db * E) * wa = E * (db * wa)
  OBVIOUS
<1>4. D * (ea * wb) = D * (eb * wa)
  BY <1>1, <1>2, <1>3
<1> DEFINE x == ea * wb
           y == eb * wa
<1>5. x \in Int /\ y \in Int /\ D * x = D * y
  BY <1>4
<1> HIDE DEF x, y
<1> QED BY <1>5 DEF x, y

LEMMA ScaledOrder ==
    ASSUME NEW D \in Int \ {0}, NEW m \in Nat \ {0}, NEW x \in Int, NEW y \in Int,
           NEW X \in Int, NEW Y \in Int, D * x = X * m, D * y = Y * m
    PROVE  /\ D > 0 => (x < y <=> X < Y)
           /\ D < 0 => (x < y <=> Y < X)
<1>1. m * X < m * Y <=> X < Y
  OBVIOUS
<1>2. m * Y < m * X <=> Y < X
  OBVIOUS
<1>3. D > 0 => (x < y <=> D * x < D * y)
  OBVIOUS
<1>4. D < 0 => (x < y <=> D * y < D * x)
  OBVIOUS
<1>5. X * m = m * X /\ Y * m = m * Y
  OBVIOUS
<1> QED BY <1>1, <1>2, <1>3, <1>4, <1>5

Span(x, a) == x.to[a] - x.from[a]

\* Segments along one line; and on an axis, each begins before the other ends.
InOneLine(x, y) ==
    \A a, b \in Axes :
        /\ Span(x, a) * Span(y, b) = Span(x, b) * Span(y, a)
        /\ Span(x, a) * (y.from[b] - x.from[b]) = Span(x, b) * (y.from[a] - x.from[a])

Before(x, y, a) == \E p \in Ends(x) : \E q \in Ends(y) : p[a] < q[a]
Meets(x, y, a) == Before(x, y, a) /\ Before(y, x, a)

LEMMA PieceParts ==
    ASSUME NEW x \in Piece
    PROVE  /\ x.from \in Points /\ x.to \in Points /\ x.from # x.to
           /\ \A a \in Axes : x.from[a] \in Int /\ x.to[a] \in Int /\ Span(x, a) \in Int
           /\ Along(x) \in Points /\ \A a \in Axes : Along(x)[a] = Span(x, a)
           /\ \E a \in Axes : Span(x, a) # 0
<1>1. x.from \in Points /\ x.to \in Points /\ x.from # x.to
  BY DEF Piece
<1>2. \A a \in Axes : x.from[a] \in Int /\ x.to[a] \in Int /\ Span(x, a) \in Int
  BY <1>1 DEF Points, Span
<1>3. Along(x) \in Points /\ \A a \in Axes : Along(x)[a] = Span(x, a)
  BY <1>1, MinusOf DEF Along, Span
<1>4. \E a \in Axes : Span(x, a) # 0
  <2>1. \E a \in Axes : x.from[a] # x.to[a]
    BY <1>1 DEF Points
  <2> QED BY <1>2, <2>1 DEF Span
<1> QED BY <1>1, <1>2, <1>3, <1>4

LEMMA CrossIs ==
    ASSUME NEW p \in Points, NEW q \in Points
    PROVE  Cross(p, q) = Origin <=> \A a, b \in Axes : p[a] * q[b] = p[b] * q[a]
<1>0. /\ p[1] \in Int /\ p[2] \in Int /\ p[3] \in Int /\ q[1] \in Int /\ q[2] \in Int /\ q[3] \in Int
  BY PointParts
<1> DEFINE n12 == p[1] * q[2]
           n21 == p[2] * q[1]
           n13 == p[1] * q[3]
           n31 == p[3] * q[1]
           n23 == p[2] * q[3]
           n32 == p[3] * q[2]
<1>1. Cross(p, q) = <<n23 - n32, n31 - n13, n12 - n21>>
  BY DEF Cross
<1>2. /\ n12 \in Int /\ n21 \in Int /\ n13 \in Int /\ n31 \in Int /\ n23 \in Int /\ n32 \in Int
  BY <1>0
<1>3. (\A a, b \in Axes : p[a] * q[b] = p[b] * q[a]) <=> n12 = n21 /\ n13 = n31 /\ n23 = n32
  <2>1. \A a \in Axes : a = 1 \/ a = 2 \/ a = 3
    BY DEF Axes
  <2>2. 1 \in Axes /\ 2 \in Axes /\ 3 \in Axes
    BY DEF Axes
  <2>3. ASSUME \A a, b \in Axes : p[a] * q[b] = p[b] * q[a] PROVE n12 = n21 /\ n13 = n31 /\ n23 = n32
    BY <2>2, <2>3
  <2>4. ASSUME n12 = n21 /\ n13 = n31 /\ n23 = n32, NEW a \in Axes, NEW b \in Axes
        PROVE  p[a] * q[b] = p[b] * q[a]
    <3>1. (a = 1 \/ a = 2 \/ a = 3) /\ (b = 1 \/ b = 2 \/ b = 3)
      BY <2>1
    <3> QED BY <2>4, <3>1
  <2> QED BY <2>3, <2>4
<1> HIDE DEF n12, n21, n13, n31, n23, n32
<1>4. <<n23 - n32, n31 - n13, n12 - n21>> = <<0, 0, 0>> <=> n12 = n21 /\ n13 = n31 /\ n23 = n32
  BY <1>2
<1> QED BY <1>1, <1>3, <1>4 DEF Origin
\* A segment that is in line with another goes along it on every axis it does.
LEMMA InLineSpans ==
    ASSUME NEW x \in Piece, NEW y \in Piece, InOneLine(x, y), NEW a \in Axes, Span(x, a) # 0
    PROVE  Span(y, a) # 0
<1>1. PICK b \in Axes : Span(y, b) # 0
  BY PieceParts
<1>2. Span(x, a) * Span(y, b) = Span(x, b) * Span(y, a)
  BY DEF InOneLine
<1> DEFINE k == Span(x, a)
           l == Span(y, b)
           m == Span(x, b)
<1>3. k \in Int \ {0} /\ l \in Int \ {0} /\ m \in Int /\ Span(y, a) \in Int
  BY <1>1, PieceParts
<1>4. k * l = m * Span(y, a)
  BY <1>2
<1> HIDE DEF k, l, m
<1>5. k * l # 0
  BY <1>3
<1>6. m * 0 = 0
  BY <1>3
<1> QED BY <1>4, <1>5, <1>6

LEMMA LineBothWays ==
    ASSUME NEW x \in Piece, NEW y \in Piece, InOneLine(x, y)
    PROVE  InOneLine(y, x)
<1>1. PICK k \in Axes : Span(x, k) # 0
  BY PieceParts
<1> SUFFICES ASSUME NEW a \in Axes, NEW b \in Axes
             PROVE  /\ Span(y, a) * Span(x, b) = Span(y, b) * Span(x, a)
                    /\ Span(y, a) * (x.from[b] - y.from[b]) = Span(y, b) * (x.from[a] - y.from[a])
  BY DEF InOneLine
<1> DEFINE D == Span(x, k)
           E == Span(y, k)
           da == Span(x, a)
           db == Span(x, b)
           ea == Span(y, a)
           eb == Span(y, b)
           wa == y.from[a] - x.from[a]
           wb == y.from[b] - x.from[b]
           va == x.from[a] - y.from[a]
           vb == x.from[b] - y.from[b]
<1>2. /\ D \in Int \ {0} /\ E \in Int /\ da \in Int /\ db \in Int /\ ea \in Int /\ eb \in Int
      /\ wa \in Int /\ wb \in Int /\ va = -wa /\ vb = -wb
  BY <1>1, PieceParts
<1>3. D * ea = da * E /\ D * eb = db * E /\ da * wb = db * wa /\ da * eb = db * ea
  BY DEF InOneLine
<1> HIDE DEF D, E, da, db, ea, eb, wa, wb, va, vb
<1>4. ea * wb = eb * wa
  BY <1>2, <1>3, CrossCancels
<1>5. ea * vb = eb * va
  <2>1. ea * (-wb) = -(ea * wb) /\ eb * (-wa) = -(eb * wa)
    BY <1>2
  <2> QED BY <1>2, <1>4, <2>1
<1>6. ea * db = eb * da
  <2>1. ea * db = db * ea /\ eb * da = da * eb
    BY <1>2
  <2> QED BY <1>3, <2>1
<1> QED BY <1>5, <1>6 DEF ea, eb, da, db, va, vb

LEMMA DotAlong ==
    ASSUME NEW d \in Points, NEW v \in Points, NEW a \in Axes, \A b \in Axes : d[a] * v[b] = d[b] * v[a]
    PROVE  Dot(v, d) \in Int /\ Dot(d, d) \in Int /\ d[a] * Dot(v, d) = v[a] * Dot(d, d)
<1> DEFINE D == d[a]
           V == v[a]
<1>0. /\ d[1] \in Int /\ d[2] \in Int /\ d[3] \in Int /\ v[1] \in Int /\ v[2] \in Int /\ v[3] \in Int
      /\ D \in Int /\ V \in Int
  BY PointParts DEF Points
<1>1. D * v[1] = d[1] * V /\ D * v[2] = d[2] * V /\ D * v[3] = d[3] * V
  <2>1. 1 \in Axes /\ 2 \in Axes /\ 3 \in Axes
    BY DEF Axes
  <2> QED BY <2>1
<1>2. Dot(v, d) = v[1] * d[1] + v[2] * d[2] + v[3] * d[3] /\ Dot(d, d) = d[1] * d[1] + d[2] * d[2] + d[3] * d[3]
  BY DEF Dot
<1> DEFINE d1 == d[1]
           d2 == d[2]
           d3 == d[3]
           v1 == v[1]
           v2 == v[2]
           v3 == v[3]
<1>3. /\ d1 \in Int /\ d2 \in Int /\ d3 \in Int /\ v1 \in Int /\ v2 \in Int /\ v3 \in Int
      /\ D * v1 = d1 * V /\ D * v2 = d2 * V /\ D * v3 = d3 * V
  BY <1>0, <1>1
<1> HIDE DEF D, V, d1, d2, d3, v1, v2, v3
<1>4. D * (v1 * d1) = V * (d1 * d1) /\ D * (v2 * d2) = V * (d2 * d2) /\ D * (v3 * d3) = V * (d3 * d3)
  <2>1. D * (v1 * d1) = (D * v1) * d1 /\ D * (v2 * d2) = (D * v2) * d2 /\ D * (v3 * d3) = (D * v3) * d3
    BY <1>0, <1>3
  <2>2. (d1 * V) * d1 = V * (d1 * d1) /\ (d2 * V) * d2 = V * (d2 * d2) /\ (d3 * V) * d3 = V * (d3 * d3)
    BY <1>0, <1>3
  <2> QED BY <1>3, <2>1, <2>2
<1>5. D * (v1 * d1 + v2 * d2 + v3 * d3) = V * (d1 * d1 + d2 * d2 + d3 * d3)
  <2> DEFINE p1 == v1 * d1
             p2 == v2 * d2
             p3 == v3 * d3
             s1 == d1 * d1
             s2 == d2 * d2
             s3 == d3 * d3
  <2>1. /\ p1 \in Int /\ p2 \in Int /\ p3 \in Int /\ s1 \in Int /\ s2 \in Int /\ s3 \in Int
        /\ D * p1 = V * s1 /\ D * p2 = V * s2 /\ D * p3 = V * s3
    BY <1>3, <1>4
  <2> HIDE DEF p1, p2, p3, s1, s2, s3
  <2>2. D * (p1 + p2 + p3) = D * p1 + D * p2 + D * p3 /\ V * (s1 + s2 + s3) = V * s1 + V * s2 + V * s3
    BY <1>0, <2>1
  <2> QED BY <2>1, <2>2 DEF p1, p2, p3, s1, s2, s3
<1>6. Dot(v, d) = v1 * d1 + v2 * d2 + v3 * d3 /\ Dot(d, d) = d1 * d1 + d2 * d2 + d3 * d3
  BY <1>2 DEF d1, d2, d3, v1, v2, v3
<1>7. Dot(v, d) \in Int /\ Dot(d, d) \in Int
  BY <1>3, <1>6
<1> QED BY <1>5, <1>6, <1>7 DEF D, V

LEMMA SquareSum ==
    ASSUME NEW d \in Points, NEW a \in Axes, d[a] # 0
    PROVE  Dot(d, d) \in Nat \ {0}
<1>0. d[1] \in Int /\ d[2] \in Int /\ d[3] \in Int /\ (a = 1 \/ a = 2 \/ a = 3)
  BY PointParts
<1> DEFINE s1 == d[1] * d[1]
           s2 == d[2] * d[2]
           s3 == d[3] * d[3]
<1>1. s1 \in Nat /\ s2 \in Nat /\ s3 \in Nat
  BY <1>0
<1>2. /\ d[1] # 0 => s1 # 0
      /\ d[2] # 0 => s2 # 0
      /\ d[3] # 0 => s3 # 0
  <2>1. \A k \in Int : k # 0 => k * k # 0
    OBVIOUS
  <2> QED BY <1>0, <2>1
<1>3. Dot(d, d) = s1 + s2 + s3
  BY DEF Dot
<1> HIDE DEF s1, s2, s3
<1> QED BY <1>0, <1>1, <1>2, <1>3
\* Which of two spans, along d, begins and ends first is seen on any axis d is on.
LEMMA OverlapIs ==
    ASSUME NEW x \in Piece, NEW y \in Piece, NEW a \in Axes, Span(x, a) # 0
    PROVE  Overlap(x, y) <=> InOneLine(x, y) /\ Meets(x, y, a)
<1> DEFINE d == Along(x)
           e == Along(y)
           w == Minus(y.from, x.from)
           v == Minus(y.to, x.from)
           u == Dot(w, d)
           t == Dot(v, d)
           m == Dot(d, d)
           D == d[a]
           W == w[a]
           V == v[a]
<1>0. /\ d \in Points /\ e \in Points /\ w \in Points /\ v \in Points /\ D = Span(x, a) /\ D # 0
      /\ \A b \in Axes : /\ d[b] = Span(x, b) /\ e[b] = Span(y, b)
                         /\ w[b] = y.from[b] - x.from[b] /\ v[b] = y.to[b] - x.from[b]
                         /\ v[b] = w[b] + e[b] /\ d[b] \in Int /\ e[b] \in Int /\ w[b] \in Int
  <2>1. /\ x.from \in Points /\ x.to \in Points /\ y.from \in Points /\ y.to \in Points
        /\ d \in Points /\ e \in Points
        /\ \A b \in Axes : d[b] = Span(x, b) /\ e[b] = Span(y, b)
    BY PieceParts
  <2>2. w \in Points /\ v \in Points
        /\ \A b \in Axes : w[b] = y.from[b] - x.from[b] /\ v[b] = y.to[b] - x.from[b]
    BY <2>1, MinusOf
  <2>3. \A b \in Axes : /\ d[b] \in Int /\ e[b] \in Int /\ w[b] \in Int
                        /\ y.from[b] \in Int /\ y.to[b] \in Int /\ x.from[b] \in Int
    BY <2>1, <2>2 DEF Points
  <2>4. \A b \in Axes : v[b] = w[b] + e[b]
    <3> SUFFICES ASSUME NEW b \in Axes PROVE v[b] = w[b] + e[b]
      OBVIOUS
    <3>1. e[b] = y.to[b] - y.from[b]
      BY <2>1 DEF Span
    <3> HIDE DEF v, w, e
    <3> QED BY <2>2, <2>3, <3>1
  <2> QED BY <2>1, <2>2, <2>3, <2>4
<1>1. (Cross(d, e) = Origin /\ Cross(d, w) = Origin) <=> InOneLine(x, y)
  <2>1. Cross(d, e) = Origin <=> \A b, c \in Axes : d[b] * e[c] = d[c] * e[b]
    BY <1>0, CrossIs
  <2>2. Cross(d, w) = Origin <=> \A b, c \in Axes : d[b] * w[c] = d[c] * w[b]
    BY <1>0, CrossIs
  <2> HIDE DEF d, e, w
  <2> QED BY <1>0, <2>1, <2>2 DEF InOneLine
<1>2. Overlap(x, y) <=>
        /\ Cross(d, e) = Origin /\ Cross(d, w) = Origin
        /\ LET Low(k, l) == IF k < l THEN k ELSE l
               High(k, l) == IF k > l THEN k ELSE l
           IN Low(High(u, t), m) > High(Low(u, t), 0)
  BY DEF Overlap
<1>3. Meets(x, y, a) <=> /\ 0 < W \/ 0 < V \/ D < W \/ D < V
                         /\ W < 0 \/ V < 0 \/ W < D \/ V < D
  <2> DEFINE xf == x.from[a]
             xt == x.to[a]
             yf == y.from[a]
             yt == y.to[a]
  <2>1. xf \in Int /\ xt \in Int /\ yf \in Int /\ yt \in Int
    BY PieceParts
  <2>2. D = xt - xf /\ W = yf - xf /\ V = yt - xf
    BY <1>0 DEF Span
  <2>3. /\ Before(x, y, a) <=> xf < yf \/ xf < yt \/ xt < yf \/ xt < yt
        /\ Before(y, x, a) <=> yf < xf \/ yt < xf \/ yf < xt \/ yt < xt
    BY DEF Before, Ends
  <2> HIDE DEF xf, xt, yf, yt, D, W, V
  <2> QED BY <2>1, <2>2, <2>3 DEF Meets
<1>4. ASSUME InOneLine(x, y)
      PROVE  /\ u \in Int /\ t \in Int /\ m \in Nat \ {0} /\ D \in Int \ {0} /\ W \in Int /\ V \in Int
             /\ D * u = W * m /\ D * t = V * m /\ W # V
  <2>1. \A b \in Axes : D * w[b] = d[b] * W
    BY <1>0, <1>4 DEF InOneLine
  <2>2. \A b \in Axes : D * v[b] = d[b] * V
    <3> SUFFICES ASSUME NEW b \in Axes PROVE D * v[b] = d[b] * V
      OBVIOUS
    <3>1. D * w[b] = d[b] * W /\ D * e[b] = d[b] * e[a]
      BY <1>0, <1>4, <2>1 DEF InOneLine
    <3>2. v[b] = w[b] + e[b] /\ V = W + e[a]
      BY <1>0
    <3> DEFINE wb == w[b]
               eb == e[b]
               db == d[b]
               ea == e[a]
    <3>3. /\ D \in Int /\ W \in Int /\ wb \in Int /\ eb \in Int /\ db \in Int /\ ea \in Int
          /\ D * wb = db * W /\ D * eb = db * ea
      BY <1>0, <3>1
    <3> HIDE DEF D, W, wb, eb, db, ea
    <3>4. D * (wb + eb) = D * wb + D * eb /\ db * (W + ea) = db * W + db * ea
      BY <3>3
    <3>5. D * (wb + eb) = db * (W + ea)
      BY <3>3, <3>4
    <3> HIDE DEF V
    <3> QED BY <3>2, <3>5 DEF wb, eb, db, ea
  <2>3. u \in Int /\ D * u = W * m
    <3> HIDE DEF d, w
    <3> QED BY <1>0, <2>1, DotAlong
  <2>4. t \in Int /\ D * t = V * m
    <3> HIDE DEF d, v
    <3> QED BY <1>0, <2>2, DotAlong
  <2>5. m \in Nat \ {0}
    <3> HIDE DEF d
    <3> QED BY <1>0, SquareSum
  <2>6. e[a] # 0
    <3>1. Span(y, a) # 0
      BY <1>4, InLineSpans
    <3> QED BY <1>0, <3>1
  <2>7. D \in Int \ {0} /\ W \in Int /\ V \in Int /\ W # V
    <3> DEFINE ea == e[a]
    <3>1. V = W + ea /\ ea # 0 /\ D \in Int /\ D # 0 /\ W \in Int /\ ea \in Int
      BY <1>0, <2>6
    <3> HIDE DEF ea, D, W, V
    <3> QED BY <3>1
  <2> QED BY <2>3, <2>4, <2>5, <2>7
<1>5. ASSUME InOneLine(x, y)
      PROVE  (LET Low(k, l) == IF k < l THEN k ELSE l
                  High(k, l) == IF k > l THEN k ELSE l
              IN Low(High(u, t), m) > High(Low(u, t), 0))
             <=> (0 < W \/ 0 < V \/ D < W \/ D < V) /\ (W < 0 \/ V < 0 \/ W < D \/ V < D)
  <2>0. /\ u \in Int /\ t \in Int /\ m \in Nat \ {0} /\ D \in Int \ {0} /\ W \in Int /\ V \in Int
        /\ D * u = W * m /\ D * t = V * m /\ W # V
    BY <1>4, <1>5
  <2> HIDE DEF u, t, m, D, W, V
  <2>1. D * m = D * m /\ D * 0 = 0 * m
    BY <2>0
  <2>2. /\ D > 0 => (u < m <=> W < D) /\ (t < m <=> V < D) /\ (0 < u <=> 0 < W) /\ (0 < t <=> 0 < V)
        /\ D < 0 => (u < m <=> D < W) /\ (t < m <=> D < V) /\ (0 < u <=> W < 0) /\ (0 < t <=> V < 0)
    <3>1. (D > 0 => (u < m <=> W < D)) /\ (D < 0 => (u < m <=> D < W))
      BY <2>0, <2>1, ScaledOrder
    <3>2. (D > 0 => (t < m <=> V < D)) /\ (D < 0 => (t < m <=> D < V))
      BY <2>0, <2>1, ScaledOrder
    <3>3. (D > 0 => (0 < u <=> 0 < W)) /\ (D < 0 => (0 < u <=> W < 0))
      BY <2>0, <2>1, ScaledOrder
    <3>4. (D > 0 => (0 < t <=> 0 < V)) /\ (D < 0 => (0 < t <=> V < 0))
      BY <2>0, <2>1, ScaledOrder
    <3> QED BY <3>1, <3>2, <3>3, <3>4
  <2>3. u # t
    <3> SUFFICES ASSUME u = t PROVE FALSE
      OBVIOUS
    <3>1. m * W = m * V
      <4>1. W * m = V * m
        BY <2>0
      <4> QED BY <2>0, <4>1
    <3> QED BY <2>0, <3>1, CancelFactor
  <2>4. (LET Low(k, l) == IF k < l THEN k ELSE l
             High(k, l) == IF k > l THEN k ELSE l
         IN Low(High(u, t), m) > High(Low(u, t), 0)) <=> (0 < u \/ 0 < t) /\ (u < m \/ t < m)
    BY <2>0, <2>3
  <2> QED BY <2>0, <2>2, <2>4
<1> HIDE DEF d, e, w, v, u, t, m, D, W, V
<1> QED BY <1>1, <1>2, <1>3, <1>5

LEMMA OverlapBothWays ==
    ASSUME NEW x \in Piece, NEW y \in Piece, Overlap(x, y)
    PROVE  Overlap(y, x)
<1>1. PICK a \in Axes : Span(x, a) # 0
  BY PieceParts
<1>2. InOneLine(x, y) /\ Meets(x, y, a)
  BY <1>1, OverlapIs
<1>3. InOneLine(y, x) /\ Span(y, a) # 0
  BY <1>1, <1>2, LineBothWays, InLineSpans
<1>4. Meets(y, x, a)
  BY <1>2 DEF Meets
<1> QED BY <1>3, <1>4, OverlapIs
ThirdOf(x, y, k) == OnThird(x.from, x.to, y.from, k - 1) /\ OnThird(x.from, x.to, y.to, k)

LEMMA ThirdSpans ==
    ASSUME NEW x \in Piece, NEW y \in Piece, NEW k \in 1 .. 3, ThirdOf(x, y, k), NEW b \in Axes
    PROVE  /\ 3 * Span(y, b) = Span(x, b)
           /\ 3 * (y.from[b] - x.from[b]) = (k - 1) * Span(x, b)
           /\ \A q \in Ends(y) : /\ \E r \in Ends(x) : r[b] <= q[b]
                                 /\ \E r \in Ends(x) : q[b] <= r[b]
                                 /\ q[b] \in Int
<1> DEFINE f == x.from[b]
           t == x.to[b]
           yf == y.from[b]
           yt == y.to[b]
<1>1. f \in Int /\ t \in Int /\ yf \in Int /\ yt \in Int
  BY PieceParts
<1>2. 3 * yf = (3 - (k - 1)) * f + (k - 1) * t /\ 3 * yt = (3 - k) * f + k * t
  BY DEF ThirdOf, OnThird
<1>3. Span(y, b) = yt - yf /\ Span(x, b) = t - f
  BY DEF Span
<1>4. (k = 1 \/ k = 2 \/ k = 3) /\ 0 * f = 0 /\ 0 * t = 0 /\ 1 * f = f /\ 1 * t = t
  BY <1>1
<1>5. \A q \in Ends(y) : q[b] = yf \/ q[b] = yt
  BY DEF Ends
<1>6. x.from \in Ends(x) /\ x.to \in Ends(x)
  BY DEF Ends
<1>7. (\E r \in Ends(x) : r[b] = f) /\ \E r \in Ends(x) : r[b] = t
  BY <1>6
<1> HIDE DEF f, t, yf, yt
<1>8. 3 * (yt - yf) = t - f /\ 3 * (yf - f) = (k - 1) * (t - f)
  BY <1>1, <1>2, <1>4
<1>9. /\ f <= yf \/ t <= yf
      /\ f <= yt \/ t <= yt
      /\ yf <= f \/ yf <= t
      /\ yt <= f \/ yt <= t
  BY <1>1, <1>2, <1>4
<1>10. 3 * Span(y, b) = Span(x, b) /\ 3 * (y.from[b] - x.from[b]) = (k - 1) * Span(x, b)
  BY <1>3, <1>8 DEF f, yf
<1>11. ASSUME NEW q \in Ends(y)
       PROVE  /\ \E r \in Ends(x) : r[b] <= q[b]
              /\ \E r \in Ends(x) : q[b] <= r[b]
              /\ q[b] \in Int
  <2>1. PICK r1 \in Ends(x) : r1[b] = f
    BY <1>7
  <2>2. PICK r2 \in Ends(x) : r2[b] = t
    BY <1>7
  <2> QED BY <1>1, <1>5, <1>9, <2>1, <2>2
<1> QED BY <1>10, <1>11

LEMMA ThirdInLine ==
    ASSUME NEW x \in Piece, NEW z \in Piece, NEW y \in Piece, NEW k \in 1 .. 3, ThirdOf(z, y, k)
    PROVE  InOneLine(x, y) <=> InOneLine(x, z)
<1>1. ASSUME NEW a \in Axes, NEW b \in Axes
      PROVE  /\ Span(x, a) * Span(y, b) = Span(x, b) * Span(y, a)
                  <=> Span(x, a) * Span(z, b) = Span(x, b) * Span(z, a)
             /\ Span(x, a) * Span(z, b) = Span(x, b) * Span(z, a) =>
                  (Span(x, a) * (y.from[b] - x.from[b]) = Span(x, b) * (y.from[a] - x.from[a])
                     <=> Span(x, a) * (z.from[b] - x.from[b]) = Span(x, b) * (z.from[a] - x.from[a]))
  <2> DEFINE da == Span(x, a)
             db == Span(x, b)
             ea == Span(z, a)
             eb == Span(z, b)
             ya == Span(y, a)
             yb == Span(y, b)
             wa == z.from[a] - x.from[a]
             wb == z.from[b] - x.from[b]
             va == y.from[a] - x.from[a]
             vb == y.from[b] - x.from[b]
  <2>1. /\ da \in Int /\ db \in Int /\ ea \in Int /\ eb \in Int /\ ya \in Int /\ yb \in Int
        /\ wa \in Int /\ wb \in Int /\ va \in Int /\ vb \in Int
    BY PieceParts
  <2>2. 3 * ya = ea /\ 3 * yb = eb
    BY ThirdSpans
  <2>3. 3 * va = 3 * wa + (k - 1) * ea /\ 3 * vb = 3 * wb + (k - 1) * eb
    <3>1. /\ z.from[a] \in Int /\ z.from[b] \in Int /\ y.from[a] \in Int /\ y.from[b] \in Int
          /\ x.from[a] \in Int /\ x.from[b] \in Int
      BY PieceParts
    <3>2. /\ 3 * (y.from[a] - z.from[a]) = (k - 1) * ea
          /\ 3 * (y.from[b] - z.from[b]) = (k - 1) * eb
      BY ThirdSpans
    <3> DEFINE pa == (k - 1) * ea
               pb == (k - 1) * eb
    <3>3. /\ 3 * (y.from[a] - z.from[a]) = pa /\ 3 * (y.from[b] - z.from[b]) = pb
          /\ pa \in Int /\ pb \in Int
      BY <2>1, <3>2
    <3> HIDE DEF pa, pb
    <3>4. 3 * va = 3 * wa + pa /\ 3 * vb = 3 * wb + pb
      BY <3>1, <3>3
    <3> QED BY <3>4 DEF pa, pb
  <2> DEFINE j == k - 1
  <2>4. j \in Int /\ 3 * va = 3 * wa + j * ea /\ 3 * vb = 3 * wb + j * eb
    BY <2>3
  <2> HIDE DEF da, db, ea, eb, ya, yb, wa, wb, va, vb, j
  <2>5. da * eb = 3 * (da * yb) /\ db * ea = 3 * (db * ya)
    <3>1. da * (3 * yb) = 3 * (da * yb) /\ db * (3 * ya) = 3 * (db * ya)
      BY <2>1
    <3> QED BY <2>2, <3>1
  <2>6. /\ 3 * (da * vb) = 3 * (da * wb) + j * (da * eb)
        /\ 3 * (db * va) = 3 * (db * wa) + j * (db * ea)
    <3>1. da * (3 * vb) = da * (3 * wb + j * eb) /\ db * (3 * va) = db * (3 * wa + j * ea)
      BY <2>4
    <3>2. da * (3 * vb) = 3 * (da * vb) /\ db * (3 * va) = 3 * (db * va)
      BY <2>1
    <3>3. da * (3 * wb + j * eb) = 3 * (da * wb) + j * (da * eb)
      BY <2>1, <2>4
    <3>4. db * (3 * wa + j * ea) = 3 * (db * wa) + j * (db * ea)
      BY <2>1, <2>4
    <3> QED BY <3>1, <3>2, <3>3, <3>4
  <2> DEFINE m1 == da * yb
             m2 == db * ya
             m3 == da * vb
             m4 == db * va
             m5 == da * wb
             m6 == db * wa
             m7 == da * eb
             m8 == db * ea
             m9 == j * m7
             m10 == j * m8
  <2>7. /\ m1 \in Int /\ m2 \in Int /\ m3 \in Int /\ m4 \in Int /\ m5 \in Int /\ m6 \in Int
        /\ m7 \in Int /\ m8 \in Int /\ m9 \in Int /\ m10 \in Int
    BY <2>1, <2>4
  <2>8. m7 = m8 => m9 = m10
    OBVIOUS
  <2>9. m7 = 3 * m1 /\ m8 = 3 * m2 /\ 3 * m3 = 3 * m5 + m9 /\ 3 * m4 = 3 * m6 + m10
    BY <2>5, <2>6
  <2> HIDE DEF m1, m2, m3, m4, m5, m6, m7, m8, m9, m10
  <2>10. (m1 = m2 <=> m7 = m8) /\ (m7 = m8 => (m3 = m4 <=> m5 = m6))
    BY <2>7, <2>8, <2>9
  <2> QED BY <2>10 DEF m1, m2, m3, m4, m5, m6, m7, m8, da, db, ea, eb, ya, yb, wa, wb, va, vb
<1> QED BY <1>1 DEF InOneLine

LEMMA WholeOverlaps ==
    ASSUME NEW x \in Piece, NEW z \in Piece, NEW y \in Piece, NEW k \in 1 .. 3, ThirdOf(z, y, k),
           Overlap(x, y)
    PROVE  Overlap(x, z)
<1>1. PICK a \in Axes : Span(x, a) # 0
  BY PieceParts
<1>2. InOneLine(x, y) /\ Meets(x, y, a)
  BY <1>1, OverlapIs
<1>3. InOneLine(x, z)
  BY <1>2, ThirdInLine
<1>4. /\ \A q \in Ends(y) : /\ \E r \in Ends(z) : r[a] <= q[a]
                            /\ \E r \in Ends(z) : q[a] <= r[a]
                            /\ q[a] \in Int
      /\ \A r \in Ends(z) \cup Ends(x) : r[a] \in Int
  BY ThirdSpans, PieceParts DEF Ends
<1>5. Before(x, z, a)
  <2>1. PICK p \in Ends(x) : \E q \in Ends(y) : p[a] < q[a]
    BY <1>2 DEF Meets, Before
  <2>2. PICK q \in Ends(y) : p[a] < q[a]
    BY <2>1
  <2>3. PICK r \in Ends(z) : q[a] <= r[a]
    BY <1>4
  <2>4. p[a] < r[a]
    BY <1>4, <2>2, <2>3
  <2> QED BY <2>4 DEF Before
<1>6. Before(z, x, a)
  <2>1. PICK q \in Ends(y) : \E p \in Ends(x) : q[a] < p[a]
    BY <1>2 DEF Meets, Before
  <2>2. PICK p \in Ends(x) : q[a] < p[a]
    BY <2>1
  <2>3. PICK r \in Ends(z) : r[a] <= q[a]
    BY <1>4
  <2>4. r[a] < p[a]
    BY <1>4, <2>2, <2>3
  <2> QED BY <2>4 DEF Before
<1> QED BY <1>1, <1>3, <1>5, <1>6, OverlapIs DEF Meets

\* A segment overlaps itself and its thirds.
LEMMA OwnOverlap ==
    ASSUME NEW x \in Piece
    PROVE  /\ Overlap(x, x)
           /\ \A y \in Piece : \A k \in 1 .. 3 : ThirdOf(x, y, k) => Overlap(x, y)
<1>1. PICK a \in Axes : Span(x, a) # 0
  BY PieceParts
<1>2. \A b \in Axes : Span(x, b) \in Int /\ x.from[b] \in Int /\ x.to[b] \in Int
  BY PieceParts
<1>3. InOneLine(x, x)
  <2> SUFFICES ASSUME NEW b \in Axes, NEW c \in Axes
               PROVE  /\ Span(x, b) * Span(x, c) = Span(x, c) * Span(x, b)
                      /\ Span(x, b) * (x.from[c] - x.from[c]) = Span(x, c) * (x.from[b] - x.from[b])
    BY DEF InOneLine
  <2> DEFINE m == Span(x, b)
             n == Span(x, c)
  <2>1. m \in Int /\ n \in Int /\ x.from[c] - x.from[c] = 0 /\ x.from[b] - x.from[b] = 0
    BY <1>2
  <2> HIDE DEF m, n
  <2>2. m * n = n * m /\ m * 0 = 0 /\ n * 0 = 0
    BY <2>1
  <2> QED BY <2>1, <2>2 DEF m, n
<1>4. Span(x, a) = x.to[a] - x.from[a]
  BY DEF Span
<1>5. Before(x, x, a)
  <2>1. x.from[a] < x.to[a] \/ x.to[a] < x.from[a]
    BY <1>1, <1>2, <1>4
  <2> QED BY <2>1 DEF Before, Ends
<1>6. ASSUME NEW y \in Piece, NEW k \in 1 .. 3, ThirdOf(x, y, k) PROVE Overlap(x, y)
  <2>1. InOneLine(x, y)
    BY <1>3, <1>6, ThirdInLine
  <2>2. 3 * Span(y, a) = Span(x, a) /\ 3 * (y.from[a] - x.from[a]) = (k - 1) * Span(x, a)
    BY <1>6, ThirdSpans
  <2> DEFINE f == x.from[a]
             t == x.to[a]
             yf == y.from[a]
             yt == y.to[a]
  <2>3. f \in Int /\ t \in Int /\ yf \in Int /\ yt \in Int /\ t # f
    BY <1>1, <1>2, <1>4, PieceParts
  <2>4. 3 * (yt - yf) = t - f /\ 3 * (yf - f) = (k - 1) * (t - f) /\ (k = 1 \/ k = 2 \/ k = 3)
    BY <1>4, <2>2 DEF Span
  <2>5. /\ Before(x, y, a) <=> f < yf \/ f < yt \/ t < yf \/ t < yt
        /\ Before(y, x, a) <=> yf < f \/ yt < f \/ yf < t \/ yt < t
    BY DEF Before, Ends
  <2> HIDE DEF f, t, yf, yt
  <2>6. Before(x, y, a) /\ Before(y, x, a)
    BY <2>3, <2>4, <2>5
  <2> QED BY <1>1, <2>1, <2>6, OverlapIs DEF Meets
<1> QED BY <1>1, <1>3, <1>5, <1>6, OverlapIs DEF Meets
-----------------------------------------------------------------------------
(* References on the geometry refined at free ends                         *)

PieceAt(place, i, h) == place[i - 1] < h /\ h <= place[i]

LEMMA CutFacts ==
    ASSUME NEW s \in Lists(3), NEW r \in Seq(Piece), NEW free, NEW place, CutFrom(place, s, r, free)
    PROVE  /\ Len(s) \in Nat /\ Len(r) \in Nat /\ s \in Seq(Piece)
           /\ \A h \in 1 .. Len(r) : \E i \in 1 .. Len(s) : PieceAt(place, i, h)
           /\ \A h \in Nat : \A i, j \in 1 .. Len(s) : PieceAt(place, i, h) /\ PieceAt(place, j, h) => i = j
           /\ \A i \in 1 .. Len(s) :
                LET c == Centres(place, s, free)[i]
                IN /\ place[i - 1] \in Nat /\ place[i] \in Nat /\ place[i] <= Len(r)
                   /\ c \in 1 .. Len(r) /\ PieceAt(place, i, c)
                   /\ s[i].part = "whole" /\ s[i] \in Piece
                   /\ r[c].part = IF i \in free THEN "centre" ELSE "whole"
                   /\ place[i] = place[i - 1] + IF i \in free THEN 3 ELSE 1
                   /\ c = place[i - 1] + IF i \in free THEN 2 ELSE 1
                   /\ \A h \in Nat : PieceAt(place, i, h) =>
                        /\ h \in 1 .. Len(r) /\ r[h].tag = s[i].tag /\ (Counts(r[h]) <=> h = c)
                        /\ i \notin free => h = c /\ r[h] = s[i]
                        /\ i \in free => \/ h = c /\ IsThird(s[i], r[h], 2)
                                         \/ h = c - 1 /\ IsThird(s[i], r[h], 1)
                                         \/ h = c + 1 /\ IsThird(s[i], r[h], 3)
<1>0. Len(s) \in Nat /\ Len(r) \in Nat /\ s \in Seq(Piece) /\ \A i \in 1 .. Len(s) : s[i].part = "whole"
  BY ListsArePieces
<1>1. \A i \in 1 .. Len(s) : /\ Pieces(place, s, r, free, i) /\ place[i] <= Len(r)
                             /\ place[i - 1] \in Nat /\ place[i] \in Nat
                             /\ place[i] = place[i - 1] + IF i \in free THEN 3 ELSE 1
  BY DEF CutFrom, Pieces
<1>2. \A h \in 1 .. Len(r) : \E i \in 1 .. Len(s) : PieceAt(place, i, h)
  BY DEF CutFrom, PieceAt
<1>3. \A i, j \in 1 .. Len(s) : i < j => place[i] <= place[j - 1]
  <2>1. ASSUME NEW i \in 1 .. Len(s)
        PROVE  place[i - 1] \in Nat /\ place[i] \in Nat /\ place[i - 1] <= place[i]
    <3> DEFINE p == place[i - 1]
               q == place[i]
    <3>1. p \in Nat /\ q \in Nat /\ (q = p + 3 \/ q = p + 1)
      BY <1>1
    <3> HIDE DEF p, q
    <3>2. p <= q
      BY <3>1
    <3> QED BY <3>1, <3>2 DEF p, q
  <2> QED BY <1>0, <2>1, PiecesRise
<1>4. ASSUME NEW h \in Nat, NEW i \in 1 .. Len(s), NEW j \in 1 .. Len(s),
             PieceAt(place, i, h), PieceAt(place, j, h)
      PROVE  i = j
  <2>1. ASSUME NEW k \in 1 .. Len(s), NEW l \in 1 .. Len(s), k < l,
               PieceAt(place, k, h), PieceAt(place, l, h)
        PROVE  FALSE
    <3>1. h <= place[k] /\ place[l - 1] < h /\ place[k] <= place[l - 1]
      BY <1>3, <2>1 DEF PieceAt
    <3>2. place[k] \in Nat /\ place[l - 1] \in Nat
      BY <1>1
    <3> QED BY <3>1, <3>2
  <2>2. i < j \/ j < i \/ i = j
    BY <1>0
  <2> QED BY <1>4, <2>1, <2>2
<1>5. ASSUME NEW i \in 1 .. Len(s)
      PROVE  LET c == Centres(place, s, free)[i]
             IN /\ place[i - 1] \in Nat /\ place[i] \in Nat /\ place[i] <= Len(r)
                /\ c \in 1 .. Len(r) /\ PieceAt(place, i, c)
                /\ s[i].part = "whole" /\ s[i] \in Piece
                /\ r[c].part = IF i \in free THEN "centre" ELSE "whole"
                /\ place[i] = place[i - 1] + IF i \in free THEN 3 ELSE 1
                /\ c = place[i - 1] + IF i \in free THEN 2 ELSE 1
                /\ \A h \in Nat : PieceAt(place, i, h) =>
                     /\ h \in 1 .. Len(r) /\ r[h].tag = s[i].tag /\ (Counts(r[h]) <=> h = c)
                     /\ i \notin free => h = c /\ r[h] = s[i]
                     /\ i \in free => \/ h = c /\ IsThird(s[i], r[h], 2)
                                      \/ h = c - 1 /\ IsThird(s[i], r[h], 1)
                                      \/ h = c + 1 /\ IsThird(s[i], r[h], 3)
  <2> DEFINE c == Centres(place, s, free)[i]
  <2>1. /\ s[i].part = "whole" /\ s[i] \in Piece /\ Pieces(place, s, r, free, i)
        /\ place[i - 1] \in Nat /\ place[i] \in Nat /\ place[i] <= Len(r)
        /\ place[i] = place[i - 1] + IF i \in free THEN 3 ELSE 1
    BY <1>0, <1>1
  <2>2. c = place[i - 1] + IF i \in free THEN 2 ELSE 1
    BY DEF Centres
  <2>3. \A h \in Nat : PieceAt(place, i, h) =>
          /\ r[h].tag = s[i].tag /\ (Counts(r[h]) <=> h = c)
          /\ i \notin free => h = c /\ r[h] = s[i]
          /\ i \in free => \/ h = c /\ IsThird(s[i], r[h], 2)
                           \/ h = c - 1 /\ IsThird(s[i], r[h], 1)
                           \/ h = c + 1 /\ IsThird(s[i], r[h], 3)
          /\ r[c].part = IF i \in free THEN "centre" ELSE "whole"
    BY <2>1, PieceIs DEF PieceAt
  <2> HIDE DEF c
  <2>4. c \in 1 .. Len(r) /\ PieceAt(place, i, c) /\ c \in Nat
    BY <1>0, <2>1, <2>2 DEF PieceAt
  <2>5. \A h \in Nat : PieceAt(place, i, h) => h \in 1 .. Len(r)
    BY <1>0, <2>1 DEF PieceAt
  <2>6. r[c].part = IF i \in free THEN "centre" ELSE "whole"
    BY <2>3, <2>4
  <2> QED BY <2>1, <2>2, <2>3, <2>4, <2>5, <2>6 DEF c
<1> QED BY <1>0, <1>2, <1>4, <1>5

LEMMA OnePiece ==
    ASSUME NEW s \in Lists(3), NEW r \in Seq(Piece), NEW free, NEW place, CutFrom(place, s, r, free),
           NEW i \in 1 .. Len(s), NEW j \in 1 .. Len(s), NEW h \in Nat,
           PieceAt(place, i, h), PieceAt(place, j, h)
    PROVE  i = j
BY CutFacts

\* Where the pieces of i are.
LEMMA PlaceIs ==
    ASSUME NEW s \in Lists(3), NEW r \in Seq(Piece), NEW free, NEW place, CutFrom(place, s, r, free),
           NEW i \in 1 .. Len(s)
    PROVE  /\ Len(s) \in Nat /\ Len(r) \in Nat
           /\ place[i - 1] \in Nat /\ place[i] \in Nat
           /\ place[i] = place[i - 1] + IF i \in free THEN 3 ELSE 1
           /\ Centres(place, s, free)[i] = place[i - 1] + IF i \in free THEN 2 ELSE 1
           /\ r[Centres(place, s, free)[i]].part = IF i \in free THEN "centre" ELSE "whole"
BY CutFacts

LEMMA PieceOfSome ==
    ASSUME NEW s \in Lists(3), NEW r \in Seq(Piece), NEW free, NEW place, CutFrom(place, s, r, free),
           NEW h \in 1 .. Len(r)
    PROVE  \E i \in 1 .. Len(s) : PieceAt(place, i, h)
BY CutFacts

LEMMA CountsIsCentre ==
    ASSUME NEW s \in Lists(3), NEW r \in Seq(Piece), NEW free, NEW place, CutFrom(place, s, r, free),
           NEW i \in 1 .. Len(s), NEW h \in Nat, PieceAt(place, i, h), Counts(r[h])
    PROVE  h = Centres(place, s, free)[i]
BY CutFacts

\* What the segment, or the middle of its thirds, is.
LEMMA AtCentre ==
    ASSUME NEW s \in Lists(3), NEW r \in Seq(Piece), NEW free, NEW place, CutFrom(place, s, r, free),
           NEW i \in 1 .. Len(s)
    PROVE  LET c == Centres(place, s, free)[i]
           IN /\ c \in 1 .. Len(r) /\ c \in Nat /\ Counts(r[c]) /\ r[c].tag = s[i].tag
              /\ i \notin free => r[c] = s[i]
              /\ i \in free => IsThird(s[i], r[c], 2)
<1> DEFINE c == Centres(place, s, free)[i]
<1>1. c \in 1 .. Len(r) /\ PieceAt(place, i, c)
  BY CutFacts
<1>2. PICK h \in Nat : h = c
  BY <1>1
<1>3. PieceAt(place, i, h)
  BY <1>1, <1>2
<1>4. r[h].tag = s[i].tag /\ (Counts(r[h]) <=> h = c)
  BY <1>3, CutFacts
<1>5. i \notin free => r[h] = s[i]
  BY <1>3, CutFacts
<1>6. i \in free => \/ h = c /\ IsThird(s[i], r[h], 2)
                    \/ h = c - 1
                    \/ h = c + 1
  BY <1>3, CutFacts
<1> HIDE DEF c
<1>7. i \in free => IsThird(s[i], r[h], 2)
  <2>1. h # c - 1 /\ h # c + 1
    BY <1>2
  <2> QED BY <1>6, <2>1
<1>8. h \in 1 .. Len(r) /\ r[h] = r[c]
  BY <1>1, <1>2
<1> QED BY <1>2, <1>4, <1>5, <1>7, <1>8 DEF c

\* What follows the last third of a segment is no centre.
LEMMA NoCentreNext ==
    ASSUME NEW s \in Lists(3), NEW r \in Seq(Piece), NEW free, NEW place, CutFrom(place, s, r, free),
           NEW i \in 1 .. Len(s), NEW h \in 1 .. Len(r), h < Len(r), PieceAt(place, i, h),
           h = Centres(place, s, free)[i] + 1
    PROVE  r[h + 1].part # "centre"
<1> SUFFICES ASSUME r[h + 1].part = "centre" PROVE FALSE
  OBVIOUS
<1> DEFINE c(k) == Centres(place, s, free)[k]
<1>0. Len(r) \in Nat
  BY PlaceIs
<1>1. h + 1 \in 1 .. Len(r) /\ h \in Nat /\ h + 1 \in Nat
  BY <1>0
<1>2. PICK j \in 1 .. Len(s) : PieceAt(place, j, h + 1)
  BY <1>1, PieceOfSome
<1>3. Counts(r[h + 1])
  BY DEF Counts
<1>4. h + 1 = c(j) /\ r[c(j)].part = IF j \in free THEN "centre" ELSE "whole"
  <2> DEFINE g == h + 1
  <2>1. g \in Nat /\ PieceAt(place, j, g) /\ Counts(r[g])
    BY <1>1, <1>2, <1>3
  <2> HIDE DEF g
  <2>2. g = Centres(place, s, free)[j]
    BY <2>1, CountsIsCentre
  <2>3. r[c(j)].part = IF j \in free THEN "centre" ELSE "whole"
    BY PlaceIs
  <2> QED BY <2>2, <2>3 DEF g
<1>5. j \in free
  BY <1>4
<1>6. /\ place[j - 1] \in Nat /\ place[j] \in Nat /\ place[j] = place[j - 1] + 3
      /\ c(j) = place[j - 1] + 2
  BY <1>5, PlaceIs
<1>7. PieceAt(place, j, h)
  <2> DEFINE p == place[j - 1]
             q == place[j]
  <2>1. p \in Nat /\ q = p + 3 /\ h + 1 = p + 2 /\ h \in Nat
    BY <1>1, <1>4, <1>6
  <2> HIDE DEF p, q
  <2>2. p < h /\ h <= q
    BY <2>1
  <2> QED BY <2>2 DEF PieceAt, p, q
<1>8. j = i
  BY <1>1, <1>7, OnePiece
<1> QED BY <1>1, <1>4, <1>6, <1>8

SameParts(t, r) == /\ t \in Seq(Piece) /\ Len(t) = Len(r)
                   /\ \A k \in 1 .. Len(r) : t[k].part = r[k].part

\* A load per metre on a piece is judged by the deck's segment it is of.
LEMMA SubjectIs ==
    ASSUME NEW s \in Lists(3), NEW r \in Seq(Piece), NEW free, NEW place, CutFrom(place, s, r, free),
           NEW i \in 1 .. Len(s), NEW h \in 1 .. Len(r), PieceAt(place, i, h),
           NEW t, SameParts(t, r)
    PROVE  (IF t[h].part = "flank" THEN FlankCentre(t, h) ELSE h) = Centres(place, s, free)[i]
<1> DEFINE c == Centres(place, s, free)[i]
<1>1. /\ h \in Nat /\ c \in 1 .. Len(r) /\ Len(r) \in Nat
      /\ r[c].part = IF i \in free THEN "centre" ELSE "whole"
      /\ (Counts(r[h]) <=> h = c)
      /\ i \notin free => h = c
      /\ i \in free => h = c \/ h = c - 1 \/ h = c + 1
  <2>1. h \in Nat
    OBVIOUS
  <2> QED BY <2>1, CutFacts
<1>2. h = c + 1 /\ h < Len(r) => r[h + 1].part # "centre"
  BY NoCentreNext
<1>3. t \in Seq(Piece) /\ Len(t) = Len(r) /\ \A k \in 1 .. Len(r) : t[k].part = r[k].part
  BY DEF SameParts
<1> HIDE DEF c
<1>4. CASE h = c
  BY <1>1, <1>3, <1>4 DEF Counts, c
<1>5. CASE h = c - 1 /\ i \in free
  <2>1. h + 1 = c /\ h < Len(t) /\ t[h + 1].part = "centre" /\ t[h].part = "flank"
    BY <1>1, <1>3, <1>5 DEF Counts
  <2> QED BY <2>1 DEF FlankCentre, c
<1>6. CASE h = c + 1 /\ i \in free
  <2>1. h - 1 = c /\ t[h].part = "flank" /\ h # c
    BY <1>1, <1>3, <1>6 DEF Counts
  <2>2. ~(h < Len(t) /\ t[h + 1].part = "centre")
    <3>1. h < Len(r) => h + 1 \in 1 .. Len(r)
      BY <1>1
    <3> QED BY <1>1, <1>2, <1>3, <1>6, <3>1
  <2> QED BY <2>1, <2>2 DEF FlankCentre, c
<1> QED BY <1>1, <1>4, <1>5, <1>6
LEMMA MiddleThird ==
    ASSUME NEW x \in Piece, NEW y \in Piece, ThirdOf(x, y, 2)
    PROVE  Mid(y) = Mid(x)
<1>1. /\ x.from \in Points /\ x.to \in Points /\ y.from \in Points /\ y.to \in Points
  BY PieceParts
<1>2. ASSUME NEW a \in Axes PROVE y.from[a] + y.to[a] = x.from[a] + x.to[a]
  <2> DEFINE f == x.from[a]
             t == x.to[a]
             yf == y.from[a]
             yt == y.to[a]
  <2>1. f \in Int /\ t \in Int /\ yf \in Int /\ yt \in Int
    BY PieceParts
  <2>2. 3 * yf = (3 - 1) * f + 1 * t /\ 3 * yt = (3 - 2) * f + 2 * t
    BY DEF ThirdOf, OnThird
  <2> HIDE DEF f, t, yf, yt
  <2>3. yf + yt = f + t
    BY <2>1, <2>2
  <2> QED BY <2>3 DEF f, t, yf, yt
<1>3. Plus(y.from, y.to) = [a \in Axes |-> x.from[a] + x.to[a]]
  BY <1>2 DEF Plus
<1> QED BY <1>3 DEF Mid, Plus

LEMMA CentreMid ==
    ASSUME NEW x \in Piece, NEW y \in Piece, IsThird(x, y, 2)
    PROVE  Mid(y) = Mid(x)
BY MiddleThird DEF IsThird, ThirdOf

\* Numbers on what is cut: the segment that counts has the deck's, a flank has its parent's.
LEMMA CutNumbers ==
    ASSUME NEW s \in Lists(3), NEW r \in Seq(Piece), NEW free, NEW place, CutFrom(place, s, r, free),
           NEW i \in 1 .. Len(s), NEW h \in Nat, PieceAt(place, i, h)
    PROVE  LET d == Numbered(s)[i]
               y == Numbered(r)[h]
               c == Centres(place, s, free)[i]
           IN /\ d.num \in Nat /\ d.num # 0 /\ d.abs # 0
              /\ h = c => y.num = d.num /\ y.abs = d.abs
              /\ h # c => y.parent = d.num
<1> DEFINE d == Numbered(s)[i]
           y == Numbered(r)[h]
           c == Centres(place, s, free)[i]
           tag == s[i].tag
           T == TaggedIn(r, tag)
           Rank(k) == Cardinality(UpTo(T, k))
<1>0. /\ Len(s) \in Nat /\ Len(r) \in Nat /\ s \in Seq(Piece) /\ h \in 1 .. Len(r)
      /\ c \in 1 .. Len(r) /\ PieceAt(place, i, c) /\ s[i].part = "whole"
      /\ r[h].tag = tag /\ (Counts(r[h]) <=> h = c)
      /\ i \notin free => h = c
      /\ i \in free => h = c \/ h = c - 1 \/ h = c + 1
      /\ r[c].part = IF i \in free THEN "centre" ELSE "whole"
  BY CutFacts
<1>1. Kept(Centres(place, s, free), s, r) /\ Unnumbered(s) /\ Unnumbered(r)
  BY CutKept
<1>2. Numbered(r)[c].num = d.num /\ Numbered(r)[c].abs = d.abs
  BY <1>0, <1>1, KeptNumbers
<1>3. Counts(s[i])
  BY <1>0 DEF Counts
<1>4. d.num \in Nat /\ d.num # 0 /\ d.abs # 0
  BY <1>0, <1>1, <1>3, NumbersAreRanks
<1>5. r[c].tag = tag /\ Counts(r[c])
  BY AtCentre
<1>6. d.num = Rank(c)
  <2> DEFINE g == c
  <2>1. g \in 1 .. Len(r) /\ Counts(r[g]) /\ r[g].tag = tag
    BY <1>0, <1>5
  <2> HIDE DEF g, c
  <2>2. Numbered(r)[g].num = Cardinality(UpTo(TaggedIn(r, r[g].tag), g))
    BY <1>1, <2>1, NumbersAreRanks, SMTT(20)
  <2> QED BY <1>2, <2>1, <2>2 DEF g
<1>7. ASSUME h # c PROVE y.parent = d.num
  <2>1. r[h].part = "flank" /\ r[h].tag = tag
    BY <1>0, <1>7 DEF Counts
  <2>2. y.parent = Cardinality(OfTag(r, h, tag)) + IF h < Len(r) /\ r[h + 1].part = "centre" THEN 1 ELSE 0
    BY <1>0, <2>1, NumberedIs
  <2>3. OfTag(r, h, tag) = UpTo(T, h)
    <3>1. \A j \in 1 .. Len(r) : j <= h <=> j \in 1 .. h
      BY <1>0
    <3>2. \A j \in 1 .. h : j \in 1 .. Len(r)
      BY <1>0
    <3> QED BY <3>1, <3>2 DEF UpTo, TaggedIn, OfTag
  <2>4. /\ c \in T /\ h \notin T /\ T \subseteq 1 .. Len(r)
    BY <1>0, <1>5, <2>1 DEF TaggedIn, Counts
  <2>5. IsFiniteSet(UpTo(T, h)) /\ Rank(h) \in Nat
    <3>1. UpTo(T, h) \subseteq 1 .. Len(r)
      BY <2>4 DEF UpTo
    <3> QED BY <1>0, <3>1, CountedIn
  <2>6. CASE h = c - 1
    <3> HIDE DEF c, T
    <3>1. \A j \in T : j <= c <=> j <= h \/ j = c
      BY <1>0, <2>4, <2>6
    <3>2. UpTo(T, c) = UpTo(T, h) \cup {c} /\ c \notin UpTo(T, h)
      <4>1. c \in T /\ ~(c <= h)
        BY <1>0, <2>4, <2>6
      <4> HIDE DEF Rank
      <4> QED BY <3>1, <4>1 DEF UpTo
    <3>3. Rank(c) = Rank(h) + 1
      BY <2>5, <3>2, FS_AddElement
    <3>4. h < Len(r) /\ r[h + 1].part = "centre"
      BY <1>0, <1>7, <2>6
    <3> QED BY <1>6, <2>2, <2>3, <3>3, <3>4
  <2>7. CASE h = c + 1
    <3>1. h < Len(r) => r[h + 1].part # "centre"
      BY <1>0, <2>7, NoCentreNext
    <3> HIDE DEF c, T
    <3>2. \A j \in T : j <= h <=> j <= c
      <4>1. \A j \in T : j \in Int /\ j # h
        BY <1>0, <2>4
      <4> QED BY <1>0, <2>7, <4>1
    <3>3. UpTo(T, h) = UpTo(T, c)
      BY <3>2 DEF UpTo
    <3> QED BY <1>6, <2>2, <2>3, <2>5, <3>1, <3>3
  <2> QED BY <1>0, <1>7, <2>6, <2>7
<1>8. h = c => y.num = d.num /\ y.abs = d.abs
  BY <1>2
<1> HIDE DEF d, y, c
<1>9. h # c => y.parent = d.num
  BY <1>7
<1> QED BY <1>4, <1>8, <1>9 DEF d, y, c
\* A refined list and its numbers, from the deck it is of.
CutOf(place, s, r, free) ==
    s \in Lists(3) /\ ~Overlapping(s) /\ r \in Seq(Piece) /\ CutFrom(place, s, r, free)

LEMMA CutOverlaps ==
    ASSUME NEW s, NEW r, NEW free, NEW place, CutOf(place, s, r, free),
           NEW i \in 1 .. Len(s), NEW h \in 1 .. Len(r)
    PROVE  Overlap(Numbered(s)[i], Numbered(r)[h]) <=> PieceAt(place, i, h)
<1> DEFINE x == s[i]
           y == r[h]
<1>0. /\ s \in Lists(3) /\ ~Overlapping(s) /\ r \in Seq(Piece) /\ CutFrom(place, s, r, free)
  BY DEF CutOf
<1>1. s \in Seq(Piece) /\ h \in Nat /\ Len(s) \in Nat /\ Len(r) \in Nat
  BY <1>0, CutFacts
<1>2. /\ Numbered(s)[i].from = x.from /\ Numbered(s)[i].to = x.to
      /\ Numbered(r)[h].from = y.from /\ Numbered(r)[h].to = y.to
  BY <1>0, <1>1, NumberedIs
<1>3. Overlap(Numbered(s)[i], Numbered(r)[h]) <=> Overlap(x, y)
  BY <1>2 DEF Overlap, Along
<1>4. x \in Piece /\ y \in Piece
  BY <1>0, <1>1
<1>5. PICK j \in 1 .. Len(s) : PieceAt(place, j, h)
  BY <1>0, CutFacts
<1>6. s[j] \in Piece /\ (y = s[j] \/ \E k \in 1 .. 3 : ThirdOf(s[j], y, k))
  <2>1. /\ s[j] \in Piece
        /\ j \notin free => y = s[j]
        /\ j \in free => IsThird(s[j], y, 1) \/ IsThird(s[j], y, 2) \/ IsThird(s[j], y, 3)
    BY <1>0, <1>1, <1>5, CutFacts
  <2>2. j \in free => ThirdOf(s[j], y, 1) \/ ThirdOf(s[j], y, 2) \/ ThirdOf(s[j], y, 3)
    BY <2>1 DEF IsThird, ThirdOf
  <2>3. 1 \in 1 .. 3 /\ 2 \in 1 .. 3 /\ 3 \in 1 .. 3
    OBVIOUS
  <2> QED BY <2>1, <2>2, <2>3
<1> HIDE DEF x, y
<1>7. ASSUME Overlap(x, y) PROVE j = i
  <2> DEFINE z == s[j]
  <2>1. z \in Piece /\ (y = z \/ \E k \in 1 .. 3 : ThirdOf(z, y, k))
    BY <1>6
  <2> HIDE DEF z
  <2>2. Overlap(x, z)
    BY <1>4, <1>7, <2>1, WholeOverlaps
  <2>3. Overlap(z, x)
    BY <1>4, <2>1, <2>2, OverlapBothWays
  <2>4. i \in DOMAIN s /\ j \in DOMAIN s /\ i \in Int /\ j \in Int
    BY <1>1
  <2>5. ~(i < j) /\ ~(j < i)
    BY <1>0, <2>2, <2>3, <2>4 DEF Overlapping, x, z
  <2> QED BY <2>4, <2>5
<1>8. ASSUME PieceAt(place, i, h) PROVE Overlap(x, y)
  <2>1. j = i
    BY <1>0, <1>1, <1>5, <1>8, CutFacts
  <2>2. y = x \/ \E k \in 1 .. 3 : ThirdOf(x, y, k)
    BY <1>6, <2>1 DEF x
  <2> QED BY <1>4, <2>2, OwnOverlap
<1> QED BY <1>3, <1>5, <1>7, <1>8

\* A lumped load on what d is numbered is on x alone.
LumpedOn(t, d, x) == \A h \in 1 .. Len(t) : LoadOn(t, h, FALSE, d.tag, d.num, 0) <=> h = x

\* A load per metre on it is on the pieces of i.
SpreadOn(t, d, place, i) ==
    \A h \in 1 .. Len(t) : LoadOn(t, h, TRUE, d.tag, d.num, 0) <=> PieceAt(place, i, h)

LEMMA CutLoaded ==
    ASSUME NEW s, NEW r, NEW free, NEW place, CutOf(place, s, r, free),
           NEW i \in 1 .. Len(s), s[i].tag # 0
    PROVE  /\ LumpedOn(Numbered(r), Numbered(s)[i], Centres(place, s, free)[i])
           /\ SpreadOn(Numbered(r), Numbered(s)[i], place, i)
<1> DEFINE d == Numbered(s)[i]
           x == Centres(place, s, free)[i]
           t == Numbered(r)
<1>1. d = Numbered(s)[i] /\ x = Centres(place, s, free)[i] /\ t = Numbered(r)
  OBVIOUS
<1>2. Len(t) = Len(r)
  BY NumberedIs, CutFacts DEF CutOf
<1> HIDE DEF d, x, t
<1>3. ASSUME NEW h \in 1 .. Len(r)
      PROVE  /\ LoadOn(t, h, TRUE, d.tag, d.num, 0) <=> PieceAt(place, i, h)
             /\ InRange(t[h], d.tag, d.num, 0) <=> h = x
  <2> DEFINE c(k) == Centres(place, s, free)[k]
  <2>0. /\ s \in Lists(3) /\ r \in Seq(Piece) /\ CutFrom(place, s, r, free)
        /\ s \in Seq(Piece) /\ h \in Nat /\ Len(s) \in Nat /\ Len(r) \in Nat
    BY CutFacts DEF CutOf
  <2>1. PICK j \in 1 .. Len(s) : PieceAt(place, j, h)
    BY <2>0, CutFacts
  <2>2. /\ t \in Seq(Piece) /\ Len(t) = Len(r)
        /\ \A k \in 1 .. Len(r) : t[k].part = r[k].part /\ t[k].tag = r[k].tag
        /\ d.tag = s[i].tag
    BY <1>1, <2>0, NumberedIs
  <2>3. /\ c(i) \in 1 .. Len(r) /\ c(j) \in 1 .. Len(r) /\ PieceAt(place, j, c(j)) /\ PieceAt(place, i, c(i))
        /\ r[c(j)].part # "flank" /\ (Counts(r[h]) <=> h = c(j))
        /\ r[c(j)].tag = s[j].tag
    <3>1. c(i) \in 1 .. Len(r) /\ PieceAt(place, i, c(i))
      BY <2>0, CutFacts
    <3>2. c(j) \in 1 .. Len(r) /\ PieceAt(place, j, c(j)) /\ (Counts(r[h]) <=> h = c(j))
          /\ r[c(j)].part = IF j \in free THEN "centre" ELSE "whole"
      BY <2>0, <2>1, CutFacts
    <3>3. c(j) \in Nat
      BY <3>2
    <3>4. r[c(j)].tag = s[j].tag
      <4> DEFINE k == c(j)
      <4>1. k \in 1 .. Len(r) /\ k \in Nat /\ PieceAt(place, j, k)
        BY <3>2, <3>3
      <4> HIDE DEF k
      <4>2. r[k].tag = s[j].tag
        BY <2>0, <4>1, CutFacts
      <4> QED BY <4>2 DEF k
    <3> QED BY <3>1, <3>2, <3>4
  <2>4. (IF t[h].part = "flank" THEN FlankCentre(t, h) ELSE h) = c(j)
    <3>1. SameParts(t, r)
      BY <2>2 DEF SameParts
    <3> QED BY <2>0, <2>1, <3>1, SubjectIs
  <2>5. d.num \in Nat /\ d.num # 0 /\ t[c(j)].num = Numbered(s)[j].num /\ Numbered(s)[j].num \in Nat
    <3>1. c(i) \in Nat /\ c(j) \in Nat
      BY <2>3
    <3>2. d.num \in Nat /\ d.num # 0
      BY <1>1, <2>0, <2>3, <3>1, CutNumbers
    <3>3. t[c(j)].num = Numbered(s)[j].num /\ Numbered(s)[j].num \in Nat
      BY <1>1, <2>0, <2>3, <3>1, CutNumbers
    <3> QED BY <3>2, <3>3
  <2>6. s[j].tag = s[i].tag /\ Numbered(s)[j].num = d.num => j = i
    <3>1. Unnumbered(s) /\ Counts(s[i]) /\ Counts(s[j])
      BY <2>0, CutKept DEF Kept
    <3>2. FindDeckSegment(Numbered(s), s[i].tag, d.num) = i
      BY <1>1, <2>0, <3>1, FoundByNumber
    <3>3. s[j].tag # 0 => FindDeckSegment(Numbered(s), s[j].tag, Numbered(s)[j].num) = j
      BY <1>1, <2>0, <3>1, FoundByNumber
    <3> QED BY <3>2, <3>3
  <2>7. InRange(t[c(j)], d.tag, d.num, 0) <=> j = i
    <3>1. t[c(j)].part # "flank" /\ t[c(j)].tag = s[j].tag /\ t[c(j)].num = Numbered(s)[j].num
      BY <2>2, <2>3, <2>5
    <3>2. InRange(t[c(j)], d.tag, d.num, 0) <=>
            /\ t[c(j)].part # "flank" /\ t[c(j)].tag = d.tag
            /\ d.num = 0 \/ t[c(j)].num \in d.num .. d.num
      BY <2>2 DEF InRange
    <3> DEFINE m == d.num
               n == t[c(j)].num
    <3>3. m \in Nat /\ n \in Nat /\ (n \in m .. m <=> n = m)
      <4>1. m \in Nat /\ n \in Nat
        BY <2>5
      <4> HIDE DEF m, n
      <4> QED BY <4>1
    <3>4. d.num = 0 \/ t[c(j)].num \in d.num .. d.num <=> Numbered(s)[j].num = d.num
      BY <2>5, <3>1, <3>3
    <3> HIDE DEF c, m, n
    <3> QED BY <1>1, <2>2, <2>6, <3>1, <3>2, <3>4
  <2>8. LoadOn(t, h, TRUE, d.tag, d.num, 0) <=> j = i
    BY <2>4, <2>7 DEF LoadOn
  <2>9. PieceAt(place, i, h) <=> j = i
    BY <2>0, <2>1, OnePiece
  <2>10. InRange(t[h], d.tag, d.num, 0) <=> h = c(i)
    <3>2. CASE h = c(j)
      <4>1. h = c(i) => j = i
        BY <2>3, <2>9
      <4> QED BY <2>7, <3>2, <4>1
    <3>3. CASE h # c(j)
      <4>1. t[h].part = "flank"
        BY <2>2, <2>3, <3>3 DEF Counts
      <4>2. ~InRange(t[h], d.tag, d.num, 0)
        BY <4>1 DEF InRange
      <4>3. h # c(i)
        BY <2>3, <2>9, <3>3
      <4> QED BY <4>2, <4>3
    <3> QED BY <3>2, <3>3
  <2>11. x = c(i)
    BY <1>1
  <2> QED BY <2>8, <2>9, <2>10, <2>11
<1>4. LumpedOn(t, d, x)
  BY <1>2, <1>3 DEF LumpedOn, LoadOn
<1>5. SpreadOn(t, d, place, i)
  BY <1>2, <1>3 DEF SpreadOn
<1> QED BY <1>4, <1>5 DEF d, x, t
LEMMA DeckPorts ==
    ASSUME NEW s, NEW r, NEW free, NEW place, CutOf(place, s, r, free),
           NEW i \in 1 .. Len(s), s[i].tag # 0
    PROVE  LET p == FindPort(Numbered(s), s[i].tag, 0)
           IN /\ p \in 1 .. Len(s) /\ s[p].tag = s[i].tag
              /\ FindPort(Numbered(r), s[i].tag, 0) = Centres(place, s, free)[p]
<1>0. /\ s \in Lists(3) /\ r \in Seq(Piece) /\ CutFrom(place, s, r, free) /\ s \in Seq(Piece)
  BY CutFacts DEF CutOf
<1> DEFINE c == Centres(place, s, free)
           tag == s[i].tag
<1>1. Kept(c, s, r) /\ Unnumbered(s) /\ Unnumbered(r)
  BY <1>0, CutKept
<1>2. i \in TaggedIn(s, tag)
  BY <1>1 DEF TaggedIn, Kept
<1>3. tag \in Nat \ {0}
  <2>1. s[i] \in Piece
    BY <1>0
  <2>2. tag \in 0 .. MaxTag
    BY <2>1 DEF Piece
  <2> QED BY <2>2
<1> HIDE DEF c, tag
<1>4. /\ FindPort(Numbered(s), tag, 0) \in TaggedIn(s, tag)
      /\ FindPort(Numbered(r), tag, 0) = c[FindPort(Numbered(s), tag, 0)]
  BY <1>0, <1>1, <1>2, <1>3, KeptPort
<1> QED BY <1>4 DEF c, tag, TaggedIn

LEMMA CutMids ==
    ASSUME NEW s, NEW r, NEW free, NEW place, CutOf(place, s, r, free), NEW i \in 1 .. Len(s)
    PROVE  LET c == Centres(place, s, free)[i]
           IN c \in 1 .. Len(r) /\ Mid(Numbered(r)[c]) = Mid(Numbered(s)[i])
<1> DEFINE c == Centres(place, s, free)[i]
<1>0. /\ s \in Lists(3) /\ r \in Seq(Piece) /\ CutFrom(place, s, r, free) /\ s \in Seq(Piece)
  BY CutFacts DEF CutOf
<1>1. c \in 1 .. Len(r) /\ PieceAt(place, i, c)
  BY <1>0, CutFacts
<1>2. c \in Nat
  BY <1>1
<1>3. (i \notin free => r[c] = s[i]) /\ (i \in free => IsThird(s[i], r[c], 2))
  BY <1>0, AtCentre
<1>4. Mid(r[c]) = Mid(s[i])
  <2>1. r[c] \in Piece /\ s[i] \in Piece
    BY <1>0, <1>1
  <2> HIDE DEF c
  <2> QED BY <1>3, <2>1, CentreMid
<1>5. /\ Numbered(r)[c].from = r[c].from /\ Numbered(r)[c].to = r[c].to
      /\ Numbered(s)[i].from = s[i].from /\ Numbered(s)[i].to = s[i].to
  BY <1>0, <1>1, NumberedIs
<1>6. Mid(Numbered(r)[c]) = Mid(Numbered(s)[i])
  <2> HIDE DEF c
  <2> QED BY <1>4, <1>5 DEF Mid
<1> QED BY <1>1, <1>6

LEMMA HallenKept ==
    ASSUME NEW free, NEW place, NEW r, CutOf(place, segs, r, free), deck = Numbered(segs),
           hallen = Numbered(r)
    PROVE  HallenKeepsReferences
<1>0. /\ segs \in Lists(3) /\ r \in Seq(Piece) /\ CutFrom(place, segs, r, free) /\ segs \in Seq(Piece)
      /\ Len(segs) \in Nat /\ Len(r) \in Nat
  BY CutFacts DEF CutOf
<1>1. /\ DOMAIN deck = 1 .. Len(segs) /\ DOMAIN hallen = 1 .. Len(r)
      /\ \A i \in 1 .. Len(segs) : deck[i].tag = segs[i].tag
      /\ \A h \in 1 .. Len(r) : hallen[h].part = r[h].part
  <2>1. deck \in Seq(Piece) /\ Len(deck) = Len(segs) /\ hallen \in Seq(Piece) /\ Len(hallen) = Len(r)
    BY <1>0, NumberedIs
  <2>2. \A i \in 1 .. Len(segs) : deck[i].tag = segs[i].tag
    BY <1>0, NumberedIs
  <2>3. \A h \in 1 .. Len(r) : hallen[h].part = r[h].part
    BY <1>0, NumberedIs
  <2> QED BY <2>1, <2>2, <2>3
<1> DEFINE Same(h, i) == h # None /\ Mid(hallen[h]) = Mid(deck[i])
           Loaded(perMetre, d) == {h \in DOMAIN hallen : LoadOn(hallen, h, perMetre, d.tag, d.num, 0)}
           on(i) == {h \in DOMAIN hallen : Overlap(deck[i], hallen[h])}
           c(i) == Centres(place, segs, free)[i]
<1>2. ASSUME NEW i \in 1 .. Len(segs) PROVE Same(c(i), i) /\ c(i) \in 1 .. Len(r)
  <2>1. c(i) \in 1 .. Len(r) /\ Mid(hallen[c(i)]) = Mid(deck[i])
    BY CutMids
  <2>2. c(i) # 0
    BY <1>0, <2>1
  <2> QED BY <2>1, <2>2 DEF None
<1>3. Kept(Centres(place, segs, free), segs, r) /\ Unnumbered(segs) /\ Unnumbered(r)
  BY <1>0, CutKept
<1>4. ASSUME NEW i \in 1 .. Len(segs) PROVE Same(FindDeckSegment(hallen, 0, deck[i].abs), i)
  <2>1. FindDeckSegment(hallen, 0, deck[i].abs) = c(i)
    BY <1>0, <1>3, KeptNumbers
  <2> HIDE DEF c
  <2> QED BY <1>2, <2>1
<1>5. ASSUME NEW i \in 1 .. Len(segs), deck[i].tag # 0
      PROVE  /\ Same(FindDeckSegment(hallen, deck[i].tag, deck[i].num), i)
             /\ Same(FindPort(hallen, deck[i].tag, 0), FindPort(deck, deck[i].tag, 0))
             /\ Loaded(TRUE, deck[i]) = on(i)
             /\ Cardinality(Loaded(FALSE, deck[i])) = 1
             /\ \A h \in on(i) : hallen[h].part = "flank" => hallen[h].parent = deck[i].num
  <2>0. segs[i].tag # 0 /\ deck[i].tag = segs[i].tag
    BY <1>1, <1>5
  <2>1. Same(FindDeckSegment(hallen, deck[i].tag, deck[i].num), i)
    <3>1. FindDeckSegment(hallen, segs[i].tag, deck[i].num) = c(i)
      BY <1>0, <1>3, <2>0, KeptNumbers
    <3> HIDE DEF c
    <3> QED BY <1>2, <2>0, <3>1
  <2>2. Same(FindPort(hallen, deck[i].tag, 0), FindPort(deck, deck[i].tag, 0))
    <3> DEFINE p == FindPort(deck, segs[i].tag, 0)
    <3>1. p \in 1 .. Len(segs) /\ FindPort(hallen, segs[i].tag, 0) = c(p)
      BY <2>0, DeckPorts
    <3>2. Same(c(p), p)
      <4> HIDE DEF p
      <4> QED BY <1>2, <3>1
    <3> HIDE DEF c
    <3> QED BY <2>0, <3>1, <3>2
  <2>3. SpreadOn(hallen, deck[i], place, i) /\ LumpedOn(hallen, deck[i], c(i))
    BY <2>0, CutLoaded
  <2>4. /\ \A h \in 1 .. Len(r) : LoadOn(hallen, h, TRUE, deck[i].tag, deck[i].num, 0) <=> PieceAt(place, i, h)
        /\ \A h \in 1 .. Len(r) : LoadOn(hallen, h, FALSE, deck[i].tag, deck[i].num, 0) <=> h = c(i)
    <3>1. Len(hallen) = Len(r)
      BY <1>0, NumberedIs
    <3> HIDE DEF c
    <3> QED BY <2>3, <3>1 DEF SpreadOn, LumpedOn
  <2>5. \A h \in 1 .. Len(r) : Overlap(deck[i], hallen[h]) <=> PieceAt(place, i, h)
    BY CutOverlaps
  <2>6. Loaded(TRUE, deck[i]) = on(i)
    BY <1>1, <2>4, <2>5
  <2>7. Loaded(FALSE, deck[i]) = {c(i)}
    <3>1. c(i) \in 1 .. Len(r)
      BY <1>2
    <3>2. Loaded(FALSE, deck[i]) = {h \in 1 .. Len(r) : LoadOn(hallen, h, FALSE, deck[i].tag, deck[i].num, 0)}
      BY <1>1
    <3> HIDE DEF c, Loaded
    <3> QED BY <2>4, <3>1, <3>2
  <2>8. Cardinality(Loaded(FALSE, deck[i])) = 1
    BY <2>7, FS_Singleton
  <2>9. ASSUME NEW h \in on(i), hallen[h].part = "flank" PROVE hallen[h].parent = deck[i].num
    <3>1. h \in 1 .. Len(r) /\ h \in Nat /\ PieceAt(place, i, h) /\ r[h].part = "flank"
      BY <1>0, <1>1, <2>5, <2>9
    <3>2. h # c(i)
      BY <1>0, <3>1, CutFacts DEF Counts
    <3> QED BY <1>0, <3>1, <3>2, CutNumbers
  <2> QED BY <2>1, <2>2, <2>6, <2>8, <2>9
<1> HIDE DEF c
<1> QED BY <1>1, <1>4, <1>5 DEF HallenKeepsReferences

\* What Hallen solves is cut from the deck.
LEMMA SolvedIsCut ==
    ASSUME DeckInv, stage = "built"
    PROVE  \E r, free, place : CutOf(place, segs, r, free) /\ SolvedFor = Numbered(r)
<1> DEFINE free == Free(segs, ground # "free")
           r == Refined(segs, free)
<1>1. segs \in Lists(3) /\ ~Overlapping(segs) /\ SolvedFor = Numbered(r)
  BY DEF DeckInv, Built, SolvedFor
<1> HIDE DEF free
<1>2. r \in Seq(Piece) /\ \E place : CutFrom(place, segs, r, free)
  BY <1>1, RefinedIs, RefinedIsCut
<1> HIDE DEF r
<1> QED BY <1>1, <1>2 DEF CutOf

LEMMA HallenReferences ==
    ASSUME DeckInv, stage = "built", hallen # <<>>
    PROVE  HallenKeepsReferences
<1>1. deck = Numbered(segs) /\ hallen = SolvedFor
  BY DEF DeckInv, Built
<1>2. PICK r, free, place : CutOf(place, segs, r, free) /\ SolvedFor = Numbered(r)
  BY SolvedIsCut
<1> QED BY <1>1, <1>2, HallenKept
-----------------------------------------------------------------------------
(* References: to the images of segments                                   *)

\* d is t and, n further on, the image of each of its segments, numbered past n numbers
\* of the deck and m tags.
Doubles(d, t, n, count, m) ==
    /\ n \in Nat \ {0} /\ count \in Nat /\ m \in Nat
    /\ DOMAIN t = 1 .. n /\ DOMAIN d = 1 .. 2 * n /\ Len(t) = n /\ Len(d) = 2 * n
    /\ \A h \in 1 .. n : /\ d[h] = t[h]
                         /\ d[h + n].tag = t[h].tag + m /\ d[h + n].num = t[h].num
                         /\ d[h + n].part = t[h].part
                         /\ d[h + n].abs = IF t[h].abs = 0 THEN 0 ELSE t[h].abs + count

LEMMA GreatestTag ==
    ASSUME NEW t \in Seq(Piece), t # <<>>
    PROVE  MaxTagOf(t) \in Nat /\ \A i \in 1 .. Len(t) : t[i].tag \in 0 .. MaxTagOf(t)
<1> DEFINE T == {t[i].tag : i \in DOMAIN t}
<1>0. Len(t) \in Nat \ {0} /\ DOMAIN t = 1 .. Len(t) /\ MaxTag \in Nat
  BY DeckAssumption
<1>1. \A i \in 1 .. Len(t) : t[i].tag \in 0 .. MaxTag
  BY <1>0 DEF Piece
<1>2. T # {} /\ T \subseteq 0 .. MaxTag
  <2>1. T \subseteq 0 .. MaxTag
    BY <1>0, <1>1
  <2>2. t[1].tag \in T
    BY <1>0
  <2> QED BY <2>1, <2>2
<1>3. MaxTagOf(t) = CHOOSE x \in T : \A y \in T : y <= x
  <2>1. \A x : (\A i \in DOMAIN t : t[i].tag <= x) <=> \A y \in T : y <= x
    OBVIOUS
  <2> QED BY <2>1 DEF MaxTagOf
<1>4. \E x \in T : \A y \in T : y <= x
  <2> DEFINE R == {MaxTag - x : x \in T}
  <2> HIDE DEF T
  <2>0. \A x \in T : x \in Int /\ MaxTag - x \in Nat
    BY <1>0, <1>2
  <2>1. R \subseteq Nat /\ R # {} /\ \A x \in T : x \in Int /\ MaxTag - x \in R
    BY <1>2, <2>0
  <2> HIDE DEF R
  <2>2. PICK l \in R : \A k \in R : l <= k
    BY <2>1, LeastOf
  <2>3. PICK x \in T : l = MaxTag - x
    BY DEF R
  <2>4. \A y \in T : y <= x
    BY <1>0, <2>1, <2>2, <2>3
  <2> QED BY <2>4
<1>5. MaxTagOf(t) \in T /\ \A y \in T : y <= MaxTagOf(t)
  <2> HIDE DEF T
  <2> QED BY <1>3, <1>4
<1>6. \A i \in 1 .. Len(t) : t[i].tag \in T
  BY <1>0
<1>7. MaxTagOf(t) \in Nat
  <2> HIDE DEF T
  <2>1. MaxTagOf(t) \in 0 .. MaxTag
    BY <1>2, <1>5
  <2> QED BY <1>0, <2>1
<1>8. ASSUME NEW i \in 1 .. Len(t) PROVE t[i].tag \in 0 .. MaxTagOf(t)
  <2>1. t[i].tag <= MaxTagOf(t) /\ t[i].tag \in Nat
    BY <1>0, <1>1, <1>5, <1>6
  <2> HIDE DEF T
  <2> QED BY <1>7, <2>1
<1> QED BY <1>7, <1>8

LEMMA DoubledIs ==
    ASSUME NEW t \in Seq(Piece), t # <<>>
    PROVE  Doubles(Doubled(t), t, Len(t), DeckSegments(t), MaxTagOf(t))
<1> DEFINE n == Len(t)
           m == MaxTagOf(t)
           count == DeckSegments(t)
           image(i) == [t[i] EXCEPT !.tag = @ + m, !.abs = ImageAbs(t, i),
                                    !.from = Mirrored(@), !.to = Mirrored(@)]
           u == [i \in 1 .. n |-> image(i)]
<1>0. n \in Nat \ {0} /\ DOMAIN t = 1 .. n /\ m \in Nat
  BY GreatestTag
<1>1. count \in Nat
  <2>1. {i \in DOMAIN t : Counts(t[i])} \subseteq 1 .. n
    BY <1>0
  <2>2. IsFiniteSet(1 .. n)
    BY <1>0, FS_Interval
  <2>3. IsFiniteSet({i \in DOMAIN t : Counts(t[i])})
    BY <2>1, <2>2, FS_Subset
  <2> QED BY <2>3, FS_CardinalityType DEF DeckSegments
<1>2. \A i \in 1 .. n : t[i] \in Piece
  BY <1>0
<1>3. \A i \in 1 .. n :
        /\ image(i).tag = t[i].tag + m /\ image(i).num = t[i].num /\ image(i).part = t[i].part
        /\ image(i).abs = IF t[i].abs = 0 THEN 0 ELSE t[i].abs + count
  <2> TAKE i \in 1 .. n
  <2> DEFINE x == t[i]
             k == ImageAbs(t, i)
  <2>1. x \in Piece
    BY <1>2
  <2>2. image(i) = [x EXCEPT !.tag = @ + m, !.abs = k, !.from = Mirrored(@), !.to = Mirrored(@)]
    OBVIOUS
  <2>3. k = IF x.abs = 0 THEN 0 ELSE x.abs + count
    BY DEF ImageAbs
  <2> HIDE DEF x, k, m, image
  <2>4. image(i).tag = x.tag + m /\ image(i).num = x.num /\ image(i).part = x.part /\ image(i).abs = k
    BY <2>1, <2>2 DEF Piece
  <2> QED BY <2>3, <2>4 DEF x
<1>4. Doubled(t) = t \o u
  BY <1>0 DEF Doubled
<1> HIDE DEF n, m, count, image
<1>5. u \in Seq({image(i) : i \in 1 .. n}) /\ Len(u) = n /\ \A i \in 1 .. n : u[i] = image(i)
  <2>1. \A i \in 1 .. n : image(i) \in {image(j) : j \in 1 .. n}
    OBVIOUS
  <2> QED BY <1>0, <2>1, IntervalSeq
<1> HIDE DEF u
<1>6. Len(t) = n /\ Len(t \o u) = 2 * n
      /\ \A i \in 1 .. n : (t \o u)[i] = t[i] /\ (t \o u)[i + n] = u[i]
  <2>0. Len(t) = n
    BY DEF n
  <2> DEFINE S == Piece \cup {image(i) : i \in 1 .. n}
  <2>1. t \in Seq(S) /\ u \in Seq(S)
    <3>1. Piece \subseteq S /\ {image(i) : i \in 1 .. n} \subseteq S
      OBVIOUS
    <3> DEFINE I == {image(i) : i \in 1 .. n}
    <3>2. u \in Seq(I) /\ I \subseteq S
      BY <1>5, <3>1
    <3> HIDE DEF S, I
    <3> QED BY <3>1, <3>2
  <2> DEFINE d == t \o u
  <2>2. d = t \o u
    OBVIOUS
  <2> HIDE DEF S, d
  <2>3. Len(d) = n + n /\ (\A i \in 1 .. n : d[i] = t[i]) /\ \A i \in 1 .. n : d[n + i] = u[i]
    <3>1. /\ Len(d) = Len(t) + Len(u) /\ \A i \in 1 .. Len(t) : d[i] = t[i]
          /\ \A i \in 1 .. Len(u) : d[Len(t) + i] = u[i]
      BY <2>1, <2>2, Joined
    <3>2. Len(u) = n
      BY <1>5
    <3> QED BY <2>0, <3>1, <3>2
  <2>4. \A i \in 1 .. n : n + i = i + n
    BY <1>0
  <2> QED BY <1>0, <2>0, <2>2, <2>3, <2>4
<1>7. Doubles(t \o u, t, n, count, m)
  BY <1>0, <1>1, <1>3, <1>5, <1>6 DEF Doubles
<1> QED BY <1>4, <1>7 DEF n, count, m

\* A list's tags, and its numbers, before it is doubled.
NumberedIn(t, n, count, m) ==
    \A h \in 1 .. n : t[h].tag \in 0 .. m /\ t[h].num \in Nat /\ t[h].abs \in 0 .. count

\* The references that have an image of their own, and its.
Imaged(t, n, count, m, tag, seg) ==
    \/ tag = 0 /\ seg \in 1 .. count
    \/ tag \in 1 .. m /\ seg \in Nat /\ \A h \in 1 .. n : t[h].tag # 0
ImageIs(tag, seg, tag2, seg2, count, m) ==
    IF tag = 0 THEN tag2 = 0 /\ seg2 = seg + count ELSE tag2 = tag + m /\ seg2 = seg

Named(x, tag, k) == IF tag = 0 THEN x.abs = k ELSE x.tag = tag /\ x.num = k

LEMMA InRangeIs ==
    ASSUME NEW x, NEW tag, NEW seg \in Nat, x.num \in Nat, x.abs \in Nat
    PROVE  InRange(x, tag, seg, 0) <=>
             Counts(x) /\ IF tag = 0 THEN seg = 0 \/ x.abs = seg
                          ELSE x.tag = tag /\ (seg = 0 \/ x.num = seg)
<1>1. \A k \in Nat : k \in seg .. seg <=> k = seg
  OBVIOUS
<1> QED BY <1>1 DEF InRange, Counts

\* A reference and its image name, in a doubled list, what it named and its images.
LEMMA ImagePicks ==
    ASSUME NEW d, NEW t, NEW n, NEW count, NEW m, Doubles(d, t, n, count, m),
           NumberedIn(t, n, count, m), NEW tag, NEW seg, Imaged(t, n, count, m, tag, seg),
           NEW tag2, NEW seg2, ImageIs(tag, seg, tag2, seg2, count, m), NEW h \in 1 .. n
    PROVE  /\ ~Named(d[h + n], tag, seg) /\ ~Named(d[h], tag2, seg2)
           /\ Named(d[h + n], tag2, seg2) <=> Named(t[h], tag, seg)
           /\ ~InRange(d[h + n], tag, seg, 0) /\ ~InRange(d[h], tag2, seg2, 0)
           /\ InRange(d[h + n], tag2, seg2, 0) <=> InRange(t[h], tag, seg, 0)
<1> DEFINE x == t[h]
           y == d[h + n]
<1>0. /\ count \in Nat /\ m \in Nat /\ d[h] = x
      /\ y.tag = x.tag + m /\ y.num = x.num /\ y.part = x.part
      /\ y.abs = IF x.abs = 0 THEN 0 ELSE x.abs + count
  BY DEF Doubles
<1>1. x.tag \in 0 .. m /\ x.num \in Nat /\ x.abs \in 0 .. count
  BY DEF NumberedIn
<1>2. (tag = 0 /\ seg \in 1 .. count) \/ (tag \in 1 .. m /\ seg \in Nat /\ x.tag # 0)
  BY DEF Imaged
<1> HIDE DEF x, y
<1>3. CASE tag = 0 /\ seg \in 1 .. count
  <2>1. tag2 = 0 /\ seg2 = seg + count
    BY <1>3 DEF ImageIs
  <2>2. y.abs # seg /\ x.abs # seg2 /\ (y.abs = seg2 <=> x.abs = seg)
    BY <1>0, <1>1, <1>3, <2>1
  <2>3. seg \in Nat /\ seg2 \in Nat /\ seg # 0 /\ seg2 # 0 /\ x.abs \in Nat /\ y.abs \in Nat /\ y.num \in Nat
    BY <1>0, <1>1, <1>3, <2>1
  <2>4. /\ InRange(x, 0, seg, 0) <=> Counts(x) /\ x.abs = seg
        /\ InRange(x, 0, seg2, 0) <=> Counts(x) /\ x.abs = seg2
        /\ InRange(y, 0, seg, 0) <=> Counts(y) /\ y.abs = seg
        /\ InRange(y, 0, seg2, 0) <=> Counts(y) /\ y.abs = seg2
    BY <1>1, <2>3, InRangeIs
  <2>5. Counts(x) <=> Counts(y)
    BY <1>0 DEF Counts
  <2> QED BY <1>0, <1>3, <2>1, <2>2, <2>4, <2>5 DEF Named, x, y
<1>4. CASE tag \in 1 .. m /\ seg \in Nat /\ x.tag # 0
  <2>1. tag # 0 /\ tag2 = tag + m /\ seg2 = seg /\ tag2 # 0
    BY <1>0, <1>4 DEF ImageIs
  <2>2. y.tag # tag /\ x.tag # tag2 /\ (y.tag = tag2 <=> x.tag = tag)
    BY <1>0, <1>1, <1>4, <2>1
  <2>3. x.abs \in Nat /\ y.abs \in Nat /\ y.num \in Nat
    BY <1>0, <1>1
  <2>4. /\ InRange(x, tag, seg, 0) <=> Counts(x) /\ x.tag = tag /\ (seg = 0 \/ x.num = seg)
        /\ InRange(x, tag2, seg, 0) <=> Counts(x) /\ x.tag = tag2 /\ (seg = 0 \/ x.num = seg)
        /\ InRange(y, tag, seg, 0) <=> Counts(y) /\ y.tag = tag /\ (seg = 0 \/ y.num = seg)
        /\ InRange(y, tag2, seg, 0) <=> Counts(y) /\ y.tag = tag2 /\ (seg = 0 \/ y.num = seg)
    BY <1>1, <1>4, <2>1, <2>3, InRangeIs
  <2>5. Counts(x) <=> Counts(y)
    BY <1>0 DEF Counts
  <2> QED BY <1>0, <2>1, <2>2, <2>4, <2>5 DEF Named, x, y
<1> QED BY <1>2, <1>3, <1>4

\* What a load per metre is judged by.
Subject(s, h) == IF s[h].part = "flank" THEN FlankCentre(s, h) ELSE h
Flanked(t, n) == t[1].part # "centre" /\ \A h \in 1 .. n : Subject(t, h) \in 1 .. n

LEMMA ImageSubjects ==
    ASSUME NEW d, NEW t, NEW n, NEW count, NEW m, Doubles(d, t, n, count, m), Flanked(t, n),
           NEW h \in 1 .. n
    PROVE  /\ Subject(d, h) = Subject(t, h) /\ Subject(t, h) \in 1 .. n
           /\ Subject(d, h + n) = Subject(t, h) + n
<1>0. /\ n \in Nat \ {0} /\ Len(d) = 2 * n /\ Len(t) = n /\ h \in Nat
      /\ \A k \in 1 .. n : d[k].part = t[k].part /\ d[k + n].part = t[k].part
  BY DEF Doubles
<1>1. Subject(t, h) \in 1 .. n
  BY DEF Flanked
<1>2. FlankCentre(d, h) = FlankCentre(t, h)
  <2>1. CASE h < n
    <3>1. h + 1 \in 1 .. n /\ h < 2 * n
      BY <1>0, <2>1
    <3> QED BY <1>0, <2>1, <3>1 DEF FlankCentre
  <2>2. CASE h = n
    <3>1. h < 2 * n /\ h + 1 = 1 + n /\ 1 \in 1 .. n /\ ~(h < n)
      BY <1>0, <2>2
    <3>2. d[h + 1].part # "centre"
      BY <1>0, <3>1 DEF Flanked
    <3> QED BY <1>0, <3>1, <3>2 DEF FlankCentre
  <2> QED BY <1>0, <2>1, <2>2
<1>3. FlankCentre(d, h + n) = FlankCentre(t, h) + n
  <2>1. h < n <=> h + n < 2 * n
    BY <1>0
  <2>2. CASE h < n
    <3>1. h + 1 \in 1 .. n /\ h + n + 1 = (h + 1) + n
      BY <1>0, <2>2
    <3>2. d[h + n + 1].part = t[h + 1].part
      BY <1>0, <3>1
    <3> QED BY <1>0, <2>1, <2>2, <3>1, <3>2 DEF FlankCentre
  <2>3. CASE ~(h < n)
    BY <1>0, <2>1, <2>3 DEF FlankCentre
  <2> QED BY <2>2, <2>3
<1> QED BY <1>0, <1>1, <1>2, <1>3 DEF Subject

Beyond(S, n) == {h + n : h \in S}

\* A load of a whole tag, or of a segment, and its image are on what it was on and on the
\* images of that.
LEMMA ImageLoads ==
    ASSUME NEW d, NEW t, NEW n, NEW count, NEW m, Doubles(d, t, n, count, m), Flanked(t, n),
           NumberedIn(t, n, count, m), NEW tag, NEW seg, Imaged(t, n, count, m, tag, seg),
           NEW tag2, NEW seg2, ImageIs(tag, seg, tag2, seg2, count, m)
    PROVE  LoadedBy(d, tag, seg) \cup LoadedBy(d, tag2, seg2)
             = LoadedBy(t, tag, seg) \cup Beyond(LoadedBy(t, tag, seg), n)
<1>0. n \in Nat \ {0} /\ DOMAIN t = 1 .. n /\ DOMAIN d = 1 .. 2 * n
      /\ \A h \in 1 .. n : d[h] = t[h]
  BY DEF Doubles
<1>1. \A s, g, k : LoadedBy(s, g, k) = {h \in DOMAIN s : InRange(s[Subject(s, h)], g, k, 0)}
  BY DEF LoadedBy, LoadOn, Subject
<1>2. ASSUME NEW h \in 1 .. n
      PROVE  /\ h \in LoadedBy(d, tag, seg) <=> h \in LoadedBy(t, tag, seg)
             /\ h \notin LoadedBy(d, tag2, seg2)
             /\ h + n \notin LoadedBy(d, tag, seg)
             /\ h + n \in LoadedBy(d, tag2, seg2) <=> h \in LoadedBy(t, tag, seg)
  <2> DEFINE g == Subject(t, h)
  <2>1. Subject(d, h) = g /\ Subject(d, h + n) = g + n /\ g \in 1 .. n
    BY ImageSubjects
  <2> HIDE DEF g
  <2>2. /\ ~InRange(d[g + n], tag, seg, 0) /\ ~InRange(d[g], tag2, seg2, 0)
        /\ InRange(d[g + n], tag2, seg2, 0) <=> InRange(t[g], tag, seg, 0)
    BY <2>1, ImagePicks
  <2>3. h \in DOMAIN t /\ h \in DOMAIN d /\ h + n \in DOMAIN d /\ d[g] = t[g]
    BY <1>0, <2>1
  <2> QED BY <1>1, <2>1, <2>2, <2>3 DEF g
<1>3. LoadedBy(d, tag, seg) \cup LoadedBy(d, tag2, seg2) \subseteq 1 .. 2 * n
  BY <1>0, <1>1
<1>4. LoadedBy(t, tag, seg) \subseteq 1 .. n
  BY <1>0, <1>1
<1>5. ASSUME NEW x \in LoadedBy(d, tag, seg) \cup LoadedBy(d, tag2, seg2)
      PROVE  x \in LoadedBy(t, tag, seg) \cup Beyond(LoadedBy(t, tag, seg), n)
  <2>1. x \in 1 .. n \/ (x - n \in 1 .. n /\ x = (x - n) + n)
    BY <1>0, <1>3
  <2>2. CASE x \in 1 .. n
    BY <1>2, <2>2
  <2>3. CASE x - n \in 1 .. n /\ x = (x - n) + n
    <3> DEFINE h == x - n
    <3>1. h \in 1 .. n /\ x = h + n
      BY <2>3
    <3> HIDE DEF h
    <3>2. h \in LoadedBy(t, tag, seg)
      BY <1>2, <3>1
    <3> QED BY <3>1, <3>2 DEF Beyond
  <2> QED BY <2>1, <2>2, <2>3
<1>6. ASSUME NEW x \in LoadedBy(t, tag, seg) \cup Beyond(LoadedBy(t, tag, seg), n)
      PROVE  x \in LoadedBy(d, tag, seg) \cup LoadedBy(d, tag2, seg2)
  <2>1. CASE x \in LoadedBy(t, tag, seg)
    BY <1>2, <1>4, <2>1
  <2>2. CASE x \in Beyond(LoadedBy(t, tag, seg), n)
    <3>1. PICK h \in LoadedBy(t, tag, seg) : x = h + n
      BY <2>2 DEF Beyond
    <3> QED BY <1>2, <1>4, <3>1
  <2> QED BY <2>1, <2>2
<1> QED BY <1>5, <1>6

MiddleOf(S) == CHOOSE i \in S : Cardinality(UpTo(S, i)) = Middle(S)

LEMMA MiddleIs ==
    ASSUME NEW n \in Nat, NEW S \in SUBSET (1 .. n), S # {}
    PROVE  MiddleOf(S) \in S /\ Cardinality(UpTo(S, MiddleOf(S))) = Middle(S)
<1>1. IsFiniteSet(S)
  <2>1. IsFiniteSet(1 .. n)
    BY FS_Interval
  <2> QED BY <2>1, FS_Subset
<1>2. Cardinality(S) \in Nat /\ Cardinality(S) # 0
  BY <1>1, FS_CardinalityType, FS_EmptySet
<1>3. Middle(S) \in 1 .. Cardinality(S)
  <2> DEFINE k == Cardinality(S)
  <2>1. k \in Nat /\ k # 0
    BY <1>2
  <2> HIDE DEF k
  <2>2. (k + 1) \div 2 \in 1 .. k
    BY <2>1
  <2> QED BY <2>2 DEF Middle, k
<1>4. \E i \in S : Cardinality(UpTo(S, i)) = Middle(S)
  BY <1>3, RankedEvery
<1> QED BY <1>4 DEF MiddleOf

LEMMA MiddleBeyond ==
    ASSUME NEW n \in Nat, NEW S \in SUBSET (1 .. n), S # {}
    PROVE  MiddleOf(Beyond(S, n)) = MiddleOf(S) + n
<1> DEFINE T == Beyond(S, n)
           c == [i \in 1 .. n |-> i + n]
           k == 2 * n
           p == MiddleOf(S)
           q == MiddleOf(T)
<1>1. k \in Nat /\ c \in [1 .. n -> 1 .. k] /\ \A i, j \in 1 .. n : i < j => c[i] < c[j]
  OBVIOUS
<1>2. Rising(c, n, k)
  BY <1>1 DEF Rising
<1>3. \A x \in S : c[x] = x + n
  OBVIOUS
<1>4. ImageOf(T, S, c)
  BY <1>3 DEF ImageOf, Beyond
<1>5. T \in SUBSET (1 .. k) /\ T # {}
  <2>1. \A x \in T : x \in 1 .. k
    BY DEF Beyond
  <2> QED BY <2>1 DEF Beyond
<1>6. p \in S /\ Cardinality(UpTo(S, p)) = Middle(S) /\ p \in 1 .. n
  BY MiddleIs
<1>7. c[p] = p + n /\ c[p] \in T
  BY <1>3, <1>4, <1>6 DEF ImageOf
<1> HIDE DEF k, c, T, p, q
<1>8. q \in T /\ Cardinality(UpTo(T, q)) = Middle(T)
  BY <1>1, <1>5, MiddleIs DEF q
<1>9. Cardinality(T) = Cardinality(S) /\ Cardinality(UpTo(T, c[p])) = Cardinality(UpTo(S, p))
  <2>1. Cardinality(T) = Cardinality(S)
    BY <1>1, <1>2, <1>4, CountKept
  <2>2. Cardinality(UpTo(T, c[p])) = Cardinality(UpTo(S, p))
    <3>1. k \in Nat /\ p \in 1 .. n
      BY <1>1, <1>6
    <3> QED BY <1>2, <1>4, <3>1, RankKept
  <2> QED BY <2>1, <2>2
<1>10. Cardinality(UpTo(T, c[p])) = Cardinality(UpTo(T, q))
  BY <1>6, <1>8, <1>9 DEF Middle
<1>11. c[p] = q
  BY <1>1, <1>5, <1>7, <1>8, <1>10, RanksApart
<1> QED BY <1>7, <1>11 DEF p, q, T

TaggedThere(s, tag) == {i \in DOMAIN s : s[i].tag = tag /\ Counts(s[i])}

LEMMA PortOf ==
    ASSUME NEW s, NEW tag, NEW k
    PROVE  FindPort(s, tag, k) = IF k # 0 THEN FindDeckSegment(s, tag, k)
                                 ELSE IF tag = 0 \/ TaggedThere(s, tag) = {} THEN None
                                 ELSE MiddleOf(TaggedThere(s, tag))
<1> DEFINE T == TaggedThere(s, tag)
<1>1. \A i : UpTo(T, i) = {j \in T : j <= i}
  BY DEF UpTo
<1>2. MiddleOf(T) = CHOOSE i \in T : Cardinality({j \in T : j <= i}) = Middle(T)
  BY <1>1 DEF MiddleOf
<1> QED BY <1>2 DEF FindPort, TaggedThere, Middle

LEMMA FoundAlone ==
    ASSUME NEW s, NEW tag, NEW k, k # 0, NEW p \in Int, p \in DOMAIN s,
           \A i \in DOMAIN s : Named(s[i], tag, k) <=> i = p
    PROVE  FindDeckSegment(s, tag, k) = p
<1>1. {i \in DOMAIN s : IF tag = 0 THEN s[i].abs = k ELSE s[i].tag = tag /\ s[i].num = k} = {p}
  BY DEF Named
<1> QED BY <1>1 DEF FindDeckSegment

\* Where the reference leads to in the list that is doubled.
Leads(t, n, tag, seg, p) ==
    p \in 1 .. n /\ IF seg = 0 THEN TaggedThere(t, tag) # {} /\ tag # 0
                    ELSE \A h \in 1 .. n : Named(t[h], tag, seg) <=> h = p

LEMMA ImagePorts ==
    ASSUME NEW d, NEW t, NEW n, NEW count, NEW m, Doubles(d, t, n, count, m),
           NumberedIn(t, n, count, m), NEW tag, NEW seg, Imaged(t, n, count, m, tag, seg),
           NEW tag2, NEW seg2, ImageIs(tag, seg, tag2, seg2, count, m),
           NEW p, Leads(t, n, tag, seg, p)
    PROVE  /\ FindPort(d, tag, seg) \in 1 .. n
           /\ FindPort(d, tag2, seg2) = FindPort(d, tag, seg) + n
<1>0. /\ n \in Nat \ {0} /\ DOMAIN t = 1 .. n /\ DOMAIN d = 1 .. 2 * n
      /\ \A h \in 1 .. n : d[h] = t[h] /\ d[h + n].part = t[h].part /\ d[h + n].tag = t[h].tag + m
      /\ count \in Nat /\ m \in Nat
  BY DEF Doubles
<1>1. \A x \in 1 .. 2 * n : x \in 1 .. n \/ \E h \in 1 .. n : x = h + n
  <2> TAKE x \in 1 .. 2 * n
  <2>1. x \in 1 .. n \/ (x - n \in 1 .. n /\ x = (x - n) + n)
    BY <1>0
  <2> QED BY <2>1
<1>2. \A h \in 1 .. n : h \in Int /\ h + n \in Int /\ h \in 1 .. 2 * n /\ h + n \in 1 .. 2 * n /\ h + n \notin 1 .. n
  BY <1>0
<1>3. CASE seg # 0
  <2>1. p \in 1 .. n /\ \A h \in 1 .. n : Named(t[h], tag, seg) <=> h = p
    BY <1>3 DEF Leads
  <2>2. ASSUME NEW h \in 1 .. n
        PROVE  /\ ~Named(d[h + n], tag, seg) /\ ~Named(d[h], tag2, seg2)
               /\ Named(d[h + n], tag2, seg2) <=> h = p
               /\ Named(d[h], tag, seg) <=> h = p
    <3>1. /\ ~Named(d[h + n], tag, seg) /\ ~Named(d[h], tag2, seg2)
          /\ Named(d[h + n], tag2, seg2) <=> Named(t[h], tag, seg)
      BY ImagePicks
    <3>2. d[h] = t[h]
      BY <1>0
    <3> QED BY <2>1, <3>1, <3>2
  <2>3. seg2 # 0
    BY <1>0, <1>3 DEF ImageIs, Imaged
  <2>4. \A x \in DOMAIN d : Named(d[x], tag, seg) <=> x = p
    <3> TAKE x \in DOMAIN d
    <3>1. CASE x \in 1 .. n
      BY <2>2, <3>1
    <3>2. CASE \E h \in 1 .. n : x = h + n
      <4>1. PICK h \in 1 .. n : x = h + n
        BY <3>2
      <4> QED BY <1>2, <2>1, <2>2, <4>1
    <3> QED BY <1>0, <1>1, <3>1, <3>2
  <2>5. \A x \in DOMAIN d : Named(d[x], tag2, seg2) <=> x = p + n
    <3> TAKE x \in DOMAIN d
    <3>1. CASE x \in 1 .. n
      BY <1>2, <2>1, <2>2, <3>1
    <3>2. CASE \E h \in 1 .. n : x = h + n
      <4>1. PICK h \in 1 .. n : x = h + n
        BY <3>2
      <4>2. x = p + n <=> h = p
        BY <1>0, <2>1, <4>1
      <4> QED BY <2>1, <2>2, <4>1, <4>2
    <3> QED BY <1>0, <1>1, <3>1, <3>2
  <2>6. p \in Int /\ p \in DOMAIN d /\ p + n \in Int /\ p + n \in DOMAIN d
    BY <1>0, <1>2, <2>1
  <2>7. FindDeckSegment(d, tag, seg) = p
    BY <1>3, <2>4, <2>6, FoundAlone
  <2>8. FindDeckSegment(d, tag2, seg2) = p + n
    <3> DEFINE q == p + n
    <3>1. q \in Int /\ q \in DOMAIN d /\ \A x \in DOMAIN d : Named(d[x], tag2, seg2) <=> x = q
      BY <2>5, <2>6
    <3> HIDE DEF q
    <3>2. FindDeckSegment(d, tag2, seg2) = q
      BY <2>3, <3>1, FoundAlone
    <3> QED BY <3>2 DEF q
  <2> QED BY <1>3, <2>1, <2>3, <2>7, <2>8, PortOf
<1>4. CASE seg = 0
  <2> DEFINE S == TaggedThere(t, tag)
  <2>1. tag \in 1 .. m /\ tag2 = tag + m /\ seg2 = 0 /\ S # {} /\ tag # 0 /\ tag2 # 0
    BY <1>0, <1>4 DEF Imaged, ImageIs, Leads
  <2>2. S \in SUBSET (1 .. n)
    BY <1>0 DEF TaggedThere
  <2>3. \A h \in 1 .. n : t[h].tag \in 1 .. m /\ t[h].tag # t[h].tag + m
    <3> TAKE h \in 1 .. n
    <3>1. t[h].tag \in 0 .. m /\ t[h].tag # 0
      BY <1>4, <2>1 DEF Imaged, NumberedIn
    <3> QED BY <1>0, <2>1, <3>1
  <2>4. ASSUME NEW h \in 1 .. n
        PROVE  /\ h \in TaggedThere(d, tag) <=> h \in S
               /\ h + n \notin TaggedThere(d, tag)
               /\ h \notin TaggedThere(d, tag2)
               /\ h + n \in TaggedThere(d, tag2) <=> h \in S
    <3> DEFINE x == t[h].tag
    <3>1. x \in 1 .. m /\ d[h].tag = x /\ d[h + n].tag = x + m /\ d[h] = t[h]
          /\ (Counts(d[h + n]) <=> Counts(t[h])) /\ h \in DOMAIN d /\ h + n \in DOMAIN d /\ h \in DOMAIN t
      BY <1>0, <1>2, <2>3 DEF Counts
    <3>2. x + m # tag /\ x # tag2 /\ (x + m = tag2 <=> x = tag)
      <4>1. x \in 1 .. m /\ tag \in 1 .. m /\ m \in Nat /\ tag2 = tag + m
        BY <1>0, <2>1, <3>1
      <4> HIDE DEF x
      <4> QED BY <4>1
    <3> QED BY <3>1, <3>2 DEF TaggedThere
  <2>5. TaggedThere(d, tag) \subseteq 1 .. 2 * n /\ TaggedThere(d, tag2) \subseteq 1 .. 2 * n
    BY <1>0 DEF TaggedThere
  <2>6. TaggedThere(d, tag) = S
    <3>1. \A x \in TaggedThere(d, tag) : x \in S
      BY <1>1, <2>4, <2>5
    <3>2. \A x \in S : x \in TaggedThere(d, tag)
      BY <2>2, <2>4
    <3> QED BY <3>1, <3>2
  <2>7. TaggedThere(d, tag2) = Beyond(S, n)
    <3>1. \A x \in TaggedThere(d, tag2) : x \in Beyond(S, n)
      BY <1>1, <2>4, <2>5 DEF Beyond
    <3>2. \A x \in Beyond(S, n) : x \in TaggedThere(d, tag2)
      BY <2>2, <2>4 DEF Beyond
    <3> QED BY <3>1, <3>2
  <2>8. FindPort(d, tag, seg) = MiddleOf(S)
    BY <1>4, <2>1, <2>6, PortOf
  <2>9. Beyond(S, n) # {}
    BY <2>1 DEF Beyond
  <2>10. FindPort(d, tag2, seg2) = MiddleOf(Beyond(S, n))
    BY <2>1, <2>7, <2>9, PortOf
  <2>11. MiddleOf(S) \in 1 .. n
    BY <1>0, <2>1, <2>2, MiddleIs
  <2>12. MiddleOf(Beyond(S, n)) = MiddleOf(S) + n
    BY <1>0, <2>1, <2>2, MiddleBeyond
  <2> QED BY <2>8, <2>10, <2>11, <2>12
<1> QED BY <1>3, <1>4

\* A reference of the deck and its image, in the problem it is solved as on PEC ground.
LEMMA ImageMirrors ==
    ASSUME NEW d, NEW n, NEW count, NEW m, count = DeckSegments(hallen), m = MaxTagOf(hallen),
           Doubles(d, hallen, n, count, m), Flanked(hallen, n), NumberedIn(hallen, n, count, m),
           NEW tag, NEW seg, Imaged(hallen, n, count, m, tag, seg),
           NEW p, Leads(hallen, n, tag, seg, p)
    PROVE  MirrorsIn(d, n, tag, seg)
<1> DEFINE tag2 == ImageReference(hallen, tag, seg)[1]
           seg2 == ImageReference(hallen, tag, seg)[2]
<1>1. ImageIs(tag, seg, tag2, seg2, count, m)
  <2>1. CASE tag = 0 /\ seg \in 1 .. count
    <3>1. seg # 0
      BY <2>1 DEF Doubles
    <3>2. ImageReference(hallen, tag, seg) = <<0, seg + count>>
      BY <2>1, <3>1 DEF ImageReference
    <3> QED BY <2>1, <3>2 DEF ImageIs
  <2>2. CASE tag \in 1 .. m
    <3>1. tag # 0
      BY <2>2 DEF Doubles
    <3>2. ImageReference(hallen, tag, seg) = <<tag + m, seg>>
      BY <3>1 DEF ImageReference
    <3> QED BY <3>1, <3>2 DEF ImageIs
  <2> QED BY <2>1, <2>2 DEF Imaged
<1> HIDE DEF tag2, seg2
<1>2. /\ FindPort(d, tag, seg) \in 1 .. n
      /\ FindPort(d, tag2, seg2) = FindPort(d, tag, seg) + n
  BY <1>1, ImagePorts
<1>3. LoadedBy(d, tag, seg) \cup LoadedBy(d, tag2, seg2)
        = LoadedBy(hallen, tag, seg) \cup Beyond(LoadedBy(hallen, tag, seg), n)
  BY <1>1, ImageLoads
<1>4. n \in Nat /\ \A i \in 1 .. n : i # None /\ i <= n
  BY DEF Doubles, None
<1> QED BY <1>2, <1>3, <1>4 DEF MirrorsIn, Beyond, tag2, seg2

\* What the refined deck's numbers are: no more than the deck's, none a flank's.
LEMMA CutNumbered ==
    ASSUME NEW s, NEW r, NEW free, NEW place, CutOf(place, s, r, free), s # <<>>,
           NEW t, t = Numbered(r)
    PROVE  /\ t \in Seq(Piece) /\ t # <<>> /\ Len(t) = Len(r)
           /\ Flanked(t, Len(t)) /\ NumberedIn(t, Len(t), DeckSegments(t), MaxTagOf(t))
<1>0. /\ s \in Lists(3) /\ r \in Seq(Piece) /\ CutFrom(place, s, r, free) /\ s \in Seq(Piece)
      /\ Len(s) \in Nat /\ Len(r) \in Nat
  BY CutFacts DEF CutOf
<1> DEFINE n == Len(t)
<1>1. /\ t \in Seq(Piece) /\ n = Len(r) /\ DOMAIN t = 1 .. n
      /\ \A h \in 1 .. n : t[h].part = r[h].part
  <2>1. t \in Seq(Piece) /\ Len(t) = Len(r)
    BY <1>0, NumberedIs
  <2>2. \A h \in 1 .. Len(r) : t[h].part = r[h].part
    BY <1>0, NumberedIs
  <2> QED BY <2>1, <2>2
<1>2. 1 \in 1 .. n
  <2>1. 1 \in 1 .. Len(s)
    BY <1>0
  <2>2. \E c : c \in 1 .. Len(r)
    BY <1>0, <2>1, CutFacts
  <2> QED BY <1>0, <1>1, <2>2
<1>3. \A h \in 1 .. n : \E i \in 1 .. Len(s) : PieceAt(place, i, h)
  BY <1>0, <1>1, CutFacts
<1>4. t[1].part # "centre"
  <2>1. PICK i \in 1 .. Len(s) : PieceAt(place, i, 1)
    BY <1>2, <1>3
  <2> DEFINE c == Centres(place, s, free)[i]
  <2>2. /\ place[i - 1] \in Nat /\ c = place[i - 1] + (IF i \in free THEN 2 ELSE 1)
        /\ r[c].part = IF i \in free THEN "centre" ELSE "whole"
    BY <1>0, CutFacts
  <2>3. (Counts(r[1]) <=> 1 = c)
    BY <1>0, <2>1, CutFacts
  <2> HIDE DEF c
  <2>4. 1 = c => i \notin free
    BY <2>2
  <2>5. r[1].part # "centre"
    BY <2>2, <2>3, <2>4 DEF Counts
  <2> QED BY <1>1, <1>2, <2>5
<1>5. ASSUME NEW h \in 1 .. n PROVE Subject(t, h) \in 1 .. n
  <2>1. PICK i \in 1 .. Len(s) : PieceAt(place, i, h)
    BY <1>3
  <2>2. SameParts(t, r)
    BY <1>1 DEF SameParts
  <2>3. (IF t[h].part = "flank" THEN FlankCentre(t, h) ELSE h) = Centres(place, s, free)[i]
    BY <1>0, <1>1, <2>1, <2>2, SubjectIs
  <2>4. Centres(place, s, free)[i] \in 1 .. Len(r)
    BY <1>0, CutFacts
  <2> QED BY <1>1, <2>3, <2>4 DEF Subject
<1>6. ASSUME NEW h \in 1 .. n PROVE t[h].abs \in 0 .. DeckSegments(t) /\ t[h].num \in Nat
  <2> DEFINE A == CountedOf(r)
  <2>1. DeckSegments(t) = Cardinality(A)
    <3>1. {i \in DOMAIN t : Counts(t[i])} = A
      BY <1>1 DEF CountedOf, Counts
    <3> QED BY <3>1 DEF DeckSegments
  <2>2. A \subseteq 1 .. Len(r) /\ IsFiniteSet(1 .. Len(r))
    BY <1>0, FS_Interval DEF CountedOf
  <2>3. IsFiniteSet(A) /\ Cardinality(A) \in Nat
    BY <2>2, FS_Subset, FS_CardinalityType
  <2>4. Cardinality(UpTo(A, h)) <= Cardinality(A) /\ Cardinality(UpTo(A, h)) \in Nat
    <3>1. UpTo(A, h) \subseteq A
      BY DEF UpTo
    <3> HIDE DEF A
    <3> QED BY <2>3, <3>1, FS_Subset, FS_CardinalityType
  <2>5. Unnumbered(r)
    BY <1>0, CutKept
  <2>6. /\ Counts(r[h]) => t[h].abs = Cardinality(UpTo(A, h))
        /\ ~Counts(r[h]) => t[h].abs = 0
    BY <1>0, <1>1, <2>5, NumbersAreRanks
  <2> HIDE DEF A
  <2>7. t[h].abs \in 0 .. DeckSegments(t)
    BY <2>1, <2>3, <2>4, <2>6
  <2>8. t[h] \in Piece
    BY <1>1
  <2> QED BY <2>7, <2>8 DEF Piece
<1>7. t # <<>>
  BY <1>1, <1>2
<1>8. \A h \in 1 .. n : t[h].tag \in 0 .. MaxTagOf(t)
  BY <1>1, <1>7, GreatestTag
<1>9. Flanked(t, n)
  BY <1>4, <1>5 DEF Flanked
<1>10. NumberedIn(t, n, DeckSegments(t), MaxTagOf(t))
  BY <1>6, <1>8 DEF NumberedIn
<1> QED BY <1>1, <1>7, <1>9, <1>10

\* Where the references of the deck lead in what Hallen solves.
LEMMA CutLeads ==
    ASSUME NEW s, NEW r, NEW free, NEW place, CutOf(place, s, r, free), s # <<>>,
           NEW t, t = Numbered(r), NEW i \in 1 .. Len(s), NEW d, d = Numbered(s)[i]
    PROVE  \E p :
             /\ Leads(t, Len(t), 0, d.abs, p) /\ d.abs \in 1 .. DeckSegments(t)
             /\ d.tag # 0 => /\ Leads(t, Len(t), d.tag, 0, p) /\ Leads(t, Len(t), d.tag, d.num, p)
                             /\ d.tag \in 1 .. MaxTagOf(t)
             /\ d.tag = s[i].tag /\ d.num \in Nat
<1>0. /\ s \in Lists(3) /\ r \in Seq(Piece) /\ CutFrom(place, s, r, free) /\ s \in Seq(Piece)
      /\ Len(s) \in Nat /\ Len(r) \in Nat
  BY CutFacts DEF CutOf
<1>1. /\ t \in Seq(Piece) /\ t # <<>> /\ Len(t) = Len(r)
      /\ NumberedIn(t, Len(t), DeckSegments(t), MaxTagOf(t))
  BY CutNumbered
<1>2. Kept(Centres(place, s, free), s, r) /\ Unnumbered(s) /\ Unnumbered(r)
  BY <1>0, CutKept
<1> DEFINE p == Centres(place, s, free)[i]
           n == Len(t)
<1>3. /\ p \in 1 .. n /\ Counts(s[i]) /\ Counts(r[p]) /\ r[p].tag = s[i].tag
  BY <1>1, <1>2 DEF Kept, Rising
<1>4. /\ d.tag = s[i].tag /\ d.num \in Nat /\ d.num # 0 /\ d.abs \in Nat /\ d.abs # 0
  BY <1>0, <1>2, <1>3, NumbersAreRanks
<1>5. /\ t[p].num = d.num /\ t[p].abs = d.abs
      /\ FindDeckSegment(t, 0, d.abs) = p
      /\ s[i].tag # 0 => FindDeckSegment(t, s[i].tag, d.num) = p
  BY <1>0, <1>2, KeptNumbers
<1>6. /\ \A h \in 1 .. n : /\ t[h].tag = r[h].tag /\ (Counts(t[h]) <=> Counts(r[h]))
                           /\ ~Counts(r[h]) => t[h].num = 0 /\ t[h].abs = 0
  BY <1>0, <1>1, <1>2, NumbersAreRanks
<1>7. \A h \in 1 .. n : Counts(r[h]) =>
        /\ FindDeckSegment(t, 0, t[h].abs) = h
        /\ r[h].tag # 0 => FindDeckSegment(t, r[h].tag, t[h].num) = h
  BY <1>0, <1>1, <1>2, FoundByNumber
<1> HIDE DEF p
<1>8. \A h \in 1 .. n : t[h].abs = d.abs <=> h = p
  BY <1>3, <1>4, <1>5, <1>6, <1>7
<1>9. s[i].tag # 0 => \A h \in 1 .. n : t[h].tag = s[i].tag /\ t[h].num = d.num <=> h = p
  BY <1>3, <1>4, <1>5, <1>6, <1>7
<1>10. Leads(t, n, 0, d.abs, p)
  BY <1>3, <1>4, <1>8 DEF Leads, Named
<1>11. ASSUME d.tag # 0
       PROVE  Leads(t, n, d.tag, 0, p) /\ Leads(t, n, d.tag, d.num, p)
  <2>1. p \in TaggedThere(t, d.tag)
    <3>1. p \in DOMAIN t
      BY <1>1, <1>3
    <3>2. t[p].tag = d.tag /\ Counts(t[p])
      BY <1>3, <1>4, <1>6
    <3> QED BY <3>1, <3>2 DEF TaggedThere
  <2> QED BY <1>3, <1>4, <1>9, <1>11, <2>1 DEF Leads, Named
<1>12. t[p].abs \in 0 .. DeckSegments(t) /\ t[p].tag \in 0 .. MaxTagOf(t)
  BY <1>1, <1>3 DEF NumberedIn
<1>13. d.abs \in 1 .. DeckSegments(t)
  BY <1>4, <1>5, <1>12
<1>14. d.tag # 0 => d.tag \in 1 .. MaxTagOf(t)
  <2>1. t[p].tag = d.tag
    BY <1>3, <1>4, <1>6
  <2>2. MaxTagOf(t) \in Nat
    BY <1>1, GreatestTag
  <2> QED BY <1>12, <2>1, <2>2
<1> QED BY <1>4, <1>10, <1>11, <1>13, <1>14

\* The references of a deck on PEC ground, and their images.
LEMMA ImageReferences ==
    ASSUME DeckInv, stage = "built"
    PROVE  ImageMirrorsReferences
<1> SUFFICES ASSUME contact.kind = "image" PROVE ImageMirrorsReferences
  BY DEF ImageMirrorsReferences
<1>1. /\ deck = Numbered(segs) /\ hallen = SolvedFor /\ segs # <<>> /\ segs \in Lists(3)
      /\ contact = Contact(SolvedFor, ground = "pec")
  BY DEF DeckInv, Built
<1>2. contact.segs = Doubled(hallen)
  BY <1>1 DEF Contact
<1>3. PICK r, free, place : CutOf(place, segs, r, free) /\ hallen = Numbered(r)
  BY <1>1, SolvedIsCut
<1> DEFINE n == Len(hallen)
           d == Doubled(hallen)
           count == DeckSegments(hallen)
           m == MaxTagOf(hallen)
<1>4. /\ hallen \in Seq(Piece) /\ hallen # <<>> /\ n = Len(r)
      /\ Flanked(hallen, n) /\ NumberedIn(hallen, n, count, m)
  BY <1>1, <1>3, CutNumbered
<1>5. Doubles(d, hallen, n, count, m)
  BY <1>4, DoubledIs
<1>6. DOMAIN deck = 1 .. Len(segs)
  <2>1. segs \in Seq(Piece)
    BY <1>1, ListsArePieces
  <2> QED BY <1>1, <2>1, NumberedIs
<1>7. ASSUME NEW i \in 1 .. Len(segs)
      PROVE  \E p : /\ Leads(hallen, n, 0, deck[i].abs, p) /\ deck[i].abs \in 1 .. count
                    /\ deck[i].tag # 0 => /\ Leads(hallen, n, deck[i].tag, 0, p)
                                          /\ Leads(hallen, n, deck[i].tag, deck[i].num, p)
                                          /\ deck[i].tag \in 1 .. m
                    /\ deck[i].tag = segs[i].tag /\ deck[i].num \in Nat
  <2> DEFINE x == deck[i]
             t == hallen
  <2>1. x = Numbered(segs)[i] /\ t = Numbered(r) /\ CutOf(place, segs, r, free) /\ segs # <<>>
    BY <1>1, <1>3
  <2> HIDE DEF x, t
  <2>2. \E p : /\ Leads(t, Len(t), 0, x.abs, p) /\ x.abs \in 1 .. DeckSegments(t)
               /\ x.tag # 0 => /\ Leads(t, Len(t), x.tag, 0, p) /\ Leads(t, Len(t), x.tag, x.num, p)
                               /\ x.tag \in 1 .. MaxTagOf(t)
               /\ x.tag = segs[i].tag /\ x.num \in Nat
    BY <2>1, CutLeads
  <2> QED BY <2>2 DEF x, t
<1>8. count = DeckSegments(hallen) /\ m = MaxTagOf(hallen)
  OBVIOUS
<1> HIDE DEF n, d, count, m
<1>9. \A i \in 1 .. Len(segs) : MirrorsIn(d, n, 0, deck[i].abs)
  <2> TAKE i \in 1 .. Len(segs)
  <2>1. PICK p : Leads(hallen, n, 0, deck[i].abs, p) /\ deck[i].abs \in 1 .. count
    BY <1>7
  <2>2. Imaged(hallen, n, count, m, 0, deck[i].abs)
    BY <2>1 DEF Imaged
  <2> QED BY <1>4, <1>5, <1>8, <2>1, <2>2, ImageMirrors
<1>10. ASSUME \A i \in 1 .. Len(segs) : deck[i].tag # 0,
              NEW i \in 1 .. Len(segs), NEW seg \in {0, deck[i].num}
       PROVE  MirrorsIn(d, n, deck[i].tag, seg)
  <2>1. PICK p : /\ Leads(hallen, n, deck[i].tag, seg, p) /\ deck[i].tag \in 1 .. m /\ seg \in Nat
    BY <1>7, <1>10
  <2>2. \A h \in 1 .. n : hallen[h].tag # 0
    <3> TAKE h \in 1 .. n
    <3>1. h \in 1 .. Len(r) /\ segs \in Lists(3) /\ r \in Seq(Piece) /\ CutFrom(place, segs, r, free)
      BY <1>3, <1>4 DEF CutOf
    <3>2. PICK j \in 1 .. Len(segs) : PieceAt(place, j, h)
      BY <3>1, CutFacts
    <3>3. h \in Nat /\ r[h].tag = segs[j].tag
      BY <3>1, <3>2, CutFacts
    <3>4. deck[j].tag = segs[j].tag /\ deck[j].tag # 0
      BY <1>7, <1>10
    <3>5. hallen[h].tag = r[h].tag
      BY <1>3, <3>1, NumberedIs
    <3> QED BY <3>3, <3>4, <3>5
  <2>3. Imaged(hallen, n, count, m, deck[i].tag, seg)
    BY <2>1, <2>2 DEF Imaged
  <2> DEFINE tag == deck[i].tag
  <2>4. Leads(hallen, n, tag, seg, p) /\ Imaged(hallen, n, count, m, tag, seg)
    BY <2>1, <2>3
  <2> HIDE DEF tag
  <2>5. MirrorsIn(d, n, tag, seg)
    BY <1>4, <1>5, <1>8, <2>4, ImageMirrors
  <2> QED BY <2>5 DEF tag
<1> QED BY <1>2, <1>6, <1>9, <1>10 DEF ImageMirrorsReferences, n, d
-----------------------------------------------------------------------------
(* The deck meshed three times finer                                       *)

ThirdPlace(i, k) == 3 * (i - 1) + k
PieceOf(x, y, k) == y.tag = x.tag /\ ThirdOf(x, y, k)

\* f has the thirds of every segment of s, in its order.
CutInThree(s, f) == /\ Len(f) = 3 * Len(s)
                    /\ \A i \in 1 .. Len(s), k \in 1 .. 3 : PieceOf(s[i], f[ThirdPlace(i, k)], k)

LEMMA PlacesOfThirds ==
    ASSUME NEW n \in Nat, NEW i \in 1 .. n, NEW k \in 1 .. 3
    PROVE  ThirdPlace(i, k) \in 1 .. 3 * n
BY DEF ThirdPlace

LEMMA EveryThird ==
    ASSUME NEW n \in Nat, NEW h \in 1 .. 3 * n
    PROVE  \E i \in 1 .. n, k \in 1 .. 3 : h = ThirdPlace(i, k)
<1> DEFINE i == (h + 2) \div 3
           k == h - 3 * (i - 1)
<1>1. i \in Int /\ 3 * i <= h + 2 /\ h + 2 < 3 * i + 3
  OBVIOUS
<1> HIDE DEF i
<1>2. i \in 1 .. n /\ k \in 1 .. 3 /\ h = 3 * (i - 1) + k
  BY <1>1
<1> QED BY <1>2 DEF ThirdPlace

LEMMA CutJoined ==
    ASSUME NEW S, NEW T, NEW a \in Seq(S), NEW b \in Seq(S), NEW x \in Seq(T), NEW y \in Seq(T),
           CutInThree(a, x), CutInThree(b, y), NEW s, s = a \o b, NEW f, f = x \o y
    PROVE  CutInThree(s, f)
<1>0. Len(a) \in Nat /\ Len(b) \in Nat /\ Len(x) = 3 * Len(a) /\ Len(y) = 3 * Len(b)
  BY DEF CutInThree
<1>1. /\ Len(s) = Len(a) + Len(b)
      /\ \A i \in 1 .. Len(a) : s[i] = a[i]
      /\ \A i \in 1 .. Len(b) : s[Len(a) + i] = b[i]
      /\ \A i \in 1 .. Len(s) : i \in 1 .. Len(a) \/ i - Len(a) \in 1 .. Len(b)
  BY Joined
<1>2. /\ Len(f) = Len(x) + Len(y)
      /\ \A i \in 1 .. Len(x) : f[i] = x[i]
      /\ \A i \in 1 .. Len(y) : f[Len(x) + i] = y[i]
  BY Joined
<1>3. Len(f) = 3 * Len(s)
  BY <1>0, <1>1, <1>2
<1>4. ASSUME NEW i \in 1 .. Len(s), NEW k \in 1 .. 3
      PROVE  PieceOf(s[i], f[ThirdPlace(i, k)], k)
  <2>1. CASE i \in 1 .. Len(a)
    <3>1. ThirdPlace(i, k) \in 1 .. Len(x)
      BY <1>0, <2>1, PlacesOfThirds
    <3>2. PieceOf(a[i], x[ThirdPlace(i, k)], k)
      BY <2>1 DEF CutInThree
    <3> QED BY <1>1, <1>2, <2>1, <3>1, <3>2
  <2>2. CASE i - Len(a) \in 1 .. Len(b)
    <3> DEFINE j == i - Len(a)
    <3>1. j \in 1 .. Len(b) /\ s[i] = b[j]
      <4>1. s[Len(a) + j] = b[j]
        BY <1>1, <2>2
      <4>2. Len(a) + j = i
        BY <1>0
      <4> QED BY <2>2, <4>1, <4>2
    <3> HIDE DEF j
    <3>2. ThirdPlace(j, k) \in 1 .. Len(y)
      BY <1>0, <3>1, PlacesOfThirds
    <3>3. ThirdPlace(i, k) = Len(x) + ThirdPlace(j, k)
      BY <1>0 DEF ThirdPlace, j
    <3>4. PieceOf(b[j], y[ThirdPlace(j, k)], k)
      BY <3>1 DEF CutInThree
    <3>5. f[ThirdPlace(i, k)] = y[ThirdPlace(j, k)]
      BY <1>2, <3>2, <3>3
    <3> QED BY <3>1, <3>4, <3>5
  <2> QED BY <1>1, <2>1, <2>2
<1> QED BY <1>3, <1>4 DEF CutInThree

\* Blocks of pieces put end to end are the pieces of the blocks put end to end.
LEMMA CutFlat ==
    ASSUME NEW S, NEW T, NEW q \in Seq(Seq(S)), NEW r \in Seq(Seq(T)), Len(q) = Len(r),
           \A k \in 1 .. Len(q) : CutInThree(q[k], r[k])
    PROVE  CutInThree(FlattenSeq(q), FlattenSeq(r))
<1> DEFINE n == Len(q)
<1>0. /\ n \in Nat /\ Len(r) = n /\ \A k \in 1 .. n : q[k] \in Seq(S) /\ r[k] \in Seq(T)
      /\ <<>> \in Seq(S) /\ <<>> \in Seq(T)
  OBVIOUS
<1>1. PICK u \in [0 .. n -> Seq(S)] : Joins(u, q) /\ FlattenSeq(q) = u[n]
  BY Flattened
<1>2. PICK v \in [0 .. n -> Seq(T)] : Joins(v, r) /\ FlattenSeq(r) = v[n]
  BY <1>0, Flattened
<1> DEFINE Done == {k \in 0 .. n : CutInThree(u[k], v[k])}
<1>3. 0 \in Done
  <2>1. u[0] = <<>> /\ v[0] = <<>>
    BY <1>1, <1>2 DEF Joins
  <2>2. CutInThree(<<>>, <<>>)
    BY DEF CutInThree
  <2> QED BY <1>0, <2>1, <2>2
<1>4. ASSUME NEW k \in 1 .. n, k - 1 \in Done PROVE k \in Done
  <2> DEFINE a == u[k - 1]
             b == q[k]
             s == u[k]
             x == v[k - 1]
             y == r[k]
             f == v[k]
  <2>1. k - 1 \in 0 .. n /\ k \in 0 .. n
    BY <1>0
  <2>2. a \in Seq(S) /\ b \in Seq(S) /\ x \in Seq(T) /\ y \in Seq(T)
    BY <1>0, <2>1
  <2>3. s = a \o b /\ f = x \o y
    BY <1>0, <1>1, <1>2 DEF Joins
  <2>4. CutInThree(a, x) /\ CutInThree(b, y)
    BY <1>4
  <2> HIDE DEF a, b, s, x, y, f
  <2>5. CutInThree(s, f)
    BY <2>2, <2>3, <2>4, CutJoined
  <2> QED BY <2>1, <2>5 DEF s, f
<1>5. n \in Done
  <2> HIDE DEF Done
  <2>1. \A k \in 0 .. n : k \in Done
    BY <1>0, <1>3, <1>4, Upwards
  <2> QED BY <1>0, <2>1
<1> QED BY <1>1, <1>2, <1>5

\* The pieces of what a structure has before and from its segment m.
LEMMA CutApart ==
    ASSUME NEW S, NEW T, NEW s \in Seq(S), NEW f \in Seq(T), CutInThree(s, f),
           NEW m \in 1 .. Len(s)
    PROVE  LET n == ThirdPlace(m, 1)
           IN /\ n \in 1 .. Len(f)
              /\ CutInThree(SubSeq(s, m, Len(s)), SubSeq(f, n, Len(f)))
              /\ CutInThree(SubSeq(s, 1, m - 1), SubSeq(f, 1, n - 1))
<1> DEFINE n == ThirdPlace(m, 1)
           b == SubSeq(s, m, Len(s))
           y == SubSeq(f, n, Len(f))
           a == SubSeq(s, 1, m - 1)
           x == SubSeq(f, 1, n - 1)
<1>0. Len(s) \in Nat /\ Len(f) = 3 * Len(s) /\ n = 3 * (m - 1) + 1 /\ n \in 1 .. Len(f)
  BY PlacesOfThirds DEF CutInThree, ThirdPlace
<1>1. /\ Len(b) = Len(s) - m + 1 /\ \A i \in 1 .. Len(s) - m + 1 : b[i] = s[m + i - 1]
      /\ Len(a) = m - 1 /\ \A i \in 1 .. m - 1 : a[i] = s[i]
  BY Suffix
<1> HIDE DEF n
<1>2. /\ Len(y) = Len(f) - n + 1 /\ \A i \in 1 .. Len(f) - n + 1 : y[i] = f[n + i - 1]
      /\ Len(x) = n - 1 /\ \A i \in 1 .. n - 1 : x[i] = f[i]
  BY <1>0, Suffix
<1> HIDE DEF a, b, x, y
<1>3. CutInThree(b, y)
  <2>1. Len(y) = 3 * Len(b)
    BY <1>0, <1>1, <1>2
  <2>2. ASSUME NEW i \in 1 .. Len(b), NEW k \in 1 .. 3
        PROVE  PieceOf(b[i], y[ThirdPlace(i, k)], k)
    <3> DEFINE j == m + i - 1
               h == ThirdPlace(i, k)
    <3>1. j \in 1 .. Len(s) /\ b[i] = s[j]
      BY <1>0, <1>1
    <3>2. h \in 1 .. Len(f) - n + 1 /\ n + h - 1 = ThirdPlace(j, k)
      BY <1>0, <1>1 DEF ThirdPlace
    <3>3. y[h] = f[ThirdPlace(j, k)]
      <4> HIDE DEF h, j
      <4> QED BY <1>2, <3>2
    <3> HIDE DEF j, h
    <3>4. PieceOf(s[j], f[ThirdPlace(j, k)], k)
      BY <3>1 DEF CutInThree
    <3> QED BY <3>1, <3>3, <3>4 DEF h
  <2> QED BY <2>1, <2>2 DEF CutInThree
<1>4. CutInThree(a, x)
  <2>1. Len(x) = 3 * Len(a)
    BY <1>0, <1>1, <1>2
  <2>2. ASSUME NEW i \in 1 .. Len(a), NEW k \in 1 .. 3
        PROVE  PieceOf(a[i], x[ThirdPlace(i, k)], k)
    <3> DEFINE h == ThirdPlace(i, k)
    <3>1. i \in 1 .. Len(s) /\ a[i] = s[i]
      BY <1>0, <1>1
    <3>2. h \in 1 .. n - 1
      BY <1>0, <1>1 DEF ThirdPlace
    <3> HIDE DEF h
    <3>3. x[h] = f[h]
      BY <1>2, <3>2
    <3>4. PieceOf(s[i], f[h], k)
      BY <3>1 DEF CutInThree, h
    <3> QED BY <3>1, <3>3, <3>4 DEF h
  <2> QED BY <2>1, <2>2 DEF CutInThree
<1> QED BY <1>0, <1>3, <1>4 DEF n, a, b, x, y

\* A copy has the pieces of what it is a copy of.
ImagesBy(s, by, g) == [i \in DOMAIN s |-> Image(s[i], by, g[s[i].from], g[s[i].to])]

LEMMA PieceMapped ==
    ASSUME NEW x \in Shape(3), NEW y \in Shape(1), NEW k \in 1 .. 3, PieceOf(x, y, k),
           NEW g \in Rigid
    PROVE  /\ OnThird(g[x.from], g[x.to], g[y.from], k - 1)
           /\ OnThird(g[x.from], g[x.to], g[y.to], k)
<1>1. x.from \in Points /\ x.to \in Points /\ y.from \in Points /\ y.to \in Points
  BY DEF Shape
<1>2. OnThird(x.from, x.to, y.from, k - 1) /\ OnThird(x.from, x.to, y.to, k)
  BY DEF PieceOf, ThirdOf
<1>3. \A p, q, r \in Points : \A j \in 0 .. 3 :
        OnThird(p, q, r, j) => OnThird(g[p], g[q], g[r], j)
  BY DEF Rigid, Keeps
<1>4. k - 1 \in 0 .. 3 /\ k \in 0 .. 3
  OBVIOUS
<1> QED BY <1>1, <1>2, <1>3, <1>4

LEMMA CutMapped ==
    ASSUME NEW s \in Seq(Shape(3)), NEW f \in Seq(Shape(1)), CutInThree(s, f),
           NEW by \in Nat, NEW g \in Rigid
    PROVE  CutInThree(ImagesBy(s, by, g), ImagesBy(f, by, g))
<1> DEFINE z == ImagesBy(s, by, g)
           w == ImagesBy(f, by, g)
<1>0. Len(s) \in Nat /\ Len(f) = 3 * Len(s) /\ DOMAIN s = 1 .. Len(s) /\ DOMAIN f = 1 .. Len(f)
  BY DEF CutInThree
<1>1. /\ Len(z) = Len(s) /\ Len(w) = Len(f)
      /\ \A i \in 1 .. Len(s) : z[i] = Image(s[i], by, g[s[i].from], g[s[i].to])
      /\ \A i \in 1 .. Len(f) : w[i] = Image(f[i], by, g[f[i].from], g[f[i].to])
  BY <1>0 DEF ImagesBy
<1> HIDE DEF z, w
<1>2. ASSUME NEW i \in 1 .. Len(z), NEW k \in 1 .. 3
      PROVE  PieceOf(z[i], w[ThirdPlace(i, k)], k)
  <2> DEFINE h == ThirdPlace(i, k)
             x == s[i]
             y == f[h]
             Of(v) == Image(v, by, g[v.from], g[v.to])
  <2>1. i \in 1 .. Len(s) /\ h \in 1 .. Len(f) /\ PieceOf(x, y, k)
    BY <1>0, <1>1, PlacesOfThirds DEF CutInThree
  <2>2. z[i] = Of(x) /\ w[h] = Of(y)
    <3> HIDE DEF h
    <3> QED BY <1>1, <2>1
  <2>3. x \in Shape(3) /\ y \in Shape(1)
    <3> HIDE DEF h
    <3> QED BY <1>0, <2>1
  <2> HIDE DEF x, y, h
  <2>4. /\ OnThird(g[x.from], g[x.to], g[y.from], k - 1)
        /\ OnThird(g[x.from], g[x.to], g[y.to], k)
    BY <2>1, <2>3, PieceMapped
  <2>5. \A v \in Shape(1) \cup Shape(3) :
           Of(v).tag = CopyTag(v.tag, by) /\ Of(v).from = g[v.from] /\ Of(v).to = g[v.to]
    BY DEF Shape, Image
  <2> HIDE DEF Of
  <2>6. Of(y).tag = Of(x).tag
    BY <2>1, <2>3, <2>5 DEF PieceOf
  <2>7. PieceOf(Of(x), Of(y), k)
    BY <2>3, <2>4, <2>5, <2>6 DEF PieceOf, ThirdOf
  <2> QED BY <2>2, <2>7 DEF h
<1>3. Len(w) = 3 * Len(z)
  BY <1>0, <1>1
<1> QED BY <1>2, <1>3 DEF CutInThree, z, w

\* A scaled structure has the pieces scaled.
LEMMA CutScaled ==
    ASSUME NEW s \in Lists(3), NEW f \in Lists(1), CutInThree(s, f), NEW c \in GSCards
    PROVE  CutInThree(Scaled(c, s).segs, Scaled(c, f).segs)
<1> DEFINE z == Scaled(c, s).segs
           w == Scaled(c, f).segs
           g == ScaleMap(c)
<1>0. /\ Len(s) \in Nat /\ Len(f) = 3 * Len(s) /\ DOMAIN s = 1 .. Len(s) /\ DOMAIN f = 1 .. Len(f)
      /\ s \in Seq(Shape(3)) /\ f \in Seq(Shape(1))
  BY DEF CutInThree, Lists
<1>1. /\ Len(z) = Len(s) /\ Len(w) = Len(f)
      /\ \A i \in 1 .. Len(s) : z[i].tag = s[i].tag /\ z[i].from = g[s[i].from] /\ z[i].to = g[s[i].to]
      /\ \A i \in 1 .. Len(f) : w[i].tag = f[i].tag /\ w[i].from = g[f[i].from] /\ w[i].to = g[f[i].to]
  <2>1. /\ Len(z) = Len(s)
        /\ \A i \in DOMAIN s : z[i].tag = s[i].tag /\ z[i].from = g[s[i].from] /\ z[i].to = g[s[i].to]
    BY ScaledMade
  <2>2. /\ Len(w) = Len(f)
        /\ \A i \in DOMAIN f : w[i].tag = f[i].tag /\ w[i].from = g[f[i].from] /\ w[i].to = g[f[i].to]
    BY ScaledMade
  <2> HIDE DEF z, w, g
  <2> QED BY <1>0, <2>1, <2>2
<1>2. g \in Rigid
  <2>1. c.by \in Nat \ {0}
    BY DEF GSCards
  <2> QED BY <2>1, ScaleRigid DEF ScaleMap
<1> HIDE DEF z, w, g
<1>3. ASSUME NEW i \in 1 .. Len(z), NEW k \in 1 .. 3
      PROVE  PieceOf(z[i], w[ThirdPlace(i, k)], k)
  <2> DEFINE h == ThirdPlace(i, k)
             x == s[i]
             y == f[h]
  <2>1. i \in 1 .. Len(s) /\ h \in 1 .. Len(f) /\ PieceOf(x, y, k)
    BY <1>0, <1>1, PlacesOfThirds DEF CutInThree
  <2>2. /\ z[i].tag = x.tag /\ z[i].from = g[x.from] /\ z[i].to = g[x.to]
        /\ w[h].tag = y.tag /\ w[h].from = g[y.from] /\ w[h].to = g[y.to]
    <3> HIDE DEF h
    <3> QED BY <1>1, <2>1
  <2>3. x \in Shape(3) /\ y \in Shape(1)
    <3> HIDE DEF h
    <3> QED BY <1>0, <2>1
  <2> HIDE DEF x, y, h
  <2>4. /\ OnThird(g[x.from], g[x.to], g[y.from], k - 1)
        /\ OnThird(g[x.from], g[x.to], g[y.to], k)
    BY <1>2, <2>1, <2>3, PieceMapped
  <2>5. y.tag = x.tag
    BY <2>1 DEF PieceOf
  <2> QED BY <2>2, <2>4, <2>5 DEF PieceOf, ThirdOf, h
<1>4. Len(w) = 3 * Len(z)
  BY <1>0, <1>1
<1> QED BY <1>3, <1>4 DEF CutInThree, z, w

\* The segments of a wire, and of the finer one.
WireSegs(c) == [i \in 1 .. c.n |-> Seg(c.tag, Plus(c.at, Times(i - 1, c.step)),
                                       Plus(c.at, Times(i, c.step)), c.radius)]

LEMMA WireSegsIn ==
    ASSUME NEW c, c.n \in Nat, c.step \in Points, c.at \in Points
    PROVE  /\ Len(WireSegs(c)) = c.n /\ WireSegs(c) \in Seq({WireSegs(c)[i] : i \in 1 .. c.n})
           /\ \A i \in 1 .. c.n :
                /\ WireSegs(c)[i].tag = c.tag
                /\ \A a \in Axes : /\ WireSegs(c)[i].from[a] = c.at[a] + (i - 1) * c.step[a]
                                   /\ WireSegs(c)[i].to[a] = c.at[a] + i * c.step[a]
<1> DEFINE w == WireSegs(c)
           n == c.n
<1>1. \A k \in Int, a \in Axes : Plus(c.at, Times(k, c.step))[a] = c.at[a] + k * c.step[a]
  <2> TAKE k \in Int, a \in Axes
  <2>1. Times(k, c.step) \in Points /\ Times(k, c.step)[a] = k * c.step[a]
    BY TimesOf
  <2> QED BY <2>1, PlusOf
<1>2. w = [i \in 1 .. n |-> w[i]]
  BY DEF WireSegs
<1>3. ASSUME NEW i \in 1 .. n
      PROVE  /\ w[i].tag = c.tag
             /\ \A a \in Axes : /\ w[i].from[a] = c.at[a] + (i - 1) * c.step[a]
                                /\ w[i].to[a] = c.at[a] + i * c.step[a]
  <2>1. w[i] = Seg(c.tag, Plus(c.at, Times(i - 1, c.step)), Plus(c.at, Times(i, c.step)), c.radius)
    BY DEF WireSegs
  <2>2. /\ w[i].tag = c.tag /\ w[i].from = Plus(c.at, Times(i - 1, c.step))
        /\ w[i].to = Plus(c.at, Times(i, c.step))
    BY <2>1 DEF Seg
  <2>3. i - 1 \in Int /\ i \in Int
    OBVIOUS
  <2> QED BY <1>1, <2>2, <2>3
<1> HIDE DEF w
<1> DEFINE S == {w[i] : i \in 1 .. n}
<1>4. n \in Nat /\ w \in [1 .. n -> S]
  BY <1>2
<1> HIDE DEF S, n
<1>5. w \in Seq(S) /\ Len(w) = n
  BY <1>4, IntervalSeq
<1> QED BY <1>3, <1>5 DEF w, S, n

LEMMA ThirdStep ==
    ASSUME NEW p \in Int, NEW u \in Int, NEW i \in Int, NEW j \in 0 .. 3
    PROVE  3 * (p + (3 * (i - 1) + j) * u) = (3 - j) * (p + (i - 1) * (3 * u)) + j * (p + i * (3 * u))
<1> DEFINE m == i * u
<1>1. m \in Int
  OBVIOUS
<1>2. (i - 1) * (3 * u) = 3 * m - 3 * u /\ i * (3 * u) = 3 * m
  <2>1. i * (3 * u) = 3 * (i * u)
    OBVIOUS
  <2>2. (i - 1) * (3 * u) = i * (3 * u) - 3 * u
    OBVIOUS
  <2> QED BY <2>1, <2>2
<1>3. (3 * (i - 1) + j) * u = 3 * m - 3 * u + j * u
  <2>1. (3 * (i - 1) + j) * u = 3 * (i * u) - 3 * u + j * u
    OBVIOUS
  <2> QED BY <2>1
<1> HIDE DEF m
<1>4. j = 0 \/ j = 1 \/ j = 2 \/ j = 3
  OBVIOUS
<1> QED BY <1>1, <1>2, <1>3, <1>4

LEMMA CutWire ==
    ASSUME NEW c \in WireCards(3), c.n # 0, NEW d \in WireCards(1),
           d.n = 3 * c.n, d.tag = c.tag, d.at = c.at, \A a \in Axes : c.step[a] = 3 * d.step[a]
    PROVE  CutInThree(WireSegs(c), WireSegs(d))
<1> DEFINE z == WireSegs(c)
           w == WireSegs(d)
<1>0. /\ c.n \in Nat /\ c.at \in Points /\ c.step \in Points
      /\ d.n \in Nat /\ d.at \in Points /\ d.step \in Points
  BY DEF WireCards
<1>1. /\ Len(z) = c.n
      /\ \A i \in 1 .. c.n :
           /\ z[i].tag = c.tag
           /\ \A a \in Axes : /\ z[i].from[a] = c.at[a] + (i - 1) * c.step[a]
                              /\ z[i].to[a] = c.at[a] + i * c.step[a]
  BY <1>0, WireSegsIn
<1>2. /\ Len(w) = d.n
      /\ \A i \in 1 .. d.n :
           /\ w[i].tag = d.tag
           /\ \A a \in Axes : /\ w[i].from[a] = d.at[a] + (i - 1) * d.step[a]
                              /\ w[i].to[a] = d.at[a] + i * d.step[a]
  BY <1>0, WireSegsIn
<1> HIDE DEF z, w
<1>3. ASSUME NEW i \in 1 .. Len(z), NEW k \in 1 .. 3
      PROVE  PieceOf(z[i], w[ThirdPlace(i, k)], k)
  <2> DEFINE h == ThirdPlace(i, k)
             x == z[i]
             y == w[h]
  <2>1. i \in 1 .. c.n /\ h \in 1 .. d.n /\ h = 3 * (i - 1) + k /\ i \in Int
    BY <1>0, <1>1, PlacesOfThirds DEF ThirdPlace
  <2>2. /\ x.tag = c.tag
        /\ \A a \in Axes : /\ x.from[a] = c.at[a] + (i - 1) * c.step[a]
                           /\ x.to[a] = c.at[a] + i * c.step[a]
    BY <1>1, <2>1
  <2>3. /\ y.tag = c.tag
        /\ \A a \in Axes : /\ y.from[a] = c.at[a] + (h - 1) * d.step[a]
                           /\ y.to[a] = c.at[a] + h * d.step[a]
    <3> HIDE DEF h
    <3> QED BY <1>2, <2>1
  <2> HIDE DEF x, y, h
  <2>4. ASSUME NEW j \in 0 .. 3, NEW a \in Axes
        PROVE  3 * (c.at[a] + (3 * (i - 1) + j) * d.step[a]) = (3 - j) * x.from[a] + j * x.to[a]
    <3> DEFINE p == c.at[a]
               u == d.step[a]
    <3>1. p \in Int /\ u \in Int /\ x.from[a] = p + (i - 1) * (3 * u) /\ x.to[a] = p + i * (3 * u)
      BY <1>0, <2>2 DEF Points
    <3> HIDE DEF p, u
    <3>2. 3 * (p + (3 * (i - 1) + j) * u) = (3 - j) * (p + (i - 1) * (3 * u)) + j * (p + i * (3 * u))
      BY <2>1, <3>1, ThirdStep
    <3> QED BY <3>1, <3>2 DEF p, u
  <2>5. k \in 0 .. 3 /\ k - 1 \in 0 .. 3 /\ h = 3 * (i - 1) + k /\ h - 1 = 3 * (i - 1) + (k - 1)
    BY <2>1
  <2>6. OnThird(x.from, x.to, y.to, k)
    BY <2>3, <2>4, <2>5 DEF OnThird
  <2>7. OnThird(x.from, x.to, y.from, k - 1)
    <3> DEFINE j == k - 1
    <3>1. j \in 0 .. 3 /\ h - 1 = 3 * (i - 1) + j
      BY <2>5
    <3> HIDE DEF j
    <3>2. OnThird(x.from, x.to, y.from, j)
      BY <2>3, <2>4, <3>1 DEF OnThird
    <3> QED BY <3>2 DEF j
  <2> QED BY <2>2, <2>3, <2>6, <2>7 DEF PieceOf, ThirdOf, x, y, h
<1>4. Len(w) = 3 * Len(z)
  BY <1>1, <1>2
<1> QED BY <1>3, <1>4 DEF CutInThree, z, w

\* Whichever of two expansions is refused makes nothing; otherwise both are as asked.
Matched(m, n) == m.ok => (n.segs = <<>> \/ (n.ok /\ CutInThree(m.segs, n.segs)))

LEMMA FinerWire ==
    ASSUME NEW c \in Wires, c.n # 0
    PROVE  LET d == Finer(c)
           IN /\ c \in WireCards(3) /\ d \in WireCards(1) /\ d.card = "GW" /\ c.card = "GW"
              /\ d.n = 3 * c.n /\ d.tag = c.tag /\ d.at = c.at
              /\ \A a \in Axes : c.step[a] = 3 * d.step[a]
<1>1. c \in [card : {"GW"}, tag : 0 .. MaxTag, at : Points, step : Points, n : Nat, radius : Int]
      /\ \A a \in Axes : c.step[a] % 3 = 0
  BY DeckAssumption
<1>2. c \in DeckCards(3) /\ Finer(c) \in DeckCards(1)
  BY CardsOfDecks
<1>3. c \in WireCards(3)
  BY <1>1, <1>2 DEF DeckCards, GMCards, GRCards, GXCards, GSCards
<1> DEFINE d == [c EXCEPT !.n = 3 * c.n, !.step = [a \in Axes |-> c.step[a] \div 3]]
<1>4. c.n > 0
  BY <1>1
<1>5. Finer(c) = d
  BY <1>1, <1>4 DEF Finer, Factor
<1>6. /\ d.card = "GW" /\ c.card = "GW" /\ d.n = 3 * c.n /\ d.tag = c.tag /\ d.at = c.at
      /\ \A a \in Axes : d.step[a] = c.step[a] \div 3
  BY <1>1
<1> HIDE DEF d
<1>7. d \in WireCards(1)
  BY <1>2, <1>5, <1>6 DEF DeckCards, GMCards, GRCards, GXCards, GSCards
<1>8. \A a \in Axes : c.step[a] = 3 * d.step[a]
  <2> TAKE a \in Axes
  <2>1. c.step[a] \in Int /\ c.step[a] % 3 = 0
    BY <1>1 DEF Points
  <2>2. \A x \in Int : x % 3 = 0 => x = 3 * (x \div 3)
    OBVIOUS
  <2> QED BY <1>6, <2>1, <2>2
<1> QED BY <1>3, <1>5, <1>6, <1>7, <1>8

LEMMA WireIs ==
    ASSUME NEW c, NEW s
    PROVE  \/ Wire(c, s) = Refusal
           \/ c.n # 0 /\ Wire(c, s) = Made(s \o WireSegs(c))
BY DEF Wire, WireSegs

LEMMA WireMatched ==
    ASSUME NEW c \in Wires, NEW s \in Lists(3), NEW f \in Lists(1), CutInThree(s, f)
    PROVE  Matched(Wire(c, s), Wire(Finer(c), f))
<1>1. CASE Wire(c, s) = Refusal
  BY <1>1 DEF Matched, Refusal
<1>2. CASE c.n # 0 /\ Wire(c, s) = Made(s \o WireSegs(c))
  <2> DEFINE d == Finer(c)
  <2>0. /\ c \in WireCards(3) /\ d \in WireCards(1)
        /\ d.n = 3 * c.n /\ d.tag = c.tag /\ d.at = c.at
        /\ \A a \in Axes : c.step[a] = 3 * d.step[a]
    BY <1>2, FinerWire
  <2> HIDE DEF d
  <2>1. CASE Wire(d, f) = Refusal
    BY <2>1 DEF Matched, Refusal, d
  <2>2. CASE Wire(d, f) = Made(f \o WireSegs(d))
    <3> DEFINE a == WireSegs(c)
               b == WireSegs(d)
               S == Shape(3) \cup {a[i] : i \in 1 .. c.n}
               T == Shape(1) \cup {b[i] : i \in 1 .. d.n}
    <3>1. CutInThree(a, b)
      BY <1>2, <2>0, CutWire
    <3>2. a \in Seq({a[i] : i \in 1 .. c.n}) /\ b \in Seq({b[i] : i \in 1 .. d.n})
      <4>1. c.n \in Nat /\ c.at \in Points /\ c.step \in Points
        BY <2>0 DEF WireCards
      <4>2. d.n \in Nat /\ d.at \in Points /\ d.step \in Points
        BY <2>0 DEF WireCards
      <4>3. a \in Seq({a[i] : i \in 1 .. c.n})
        BY <4>1, WireSegsIn
      <4>4. b \in Seq({b[i] : i \in 1 .. d.n})
        BY <4>2, WireSegsIn
      <4> QED BY <4>3, <4>4
    <3>3. s \in Seq(S) /\ f \in Seq(T) /\ a \in Seq(S) /\ b \in Seq(T)
      <4> HIDE DEF a, b
      <4>1. s \in Seq(Shape(3)) /\ f \in Seq(Shape(1))
        BY DEF Lists
      <4>2. \A A, B : \A x \in Seq(A) : x \in Seq(A \cup B) /\ x \in Seq(B \cup A)
        OBVIOUS
      <4> QED BY <3>2, <4>1, <4>2
    <3> HIDE DEF a, b, S, T
    <3>4. CutInThree(s \o a, f \o b)
      <4> DEFINE x == s \o a
                 y == f \o b
      <4>1. x = s \o a /\ y = f \o b
        OBVIOUS
      <4> HIDE DEF x, y
      <4>2. CutInThree(x, y)
        BY <3>1, <3>3, <4>1, CutJoined
      <4> QED BY <4>2 DEF x, y
    <3> QED BY <1>2, <2>2, <3>4 DEF Matched, Made, a, b, d
  <2> QED BY <2>1, <2>2, WireIs
<1> QED BY <1>1, <1>2, WireIs

LEMMA CheckedIs ==
    ASSUME NEW s
    PROVE  Checked(s) = Refusal \/ Checked(s) = Made(s)
BY DEF Checked

LEMMA BothChecked ==
    ASSUME NEW s, NEW f, CutInThree(s, f)
    PROVE  Matched(Checked(s), Checked(f))
<1>1. CASE Checked(s) = Refusal
  BY <1>1 DEF Matched, Refusal
<1>2. CASE Checked(f) = Refusal
  BY <1>2 DEF Matched, Refusal
<1>3. CASE Checked(s) = Made(s) /\ Checked(f) = Made(f)
  BY <1>3 DEF Matched, Made
<1> QED BY <1>1, <1>2, <1>3, CheckedIs

\* The first piece of the first segment a GM names is the first it names of the pieces.
LEMMA FirstPiece ==
    ASSUME NEW s \in Seq(Shape(3)), NEW f \in Seq(Shape(1)), CutInThree(s, f), NEW c \in GMCards,
           Nominees(c, s) # {}
    PROVE  Nominees(c, f) # {} /\ FirstOf(c, f) = ThirdPlace(FirstOf(c, s), 1)
<1> DEFINE m == FirstOf(c, s)
           n == ThirdPlace(m, 1)
           h == FirstOf(c, f)
<1>0. Len(s) \in Nat /\ Len(f) = 3 * Len(s) /\ DOMAIN s = 1 .. Len(s) /\ DOMAIN f = 1 .. Len(f)
  BY DEF CutInThree
<1>1. m \in 1 .. Len(s) /\ m \in Nominees(c, s) /\ \A j \in Nominees(c, s) : m <= j
  BY FirstIs
<1> HIDE DEF m
<1>2. \A i \in 1 .. Len(s), k \in 1 .. 3 : f[ThirdPlace(i, k)].tag = s[i].tag
  BY DEF CutInThree, PieceOf
<1>3. n \in 1 .. Len(f) /\ n \in Nominees(c, f)
  <2>1. 1 \in 1 .. 3
    OBVIOUS
  <2>2. n \in 1 .. Len(f)
    BY <1>0, <1>1, <2>1, PlacesOfThirds
  <2>3. f[n].tag = s[m].tag
    BY <1>1, <1>2, <2>1
  <2> HIDE DEF n
  <2> QED BY <1>0, <1>1, <2>2, <2>3 DEF Nominees
<1>4. Nominees(c, f) # {}
  <2> HIDE DEF n
  <2> QED BY <1>3
<1>5. h \in 1 .. Len(f) /\ h \in Nominees(c, f) /\ \A j \in Nominees(c, f) : h <= j
  BY <1>4, FirstIs
<1> HIDE DEF h
<1>6. PICK i \in 1 .. Len(s), k \in 1 .. 3 : h = ThirdPlace(i, k)
  BY <1>0, <1>5, EveryThird
<1>7. i \in Nominees(c, s)
  <2>1. f[h].tag = s[i].tag
    BY <1>2, <1>6
  <2> QED BY <1>0, <1>5, <2>1 DEF Nominees
<1>8. m <= i /\ h <= n
  <2> HIDE DEF n
  <2> QED BY <1>1, <1>3, <1>5, <1>7
<1>9. h = n
  BY <1>0, <1>1, <1>6, <1>8 DEF ThirdPlace
<1> QED BY <1>4, <1>9 DEF m, n, h

LEMMA CutOnceMore ==
    ASSUME NEW s \in Seq(Shape(3)), NEW f \in Seq(Shape(1)), CutInThree(s, f), NEW c \in GMCards
    PROVE  CutInThree(OnceMore(c, s), OnceMore(c, f))
<1> DEFINE g == StepMap(c)
           by == c.inc
<1>1. g \in Rigid /\ by \in Nat
  BY StepMapRigid DEF GMCards
<1>2. OnceMore(c, s) = ImagesBy(s, by, g) /\ OnceMore(c, f) = ImagesBy(f, by, g)
  <2>1. OnceMore(c, s) = ImagesBy(s, by, g)
    BY OnceMoreIs DEF ImagesBy
  <2>2. OnceMore(c, f) = ImagesBy(f, by, g)
    BY OnceMoreIs DEF ImagesBy
  <2> QED BY <2>1, <2>2
<1> HIDE DEF g, by
<1>3. CutInThree(ImagesBy(s, by, g), ImagesBy(f, by, g))
  BY <1>1, CutMapped
<1> QED BY <1>2, <1>3

LEMMA CutCopies ==
    ASSUME NEW s \in Seq(Shape(3)), NEW f \in Seq(Shape(1)), CutInThree(s, f), NEW c \in GMCards
    PROVE  CutInThree(FlattenSeq(Copies(c, s)), FlattenSeq(Copies(c, f)))
<1> DEFINE S == {b \in Seq(Shape(3)) : Len(b) = Len(s)}
           T == {b \in Seq(Shape(1)) : Len(b) = Len(f)}
           n == c.times
           q == Copies(c, s)
           r == Copies(c, f)
<1>0. n \in Nat
  BY DEF GMCards
<1>1. PICK u \in [0 .. n -> S] : CopiesOf(u, c, s) /\ q = [k \in 1 .. n |-> u[k]]
  BY CopiesMade
<1>2. PICK v \in [0 .. n -> T] : CopiesOf(v, c, f) /\ r = [k \in 1 .. n |-> v[k]]
  BY CopiesMade
<1> DEFINE Done == {k \in 0 .. n : CutInThree(u[k], v[k])}
<1>3. 0 \in Done
  BY <1>0, <1>1, <1>2 DEF CopiesOf
<1>4. ASSUME NEW k \in 1 .. n, k - 1 \in Done PROVE k \in Done
  <2> DEFINE a == u[k - 1]
             b == v[k - 1]
  <2>1. k - 1 \in 0 .. n /\ k \in 0 .. n
    BY <1>0
  <2>2. a \in Seq(Shape(3)) /\ b \in Seq(Shape(1)) /\ CutInThree(a, b)
    BY <1>4, <2>1
  <2>3. u[k] = OnceMore(c, a) /\ v[k] = OnceMore(c, b)
    BY <1>1, <1>2 DEF CopiesOf
  <2> HIDE DEF a, b
  <2>4. CutInThree(OnceMore(c, a), OnceMore(c, b))
    BY <2>2, CutOnceMore
  <2> QED BY <2>1, <2>3, <2>4
<1>5. \A k \in 1 .. n : CutInThree(q[k], r[k])
  <2>1. \A k \in 0 .. n : k \in Done
    <3> HIDE DEF Done, n
    <3> QED BY <1>0, <1>3, <1>4, Upwards
  <2>2. \A k \in 1 .. n : k \in 0 .. n /\ q[k] = u[k] /\ r[k] = v[k]
    BY <1>0, <1>1, <1>2
  <2> HIDE DEF q, r
  <2> QED BY <2>1, <2>2
<1>6. q \in Seq(Seq(Shape(3))) /\ Len(q) = n
  BY CopiesFlat
<1>7. r \in Seq(Seq(Shape(1))) /\ Len(r) = n
  BY CopiesFlat
<1> HIDE DEF q, r
<1>8. CutInThree(FlattenSeq(q), FlattenSeq(r))
  <2> DEFINE A == Shape(3)
             B == Shape(1)
  <2>1. q \in Seq(Seq(A)) /\ r \in Seq(Seq(B)) /\ Len(q) = Len(r)
        /\ \A k \in 1 .. Len(q) : CutInThree(q[k], r[k])
    BY <1>5, <1>6, <1>7
  <2> HIDE DEF A, B
  <2> QED BY <2>1, CutFlat
<1> QED BY <1>8 DEF q, r

LEMMA CutEndToEnd ==
    ASSUME NEW S, NEW T, NEW a \in Seq(S), NEW b \in Seq(S), NEW x \in Seq(T), NEW y \in Seq(T),
           CutInThree(a, x), CutInThree(b, y)
    PROVE  CutInThree(a \o b, x \o y)
<1> DEFINE s == a \o b
           f == x \o y
<1>1. s = a \o b /\ f = x \o y
  OBVIOUS
<1> HIDE DEF s, f
<1>2. CutInThree(s, f)
  BY <1>1, CutJoined
<1> QED BY <1>2 DEF s, f

LEMMA MovedCut ==
    ASSUME NEW s \in Seq(Shape(3)), NEW f \in Seq(Shape(1)), CutInThree(s, f), NEW c \in GMCards,
           Nominees(c, s) # {}
    PROVE  /\ CutInThree(MovedInPlace(c, s), MovedInPlace(c, f))
           /\ CutInThree(MovedCopies(c, s), MovedCopies(c, f))
<1> DEFINE m == FirstOf(c, s)
           n == FirstOf(c, f)
           b == SubSeq(s, m, Len(s))
           y == SubSeq(f, n, Len(f))
           a == SubSeq(s, 1, m - 1)
           x == SubSeq(f, 1, n - 1)
<1>1. m \in 1 .. Len(s) /\ n = ThirdPlace(m, 1)
  BY FirstIs, FirstPiece
<1>2. n \in 1 .. Len(f) /\ CutInThree(b, y) /\ CutInThree(a, x)
  <2> HIDE DEF m, n
  <2>1. LET h == ThirdPlace(m, 1)
        IN /\ h \in 1 .. Len(f)
           /\ CutInThree(SubSeq(s, m, Len(s)), SubSeq(f, h, Len(f)))
           /\ CutInThree(SubSeq(s, 1, m - 1), SubSeq(f, 1, h - 1))
    BY <1>1, CutApart
  <2> QED BY <1>1, <2>1
<1>3. a \in Seq(Shape(3)) /\ b \in Seq(Shape(3))
  <2> HIDE DEF m
  <2> QED BY <1>1, Suffix
<1>4. x \in Seq(Shape(1)) /\ y \in Seq(Shape(1))
  <2> HIDE DEF n
  <2> QED BY <1>2, Suffix
<1>5. MovedInPlace(c, s) = a \o OnceMore(c, b) /\ MovedInPlace(c, f) = x \o OnceMore(c, y)
  BY DEF MovedInPlace
<1>6. /\ MovedCopies(c, s) = s \o FlattenSeq(Copies(c, b))
      /\ MovedCopies(c, f) = f \o FlattenSeq(Copies(c, y))
  BY DEF MovedCopies
<1> HIDE DEF m, n, a, b, x, y
<1>7. CutInThree(a \o OnceMore(c, b), x \o OnceMore(c, y))
  <2> DEFINE p == OnceMore(c, b)
             q == OnceMore(c, y)
  <2>1. p \in Seq(Shape(3))
    BY <1>3, OnceMoreShapes
  <2>2. q \in Seq(Shape(1))
    BY <1>4, OnceMoreShapes
  <2>3. CutInThree(p, q)
    BY <1>2, <1>3, <1>4, CutOnceMore
  <2> HIDE DEF p, q
  <2>4. CutInThree(a \o p, x \o q)
    BY <1>2, <1>3, <1>4, <2>1, <2>2, <2>3, CutEndToEnd
  <2> QED BY <2>4 DEF p, q
<1>8. CutInThree(s \o FlattenSeq(Copies(c, b)), f \o FlattenSeq(Copies(c, y)))
  <2> DEFINE p == FlattenSeq(Copies(c, b))
             q == FlattenSeq(Copies(c, y))
  <2>1. p \in Seq(Shape(3))
    BY <1>3, CopiesFlat
  <2>2. q \in Seq(Shape(1))
    BY <1>4, CopiesFlat
  <2>3. CutInThree(p, q)
    BY <1>2, <1>3, <1>4, CutCopies
  <2> HIDE DEF p, q
  <2>4. CutInThree(s \o p, f \o q)
    BY <2>1, <2>2, <2>3, CutEndToEnd
  <2> QED BY <2>4 DEF p, q
<1> QED BY <1>5, <1>6, <1>7, <1>8

LEMMA NoneMatched ==
    ASSUME NEW m, NEW n, m = Refusal \/ n = Refusal
    PROVE  Matched(m, n)
BY DEF Matched, Refusal

LEMMA MovedMatched ==
    ASSUME NEW c \in GMCards, NEW s \in Lists(3), NEW f \in Lists(1), CutInThree(s, f)
    PROVE  Matched(Moved(c, s), Moved(c, f))
<1>0. s \in Seq(Shape(3)) /\ f \in Seq(Shape(1)) /\ (s = <<>> <=> f = <<>>)
  <2>1. s \in Seq(Shape(3)) /\ f \in Seq(Shape(1))
    BY DEF Lists
  <2>2. Len(f) = 3 * Len(s)
    BY DEF CutInThree
  <2> QED BY <2>1, <2>2
<1>1. \/ Moved(c, s) = Refusal
      \/ s = <<>> /\ Moved(c, s) = Made(s)
      \/ /\ s # <<>> /\ Nominees(c, s) # {} /\ c.times = 0
         /\ Moved(c, s) = Checked(MovedInPlace(c, s))
      \/ /\ s # <<>> /\ Nominees(c, s) # {} /\ c.times # 0
         /\ Moved(c, s) = Checked(MovedCopies(c, s))
  BY <1>0, MovedIs
<1>2. \/ Moved(c, f) = Refusal
      \/ f = <<>> /\ Moved(c, f) = Made(f)
      \/ f # <<>> /\ c.times = 0 /\ Moved(c, f) = Checked(MovedInPlace(c, f))
      \/ f # <<>> /\ c.times # 0 /\ Moved(c, f) = Checked(MovedCopies(c, f))
  BY <1>0, MovedIs
<1>3. CASE Moved(c, s) = Refusal \/ Moved(c, f) = Refusal
  BY <1>3, NoneMatched
<1>4. CASE Moved(c, s) = Made(s) /\ Moved(c, f) = Made(f)
  BY <1>4 DEF Made, Matched
<1>5. CASE /\ Nominees(c, s) # {} /\ Moved(c, s) = Checked(MovedInPlace(c, s))
           /\ Moved(c, f) = Checked(MovedInPlace(c, f))
  BY <1>0, <1>5, MovedCut, BothChecked
<1>6. CASE /\ Nominees(c, s) # {} /\ Moved(c, s) = Checked(MovedCopies(c, s))
           /\ Moved(c, f) = Checked(MovedCopies(c, f))
  BY <1>0, <1>6, MovedCut, BothChecked
<1> QED BY <1>0, <1>1, <1>2, <1>3, <1>4, <1>5, <1>6

LEMMA RotatedIs ==
    ASSUME NEW c, NEW s
    PROVE  \/ c.n <= 1 /\ Rotated(c, s) = Made(s)
           \/ Rotated(c, s) = Refusal
           \/ /\ ~(c.n <= 1)
              /\ Rotated(c, s) = Checked(s \o FlattenSeq(RotatedCopies(c, s)))
BY DEF Rotated, RotatedCopies

LEMMA RotatedCut ==
    ASSUME NEW s \in Seq(Shape(3)), NEW f \in Seq(Shape(1)), CutInThree(s, f), NEW c \in GRCards
    PROVE  CutInThree(s \o FlattenSeq(RotatedCopies(c, s)), f \o FlattenSeq(RotatedCopies(c, f)))
<1> DEFINE q == RotatedCopies(c, s)
           r == RotatedCopies(c, f)
           n == c.n - 1
           A == Shape(3)
           B == Shape(1)
<1>1. q \in Seq(Seq(A)) /\ Len(q) = n /\ FlattenSeq(q) \in Seq(A)
  BY RotatedFlat
<1>2. r \in Seq(Seq(B)) /\ Len(r) = n /\ FlattenSeq(r) \in Seq(B)
  BY RotatedFlat
<1>3. ASSUME NEW k \in 1 .. n PROVE CutInThree(q[k], r[k])
  <2> DEFINE g == TurnMap(c, k)
             by == k * c.inc
  <2>1. g \in Rigid /\ by \in Nat
    BY TurnMapRigid
  <2>2. RotatedCopy(c, s, k) = ImagesBy(s, by, g)
    BY RotatedCopyIs DEF ImagesBy
  <2>3. RotatedCopy(c, f, k) = ImagesBy(f, by, g)
    BY RotatedCopyIs DEF ImagesBy
  <2>4. q[k] = RotatedCopy(c, s, k) /\ r[k] = RotatedCopy(c, f, k)
    BY DEF RotatedCopies
  <2> HIDE DEF g, by, q, r
  <2>5. CutInThree(ImagesBy(s, by, g), ImagesBy(f, by, g))
    BY <2>1, CutMapped
  <2> QED BY <2>2, <2>3, <2>4, <2>5
<1>4. s \in Seq(A) /\ f \in Seq(B)
  OBVIOUS
<1> HIDE DEF q, r, n, A, B
<1>5. CutInThree(FlattenSeq(q), FlattenSeq(r))
  BY <1>1, <1>2, <1>3, CutFlat
<1> DEFINE x == FlattenSeq(q)
           y == FlattenSeq(r)
<1>6. x \in Seq(A) /\ y \in Seq(B) /\ CutInThree(x, y)
  BY <1>1, <1>2, <1>5
<1> HIDE DEF x, y
<1>7. CutInThree(s \o x, f \o y)
  BY <1>4, <1>6, CutEndToEnd
<1> QED BY <1>7 DEF x, y, q, r

LEMMA RotatedMatched ==
    ASSUME NEW c \in GRCards, NEW s \in Lists(3), NEW f \in Lists(1), CutInThree(s, f)
    PROVE  Matched(Rotated(c, s), Rotated(c, f))
<1>0. s \in Seq(Shape(3)) /\ f \in Seq(Shape(1))
  BY DEF Lists
<1>1. CASE Rotated(c, s) = Refusal \/ Rotated(c, f) = Refusal
  BY <1>1, NoneMatched
<1>2. CASE Rotated(c, s) = Made(s) /\ Rotated(c, f) = Made(f)
  BY <1>2 DEF Made, Matched
<1>3. CASE /\ Rotated(c, s) = Checked(s \o FlattenSeq(RotatedCopies(c, s)))
           /\ Rotated(c, f) = Checked(f \o FlattenSeq(RotatedCopies(c, f)))
  BY <1>0, <1>3, RotatedCut, BothChecked
<1> QED BY <1>1, <1>2, <1>3, RotatedIs

LEMMA ReflectedCut ==
    ASSUME NEW s \in Seq(Shape(3)), NEW f \in Seq(Shape(1)), CutInThree(s, f), NEW c \in GXCards,
           NEW a \in Axes
    PROVE  CutInThree(s \o ImagesIn(c, s, a), f \o ImagesIn(c, f, a))
<1> DEFINE x == ImagesIn(c, s, a)
           y == ImagesIn(c, f, a)
           g == MirrorMap(a)
           by == StepOf(c, a)
<1>1. x = ImagesBy(s, by, g) /\ x \in Seq(Shape(3))
  BY ImagesInIs DEF ImagesBy
<1>2. y = ImagesBy(f, by, g) /\ y \in Seq(Shape(1))
  BY ImagesInIs DEF ImagesBy
<1>3. g \in Rigid /\ by \in Nat
  BY MirrorRigid, StepOfIn DEF MirrorMap
<1> HIDE DEF x, y, g, by
<1>4. CutInThree(x, y)
  BY <1>1, <1>2, <1>3, CutMapped
<1>5. CutInThree(s \o x, f \o y)
  BY <1>1, <1>2, <1>4, CutEndToEnd
<1> QED BY <1>5 DEF x, y

LEMMA PlaneMatched ==
    ASSUME NEW c \in GXCards, NEW a \in Axes, NEW m \in [ok : BOOLEAN, segs : Lists(3)],
           NEW n \in [ok : BOOLEAN, segs : Lists(1)], Matched(m, n)
    PROVE  Matched(ReflectedIn(c, m, a), ReflectedIn(c, n, a))
<1> DEFINE s == m.segs
           f == n.segs
           mm == ReflectedIn(c, m, a)
           nn == ReflectedIn(c, n, a)
<1> SUFFICES Matched(mm, nn)
  OBVIOUS
<1>0. s \in Seq(Shape(3)) /\ f \in Seq(Shape(1))
  BY DEF Lists
<1>1. \/ (~m.ok \/ a \notin c.planes) /\ mm = m
      \/ mm = Refusal
      \/ m.ok /\ a \in c.planes /\ mm = Checked(s \o ImagesIn(c, s, a))
  BY ReflectedInIs
<1>2. \/ (~n.ok \/ a \notin c.planes) /\ nn = n
      \/ nn = Refusal
      \/ n.ok /\ a \in c.planes /\ nn = Checked(f \o ImagesIn(c, f, a))
  BY ReflectedInIs
<1>3. CASE ~m.ok
  <2>1. mm = m \/ mm = Refusal
    <3> HIDE DEF mm
    <3> QED BY <1>1, <1>3
  <2> HIDE DEF mm, nn
  <2> QED BY <1>3, <2>1, NoneMatched DEF Matched
<1>4. CASE m.ok /\ f = <<>>
  <2>1. nn.segs = <<>>
    <3>1. ImagesIn(c, <<>>, a) = <<>> /\ <<>> \o <<>> = <<>>
      BY DEF ImagesIn
    <3>2. CASE nn = n
      BY <1>4, <3>2
    <3>3. CASE nn = Refusal
      BY <3>3 DEF Refusal
    <3>4. CASE nn = Checked(f \o ImagesIn(c, f, a))
      <4>1. nn = Checked(<<>>)
        <5> HIDE DEF nn
        <5> QED BY <1>4, <3>1, <3>4
      <4> HIDE DEF nn
      <4> QED BY <4>1, CheckedIs DEF Refusal, Made
    <3> QED BY <1>2, <3>2, <3>3, <3>4
  <2> HIDE DEF mm, nn
  <2> QED BY <2>1 DEF Matched
<1>5. CASE m.ok /\ n.ok /\ CutInThree(s, f)
  <2>1. CutInThree(s \o ImagesIn(c, s, a), f \o ImagesIn(c, f, a))
    <3> HIDE DEF s, f
    <3> QED BY <1>0, <1>5, ReflectedCut
  <2>2. Matched(Checked(s \o ImagesIn(c, s, a)), Checked(f \o ImagesIn(c, f, a)))
    BY <2>1, BothChecked
  <2> HIDE DEF mm, nn
  <2>3. CASE mm = Refusal \/ nn = Refusal
    BY <2>3, NoneMatched
  <2>4. CASE a \notin c.planes /\ mm = m /\ nn = n
    BY <2>4
  <2>5. CASE a \in c.planes /\ mm = Checked(s \o ImagesIn(c, s, a))
             /\ nn = Checked(f \o ImagesIn(c, f, a))
    BY <2>2, <2>5
  <2> QED BY <1>1, <1>2, <1>5, <2>3, <2>4, <2>5
<1>6. ~m.ok \/ (m.ok /\ f = <<>>) \/ (m.ok /\ n.ok /\ CutInThree(s, f))
  BY DEF Matched
<1> QED BY <1>3, <1>4, <1>5, <1>6

LEMMA ReflectedMatched ==
    ASSUME NEW c \in GXCards, NEW s \in Lists(3), NEW f \in Lists(1), CutInThree(s, f)
    PROVE  Matched(Reflected(c, s), Reflected(c, f))
<1> DEFINE m0 == Made(s)
           n0 == Made(f)
           m3 == ReflectedIn(c, m0, 3)
           n3 == ReflectedIn(c, n0, 3)
           m2 == ReflectedIn(c, m3, 2)
           n2 == ReflectedIn(c, n3, 2)
           M == [ok : BOOLEAN, segs : Lists(3)]
           N == [ok : BOOLEAN, segs : Lists(1)]
<1>0. 1 \in Axes /\ 2 \in Axes /\ 3 \in Axes
  BY DEF Axes
<1>1. m0 \in M /\ n0 \in N /\ Matched(m0, n0)
  BY DEF Made, Matched
<1>2. m3 \in M /\ n3 \in N
  <2> HIDE DEF m0, n0
  <2>1. m3 \in M
    BY <1>0, <1>1, ReflectedInMade
  <2>2. n3 \in N
    BY <1>0, <1>1, ReflectedInMade
  <2> QED BY <2>1, <2>2
<1>3. Matched(m3, n3)
  <2> HIDE DEF m0, n0
  <2> QED BY <1>0, <1>1, PlaneMatched
<1>4. m2 \in M /\ n2 \in N
  <2> HIDE DEF m3, n3
  <2>1. m2 \in M
    BY <1>0, <1>2, ReflectedInMade
  <2>2. n2 \in N
    BY <1>0, <1>2, ReflectedInMade
  <2> QED BY <2>1, <2>2
<1>5. Matched(m2, n2)
  <2> HIDE DEF m3, n3
  <2> QED BY <1>0, <1>2, <1>3, PlaneMatched
<1>6. Matched(ReflectedIn(c, m2, 1), ReflectedIn(c, n2, 1))
  <2> HIDE DEF m2, n2
  <2> QED BY <1>0, <1>4, <1>5, PlaneMatched
<1> QED BY <1>6 DEF Reflected

\* Whatever a card makes of a structure, refine_deck's card makes the pieces of, or it is
\* refused.
LEMMA ExpandedMatched ==
    ASSUME NEW c \in Wires \cup Moves, NEW s \in Lists(3), NEW f \in Lists(1), CutInThree(s, f)
    PROVE  Matched(Expanded(c, s), Expanded(Finer(c), f))
<1>1. CASE c \in Wires
  <2>1. c.card = "GW" /\ c.n \in Nat
    BY <1>1, DeckAssumption
  <2>2. Expanded(c, s) = Wire(c, s)
    BY <2>1 DEF Expanded
  <2>3. CASE c.n = 0
    <3>1. Expanded(c, s) = Refusal
      BY <2>2, <2>3, WireIs
    <3> QED BY <3>1, NoneMatched
  <2>4. CASE c.n # 0
    <3>1. Finer(c).card = "GW"
      BY <1>1, <2>4, FinerWire
    <3>2. Expanded(Finer(c), f) = Wire(Finer(c), f)
      BY <3>1 DEF Expanded
    <3> QED BY <1>1, <2>2, <3>2, WireMatched
  <2> QED BY <2>3, <2>4
<1>2. CASE c \in Moves
  <2>1. c \in GMCards \cup GRCards \cup GXCards \cup GSCards
    BY <1>2, DeckAssumption DEF GMCards, GRCards, GXCards, GSCards
  <2>2. c.card # "GW"
    BY <2>1 DEF GMCards, GRCards, GXCards, GSCards
  <2>3. Finer(c) = c
    BY <2>2 DEF Finer
  <2>4. CASE c \in GMCards
    <3>1. c.card = "GM"
      BY <2>4 DEF GMCards
    <3>2. Expanded(c, s) = Moved(c, s) /\ Expanded(c, f) = Moved(c, f)
      BY <3>1 DEF Expanded
    <3> QED BY <2>3, <2>4, <3>2, MovedMatched
  <2>5. CASE c \in GRCards
    <3>1. c.card = "GR"
      BY <2>5 DEF GRCards
    <3>2. Expanded(c, s) = Rotated(c, s) /\ Expanded(c, f) = Rotated(c, f)
      BY <3>1 DEF Expanded
    <3> QED BY <2>3, <2>5, <3>2, RotatedMatched
  <2>6. CASE c \in GXCards
    <3>1. c.card = "GX"
      BY <2>6 DEF GXCards
    <3>2. Expanded(c, s) = Reflected(c, s) /\ Expanded(c, f) = Reflected(c, f)
      BY <3>1 DEF Expanded
    <3> QED BY <2>3, <2>6, <3>2, ReflectedMatched
  <2>7. CASE c \in GSCards
    <3>1. c.card = "GS"
      BY <2>7 DEF GSCards
    <3>2. Expanded(c, s) = Scaled(c, s) /\ Expanded(c, f) = Scaled(c, f)
      BY <3>1 DEF Expanded
    <3>3. Scaled(c, f).ok
      BY <2>7, ScaledMade
    <3> QED BY <2>3, <2>7, <3>2, <3>3, CutScaled DEF Matched
  <2> QED BY <2>1, <2>4, <2>5, <2>6, <2>7
<1> QED BY <1>1, <1>2

\* The refined deck, when it is not refused, has the pieces of the deck.
FineCut ==
    /\ stage # "built" => fine = <<>> \/ CutInThree(segs, fine)
    /\ stage = "built" => \E f \in Lists(1) : /\ fine = Numbered(f)
                                              /\ f = <<>> \/ CutInThree(segs, f)

LEMMA CardKeepsCut ==
    ASSUME DeckInv, FineCut, NEW c \in Wires \cup Moves, GeometryCard(c)
    PROVE  FineCut'
<1>0. segs \in Lists(3) /\ fine \in Lists(1) /\ stage = "reading"
  BY DEF DeckInv, GeometryCard
<1>1. fine = <<>> \/ CutInThree(segs, fine)
  BY <1>0 DEF FineCut
<1>2. CASE Expanded(c, segs).ok
  <2>1. /\ segs' = Expanded(c, segs).segs /\ stage' = stage
        /\ fine' = IF fine = <<>> /\ segs # <<>> THEN <<>> ELSE Expanded(Finer(c), fine).segs
    BY <1>2 DEF GeometryCard
  <2>2. CASE fine = <<>> /\ segs # <<>>
    BY <1>0, <2>1, <2>2 DEF FineCut
  <2>3. CASE ~(fine = <<>> /\ segs # <<>>)
    <3>1. CutInThree(segs, fine)
      <4>1. CutInThree(<<>>, <<>>)
        BY DEF CutInThree
      <4> QED BY <1>1, <2>3, <4>1
    <3>2. Matched(Expanded(c, segs), Expanded(Finer(c), fine))
      BY <1>0, <3>1, ExpandedMatched
    <3>3. fine' = <<>> \/ CutInThree(segs', fine')
      BY <1>2, <2>1, <2>3, <3>2 DEF Matched
    <3> QED BY <1>0, <2>1, <3>3 DEF FineCut
  <2> QED BY <2>2, <2>3
<1>3. CASE ~Expanded(c, segs).ok
  <2>1. stage' = "refused" /\ segs' = segs /\ fine' = fine
    BY <1>3 DEF GeometryCard
  <2> QED BY <1>1, <2>1 DEF FineCut
<1> QED BY <1>2, <1>3

LEMMA FineCutInit == Init => FineCut
<1>1. CutInThree(<<>>, <<>>)
  BY DEF CutInThree
<1> QED BY <1>1 DEF Init, FineCut

LEMMA FineCutStep == DeckInv /\ FineCut /\ [Next]_vars => FineCut'
<1> SUFFICES ASSUME DeckInv, FineCut, [Next]_vars PROVE FineCut'
  OBVIOUS
<1>1. CASE UNCHANGED vars
  BY <1>1 DEF vars, FineCut
<1>2. CASE \E c \in Wires \cup Moves : GeometryCard(c)
  BY <1>2, CardKeepsCut
<1>3. CASE GeometryEnd
  <2>0. stage = "reading" /\ segs' = segs /\ fine \in Lists(1)
    BY <1>3 DEF GeometryEnd, DeckInv
  <2>1. fine = <<>> \/ CutInThree(segs, fine)
    BY <2>0 DEF FineCut
  <2>2. (stage' = "refused" /\ fine' = fine) \/ (stage' = "built" /\ fine' = Numbered(fine))
    BY <1>3 DEF GeometryEnd
  <2> QED BY <2>0, <2>1, <2>2 DEF FineCut
<1>4. CASE \E x \in Sources : Excite(x)
  <2>1. UNCHANGED <<segs, fine, stage>>
    BY <1>4 DEF Excite
  <2> QED BY <2>1 DEF FineCut
<1> QED BY <1>1, <1>2, <1>3, <1>4 DEF Next

LEMMA NextRank ==
    ASSUME NEW n \in Nat, NEW S \in SUBSET (1 .. n), NEW h \in 1 .. n
    PROVE  /\ Cardinality(UpTo(S, h)) = Cardinality(UpTo(S, h - 1)) + IF h \in S THEN 1 ELSE 0
           /\ Cardinality(UpTo(S, h)) \in Nat /\ Cardinality(UpTo(S, h - 1)) \in Nat
<1>0. \A i : UpTo(S, i) \subseteq 1 .. n
  BY DEF UpTo
<1>1. /\ IsFiniteSet(UpTo(S, h)) /\ Cardinality(UpTo(S, h)) \in Nat
      /\ IsFiniteSet(UpTo(S, h - 1)) /\ Cardinality(UpTo(S, h - 1)) \in Nat
  BY <1>0, CountedIn
<1>2. \A j \in S : j <= h <=> j <= h - 1 \/ j = h
  OBVIOUS
<1>3. CASE h \in S
  <2>1. UpTo(S, h) = UpTo(S, h - 1) \cup {h}
    <3>1. h <= h
      OBVIOUS
    <3> QED BY <1>2, <1>3, <3>1 DEF UpTo
  <2>2. h \notin UpTo(S, h - 1)
    <3>1. ~(h <= h - 1)
      OBVIOUS
    <3> QED BY <3>1 DEF UpTo
  <2> QED BY <1>1, <1>3, <2>1, <2>2, FS_AddElement
<1>4. CASE h \notin S
  <2>1. UpTo(S, h) = UpTo(S, h - 1)
    BY <1>2, <1>4 DEF UpTo
  <2> QED BY <1>1, <1>4, <2>1
<1> QED BY <1>1, <1>3, <1>4

\* Where the pieces of a tag's segments are among those of the tag.
LEMMA PieceRanks ==
    ASSUME NEW n \in Nat, NEW S \in SUBSET (1 .. n), NEW T \in SUBSET (1 .. 3 * n),
           \A i \in 1 .. n, k \in 1 .. 3 : ThirdPlace(i, k) \in T <=> i \in S,
           NEW i \in S, NEW k \in 1 .. 3
    PROVE  Cardinality(UpTo(T, ThirdPlace(i, k))) = 3 * (Cardinality(UpTo(S, i)) - 1) + k
<1> DEFINE low(j) == Cardinality(UpTo(S, j))
           high(j) == Cardinality(UpTo(T, j))
           Thrice == {m \in 0 .. n : high(3 * m) = 3 * low(m)}
<1>1. ASSUME NEW m \in 1 .. n
      PROVE  /\ low(m) \in Nat /\ low(m - 1) \in Nat /\ high(3 * m - 3) \in Nat
             /\ low(m) = low(m - 1) + IF m \in S THEN 1 ELSE 0
             /\ \A j \in 1 .. 3 : high(3 * m - 3 + j) = high(3 * m - 3) + IF m \in S THEN j ELSE 0
  <2>1. /\ low(m) = low(m - 1) + IF m \in S THEN 1 ELSE 0
        /\ low(m) \in Nat /\ low(m - 1) \in Nat
    BY NextRank
  <2>2. ASSUME NEW j \in 1 .. 3
        PROVE  /\ high(3 * m - 3 + j) = high(3 * m - 3 + j - 1) + IF m \in S THEN 1 ELSE 0
               /\ high(3 * m - 3 + j - 1) \in Nat
    <3> DEFINE h == 3 * m - 3 + j
               l == 3 * n
    <3>1. h \in 1 .. l /\ h = ThirdPlace(m, j) /\ l \in Nat
      BY DEF ThirdPlace
    <3>2. h \in T <=> m \in S
      BY <3>1
    <3>3. T \in SUBSET (1 .. l)
      OBVIOUS
    <3> HIDE DEF h, l
    <3>4. /\ high(h) = high(h - 1) + IF h \in T THEN 1 ELSE 0
          /\ high(h) \in Nat /\ high(h - 1) \in Nat
      BY <3>1, <3>3, NextRank
    <3>5. high(h) = high(h - 1) + (IF m \in S THEN 1 ELSE 0) /\ high(h - 1) \in Nat
      BY <3>2, <3>4
    <3> QED BY <3>5 DEF h
  <2> HIDE DEF low, high
  <2> DEFINE b == 3 * m - 3
             one == IF m \in S THEN 1 ELSE 0
  <2>3. /\ high(b + 1) = high(b + 1 - 1) + one /\ high(b + 1 - 1) \in Nat
        /\ high(b + 2) = high(b + 2 - 1) + one
        /\ high(b + 3) = high(b + 3 - 1) + one
    BY <2>2
  <2>4. b + 1 - 1 = b /\ b + 2 - 1 = b + 1 /\ b + 3 - 1 = b + 2 /\ b \in Int
    OBVIOUS
  <2> HIDE DEF b
  <2>5. high(b) \in Nat /\ \A j \in 1 .. 3 : high(b + j) = high(b) + IF m \in S THEN j ELSE 0
    BY <2>3, <2>4
  <2> QED BY <2>1, <2>5 DEF b
<1>2. low(0) = 0 /\ high(0) = 0
  <2>1. UpTo(S, 0) = {} /\ UpTo(T, 0) = {}
    <3>1. \A j \in S : ~(j <= 0)
      OBVIOUS
    <3>2. \A j \in T : ~(j <= 0)
      OBVIOUS
    <3> QED BY <3>1, <3>2 DEF UpTo
  <2> QED BY <2>1, FS_EmptySet
<1> HIDE DEF low, high
<1>3. 0 \in Thrice
  BY <1>2
<1>4. ASSUME NEW m \in 1 .. n, m - 1 \in Thrice PROVE m \in Thrice
  <2>1. high(3 * (m - 1)) = 3 * low(m - 1) /\ 3 * (m - 1) = 3 * m - 3 /\ 3 * m - 3 + 3 = 3 * m
    BY <1>4
  <2>2. 3 \in 1 .. 3
    OBVIOUS
  <2>3. high(3 * m - 3 + 3) = high(3 * m - 3) + IF m \in S THEN 3 ELSE 0
    BY <1>1, <2>2
  <2>4. low(m) = low(m - 1) + (IF m \in S THEN 1 ELSE 0) /\ low(m - 1) \in Nat
    BY <1>1
  <2>5. high(3 * m) = 3 * low(m)
    BY <2>1, <2>3, <2>4
  <2> QED BY <2>5
<1>5. i - 1 \in Thrice /\ i \in 1 .. n
  <2> HIDE DEF Thrice
  <2>1. \A m \in 0 .. n : m \in Thrice
    BY <1>3, <1>4, Upwards
  <2> QED BY <2>1
<1>6. high(3 * (i - 1)) = 3 * low(i - 1) /\ 3 * (i - 1) = 3 * i - 3
  BY <1>5
<1>7. high(3 * i - 3 + k) = high(3 * i - 3) + k /\ low(i) = low(i - 1) + 1 /\ low(i - 1) \in Nat
  BY <1>1, <1>5
<1>8. high(3 * i - 3 + k) = 3 * (low(i) - 1) + k
  BY <1>6, <1>7
<1>9. ThirdPlace(i, k) = 3 * i - 3 + k
  BY <1>5 DEF ThirdPlace
<1> QED BY <1>8, <1>9 DEF low, high

\* A number on the pieces leads to the piece there of the segment it is a third of.
LEMMA PieceFound ==
    ASSUME NEW s \in Lists(3), NEW f \in Lists(1), CutInThree(s, f),
           NEW i \in 1 .. Len(s), s[i].tag # 0, NEW k \in 1 .. 3
    PROVE  FindDeckSegment(Numbered(f), s[i].tag, 3 * (Numbered(s)[i].num - 1) + k) = ThirdPlace(i, k)
<1> DEFINE tag == s[i].tag
           S == TaggedIn(s, tag)
           T == TaggedIn(f, tag)
           n == Len(s)
           h == ThirdPlace(i, k)
<1>0. s \in Seq(Piece) /\ n \in Nat /\ \A j \in 1 .. n : s[j].part = "whole"
  BY ListsArePieces
<1>1. f \in Seq(Piece) /\ \A j \in 1 .. Len(f) : f[j].part = "whole"
  BY ListsArePieces
<1>2. Len(f) = 3 * n /\ h \in 1 .. Len(f)
  BY <1>0, PlacesOfThirds DEF CutInThree
<1>3. Unnumbered(s) /\ Unnumbered(f)
  <2>1. \A t, x : x \in Shape(t) => x.num = 0 /\ x.abs = 0
    BY DEF Shape
  <2>2. \A j \in 1 .. Len(s) : s[j] \in Shape(3)
    BY DEF Lists
  <2>3. \A j \in 1 .. Len(f) : f[j] \in Shape(1)
    BY DEF Lists
  <2> QED BY <2>1, <2>2, <2>3 DEF Unnumbered
<1>4. \A j \in 1 .. n, m \in 1 .. 3 :
        ThirdPlace(j, m) \in 1 .. Len(f) /\ f[ThirdPlace(j, m)].tag = s[j].tag
  BY <1>0, <1>2, PlacesOfThirds DEF CutInThree, PieceOf
<1>5. \A j \in 1 .. n, m \in 1 .. 3 : ThirdPlace(j, m) \in T <=> j \in S
  BY <1>0, <1>1, <1>4 DEF TaggedIn, Counts
<1>6. S \in SUBSET (1 .. n) /\ T \in SUBSET (1 .. 3 * n) /\ i \in S
  BY <1>0, <1>2 DEF TaggedIn, Counts
<1>7. Counts(s[i]) /\ Counts(f[h]) /\ f[h].tag = tag
  BY <1>0, <1>1, <1>2, <1>4 DEF Counts
<1> HIDE DEF h
<1>8. Numbered(s)[i].num = Cardinality(UpTo(S, i))
  BY <1>0, <1>3, <1>7, NumbersAreRanks
<1>9. Numbered(f)[h].num = Cardinality(UpTo(T, h))
  BY <1>1, <1>2, <1>3, <1>7, NumbersAreRanks
<1>10. FindDeckSegment(Numbered(f), f[h].tag, Numbered(f)[h].num) = h
  BY <1>1, <1>2, <1>3, <1>7, FoundByNumber
<1> HIDE DEF S, T, n
<1>11. Cardinality(UpTo(T, ThirdPlace(i, k))) = 3 * (Cardinality(UpTo(S, i)) - 1) + k
  BY <1>0, <1>5, <1>6, PieceRanks
<1> QED BY <1>7, <1>8, <1>9, <1>10, <1>11 DEF h

LEMMA EndThirds ==
    ASSUME NEW p \in Points, NEW q \in Points, NEW r \in Points
    PROVE  (OnThird(p, q, r, 0) => r = p) /\ (OnThird(p, q, r, 3) => r = q)
<1>1. \A a \in Axes : p[a] \in Int /\ q[a] \in Int /\ r[a] \in Int
  BY DEF Points
<1>2. ASSUME OnThird(p, q, r, 0) PROVE r = p
  <2>1. \A a \in Axes : 3 * r[a] = (3 - 0) * p[a] + 0 * q[a]
    BY <1>2 DEF OnThird
  <2>2. \A x, y, z \in Int : 3 * z = (3 - 0) * x + 0 * y => z = x
    OBVIOUS
  <2>3. \A a \in Axes : r[a] = p[a]
    BY <1>1, <2>1, <2>2
  <2> QED BY <2>3, SamePoint DEF Axes
<1>3. ASSUME OnThird(p, q, r, 3) PROVE r = q
  <2>1. \A a \in Axes : 3 * r[a] = (3 - 3) * p[a] + 3 * q[a]
    BY <1>3 DEF OnThird
  <2>2. \A x, y, z \in Int : 3 * z = (3 - 3) * x + 3 * y => z = y
    OBVIOUS
  <2>3. \A a \in Axes : r[a] = q[a]
    BY <1>1, <2>1, <2>2
  <2> QED BY <2>3, SamePoint DEF Axes
<1> QED BY <1>2, <1>3

\* What a number leads to among the numbered pieces.
LEMMA PieceThere ==
    ASSUME NEW s \in Lists(3), NEW f \in Lists(1), CutInThree(s, f),
           NEW i \in 1 .. Len(s), s[i].tag # 0, NEW k \in 1 .. 3
    PROVE  LET d == Numbered(s)[i]
               h == FindDeckSegment(Numbered(f), d.tag, 3 * (d.num - 1) + k)
               y == Numbered(f)[h]
           IN h # None /\ d \in Piece /\ y \in Piece /\ ThirdOf(d, y, k)
<1> DEFINE d == Numbered(s)[i]
           h == ThirdPlace(i, k)
           y == Numbered(f)[h]
           x == s[i]
           z == f[h]
<1>0. s \in Seq(Piece) /\ Len(s) \in Nat
  BY ListsArePieces
<1>1. f \in Seq(Piece)
  BY ListsArePieces
<1>2. Len(f) = 3 * Len(s) /\ h \in 1 .. Len(f) /\ PieceOf(x, z, k) /\ h # None
  BY <1>0, PlacesOfThirds DEF CutInThree, None
<1>3. FindDeckSegment(Numbered(f), s[i].tag, 3 * (d.num - 1) + k) = h
  BY PieceFound
<1> HIDE DEF h
<1>4. /\ d.tag = x.tag /\ d.from = x.from /\ d.to = x.to /\ Numbered(s) \in Seq(Piece)
      /\ Len(Numbered(s)) = Len(s)
  BY <1>0, NumberedIs
<1>5. /\ y.from = z.from /\ y.to = z.to /\ Numbered(f) \in Seq(Piece)
      /\ Len(Numbered(f)) = Len(f)
  BY <1>1, <1>2, NumberedIs
<1>6. d \in Piece /\ y \in Piece
  BY <1>2, <1>4, <1>5
<1> HIDE DEF d, y, z
<1>7. ThirdOf(d, y, k)
  BY <1>2, <1>4, <1>5 DEF PieceOf, ThirdOf
<1> QED BY <1>2, <1>3, <1>4, <1>6, <1>7 DEF d, y

\* The refined deck keeps what the deck's references name.
LEMMA FinerReferences ==
    ASSUME DeckInv, FineCut, stage = "built", fine # <<>>
    PROVE  FinerKeepsReferences
<1>0. segs \in Lists(3) /\ deck = Numbered(segs)
  BY DEF DeckInv, Built
<1>1. PICK f \in Lists(1) : fine = Numbered(f) /\ (f = <<>> \/ CutInThree(segs, f))
  BY DEF FineCut
<1>2. f # <<>>
  <2>1. Numbered(<<>>) = <<>>
    BY DEF Numbered
  <2> QED BY <1>1, <2>1
<1>3. CutInThree(segs, f)
  BY <1>1, <1>2
<1>4. DOMAIN deck = 1 .. Len(segs) /\ \A i \in 1 .. Len(segs) : deck[i].tag = segs[i].tag
  <2>1. segs \in Seq(Piece)
    BY <1>0, ListsArePieces
  <2> QED BY <1>0, <2>1, NumberedIs
<1> SUFFICES ASSUME NEW i \in DOMAIN deck, deck[i].tag # 0
             PROVE  LET d == deck[i]
                        Sub(k) == fine[FindDeckSegment(fine, d.tag, k)]
                    IN /\ FindDeckSegment(fine, d.tag, CentreOf(d.num)) # None
                       /\ Mid(Sub(CentreOf(d.num))) = Mid(d)
                       /\ Sub(Factor * (d.num - 1) + 1).from = d.from
                       /\ Sub(Factor * d.num).to = d.to
  BY DEF FinerKeepsReferences
<1> DEFINE d == deck[i]
           Sub(k) == fine[FindDeckSegment(fine, d.tag, k)]
           Of(k) == 3 * (d.num - 1) + k
<1>5. i \in 1 .. Len(segs) /\ segs[i].tag # 0
  BY <1>4
<1>6. ASSUME NEW k \in 1 .. 3
      PROVE  /\ FindDeckSegment(fine, d.tag, Of(k)) # None
             /\ d \in Piece /\ Sub(Of(k)) \in Piece /\ ThirdOf(d, Sub(Of(k)), k)
  BY <1>0, <1>1, <1>3, <1>5, PieceThere
<1>7. 1 \in 1 .. 3 /\ 2 \in 1 .. 3 /\ 3 \in 1 .. 3
  OBVIOUS
<1>8. /\ CentreOf(d.num) = Of(2) /\ Factor * (d.num - 1) + 1 = Of(1)
      /\ Factor * d.num = Of(3)
  <2> DEFINE n == d.num
  <2>1. n \in Nat
    BY <1>6, <1>7 DEF Piece
  <2> HIDE DEF n
  <2>2. CentreOf(n) = 3 * (n - 1) + 2 /\ Factor * (n - 1) + 1 = 3 * (n - 1) + 1
        /\ Factor * n = 3 * (n - 1) + 3
    BY <2>1 DEF CentreOf, Factor
  <2> QED BY <2>2 DEF n
<1> HIDE DEF d, Of
<1>9. FindDeckSegment(fine, d.tag, Of(2)) # None
  BY <1>6, <1>7
<1>10. Mid(Sub(Of(2))) = Mid(d)
  <2> DEFINE y == Sub(Of(2))
  <2>1. d \in Piece /\ y \in Piece /\ ThirdOf(d, y, 2)
    BY <1>6, <1>7
  <2> HIDE DEF y, Sub
  <2>2. Mid(y) = Mid(d)
    BY <2>1, MiddleThird
  <2> QED BY <2>2 DEF y
<1>11. Sub(Of(1)).from = d.from
  <2> DEFINE y == Sub(Of(1))
  <2>1. d \in Piece /\ y \in Piece /\ ThirdOf(d, y, 1)
    BY <1>6, <1>7
  <2> HIDE DEF y, Sub
  <2>2. d.from \in Points /\ d.to \in Points /\ y.from \in Points
    BY <2>1 DEF Piece
  <2>3. OnThird(d.from, d.to, y.from, 0)
    BY <2>1 DEF ThirdOf
  <2>4. y.from = d.from
    BY <2>2, <2>3, EndThirds
  <2> QED BY <2>4 DEF y
<1>12. Sub(Of(3)).to = d.to
  <2> DEFINE y == Sub(Of(3))
  <2>1. d \in Piece /\ y \in Piece /\ ThirdOf(d, y, 3)
    BY <1>6, <1>7
  <2> HIDE DEF y, Sub
  <2>2. d.from \in Points /\ d.to \in Points /\ y.to \in Points
    BY <2>1 DEF Piece
  <2>3. OnThird(d.from, d.to, y.to, 3)
    BY <2>1 DEF ThirdOf
  <2>4. y.to = d.to
    BY <2>2, <2>3, EndThirds
  <2> QED BY <2>4 DEF y
<1> QED BY <1>8, <1>9, <1>10, <1>11, <1>12 DEF d

\* References survive: on the geometry Hallen solves, on the refined deck, and on the
\* image problem (find_deck_segment, segment_matches, find_segment_index, refine.rs,
\* ground_contact.rs).
THEOREM DeckReferences == Spec => []ReferencesSurvive
<1>1. Init => DeckInv /\ FineCut
  BY DeckInvInit, FineCutInit
<1>2. DeckInv /\ FineCut /\ [Next]_vars => (DeckInv /\ FineCut)'
  BY DeckInvStep, FineCutStep
<1>3. DeckInv /\ FineCut => ReferencesSurvive
  <2> SUFFICES ASSUME DeckInv, FineCut, stage = "built"
               PROVE  /\ hallen # <<>> => HallenKeepsReferences
                      /\ fine # <<>> => FinerKeepsReferences
                      /\ ImageMirrorsReferences
    BY DEF ReferencesSurvive
  <2> QED BY HallenReferences, FinerReferences, ImageReferences
<1> QED BY <1>1, <1>2, <1>3, PTL DEF Spec
=============================================================================
