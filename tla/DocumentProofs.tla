--------------------------- MODULE DocumentProofs ---------------------------
(***************************************************************************)
(* What a save writes reads back as the document it was written from, for  *)
(* any text and any edits.                                                 *)
(*                                                                         *)
(* A card the parser makes holds what each of its fields settles to        *)
(* (Regular), so what the writer makes of it is read as the same card      *)
(* (ReadsAsWritten) and, where the card was read, is not refused           *)
(* (ReadAgain).  What the reader knows of the cards before a line is in    *)
(* those cards, so a text of cards in their order (Orderly) is read card   *)
(* for card (ReadInOrder, WrittenInOrder).  The three parts of a document  *)
(* are made of such cards and are in that order, each by itself and one    *)
(* behind another (PartsForm, PartsOrder), when it is opened and after     *)
(* every edit (DocumentStep); so is, then, the deck they make              *)
(* (DeckInOrder).                                                          *)
(***************************************************************************)
EXTENDS EditorProofs
-----------------------------------------------------------------------------
(* Cards as they are read                                                  *)

\* What field i of a card settles to: what KeptValue keeps as it is.
Settled(card, i, v) ==
    /\ v \in Int
    /\ i \in SaturatingFields(card) => v >= 0
    /\ card = "GM" /\ i = 1 => v = Whole * (v \div Whole)
    /\ card = "GX" /\ i = 2 => v = Whole * Planes(v \div Whole)
    /\ card = "RP" /\ i \in {2, 3} => v >= Whole
    /\ card = "RP" /\ i = 4 => v = Whole * Xnda(v \div Whole)

\* The fields a card holds: for GN, those of a medium it gives, and of a second one.
Places(c) ==
    IF c.card = "GN"
    THEN {1, 2} \cup (DOMAIN c.f \cap {5, 6}) \cup (IF c.f[2] # 0 THEN {7, 8} ELSE 7 .. 10)
    ELSE Kept([card |-> c.card, f |-> <<>>])

Regular(c) == /\ c = [card |-> c.card, f |-> [i \in DOMAIN c.f |-> c.f[i]]]
              /\ c.card \in Known \ {"CE"}
              /\ DOMAIN c.f = Places(c)
              /\ \A i \in DOMAIN c.f : Settled(c.card, i, c.f[i])

\* Both numbers of flags are their own.
LEMMA FlagsSettle ==
    ASSUME NEW n \in Int
    PROVE  /\ Planes(n) \in 0 .. 999 /\ Planes(Planes(n)) = Planes(n)
           /\ Xnda(n) \in Nat /\ Xnda(Xnda(n)) = Xnda(n)
<1>1. \A m \in Int, q \in {1, 10, 100} :
         Set(m, q) \in {0, 1} /\ (Set(m, q) = 1 <=> Digit(m, q) # 0)
  BY DEF Set
<1>2. ASSUME NEW a \in {0, 1}, NEW b \in {0, 1}, NEW c \in {0, 1}
      PROVE  LET x == 500 * a + 10 * b + c
                 p == 100 * a + 10 * b + c
             IN /\ x \in Nat /\ p \in 0 .. 999 /\ (p >= 100 <=> a = 1)
                /\ Digit(x, 1) = c /\ Digit(x, 10) = b /\ Digit(x, 100) = 5 * a
                /\ Digit(p, 1) = c /\ Digit(p, 10) = b
  <2>1. (a = 0 \/ a = 1) /\ (b = 0 \/ b = 1) /\ (c = 0 \/ c = 1)
    OBVIOUS
  <2> QED BY <2>1 DEF Digit
<1>3. Planes(n) \in 0 .. 999 /\ Planes(Planes(n)) = Planes(n)
  <2> DEFINE a == IF n >= 100 THEN 1 ELSE 0
             p == 100 * a + 10 * Set(n, 10) + Set(n, 1)
  <2>1. a \in {0, 1} /\ Set(n, 10) \in {0, 1} /\ Set(n, 1) \in {0, 1} /\ Planes(n) = p
    BY <1>1 DEF Planes
  <2> HIDE DEF a
  <2>2. /\ p \in 0 .. 999 /\ (p >= 100 <=> a = 1)
        /\ Digit(p, 1) = Set(n, 1) /\ Digit(p, 10) = Set(n, 10)
    BY <1>2, <2>1
  <2> HIDE DEF p
  <2>3. Set(p, 1) = Set(n, 1) /\ Set(p, 10) = Set(n, 10)
    BY <2>1, <2>2 DEF Set
  <2>4. Planes(p) = p
    <3>1. Planes(p) = 100 * (IF p >= 100 THEN 1 ELSE 0) + 10 * Set(p, 10) + Set(p, 1)
      BY DEF Planes
    <3>2. (IF p >= 100 THEN 1 ELSE 0) = a
      BY <2>1, <2>2
    <3> QED BY <2>3, <3>1, <3>2 DEF p
  <2> QED BY <2>1, <2>2, <2>4
<1>4. Xnda(n) \in Nat /\ Xnda(Xnda(n)) = Xnda(n)
  <2> DEFINE x == 500 * Set(n, 100) + 10 * Set(n, 10) + Set(n, 1)
  <2>1. Set(n, 100) \in {0, 1} /\ Set(n, 10) \in {0, 1} /\ Set(n, 1) \in {0, 1} /\ Xnda(n) = x
    BY <1>1 DEF Xnda
  <2>2. /\ x \in Nat /\ Digit(x, 1) = Set(n, 1) /\ Digit(x, 10) = Set(n, 10)
        /\ Digit(x, 100) = 5 * Set(n, 100)
    BY <1>2, <2>1
  <2> HIDE DEF x
  <2>3. Set(x, 1) = Set(n, 1) /\ Set(x, 10) = Set(n, 10) /\ Set(x, 100) = Set(n, 100)
    BY <2>1, <2>2 DEF Set
  <2>4. Xnda(x) = x
    BY <2>3 DEF Xnda, x
  <2> QED BY <2>1, <2>2, <2>4
<1> QED BY <1>3, <1>4

LEMMA FlagsAre == \A n \in Int : /\ Planes(n) \in Nat /\ Planes(n) <= 999
                                 /\ Xnda(n) \in Nat
<1> TAKE n \in Int
<1>1. Planes(n) \in 0 .. 999 /\ Xnda(n) \in Nat
  BY FlagsSettle
<1> QED BY <1>1

LEMMA KeptSettles ==
    ASSUME DocumentAssumption, NEW l \in Lines, NEW i \in 1 .. 12
    PROVE  Settled(l.card, i, KeptValue(l, i))
<1>1. Value(l, i) \in Int /\ KeptValue(l, i) \in Int
  BY LineValues
<1>2. IntOf(l, 1) \in Int /\ IntOf(l, 2) \in Int /\ IntOf(l, 4) \in Int
  <2>1. \A j \in 1 .. 12 : IntOf(l, j) \in Int
    BY LineValues
  <2> QED BY <2>1
<1>3. \A m \in Int : (Whole * m) \div Whole = m
  BY DEF Whole
<1>4. CASE i \in SaturatingFields(l.card)
  <2>1. KeptValue(l, i) = AtLeast(0, Value(l, i)) /\ l.card \notin {"GX", "RP"}
        /\ ~(l.card = "GM" /\ i = 1)
    BY <1>4 DEF KeptValue, SaturatingFields, NearCards
  <2>2. AtLeast(0, Value(l, i)) >= 0
    BY <1>1 DEF AtLeast
  <2> QED BY <1>1, <2>1, <2>2 DEF Settled
<1>5. CASE l.card = "GM" /\ i = 1
  <2>1. KeptValue(l, i) = Whole * IntOf(l, 1) /\ i \notin SaturatingFields(l.card)
    BY <1>5 DEF KeptValue, SaturatingFields, NearCards
  <2>2. KeptValue(l, i) = Whole * (KeptValue(l, i) \div Whole)
    BY <1>2, <1>3, <2>1
  <2> QED BY <1>1, <1>5, <2>1, <2>2 DEF Settled
<1>6. CASE l.card = "GX" /\ i = 2
  <2>1. KeptValue(l, i) = Whole * Planes(IntOf(l, 2)) /\ i \notin SaturatingFields(l.card)
    BY <1>6 DEF KeptValue, SaturatingFields, NearCards
  <2>2. Planes(IntOf(l, 2)) \in Int /\ Planes(Planes(IntOf(l, 2))) = Planes(IntOf(l, 2))
    <3>1. Planes(IntOf(l, 2)) \in Nat
      BY <1>2, FlagsAre
    <3>2. Planes(Planes(IntOf(l, 2))) = Planes(IntOf(l, 2))
      BY <1>2, FlagsSettle
    <3> QED BY <3>1, <3>2
  <2>3. KeptValue(l, i) = Whole * Planes(KeptValue(l, i) \div Whole)
    BY <1>3, <2>1, <2>2
  <2> QED BY <1>1, <1>6, <2>1, <2>3 DEF Settled
<1>7. CASE l.card = "RP" /\ i \in {2, 3}
  <2>1. KeptValue(l, i) = AtLeast(Whole, Value(l, i)) /\ i \notin SaturatingFields(l.card)
    BY <1>7 DEF KeptValue, SaturatingFields, NearCards
  <2>2. AtLeast(Whole, Value(l, i)) >= Whole
    BY <1>1 DEF AtLeast, Whole
  <2> QED BY <1>1, <1>7, <2>1, <2>2 DEF Settled
<1>8. CASE l.card = "RP" /\ i = 4
  <2>1. KeptValue(l, i) = Whole * Xnda(IntOf(l, 4)) /\ i \notin SaturatingFields(l.card)
    BY <1>8 DEF KeptValue, SaturatingFields, NearCards
  <2>2. Xnda(IntOf(l, 4)) \in Int /\ Xnda(Xnda(IntOf(l, 4))) = Xnda(IntOf(l, 4))
    BY <1>2, FlagsSettle
  <2>3. KeptValue(l, i) = Whole * Xnda(KeptValue(l, i) \div Whole)
    BY <1>3, <2>1, <2>2
  <2> QED BY <1>1, <1>8, <2>1, <2>3 DEF Settled
<1>9. CASE /\ i \notin SaturatingFields(l.card) /\ ~(l.card = "GM" /\ i = 1)
           /\ ~(l.card = "GX" /\ i = 2) /\ ~(l.card = "RP" /\ i \in 2 .. 4)
  BY <1>1, <1>9 DEF Settled
<1> QED BY <1>4, <1>5, <1>6, <1>7, <1>8, <1>9

\* Where the fields of a card are: among those its line is written with.
LEMMA PlacesWithin ==
    ASSUME NEW c, c.card \in Known \ {"CE"}, DOMAIN c.f = Places(c)
    PROVE  /\ DOMAIN c.f \subseteq 1 .. Fields(c.card)
           /\ Fields(c.card) \in 0 .. 12 /\ Fixed(c.card) \in 0 .. Fields(c.card)
<1>1. CASE c.card = "GN"
  BY <1>1 DEF Places, Fields, Fixed
<1>2. CASE c.card \in {"CM", "EN"}
  BY <1>2 DEF Places, Kept, Comments, Fields, Fixed
<1>3. CASE c.card \in GeometryCards
  BY <1>3 DEF Places, Kept, Comments, Fields, Fixed, GeometryCards
<1>4. CASE c.card \in (PositionalCards \cup NearCards) \ {"GN"}
  BY <1>4 DEF Places, Kept, Comments, Fields, Fixed, PositionalCards, NearCards
<1> QED BY <1>1, <1>2, <1>3, <1>4 DEF Known, Typed, Comments

LEMMA CardIsRegular ==
    ASSUME DocumentAssumption, NEW l \in Lines, Accepted(l)
    PROVE  Regular(Card(l)) /\ SaysItsMedium(Card(l))
<1> DEFINE c == Card(l)
<1>1. /\ c.card = (IF l.card = "CE" THEN "CM" ELSE l.card)
      /\ c.f = [i \in Kept(l) |-> KeptValue(l, i)]
      /\ c = [card |-> c.card, f |-> [i \in DOMAIN c.f |-> c.f[i]]]
  BY DEF Card
<1>2. l.card \in Known /\ c.card \in Known \ {"CE"}
  BY <1>1 DEF Accepted, Known, Comments, Typed, GeometryCards, PositionalCards, NearCards
<1>3. l.card = "GN" => /\ KeptValue(l, 2) = Value(l, 2) /\ KeptValue(l, 5) = Value(l, 5)
                       /\ KeptValue(l, 6) = Value(l, 6)
  BY DEF KeptValue, SaturatingFields, NearCards
<1>4. l.card = "GN" => Kept(l) = {1, 2} \cup (IF MediumGiven(l) THEN {5, 6} ELSE {})
                                 \cup (IF Value(l, 2) # 0 THEN {7, 8} ELSE 7 .. 10)
  BY DEF Kept, Comments
<1> HIDE DEF c
<1>5. DOMAIN c.f = Places(c)
  <2>1. CASE l.card = "GN"
    <3>1. c.f[2] = Value(l, 2) /\ DOMAIN c.f = Kept(l)
      BY <1>1, <1>3, <1>4, <2>1
    <3>2. Kept(l) \cap {5, 6} = IF MediumGiven(l) THEN {5, 6} ELSE {}
      BY <1>4, <2>1
    <3>3. Places(c) = {1, 2} \cup (Kept(l) \cap {5, 6})
                             \cup (IF Value(l, 2) # 0 THEN {7, 8} ELSE 7 .. 10)
      BY <1>1, <2>1, <3>1 DEF Places
    <3> QED BY <1>4, <2>1, <3>1, <3>2, <3>3
  <2>2. CASE l.card # "GN"
    <3> DEFINE k == [card |-> c.card, f |-> <<>>]
    <3>1. DOMAIN c.f = Kept(l) /\ c.card # "GN"
      BY <1>1, <2>2
    <3>2. Kept(l) = Kept(k)
      <4>1. CASE l.card \in Comments
        BY <1>1, <4>1 DEF Kept, Comments
      <4>2. CASE l.card \notin Comments
        <5>1. k.card = l.card
          BY <1>1, <4>2 DEF Comments
        <5> HIDE DEF k
        <5> QED BY <2>2, <5>1, SMTT(30) DEF Kept
      <4> QED BY <4>1, <4>2
    <3> QED BY <3>1, <3>2 DEF Places
  <2> QED BY <2>1, <2>2
<1>6. ASSUME NEW i \in DOMAIN c.f
      PROVE  Settled(c.card, i, c.f[i])
  <2>1. c.f[i] = KeptValue(l, i)
    BY <1>1, <1>6
  <2>2. i \in 1 .. 12
    <3>1. DOMAIN c.f \subseteq 1 .. Fields(c.card) /\ Fields(c.card) \in 0 .. 12
      BY <1>2, <1>5, PlacesWithin
    <3> QED BY <1>6, <3>1
  <2>3. Settled(l.card, i, KeptValue(l, i))
    BY <2>2, KeptSettles
  <2>4. l.card \in Comments => DOMAIN c.f = {}
    BY <1>1 DEF Kept, Comments
  <2> QED BY <1>1, <1>6, <2>1, <2>3, <2>4 DEF Comments
<1>7. SaysItsMedium(c)
  <2> SUFFICES ASSUME l.card = "GN"
               PROVE  /\ 5 \in DOMAIN c.f <=> 6 \in DOMAIN c.f
                      /\ 5 \in DOMAIN c.f => c.f[5] # 0 \/ c.f[6] # 0
    BY <1>1 DEF SaysItsMedium
  <2>1. (5 \in Kept(l) <=> MediumGiven(l)) /\ (6 \in Kept(l) <=> MediumGiven(l))
    BY <1>4
  <2> QED BY <1>1, <1>3, <2>1 DEF MediumGiven
<1> QED BY <1>1, <1>2, <1>5, <1>6, <1>7 DEF Regular, c
-----------------------------------------------------------------------------
(* Lines as they are written                                               *)

LEMMA GreatestOf ==
    ASSUME NEW n \in Nat, NEW S, S \subseteq 0 .. n, S # {}
    PROVE  Max(S) \in S /\ \A k \in S : k <= Max(S)
<1> DEFINE T == {b \in Nat : \A k \in S : k <= b}
           m == Min(T)
<1>1. T \subseteq Nat /\ T # {}
  <2>1. n \in T
    OBVIOUS
  <2> QED BY <2>1
<1>2. m \in T /\ \A b \in T : m <= b
  <2> HIDE DEF T
  <2> QED BY <1>1, LeastOf
<1>3. m \in Nat /\ \A k \in S : k <= m
  BY <1>2
<1>4. m \in S
  <2> SUFFICES ASSUME m \notin S
               PROVE  FALSE
    OBVIOUS
  <2>1. PICK s \in S : TRUE
    OBVIOUS
  <2> HIDE DEF m
  <2>2. \A k \in S : k <= m - 1
    BY <1>3
  <2>3. m - 1 \in Nat
    BY <1>3, <2>1, <2>2
  <2>4. m - 1 \in T
    BY <2>2, <2>3
  <2> QED BY <1>2, <1>3, <2>4
<1> QED BY <1>3, <1>4 DEF Max

\* A line as it is written: its card's fields, and no others.
Held(c, i) == IF i \in DOMAIN c.f THEN c.f[i] ELSE 0
WrittenOf(c, l) ==
    /\ l \in Lines /\ l.card = c.card
    /\ Len(l.f) \in Fixed(c.card) .. Fields(c.card)
    /\ \A i \in 1 .. Len(l.f) : l.f[i] = WrittenField(c.card, i, Held(c, i))
    /\ \A i \in 1 .. 12 : Value(l, i) = Held(c, i)

LEMMA FieldWritten ==
    ASSUME NEW card, NEW i, NEW v \in Int
    PROVE  /\ WrittenField(card, i, v) \in Field /\ WrittenField(card, i, v).v = v
           /\ WrittenField(card, i, v).as # "bad"
           /\ IsWhole(v) /\ ~(card = "TL" /\ i \in 5 .. 6) => WrittenField(card, i, v).as = "int"
           /\ card = "TL" /\ i \in 5 .. 6 => WrittenField(card, i, v).as = "real"
BY DEF WrittenField, Shown, Field

LEMMA WrittenValues ==
    ASSUME NEW c, Regular(c)
    PROVE  WrittenOf(c, WriteCard(c))
<1> DEFINE F == Fields(c.card)
           held == [i \in 1 .. F |-> IF i \in DOMAIN c.f THEN c.f[i] ELSE 0]
           S == {Fixed(c.card)} \cup {i \in DOMAIN held : held[i] # 0}
           last == Max(S)
           f == [i \in 1 .. last |-> WrittenField(c.card, i, held[i])]
<1>1. /\ DOMAIN c.f \subseteq 1 .. F /\ F \in 0 .. 12 /\ Fixed(c.card) \in 0 .. F
      /\ \A i \in DOMAIN c.f : c.f[i] \in Int
      /\ c.card \in Known
  BY PlacesWithin DEF Regular, Settled
<1>2. WriteCard(c) = [card |-> c.card, f |-> f]
  BY DEF WriteCard
<1>3. last \in S /\ \A k \in S : k <= last
  <2>1. S \subseteq 0 .. F /\ S # {} /\ F \in Nat
    BY <1>1
  <2> HIDE DEF S, F
  <2> QED BY <2>1, GreatestOf
<1>4. last \in Fixed(c.card) .. F
  <2>1. S \subseteq 0 .. F /\ Fixed(c.card) \in S
    BY <1>1
  <2>2. F \in Int /\ Fixed(c.card) \in Int
    BY <1>1
  <2>3. last \in S /\ Fixed(c.card) <= last
    BY <1>3, <2>1
  <2> HIDE DEF S, F, last
  <2>4. last \in 0 .. F
    BY <2>1, <2>3
  <2> QED BY <2>2, <2>3, <2>4
<1>5. \A i \in 1 .. F : held[i] = Held(c, i) /\ Held(c, i) \in Int
  BY <1>1 DEF Held
<1>6. \A i \in 1 .. 12 : i > last => Held(c, i) = 0
  <2> TAKE i \in 1 .. 12
  <2>1. CASE i \in 1 .. F
    <3>1. held[i] # 0 => i \in S
      BY <2>1
    <3>2. held[i] = Held(c, i) /\ \A k \in S : k <= last
      BY <1>3, <1>5, <2>1
    <3>3. last \in Int
      BY <1>1, <1>4
    <3> HIDE DEF S, held, last
    <3> QED BY <3>1, <3>2, <3>3
  <2>2. CASE i \notin 1 .. F
    BY <1>1, <2>2 DEF Held
  <2> QED BY <2>1, <2>2
<1> HIDE DEF S, last, held
<1>7. last \in Nat /\ last <= F /\ F \in Nat /\ F <= 12
  <2> HIDE DEF F
  <2> QED BY <1>1, <1>4
<1>8. \A i \in 1 .. last : /\ f[i] = WrittenField(c.card, i, Held(c, i)) /\ f[i] \in Field
                           /\ f[i].v = Held(c, i)
  <2> HIDE DEF F
  <2> QED BY <1>5, <1>7, FieldWritten
<1>9. f \in Seq(Field) /\ Len(f) = last
  <2> HIDE DEF F
  <2>1. DOMAIN f = 1 .. last /\ \A i \in 1 .. last : f[i] \in Field
    BY <1>8
  <2>2. f = [i \in 1 .. last |-> f[i]]
    OBVIOUS
  <2> HIDE DEF f
  <2>3. f \in [1 .. last -> Field]
    BY <2>1, <2>2
  <2>4. f \in Seq(Field)
    BY <1>7, <2>3
  <2>5. Len(f) = last
    BY <1>7, <2>2
  <2> QED BY <2>4, <2>5
<1> HIDE DEF f, F
<1>10. WriteCard(c) \in Lines
  BY <1>1, <1>2, <1>9 DEF Lines
<1>11. \A i \in 1 .. 12 : Value(WriteCard(c), i) = Held(c, i)
  BY <1>2, <1>6, <1>7, <1>8, <1>9 DEF Value
<1>12. Len(WriteCard(c).f) \in Fixed(c.card) .. Fields(c.card)
  BY <1>2, <1>4, <1>9 DEF F
<1> QED BY <1>2, <1>8, <1>9, <1>10, <1>11, <1>12 DEF WrittenOf

\* What a card's own fields are kept as: themselves.
LEMMA SettledIsKept ==
    ASSUME NEW c, Regular(c), NEW l, WrittenOf(c, l), NEW i \in DOMAIN c.f
    PROVE  i \in 1 .. 12 /\ Value(l, i) = c.f[i] /\ KeptValue(l, i) = c.f[i]
<1>1. /\ i \in 1 .. 12 /\ l.card = c.card /\ Settled(c.card, i, c.f[i])
      /\ \A j \in 1 .. 12 : Value(l, j) = Held(c, j)
  <2>1. DOMAIN c.f \subseteq 1 .. Fields(c.card) /\ Fields(c.card) \in 0 .. 12
    BY PlacesWithin DEF Regular
  <2>2. i \in 1 .. 12
    BY <2>1
  <2> QED BY <2>2 DEF Regular, WrittenOf
<1>2. Value(l, i) = c.f[i]
  BY <1>1 DEF Held
<1>3. c.f[i] \in Int
  BY <1>1 DEF Settled
<1>4. CASE i \in SaturatingFields(c.card)
  <2>1. KeptValue(l, i) = AtLeast(0, Value(l, i))
    <3>1. i \in SaturatingFields(l.card) /\ l.card = c.card
      BY <1>1, <1>4
    <3> QED BY <3>1 DEF KeptValue, SaturatingFields, NearCards
  <2>2. c.f[i] >= 0
    BY <1>1, <1>4 DEF Settled
  <2> QED BY <1>1, <1>2, <1>3, <2>1, <2>2 DEF AtLeast
<1>5. CASE i \notin SaturatingFields(c.card) /\ c.card = "GM" /\ i = 1
  <2>1. KeptValue(l, i) = Whole * IntOf(l, 1)
    BY <1>1, <1>5 DEF KeptValue
  <2>2. c.f[i] = Whole * (c.f[i] \div Whole)
    BY <1>1, <1>5 DEF Settled
  <2> QED BY <1>1, <1>2, <1>5, <2>1, <2>2 DEF IntOf
<1>6. CASE i \notin SaturatingFields(c.card) /\ c.card = "GX" /\ i = 2
  <2>1. KeptValue(l, i) = Whole * Planes(IntOf(l, 2))
    BY <1>1, <1>6 DEF KeptValue
  <2>2. c.f[i] = Whole * Planes(c.f[i] \div Whole)
    BY <1>1, <1>6 DEF Settled
  <2> QED BY <1>1, <1>2, <1>6, <2>1, <2>2 DEF IntOf
<1>7. CASE i \notin SaturatingFields(c.card) /\ c.card = "RP" /\ i \in {2, 3}
  <2>1. KeptValue(l, i) = AtLeast(Whole, Value(l, i))
    BY <1>1, <1>7 DEF KeptValue
  <2>2. c.f[i] >= Whole
    BY <1>1, <1>7 DEF Settled
  <2> QED BY <1>1, <1>2, <1>3, <2>1, <2>2 DEF AtLeast, Whole
<1>8. CASE i \notin SaturatingFields(c.card) /\ c.card = "RP" /\ i = 4
  <2>1. KeptValue(l, i) = Whole * Xnda(IntOf(l, 4))
    BY <1>1, <1>8 DEF KeptValue
  <2>2. c.f[i] = Whole * Xnda(c.f[i] \div Whole)
    BY <1>1, <1>8 DEF Settled
  <2> QED BY <1>1, <1>2, <1>8, <2>1, <2>2 DEF IntOf
<1>9. CASE /\ i \notin SaturatingFields(c.card) /\ ~(c.card = "GM" /\ i = 1)
           /\ ~(c.card = "GX" /\ i = 2) /\ ~(c.card = "RP" /\ i \in {2, 3, 4})
  <2>1. c.card = "TL" => ~(Len(l.f) < 11)
    BY DEF WrittenOf, Fixed, Fields
  <2>2. KeptValue(l, i) = Value(l, i)
    <3> HIDE DEF SaturatingFields
    <3> QED BY <1>1, <1>9, <2>1, SMT DEF KeptValue
  <2> QED BY <1>1, <1>2, <2>2
<1> QED BY <1>1, <1>2, <1>4, <1>5, <1>6, <1>7, <1>8, <1>9

\* A card's line is read as the card, but a ground of which one field alone gives a medium.
LEMMA ReadsAsWritten ==
    ASSUME NEW c, Regular(c), NEW l, WrittenOf(c, l)
    PROVE  /\ Card(l).card = c.card
           /\ c.card # "GN" \/ SaysItsMedium(c) => Card(l) = c
<1>1. Card(l) = [card |-> c.card, f |-> [i \in Kept(l) |-> KeptValue(l, i)]]
  BY DEF Card, WrittenOf, Regular, Known
<1>2. ASSUME Kept(l) = DOMAIN c.f
      PROVE  Card(l) = c
  <2>1. \A i \in DOMAIN c.f : KeptValue(l, i) = c.f[i]
    BY SettledIsKept
  <2>2. c = [card |-> c.card, f |-> [i \in DOMAIN c.f |-> c.f[i]]]
    BY DEF Regular
  <2>3. [i \in Kept(l) |-> KeptValue(l, i)] = [i \in DOMAIN c.f |-> c.f[i]]
    BY <1>2, <2>1
  <2> QED BY <1>1, <2>2, <2>3
<1>3. l.card = c.card /\ DOMAIN c.f = Places(c) /\ c.card \in Known \ {"CE"}
  BY DEF WrittenOf, Regular
<1>4. CASE c.card # "GN"
  <2> SUFFICES ASSUME NEW k, k = [card |-> c.card, f |-> <<>>]
               PROVE  Kept(l) = Kept(k)
    BY <1>1, <1>2, <1>3, <1>4 DEF Places
  <2>1. k.card = l.card
    BY <1>3
  <2> QED BY <1>3, <1>4, <2>1, SMTT(30) DEF Kept
<1>5. CASE c.card = "GN" /\ SaysItsMedium(c)
  <2>1. Kept(l) = {1, 2} \cup (IF MediumGiven(l) THEN {5, 6} ELSE {})
                         \cup (IF Value(l, 2) # 0 THEN {7, 8} ELSE 7 .. 10)
    <3>1. l.card = "GN"
      BY <1>3, <1>5
    <3> QED BY <3>1 DEF Kept, Comments
  <2>2. DOMAIN c.f = {1, 2} \cup (DOMAIN c.f \cap {5, 6})
                            \cup (IF c.f[2] # 0 THEN {7, 8} ELSE 7 .. 10)
    BY <1>3, <1>5 DEF Places
  <2>3. Value(l, 2) = c.f[2]
    BY <2>2, SettledIsKept
  <2>4. Value(l, 5) = Held(c, 5) /\ Value(l, 6) = Held(c, 6)
    BY DEF WrittenOf
  <2>5. (5 \in DOMAIN c.f <=> 6 \in DOMAIN c.f)
        /\ (5 \in DOMAIN c.f => c.f[5] # 0 \/ c.f[6] # 0)
    BY <1>5 DEF SaysItsMedium
  <2>6. MediumGiven(l) <=> 5 \in DOMAIN c.f
    BY <2>4, <2>5 DEF MediumGiven, Held
  <2>7. DOMAIN c.f \cap {5, 6} = IF MediumGiven(l) THEN {5, 6} ELSE {}
    BY <2>5, <2>6
  <2>8. Kept(l) = DOMAIN c.f
    BY <2>1, <2>2, <2>3, <2>7
  <2> QED BY <1>1, <1>2, <2>8
<1> QED BY <1>1, <1>4, <1>5

\* A line that was accepted, as it is written: l0, its card c and the line l of it.
Rewritten(l0, c, l) == l0 \in Lines /\ Accepted(l0) /\ c = Card(l0) /\ WrittenOf(c, l)

LEMMA KeptIsOneOf ==
    ASSUME DocumentAssumption, NEW l \in Lines, NEW i \in 1 .. 12
    PROVE  \/ i = 1 /\ KeptValue(l, i) = Whole * IntOf(l, i)
           \/ KeptValue(l, i) \in {AtLeast(0, Value(l, i)), AtLeast(Whole, Value(l, i)),
                                   Value(l, i), Whole * Planes(IntOf(l, 2)),
                                   Whole * Xnda(IntOf(l, 4)), Whole}
<1>1. CASE l.card = "GM" /\ i = 1
  BY <1>1 DEF KeptValue, SaturatingFields, NearCards
<1>2. CASE ~(l.card = "GM" /\ i = 1)
  BY <1>2, Zenon DEF KeptValue
<1> QED BY <1>1, <1>2

\* What is kept of a whole number is whole, of a number that is not negative not negative.
LEMMA KeptKeeps ==
    ASSUME DocumentAssumption, NEW l \in Lines, NEW i \in 1 .. 12
    PROVE  /\ IsWhole(Value(l, i)) => IsWhole(KeptValue(l, i))
           /\ Value(l, i) >= 0 => KeptValue(l, i) >= 0
<1> DEFINE v == Value(l, i)
           p == Planes(IntOf(l, 2))
           x == Xnda(IntOf(l, 4))
<1>1. v \in Int /\ p \in Nat /\ x \in Nat /\ IntOf(l, i) = v \div Whole
  <2>1. \A j \in 1 .. 12 : Value(l, j) \in Int /\ IntOf(l, j) \in Int
    BY LineValues
  <2>2. IntOf(l, 2) \in Int /\ IntOf(l, 4) \in Int
    BY <2>1
  <2>3. p \in Nat /\ x \in Nat
    BY <2>2, FlagsAre
  <2> QED BY <2>1, <2>3 DEF IntOf
<1>2. \/ KeptValue(l, i) = Whole * (v \div Whole)
      \/ KeptValue(l, i) \in {AtLeast(0, v), AtLeast(Whole, v), v, Whole * p, Whole * x, Whole}
  BY <1>1, KeptIsOneOf
<1> HIDE DEF v, p, x
<1>3. \A n \in Int : IsWhole(Whole * n) /\ IsWhole(Whole) /\ IsWhole(0)
  BY DEF IsWhole, Whole
<1>4. /\ AtLeast(0, v) \in {0, v} /\ AtLeast(Whole, v) \in {Whole, v}
      /\ v >= 0 => AtLeast(0, v) >= 0 /\ AtLeast(Whole, v) >= 0
  BY <1>1 DEF AtLeast, Whole
<1>5. IsWhole(v) => IsWhole(KeptValue(l, i))
  <2>1. v \div Whole \in Int
    BY <1>1 DEF Whole
  <2>2. IsWhole(Whole * (v \div Whole)) /\ IsWhole(Whole * p) /\ IsWhole(Whole * x)
        /\ IsWhole(Whole) /\ IsWhole(0)
    BY <1>1, <1>3, <2>1
  <2> QED BY <1>2, <1>4, <2>2
<1>6. v >= 0 => KeptValue(l, i) >= 0
  <2>1. v >= 0 => Whole * (v \div Whole) >= 0
    BY <1>1 DEF Whole
  <2>2. Whole * p >= 0 /\ Whole * x >= 0 /\ Whole >= 0
    BY <1>1 DEF Whole
  <2> QED BY <1>2, <1>4, <2>1, <2>2
<1> QED BY <1>5, <1>6 DEF v

LEMMA RewrittenValues ==
    ASSUME DocumentAssumption, NEW l0, NEW c, NEW l, Rewritten(l0, c, l), l0.card \in Typed
    PROVE  /\ l.card = l0.card /\ l \in Lines
           /\ \A i \in 1 .. 12 : Value(l, i) = IF i \in Kept(l0) THEN KeptValue(l0, i) ELSE 0
<1>1. l0.card # "CE"
  BY DEF Typed, GeometryCards, PositionalCards, NearCards
<1>2. c.card = l0.card /\ c.f = [i \in Kept(l0) |-> KeptValue(l0, i)]
  BY <1>1 DEF Rewritten, Card
<1>3. l \in Lines /\ l.card = c.card /\ \A i \in 1 .. 12 : Value(l, i) = Held(c, i)
  BY DEF Rewritten, WrittenOf
<1> QED BY <1>2, <1>3 DEF Held

LEMMA PlainlyKept ==
    ASSUME NEW l, NEW i, l.card \notin {"GW", "GM", "GX", "RP", "TL"} \cup NearCards
    PROVE  KeptValue(l, i) = Value(l, i)
BY DEF KeptValue, SaturatingFields, NearCards

LEMMA WholeIsRead ==
    ASSUME DocumentAssumption, NEW l \in Lines, l.card \in Typed, ~BadField(l),
           NEW i \in WholeFields(l.card)
    PROVE  i \in 1 .. 12 /\ IsWhole(Value(l, i))
<1>1. i \in Reads(l.card) /\ i \in 1 .. 12
  <2>1. CASE l.card \in {"GW", "GX", "GA"}
    BY <2>1 DEF WholeFields, Reads, PositionalCards, NearCards
  <2>2. CASE l.card \in {"GH", "GR"}
    BY <2>2 DEF WholeFields, Reads, PositionalCards, NearCards
  <2>3. CASE l.card \in {"GM", "GE", "GC", "GS"}
    BY <2>3 DEF WholeFields, Reads, PositionalCards, NearCards
  <2>4. CASE l.card \in PositionalCards \cup NearCards
    <3>1. WholeFields(l.card) = 1 .. 4
      BY <2>4 DEF WholeFields, PositionalCards, NearCards
    <3>2. Reads(l.card) \in {1 .. 12, 1 .. 10}
      BY <2>4 DEF Reads, PositionalCards, NearCards
    <3> QED BY <3>1, <3>2
  <2> QED BY <2>1, <2>2, <2>3, <2>4 DEF Typed, GeometryCards
<1>2. CASE i \in DOMAIN l.f
  <2>1. IsWhole(l.f[i].v)
    BY <1>1, <1>2 DEF BadField
  <2>2. i <= Len(l.f)
    <3>1. l.f \in Seq(Field)
      BY LineValues
    <3> QED BY <1>1, <1>2, <3>1
  <2> QED BY <1>1, <2>1, <2>2 DEF Value
<1>3. CASE i \notin DOMAIN l.f
  <2>1. ~(i <= Len(l.f))
    <3>1. l.f \in Seq(Field)
      BY LineValues
    <3> QED BY <1>1, <1>3, <3>1
  <2> QED BY <1>1, <2>1 DEF Value, IsWhole, Whole
<1> QED BY <1>2, <1>3

\* The fields of an accepted line that may not be negative, and those that are positive, are so
\* as they are written.
LEMMA SignsKept ==
    ASSUME DocumentAssumption, NEW l0, NEW c, NEW l, Rewritten(l0, c, l), l0.card \in Typed
    PROVE  /\ \A i \in NotNegative(l.card) : Value(l, i) >= 0
           /\ \A i \in Positive(l.card) : Value(l, i) > 0
<1>1. /\ l.card = l0.card
      /\ \A i \in 1 .. 12 : Value(l, i) = IF i \in Kept(l0) THEN KeptValue(l0, i) ELSE 0
  BY RewrittenValues
<1>2. l0 \in Lines /\ ~BadField(l0)
  BY DEF Rewritten, Accepted
<1>3. ASSUME NEW i \in NotNegative(l.card)
      PROVE  Value(l, i) >= 0
  <2>1. i \in 1 .. 12
    BY <1>3 DEF NotNegative
  <2>2. ~(Value(l0, i) < 0) /\ Value(l0, i) \in Int
    <3>1. ~(Value(l0, i) < 0)
      BY <1>1, <1>2, <1>3 DEF BadField
    <3>2. Value(l0, i) \in Int
      BY <1>2, <2>1, LineValues
    <3> QED BY <3>1, <3>2
  <2>3. KeptValue(l0, i) >= 0
    BY <1>2, <2>1, <2>2, KeptKeeps
  <2> QED BY <1>1, <2>1, <2>3
<1>4. ASSUME NEW i \in Positive(l.card)
      PROVE  Value(l, i) > 0
  <2>1. i \in 1 .. 12 /\ l0.card \in {"GC", "GA", "GH", "GS", "GR"}
    BY <1>1, <1>4 DEF Positive
  <2>2. i \in Kept(l0)
    <3>1. CASE l0.card \in {"GC", "GA"}
      BY <1>1, <1>4, <3>1 DEF Positive, Kept, Comments
    <3>2. CASE l0.card \in {"GH", "GS", "GR"}
      BY <1>1, <1>4, <3>2 DEF Positive, Kept, Comments
    <3> QED BY <2>1, <3>1, <3>2
  <2>3. ~(Value(l0, i) <= 0) /\ Value(l0, i) \in Int
    <3>1. ~(Value(l0, i) <= 0)
      BY <1>1, <1>2, <1>4 DEF BadField
    <3>2. Value(l0, i) \in Int
      BY <1>2, <2>1, LineValues
    <3> QED BY <3>1, <3>2
  <2>4. KeptValue(l0, i) = Value(l0, i)
    BY <2>1, PlainlyKept DEF NearCards
  <2> QED BY <1>1, <2>1, <2>2, <2>3, <2>4
<1> QED BY <1>3, <1>4

LEMMA NeedIsFixed ==
    ASSUME NEW card \in Typed
    PROVE  Need(card) <= Fixed(card)
<1>1. CASE card \in {"GW", "GH", "GA", "GC"}
  BY <1>1 DEF Need, Fixed, Fields, NearCards
<1>2. CASE card \in {"GS", "GR", "GM", "GX", "GE"}
  BY <1>2 DEF Need, Fixed, Fields, NearCards
<1>3. CASE card \in NearCards
  BY <1>3 DEF Need, Fixed, Fields, NearCards
<1>4. CASE card \in PositionalCards
  BY <1>4 DEF Need, Fixed, Fields, NearCards, PositionalCards
<1> QED BY <1>1, <1>2, <1>3, <1>4 DEF Typed, GeometryCards

LEMMA NoFieldBad ==
    ASSUME DocumentAssumption, NEW l0, NEW c, NEW l, Rewritten(l0, c, l), l0.card \in Typed
    PROVE  ~BadField(l)
<1>1. /\ l.card = l0.card /\ l \in Lines
      /\ \A i \in 1 .. 12 : Value(l, i) = IF i \in Kept(l0) THEN KeptValue(l0, i) ELSE 0
  BY RewrittenValues
<1>2. l0 \in Lines /\ ~BadField(l0) /\ WrittenOf(c, l)
  BY DEF Rewritten, Accepted
<1>3. Len(l.f) \in Fixed(l.card) .. Fields(l.card)
  BY <1>1, <1>2 DEF WrittenOf
<1>7. l.f \in Seq(Field) /\ \A i \in 1 .. 12 : Value(l, i) = Held(c, i) /\ Value(l, i) \in Int
  BY <1>1, <1>2, LineValues DEF WrittenOf
<1>9. l.f \in Seq(Field)
  BY <1>7
<1>8. \A i \in 1 .. Len(l.f) : l.f[i] = WrittenField(c.card, i, Held(c, i))
  BY <1>2 DEF WrittenOf
<1>4. ~(Len(l.f) < Need(l.card))
  <2>1. Need(l.card) <= Fixed(l.card) /\ Need(l.card) \in Int
    <3>1. l.card \in Typed
      BY <1>1
    <3>2. Need(l.card) \in {9, 6, 5, 4, 3, 2, 0}
      BY Zenon DEF Need
    <3> QED BY <3>1, <3>2, NeedIsFixed
  <2>2. Fixed(l.card) \in Int
    <3>1. Fields(l.card) \in {9, 6, 5, 3, 2, 1, 7, 12, 8, 4, 0, 10}
      BY Zenon DEF Fields
    <3>2. Fixed(l.card) \in {1, 4, Fields(l.card)}
      BY Zenon DEF Fixed
    <3> QED BY <3>1, <3>2
  <2>3. \A n, m, k, h \in Int : n \in m .. h /\ k <= m => ~(n < k)
    OBVIOUS
  <2>4. Len(l.f) \in Int /\ Fields(l.card) \in Int
    <3>1. Fields(l.card) \in {9, 6, 5, 3, 2, 1, 7, 12, 8, 4, 0, 10}
      BY Zenon DEF Fields
    <3>2. Len(l.f) \in Nat
      BY <1>9
    <3> QED BY <3>1, <3>2
  <2> QED BY <1>3, <2>1, <2>2, <2>3, <2>4
<1>5. ASSUME NEW i \in Reads(l.card) \cap DOMAIN l.f
      PROVE  l.f[i].as # "bad" /\ (i \in WholeFields(l.card) => IsWhole(l.f[i].v))
  <2>1. i \in 1 .. Len(l.f) /\ i <= Len(l.f)
    BY <1>9
  <2>2. i \in 1 .. 12
    <3>1. Reads(l.card) \in {1 .. 9, 1 .. 6, 3 .. 5, 1 .. 3, {3}, 1 .. 2, {1}, 1 .. 12, 1 .. 10}
      BY Zenon DEF Reads
    <3> QED BY <1>5, <3>1
  <2>3. Held(c, i) \in Int /\ l.f[i] = WrittenField(c.card, i, Held(c, i))
    BY <1>7, <1>8, <2>1, <2>2
  <2>4. l.f[i].as # "bad" /\ l.f[i].v = Value(l, i)
    <3>1. \A card : WrittenField(card, i, Held(c, i)).as # "bad"
                    /\ WrittenField(card, i, Held(c, i)).v = Held(c, i)
      BY <2>3, FieldWritten
    <3> QED BY <1>7, <2>2, <2>3, <3>1
  <2>5. ASSUME i \in WholeFields(l.card)
        PROVE  IsWhole(Value(l, i))
    <3>1. IsWhole(Value(l0, i))
      BY <1>1, <1>2, <2>5, WholeIsRead
    <3>2. IsWhole(KeptValue(l0, i)) /\ IsWhole(0)
      BY <1>2, <2>2, <3>1, KeptKeeps DEF IsWhole, Whole
    <3> QED BY <1>1, <2>2, <3>2
  <2> QED BY <2>4, <2>5
<1>6. /\ \A i \in NotNegative(l.card) : ~(Value(l, i) < 0)
      /\ \A i \in Positive(l.card) : ~(Value(l, i) <= 0)
  <2>1. NotNegative(l.card) \subseteq 1 .. 12 /\ Positive(l.card) \subseteq 1 .. 12
    <3>1. NotNegative(l.card) \in {1 .. 4, 1 .. 2, 2 .. 4, {1}, {1, 5, 6, 7, 8}, {9}, {}}
      BY Zenon DEF NotNegative
    <3>2. Positive(l.card) \in {{3, 4, 5}, {2, 3, 6}, {2, 3, 9}, {3}, {2}, {}}
      BY Zenon DEF Positive
    <3> QED BY <3>1, <3>2
  <2>2. /\ \A i \in NotNegative(l.card) : Value(l, i) >= 0
        /\ \A i \in Positive(l.card) : Value(l, i) > 0
    BY SignsKept
  <2>3. \A i \in 1 .. 12 : Value(l, i) \in Int
    BY <1>7
  <2>4. ASSUME NEW i \in NotNegative(l.card)
        PROVE  ~(Value(l, i) < 0)
    BY <2>1, <2>2, <2>3, <2>4
  <2>5. ASSUME NEW i \in Positive(l.card)
        PROVE  ~(Value(l, i) <= 0)
    BY <2>1, <2>2, <2>3, <2>5
  <2> QED BY <2>4, <2>5
<1> QED BY <1>4, <1>5, <1>6 DEF BadField

\* The values of a card whose fields are kept as they are
LEMMA SameValues ==
    ASSUME DocumentAssumption, NEW l0, NEW c, NEW l, Rewritten(l0, c, l), l0.card \in Typed,
           l0.card \notin {"GW", "GM", "GX", "RP", "TL"} \cup NearCards
    PROVE  \A i \in 1 .. 12 : Value(l, i) = IF i \in Kept(l0) THEN Value(l0, i) ELSE 0
<1>1. \A i \in 1 .. 12 : Value(l, i) = IF i \in Kept(l0) THEN KeptValue(l0, i) ELSE 0
  BY RewrittenValues
<1>2. \A i : KeptValue(l0, i) = Value(l0, i)
  BY PlainlyKept
<1> QED BY <1>1, <1>2

\* What a card may say, it may say again.
LEMMA NotRefusedAgain ==
    ASSUME DocumentAssumption, NEW l0, NEW c, NEW l, Rewritten(l0, c, l), l0.card \in Typed,
           NEW segments, ~CardRefused(l0, segments)
    PROVE  ~CardRefused(l, segments)
<1>1. /\ l.card = l0.card /\ l \in Lines
      /\ \A i \in 1 .. 12 : Value(l, i) = IF i \in Kept(l0) THEN KeptValue(l0, i) ELSE 0
  BY RewrittenValues
<1>2. WrittenOf(c, l) /\ l0 \in Lines /\ c.card = l.card
  BY <1>1 DEF Rewritten, WrittenOf
<1>15. ASSUME l.card \in {"GC", "GE", "GA", "GH", "GN", "EX"}
       PROVE  \A i \in 1 .. 12 : Value(l, i) = IF i \in Kept(l0) THEN Value(l0, i) ELSE 0
  <2>1. l0.card \notin {"GW", "GM", "GX", "RP", "TL"} \cup NearCards
    BY <1>1, <1>15 DEF NearCards
  <2> QED BY <2>1, SameValues
<1>16. IntOf(l0, 2) \in Int /\ IntOf(l0, 4) \in Int
  <2>1. \A i \in 1 .. 12 : IntOf(l0, i) \in Int
    BY <1>2, LineValues
  <2> QED BY <2>1
<1>3. CASE l.card = "GC"
  <2>1. Value(l, 4) = Value(l0, 4) /\ Value(l, 5) = Value(l0, 5)
    <3>1. Kept(l0) = 3 .. 5
      BY <1>1, <1>3 DEF Kept, Comments
    <3> QED BY <1>3, <1>15, <3>1
  <2> QED BY <1>1, <1>3, <2>1 DEF CardRefused, GcRefused
<1>4. CASE l.card = "GE"
  <2>1. Value(l, 1) = Value(l0, 1)
    <3>1. Kept(l0) = {1}
      BY <1>1, <1>4 DEF Kept, Comments
    <3> QED BY <1>4, <1>15, <3>1
  <2> QED BY <1>1, <1>4, <2>1 DEF CardRefused, GeRefused, IntOf
<1>5. CASE l.card = "GX"
  <2>1. KeptValue(l0, 2) = Whole * Planes(IntOf(l0, 2)) /\ 2 \in Kept(l0)
    BY <1>1, <1>5 DEF KeptValue, SaturatingFields, NearCards, Kept, Comments
  <2>2. Planes(IntOf(l0, 2)) \in Nat /\ Planes(IntOf(l0, 2)) <= 999
    BY <1>16, FlagsAre
  <2>3. Value(l, 2) = Whole * Planes(IntOf(l0, 2))
    BY <1>1, <2>1
  <2>4. IntOf(l, 2) \in 0 .. 999
    BY <2>2, <2>3 DEF IntOf, Whole
  <2> QED BY <1>5, <2>4 DEF CardRefused, GxRefused
<1>6. CASE l.card = "GA"
  <2>1. Value(l, 2) = Value(l0, 2) /\ Value(l, 4) = Value(l0, 4) /\ Value(l, 5) = Value(l0, 5)
    <3>1. Kept(l0) = 1 .. 6
      BY <1>1, <1>6 DEF Kept, Comments
    <3> QED BY <1>6, <1>15, <3>1
  <2> QED BY <1>1, <1>6, <2>1 DEF CardRefused, GaRefused, IntOf
<1>7. CASE l.card = "GH"
  <2>1. /\ Value(l, 4) = Value(l0, 4) /\ Value(l, 5) = Value(l0, 5) /\ Value(l, 6) = Value(l0, 6)
        /\ Value(l, 7) = Value(l0, 7) /\ Value(l, 8) = Value(l0, 8)
    <3>1. Kept(l0) = 1 .. 9
      BY <1>1, <1>7 DEF Kept, Comments
    <3> QED BY <1>7, <1>15, <3>1
  <2> QED BY <1>1, <1>7, <2>1 DEF CardRefused, GhRefused
<1>8. CASE l.card = "GR"
  <2>1. Value(l, 3) = 0
    <3>1. Kept(l0) = 1 .. 2
      BY <1>1, <1>8 DEF Kept, Comments
    <3> QED BY <1>1, <3>1
  <2> QED BY <1>8, <2>1 DEF CardRefused, GrRefused
<1>9. CASE l.card = "GN"
  <2>1. Value(l, 1) = Value(l0, 1) /\ Value(l, 2) = Value(l0, 2)
    <3>1. 1 \in Kept(l0) /\ 2 \in Kept(l0)
      BY <1>1, <1>9 DEF Kept, Comments
    <3> QED BY <1>9, <1>15, <3>1
  <2> QED BY <1>1, <1>9, <2>1 DEF CardRefused, GnRefused, Finite, IntOf
<1>10. CASE l.card = "EX"
  <2>1. Value(l, 1) = Value(l0, 1) /\ Value(l, 4) = Value(l0, 4) /\ Value(l, 7) = Value(l0, 7)
    <3>1. Kept(l0) = 1 .. 10
      BY <1>1, <1>10 DEF Kept, Comments
    <3> QED BY <1>10, <1>15, <3>1
  <2> QED BY <1>1, <1>10, <2>1 DEF CardRefused, ExRefused, IntOf
<1>11. CASE l.card = "FR"
  <2>1. Fixed(l.card) = 6 /\ Fields(l.card) = 6
    BY <1>11 DEF Fixed, Fields
  <2>2. Len(l.f) = 6
    BY <1>2, <2>1 DEF WrittenOf
  <2> QED BY <1>11, <2>2 DEF CardRefused, FrRefused
<1>12. CASE l.card = "RP"
  <2>1. /\ 1 \in Kept(l0) /\ 4 \in Kept(l0) /\ KeptValue(l0, 1) = Value(l0, 1)
        /\ KeptValue(l0, 4) = Whole * Xnda(IntOf(l0, 4))
    BY <1>1, <1>12 DEF Kept, Comments, KeptValue, SaturatingFields, NearCards
  <2>2. IntOf(l, 1) = IntOf(l0, 1)
    BY <1>1, <2>1 DEF IntOf
  <2>3. Fixed(l.card) = 8 /\ Fields(l.card) = 8
    BY <1>12 DEF Fixed, Fields
  <2>4. Len(l.f) = 8 /\ l.f[4] = WrittenField(c.card, 4, Held(c, 4)) /\ Value(l, 4) = Held(c, 4)
    BY <1>2, <2>3 DEF WrittenOf
  <2>5. IsWhole(Held(c, 4)) /\ Held(c, 4) \in Int
    <3>1. Xnda(IntOf(l0, 4)) \in Nat
      BY <1>16, FlagsSettle
    <3>2. Held(c, 4) = Whole * Xnda(IntOf(l0, 4))
      BY <1>1, <2>1, <2>4
    <3> QED BY <3>1, <3>2 DEF IsWhole, Whole
  <2>6. IsPlain(l, 4)
    BY <1>2, <1>12, <2>4, <2>5, FieldWritten DEF IsPlain
  <2> QED BY <1>1, <1>12, <2>2, <2>6 DEF CardRefused, RpRefused
<1>13. CASE l.card = "TL"
  <2>1. Fixed(l.card) = 12 /\ Fields(l.card) = 12
    BY <1>13 DEF Fixed, Fields
  <2>2. Len(l.f) = 12 /\ l.f[5] = WrittenField(c.card, 5, Held(c, 5)) /\ Value(l, 5) = Held(c, 5)
    BY <1>2, <2>1 DEF WrittenOf
  <2>3. Held(c, 5) \in Int
    BY <1>1, <2>2, LineValues
  <2>4. ~IsPlain(l, 5)
    BY <1>2, <1>13, <2>2, <2>3, FieldWritten DEF IsPlain
  <2> QED BY <1>13, <2>4 DEF CardRefused, TlRefused
<1>14. CASE l.card \notin {"GC", "GE", "GX", "GA", "GH", "GR", "GN", "EX", "FR", "RP", "TL"}
  BY <1>14 DEF CardRefused
<1> QED BY <1>3, <1>4, <1>5, <1>6, <1>7, <1>8, <1>9, <1>10, <1>11, <1>12, <1>13, <1>14
-----------------------------------------------------------------------------
(* A text as a chain of its lines' readers                                 *)

Upto(w, n, g) == g[0] = Start /\ \A k \in 1 .. n : g[k] = ReadLine(g[k - 1], w[k])
Chain(w, g) == Upto(w, Len(w), g)
Ended(r) == IF r.status = "reading" THEN Finish(r) ELSE r

\* One link more
LEMMA OneLinkMore ==
    ASSUME NEW w, NEW n \in Nat, NEW g, Upto(w, n, g)
    PROVE  \E h : /\ Upto(w, n + 1, h) /\ \A k \in 0 .. n : h[k] = g[k]
                  /\ h[n + 1] = ReadLine(g[n], w[n + 1])
<1> DEFINE h == [k \in 0 .. (n + 1) |-> IF k <= n THEN g[k] ELSE ReadLine(g[n], w[n + 1])]
<1>1. \A k \in 0 .. n : h[k] = g[k]
  OBVIOUS
<1>2. h[n + 1] = ReadLine(g[n], w[n + 1])
  OBVIOUS
<1> HIDE DEF h
<1>3. h[0] = Start
  BY <1>1 DEF Upto
<1>4. ASSUME NEW k \in 1 .. (n + 1)
      PROVE  h[k] = ReadLine(h[k - 1], w[k])
  <2>1. CASE k \in 1 .. n
    <3>1. k \in 0 .. n /\ k - 1 \in 0 .. n
      BY <2>1
    <3>2. g[k] = ReadLine(g[k - 1], w[k])
      BY <2>1 DEF Upto
    <3> QED BY <1>1, <3>1, <3>2
  <2>2. CASE k = n + 1
    <3>1. k - 1 = n /\ h[n] = g[n]
      BY <1>1, <2>2
    <3> QED BY <1>2, <2>2, <3>1
  <2> QED BY <1>4, <2>1, <2>2
<1> QED BY <1>1, <1>2, <1>3, <1>4 DEF Upto

LEMMA ChainExists ==
    ASSUME NEW w, Len(w) \in Nat
    PROVE  \E g : Chain(w, g)
<1> DEFINE S == {m \in Nat : ~\E g : Upto(w, m, g)}
<1>1. SUFFICES S = {}
  BY DEF Chain
<1>2. SUFFICES ASSUME S # {}
               PROVE  FALSE
  OBVIOUS
<1> DEFINE m == Min(S)
<1>3. m \in S /\ \A k \in S : m <= k
  <2>1. S \subseteq Nat
    OBVIOUS
  <2> HIDE DEF S
  <2> QED BY <1>2, <2>1, LeastOf
<1> HIDE DEF m
<1>4. m \in Nat /\ ~\E g : Upto(w, m, g)
  BY <1>3
<1>5. m # 0
  <2>1. Upto(w, 0, [k \in {0} |-> Start])
    BY DEF Upto
  <2> QED BY <1>4, <2>1
<1>6. m - 1 \in Nat
  BY <1>4, <1>5
<1>7. PICK g : Upto(w, m - 1, g)
  <2>1. m - 1 \notin S
    <3> HIDE DEF S
    <3> QED BY <1>3, <1>4
  <2> QED BY <1>6, <2>1
<1>8. \E h : Upto(w, (m - 1) + 1, h)
  BY <1>6, <1>7, OneLinkMore
<1>9. (m - 1) + 1 = m
  BY <1>4
<1> QED BY <1>4, <1>8, <1>9

\* What is read of a text is what any chain of it ends with.
LEMMA ParseOfChain ==
    ASSUME NEW w, Len(w) \in Nat, NEW g, Chain(w, g)
    PROVE  Parse(w) = Ended(g[Len(w)])
<1> DEFINE n == Len(w)
           E(f) == f = [k \in 0 .. n |-> IF k = 0 THEN Start ELSE ReadLine(f[k - 1], w[k])]
           h == [k \in 0 .. n |-> g[k]]
           read == CHOOSE f : E(f)
<1>1. E(h)
  <2>1. ASSUME NEW k \in 0 .. n
        PROVE  h[k] = IF k = 0 THEN Start ELSE ReadLine(h[k - 1], w[k])
    <3>1. CASE k = 0
      BY <3>1 DEF Chain, Upto
    <3>2. CASE k # 0
      <4>1. k \in 1 .. n /\ k - 1 \in 0 .. n
        BY <3>2
      <4>2. g[k] = ReadLine(g[k - 1], w[k])
        BY <4>1 DEF Chain, Upto
      <4>3. h[k] = g[k] /\ h[k - 1] = g[k - 1]
        BY <4>1
      <4> QED BY <3>2, <4>2, <4>3
    <3> QED BY <3>1, <3>2
  <2>2. h = [k \in 0 .. n |-> h[k]]
    OBVIOUS
  <2> HIDE DEF h, n
  <2> QED BY <2>1, <2>2, Zenon
<1>2. E(read)
  <2> HIDE DEF h, E
  <2> QED BY <1>1
<1> HIDE DEF read
<1>3. read[0] = Start /\ \A k \in 1 .. n : read[k] = ReadLine(read[k - 1], w[k])
  <2>1. \A k \in 0 .. n : read[k] = IF k = 0 THEN Start ELSE ReadLine(read[k - 1], w[k])
    <3> DEFINE H(k) == IF k = 0 THEN Start ELSE ReadLine(read[k - 1], w[k])
    <3>1. read = [k \in 0 .. n |-> H(k)]
      BY <1>2
    <3> HIDE DEF H, E, n
    <3>2. \A k \in 0 .. n : read[k] = H(k)
      BY <3>1
    <3> QED BY <3>2 DEF H
  <2>2. 0 \in 0 .. n /\ \A k \in 1 .. n : k \in 0 .. n /\ k # 0
    OBVIOUS
  <2> HIDE DEF n, E
  <2> QED BY <2>1, <2>2
<1>4. read[n] = g[n]
  <2> DEFINE S == {k \in 0 .. n : read[k] # g[k]}
  <2>1. SUFFICES S = {}
    OBVIOUS
  <2>2. SUFFICES ASSUME S # {}
                 PROVE  FALSE
    OBVIOUS
  <2> DEFINE m == Min(S)
  <2>3. m \in S /\ \A k \in S : m <= k
    <3>1. S \subseteq Nat
      OBVIOUS
    <3> HIDE DEF S
    <3> QED BY <2>2, <3>1, LeastOf
  <2> HIDE DEF m, E
  <2>4. m \in 0 .. n /\ read[m] # g[m]
    BY <2>3
  <2>5. m # 0
    BY <1>3, <2>4 DEF Chain, Upto
  <2>6. m \in 1 .. n /\ m - 1 \in 0 .. n
    BY <2>4, <2>5
  <2>7. read[m - 1] = g[m - 1]
    <3>1. m - 1 \notin S
      <4> HIDE DEF S
      <4> QED BY <2>3, <2>6
    <3> QED BY <2>6, <3>1
  <2>8. read[m] = ReadLine(read[m - 1], w[m])
    BY <1>3, <2>6
  <2>9. g[m] = ReadLine(g[m - 1], w[m])
    BY <2>6 DEF Chain, Upto
  <2> QED BY <2>4, <2>7, <2>8, <2>9
<1>5. Parse(w) = IF read[n].status = "reading" THEN Finish(read[n]) ELSE read[n]
  BY Zenon DEF Parse, read, E, n
<1> QED BY <1>4, <1>5 DEF Ended
-----------------------------------------------------------------------------
(* What one line adds to a reader                                          *)

Alike(x, r) == /\ x.cards = r.cards /\ x.taper = r.taper /\ (x.ge # 0 <=> r.ge # 0)
               /\ (x.plane <=> r.plane) /\ x.gn = r.gn

Adds(r, l, x) ==
    /\ x.cards = Append(r.cards, Card(l))
    /\ x.taper = (IF l.card = "GW" /\ Value(l, 9) = 0 THEN KeptValue(l, 2) \div Whole
                  ELSE IF l.card = "GC" THEN NoTaper ELSE r.taper)
    /\ x.ge # 0 <=> l.card = "GE" \/ r.ge # 0
    /\ x.plane <=> (r.plane \/ (l.card = "GE" /\ IntOf(l, 1) = 1))
    /\ x.gn = (IF l.card = "GN" THEN IntOf(l, 1) ELSE r.gn)
    /\ x.status = (IF l.card = "EN" THEN "parsed" ELSE "reading")

\* A line that may be taken of a reader
Fits(r, l) == /\ Accepted(l) /\ (l.card \in Typed => ~CardRefused(l, r.taper))
              /\ r.taper # NoTaper <=> l.card = "GC"
              /\ r.ge # 0 => l.card \notin GeometryCards
              /\ l.card = "EN" => ~(r.plane /\ r.gn = -1)

IsReader(r) == r \in Reader /\ Len(r.cards) = Len(r.at)

LEMMA LineOutcome ==
    ASSUME DocumentAssumption, NEW r, IsReader(r), r.status = "reading", NEW l \in Lines,
           NEW x, x = ReadLine(r, l)
    PROVE  /\ IsReader(x)
           /\ \/ x.status = "refused" /\ RefusedFor(r, l, x.why)
              \/ x.status = "reading" /\ l.card \notin Known /\ Alike(x, r)
              \/ Fits(r, l) /\ Adds(r, l, x)
<1> SUFFICES ASSUME NEW s, s = Next1(r), NEW m, m = Noted(s, l), NEW y, y = Take(m, l)
             PROVE  /\ IsReader(x)
                    /\ \/ x.status = "refused" /\ RefusedFor(r, l, x.why)
                       \/ x.status = "reading" /\ l.card \notin Known /\ Alike(x, r)
                       \/ Fits(r, l) /\ Adds(r, l, x)
  OBVIOUS
<1>1. Outcome(r, l, s, m, x)
  BY Outcomes DEF IsReader
<1>2. IsReader(x)
  BY <1>1 DEF Outcome, IsReader
<1>3. /\ s \in Reader /\ s.n = r.n + 1 /\ s.cards = r.cards /\ s.ge = r.ge /\ s.taper = r.taper
      /\ s.plane = r.plane /\ s.gn = r.gn /\ s.status = "reading" /\ r.n \in Nat
  <2>1. r.n \in Nat /\ r \in Reader
    BY DEF Reader, IsReader
  <2>2. r.n + 1 \in Nat
    BY <2>1
  <2>3. s = [r EXCEPT !.n = r.n + 1]
    BY DEF Next1
  <2> QED BY <2>1, <2>2, <2>3 DEF Reader
<1>4. /\ m \in Reader /\ m.n = r.n + 1 /\ m.cards = r.cards /\ m.ge = r.ge /\ m.taper = r.taper
      /\ m.plane = r.plane /\ m.gn = r.gn /\ m.status = "reading"
  BY <1>3, NotedForm DEF NotedFrom
<1>5. CASE l.card \in {"", "'"} /\ x = s
  <2>1. l.card \notin Known
    BY <1>5 DEF Known, Typed, Comments, GeometryCards, PositionalCards, NearCards
  <2>2. Alike(x, r)
    BY <1>3, <1>5 DEF Alike
  <2> QED BY <1>2, <1>3, <1>5, <2>1, <2>2
<1>6. CASE l.card \in IgnoredCards /\ x = Ignored(m)
  <2>1. l.card \notin Known
    BY <1>6 DEF Known, Typed, Comments, GeometryCards, PositionalCards, NearCards, IgnoredCards
  <2>2. /\ x.cards = m.cards /\ x.taper = m.taper /\ x.ge = m.ge /\ x.plane = m.plane
        /\ x.gn = m.gn /\ x.status = m.status
    BY <1>4, <1>6 DEF Ignored, Reader
  <2>3. Alike(x, r)
    BY <1>4, <2>2 DEF Alike
  <2> QED BY <1>2, <1>4, <2>1, <2>2, <2>3
<1>7. CASE /\ Accepted(l) /\ (l.card \in Typed => ~CardRefused(l, r.taper))
           /\ r.taper # NoTaper <=> l.card = "GC"
           /\ r.ge # 0 => l.card \notin GeometryCards
           /\ \/ l.card # "EN" /\ x = y
              \/ /\ l.card = "EN" /\ ~(r.plane /\ r.gn = -1)
                 /\ x = [y EXCEPT !.status = "parsed"]
  <2>1. Fits(r, l)
    BY <1>7 DEF Fits
  <2>2. y \in Reader /\ TakenFrom(m, l, y)
    BY <1>4, TakeForm
  <2>3. /\ x.cards = y.cards /\ x.taper = y.taper /\ x.ge = y.ge /\ x.plane = y.plane
        /\ x.gn = y.gn /\ x.status = (IF l.card = "EN" THEN "parsed" ELSE y.status)
    BY <1>7, <2>2 DEF Reader
  <2>4. x.plane <=> (r.plane \/ (l.card = "GE" /\ IntOf(l, 1) = 1))
    BY <1>4, <2>2, <2>3 DEF TakenFrom
  <2>5. x.ge # 0 <=> l.card = "GE" \/ r.ge # 0
    BY <1>3, <1>4, <2>2, <2>3 DEF TakenFrom
  <2>6. /\ x.cards = Append(r.cards, Card(l))
        /\ x.taper = (IF l.card = "GW" /\ Value(l, 9) = 0 THEN KeptValue(l, 2) \div Whole
                      ELSE IF l.card = "GC" THEN NoTaper ELSE r.taper)
        /\ x.gn = (IF l.card = "GN" THEN IntOf(l, 1) ELSE r.gn)
        /\ x.status = (IF l.card = "EN" THEN "parsed" ELSE "reading")
    BY <1>4, <2>2, <2>3 DEF TakenFrom
  <2>7. Adds(r, l, x)
    BY <2>4, <2>5, <2>6 DEF Adds
  <2> QED BY <1>2, <2>1, <2>7
<1> QED BY <1>1, <1>2, <1>5, <1>6, <1>7 DEF Outcome
-----------------------------------------------------------------------------
(* A deck that was read, written and read again                            *)

LEMMA CardTwice ==
    ASSUME DocumentAssumption, NEW l \in Lines, Accepted(l), NEW c, c = Card(l),
           NEW l1, l1 = WriteCard(c)
    PROVE  /\ Rewritten(l, c, l1) /\ l1 \in Lines /\ Card(l1) = c
           /\ l1.card = (IF l.card = "CE" THEN "CM" ELSE l.card)
<1>1. Regular(c) /\ SaysItsMedium(c)
  BY CardIsRegular
<1>2. WrittenOf(c, l1)
  BY <1>1, WrittenValues
<1>3. Card(l1) = c
  BY <1>1, <1>2, ReadsAsWritten
<1> QED BY <1>2, <1>3 DEF Rewritten, WrittenOf, Card

\* A line's own words for the parser, as they are written.
LEMMA WordsTwice ==
    ASSUME DocumentAssumption, NEW l \in Lines, Accepted(l), NEW c, c = Card(l),
           NEW l1, l1 = WriteCard(c)
    PROVE  /\ l.card = "GW" => /\ Value(l1, 9) = Value(l, 9)
                               /\ KeptValue(l1, 2) = KeptValue(l, 2)
           /\ l.card \in {"GE", "GN"} => IntOf(l1, 1) = IntOf(l, 1)
<1>1. Rewritten(l, c, l1) /\ Regular(c) /\ WrittenOf(c, l1)
  BY CardTwice, CardIsRegular DEF Rewritten
<1>2. c.f = [i \in Kept(l) |-> KeptValue(l, i)]
  BY DEF Card
<1>3. ASSUME l.card = "GW"
      PROVE  Value(l1, 9) = Value(l, 9) /\ KeptValue(l1, 2) = KeptValue(l, 2)
  <2>1. Kept(l) = 1 .. 9 /\ KeptValue(l, 9) = Value(l, 9)
    BY <1>3 DEF Kept, Comments, KeptValue, SaturatingFields, NearCards
  <2>2. 2 \in DOMAIN c.f /\ 9 \in DOMAIN c.f /\ c.f[9] = Value(l, 9) /\ c.f[2] = KeptValue(l, 2)
    BY <1>2, <2>1
  <2>3. Value(l1, 9) = c.f[9] /\ KeptValue(l1, 2) = c.f[2]
    BY <1>1, <2>2, SettledIsKept
  <2> QED BY <2>2, <2>3
<1>4. ASSUME l.card \in {"GE", "GN"}
      PROVE  IntOf(l1, 1) = IntOf(l, 1)
  <2>1. KeptValue(l, 1) = Value(l, 1)
    BY <1>4, PlainlyKept DEF NearCards
  <2>2. 1 \in Kept(l)
    <3>1. CASE l.card = "GE"
      BY <3>1 DEF Kept, Comments
    <3>2. CASE l.card = "GN"
      BY <3>2 DEF Kept, Comments
    <3> QED BY <1>4, <3>1, <3>2
  <2>3. 1 \in DOMAIN c.f /\ c.f[1] = Value(l, 1)
    BY <1>2, <2>1, <2>2
  <2>4. Value(l1, 1) = c.f[1]
    BY <1>1, <2>3, SettledIsKept
  <2> QED BY <2>3, <2>4 DEF IntOf
<1> QED BY <1>3, <1>4

\* A line that fits fits again, and adds the same.
LEMMA FitsAgain ==
    ASSUME DocumentAssumption, NEW l \in Lines, NEW r, Fits(r, l), NEW l1, l1 = WriteCard(Card(l)),
           NEW y, Alike(y, r)
    PROVE  Fits(y, l1)
<1> SUFFICES ASSUME NEW c, c = Card(l)
             PROVE  Fits(y, l1)
  OBVIOUS
<1>1. /\ Accepted(l) /\ (l.card \in Typed => ~CardRefused(l, r.taper))
      /\ r.taper # NoTaper <=> l.card = "GC"
      /\ r.ge # 0 => l.card \notin GeometryCards
      /\ l.card = "EN" => ~(r.plane /\ r.gn = -1)
  BY DEF Fits
<1>2. Rewritten(l, c, l1) /\ l1.card = (IF l.card = "CE" THEN "CM" ELSE l.card)
  BY <1>1, CardTwice
<1>3. y.taper = r.taper /\ (y.ge # 0 <=> r.ge # 0) /\ (y.plane <=> r.plane) /\ y.gn = r.gn
  BY DEF Alike
<1>4. CASE l.card \in Typed
  <2>1. l1.card = l.card
    BY <1>2, <1>4 DEF Typed, GeometryCards, PositionalCards, NearCards
  <2>2. ~BadField(l1) /\ ~CardRefused(l1, y.taper)
    <3>1. ~BadField(l1)
      BY <1>2, <1>4, NoFieldBad
    <3>2. ~CardRefused(l1, r.taper)
      BY <1>1, <1>2, <1>4, NotRefusedAgain
    <3> QED BY <1>3, <3>1, <3>2
  <2>3. Accepted(l1)
    BY <1>1, <2>1, <2>2 DEF Accepted
  <2>4. l.card # "EN"
    BY <1>4 DEF Typed, GeometryCards, PositionalCards, NearCards
  <2> QED BY <1>1, <1>3, <2>1, <2>2, <2>3, <2>4 DEF Fits
<1>5. CASE l.card \notin Typed
  <2>1. l1.card \in {"CM", "EN"} /\ (l1.card = "EN" => l.card = "EN") /\ l.card # "GC"
    BY <1>1, <1>2, <1>5 DEF Accepted, Known, Comments, Typed, GeometryCards
  <2>2. l1.card \notin Typed /\ l1.card \notin GeometryCards /\ l1.card # "GC"
    BY <2>1 DEF Typed, GeometryCards, PositionalCards, NearCards
  <2>3. Accepted(l1)
    BY <2>1, <2>2 DEF Accepted, Known, Comments
  <2> QED BY <1>1, <1>3, <2>1, <2>2, <2>3 DEF Fits
<1> QED BY <1>4, <1>5

LEMMA AddsAgain ==
    ASSUME DocumentAssumption, NEW l \in Lines, Accepted(l), NEW l1, l1 = WriteCard(Card(l)),
           NEW r, NEW x, Adds(r, l, x), NEW y, Alike(y, r), NEW z, Adds(y, l1, z)
    PROVE  Alike(z, x) /\ z.status = x.status
<1> SUFFICES ASSUME NEW c, c = Card(l)
             PROVE  Alike(z, x) /\ z.status = x.status
  OBVIOUS
<1>1. Card(l1) = c /\ l1.card = (IF l.card = "CE" THEN "CM" ELSE l.card)
  BY CardTwice
<1>2. /\ l.card = "GW" => Value(l1, 9) = Value(l, 9) /\ KeptValue(l1, 2) = KeptValue(l, 2)
      /\ l.card \in {"GE", "GN"} => IntOf(l1, 1) = IntOf(l, 1)
  BY WordsTwice
<1>3. /\ y.cards = r.cards /\ y.taper = r.taper /\ (y.ge # 0 <=> r.ge # 0)
      /\ (y.plane <=> r.plane) /\ y.gn = r.gn
  BY DEF Alike
<1>4. /\ l1.card = "GW" <=> l.card = "GW"
      /\ l1.card = "GC" <=> l.card = "GC"
      /\ l1.card = "GE" <=> l.card = "GE"
      /\ l1.card = "GN" <=> l.card = "GN"
      /\ l1.card = "EN" <=> l.card = "EN"
  BY <1>1
<1>5. z.cards = x.cards /\ z.status = x.status
  BY <1>1, <1>3, <1>4 DEF Adds
<1>6. z.taper = x.taper
  BY <1>2, <1>3, <1>4 DEF Adds
<1>7. z.ge # 0 <=> x.ge # 0
  BY <1>3, <1>4 DEF Adds
<1>8. z.plane <=> x.plane
  BY <1>2, <1>3, <1>4 DEF Adds
<1>9. z.gn = x.gn
  BY <1>2, <1>3, <1>4 DEF Adds
<1> QED BY <1>5, <1>6, <1>7, <1>8, <1>9 DEF Alike

\* A line that fits is not refused.
LEMMA FittingIsTaken ==
    ASSUME DocumentAssumption, NEW y, IsReader(y), y.status = "reading", NEW l \in Lines,
           Fits(y, l)
    PROVE  IsReader(ReadLine(y, l)) /\ Adds(y, l, ReadLine(y, l))
<1> SUFFICES ASSUME NEW z, z = ReadLine(y, l)
             PROVE  IsReader(z) /\ Adds(y, l, z)
  OBVIOUS
<1>1. /\ IsReader(z)
      /\ \/ z.status = "refused" /\ RefusedFor(y, l, z.why)
         \/ z.status = "reading" /\ l.card \notin Known /\ Alike(z, y)
         \/ Fits(y, l) /\ Adds(y, l, z)
  BY LineOutcome
<1>2. l.card \in Known /\ (l.card \in Typed => ~BadField(l))
  BY DEF Fits, Accepted
<1>3. ~RefusedFor(y, l, z.why)
  BY <1>2 DEF RefusedFor, Fits
<1> QED BY <1>1, <1>2, <1>3

\* What was read, written and read again, is read as it was.
ReadsLike(y, r) == IsReader(y) /\ y.status = "reading" /\ Alike(y, r)
ReadAgain(r) ==
    /\ r.status = "reading" =>
          \E g : Chain(WriteDeck(r.cards), g) /\ ReadsLike(g[Len(r.cards)], r)
    /\ r.status = "parsed" => /\ Parse(WriteDeck(r.cards)).status = "parsed"
                              /\ Parse(WriteDeck(r.cards)).cards = r.cards

LEMMA DeckWritten ==
    ASSUME NEW S, NEW cs \in Seq(S), NEW w, w = WriteDeck(cs)
    PROVE  /\ Len(w) = Len(cs) /\ Len(w) \in Nat
           /\ \A k \in 1 .. Len(cs) : w[k] = WriteCard(cs[k])
<1> DEFINE n == Len(cs)
<1>1. DOMAIN cs = 1 .. n /\ n \in Nat
  OBVIOUS
<1>2. w = [k \in 1 .. n |-> WriteCard(cs[k])]
  BY <1>1 DEF WriteDeck
<1> HIDE DEF n
<1>3. Len(w) = n
  BY <1>1, <1>2
<1> QED BY <1>1, <1>2, <1>3 DEF n

LEMMA LineAgain ==
    ASSUME DocumentAssumption, NEW r, IsReader(r), r.status = "reading", ReadAgain(r),
           NEW l \in Lines
    PROVE  IsReader(ReadLine(r, l)) /\ ReadAgain(ReadLine(r, l))
<1> SUFFICES ASSUME NEW x, x = ReadLine(r, l)
             PROVE  IsReader(x) /\ ReadAgain(x)
  OBVIOUS
<1>1. /\ IsReader(x)
      /\ \/ x.status = "refused" /\ RefusedFor(r, l, x.why)
         \/ x.status = "reading" /\ l.card \notin Known /\ Alike(x, r)
         \/ Fits(r, l) /\ Adds(r, l, x)
  BY LineOutcome
<1>2. PICK g : Chain(WriteDeck(r.cards), g) /\ ReadsLike(g[Len(r.cards)], r)
  BY DEF ReadAgain
<1>3. CASE x.status = "refused"
  BY <1>1, <1>3 DEF ReadAgain
<1>4. CASE x.status = "reading" /\ Alike(x, r)
  <2>1. /\ x.cards = r.cards /\ x.taper = r.taper /\ (x.ge # 0 <=> r.ge # 0)
        /\ (x.plane <=> r.plane) /\ x.gn = r.gn
    BY <1>4 DEF Alike
  <2>2. ReadsLike(g[Len(r.cards)], x)
    BY <1>2, <2>1 DEF ReadsLike, Alike
  <2>3. Chain(WriteDeck(x.cards), g) /\ ReadsLike(g[Len(x.cards)], x)
    BY <1>2, <2>1, <2>2
  <2> QED BY <1>1, <1>4, <2>3 DEF ReadAgain
<1>5. CASE Fits(r, l) /\ Adds(r, l, x)
  <2> DEFINE n == Len(r.cards)
             c == Card(l)
             l1 == WriteCard(c)
             w == WriteDeck(r.cards)
             u == WriteDeck(x.cards)
  <2>1. r.cards \in Seq(Cards) /\ c \in Cards /\ n \in Nat
    <3>1. c \in Cards
      BY DEF Cards
    <3>2. r.cards \in Seq(Cards)
      BY DEF IsReader, Reader
    <3> QED BY <3>1, <3>2
  <2>2. /\ x.cards = Append(r.cards, c) /\ x.cards \in Seq(Cards) /\ Len(x.cards) = n + 1
        /\ x.cards[n + 1] = c /\ \A k \in 1 .. n : x.cards[k] = r.cards[k]
    <3>1. x.cards = Append(r.cards, c)
      BY <1>5 DEF Adds
    <3> HIDE DEF c
    <3> QED BY <2>1, <3>1, AppendProperties
  <2> HIDE DEF c
  <2>3. Len(w) = n /\ \A k \in 1 .. n : w[k] = WriteCard(r.cards[k])
    BY <2>1, DeckWritten
  <2>4. Len(u) = n + 1 /\ \A k \in 1 .. (n + 1) : u[k] = WriteCard(x.cards[k])
    <3>1. Len(u) = Len(x.cards) /\ \A k \in 1 .. Len(x.cards) : u[k] = WriteCard(x.cards[k])
      BY <2>2, DeckWritten
    <3> QED BY <2>2, <3>1
  <2> HIDE DEF w, u, n
  <2>5. u[n + 1] = l1 /\ \A k \in 1 .. n : u[k] = w[k]
    <3>1. n + 1 \in 1 .. (n + 1) /\ \A k \in 1 .. n : k \in 1 .. (n + 1)
      BY <2>1
    <3> QED BY <2>2, <2>3, <2>4, <3>1
  <2>6. Upto(u, n, g)
    <3>1. Upto(w, n, g)
      BY <1>2, <2>3 DEF Chain, w
    <3> QED BY <2>5, <3>1 DEF Upto
  <2>7. PICK h : Upto(u, n + 1, h) /\ h[n + 1] = ReadLine(g[n], u[n + 1])
    BY <2>1, <2>6, OneLinkMore
  <2>8. Chain(u, h)
    BY <2>4, <2>7 DEF Chain
  <2> DEFINE y == g[n]
             z == ReadLine(y, l1)
  <2>9. IsReader(y) /\ y.status = "reading" /\ Alike(y, r)
    BY <1>2 DEF ReadsLike, n
  <2>10. Accepted(l) /\ l1 \in Lines
    <3>1. Accepted(l)
      BY <1>5 DEF Fits
    <3> QED BY <3>1, CardTwice DEF c
  <2>11. Fits(y, l1)
    BY <1>5, <2>9, FitsAgain DEF c
  <2> HIDE DEF y, l1
  <2>12. IsReader(z) /\ Adds(y, l1, z)
    BY <2>9, <2>10, <2>11, FittingIsTaken
  <2> HIDE DEF z
  <2>13. Alike(z, x) /\ z.status = x.status
    BY <1>5, <2>9, <2>10, <2>12, AddsAgain DEF l1, c
  <2>14. h[n + 1] = z
    BY <2>5, <2>7 DEF z, y
  <2>15. CASE x.status = "reading"
    <3>1. ReadsLike(h[Len(x.cards)], x)
      BY <2>2, <2>12, <2>13, <2>14, <2>15 DEF ReadsLike
    <3>2. Chain(WriteDeck(x.cards), h)
      BY <2>8 DEF u
    <3> QED BY <1>1, <2>15, <3>1, <3>2 DEF ReadAgain
  <2>16. CASE x.status = "parsed"
    <3>1. Parse(u) = Ended(h[Len(u)])
      BY <2>1, <2>4, <2>8, ParseOfChain
    <3>2. Parse(u) = z
      BY <2>4, <2>13, <2>14, <2>16, <3>1 DEF Ended
    <3>3. Parse(WriteDeck(x.cards)).status = "parsed" /\ Parse(WriteDeck(x.cards)).cards = x.cards
      BY <2>13, <2>16, <3>2 DEF u, Alike
    <3> QED BY <1>1, <2>16, <3>3 DEF ReadAgain
  <2>17. x.status \in {"reading", "parsed"}
    BY <1>5 DEF Adds
  <2> QED BY <2>15, <2>16, <2>17
<1> QED BY <1>1, <1>3, <1>4, <1>5

LEMMA EndAgain ==
    ASSUME NEW r, IsReader(r), r.status = "reading", ReadAgain(r)
    PROVE  IsReader(Finish(r)) /\ ReadAgain(Finish(r))
<1> SUFFICES ASSUME NEW x, x = Finish(r)
             PROVE  IsReader(x) /\ ReadAgain(x)
  OBVIOUS
<1>1. /\ x \in Reader /\ x.cards = r.cards /\ x.at = r.at
      /\ \/ x.status = "refused"
         \/ r.taper = NoTaper /\ ~(r.plane /\ r.gn = -1) /\ x.status = "parsed"
  <2>1. r \in Reader
    BY DEF IsReader
  <2>2. [r EXCEPT !.status = "parsed"].status = "parsed"
    BY <2>1 DEF Reader
  <2> QED BY <2>1, <2>2, FinishForm
<1>2. IsReader(x)
  BY <1>1 DEF IsReader
<1>3. PICK g : Chain(WriteDeck(r.cards), g) /\ ReadsLike(g[Len(r.cards)], r)
  BY DEF ReadAgain
<1> DEFINE y == g[Len(r.cards)]
<1>4. /\ y \in Reader /\ y.status = "reading" /\ y.cards = r.cards /\ y.taper = r.taper
      /\ (y.plane <=> r.plane) /\ y.gn = r.gn
  BY <1>3 DEF ReadsLike, Alike, IsReader
<1>5. Parse(WriteDeck(r.cards)) = Finish(y)
  <2>1. Len(WriteDeck(r.cards)) = Len(r.cards) /\ Len(r.cards) \in Nat
    BY DeckWritten DEF IsReader, Reader
  <2>2. Parse(WriteDeck(r.cards)) = Ended(y)
    BY <1>3, <2>1, ParseOfChain
  <2> QED BY <1>4, <2>2 DEF Ended
<1> HIDE DEF y
<1>6. CASE r.taper = NoTaper /\ ~(r.plane /\ r.gn = -1) /\ x.status = "parsed"
  <2>1. Finish(y).status = "parsed" /\ Finish(y).cards = r.cards
    <3>1. [y EXCEPT !.status = "parsed"].status = "parsed"
      BY <1>4 DEF Reader
    <3> QED BY <1>4, <1>6, <3>1, FinishForm
  <2> QED BY <1>1, <1>2, <1>5, <1>6, <2>1 DEF ReadAgain
<1> QED BY <1>1, <1>2, <1>6 DEF ReadAgain
-----------------------------------------------------------------------------
(* Decks in their order                                                    *)

GeometryFirst(cs) ==
    \A k, j \in DOMAIN cs : k < j /\ cs[k].card = "GE" => cs[j].card \notin GeometryCards
EnLast(cs) == \A k \in DOMAIN cs : cs[k].card = "EN" => k = Len(cs)
Orderly(cs) == TaperPairing(cs) /\ GeometryFirst(cs) /\ EnLast(cs)

\* A text of cs, of which k lines are read.
After(cs, k, r) ==
    /\ IsReader(r)
    /\ \/ r.status = "refused" /\ r.why \in {"field", "ground"}
       \/ r.status = "parsed" /\ k = Len(cs) /\ r.cards = cs
       \/ /\ r.status = "reading" /\ Len(r.cards) = k /\ \A j \in 1 .. k : r.cards[j] = cs[j]
          /\ r.taper # NoTaper <=> (k > 0 /\ ZeroRadius(cs[k]))
          /\ r.ge # 0 => \E j \in 1 .. k : cs[j].card = "GE"

TextOf(w, cs) == /\ w \in Seq(Lines) /\ cs \in Seq(Cards) /\ Len(w) = Len(cs)
                 /\ \A k \in 1 .. Len(cs) : w[k].card \in Known /\ cs[k] = Card(w[k])

\* A line's card and the parser's words for it
LEMMA CardSays ==
    ASSUME DocumentAssumption, NEW l \in Lines, NEW c, c = Card(l)
    PROVE  /\ c.card = (IF l.card = "CE" THEN "CM" ELSE l.card)
           /\ ZeroRadius(c) <=> l.card = "GW" /\ Value(l, 9) = 0
           /\ l.card = "GW" => KeptValue(l, 2) \div Whole # NoTaper
<1>1. c.card = (IF l.card = "CE" THEN "CM" ELSE l.card)
  BY DEF Card
<1>2. c.card = "GW" <=> l.card = "GW"
  BY <1>1
<1>3. ASSUME l.card = "GW"
      PROVE  c.f[9] = Value(l, 9) /\ KeptValue(l, 2) = AtLeast(0, Value(l, 2))
  <2>1. Kept(l) = 1 .. 9
    BY <1>3 DEF Kept, Comments
  <2>2. KeptValue(l, 9) = Value(l, 9) /\ KeptValue(l, 2) = AtLeast(0, Value(l, 2))
    BY <1>3 DEF KeptValue, SaturatingFields, NearCards
  <2>3. c.f = [i \in Kept(l) |-> KeptValue(l, i)]
    BY DEF Card
  <2> QED BY <2>1, <2>2, <2>3
<1>4. ASSUME l.card = "GW"
      PROVE  KeptValue(l, 2) \div Whole # NoTaper
  <2>1. Value(l, 2) \in Int
    BY LineValues
  <2>2. KeptValue(l, 2) >= 0 /\ KeptValue(l, 2) \in Int
    BY <1>3, <1>4, <2>1 DEF AtLeast
  <2> QED BY <2>2 DEF Whole, NoTaper
<1> QED BY <1>1, <1>2, <1>3, <1>4 DEF ZeroRadius

LEMMA AfterLine ==
    ASSUME DocumentAssumption, NEW w, NEW cs, TextOf(w, cs), Orderly(cs),
           NEW k \in Nat, k + 1 <= Len(cs), NEW r, After(cs, k, r)
    PROVE  After(cs, k + 1, ReadLine(r, w[k + 1]))
<1> SUFFICES ASSUME NEW l, l = w[k + 1], NEW c, c = cs[k + 1], NEW x, x = ReadLine(r, l)
             PROVE  After(cs, k + 1, x)
  OBVIOUS
<1>1. /\ k + 1 \in 1 .. Len(cs) /\ DOMAIN cs = 1 .. Len(cs) /\ cs \in Seq(Cards)
      /\ l \in Lines /\ l.card \in Known /\ c = Card(l)
  <2>1. k + 1 \in 1 .. Len(cs) /\ DOMAIN cs = 1 .. Len(cs)
    BY DEF TextOf
  <2>2. w \in Seq(Lines) /\ Len(w) = Len(cs) /\ w[k + 1] \in Lines
    BY <2>1 DEF TextOf
  <2> QED BY <2>1, <2>2 DEF TextOf
<1>2. CASE r.status # "reading"
  <2>1. x = r
    <3>1. [r EXCEPT !.n = @ + 1].status # "reading"
      BY <1>2 DEF After, IsReader, Reader
    <3> QED BY <3>1 DEF ReadLine
  <2>2. r.status = "refused"
    <3>1. Len(cs) \in Nat
      BY <1>1
    <3>2. k # Len(cs)
      BY <3>1
    <3> QED BY <1>2, <3>2 DEF After
  <2> QED BY <2>1, <2>2 DEF After
<1>3. CASE r.status = "reading"
  <2>1. /\ IsReader(r) /\ Len(r.cards) = k /\ \A j \in 1 .. k : r.cards[j] = cs[j]
        /\ r.taper # NoTaper <=> (k > 0 /\ ZeroRadius(cs[k]))
        /\ r.ge # 0 => \E j \in 1 .. k : cs[j].card = "GE"
    BY <1>3 DEF After
  <2>2. /\ IsReader(x)
        /\ \/ x.status = "refused" /\ RefusedFor(r, l, x.why)
           \/ x.status = "reading" /\ l.card \notin Known /\ Alike(x, r)
           \/ Fits(r, l) /\ Adds(r, l, x)
    BY <1>1, <1>3, <2>1, LineOutcome
  <2>3. /\ c.card = (IF l.card = "CE" THEN "CM" ELSE l.card)
        /\ ZeroRadius(c) <=> l.card = "GW" /\ Value(l, 9) = 0
        /\ l.card = "GW" => KeptValue(l, 2) \div Whole # NoTaper
    BY <1>1, CardSays
  <2>4. r.taper # NoTaper <=> l.card = "GC"
    <3>1. ASSUME k > 0, ZeroRadius(cs[k])
          PROVE  c.card = "GC"
      <4>1. k \in DOMAIN cs
        BY <1>1, <3>1
      <4>2. TaperOf(cs, k)
        BY <3>1, <4>1 DEF Orderly, TaperPairing, ZeroRadius
      <4> QED BY <4>2 DEF TaperOf
    <3>2. ASSUME c.card = "GC"
          PROVE  k > 0 /\ ZeroRadius(cs[k])
      <4>1. TaperOf(cs, (k + 1) - 1)
        BY <1>1, <3>2 DEF Orderly, TaperPairing
      <4>2. (k + 1) - 1 = k
        OBVIOUS
      <4> QED BY <1>1, <4>1, <4>2 DEF TaperOf, ZeroRadius
    <3> QED BY <2>1, <2>3, <3>1, <3>2
  <2>5. r.ge # 0 => l.card \notin GeometryCards
    <3>1. ASSUME NEW j \in 1 .. k, cs[j].card = "GE"
          PROVE  c.card \notin GeometryCards
      <4>1. j \in DOMAIN cs /\ k + 1 \in DOMAIN cs /\ j < k + 1
        BY <1>1
      <4> QED BY <3>1, <4>1 DEF Orderly, GeometryFirst
    <3> QED BY <2>1, <2>3, <3>1 DEF GeometryCards
  <2>6. CASE x.status = "refused" /\ RefusedFor(r, l, x.why)
    <3>1. x.why \in {"field", "ground"}
      BY <1>1, <2>4, <2>5, <2>6 DEF RefusedFor
    <3> QED BY <2>2, <2>6, <3>1 DEF After
  <2>7. CASE Fits(r, l) /\ Adds(r, l, x)
    <3>1. /\ x.cards = Append(r.cards, c) /\ r.cards \in Seq(Cards) /\ c \in Cards
      <4>1. x.cards = Append(r.cards, c)
        BY <1>1, <2>7 DEF Adds
      <4>2. r.cards \in Seq(Cards)
        BY <2>1 DEF IsReader, Reader
      <4>3. c \in Cards
        BY <1>1 DEF Cards
      <4> QED BY <4>1, <4>2, <4>3
    <3>2. /\ Len(x.cards) = k + 1 /\ x.cards \in Seq(Cards)
          /\ \A j \in 1 .. (k + 1) : x.cards[j] = cs[j]
      <4>1. /\ Len(x.cards) = k + 1 /\ x.cards \in Seq(Cards) /\ x.cards[k + 1] = c
            /\ \A j \in 1 .. k : x.cards[j] = r.cards[j]
        BY <2>1, <3>1, AppendProperties
      <4>2. \A j \in 1 .. (k + 1) : j \in 1 .. k \/ j = k + 1
        OBVIOUS
      <4> QED BY <2>1, <4>1, <4>2
    <3>3. x.taper # NoTaper <=> ZeroRadius(c)
      <4>1. x.taper = (IF l.card = "GW" /\ Value(l, 9) = 0 THEN KeptValue(l, 2) \div Whole
                       ELSE IF l.card = "GC" THEN NoTaper ELSE r.taper)
        BY <2>7 DEF Adds
      <4> QED BY <2>3, <2>4, <4>1
    <3>4. x.ge # 0 => \E j \in 1 .. (k + 1) : cs[j].card = "GE"
      <4>1. x.ge # 0 <=> l.card = "GE" \/ r.ge # 0
        BY <2>7 DEF Adds
      <4>2. k + 1 \in 1 .. (k + 1) /\ \A j \in 1 .. k : j \in 1 .. (k + 1)
        OBVIOUS
      <4> QED BY <2>1, <2>3, <4>1, <4>2
    <3>5. CASE l.card # "EN"
      <4>1. x.status = "reading"
        BY <2>7, <3>5 DEF Adds
      <4>2. k + 1 > 0
        OBVIOUS
      <4> QED BY <2>2, <3>2, <3>3, <3>4, <4>1, <4>2 DEF After
    <3>6. CASE l.card = "EN"
      <4>1. x.status = "parsed"
        BY <2>7, <3>6 DEF Adds
      <4>2. k + 1 = Len(cs)
        BY <1>1, <2>3, <3>6 DEF Orderly, EnLast
      <4>3. x.cards = cs
        BY <1>1, <3>2, <4>2
      <4> QED BY <2>2, <4>1, <4>2, <4>3 DEF After
    <3> QED BY <3>5, <3>6
  <2> QED BY <1>1, <2>2, <2>6, <2>7
<1> QED BY <1>2, <1>3

\* A text of an orderly deck is read as the deck, or refused for a field or for its ground.
LEMMA ReadInOrder ==
    ASSUME DocumentAssumption, NEW w, NEW cs, TextOf(w, cs), Orderly(cs)
    PROVE  /\ Parse(w).status = "refused" => Parse(w).why \in {"field", "ground"}
           /\ Parse(w).status = "parsed" => Parse(w).cards = cs
<1> DEFINE n == Len(cs)
<1>1. n \in Nat /\ Len(w) = n /\ DOMAIN cs = 1 .. n /\ cs \in Seq(Cards)
  BY DEF TextOf
<1>2. PICK g : Chain(w, g)
  BY <1>1, ChainExists
<1>3. After(cs, 0, g[0])
  <2>1. g[0] = Start
    BY <1>2 DEF Chain, Upto
  <2>2. /\ Start.cards = <<>> /\ Start.at = <<>> /\ Start.status = "reading"
        /\ Start.taper = NoTaper /\ Start.ge = 0
    BY DEF Start
  <2> QED BY <2>1, <2>2, StartForm DEF After, IsReader
<1> HIDE DEF n
<1>4. After(cs, n, g[n])
  <2> DEFINE S == {k \in 0 .. n : ~After(cs, k, g[k])}
             m == Min(S)
  <2>1. SUFFICES ASSUME S # {}
                 PROVE  FALSE
    BY <1>1
  <2>2. m \in S /\ \A k \in S : m <= k
    <3>1. S \subseteq Nat
      OBVIOUS
    <3> HIDE DEF S
    <3> QED BY <2>1, <3>1, LeastOf
  <2> HIDE DEF m
  <2>3. m \in 0 .. n /\ ~After(cs, m, g[m])
    BY <2>2
  <2>4. m # 0
    BY <1>3, <2>3
  <2> DEFINE k == m - 1
  <2>5. k \in Nat /\ k \in 0 .. n /\ k + 1 = m /\ k + 1 <= n /\ k < m
    BY <1>1, <2>3, <2>4
  <2> HIDE DEF k
  <2>6. After(cs, k, g[k])
    <3>1. k \notin S
      <4> HIDE DEF S
      <4> QED BY <2>2, <2>3, <2>5
    <3> QED BY <2>5, <3>1
  <2>7. g[m] = ReadLine(g[k], w[k + 1])
    <3>1. m \in 1 .. n /\ m - 1 = k
      BY <2>3, <2>4, <2>5
    <3> QED BY <1>1, <1>2, <2>5, <3>1 DEF Chain, Upto
  <2>8. After(cs, k + 1, ReadLine(g[k], w[k + 1]))
    <3>1. k + 1 <= Len(cs)
      BY <2>5 DEF n
    <3> QED BY <2>5, <2>6, <3>1, AfterLine
  <2> QED BY <2>3, <2>5, <2>7, <2>8
<1> DEFINE r == g[n]
           p == Parse(w)
<1>5. p = Ended(r)
  BY <1>1, <1>2, ParseOfChain
<1> HIDE DEF r, p
<1>6. After(cs, n, r)
  BY <1>4 DEF r
<1>7. CASE r.status # "reading"
  <2>1. p = r
    BY <1>5, <1>7 DEF Ended
  <2> QED BY <1>6, <1>7, <2>1 DEF After, p
<1>8. CASE r.status = "reading"
  <2>1. /\ IsReader(r) /\ Len(r.cards) = n /\ \A j \in 1 .. n : r.cards[j] = cs[j]
        /\ r.taper # NoTaper <=> (n > 0 /\ ZeroRadius(cs[n]))
    BY <1>6, <1>8 DEF After
  <2>2. r.taper = NoTaper
    <3>1. ASSUME n > 0, ZeroRadius(cs[n])
          PROVE  FALSE
      <4>1. n \in DOMAIN cs /\ n + 1 \notin DOMAIN cs
        BY <1>1, <3>1
      <4>2. TaperOf(cs, n)
        BY <3>1, <4>1 DEF Orderly, TaperPairing, ZeroRadius
      <4> QED BY <4>1, <4>2 DEF TaperOf
    <3> QED BY <2>1, <3>1
  <2>3. r.cards = cs
    <3>1. r.cards \in Seq(Cards)
      BY <2>1 DEF IsReader, Reader
    <3> QED BY <1>1, <2>1, <3>1
  <2>4. p = Finish(r)
    BY <1>5, <1>8 DEF Ended
  <2>5. /\ p.cards = r.cards
        /\ p.status = "refused" => p.why = "ground"
    <3>1. r \in Reader
      BY <2>1 DEF IsReader
    <3>2. [r EXCEPT !.status = "parsed"].status = "parsed"
      BY <3>1 DEF Reader
    <3> QED BY <2>2, <2>4, <3>1, <3>2, FinishForm
  <2> QED BY <2>3, <2>5 DEF p
<1> QED BY <1>7, <1>8
-----------------------------------------------------------------------------
(* What keeps a deck in its order                                          *)

List(s) == Len(s) \in Nat /\ DOMAIN s = 1 .. Len(s)

Paired(cs) ==
    \A k \in 1 .. Len(cs) :
        /\ ZeroRadius(cs[k]) => k + 1 \in 1 .. Len(cs) /\ cs[k + 1].card = "GC"
        /\ cs[k].card = "GC" => k - 1 \in 1 .. Len(cs) /\ ZeroRadius(cs[k - 1])

LEMMA PairingForm ==
    ASSUME NEW cs, List(cs)
    PROVE  TaperPairing(cs) <=> Paired(cs)
<1>1. \A k \in 1 .. Len(cs) :
         TaperOf(cs, k) <=> (ZeroRadius(cs[k]) /\ k + 1 \in 1 .. Len(cs) /\ cs[k + 1].card = "GC")
  BY DEF List, TaperOf, ZeroRadius
<1>2. ASSUME NEW k \in 1 .. Len(cs)
      PROVE  TaperOf(cs, k - 1) <=> (k - 1 \in 1 .. Len(cs) /\ ZeroRadius(cs[k - 1])
                                     /\ cs[k].card = "GC")
  <2>1. (k - 1) + 1 = k /\ k \in DOMAIN cs /\ DOMAIN cs = 1 .. Len(cs)
    BY DEF List
  <2> QED BY <2>1 DEF TaperOf, ZeroRadius
<1>3. TaperPairing(cs) <=>
         \A k \in 1 .. Len(cs) : /\ ZeroRadius(cs[k]) => TaperOf(cs, k)
                                 /\ cs[k].card = "GC" => TaperOf(cs, k - 1)
  BY DEF TaperPairing, ZeroRadius, List
<1> QED BY <1>1, <1>2, <1>3 DEF Paired

\* The same cards to the order
LEMMA OrderKept ==
    ASSUME NEW s, List(s), Orderly(s), NEW u, List(u), Len(u) = Len(s),
           \A k \in 1 .. Len(s) : u[k].card = s[k].card /\ (ZeroRadius(u[k]) <=> ZeroRadius(s[k]))
    PROVE  Orderly(u)
<1>1. Paired(s) /\ GeometryFirst(s) /\ EnLast(s)
  BY PairingForm DEF Orderly
<1>2. Paired(u)
  BY <1>1 DEF Paired, List
<1>3. GeometryFirst(u) /\ EnLast(u)
  BY <1>1 DEF GeometryFirst, EnLast, List
<1> QED BY <1>2, <1>3, PairingForm DEF Orderly

\* u is the deck s and then the deck t.
OneBehind(u, s, t) ==
    /\ List(u) /\ Len(u) = Len(s) + Len(t)
    /\ \A k \in 1 .. Len(s) : u[k] = s[k]
    /\ \A k \in 1 .. Len(t) : u[Len(s) + k] = t[k]

\* Nothing of the geometry behind the GE of s, and nothing at all behind its EN.
MayFollow(s, t) ==
    /\ \A k \in 1 .. Len(s), j \in 1 .. Len(t) : s[k].card = "GE" => t[j].card \notin GeometryCards
    /\ \A k \in 1 .. Len(s) : s[k].card = "EN" => Len(t) = 0

\* One deck behind another
LEMMA OrderJoined ==
    ASSUME NEW s, List(s), Orderly(s), NEW t, List(t), Orderly(t),
           NEW u, OneBehind(u, s, t), MayFollow(s, t)
    PROVE  Orderly(u)
<1> DEFINE n == Len(s)
           m == Len(t)
<1>1. /\ n \in Nat /\ m \in Nat /\ Len(u) = n + m
      /\ DOMAIN s = 1 .. n /\ DOMAIN t = 1 .. m /\ DOMAIN u = 1 .. (n + m)
  BY DEF List, OneBehind
<1>2. Paired(s) /\ Paired(t) /\ GeometryFirst(s) /\ GeometryFirst(t) /\ EnLast(s) /\ EnLast(t)
  BY PairingForm DEF Orderly
<1>3. /\ \A k \in 1 .. n : u[k] = s[k]
      /\ \A k \in 1 .. m : u[n + k] = t[k]
  BY DEF OneBehind
<1> HIDE DEF n, m
<1>4. \A k \in 1 .. (n + m) : k \in 1 .. n \/ (k - n \in 1 .. m /\ u[k] = t[k - n])
  <2> TAKE k \in 1 .. (n + m)
  <2>1. SUFFICES ASSUME k \notin 1 .. n
                 PROVE  k - n \in 1 .. m /\ u[k] = t[k - n]
    OBVIOUS
  <2>2. k - n \in 1 .. m /\ n + (k - n) = k
    BY <1>1, <2>1
  <2> QED BY <1>3, <2>2
<1>5. ASSUME NEW k \in 1 .. (n + m)
      PROVE  /\ ZeroRadius(u[k]) => k + 1 \in 1 .. (n + m) /\ u[k + 1].card = "GC"
             /\ u[k].card = "GC" => k - 1 \in 1 .. (n + m) /\ ZeroRadius(u[k - 1])
  <2>1. CASE k \in 1 .. n
    <3>1. /\ ZeroRadius(s[k]) => k + 1 \in 1 .. n /\ s[k + 1].card = "GC"
          /\ s[k].card = "GC" => k - 1 \in 1 .. n /\ ZeroRadius(s[k - 1])
      BY <1>2, <2>1 DEF Paired, n
    <3>2. u[k] = s[k] /\ (k + 1 \in 1 .. n => u[k + 1] = s[k + 1])
          /\ (k - 1 \in 1 .. n => u[k - 1] = s[k - 1])
      BY <1>3, <2>1
    <3>3. 1 .. n \subseteq 1 .. (n + m)
      BY <1>1
    <3> QED BY <3>1, <3>2, <3>3
  <2>2. CASE k - n \in 1 .. m /\ u[k] = t[k - n]
    <3> DEFINE j == k - n
    <3>1. /\ ZeroRadius(t[j]) => j + 1 \in 1 .. m /\ t[j + 1].card = "GC"
          /\ t[j].card = "GC" => j - 1 \in 1 .. m /\ ZeroRadius(t[j - 1])
      BY <1>2, <2>2 DEF Paired, m
    <3>2. /\ j + 1 \in 1 .. m => u[n + (j + 1)] = t[j + 1]
          /\ j - 1 \in 1 .. m => u[n + (j - 1)] = t[j - 1]
      BY <1>3
    <3>3. /\ n + (j + 1) = k + 1 /\ n + (j - 1) = k - 1
          /\ j + 1 \in 1 .. m => k + 1 \in 1 .. (n + m)
          /\ j - 1 \in 1 .. m => k - 1 \in 1 .. (n + m)
      BY <1>1
    <3> QED BY <2>2, <3>1, <3>2, <3>3
  <2> QED BY <1>4, <2>1, <2>2
<1>6. Paired(u)
  BY <1>1, <1>5 DEF Paired
<1>7. GeometryFirst(u)
  <2> SUFFICES ASSUME NEW k \in 1 .. (n + m), NEW j \in 1 .. (n + m), k < j, u[k].card = "GE"
               PROVE  u[j].card \notin GeometryCards
    BY <1>1 DEF GeometryFirst
  <2>1. CASE k \in 1 .. n /\ j \in 1 .. n
    BY <1>1, <1>2, <1>3, <2>1 DEF GeometryFirst
  <2>2. CASE k \in 1 .. n /\ j - n \in 1 .. m /\ u[j] = t[j - n]
    <3>1. s[k].card = "GE"
      BY <1>3, <2>2
    <3> QED BY <2>2, <3>1 DEF MayFollow, m, n
  <2>3. CASE k - n \in 1 .. m /\ u[k] = t[k - n] /\ j - n \in 1 .. m /\ u[j] = t[j - n]
    <3>1. k - n < j - n
      BY <1>1
    <3> QED BY <1>1, <1>2, <2>3, <3>1 DEF GeometryFirst
  <2>4. ~(k \notin 1 .. n /\ j \in 1 .. n)
    BY <1>1
  <2> QED BY <1>4, <2>1, <2>2, <2>3, <2>4
<1>8. EnLast(u)
  <2> SUFFICES ASSUME NEW k \in 1 .. (n + m), u[k].card = "EN"
               PROVE  k = n + m
    BY <1>1 DEF EnLast
  <2>1. CASE k \in 1 .. n
    <3>1. s[k].card = "EN"
      BY <1>3, <2>1
    <3>2. m = 0
      BY <2>1, <3>1 DEF MayFollow, m, n
    <3>3. EnLast(s) /\ DOMAIN s = 1 .. n
      BY <1>1, <1>2
    <3>4. k = n
      BY <2>1, <3>1, <3>3 DEF EnLast, n
    <3> QED BY <1>1, <3>2, <3>4
  <2>2. CASE k - n \in 1 .. m /\ u[k] = t[k - n]
    <3>1. EnLast(t) /\ DOMAIN t = 1 .. m /\ t[k - n].card = "EN"
      BY <1>1, <1>2, <2>2
    <3>2. k - n = m
      BY <2>2, <3>1 DEF EnLast, m
    <3> QED BY <1>1, <3>2
  <2> QED BY <1>4, <2>1, <2>2
<1>9. List(u)
  BY DEF OneBehind
<1> QED BY <1>6, <1>7, <1>8, <1>9, PairingForm DEF Orderly

\* A part of a deck, that does not begin with the GC of a wire before it nor end before one
LEMMA OrderPart ==
    ASSUME NEW s, List(s), Orderly(s), NEW o \in Nat, NEW u, List(u), o + Len(u) <= Len(s),
           \A k \in 1 .. Len(u) : u[k] = s[o + k],
           o + Len(u) < Len(s) => s[o + Len(u) + 1].card # "GC",
           Len(u) > 0 => s[o + 1].card # "GC"
    PROVE  Orderly(u)
<1> DEFINE n == Len(s)
           m == Len(u)
<1>1. /\ n \in Nat /\ m \in Nat /\ o + m <= n /\ DOMAIN s = 1 .. n /\ DOMAIN u = 1 .. m
      /\ \A k \in 1 .. m : o + k \in 1 .. n
  BY DEF List
<1>2. Paired(s) /\ GeometryFirst(s) /\ EnLast(s)
  BY PairingForm DEF Orderly
<1>3. \A k \in 1 .. m : u[k] = s[o + k]
  OBVIOUS
<1>4. /\ o + m < n => s[o + m + 1].card # "GC"
      /\ m > 0 => s[o + 1].card # "GC"
  OBVIOUS
<1> HIDE DEF n, m
<1>5. ASSUME NEW k \in 1 .. m
      PROVE  /\ ZeroRadius(u[k]) => k + 1 \in 1 .. m /\ u[k + 1].card = "GC"
             /\ u[k].card = "GC" => k - 1 \in 1 .. m /\ ZeroRadius(u[k - 1])
  <2> DEFINE j == o + k
  <2>1. j \in 1 .. n /\ u[k] = s[j]
    BY <1>1, <1>3
  <2>2. /\ ZeroRadius(s[j]) => j + 1 \in 1 .. n /\ s[j + 1].card = "GC"
        /\ s[j].card = "GC" => j - 1 \in 1 .. n /\ ZeroRadius(s[j - 1])
    BY <1>2, <2>1 DEF Paired, n
  <2>3. ASSUME ZeroRadius(u[k])
        PROVE  k + 1 \in 1 .. m /\ u[k + 1].card = "GC"
    <3>1. j + 1 \in 1 .. n /\ s[j + 1].card = "GC"
      BY <2>1, <2>2, <2>3
    <3>2. k # m
      <4>1. k = m => j + 1 = o + m + 1 /\ o + m < n
        BY <1>1, <3>1
      <4> QED BY <1>4, <3>1, <4>1
    <3>3. k + 1 \in 1 .. m /\ o + (k + 1) = j + 1
      BY <1>1, <3>2
    <3> QED BY <1>3, <3>1, <3>3
  <2>4. ASSUME u[k].card = "GC"
        PROVE  k - 1 \in 1 .. m /\ ZeroRadius(u[k - 1])
    <3>1. ZeroRadius(s[j - 1])
      BY <2>1, <2>2, <2>4
    <3>2. k # 1
      <4>1. k = 1 => j = o + 1 /\ m > 0
        BY <1>1
      <4> HIDE DEF j
      <4> QED BY <1>4, <2>1, <2>4, <4>1
    <3>3. k - 1 \in 1 .. m /\ o + (k - 1) = j - 1
      BY <1>1, <3>2
    <3> QED BY <1>3, <3>1, <3>3
  <2> QED BY <2>3, <2>4
<1>6. Paired(u)
  BY <1>5 DEF Paired, m
<1>7. GeometryFirst(u)
  <2> SUFFICES ASSUME NEW k \in 1 .. m, NEW j \in 1 .. m, k < j, u[k].card = "GE"
               PROVE  u[j].card \notin GeometryCards
    BY <1>1 DEF GeometryFirst
  <2>1. /\ o + k \in DOMAIN s /\ o + j \in DOMAIN s /\ o + k < o + j
        /\ u[k] = s[o + k] /\ u[j] = s[o + j]
    BY <1>1, <1>3
  <2> QED BY <1>2, <2>1 DEF GeometryFirst
<1>8. EnLast(u)
  <2> SUFFICES ASSUME NEW k \in 1 .. m, u[k].card = "EN"
               PROVE  k = m
    BY <1>1 DEF EnLast, m
  <2>1. o + k \in DOMAIN s /\ s[o + k].card = "EN"
    BY <1>1, <1>3
  <2>2. o + k = n
    BY <1>2, <2>1 DEF EnLast, n
  <2> QED BY <1>1, <2>2
<1> QED BY <1>6, <1>7, <1>8, PairingForm DEF Orderly

\* u is s with one card more, at p.
Inserted(u, s, p) ==
    /\ List(s) /\ List(u) /\ Len(u) = Len(s) + 1 /\ p \in 1 .. Len(u)
    /\ \A k \in 1 .. Len(s) : k < p => u[k] = s[k]
    /\ \A k \in 1 .. Len(s) : k >= p => u[k + 1] = s[k]

Controls == {"GN", "LD", "EX", "FR"}

LEMMA OrderInserted ==
    ASSUME NEW s, Orderly(s), NEW u, NEW p, Inserted(u, s, p), u[p].card \in Controls,
           p <= Len(s) => s[p].card # "GC",
           \A k \in 1 .. Len(s) : s[k].card = "EN" => p <= k
    PROVE  Orderly(u)
<1> DEFINE n == Len(s)
<1>1. /\ n \in Nat /\ Len(u) = n + 1 /\ DOMAIN s = 1 .. n /\ DOMAIN u = 1 .. (n + 1)
      /\ p \in 1 .. (n + 1)
  BY DEF Inserted, List
<1>2. Paired(s) /\ GeometryFirst(s) /\ EnLast(s)
  BY PairingForm DEF Orderly, Inserted
<1>3. /\ \A k \in 1 .. n : k < p => u[k] = s[k]
      /\ \A k \in 1 .. n : k >= p => u[k + 1] = s[k]
  BY DEF Inserted
<1>4. p <= n => s[p].card # "GC"
  OBVIOUS
<1>9. \A k \in 1 .. n : s[k].card = "EN" => p <= k
  OBVIOUS
<1> HIDE DEF n
<1>5. \A k \in 1 .. (n + 1) : \/ k = p
                              \/ k < p /\ k \in 1 .. n /\ u[k] = s[k]
                              \/ k > p /\ k - 1 \in 1 .. n /\ k - 1 >= p /\ u[k] = s[k - 1]
  <2> TAKE k \in 1 .. (n + 1)
  <2>1. CASE k < p
    <3>1. k \in 1 .. n
      BY <1>1, <2>1
    <3> QED BY <1>3, <2>1, <3>1
  <2>2. CASE k > p
    <3>1. k - 1 \in 1 .. n /\ k - 1 >= p /\ (k - 1) + 1 = k
      BY <1>1, <2>2
    <3>2. u[(k - 1) + 1] = s[k - 1]
      BY <1>3, <3>1
    <3> QED BY <2>2, <3>1, <3>2
  <2> QED BY <1>1, <2>1, <2>2
<1>6. Paired(u)
  <2> SUFFICES ASSUME NEW k \in 1 .. (n + 1)
               PROVE  /\ ZeroRadius(u[k]) => k + 1 \in 1 .. (n + 1) /\ u[k + 1].card = "GC"
                      /\ u[k].card = "GC" => k - 1 \in 1 .. (n + 1) /\ ZeroRadius(u[k - 1])
    BY <1>1 DEF Paired
  <2>1. CASE k = p
    BY <2>1 DEF Controls, ZeroRadius
  <2>2. CASE k < p /\ k \in 1 .. n /\ u[k] = s[k]
    <3>1. /\ ZeroRadius(s[k]) => k + 1 \in 1 .. n /\ s[k + 1].card = "GC"
          /\ s[k].card = "GC" => k - 1 \in 1 .. n /\ ZeroRadius(s[k - 1])
      BY <1>2, <2>2 DEF Paired, n
    <3>2. ASSUME ZeroRadius(s[k])
          PROVE  k + 1 \in 1 .. (n + 1) /\ u[k + 1].card = "GC"
      <4>1. k + 1 \in 1 .. n /\ s[k + 1].card = "GC"
        BY <3>1, <3>2
      <4>2. k + 1 # p
        BY <1>1, <1>4, <4>1
      <4>3. k + 1 < p
        BY <1>1, <2>2, <4>2
      <4> QED BY <1>1, <1>3, <4>1, <4>3
    <3>3. ASSUME s[k].card = "GC"
          PROVE  k - 1 \in 1 .. (n + 1) /\ ZeroRadius(u[k - 1])
      <4>1. k - 1 \in 1 .. n /\ ZeroRadius(s[k - 1])
        BY <3>1, <3>3
      <4>2. k - 1 < p
        BY <1>1, <2>2
      <4> QED BY <1>1, <1>3, <4>1, <4>2
    <3> QED BY <2>2, <3>2, <3>3
  <2>3. CASE k > p /\ k - 1 \in 1 .. n /\ k - 1 >= p /\ u[k] = s[k - 1]
    <3> DEFINE j == k - 1
    <3>1. /\ ZeroRadius(s[j]) => j + 1 \in 1 .. n /\ s[j + 1].card = "GC"
          /\ s[j].card = "GC" => j - 1 \in 1 .. n /\ ZeroRadius(s[j - 1])
      BY <1>2, <2>3 DEF Paired, n
    <3>2. ASSUME ZeroRadius(s[j])
          PROVE  k + 1 \in 1 .. (n + 1) /\ u[k + 1].card = "GC"
      <4>1. j + 1 \in 1 .. n /\ s[j + 1].card = "GC"
        BY <3>1, <3>2
      <4>2. j + 1 = k /\ k >= p /\ k \in 1 .. n
        BY <1>1, <2>3, <4>1
      <4>3. u[k + 1] = s[k]
        BY <1>3, <4>2
      <4> QED BY <1>1, <4>1, <4>2, <4>3
    <3>3. ASSUME s[j].card = "GC"
          PROVE  k - 1 \in 1 .. (n + 1) /\ ZeroRadius(u[k - 1])
      <4>1. j - 1 \in 1 .. n /\ ZeroRadius(s[j - 1])
        BY <3>1, <3>3
      <4>2. j # p
        BY <1>1, <1>4, <3>3, <2>3
      <4>3. j - 1 >= p /\ (j - 1) + 1 = k - 1
        BY <1>1, <2>3, <4>2
      <4>4. u[(j - 1) + 1] = s[j - 1]
        BY <1>3, <4>1, <4>3
      <4> QED BY <1>1, <2>3, <4>1, <4>3, <4>4
    <3> QED BY <2>3, <3>2, <3>3
  <2> QED BY <1>5, <2>1, <2>2, <2>3
<1>7. GeometryFirst(u)
  <2> SUFFICES ASSUME NEW k \in 1 .. (n + 1), NEW j \in 1 .. (n + 1), k < j, u[k].card = "GE"
               PROVE  u[j].card \notin GeometryCards
    BY <1>1 DEF GeometryFirst
  <2>1. k # p /\ (j = p => u[j].card \notin GeometryCards)
    BY DEF Controls, GeometryCards
  <2>2. ASSUME NEW a \in 1 .. n, NEW b \in 1 .. n, a < b, u[k] = s[a], u[j] = s[b]
        PROVE  u[j].card \notin GeometryCards
    BY <1>1, <1>2, <2>2 DEF GeometryFirst
  <2>3. CASE k < p /\ k \in 1 .. n /\ u[k] = s[k]
    <3>1. CASE j < p /\ j \in 1 .. n /\ u[j] = s[j]
      BY <2>2, <2>3, <3>1
    <3>2. CASE j > p /\ j - 1 \in 1 .. n /\ u[j] = s[j - 1]
      <4>1. k < j - 1
        BY <1>1, <2>3, <3>2
      <4> QED BY <2>2, <2>3, <3>2, <4>1
    <3> QED BY <1>5, <2>1, <3>1, <3>2
  <2>4. CASE k > p /\ k - 1 \in 1 .. n /\ u[k] = s[k - 1]
    <3>1. j > p /\ j - 1 \in 1 .. n /\ u[j] = s[j - 1]
      <4>1. ~(j < p) /\ j # p
        BY <1>1, <2>4
      <4> QED BY <1>5, <4>1
    <3>2. k - 1 < j - 1
      BY <1>1
    <3> QED BY <2>2, <2>4, <3>1, <3>2
  <2> QED BY <1>5, <2>1, <2>3, <2>4
<1>8. EnLast(u)
  <2> SUFFICES ASSUME NEW k \in 1 .. (n + 1), u[k].card = "EN"
               PROVE  k = n + 1
    BY <1>1 DEF EnLast
  <2>1. k # p
    BY DEF Controls
  <2>2. CASE k < p /\ k \in 1 .. n /\ u[k] = s[k]
    <3>1. p <= k
      BY <1>9, <2>2
    <3> QED BY <1>1, <2>2, <3>1
  <2>3. CASE k > p /\ k - 1 \in 1 .. n /\ u[k] = s[k - 1]
    <3>1. k - 1 = n
      BY <1>1, <1>2, <2>3 DEF EnLast, n
    <3> QED BY <1>1, <3>1
  <2> QED BY <1>5, <2>1, <2>2, <2>3
<1> QED BY <1>6, <1>7, <1>8, PairingForm DEF Orderly, Inserted

\* A card taken out, that is no part of a pair
LEMMA OrderRemoved ==
    ASSUME NEW u, Orderly(u), NEW s, NEW p, Inserted(u, s, p), u[p].card \in Controls
    PROVE  Orderly(s)
<1> DEFINE n == Len(s)
<1>1. /\ n \in Nat /\ Len(u) = n + 1 /\ DOMAIN s = 1 .. n /\ DOMAIN u = 1 .. (n + 1)
      /\ p \in 1 .. (n + 1)
  BY DEF Inserted, List
<1>2. Paired(u) /\ GeometryFirst(u) /\ EnLast(u)
  BY PairingForm DEF Orderly, Inserted
<1>3. /\ \A k \in 1 .. n : k < p => s[k] = u[k]
      /\ \A k \in 1 .. n : k >= p => s[k] = u[k + 1]
  BY DEF Inserted
<1>4. u[p].card # "GC" /\ ~ZeroRadius(u[p])
  BY DEF Controls, ZeroRadius
<1> DEFINE to(k) == IF k < p THEN k ELSE k + 1
<1>5. \A k \in 1 .. n : /\ to(k) \in 1 .. (n + 1) /\ to(k) # p /\ s[k] = u[to(k)]
                        /\ to(k) + 1 # p => k + 1 \in 1 .. n \/ to(k) = n + 1
                        /\ to(k) - 1 # p => k - 1 \in 1 .. n \/ to(k) = 1
                        /\ to(k) + 1 # p /\ k + 1 \in 1 .. n => to(k + 1) = to(k) + 1
                        /\ to(k) - 1 # p /\ k - 1 \in 1 .. n => to(k - 1) = to(k) - 1
  BY <1>1, <1>3
<1>6. \A k, j \in 1 .. n : k < j => to(k) < to(j)
  BY <1>1
<1> HIDE DEF n, to
<1>7. Paired(s)
  <2> SUFFICES ASSUME NEW k \in 1 .. n
               PROVE  /\ ZeroRadius(s[k]) => k + 1 \in 1 .. n /\ s[k + 1].card = "GC"
                      /\ s[k].card = "GC" => k - 1 \in 1 .. n /\ ZeroRadius(s[k - 1])
    BY DEF Paired, n
  <2> DEFINE j == to(k)
  <2>1. j \in 1 .. (n + 1) /\ s[k] = u[j]
    BY <1>5
  <2>2. /\ ZeroRadius(u[j]) => j + 1 \in 1 .. (n + 1) /\ u[j + 1].card = "GC"
        /\ u[j].card = "GC" => j - 1 \in 1 .. (n + 1) /\ ZeroRadius(u[j - 1])
    BY <1>1, <1>2, <2>1 DEF Paired
  <2>3. ASSUME ZeroRadius(s[k])
        PROVE  k + 1 \in 1 .. n /\ s[k + 1].card = "GC"
    <3>1. j + 1 \in 1 .. (n + 1) /\ u[j + 1].card = "GC"
      BY <2>1, <2>2, <2>3
    <3>2. j + 1 # p /\ j # n + 1
      BY <1>1, <1>4, <2>1, <3>1
    <3>3. k + 1 \in 1 .. n /\ to(k + 1) = j + 1
      BY <1>5, <3>2
    <3> QED BY <1>5, <3>1, <3>3
  <2>4. ASSUME s[k].card = "GC"
        PROVE  k - 1 \in 1 .. n /\ ZeroRadius(s[k - 1])
    <3>1. j - 1 \in 1 .. (n + 1) /\ ZeroRadius(u[j - 1])
      BY <2>1, <2>2, <2>4
    <3>2. j - 1 # p /\ j # 1
      BY <1>1, <1>4, <2>1, <3>1
    <3>3. k - 1 \in 1 .. n /\ to(k - 1) = j - 1
      BY <1>5, <3>2
    <3> QED BY <1>5, <3>1, <3>3
  <2> QED BY <2>3, <2>4
<1>8. GeometryFirst(s)
  <2> SUFFICES ASSUME NEW k \in 1 .. n, NEW j \in 1 .. n, k < j, s[k].card = "GE"
               PROVE  s[j].card \notin GeometryCards
    BY <1>1 DEF GeometryFirst
  <2>1. /\ to(k) \in DOMAIN u /\ to(j) \in DOMAIN u /\ to(k) < to(j)
        /\ s[k] = u[to(k)] /\ s[j] = u[to(j)]
    BY <1>1, <1>5, <1>6
  <2> QED BY <1>2, <2>1 DEF GeometryFirst
<1>9. EnLast(s)
  <2> SUFFICES ASSUME NEW k \in 1 .. n, s[k].card = "EN"
               PROVE  k = n
    BY <1>1 DEF EnLast, n
  <2>1. to(k) \in DOMAIN u /\ u[to(k)].card = "EN"
    BY <1>1, <1>5
  <2>2. to(k) = n + 1
    BY <1>1, <1>2, <2>1 DEF EnLast
  <2>3. k < n => to(k) < to(n) /\ to(n) \in 1 .. (n + 1)
    BY <1>1, <1>5, <1>6
  <2> QED BY <1>1, <2>2, <2>3
<1> QED BY <1>7, <1>8, <1>9, PairingForm DEF Orderly, Inserted
-----------------------------------------------------------------------------
(* A deck that is read                                                     *)

\* The deck ends with its EN, and with no wire that awaits a taper.
EndsWell(r) == /\ r.status = "reading" => \A k \in DOMAIN r.cards : r.cards[k].card # "EN"
               /\ r.status = "parsed" => r.taper = NoTaper /\ EnLast(r.cards)

LEMMA LineEndsWell ==
    ASSUME DocumentAssumption, NEW r, IsReader(r), r.status = "reading", EndsWell(r),
           NEW l \in Lines
    PROVE  EndsWell(ReadLine(r, l))
<1> SUFFICES ASSUME NEW x, x = ReadLine(r, l)
             PROVE  EndsWell(x)
  OBVIOUS
<1>1. \/ x.status = "refused"
      \/ x.status = "reading" /\ Alike(x, r)
      \/ Fits(r, l) /\ Adds(r, l, x)
  BY LineOutcome
<1>2. \A k \in DOMAIN r.cards : r.cards[k].card # "EN"
  BY DEF EndsWell
<1>3. CASE x.status = "reading" /\ Alike(x, r)
  BY <1>2, <1>3 DEF EndsWell, Alike
<1>4. CASE Fits(r, l) /\ Adds(r, l, x)
  <2> DEFINE c == Card(l)
             n == Len(r.cards)
  <2>1. x.cards = Append(r.cards, c) /\ (c.card = "EN" <=> l.card = "EN")
    BY <1>4, CardKeeps DEF Adds
  <2>2. r.cards \in Seq(Cards)
    BY DEF IsReader, Reader
  <2>3. c \in Cards
    BY DEF Cards
  <2> HIDE DEF c
  <2>4. /\ n \in Nat /\ DOMAIN r.cards = 1 .. n
        /\ Len(x.cards) = n + 1 /\ DOMAIN x.cards = 1 .. (n + 1)
        /\ x.cards[n + 1] = c /\ \A k \in 1 .. n : x.cards[k] = r.cards[k]
    BY <2>1, <2>2, <2>3
  <2> HIDE DEF n
  <2>5. CASE l.card = "EN"
    <3>1. x.status = "parsed" /\ x.taper = NoTaper
      BY <1>4, <2>5 DEF Fits, Adds
    <3>2. EnLast(x.cards)
      <4> SUFFICES ASSUME NEW k \in 1 .. (n + 1), x.cards[k].card = "EN"
                   PROVE  k = n + 1
        BY <2>4 DEF EnLast
      <4>1. k \notin 1 .. n
        BY <1>2, <2>4
      <4> QED BY <2>4, <4>1
    <3> QED BY <3>1, <3>2 DEF EndsWell
  <2>6. CASE l.card # "EN"
    <3>1. x.status = "reading"
      BY <1>4, <2>6 DEF Adds
    <3>2. ASSUME NEW k \in 1 .. (n + 1)
          PROVE  x.cards[k].card # "EN"
      <4>1. k \in 1 .. n \/ k = n + 1
        BY <2>4
      <4> QED BY <1>2, <2>1, <2>4, <2>6, <4>1
    <3> QED BY <2>4, <3>1, <3>2 DEF EndsWell
  <2> QED BY <2>5, <2>6
<1>5. CASE x.status = "refused"
  BY <1>5 DEF EndsWell
<1> QED BY <1>1, <1>3, <1>4, <1>5

LEMMA EndEndsWell ==
    ASSUME NEW r, IsReader(r), r.status = "reading", EndsWell(r)
    PROVE  EndsWell(Finish(r))
<1> SUFFICES ASSUME NEW x, x = Finish(r)
             PROVE  EndsWell(x)
  OBVIOUS
<1>1. /\ x.cards = r.cards
      /\ x.status = "refused" \/ (r.taper = NoTaper /\ x = [r EXCEPT !.status = "parsed"])
  BY FinishForm DEF IsReader
<1>2. \A k \in DOMAIN r.cards : r.cards[k].card # "EN"
  BY DEF EndsWell
<1>3. CASE x.status = "refused"
  BY <1>3 DEF EndsWell
<1>4. CASE r.taper = NoTaper /\ x = [r EXCEPT !.status = "parsed"]
  <2>1. x.taper = NoTaper /\ x.status = "parsed"
    BY <1>4 DEF IsReader, Reader
  <2> QED BY <1>1, <1>2, <2>1 DEF EndsWell, EnLast
<1> QED BY <1>1, <1>3, <1>4

\* The deck of a text that is read: its cards are in their order, and each as it is read.
LEMMA DeckThatIsRead ==
    ASSUME DocumentAssumption, TextForm, ReadFrom(text, reader), EndsWell(reader),
           reader.status = "parsed"
    PROVE  /\ reader.cards \in Seq(Cards) /\ Orderly(reader.cards)
           /\ \A k \in DOMAIN reader.cards : Regular(reader.cards[k])
<1>1. /\ text \in Seq(Lines) /\ reader.n <= Len(text) /\ reader.n \in Nat
      /\ reader.cards \in Seq(Cards) /\ reader.at \in Seq(Nat)
      /\ Len(reader.cards) = Len(reader.at)
  BY DEF TextForm, Reader
<1>2. /\ CardsOfLines(text, reader) /\ GeometryEnds(reader) /\ TaperAwaited(reader)
      /\ reader.taper = NoTaper /\ EnLast(reader.cards)
  BY DEF ReadFrom, EndsWell
<1>3. Orderly(reader.cards)
  BY <1>2 DEF Orderly, GeometryEnds, GeometryFirst, TaperAwaited
<1>4. ASSUME NEW k \in DOMAIN reader.cards
      PROVE  Regular(reader.cards[k])
  <2>1. k \in DOMAIN reader.at
    BY <1>1
  <2>2. /\ reader.at[k] \in 1 .. reader.n /\ Accepted(text[reader.at[k]])
        /\ reader.cards[k] = Card(text[reader.at[k]])
    BY <1>2, <2>1 DEF CardsOfLines
  <2>3. text[reader.at[k]] \in Lines
    BY <1>1, <2>2
  <2> QED BY <2>2, <2>3, CardIsRegular
<1> QED BY <1>1, <1>3, <1>4

\* A deck of regular cards in their order is written as a text that reads back as it.
LEMMA WrittenInOrder ==
    ASSUME DocumentAssumption, NEW S, NEW cs \in Seq(S), \A k \in DOMAIN cs : Regular(cs[k]),
           Orderly(cs), NEW back, back = Parse(WriteDeck(cs))
    PROVE  /\ back.status = "refused" => back.why \in {"field", "ground"}
           /\ back.status = "parsed" /\ (\A k \in DOMAIN cs : SaysItsMedium(cs[k]))
                  => back.cards = cs
<1> DEFINE n == Len(cs)
           w == WriteDeck(cs)
           rs == [k \in 1 .. n |-> Card(w[k])]
<1>1. n \in Nat /\ DOMAIN cs = 1 .. n /\ cs = [k \in 1 .. n |-> cs[k]]
  OBVIOUS
<1>2. Len(w) = n /\ \A k \in 1 .. n : w[k] = WriteCard(cs[k])
  BY DeckWritten
<1>3. DOMAIN w = 1 .. n /\ w = [k \in 1 .. n |-> w[k]]
  BY <1>1 DEF WriteDeck
<1> HIDE DEF w
<1>4. \A k \in 1 .. n : Regular(cs[k]) /\ WrittenOf(cs[k], w[k])
  BY <1>1, <1>2, WrittenValues
<1>5. \A k \in 1 .. n : w[k] \in Lines /\ w[k].card = cs[k].card /\ w[k].card \in Known
  BY <1>4 DEF WrittenOf, Regular
<1>6. \A k \in 1 .. n : /\ Card(w[k]).card = cs[k].card
                        /\ cs[k].card # "GN" \/ SaysItsMedium(cs[k]) => Card(w[k]) = cs[k]
  BY <1>4, ReadsAsWritten
<1> HIDE DEF n
<1>7. w \in Seq(Lines) /\ rs \in Seq(Cards) /\ Len(rs) = n /\ DOMAIN rs = 1 .. n
  <2>1. \A k \in 1 .. n : Card(w[k]) \in Cards
    BY <1>5 DEF Cards
  <2>2. w \in Seq(Lines)
    BY <1>1, <1>3, <1>5
  <2> QED BY <1>1, <2>1, <2>2
<1>8. TextOf(w, rs)
  BY <1>2, <1>5, <1>7 DEF TextOf
<1>9. Orderly(rs)
  <2>1. List(cs) /\ List(rs) /\ Len(rs) = Len(cs)
    BY <1>1, <1>7 DEF List, n
  <2>2. \A k \in 1 .. Len(cs) : rs[k].card = cs[k].card /\ (ZeroRadius(rs[k]) <=> ZeroRadius(cs[k]))
    <3> TAKE k \in 1 .. Len(cs)
    <3>1. rs[k] = Card(w[k]) /\ k \in 1 .. n
      BY DEF n
    <3>2. rs[k].card = cs[k].card /\ (cs[k].card # "GN" => rs[k] = cs[k])
      BY <1>6, <3>1
    <3> QED BY <3>2 DEF ZeroRadius
  <2> HIDE DEF rs
  <2> QED BY <2>1, <2>2, OrderKept
<1> HIDE DEF rs
<1>10. /\ back.status = "refused" => back.why \in {"field", "ground"}
       /\ back.status = "parsed" => back.cards = rs
  BY <1>8, <1>9, ReadInOrder DEF w
<1>11. ASSUME \A k \in DOMAIN cs : SaysItsMedium(cs[k])
       PROVE  rs = cs
  <2>1. \A k \in 1 .. n : Card(w[k]) = cs[k]
    BY <1>1, <1>6, <1>11
  <2> QED BY <1>1, <2>1 DEF rs
<1> QED BY <1>10, <1>11
-----------------------------------------------------------------------------
(* Entries of a document                                                   *)

\* The boxes where anything may be typed
Free(card) == {i \in Editable(card) : ~(i = 1 /\ card \in {"GN", "LD", "FR"})}

\* An entry outside the table: a card's, but for what was typed.  Only the medium of a GN
\* may be left empty.
BoxesOf(e) ==
    IF e.card = "GN" THEN {1, 2, 5, 6} \cup (IF e.f[2].v # 0 THEN {7, 8} ELSE 7 .. 10)
    ELSE Kept([card |-> e.card, f |-> <<>>])
Boxed(e) ==
    /\ DOMAIN e = {"card", "f"} /\ e.card \in Known \ {"CE"} /\ DOMAIN e.f = BoxesOf(e)
    /\ \A i \in DOMAIN e.f :
          /\ e.f[i].v \in Int
          /\ i \notin Free(e.card) =>
                /\ Settled(e.card, i, e.f[i].v)
                /\ e.f[i].as = "none" => e.card = "GN" /\ i \in {5, 6}

\* One of the table
Row(e) == /\ DOMAIN e = {"card", "f"} /\ e.card = "GW" /\ DOMAIN e.f = 1 .. 9
          /\ \A i \in 1 .. 9 : e.f[i].v \in Int

LEMMA PlainPlaces ==
    ASSUME NEW card, NEW c, c.card = card
    PROVE  /\ card = "GW" => Kept(c) = 1 .. 9
           /\ card = "EX" => Kept(c) = 1 .. 10
           /\ card = "LD" => Kept(c) = 1 .. 7
           /\ card = "FR" => Kept(c) = {1, 2, 5, 6}
BY DEF Kept, Comments

\* What is asked of the fields of a control
LEMMA ControlSettled ==
    ASSUME NEW card \in Controls, NEW i, NEW v \in Int
    PROVE  Settled(card, i, v)
BY DEF Settled, Controls, SaturatingFields, NearCards

\* A card's entry holds it.
LEMMA EntryHolds ==
    ASSUME NEW c, Regular(c), NEW e, e = Entry(c)
    PROVE  /\ ToCard(e) = c /\ Boxed(e) /\ (IsRow(c) => Row(e))
<1>1. /\ c = [card |-> c.card, f |-> [i \in DOMAIN c.f |-> c.f[i]]]
      /\ c.card \in Known \ {"CE"} /\ DOMAIN c.f = Places(c)
      /\ \A i \in DOMAIN c.f : Settled(c.card, i, c.f[i]) /\ c.f[i] \in Int
  BY DEF Regular, Settled
<1>2. /\ DOMAIN e = {"card", "f"} /\ e.card = c.card /\ DOMAIN e.f = Boxes(c)
      /\ \A i \in Boxes(c) : e.f[i] = IF i \in DOMAIN c.f THEN Shown(c.f[i]) ELSE Empty
  BY DEF Entry
<1>3. /\ \A i \in DOMAIN c.f : /\ i \in Boxes(c) /\ e.f[i].v = c.f[i]
                               /\ e.f[i].as # "none"
      /\ \A i \in Boxes(c) \ DOMAIN c.f : /\ e.f[i].v = 0 /\ e.f[i].as = "none"
                                          /\ c.card = "GN" /\ i \in {5, 6}
  <2>1. DOMAIN c.f \subseteq Boxes(c)
    BY DEF Boxes
  <2>2. \A i \in Boxes(c) \ DOMAIN c.f : c.card = "GN" /\ i \in {5, 6}
    BY DEF Boxes
  <2>3. \A v : Shown(v).v = v /\ Shown(v).as # "none"
    BY DEF Shown
  <2>4. Empty.v = 0 /\ Empty.as = "none"
    BY DEF Empty
  <2> QED BY <1>2, <2>1, <2>2, <2>3, <2>4
<1>4. ToCard(e) = c
  <2>1. {i \in DOMAIN e.f : e.f[i].as # "none"} = DOMAIN c.f
    BY <1>2, <1>3
  <2>2. ToCard(e) = [card |-> c.card, f |-> [i \in DOMAIN c.f |-> e.f[i].v]]
    BY <1>2, <2>1 DEF ToCard
  <2>3. [i \in DOMAIN c.f |-> e.f[i].v] = [i \in DOMAIN c.f |-> c.f[i]]
    BY <1>3
  <2> QED BY <1>1, <2>2, <2>3
<1>5. DOMAIN e.f = BoxesOf(e)
  <2>1. CASE c.card = "GN"
    <3>1. 2 \in DOMAIN c.f
      BY <1>1, <2>1 DEF Places
    <3>2. e.f[2].v = c.f[2]
      BY <1>3, <3>1
    <3>3. DOMAIN e.f = Places(c) \cup {5, 6}
      BY <1>1, <1>2, <2>1 DEF Boxes
    <3> QED BY <1>2, <2>1, <3>2, <3>3 DEF Places, BoxesOf
  <2>2. CASE c.card # "GN"
    <3>1. DOMAIN e.f = Places(c)
      BY <1>1, <1>2, <2>2 DEF Boxes
    <3> QED BY <1>2, <2>2, <3>1 DEF Places, BoxesOf
  <2> QED BY <2>1, <2>2
<1>6. ASSUME NEW i \in DOMAIN e.f
      PROVE  /\ e.f[i].v \in Int /\ Settled(e.card, i, e.f[i].v)
             /\ e.f[i].as = "none" => e.card = "GN" /\ i \in {5, 6}
  <2>1. CASE i \in DOMAIN c.f
    BY <1>1, <1>2, <1>3, <2>1
  <2>2. CASE i \notin DOMAIN c.f
    <3>1. e.f[i].v = 0 /\ c.card = "GN" /\ i \in {5, 6}
      BY <1>2, <1>3, <2>2
    <3> QED BY <1>2, <3>1, ControlSettled DEF Controls
  <2> QED BY <2>1, <2>2
<1>7. Boxed(e)
  BY <1>1, <1>2, <1>5, <1>6 DEF Boxed
<1>8. IsRow(c) => Row(e)
  <2> SUFFICES ASSUME c.card = "GW"
               PROVE  Row(e)
    BY DEF IsRow
  <2>1. DOMAIN e.f = 1 .. 9
    BY <1>2, <1>5, PlainPlaces DEF BoxesOf
  <2> QED BY <1>2, <1>6, <2>1 DEF Row
<1> QED BY <1>4, <1>7, <1>8

\* A row that is valid is a wire whose radius is not 0.
LEMMA RowIsRegular ==
    ASSUME NEW e, Row(e), WireValid(e)
    PROVE  Regular(ToCard(e)) /\ ToCard(e).card = "GW" /\ ~ZeroRadius(ToCard(e))
<1> DEFINE c == ToCard(e)
<1>1. /\ \A i \in 1 .. 2 : e.f[i].as = "int" /\ e.f[i].v >= 0
      /\ \A i \in 3 .. 9 : e.f[i].as \in {"int", "real"}
      /\ e.f[9].v > 0
  BY DEF WireValid, Count, Number
<1>2. DOMAIN e.f = 1 .. 9 /\ \A i \in 1 .. 9 : e.f[i].v \in Int /\ e.f[i].as # "none"
  <2>1. \A i \in 1 .. 9 : i \in 1 .. 2 \/ i \in 3 .. 9
    OBVIOUS
  <2> QED BY <1>1, <2>1 DEF Row
<1>3. c = [card |-> "GW", f |-> [i \in 1 .. 9 |-> e.f[i].v]]
  <2>1. {i \in DOMAIN e.f : e.f[i].as # "none"} = 1 .. 9
    BY <1>2
  <2> QED BY <2>1 DEF ToCard, Row
<1>4. c.card = "GW" /\ DOMAIN c.f = 1 .. 9 /\ \A i \in 1 .. 9 : c.f[i] = e.f[i].v
  BY <1>3
<1>5. c = [card |-> c.card, f |-> [i \in DOMAIN c.f |-> c.f[i]]]
  BY <1>3
<1> HIDE DEF c
<1>6. DOMAIN c.f = Places(c)
  BY <1>4, PlainPlaces DEF Places
<1>7. \A i \in 1 .. 9 : Settled(c.card, i, c.f[i])
  <2> TAKE i \in 1 .. 9
  <2>1. c.f[i] \in Int
    BY <1>2, <1>4
  <2>2. i \in SaturatingFields("GW") => c.f[i] >= 0
    <3>1. SaturatingFields("GW") = {1, 2}
      BY DEF SaturatingFields, NearCards
    <3> QED BY <1>1, <1>4, <3>1
  <2> QED BY <1>4, <2>1, <2>2 DEF Settled
<1>8. ~ZeroRadius(c)
  BY <1>1, <1>2, <1>4 DEF ZeroRadius
<1>9. c.card \in Known \ {"CE"}
  BY <1>4 DEF Known, Typed, GeometryCards
<1> QED BY <1>4, <1>5, <1>6, <1>7, <1>8, <1>9 DEF Regular, c

\* What is typed in a control that is valid
LEMMA FreeIsRead ==
    ASSUME NEW e, ControlValid(e), NEW i \in Free(e.card)
    PROVE  e.f[i].as = "none" => e.card = "GN" /\ i \in {5, 6}
<1>1. e.card \in {"EX", "GN", "LD", "FR"}
  BY DEF Free, Editable
<1>2. CASE e.card = "EX"
  BY <1>2 DEF Free, Editable, ControlValid, Count, Number
<1>3. CASE e.card = "GN"
  BY <1>3 DEF Free, Editable
<1>4. CASE e.card = "LD"
  <2>1. \A j \in 2 .. 7 : j \in 2 .. 4 \/ j \in 5 .. 7
    OBVIOUS
  <2>2. i \in 2 .. 7
    BY <1>4 DEF Free, Editable
  <2>3. /\ \A j \in 2 .. 4 : e.f[j].as = "int"
        /\ \A j \in 5 .. 7 : e.f[j].as \in {"int", "real"}
    BY <1>4 DEF ControlValid, Count, Number
  <2> QED BY <2>1, <2>2, <2>3
<1>5. CASE e.card = "FR"
  BY <1>5 DEF Free, Editable, ControlValid, Count, Number
<1> QED BY <1>1, <1>2, <1>3, <1>4, <1>5

LEMMA BoxedIsRegular ==
    ASSUME NEW e, Boxed(e), ControlValid(e)
    PROVE  Regular(ToCard(e))
<1> DEFINE c == ToCard(e)
           held == {i \in DOMAIN e.f : e.f[i].as # "none"}
<1>1. /\ e.card \in Known \ {"CE"} /\ DOMAIN e.f = BoxesOf(e)
      /\ \A i \in DOMAIN e.f : e.f[i].v \in Int
      /\ \A i \in DOMAIN e.f : i \notin Free(e.card) =>
            /\ Settled(e.card, i, e.f[i].v)
            /\ e.f[i].as = "none" => e.card = "GN" /\ i \in {5, 6}
  BY DEF Boxed
<1>2. c = [card |-> e.card, f |-> [i \in held |-> e.f[i].v]]
  BY DEF ToCard
<1>3. \A i \in DOMAIN e.f : i \in held \/ (e.card = "GN" /\ i \in {5, 6})
  BY <1>1, FreeIsRead
<1>4. held \subseteq DOMAIN e.f
  OBVIOUS
<1> HIDE DEF c, held
<1>5. /\ c.card = e.card /\ DOMAIN c.f = held /\ \A i \in held : c.f[i] = e.f[i].v
      /\ c = [card |-> c.card, f |-> [i \in DOMAIN c.f |-> c.f[i]]]
  BY <1>2
<1>6. DOMAIN c.f = Places(c)
  <2>1. CASE e.card = "GN"
    <3>1. DOMAIN e.f = {1, 2, 5, 6} \cup (IF e.f[2].v # 0 THEN {7, 8} ELSE 7 .. 10)
      BY <1>1, <2>1 DEF BoxesOf
    <3>2. 2 \in held /\ c.f[2] = e.f[2].v
      <4>1. 2 \in DOMAIN e.f
        BY <3>1
      <4> QED BY <1>5, <1>3, <4>1
    <3>3. Places(c) = {1, 2} \cup (held \cap {5, 6}) \cup (IF e.f[2].v # 0 THEN {7, 8} ELSE 7 .. 10)
      BY <1>5, <2>1, <3>2 DEF Places
    <3> DEFINE rest == IF e.f[2].v # 0 THEN {7, 8} ELSE 7 .. 10
    <3>4. 5 \notin rest /\ 6 \notin rest
      OBVIOUS
    <3> HIDE DEF rest
    <3>5. held = {1, 2} \cup (held \cap {5, 6}) \cup rest
      <4>1. DOMAIN e.f = {1, 2, 5, 6} \cup rest
        BY <3>1 DEF rest
      <4> QED BY <1>3, <1>4, <3>4, <4>1
    <3> QED BY <1>5, <3>3, <3>5 DEF rest
  <2>2. CASE e.card # "GN"
    <3>1. held = DOMAIN e.f
      BY <1>3, <1>4, <2>2
    <3>2. DOMAIN e.f = Kept([card |-> e.card, f |-> <<>>])
      BY <1>1, <2>2 DEF BoxesOf
    <3> QED BY <1>5, <2>2, <3>1, <3>2 DEF Places
  <2> QED BY <2>1, <2>2
<1>7. \A i \in DOMAIN c.f : Settled(c.card, i, c.f[i])
  <2> TAKE i \in DOMAIN c.f
  <2>1. i \in DOMAIN e.f /\ c.f[i] = e.f[i].v /\ c.f[i] \in Int
    BY <1>1, <1>5, <1>4
  <2>2. i \in Free(e.card) => e.card \in Controls
    BY DEF Free, Editable, Controls
  <2> QED BY <1>1, <1>5, <2>1, <2>2, ControlSettled
<1> QED BY <1>1, <1>5, <1>6, <1>7 DEF Regular, c
-----------------------------------------------------------------------------
(* The parts of a document                                                 *)

LEMMA CardOfEntry == \A e : ToCard(e).card = e.card
BY DEF ToCard

\* The entries of a part, and their cards.
Listed(s) == s \in Seq({s[k] : k \in DOMAIN s})
CardsOf(es) == [k \in DOMAIN es |-> ToCard(es[k])]

LEMMA ListedIs ==
    ASSUME NEW S, NEW s \in Seq(S)
    PROVE  Listed(s)
BY DEF Listed

LEMMA CardsOfListed ==
    ASSUME NEW es, Listed(es), NEW cs, cs = CardsOf(es)
    PROVE  /\ List(es) /\ List(cs) /\ Len(cs) = Len(es) /\ Listed(cs)
           /\ \A k \in 1 .. Len(es) : cs[k] = ToCard(es[k])
<1> DEFINE n == Len(es)
<1>1. n \in Nat /\ DOMAIN es = 1 .. n
  BY DEF Listed
<1> HIDE DEF n
<1>2. cs = [k \in 1 .. n |-> ToCard(es[k])]
  BY <1>1 DEF CardsOf
<1>3. Len(cs) = n /\ DOMAIN cs = 1 .. n
  BY <1>1, <1>2
<1>4. Listed(cs)
  <2> DEFINE S == {ToCard(es[k]) : k \in 1 .. n}
  <2>1. \A k \in 1 .. n : ToCard(es[k]) \in S
    OBVIOUS
  <2> HIDE DEF S
  <2>2. cs \in Seq(S)
    BY <1>1, <1>2, <2>1
  <2> QED BY <2>2, ListedIs
<1> QED BY <1>1, <1>2, <1>3, <1>4 DEF List, n

\* A part of a sequence
OneTo(s, n) == s = [k \in 1 .. n |-> s[k]]
Cut(u, S, s, n, a, b) ==
    /\ u \in Seq(S) /\ Len(u) = b - a + 1
    /\ \A k \in 1 .. Len(u) : a - 1 + k \in 1 .. n /\ u[k] = s[a - 1 + k]

LEMMA PartOf ==
    ASSUME NEW S, NEW n \in Nat, NEW s, OneTo(s, n), \A k \in 1 .. n : s[k] \in S,
           NEW a \in 1 .. (n + 1), NEW b \in (a - 1) .. n
    PROVE  Cut(SubSeq(s, a, b), S, s, n, a, b)
<1> SUFFICES ASSUME NEW u, u = SubSeq(s, a, b)
             PROVE  Cut(u, S, s, n, a, b)
  OBVIOUS
<1>1. \A k \in 1 .. (b - a + 1) : k + a - 1 \in 1 .. n /\ k + a - 1 = a - 1 + k
  OBVIOUS
<1>2. b - a + 1 \in Nat
  OBVIOUS
<1>3. u = [k \in 1 .. (b - a + 1) |-> s[k + a - 1]]
  BY DEF OneTo
<1>4. \A k \in 1 .. (b - a + 1) : u[k] = s[a - 1 + k]
  BY <1>1, <1>3
<1>5. Len(u) = b - a + 1
  BY <1>2, <1>3
<1>6. \A k \in 1 .. (b - a + 1) : s[k + a - 1] \in S
  BY <1>1
<1>7. u \in Seq(S)
  <2>1. ASSUME NEW m \in Nat, NEW h, \A k \in 1 .. m : h[k + a - 1] \in S
        PROVE  [k \in 1 .. m |-> h[k + a - 1]] \in Seq(S)
    BY <2>1
  <2> QED BY <1>2, <1>3, <1>6, <2>1
<1> QED BY <1>1, <1>4, <1>5, <1>7 DEF Cut

LEMMA Spans ==
    ASSUME NEW a \in Nat, NEW b \in Nat, NEW c \in Nat
    PROVE  /\ a + b \in Nat /\ a + b + c \in Nat /\ a + (b + c) = a + b + c
           /\ \A k \in 1 .. a : k \in 1 .. (a + b) /\ k \in 1 .. (a + b + c) /\ k <= a
           /\ \A k \in 1 .. b : /\ a + k \in 1 .. (a + b) /\ a + k \in 1 .. (a + b + c)
                                /\ ~(a + k <= a) /\ a + k - a = k
           /\ \A k \in 1 .. c : a + b + k \in 1 .. (a + b + c)
OBVIOUS

\* One sequence after another
Joined(u, s, t) == /\ Listed(u) /\ Len(u) = Len(s) + Len(t)
                   /\ \A k \in 1 .. Len(s) : u[k] = s[k]
                   /\ \A k \in 1 .. Len(t) : u[Len(s) + k] = t[k]

LEMMA JoinedAre ==
    ASSUME NEW s, Listed(s), NEW t, Listed(t)
    PROVE  Joined(s \o t, s, t)
<1> SUFFICES ASSUME NEW u, u = s \o t
             PROVE  Joined(u, s, t)
  OBVIOUS
<1> DEFINE U == {s[k] : k \in DOMAIN s} \cup {t[k] : k \in DOMAIN t}
           a == Len(s)
           b == Len(t)
<1>1. s \in Seq(U) /\ t \in Seq(U)
  BY DEF Listed
<1>2. a \in Nat /\ b \in Nat
  OBVIOUS
<1> HIDE DEF U
<1>3. /\ u \in Seq(U) /\ Len(u) = a + b
      /\ \A k \in 1 .. (a + b) : u[k] = IF k <= a THEN s[k] ELSE t[k - a]
  BY <1>1, ConcatProperties
<1> HIDE DEF a, b
<1>4. \A k \in 1 .. a : u[k] = s[k]
  BY <1>2, <1>3, Spans
<1>5. \A k \in 1 .. b : u[a + k] = t[k]
  BY <1>2, <1>3, Spans
<1> QED BY <1>3, <1>4, <1>5, ListedIs DEF a, b, Joined

\* The entries of a document, in their order
InParts(deck, d) ==
    /\ Listed(deck) /\ Len(deck) = Len(d.pre) + Len(d.wires) + Len(d.post)
    /\ \A k \in 1 .. Len(d.pre) : deck[k] = CardsOf(d.pre)[k]
    /\ \A k \in 1 .. Len(d.wires) : deck[Len(d.pre) + k] = CardsOf(d.wires)[k]
    /\ \A k \in 1 .. Len(d.post) :
          deck[Len(d.pre) + Len(d.wires) + k] = CardsOf(d.post)[k]

LEMMA EntriesInOrder ==
    ASSUME NEW d, Listed(d.pre), Listed(d.wires), Listed(d.post)
    PROVE  InParts(ToDeck(d), d)
<1> SUFFICES ASSUME NEW deck, deck = ToDeck(d)
             PROVE  InParts(deck, d)
  OBVIOUS
<1> DEFINE a == Len(d.pre)
           b == Len(d.wires)
           c == Len(d.post)
           v == d.pre \o d.wires
           es == Entries(d)
<1>1. a \in Nat /\ b \in Nat /\ c \in Nat
  BY DEF Listed
<1>2. v = d.pre \o d.wires
  OBVIOUS
<1>3. es = v \o d.post
  BY DEF Entries
<1> HIDE DEF v, es
<1>4. /\ Listed(v) /\ Len(v) = a + b
      /\ \A k \in 1 .. a : v[k] = d.pre[k]
      /\ \A k \in 1 .. b : v[a + k] = d.wires[k]
  <2>1. Joined(v, d.pre, d.wires)
    BY <1>2, JoinedAre
  <2> QED BY <2>1 DEF Joined
<1>5. /\ Listed(es) /\ Len(es) = Len(v) + c
      /\ \A k \in 1 .. Len(v) : es[k] = v[k]
      /\ \A k \in 1 .. c : es[Len(v) + k] = d.post[k]
  <2>1. Joined(es, v, d.post)
    BY <1>3, <1>4, JoinedAre
  <2> QED BY <2>1 DEF Joined
<1> HIDE DEF a, b, c
<1>6. /\ Len(es) = a + b + c
      /\ \A k \in 1 .. (a + b) : es[k] = v[k]
      /\ \A k \in 1 .. c : es[a + b + k] = d.post[k]
  BY <1>4, <1>5
<1>7. Listed(es) /\ deck = CardsOf(es)
  BY <1>5 DEF ToDeck, CardsOf, es
<1>8. /\ Listed(deck) /\ Len(deck) = Len(es)
      /\ \A k \in 1 .. Len(es) : deck[k] = ToCard(es[k])
  BY <1>7, CardsOfListed
<1>9. \A k \in 1 .. (a + b + c) : deck[k] = ToCard(es[k])
  BY <1>6, <1>8
<1>10. \A k \in 1 .. a : CardsOf(d.pre)[k] = ToCard(d.pre[k])
  BY CardsOfListed DEF a
<1>11. \A k \in 1 .. b : CardsOf(d.wires)[k] = ToCard(d.wires[k])
  BY CardsOfListed DEF b
<1>12. \A k \in 1 .. c : CardsOf(d.post)[k] = ToCard(d.post[k])
  BY CardsOfListed DEF c
<1>13. /\ \A k \in 1 .. a : k \in 1 .. (a + b) /\ k \in 1 .. (a + b + c)
       /\ \A k \in 1 .. b : a + k \in 1 .. (a + b) /\ a + k \in 1 .. (a + b + c)
       /\ \A k \in 1 .. c : a + b + k \in 1 .. (a + b + c)
  BY <1>1, Spans
<1>14. \A k \in 1 .. a : deck[k] = CardsOf(d.pre)[k]
  BY <1>4, <1>6, <1>9, <1>10, <1>13
<1>15. \A k \in 1 .. b : deck[a + k] = CardsOf(d.wires)[k]
  BY <1>4, <1>6, <1>9, <1>11, <1>13
<1>16. \A k \in 1 .. c : deck[a + b + k] = CardsOf(d.post)[k]
  BY <1>6, <1>9, <1>12, <1>13
<1> QED BY <1>6, <1>8, <1>14, <1>15, <1>16 DEF a, b, c, InParts

\* A part of one
Part(u, s, a, b) == /\ Listed(u) /\ Len(u) = b - a + 1
                    /\ \A k \in 1 .. Len(u) : a - 1 + k \in 1 .. Len(s) /\ u[k] = s[a - 1 + k]

LEMMA PartIs ==
    ASSUME NEW s, Listed(s), NEW a \in 1 .. (Len(s) + 1), NEW b \in (a - 1) .. Len(s)
    PROVE  Part(SubSeq(s, a, b), s, a, b)
<1> SUFFICES ASSUME NEW u, u = SubSeq(s, a, b)
             PROVE  Part(u, s, a, b)
  OBVIOUS
<1> DEFINE n == Len(s)
           S == {s[k] : k \in DOMAIN s}
<1>1. n \in Nat /\ OneTo(s, n) /\ \A k \in 1 .. n : s[k] \in S
  BY DEF Listed, OneTo
<1> HIDE DEF S
<1>2. a \in 1 .. (n + 1) /\ b \in (a - 1) .. n
  OBVIOUS
<1> HIDE DEF n
<1>3. Cut(SubSeq(s, a, b), S, s, n, a, b)
  BY <1>1, <1>2, PartOf
<1>4. Cut(u, S, s, n, a, b)
  BY <1>3
<1> QED BY <1>4, ListedIs DEF Part, Cut, n

\* A part of a deck that is opened holds its cards.
EntriesOf(cs) == [k \in 1 .. Len(cs) |-> Entry(cs[k])]
PartOfDeck(es, cs, a, b) ==
    /\ Listed(es) /\ Len(es) = b - a + 1
    /\ \A k \in 1 .. Len(es) : /\ a - 1 + k \in 1 .. Len(cs) /\ es[k] = Entry(cs[a - 1 + k])
                               /\ CardsOf(es)[k] = cs[a - 1 + k]

LEMMA PartIsOfDeck ==
    ASSUME NEW cs, List(cs), \A k \in 1 .. Len(cs) : Regular(cs[k]),
           NEW a \in 1 .. (Len(cs) + 1), NEW b \in (a - 1) .. Len(cs)
    PROVE  PartOfDeck(SubSeq(EntriesOf(cs), a, b), cs, a, b)
<1> DEFINE n == Len(cs)
           g == EntriesOf(cs)
           T == {g[k] : k \in 1 .. n}
<1>1. n \in Nat /\ DOMAIN cs = 1 .. n
  BY DEF List
<1>2. g = [k \in 1 .. n |-> g[k]] /\ \A k \in 1 .. n : g[k] = Entry(cs[k])
  BY DEF EntriesOf
<1>3. Listed(g) /\ Len(g) = n
  <2>1. \A k \in 1 .. n : g[k] \in T
    OBVIOUS
  <2> HIDE DEF g, T
  <2>2. g \in Seq(T)
    BY <1>1, <1>2, <2>1
  <2>3. Len(g) = n
    BY <1>1, <1>2
  <2> QED BY <2>2, <2>3, ListedIs
<1> HIDE DEF g, T
<1> SUFFICES ASSUME NEW es, es = SubSeq(g, a, b)
             PROVE  PartOfDeck(es, cs, a, b)
  BY DEF g
<1>4. /\ Listed(es) /\ Len(es) = b - a + 1
      /\ \A k \in 1 .. Len(es) : a - 1 + k \in 1 .. n /\ es[k] = g[a - 1 + k]
  <2>1. Part(es, g, a, b)
    BY <1>3, PartIs
  <2> QED BY <1>3, <2>1 DEF Part
<1>5. Listed(es)
  BY <1>4
<1>6. ASSUME NEW k \in 1 .. Len(es)
      PROVE  /\ a - 1 + k \in 1 .. n /\ es[k] = Entry(cs[a - 1 + k])
             /\ CardsOf(es)[k] = cs[a - 1 + k]
  <2>1. a - 1 + k \in 1 .. n /\ es[k] = Entry(cs[a - 1 + k])
    BY <1>2, <1>4
  <2>2. CardsOf(es)[k] = ToCard(es[k])
    BY <1>5, CardsOfListed
  <2>3. ToCard(Entry(cs[a - 1 + k])) = cs[a - 1 + k]
    BY <2>1, EntryHolds
  <2> QED BY <2>1, <2>2, <2>3
<1> QED BY <1>4, <1>5, <1>6 DEF PartOfDeck

LEMMA InsertedAt ==
    ASSUME NEW s, Listed(s), NEW p \in 1 .. (Len(s) + 1), NEW e, NEW u, u = InsertAt(s, p, e)
    PROVE  Listed(u) /\ Inserted(u, s, p) /\ u[p] = e
<1> DEFINE n == Len(s)
           x == SubSeq(s, 1, p - 1)
           y == SubSeq(s, p, n)
           one == <<e>>
           z == x \o one
<1>1. u = z \o y
  BY DEF InsertAt
<1>2. n \in Nat /\ p \in 1 .. (n + 1)
  BY DEF Listed
<1>3. Part(x, s, 1, p - 1) /\ Part(y, s, p, n)
  <2>1. /\ 1 \in 1 .. (n + 1) /\ p - 1 \in (1 - 1) .. n
        /\ p \in 1 .. (n + 1) /\ n \in (p - 1) .. n
    BY <1>2
  <2> QED BY <2>1, PartIs
<1>4. Listed(one) /\ Len(one) = 1 /\ one[1] = e
  BY DEF Listed
<1> HIDE DEF x, y, one
<1>5. Joined(z, x, one)
  BY <1>3, <1>4, JoinedAre DEF Part
<1>6. Joined(u, z, y)
  <2>1. Listed(z) /\ Listed(y)
    BY <1>3, <1>5 DEF Part, Joined
  <2> HIDE DEF z
  <2> QED BY <1>1, <2>1, JoinedAre
<1> HIDE DEF n, z
<1>7. /\ Len(x) = p - 1 /\ Len(y) = n - p + 1 /\ Len(z) = p
      /\ \A k \in 1 .. (p - 1) : x[k] = s[k]
      /\ \A k \in 1 .. (n - p + 1) : y[k] = s[p - 1 + k]
  <2>1. /\ Len(x) = p - 1 - 1 + 1 /\ \A k \in 1 .. Len(x) : x[k] = s[1 - 1 + k]
    BY <1>3 DEF Part
  <2>2. /\ Len(y) = n - p + 1 /\ \A k \in 1 .. Len(y) : y[k] = s[p - 1 + k]
    BY <1>3 DEF Part
  <2>3. Len(z) = Len(x) + 1
    BY <1>4, <1>5 DEF Joined
  <2>4. Len(x) = p - 1 /\ Len(z) = p
    BY <1>2, <2>1, <2>3
  <2>5. \A k \in 1 .. (p - 1) : 1 - 1 + k = k
    BY <1>2
  <2> QED BY <2>1, <2>2, <2>4, <2>5
<1>8. /\ \A k \in 1 .. (p - 1) : z[k] = s[k]
      /\ z[p] = e
  <2>1. /\ \A k \in 1 .. Len(x) : z[k] = x[k]
        /\ \A k \in 1 .. 1 : z[Len(x) + k] = one[k]
    BY <1>4, <1>5 DEF Joined
  <2>2. (p - 1) + 1 = p /\ 1 \in 1 .. 1
    BY <1>2
  <2>3. z[(p - 1) + 1] = one[1]
    BY <1>7, <2>1, <2>2
  <2> QED BY <1>4, <1>7, <2>1, <2>2, <2>3
<1>9. /\ Len(u) = p + (n - p + 1) /\ Listed(u)
      /\ \A k \in 1 .. p : u[k] = z[k]
      /\ \A k \in 1 .. (n - p + 1) : u[p + k] = y[k]
  BY <1>6, <1>7 DEF Joined
<1>10. Len(u) = n + 1 /\ p \in 1 .. p
  BY <1>2, <1>9
<1>11. ASSUME NEW k \in 1 .. n, k < p
       PROVE  u[k] = s[k]
  <2>1. k \in 1 .. p /\ k \in 1 .. (p - 1)
    BY <1>2, <1>11
  <2> QED BY <1>8, <1>9, <2>1
<1>12. ASSUME NEW k \in 1 .. n, k >= p
       PROVE  u[k + 1] = s[k]
  <2>1. k - p + 1 \in 1 .. (n - p + 1) /\ p + (k - p + 1) = k + 1 /\ p - 1 + (k - p + 1) = k
    BY <1>2, <1>12
  <2>2. u[p + (k - p + 1)] = y[k - p + 1] /\ y[k - p + 1] = s[p - 1 + (k - p + 1)]
    BY <1>7, <1>9, <2>1
  <2> QED BY <2>1, <2>2
<1>13. List(s) /\ List(u)
  BY <1>9 DEF Listed, List
<1> QED BY <1>2, <1>8, <1>9, <1>10, <1>11, <1>12, <1>13 DEF Inserted, n

LEMMA RemovedAt ==
    ASSUME NEW s, Listed(s), NEW p \in 1 .. Len(s), NEW u, u = RemoveAt(s, p)
    PROVE  Listed(u) /\ Inserted(s, u, p)
<1> DEFINE n == Len(s)
           x == SubSeq(s, 1, p - 1)
           y == SubSeq(s, p + 1, n)
<1>1. u = x \o y
  BY DEF RemoveAt
<1>2. n \in Nat /\ p \in 1 .. n
  BY DEF Listed
<1>3. Part(x, s, 1, p - 1) /\ Part(y, s, p + 1, n)
  <2>1. /\ 1 \in 1 .. (n + 1) /\ p - 1 \in (1 - 1) .. n
        /\ p + 1 \in 1 .. (n + 1) /\ n \in ((p + 1) - 1) .. n
    BY <1>2
  <2> QED BY <2>1, PartIs
<1> HIDE DEF x, y
<1>4. Joined(u, x, y)
  BY <1>1, <1>3, JoinedAre DEF Part
<1> HIDE DEF n
<1>5. /\ Len(x) = p - 1 /\ Len(y) = n - p
      /\ \A k \in 1 .. (p - 1) : x[k] = s[k]
      /\ \A k \in 1 .. (n - p) : y[k] = s[p + k]
  <2>1. /\ Len(x) = p - 1 - 1 + 1 /\ \A k \in 1 .. Len(x) : x[k] = s[1 - 1 + k]
    BY <1>3 DEF Part
  <2>2. /\ Len(y) = n - (p + 1) + 1 /\ \A k \in 1 .. Len(y) : y[k] = s[p + 1 - 1 + k]
    BY <1>3 DEF Part
  <2>3. Len(x) = p - 1 /\ Len(y) = n - p /\ p + 1 - 1 = p
    BY <1>2, <2>1, <2>2
  <2>4. \A k \in 1 .. (p - 1) : 1 - 1 + k = k
    BY <1>2
  <2> QED BY <2>1, <2>2, <2>3, <2>4
<1>6. /\ Len(u) = (p - 1) + (n - p) /\ Listed(u)
      /\ \A k \in 1 .. (p - 1) : u[k] = x[k]
      /\ \A k \in 1 .. (n - p) : u[(p - 1) + k] = y[k]
  BY <1>4, <1>5 DEF Joined
<1>7. n = Len(u) + 1
  BY <1>2, <1>6
<1>8. ASSUME NEW k \in 1 .. Len(u), k < p
      PROVE  s[k] = u[k]
  <2>1. k \in 1 .. (p - 1)
    BY <1>2, <1>8
  <2> QED BY <1>5, <1>6, <2>1
<1>9. ASSUME NEW k \in 1 .. Len(u), k >= p
      PROVE  s[k + 1] = u[k]
  <2>1. k - p + 1 \in 1 .. (n - p) /\ (p - 1) + (k - p + 1) = k /\ p + (k - p + 1) = k + 1
    BY <1>2, <1>6, <1>9
  <2>2. u[(p - 1) + (k - p + 1)] = y[k - p + 1] /\ y[k - p + 1] = s[p + (k - p + 1)]
    BY <1>5, <1>6, <2>1
  <2> QED BY <2>1, <2>2
<1>10. List(s) /\ List(u)
  BY <1>6 DEF Listed, List
<1> QED BY <1>2, <1>6, <1>7, <1>8, <1>9, <1>10 DEF Inserted, n

\* The deck of a part with an entry more
LEMMA CardInserted ==
    ASSUME NEW s, Listed(s), NEW u, Listed(u), NEW p, Inserted(u, s, p)
    PROVE  Inserted(CardsOf(u), CardsOf(s), p)
<1> DEFINE n == Len(s)
           a == CardsOf(s)
           b == CardsOf(u)
<1>1. n \in Nat /\ Len(u) = n + 1 /\ p \in 1 .. (n + 1)
  BY DEF Inserted, List
<1>2. /\ \A k \in 1 .. n : k < p => u[k] = s[k]
      /\ \A k \in 1 .. n : k >= p => u[k + 1] = s[k]
  BY DEF Inserted
<1>3. List(a) /\ Len(a) = n /\ \A k \in 1 .. n : a[k] = ToCard(s[k])
  BY CardsOfListed
<1>4. List(b) /\ Len(b) = n + 1 /\ \A k \in 1 .. (n + 1) : b[k] = ToCard(u[k])
  BY <1>1, CardsOfListed
<1> HIDE DEF n, a, b
<1>5. \A k \in 1 .. n : k \in 1 .. (n + 1) /\ k + 1 \in 1 .. (n + 1)
  BY <1>1
<1>6. \A k \in 1 .. n : k < p => b[k] = a[k]
  BY <1>2, <1>3, <1>4, <1>5
<1>7. \A k \in 1 .. n : k >= p => b[k + 1] = a[k]
  BY <1>2, <1>3, <1>4, <1>5
<1> QED BY <1>1, <1>3, <1>4, <1>6, <1>7 DEF Inserted, a, b
-----------------------------------------------------------------------------
(* A document and its edits                                                *)

\* The parts of a document: what their entries are, and that each is in its order.
PartsForm(d) ==
    /\ Listed(d.pre) /\ Listed(d.wires) /\ Listed(d.post)
    /\ \A k \in DOMAIN d.pre : Regular(ToCard(d.pre[k]))
    /\ \A k \in DOMAIN d.wires : Row(d.wires[k])
    /\ \A k \in DOMAIN d.post : Boxed(d.post[k])
PartsOrder(d) ==
    /\ Orderly(CardsOf(d.pre)) /\ Orderly(CardsOf(d.post))
    /\ \A k \in DOMAIN d.pre, j \in DOMAIN d.post :
          d.pre[k].card = "GE" => d.post[j].card \notin GeometryCards

PartsInv ==
    /\ ReadAgain(reader) /\ EndsWell(reader) /\ edits \in Nat
    /\ doc.open => PartsForm(doc) /\ PartsOrder(doc)
    /\ doc.open /\ edits = 0 => ToDeck(doc) = reader.cards

\* Where the table of an opened deck begins and ends
Least(m, T) == m = Min(T)
FirstRow(cs, n, from) == from = Min({k \in 1 .. n : IsRow(cs[k])} \cup {n + 1})
FirstOther(cs, n, from, to) == to = Min({k \in from .. n : ~IsRow(cs[k])} \cup {n + 1})

LEMMA TableBounds ==
    ASSUME NEW cs, NEW n \in Nat, NEW from, FirstRow(cs, n, from),
           NEW to, FirstOther(cs, n, from, to)
    PROVE  /\ from \in 1 .. (n + 1) /\ to \in from .. (n + 1)
           /\ from <= n => IsRow(cs[from]) /\ to > from
           /\ \A k \in from .. (to - 1) : k \in 1 .. n /\ IsRow(cs[k])
<1>1. from \in 1 .. (n + 1) /\ (from <= n => IsRow(cs[from]))
  <2> DEFINE T == {k \in 1 .. n : IsRow(cs[k])} \cup {n + 1}
  <2>1. T \subseteq Nat /\ T # {} /\ \A k \in T : k \in 1 .. (n + 1) /\ (k <= n => IsRow(cs[k]))
    OBVIOUS
  <2>2. from = Min(T)
    BY DEF FirstRow
  <2> HIDE DEF T
  <2>3. from \in T
    BY <2>1, <2>2, LeastOf
  <2> QED BY <2>1, <2>3
<1>2. /\ to \in from .. (n + 1) /\ (from <= n => to # from)
      /\ \A k \in from .. n : k < to => IsRow(cs[k])
  <2> DEFINE T == {k \in from .. n : ~IsRow(cs[k])} \cup {n + 1}
  <2>1. T \subseteq Nat /\ T # {} /\ T \subseteq from .. (n + 1) /\ (from <= n => from \notin T)
    BY <1>1
  <2>2. \A k \in from .. n : IsRow(cs[k]) \/ k \in T
    OBVIOUS
  <2>3. Least(to, T)
    BY DEF FirstOther, Least
  <2> HIDE DEF T
  <2>4. to \in T /\ \A k \in T : to <= k
    BY <2>1, <2>3, LeastOf DEF Least
  <2>5. to \in from .. (n + 1)
    BY <2>1, <2>4
  <2>6. ASSUME NEW k \in from .. n, k < to
        PROVE  IsRow(cs[k])
    <3>1. ~(to <= k)
      BY <1>1, <2>5, <2>6
    <3> QED BY <2>2, <2>4, <3>1
  <2> QED BY <2>1, <2>4, <2>5, <2>6
<1>3. \A k \in from .. (to - 1) : k \in 1 .. n /\ k \in from .. n /\ k < to
  BY <1>1, <1>2
<1>4. from <= n => to > from
  BY <1>1, <1>2
<1> QED BY <1>1, <1>2, <1>3, <1>4

\* A document as it is opened
LEMMA Opened ==
    ASSUME NEW S, NEW cs \in Seq(S), \A k \in DOMAIN cs : Regular(cs[k]), Orderly(cs),
           NEW d, d = FromDeck(cs)
    PROVE  PartsForm(d) /\ PartsOrder(d) /\ ToDeck(d) = cs
<1> DEFINE n == Len(cs)
           entries == EntriesOf(cs)
           from == Min({k \in 1 .. n : IsRow(cs[k])} \cup {n + 1})
           to == Min({k \in from .. n : ~IsRow(cs[k])} \cup {n + 1})
           pre == SubSeq(entries, 1, from - 1)
           wires == SubSeq(entries, from, to - 1)
           post == SubSeq(entries, to, n)
<1>1. d.pre = pre /\ d.wires = wires /\ d.post = post
  BY DEF FromDeck, EntriesOf
<1>2. /\ n \in Nat /\ from \in 1 .. (n + 1) /\ to \in from .. (n + 1)
      /\ from <= n => IsRow(cs[from]) /\ to > from
      /\ \A k \in from .. (to - 1) : k \in 1 .. n /\ IsRow(cs[k])
  <2>1. FirstRow(cs, n, from) /\ FirstOther(cs, n, from, to)
    BY DEF FirstRow, FirstOther
  <2>2. n \in Nat
    OBVIOUS
  <2> HIDE DEF from, to, n
  <2> QED BY <2>1, <2>2, TableBounds
<1>3. DOMAIN cs = 1 .. n /\ List(cs)
  BY DEF List
<1> HIDE DEF from, to
<1>4. /\ 1 \in 1 .. (n + 1) /\ from - 1 \in (1 - 1) .. n
      /\ from \in 1 .. (n + 1) /\ to - 1 \in (from - 1) .. n
      /\ to \in 1 .. (n + 1) /\ n \in (to - 1) .. n
  <2> HIDE DEF n
  <2> QED BY <1>2
<1>5. /\ Listed(pre) /\ Len(pre) = from - 1 - 1 + 1
      /\ \A k \in 1 .. Len(pre) : /\ 1 - 1 + k \in 1 .. n /\ pre[k] = Entry(cs[1 - 1 + k])
                                  /\ CardsOf(pre)[k] = cs[1 - 1 + k]
  <2>1. PartOfDeck(pre, cs, 1, from - 1)
    BY <1>3, <1>4, PartIsOfDeck
  <2> QED BY <2>1 DEF PartOfDeck
<1>6. /\ Listed(wires) /\ Len(wires) = to - 1 - from + 1
      /\ \A k \in 1 .. Len(wires) : /\ from - 1 + k \in 1 .. n
                                    /\ wires[k] = Entry(cs[from - 1 + k])
                                    /\ CardsOf(wires)[k] = cs[from - 1 + k]
  <2>1. PartOfDeck(wires, cs, from, to - 1)
    BY <1>3, <1>4, PartIsOfDeck
  <2> QED BY <2>1 DEF PartOfDeck
<1>7. /\ Listed(post) /\ Len(post) = n - to + 1
      /\ \A k \in 1 .. Len(post) : /\ to - 1 + k \in 1 .. n /\ post[k] = Entry(cs[to - 1 + k])
                                   /\ CardsOf(post)[k] = cs[to - 1 + k]
  <2>1. PartOfDeck(post, cs, to, n)
    BY <1>3, <1>4, PartIsOfDeck
  <2> QED BY <2>1 DEF PartOfDeck
<1> DEFINE a == from - 1
           b == to - from
           c == n - to + 1
<1> HIDE DEF pre, wires, post
<1>8. /\ a \in Nat /\ b \in Nat /\ c \in Nat /\ a + b + c = n /\ a + b = to - 1
      /\ from = a + 1 /\ to = a + b + 1
  <2> HIDE DEF n
  <2> QED BY <1>2
<1>9. Len(pre) = a /\ Len(wires) = b /\ Len(post) = c
  <2> HIDE DEF n
  <2> QED BY <1>2, <1>5, <1>6, <1>7
<1>10. \A k \in 1 .. a : /\ k \in 1 .. n /\ pre[k] = Entry(cs[k])
                         /\ CardsOf(pre)[k] = cs[k]
  <2>1. \A k \in 1 .. a : 1 - 1 + k = k
    BY <1>8
  <2> QED BY <1>5, <1>9, <2>1
<1>11. \A k \in 1 .. b : /\ a + k \in 1 .. n /\ wires[k] = Entry(cs[a + k])
                         /\ CardsOf(wires)[k] = cs[a + k] /\ IsRow(cs[a + k])
  <2>1. \A k \in 1 .. b : a + k \in from .. (to - 1)
    BY <1>8
  <2> QED BY <1>2, <1>6, <1>9, <2>1
<1>12. \A k \in 1 .. c : /\ a + b + k \in 1 .. n /\ post[k] = Entry(cs[a + b + k])
                         /\ CardsOf(post)[k] = cs[a + b + k]
  BY <1>7, <1>8, <1>9
<1> HIDE DEF a, b, c
<1>13. DOMAIN pre = 1 .. a /\ DOMAIN wires = 1 .. b /\ DOMAIN post = 1 .. c
  BY <1>5, <1>6, <1>7, <1>9, CardsOfListed DEF List
<1>14. PartsForm(d)
  <2>1. \A k \in 1 .. a : Regular(ToCard(pre[k]))
    BY <1>3, <1>10, EntryHolds
  <2>2. \A k \in 1 .. b : Row(wires[k])
    BY <1>3, <1>11, EntryHolds
  <2>3. \A k \in 1 .. c : Boxed(post[k])
    BY <1>3, <1>12, EntryHolds
  <2> QED BY <1>1, <1>5, <1>6, <1>7, <1>13, <2>1, <2>2, <2>3 DEF PartsForm
<1>15. Paired(cs) /\ GeometryFirst(cs)
  BY <1>3, PairingForm DEF Orderly
<1>16. Orderly(CardsOf(pre))
  <2> SUFFICES ASSUME NEW u, u = CardsOf(pre)
               PROVE  Orderly(u)
    OBVIOUS
  <2>1. List(u) /\ Len(u) = a /\ \A k \in 1 .. a : u[k] = cs[0 + k]
    <3>1. \A k \in 1 .. a : 0 + k = k
      BY <1>8
    <3> QED BY <1>5, <1>9, <1>10, <3>1, CardsOfListed
  <2>2. a < n => cs[0 + a + 1].card # "GC"
    <3> HIDE DEF n
    <3>1. a < n => from <= n /\ 0 + a + 1 = from
      BY <1>2, <1>8
    <3> QED BY <1>2, <3>1 DEF IsRow
  <2>3. a > 0 => cs[0 + 1].card # "GC"
    <3>1. a > 0 => 1 \in 1 .. Len(cs)
      BY <1>2, <1>8
    <3>2. 1 - 1 \notin 1 .. Len(cs) /\ 0 + 1 = 1
      BY <1>2
    <3> QED BY <1>15, <3>1, <3>2 DEF Paired
  <2>4. 0 + a <= n
    <3> HIDE DEF n
    <3> QED BY <1>2, <1>8
  <2> QED BY <1>3, <2>1, <2>2, <2>3, <2>4, OrderPart
<1>17. Orderly(CardsOf(post))
  <2> SUFFICES ASSUME NEW u, u = CardsOf(post), NEW o, o = a + b
               PROVE  Orderly(u)
    OBVIOUS
  <2>1. List(u) /\ Len(u) = c /\ \A k \in 1 .. c : u[k] = cs[o + k]
    BY <1>7, <1>9, <1>12, CardsOfListed
  <2>2. o \in Nat /\ o + c = n /\ o = to - 1
    BY <1>8
  <2>3. c > 0 => cs[o + 1].card # "GC"
    <3> SUFFICES ASSUME c > 0, cs[to].card = "GC"
                 PROVE  FALSE
      BY <1>8
    <3>1. to \in 1 .. n /\ from <= n
      <4> HIDE DEF n
      <4> QED BY <1>2, <1>8
    <3>2. ZeroRadius(cs[to - 1])
      BY <1>15, <3>1 DEF Paired
    <3>3. to - 1 \in from .. (to - 1)
      <4> HIDE DEF n
      <4> QED BY <1>2, <3>1
    <3>4. IsRow(cs[to - 1])
      BY <1>2, <3>3
    <3> QED BY <3>2, <3>4 DEF IsRow, ZeroRadius
  <2>4. o + c <= n /\ ~(o + c < n)
    BY <1>2, <2>2
  <2> QED BY <1>3, <2>1, <2>2, <2>3, <2>4, OrderPart
<1>18. ASSUME NEW k \in 1 .. a, NEW j \in 1 .. c, pre[k].card = "GE"
       PROVE  post[j].card \notin GeometryCards
  <2>1. pre[k].card = cs[k].card /\ post[j].card = cs[a + b + j].card
    BY <1>10, <1>12, EntryOf
  <2>2. k \in 1 .. n /\ a + b + j \in 1 .. n /\ k < a + b + j
    BY <1>8, <1>10, <1>12
  <2> QED BY <1>3, <1>15, <1>18, <2>1, <2>2 DEF GeometryFirst
<1>19. PartsOrder(d)
  BY <1>1, <1>13, <1>16, <1>17, <1>18 DEF PartsOrder
<1>20. ToDeck(d) = cs
  <2> SUFFICES ASSUME NEW deck, deck = ToDeck(d)
               PROVE  deck = cs
    OBVIOUS
  <2>1. /\ Listed(deck) /\ Len(deck) = a + b + c
        /\ \A k \in 1 .. a : deck[k] = CardsOf(pre)[k]
        /\ \A k \in 1 .. b : deck[a + k] = CardsOf(wires)[k]
        /\ \A k \in 1 .. c : deck[a + b + k] = CardsOf(post)[k]
    <3>1. Listed(d.pre) /\ Listed(d.wires) /\ Listed(d.post)
      BY <1>1, <1>5, <1>6, <1>7
    <3>2. InParts(deck, d)
      BY <3>1, EntriesInOrder
    <3> QED BY <1>1, <1>9, <3>2 DEF InParts
  <2>2. \A k \in 1 .. n : deck[k] = cs[k]
    <3> TAKE k \in 1 .. n
    <3>1. \/ k \in 1 .. a \/ (k - a \in 1 .. b /\ a + (k - a) = k)
          \/ (k - (a + b) \in 1 .. c /\ a + b + (k - (a + b)) = k)
      <4> HIDE DEF n
      <4> QED BY <1>2, <1>8
    <3> QED BY <1>10, <1>11, <1>12, <2>1, <3>1
  <2>3. deck = [k \in 1 .. n |-> deck[k]]
    BY <1>8, <2>1 DEF Listed
  <2>4. cs = [k \in 1 .. n |-> cs[k]]
    BY <1>3
  <2> QED BY <2>2, <2>3, <2>4
<1> QED BY <1>14, <1>19, <1>20

\* Finitely many numbers have a bound.
LEMMA NumbersBounded ==
    ASSUME NEW f, NEW n \in Nat, \A k \in 1 .. n : f[k] \in Nat
    PROVE  \E b \in Nat : \A k \in 1 .. n : f[k] <= b
<1> DEFINE Q(m) == \E b \in Nat : \A k \in 1 .. m : f[k] <= b
           S == {m \in 0 .. n : ~Q(m)}
<1>1. SUFFICES ASSUME S # {}
               PROVE  FALSE
  <2>1. n \in 0 .. n
    OBVIOUS
  <2> HIDE DEF Q
  <2>2. S = {} => Q(n)
    BY <2>1
  <2> QED BY <2>2 DEF Q
<1> DEFINE m == Min(S)
<1>2. m \in S /\ \A k \in S : m <= k
  <2>1. S \subseteq Nat
    OBVIOUS
  <2> HIDE DEF S
  <2> QED BY <1>1, <2>1, LeastOf
<1> HIDE DEF m
<1>3. m \in 0 .. n /\ ~Q(m)
  BY <1>2
<1>4. m # 0
  <2>1. Q(0)
    OBVIOUS
  <2> HIDE DEF Q
  <2> QED BY <1>3, <2>1
<1>5. m - 1 \in 0 .. n /\ m \in 1 .. n
  BY <1>3, <1>4
<1>6. Q(m - 1)
  <2>1. m - 1 \notin S
    <3> HIDE DEF S
    <3> QED BY <1>2, <1>3
  <2> HIDE DEF Q
  <2> QED BY <1>5, <2>1
<1>7. PICK b \in Nat : \A k \in 1 .. (m - 1) : f[k] <= b
  BY <1>6
<1>8. f[m] \in Nat
  BY <1>5
<1>9. b + f[m] \in Nat /\ \A k \in 1 .. m : f[k] <= b + f[m]
  <2>1. \A k \in 1 .. m : k \in 1 .. (m - 1) \/ k = m
    BY <1>5
  <2>2. \A k \in 1 .. m : k \in 1 .. n
    BY <1>5
  <2>3. \A k \in 1 .. m : f[k] \in Nat
    BY <2>2
  <2> HIDE DEF S, Q
  <2> QED BY <1>7, <1>8, <2>1, <2>3
<1>10. Q(m)
  BY <1>9
<1> QED BY <1>3, <1>10

\* The tag of a wire that is added
LEMMA NextTagIs ==
    ASSUME NEW w, Listed(w), \A k \in DOMAIN w : Row(w[k])
    PROVE  NextTag(w) \in Int
<1> DEFINE n == Len(w)
           T == {w[k].f[1].v : k \in {j \in DOMAIN w : Count(w[j].f[1])}}
           f == [k \in 1 .. n |-> IF Count(w[k].f[1]) THEN w[k].f[1].v ELSE 0]
<1>1. n \in Nat /\ DOMAIN w = 1 .. n
  BY DEF Listed
<1>2. \A k \in 1 .. n : f[k] \in Nat
  <2> TAKE k \in 1 .. n
  <2>1. 1 \in 1 .. 9
    OBVIOUS
  <2>2. w[k].f[1].v \in Int
    BY <1>1, <2>1 DEF Row
  <2>3. Count(w[k].f[1]) => w[k].f[1].v >= 0
    BY DEF Count
  <2> QED BY <2>2, <2>3
<1>3. \A k \in 1 .. n : Count(w[k].f[1]) => f[k] = w[k].f[1].v
  OBVIOUS
<1> HIDE DEF f, n
<1>4. PICK b \in Nat : \A k \in 1 .. n : f[k] <= b
  BY <1>1, <1>2, NumbersBounded
<1>5. {0} \cup T \subseteq 0 .. b /\ {0} \cup T # {}
  <2>1. ASSUME NEW k \in 1 .. n, Count(w[k].f[1])
        PROVE  w[k].f[1].v \in 0 .. b
    <3>1. f[k] = w[k].f[1].v /\ f[k] \in Nat /\ f[k] <= b
      BY <1>2, <1>3, <1>4, <2>1
    <3> QED BY <3>1
  <2>2. T \subseteq 0 .. b
    BY <1>1, <2>1
  <2> HIDE DEF T
  <2> QED BY <2>2
<1>6. NextTag(w) = Whole + Max({0} \cup T)
  BY DEF NextTag
<1> HIDE DEF T
<1>7. Max({0} \cup T) \in 0 .. b
  <2> SUFFICES ASSUME NEW U, U = {0} \cup T
               PROVE  Max(U) \in 0 .. b
    OBVIOUS
  <2>1. U \subseteq 0 .. b /\ U # {}
    BY <1>5
  <2>2. Max(U) \in U
    BY <2>1, GreatestOf
  <2> QED BY <2>1, <2>2
<1> QED BY <1>6, <1>7 DEF Whole

\* What may be typed
LEMMA OfferedIs ==
    ASSUME DocumentAssumption, NEW card, NEW i, NEW x \in Offered(card, i)
    PROVE  /\ x.v \in Int
           /\ i = 1 /\ card \in {"GN", "LD", "FR"} => x.as # "none"
<1>1. \A k \in -1 .. 5 : Shown(Whole * k).v \in Int /\ Shown(Whole * k).as # "none"
  BY DEF Shown, Whole
<1>2. CASE i = 1 /\ card \in {"GN", "LD", "FR"}
  <2>1. Offered(card, i) \subseteq {Shown(Whole * k) : k \in -1 .. 5}
    BY <1>2 DEF Offered
  <2> QED BY <1>1, <1>2, <2>1
<1>3. CASE ~(i = 1 /\ card \in {"GN", "LD", "FR"})
  <2>1. x \in Inputs
    BY <1>3 DEF Offered
  <2>2. x.v \in Int
    BY <2>1 DEF DocumentAssumption
  <2> QED BY <1>3, <2>2
<1> QED BY <1>2, <1>3

\* Edits of the table
Rows(w) == Listed(w) /\ \A k \in DOMAIN w : Row(w[k])

LEMMA RowsAre ==
    ASSUME NEW w, NEW S, w \in Seq(S), \A e \in S : Row(e)
    PROVE  Rows(w)
BY DEF Rows, Listed

LEMMA RowEdited ==
    ASSUME NEW w, Rows(w), NEW k \in DOMAIN w, NEW i \in 1 .. 9, NEW x, x.v \in Int
    PROVE  Rows([w EXCEPT ![k].f[i] = x])
<1> DEFINE e == [w[k] EXCEPT !.f[i] = x]
           S == {w[j] : j \in DOMAIN w} \cup {e}
<1>1. Row(w[k])
  BY DEF Rows
<1>2. Row(e)
  <2>1. /\ DOMAIN w[k] = {"card", "f"} /\ w[k].card = "GW" /\ DOMAIN w[k].f = 1 .. 9
        /\ \A j \in 1 .. 9 : w[k].f[j].v \in Int
    BY <1>1 DEF Row
  <2>2. DOMAIN e = {"card", "f"} /\ e.card = "GW" /\ e.f = [w[k].f EXCEPT ![i] = x]
    BY <2>1
  <2>3. DOMAIN e.f = 1 .. 9 /\ \A j \in 1 .. 9 : e.f[j] = IF j = i THEN x ELSE w[k].f[j]
    BY <2>1, <2>2
  <2> HIDE DEF e
  <2> QED BY <2>1, <2>2, <2>3 DEF Row
<1>3. [w EXCEPT ![k].f[i] = x] = [w EXCEPT ![k] = e]
  OBVIOUS
<1> HIDE DEF e
<1>4. w \in Seq(S) /\ e \in S /\ \A z \in S : Row(z)
  BY <1>2 DEF Rows, Listed
<1> HIDE DEF S
<1>5. [w EXCEPT ![k] = e] \in Seq(S)
  BY <1>4
<1> QED BY <1>3, <1>4, <1>5, RowsAre

LEMMA RowAdded ==
    ASSUME NEW w, Rows(w)
    PROVE  Rows(Append(w, DefaultWire(NextTag(w))))
<1> DEFINE tag == NextTag(w)
           e == DefaultWire(tag)
           S == {w[j] : j \in DOMAIN w} \cup {e}
<1>1. tag \in Int
  BY NextTagIs DEF Rows
<1> HIDE DEF tag
<1>2. Row(e)
  <2> DEFINE g == [i \in 1 .. 9 |-> CASE i = 1 -> tag [] i \in {2, 6} -> Whole
                                     [] i = 9 -> Half [] OTHER -> 0]
             c == [card |-> "GW", f |-> g]
  <2>1. \A i \in 1 .. 9 : g[i] \in Int
    BY <1>1 DEF Whole, Half
  <2>2. e = Entry(c)
    BY DEF DefaultWire
  <2>3. DOMAIN g = 1 .. 9
    OBVIOUS
  <2> HIDE DEF g, e
  <2>4. Boxes(c) = 1 .. 9
    BY <2>3 DEF Boxes
  <2>5. e = [card |-> "GW", f |-> [i \in 1 .. 9 |-> Shown(g[i])]]
    <3>1. e.f = [i \in Boxes(c) |-> IF i \in DOMAIN c.f THEN Shown(c.f[i]) ELSE Empty]
      BY <2>2 DEF Entry
    <3> QED BY <2>2, <2>3, <2>4, <3>1 DEF Entry
  <2>6. \A i \in 1 .. 9 : Shown(g[i]).v = g[i]
    BY DEF Shown
  <2> QED BY <2>1, <2>5, <2>6 DEF Row
<1> HIDE DEF e
<1>3. w \in Seq(S) /\ e \in S /\ \A z \in S : Row(z)
  BY <1>2 DEF Rows, Listed
<1> HIDE DEF S
<1>4. Append(w, e) \in Seq(S)
  BY <1>3, AppendProperties
<1>5. Rows(Append(w, e))
  BY <1>3, <1>4, RowsAre
<1> QED BY <1>5 DEF e, tag

LEMMA RowDeleted ==
    ASSUME NEW w, Rows(w), NEW k \in DOMAIN w
    PROVE  Rows(RemoveAt(w, k))
<1> DEFINE S == {w[j] : j \in DOMAIN w}
<1>1. w \in Seq(S) /\ \A z \in S : Row(z)
  BY DEF Rows, Listed
<1> HIDE DEF S
<1>2. k \in 1 .. Len(w) /\ Len(w) \in Nat
  BY <1>1
<1>3. SubSeq(w, 1, k - 1) \in Seq(S)
  BY <1>1, <1>2
<1>4. SubSeq(w, k + 1, Len(w)) \in Seq(S)
  BY <1>1, <1>2
<1>5. RemoveAt(w, k) \in Seq(S)
  BY <1>3, <1>4, ConcatProperties DEF RemoveAt
<1> QED BY <1>1, <1>5, RowsAre

\* The controls, in the document of a geometry
Sections(pre, post) ==
    /\ Orderly(CardsOf(post))
    /\ \A k \in DOMAIN pre, j \in DOMAIN post :
          pre[k].card = "GE" => post[j].card \notin GeometryCards
Post(pre, post) == /\ Listed(post) /\ \A k \in DOMAIN post : Boxed(post[k])
                   /\ Sections(pre, post)

LEMMA BoxEdited ==
    ASSUME DocumentAssumption, NEW e0, Boxed(e0), NEW i \in Editable(e0.card),
           NEW x \in Offered(e0.card, i), NEW e, e = [e0 EXCEPT !.f[i] = x]
    PROVE  Boxed(e) /\ e.card = e0.card /\ e.card \in Controls
<1>1. e0.card \in Controls
  BY DEF Editable, Controls
<1>2. /\ DOMAIN e0 = {"card", "f"} /\ e0.card \in Known \ {"CE"} /\ DOMAIN e0.f = BoxesOf(e0)
      /\ \A j \in DOMAIN e0.f :
            /\ e0.f[j].v \in Int
            /\ j \notin Free(e0.card) /\ e0.f[j].as = "none"
                  => e0.card = "GN" /\ j \in {5, 6}
  BY DEF Boxed
<1>3. DOMAIN e = {"card", "f"} /\ e.card = e0.card /\ e.f = [e0.f EXCEPT ![i] = x]
  BY <1>2
<1>4. DOMAIN e.f = DOMAIN e0.f /\ \A j \in DOMAIN e0.f : e.f[j] = IF j = i THEN x ELSE e0.f[j]
  BY <1>3
<1>5. x.v \in Int /\ (i \notin Free(e0.card) => x.as # "none")
  BY OfferedIs DEF Free
<1>6. BoxesOf(e) = BoxesOf(e0)
  <2>1. CASE e0.card = "GN"
    <3>1. 2 \in DOMAIN e0.f
      BY <1>2, <2>1 DEF BoxesOf
    <3>2. i # 2
      BY <2>1 DEF Editable
    <3>3. e.f[2] = e0.f[2]
      BY <1>4, <3>1, <3>2
    <3> QED BY <1>3, <2>1, <3>3 DEF BoxesOf
  <2>2. CASE e0.card # "GN"
    BY <1>3, <2>2 DEF BoxesOf
  <2> QED BY <2>1, <2>2
<1>7. ASSUME NEW j \in DOMAIN e0.f
      PROVE  /\ e.f[j].v \in Int
             /\ j \notin Free(e0.card) =>
                   /\ Settled(e0.card, j, e.f[j].v)
                   /\ e.f[j].as = "none" => e0.card = "GN" /\ j \in {5, 6}
  <2>1. e.f[j].v \in Int
    BY <1>2, <1>4, <1>5
  <2>2. Settled(e0.card, j, e.f[j].v)
    BY <1>1, <2>1, ControlSettled
  <2>3. j \notin Free(e0.card) /\ e.f[j].as = "none" => e0.card = "GN" /\ j \in {5, 6}
    BY <1>2, <1>4, <1>5
  <2> QED BY <2>1, <2>2, <2>3
<1> HIDE DEF Boxed
<1>8. Boxed(e)
  BY <1>2, <1>3, <1>4, <1>6, <1>7 DEF Boxed
<1> QED BY <1>1, <1>3, <1>8

LEMMA ControlEdited ==
    ASSUME DocumentAssumption, NEW pre, NEW post, Post(pre, post), NEW k \in DOMAIN post,
           NEW i \in Editable(post[k].card), NEW x \in Offered(post[k].card, i)
    PROVE  Post(pre, [post EXCEPT ![k].f[i] = x])
<1> DEFINE e == [post[k] EXCEPT !.f[i] = x]
           u == [post EXCEPT ![k] = e]
           S == {post[j] : j \in DOMAIN post} \cup {e}
<1>1. /\ Listed(post) /\ \A j \in DOMAIN post : Boxed(post[j])
      /\ Orderly(CardsOf(post))
      /\ \A a \in DOMAIN pre, j \in DOMAIN post :
            pre[a].card = "GE" => post[j].card \notin GeometryCards
  BY DEF Post, Sections
<1>2. Boxed(e) /\ e.card = post[k].card /\ e.card \in Controls
  BY <1>1, BoxEdited
<1>3. [post EXCEPT ![k].f[i] = x] = u
  OBVIOUS
<1> HIDE DEF e
<1>4. DOMAIN u = DOMAIN post /\ \A j \in DOMAIN post : u[j] = IF j = k THEN e ELSE post[j]
  OBVIOUS
<1>5. Listed(u)
  <2>1. post \in Seq(S) /\ e \in S
    BY <1>1 DEF Listed
  <2> HIDE DEF S
  <2>2. u \in Seq(S)
    BY <2>1
  <2> QED BY <2>2, ListedIs
<1> HIDE DEF u
<1>6. Orderly(CardsOf(u))
  <2> SUFFICES ASSUME NEW s, s = CardsOf(post), NEW t, t = CardsOf(u)
               PROVE  Orderly(t)
    OBVIOUS
  <2>1. /\ List(post) /\ List(s) /\ Len(s) = Len(post)
        /\ \A j \in 1 .. Len(post) : s[j] = ToCard(post[j])
    BY <1>1, CardsOfListed
  <2>2. /\ List(u) /\ List(t) /\ Len(t) = Len(u)
        /\ \A j \in 1 .. Len(u) : t[j] = ToCard(u[j])
    BY <1>5, CardsOfListed
  <2>3. Len(u) = Len(post)
    BY <1>4, <2>1, <2>2 DEF List
  <2>4. ASSUME NEW j \in 1 .. Len(s)
        PROVE  t[j].card = s[j].card /\ (ZeroRadius(t[j]) <=> ZeroRadius(s[j]))
    <3>1. s[j] = ToCard(post[j]) /\ t[j] = ToCard(u[j]) /\ j \in DOMAIN post
      BY <2>1, <2>2, <2>3 DEF List
    <3>2. CASE j = k
      <4>1. s[j].card = e.card /\ t[j].card = e.card
        BY <1>2, <1>4, <3>1, <3>2 DEF ToCard
      <4> QED BY <1>2, <4>1 DEF ZeroRadius, Controls
    <3>3. CASE j # k
      BY <1>4, <3>1, <3>3
    <3> QED BY <3>2, <3>3
  <2> QED BY <1>1, <2>1, <2>2, <2>3, <2>4, OrderKept
<1>7. \A a \in DOMAIN pre, j \in DOMAIN u : pre[a].card = "GE" => u[j].card \notin GeometryCards
  BY <1>1, <1>2, <1>4
<1>8. \A j \in DOMAIN u : Boxed(u[j])
  BY <1>1, <1>2, <1>4
<1> QED BY <1>3, <1>5, <1>6, <1>7, <1>8 DEF Post, Sections

\* A control as it is added
LEMMA DefaultIs ==
    ASSUME NEW card \in {"GN", "LD", "EX"}
    PROVE  Boxed(Default(card)) /\ Default(card).card = card
<1> DEFINE g == CASE card = "EX" -> [i \in 1 .. 10 |-> IF i \in {2, 3, 5} THEN Whole ELSE 0]
                  [] card = "GN" -> [i \in {1, 2, 7, 8, 9, 10} |-> IF i = 1 THEN Whole ELSE 0]
                  [] card = "LD" -> [i \in 1 .. 7 |-> CASE i = 1 -> 4 * Whole
                                                        [] i \in 2 .. 4 -> Whole
                                                        [] OTHER -> 0]
           c == [card |-> card, f |-> g]
<1>1. Default(card) = Entry(c)
  BY DEF Default
<1>2. /\ card = "EX" => DOMAIN g = 1 .. 10
      /\ card = "GN" => DOMAIN g = {1, 2, 7, 8, 9, 10} /\ g[2] = 0
      /\ card = "LD" => DOMAIN g = 1 .. 7
      /\ g = [i \in DOMAIN g |-> g[i]]
      /\ \A i \in DOMAIN g : g[i] \in Int
  BY DEF Whole
<1> HIDE DEF g
<1>3. c.card = card /\ c.f = g
  OBVIOUS
<1> HIDE DEF c
<1>4. Regular(c)
  <2>1. DOMAIN c.f = Places(c)
    <3>1. CASE card = "GN"
      <4>1. 7 .. 10 = {7, 8, 9, 10}
        OBVIOUS
      <4> QED BY <1>2, <1>3, <3>1, <4>1 DEF Places
    <3>2. CASE card # "GN"
      BY <1>2, <1>3, <3>2, PlainPlaces DEF Places
    <3> QED BY <3>1, <3>2
  <2>2. \A i \in DOMAIN c.f : Settled(c.card, i, c.f[i])
    BY <1>2, <1>3, ControlSettled DEF Controls
  <2>3. c.card \in Known \ {"CE"}
    BY <1>3 DEF Known, Typed, PositionalCards
  <2>4. c = [card |-> c.card, f |-> [i \in DOMAIN c.f |-> c.f[i]]]
    BY <1>2, <1>3 DEF c
  <2> QED BY <2>1, <2>2, <2>3, <2>4 DEF Regular
<1> QED BY <1>1, <1>3, <1>4, EntryHolds, EntryOf

\* Where it is added
LEMMA InsertionIs ==
    ASSUME NEW post, Listed(post), NEW e, e.card \in {"GN", "LD", "EX"},
           NEW p, p = Insertion(post, e)
    PROVE  /\ p \in 1 .. (Len(post) + 1)
           /\ p <= Len(post) => post[p].card # "GC"
           /\ \A k \in 1 .. Len(post) : post[k].card = "EN" => p <= k
<1> DEFINE n == Len(post)
           T == {k \in DOMAIN post : OrderRank(post[k].card) > OrderRank(e.card)} \cup {n + 1}
<1>1. n \in Nat /\ DOMAIN post = 1 .. n
  BY DEF Listed
<1>2. OrderRank(e.card) \in {1, 2, 3}
  BY DEF OrderRank, GeometryCards
<1>3. OrderRank("GC") = 0 /\ OrderRank("EN") = 9
  BY DEF OrderRank, GeometryCards
<1>4. p = Min(T)
  BY DEF Insertion
<1> HIDE DEF n
<1>5. /\ T \subseteq Nat /\ T # {} /\ T \subseteq 1 .. (n + 1)
      /\ \A k \in T : k <= n => post[k].card # "GC"
      /\ \A k \in 1 .. n : post[k].card = "EN" => k \in T
  <2>1. T \subseteq Nat /\ T # {} /\ T \subseteq 1 .. (n + 1)
    BY <1>1
  <2>2. ASSUME NEW k \in T, k <= n
        PROVE  post[k].card # "GC"
    <3>1. OrderRank(post[k].card) > OrderRank(e.card)
      BY <1>1, <2>2
    <3> QED BY <1>2, <1>3, <3>1
  <2>3. ASSUME NEW k \in 1 .. n, post[k].card = "EN"
        PROVE  k \in T
    <3>1. OrderRank(post[k].card) > OrderRank(e.card)
      BY <1>2, <1>3, <2>3
    <3> QED BY <1>1, <3>1
  <2> QED BY <2>1, <2>2, <2>3
<1> HIDE DEF T
<1>6. p \in T /\ \A k \in T : p <= k
  BY <1>4, <1>5, LeastOf
<1> QED BY <1>5, <1>6 DEF n

LEMMA ControlAdded ==
    ASSUME NEW pre, NEW post, Post(pre, post), NEW card \in {"GN", "LD", "EX"}
    PROVE  Post(pre, InsertAt(post, Insertion(post, Default(card)), Default(card)))
<1> SUFFICES ASSUME NEW e, e = Default(card), NEW p, p = Insertion(post, e),
                    NEW u, u = InsertAt(post, p, e)
             PROVE  Post(pre, u)
  OBVIOUS
<1>1. /\ Listed(post) /\ \A j \in DOMAIN post : Boxed(post[j])
      /\ Orderly(CardsOf(post))
      /\ \A a \in DOMAIN pre, j \in DOMAIN post :
            pre[a].card = "GE" => post[j].card \notin GeometryCards
  BY DEF Post, Sections
<1>2. Boxed(e) /\ e.card = card
  BY DefaultIs
<1>3. /\ p \in 1 .. (Len(post) + 1)
      /\ p <= Len(post) => post[p].card # "GC"
      /\ \A k \in 1 .. Len(post) : post[k].card = "EN" => p <= k
  BY <1>1, <1>2, InsertionIs
<1>4. Listed(u) /\ Inserted(u, post, p) /\ u[p] = e
  BY <1>1, <1>3, InsertedAt
<1>5. Inserted(CardsOf(u), CardsOf(post), p)
  BY <1>1, <1>4, CardInserted
<1> DEFINE n == Len(post)
<1>6. /\ n \in Nat /\ Len(u) = n + 1 /\ DOMAIN post = 1 .. n /\ DOMAIN u = 1 .. (n + 1)
      /\ \A k \in 1 .. n : k < p => u[k] = post[k]
      /\ \A k \in 1 .. n : k >= p => u[k + 1] = post[k]
  BY <1>4 DEF Inserted, List
<1> HIDE DEF n
<1>7. \A k \in 1 .. (n + 1) : k = p \/ \E j \in 1 .. n : u[k] = post[j]
  <2> SUFFICES ASSUME NEW k \in 1 .. (n + 1), k # p
               PROVE  \E j \in 1 .. n : u[k] = post[j]
    OBVIOUS
  <2>1. p \in 1 .. (n + 1)
    BY <1>3 DEF n
  <2>2. CASE k < p
    <3>1. k \in 1 .. n
      BY <1>6, <2>1, <2>2
    <3> QED BY <1>6, <2>2, <3>1
  <2>3. CASE k > p
    <3>1. k - 1 \in 1 .. n /\ k - 1 >= p /\ (k - 1) + 1 = k
      BY <1>6, <2>1, <2>3
    <3>2. u[(k - 1) + 1] = post[k - 1]
      BY <1>6, <3>1
    <3> QED BY <3>1, <3>2
  <2> QED BY <1>6, <2>1, <2>2, <2>3
<1>8. ASSUME NEW k \in DOMAIN u
      PROVE  Boxed(u[k])
  <2>1. CASE k = p
    BY <1>2, <1>4, <2>1
  <2>2. CASE k # p
    <3>1. PICK j \in 1 .. n : u[k] = post[j]
      BY <1>6, <1>7, <2>2
    <3>2. Boxed(post[j])
      BY <1>1, <1>6
    <3> QED BY <3>1, <3>2
  <2> QED BY <2>1, <2>2
<1>9. \A a \in DOMAIN pre, j \in DOMAIN u : pre[a].card = "GE" => u[j].card \notin GeometryCards
  <2>1. e.card \notin GeometryCards
    BY <1>2 DEF GeometryCards
  <2> QED BY <1>1, <1>4, <1>6, <1>7, <2>1
<1>10. Orderly(CardsOf(u))
  <2> SUFFICES ASSUME NEW s, s = CardsOf(post), NEW t, t = CardsOf(u)
               PROVE  Orderly(t)
    OBVIOUS
  <2>1. Len(s) = n /\ \A j \in 1 .. n : s[j] = ToCard(post[j])
    BY <1>1, CardsOfListed DEF n
  <2>2. \A j \in 1 .. (n + 1) : t[j] = ToCard(u[j])
    BY <1>4, <1>6, CardsOfListed
  <2>3. p \in 1 .. (n + 1)
    BY <1>3 DEF n
  <2>4. t[p].card \in Controls
    <3>1. t[p] = ToCard(e)
      BY <1>4, <2>2, <2>3
    <3> QED BY <1>2, <3>1, CardOfEntry DEF Controls
  <2>5. p <= n => s[p].card # "GC"
    <3>1. p <= n => p \in 1 .. n
      BY <1>6, <2>3
    <3>2. p <= n => post[p].card # "GC"
      BY <1>3 DEF n
    <3> QED BY <2>1, <3>1, <3>2, CardOfEntry
  <2>6. \A k \in 1 .. n : s[k].card = "EN" => p <= k
    <3>1. \A k \in 1 .. n : post[k].card = "EN" => p <= k
      BY <1>3 DEF n
    <3> QED BY <2>1, <3>1, CardOfEntry
  <2> QED BY <1>1, <1>5, <2>1, <2>4, <2>5, <2>6, OrderInserted
<1> QED BY <1>4, <1>8, <1>9, <1>10 DEF Post, Sections

LEMMA ControlDeleted ==
    ASSUME NEW pre, NEW post, Post(pre, post), NEW k \in DOMAIN post, Editable(post[k].card) # {}
    PROVE  Post(pre, RemoveAt(post, k))
<1> SUFFICES ASSUME NEW u, u = RemoveAt(post, k)
             PROVE  Post(pre, u)
  OBVIOUS
<1>1. /\ Listed(post) /\ \A j \in DOMAIN post : Boxed(post[j])
      /\ Orderly(CardsOf(post))
      /\ \A a \in DOMAIN pre, j \in DOMAIN post :
            pre[a].card = "GE" => post[j].card \notin GeometryCards
  BY DEF Post, Sections
<1>2. k \in 1 .. Len(post)
  BY <1>1 DEF Listed
<1>3. Listed(u) /\ Inserted(post, u, k)
  BY <1>1, <1>2, RemovedAt
<1>4. Inserted(CardsOf(post), CardsOf(u), k)
  BY <1>1, <1>3, CardInserted
<1>5. Orderly(CardsOf(u))
  <2>1. CardsOf(post)[k] = ToCard(post[k])
    BY <1>1, <1>2, CardsOfListed
  <2>2. post[k].card \in Controls
    BY DEF Editable, Controls
  <2>3. CardsOf(post)[k].card \in Controls
    BY <2>1, <2>2 DEF ToCard
  <2> SUFFICES ASSUME NEW s, s = CardsOf(post), NEW t, t = CardsOf(u)
               PROVE  Orderly(t)
    OBVIOUS
  <2> QED BY <1>1, <1>4, <2>3, OrderRemoved
<1>6. \A j \in DOMAIN u : \E i \in DOMAIN post : u[j] = post[i]
  <2> DEFINE n == Len(u)
  <2>1. /\ n \in Nat /\ DOMAIN u = 1 .. n /\ DOMAIN post = 1 .. (n + 1)
        /\ \A j \in 1 .. n : j < k => post[j] = u[j]
        /\ \A j \in 1 .. n : j >= k => post[j + 1] = u[j]
    BY <1>3 DEF Inserted, List
  <2> HIDE DEF n
  <2>2. \A j \in 1 .. n : j \in 1 .. (n + 1) /\ j + 1 \in 1 .. (n + 1)
    BY <2>1
  <2>3. \A j \in 1 .. n : j < k \/ j >= k
    BY <1>2, <2>1
  <2> QED BY <2>1, <2>2, <2>3
<1> QED BY <1>1, <1>3, <1>5, <1>6 DEF Post, Sections
-----------------------------------------------------------------------------
(* What is saved reads back                                                *)

\* The deck of a valid document is in its order, its cards as they are read.
LEMMA DeckInOrder ==
    ASSUME NEW d, PartsForm(d), PartsOrder(d), Valid(d), InPlace(d), NEW deck, deck = ToDeck(d)
    PROVE  /\ Listed(deck) /\ Orderly(deck)
           /\ \A k \in DOMAIN deck : Regular(deck[k])
<1> DEFINE a == Len(d.pre)
           b == Len(d.wires)
           c == Len(d.post)
<1>1. /\ Listed(d.pre) /\ Listed(d.wires) /\ Listed(d.post)
      /\ \A k \in DOMAIN d.pre : Regular(ToCard(d.pre[k]))
      /\ \A k \in DOMAIN d.wires : Row(d.wires[k]) /\ WireValid(d.wires[k])
      /\ \A k \in DOMAIN d.post : Boxed(d.post[k]) /\ ControlValid(d.post[k])
  BY DEF PartsForm, Valid
<1>2. PICK x : x = CardsOf(d.pre)
  OBVIOUS
<1>3. PICK y : y = CardsOf(d.wires)
  OBVIOUS
<1>4. PICK z : z = CardsOf(d.post)
  OBVIOUS
<1>5. /\ List(x) /\ Len(x) = a /\ DOMAIN d.pre = 1 .. a
      /\ \A k \in 1 .. a : x[k] = ToCard(d.pre[k])
  BY <1>1, <1>2, CardsOfListed DEF List
<1>6. /\ List(y) /\ Len(y) = b /\ DOMAIN d.wires = 1 .. b
      /\ \A k \in 1 .. b : y[k] = ToCard(d.wires[k])
  BY <1>1, <1>3, CardsOfListed DEF List
<1>7. /\ List(z) /\ Len(z) = c /\ DOMAIN d.post = 1 .. c
      /\ \A k \in 1 .. c : z[k] = ToCard(d.post[k])
  BY <1>1, <1>4, CardsOfListed DEF List
<1>8. a \in Nat /\ b \in Nat /\ c \in Nat
  BY <1>5, <1>6, <1>7 DEF List
<1>9. InParts(deck, d)
  BY <1>1, EntriesInOrder
<1>10. /\ Listed(deck) /\ Len(deck) = a + b + c
       /\ \A k \in 1 .. a : deck[k] = x[k]
       /\ \A k \in 1 .. b : deck[a + k] = y[k]
       /\ \A k \in 1 .. c : deck[a + b + k] = z[k]
  BY <1>2, <1>3, <1>4, <1>9 DEF InParts
<1>11. /\ b > 0 => \A k \in 1 .. a : d.pre[k].card \notin {"GE", "EN"}
       /\ c > 0 => \A k \in 1 .. a : d.pre[k].card # "EN"
  <2>1. b > 0 => d.wires # <<>>
    OBVIOUS
  <2>2. c > 0 => d.post # <<>>
    OBVIOUS
  <2> QED BY <1>5, <2>1, <2>2 DEF InPlace
<1> HIDE DEF a, b, c
<1>12. \A k \in 1 .. a : Regular(x[k]) /\ x[k].card = d.pre[k].card
  BY <1>1, <1>5, CardOfEntry
<1>13. \A k \in 1 .. b : Regular(y[k]) /\ y[k].card = "GW" /\ ~ZeroRadius(y[k])
  BY <1>1, <1>6, RowIsRegular
<1>14. \A k \in 1 .. c : Regular(z[k]) /\ z[k].card = d.post[k].card
  BY <1>1, <1>7, BoxedIsRegular, CardOfEntry
<1>15. DOMAIN deck = 1 .. (a + b + c) /\ List(deck)
  BY <1>8, <1>10 DEF Listed, List
<1>16. \A k \in 1 .. (a + b + c) :
           \/ k \in 1 .. a
           \/ k - a \in 1 .. b /\ a + (k - a) = k
           \/ k - (a + b) \in 1 .. c /\ a + b + (k - (a + b)) = k
  BY <1>8
<1>17. \A k \in DOMAIN deck : Regular(deck[k])
  BY <1>10, <1>12, <1>13, <1>14, <1>15, <1>16
<1>18. Orderly(x) /\ Orderly(z)
  BY <1>2, <1>4 DEF PartsOrder
<1>19. Orderly(y)
  <2>1. DOMAIN y = 1 .. b
    BY <1>6 DEF List
  <2>2. Paired(y)
    BY <1>6, <1>13 DEF Paired
  <2>3. GeometryFirst(y) /\ EnLast(y)
    BY <1>13, <2>1 DEF GeometryFirst, EnLast
  <2> QED BY <1>6, <2>2, <2>3, PairingForm DEF Orderly
<1>20. PICK u : u = [k \in 1 .. (a + b) |-> deck[k]]
  OBVIOUS
<1>21. /\ List(u) /\ Len(u) = a + b
       /\ \A k \in 1 .. (a + b) : u[k] = deck[k]
       /\ \A k \in 1 .. a : u[k] = x[k]
       /\ \A k \in 1 .. b : u[a + k] = y[k]
  <2>1. List(u) /\ Len(u) = a + b /\ \A k \in 1 .. (a + b) : u[k] = deck[k]
    BY <1>8, <1>20 DEF List
  <2>2. /\ \A k \in 1 .. a : k \in 1 .. (a + b)
        /\ \A k \in 1 .. b : a + k \in 1 .. (a + b)
    BY <1>8, Spans
  <2> QED BY <1>10, <2>1, <2>2
<1>22. Orderly(u)
  <2>1. ASSUME NEW k \in 1 .. a, NEW j \in 1 .. b, x[k].card = "GE"
        PROVE  FALSE
    <3>1. b > 0
      BY <1>8, <2>1
    <3> QED BY <1>11, <1>12, <2>1, <3>1
  <2>2. ASSUME NEW k \in 1 .. a, x[k].card = "EN"
        PROVE  b = 0
    <3>1. ~(b > 0)
      BY <1>11, <1>12, <2>2
    <3> QED BY <1>8, <3>1
  <2>3. MayFollow(x, y)
    BY <1>5, <1>6, <2>1, <2>2 DEF MayFollow
  <2>4. OneBehind(u, x, y)
    BY <1>5, <1>6, <1>21 DEF OneBehind
  <2> QED BY <1>5, <1>6, <1>18, <1>19, <2>3, <2>4, OrderJoined
<1>23. ASSUME NEW k \in 1 .. (a + b), NEW card \in {"GE", "EN"}, u[k].card = card
       PROVE  \E j \in 1 .. a : d.pre[j].card = card
  <2>1. CASE k \in 1 .. a
    BY <1>12, <1>21, <1>23, <2>1
  <2>2. CASE k \notin 1 .. a
    <3>1. k - a \in 1 .. b /\ a + (k - a) = k
      BY <1>8, <2>2
    <3>2. u[k] = y[k - a]
      BY <1>21, <3>1
    <3> QED BY <1>13, <1>23, <3>1, <3>2
  <2> QED BY <2>1, <2>2
<1>24. Orderly(deck)
  <2>1. ASSUME NEW k \in 1 .. (a + b), NEW j \in 1 .. c, u[k].card = "GE"
        PROVE  z[j].card \notin GeometryCards
    <3>1. PICK i \in 1 .. a : d.pre[i].card = "GE"
      BY <1>23, <2>1
    <3>2. d.post[j].card \notin GeometryCards
      BY <1>5, <1>7, <3>1 DEF PartsOrder
    <3> QED BY <1>14, <3>2
  <2>2. ASSUME NEW k \in 1 .. (a + b), u[k].card = "EN"
        PROVE  c = 0
    <3>1. PICK i \in 1 .. a : d.pre[i].card = "EN"
      BY <1>23, <2>2
    <3>2. ~(c > 0)
      BY <1>11, <3>1
    <3> QED BY <1>8, <3>2
  <2>3. MayFollow(u, z)
    BY <1>7, <1>21, <2>1, <2>2 DEF MayFollow
  <2>4. OneBehind(deck, u, z)
    BY <1>7, <1>10, <1>15, <1>21 DEF OneBehind
  <2> QED BY <1>7, <1>18, <1>21, <1>22, <2>3, <2>4, OrderJoined
<1> QED BY <1>10, <1>17, <1>24

LEMMA InvariantReadsBack ==
    ASSUME DocumentAssumption, ReadInv, PartsInv
    PROVE  RenderedReadsBack
<1> SUFFICES ASSUME doc.open, Valid(doc), InPlace(doc), NEW deck, deck = ToDeck(doc),
                    NEW back, back = Parse(WriteDeck(deck))
             PROVE  /\ edits = 0 => back.status = "parsed" /\ back.cards = reader.cards
                    /\ back.status = "refused" => back.why \in {"field", "ground"}
                    /\ back.status = "parsed" /\ (\A k \in DOMAIN deck : SaysItsMedium(deck[k]))
                         => back.cards = deck
  BY DEF RenderedReadsBack
<1>1. /\ ReadAgain(reader) /\ PartsForm(doc) /\ PartsOrder(doc)
      /\ edits = 0 => deck = reader.cards
  BY DEF PartsInv
<1>2. ASSUME edits = 0
      PROVE  back.status = "parsed" /\ back.cards = reader.cards
  <2>1. reader.status = "parsed" /\ deck = reader.cards
    BY <1>1, <1>2 DEF ReadInv, DocForm
  <2> QED BY <1>1, <2>1 DEF ReadAgain
<1>3. /\ Listed(deck) /\ Orderly(deck)
      /\ \A k \in DOMAIN deck : Regular(deck[k])
  BY <1>1, DeckInOrder
<1>4. /\ back.status = "refused" => back.why \in {"field", "ground"}
      /\ back.status = "parsed" /\ (\A k \in DOMAIN deck : SaysItsMedium(deck[k]))
           => back.cards = deck
  <2> DEFINE S == {deck[k] : k \in DOMAIN deck}
  <2>1. deck \in Seq(S)
    BY <1>3 DEF Listed
  <2> HIDE DEF S
  <2> QED BY <1>3, <2>1, WrittenInOrder
<1> QED BY <1>2, <1>4

LEMMA DocumentStart ==
    ASSUME DocInit
    PROVE  PartsInv
<1>1. reader = Start /\ doc = NoDocument /\ edits = 0
  BY DEF DocInit
<1>2. Start.cards = <<>> /\ Start.status = "reading"
  BY DEF Start
<1>3. EndsWell(reader)
  BY <1>1, <1>2 DEF EndsWell
<1>4. ReadAgain(reader)
  <2>1. WriteDeck(<<>>) = <<>>
    BY DEF WriteDeck
  <2> DEFINE g == [k \in {0} |-> Start]
  <2>2. Chain(<<>>, g) /\ g[0] = Start
    BY DEF Chain, Upto
  <2>3. ReadsLike(Start, Start)
    <3>1. IsReader(Start)
      <4>1. Start.cards = <<>> /\ Start.at = <<>>
        BY DEF Start
      <4> QED BY <4>1, StartForm DEF IsReader
    <3> QED BY <1>2, <3>1 DEF ReadsLike, Alike
  <2> HIDE DEF g
  <2>4. Chain(WriteDeck(reader.cards), g) /\ ReadsLike(g[Len(reader.cards)], reader)
    BY <1>1, <1>2, <2>1, <2>2, <2>3
  <2> QED BY <1>1, <1>2, <2>4 DEF ReadAgain
<1> QED BY <1>1, <1>3, <1>4 DEF PartsInv, NoDocument

LEMMA DocumentEdited ==
    ASSUME DocumentAssumption, DocForm, PartsInv,
           EditWire \/ AddWire \/ DeleteWire \/ EditControl \/ AddControl \/ DeleteControl
    PROVE  PartsInv'
<1>1. /\ doc.open /\ reader' = reader /\ edits' = edits + 1
      /\ ReadAgain(reader) /\ EndsWell(reader) /\ edits \in Nat
      /\ PartsForm(doc) /\ PartsOrder(doc)
      /\ DOMAIN doc = {"pre", "wires", "post", "open"}
  <2>1. Edit
    BY DEF EditWire, AddWire, DeleteWire, EditControl, AddControl, DeleteControl
  <2> QED BY <2>1 DEF Edit, PartsInv, DocForm
<1>2. /\ Listed(doc.pre) /\ \A k \in DOMAIN doc.pre : Regular(ToCard(doc.pre[k]))
      /\ Orderly(CardsOf(doc.pre))
      /\ Rows(doc.wires) /\ Post(doc.pre, doc.post)
  BY <1>1 DEF PartsForm, PartsOrder, Rows, Post, Sections
<1>3. SUFFICES doc'.pre = doc.pre /\ Rows(doc'.wires) /\ Post(doc.pre, doc'.post)
  <2> SUFFICES ASSUME doc'.pre = doc.pre, Rows(doc'.wires), Post(doc.pre, doc'.post)
               PROVE  PartsInv'
    OBVIOUS
  <2>1. PartsForm(doc') /\ PartsOrder(doc')
    BY <1>2 DEF PartsForm, PartsOrder, Rows, Post, Sections
  <2>2. edits' \in Nat /\ edits' # 0
    BY <1>1
  <2> QED BY <1>1, <2>1, <2>2 DEF PartsInv
<1>4. CASE EditWire
  <2>1. PICK k \in DOMAIN doc.wires, i \in 1 .. 9, x \in Inputs :
               doc' = [doc EXCEPT !.wires[k].f[i] = x]
    BY <1>4 DEF EditWire
  <2>2. x.v \in Int
    BY DEF DocumentAssumption
  <2>3. Rows([doc.wires EXCEPT ![k].f[i] = x])
    BY <1>2, <2>2, RowEdited
  <2> DEFINE w == [doc.wires EXCEPT ![k].f[i] = x]
  <2>4. doc' = [doc EXCEPT !.wires = w]
    BY <2>1
  <2> HIDE DEF w
  <2>5. doc'.pre = doc.pre /\ doc'.post = doc.post /\ doc'.wires = w
    BY <1>1, <2>4
  <2> QED BY <1>2, <2>3, <2>5 DEF w
<1>5. CASE AddWire
  <2> DEFINE w == Append(doc.wires, DefaultWire(NextTag(doc.wires)))
  <2>1. doc' = [doc EXCEPT !.wires = w]
    BY <1>5 DEF AddWire
  <2>2. Rows(w)
    BY <1>2, RowAdded
  <2> HIDE DEF w
  <2>3. doc'.pre = doc.pre /\ doc'.post = doc.post /\ doc'.wires = w
    BY <1>1, <2>1
  <2> QED BY <1>2, <2>2, <2>3
<1>6. CASE DeleteWire
  <2>1. PICK k \in DOMAIN doc.wires : doc' = [doc EXCEPT !.wires = RemoveAt(doc.wires, k)]
    BY <1>6 DEF DeleteWire
  <2>2. Rows(RemoveAt(doc.wires, k))
    BY <1>2, RowDeleted
  <2>3. /\ doc'.pre = doc.pre /\ doc'.post = doc.post
        /\ doc'.wires = RemoveAt(doc.wires, k)
    BY <1>1, <2>1
  <2> QED BY <1>2, <2>2, <2>3
<1>7. CASE EditControl
  <2>1. PICK k \in DOMAIN doc.post : \E i \in Editable(doc.post[k].card) :
               \E x \in Offered(doc.post[k].card, i) :
                  doc' = [doc EXCEPT !.post[k].f[i] = x]
    BY <1>7 DEF EditControl
  <2>2. PICK i \in Editable(doc.post[k].card) :
               \E x \in Offered(doc.post[k].card, i) :
                  doc' = [doc EXCEPT !.post[k].f[i] = x]
    BY <2>1
  <2>3. PICK x \in Offered(doc.post[k].card, i) : doc' = [doc EXCEPT !.post[k].f[i] = x]
    BY <2>2
  <2> DEFINE t == [doc.post EXCEPT ![k].f[i] = x]
  <2>4. Post(doc.pre, t)
    BY <1>2, ControlEdited
  <2>5. doc' = [doc EXCEPT !.post = t]
    BY <2>3
  <2> HIDE DEF t
  <2>6. doc'.pre = doc.pre /\ doc'.wires = doc.wires /\ doc'.post = t
    BY <1>1, <2>5
  <2> QED BY <1>2, <2>4, <2>6
<1>8. CASE AddControl
  <2>1. PICK card \in {"GN", "LD", "EX"} :
               doc' = [doc EXCEPT !.post = InsertAt(doc.post, Insertion(doc.post, Default(card)),
                                                    Default(card))]
    BY <1>8 DEF AddControl
  <2> DEFINE t == InsertAt(doc.post, Insertion(doc.post, Default(card)), Default(card))
  <2>2. Post(doc.pre, t)
    BY <1>2, ControlAdded
  <2> HIDE DEF t
  <2>3. doc'.pre = doc.pre /\ doc'.wires = doc.wires /\ doc'.post = t
    BY <1>1, <2>1 DEF t
  <2> QED BY <1>2, <2>2, <2>3
<1>9. CASE DeleteControl
  <2>1. PICK k \in DOMAIN doc.post : /\ Editable(doc.post[k].card) # {}
                                     /\ doc' = [doc EXCEPT !.post = RemoveAt(doc.post, k)]
    BY <1>9 DEF DeleteControl
  <2>2. Post(doc.pre, RemoveAt(doc.post, k))
    BY <1>2, <2>1, ControlDeleted
  <2>3. /\ doc'.pre = doc.pre /\ doc'.wires = doc.wires
        /\ doc'.post = RemoveAt(doc.post, k)
    BY <1>1, <2>1
  <2> QED BY <1>2, <2>2, <2>3
<1> QED BY <1>4, <1>5, <1>6, <1>7, <1>8, <1>9

LEMMA DocumentStep ==
    ASSUME DocumentAssumption, ReadInv, PartsInv, [DocNext]_docVars
    PROVE  PartsInv'
<1>1. /\ TextForm /\ DocForm /\ ReadFrom(text, reader) /\ IsReader(reader)
      /\ alphabet \in DOMAIN Alphabets
      /\ ReadAgain(reader) /\ EndsWell(reader) /\ edits \in Nat
      /\ doc.open => reader.status = "parsed"
  BY DEF ReadInv, TextForm, DocForm, PartsInv, IsReader
<1>2. CASE Read
  <2>1. PICK l \in Alphabets[alphabet].lines :
                /\ reader.status = "reading" /\ reader' = ReadLine(reader, l)
                /\ UNCHANGED <<doc, edits>>
    BY <1>2 DEF Read
  <2>2. l \in Lines
    BY <1>1 DEF Lines
  <2>3. ReadAgain(reader') /\ EndsWell(reader')
    BY <1>1, <2>1, <2>2, LineAgain, LineEndsWell
  <2> QED BY <1>1, <2>1, <2>3 DEF PartsInv
<1>3. CASE EndOfText
  <2>1. /\ reader.status = "reading" /\ reader' = Finish(reader)
        /\ UNCHANGED <<doc, edits>>
    BY <1>3 DEF EndOfText
  <2>2. ReadAgain(reader') /\ EndsWell(reader')
    BY <1>1, <2>1, EndAgain, EndEndsWell
  <2> QED BY <1>1, <2>1, <2>2 DEF PartsInv
<1>4. CASE Open
  <2>1. /\ reader.status = "parsed" /\ doc' = FromDeck(reader.cards)
        /\ reader' = reader /\ edits' = edits
    BY <1>4 DEF Open
  <2>2. /\ reader.cards \in Seq(Cards) /\ Orderly(reader.cards)
        /\ \A k \in DOMAIN reader.cards : Regular(reader.cards[k])
    BY <1>1, <2>1, DeckThatIsRead
  <2>3. PartsForm(doc') /\ PartsOrder(doc') /\ ToDeck(doc') = reader.cards
    BY <2>1, <2>2, Opened
  <2> QED BY <1>1, <2>1, <2>3 DEF PartsInv
<1>5. CASE EditWire \/ AddWire \/ DeleteWire \/ EditControl \/ AddControl \/ DeleteControl
  BY <1>1, <1>5, DocumentEdited
<1>6. CASE UNCHANGED docVars
  BY <1>6 DEF docVars, PartsInv
<1> QED BY <1>2, <1>3, <1>4, <1>5, <1>6 DEF DocNext

\* Of every behaviour of the document
THEOREM DocumentReadsBack == ASSUME DocumentAssumption PROVE DocSpec => []RenderedReadsBack
<1>1. DocInit => ReadInv /\ PartsInv
  BY ReadStart, DocumentStart
<1>2. ReadInv /\ PartsInv /\ [DocNext]_docVars => (ReadInv /\ PartsInv)'
  BY ReadStep, DocumentStep
<1>3. ReadInv /\ PartsInv => RenderedReadsBack
  BY InvariantReadsBack
<1> QED BY <1>1, <1>2, <1>3, PTL DEF DocSpec

\* What is saved is the document: of any text and any edits, its text reads back as its
\* deck, card for card and field for field, and unedited as the deck that was read; if the
\* document is valid and keeps its GE and EN in place, and but for the medium of a GN.
THEOREM SavedReadsBack == Spec => []RenderedReadsBack
<1>1. DocumentAssumption
  BY EditorAndDocument
<1>2. DocSpec => []RenderedReadsBack
  BY <1>1, DocumentReadsBack
<1> QED BY <1>2, DocumentOfEditor, PTL
=============================================================================
