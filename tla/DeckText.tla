------------------------------ MODULE DeckText ------------------------------
(***************************************************************************)
(* Reading a deck's text, line by line, into typed cards, the record of    *)
(* its program cards and its warnings (crates/nec_parser/src/lib.rs).      *)
(*                                                                         *)
(* A line is its mnemonic and its fields; "" is a blank line, "'" an       *)
(* editor's comment.  A field is the number it says, in halves so that     *)
(* fractions can be told from whole numbers, and how it is written: as an  *)
(* integer, as a real, or as no finite number.  A typed card is its values *)
(* by the position of the field they come from; a position it does not     *)
(* hold is not in its domain.                                              *)
(***************************************************************************)
EXTENDS Integers, Sequences, SequencesExt

Field == [v : Int, as : {"int", "real", "bad"}]

Half == 1
Whole == 2    \* what a field that says 1 holds

GeometryCards == {"GW", "GC", "GM", "GR", "GS", "GX", "GA", "GH", "GE"}
PositionalCards == {"FR", "RP", "GN", "LD", "EX", "TL", "NT", "PT"}
NearCards == {"NE", "NH"}
Comments == {"CM", "CE"}
Typed == GeometryCards \cup PositionalCards \cup NearCards

\* OTHER_CARDS.  A mnemonic in neither set nor parsed is unknown, and refused as the
\* second set is.
IgnoredCards == {"XQ", "EK", "KH", "CP", "PQ", "PL", "WG", "GD"}
RefusedCards == {"GF", "SP", "SM", "SC", "NX", "SY"}

\* is_program_card
ProgramCard(card) == card \notin Comments \cup GeometryCards \cup {"SP", "SM", "SC"}
-----------------------------------------------------------------------------
(* Fields                                                                  *)

\* A missing field reads as zero; each arm reads those of Reads and no other.
Value(l, i) == IF i <= Len(l.f) THEN l.f[i].v ELSE 0
IntOf(l, i) == Value(l, i) \div Whole
IsPlain(l, i) == l.f[i].as = "int"
IsWhole(v) == v % Whole = 0

Need(card) ==
    CASE card \in {"GW", "GH"} -> 9 [] card = "GA" -> 6 [] card = "GC" -> 5
      [] card \in NearCards -> 4 [] card = "GS" -> 3 [] card = "GR" -> 2 [] OTHER -> 0

Reads(card) ==
    CASE card \in {"GW", "GH", "GM"} -> 1 .. 9 [] card = "GA" -> 1 .. 6
      [] card = "GC" -> 3 .. 5 [] card = "GR" -> 1 .. 3 [] card = "GS" -> {3}
      [] card = "GX" -> 1 .. 2 [] card = "GE" -> {1} [] card = "TL" -> 1 .. 12
      [] OTHER -> 1 .. 10

\* The fields that go through parse_whole; GM's first does not.
WholeFields(card) ==
    CASE card \in PositionalCards \cup NearCards -> 1 .. 4
      [] card \in {"GW", "GX", "GA", "GH", "GR"} -> 1 .. 2
      [] card = "GM" -> {2, 9} [] card = "GE" -> {1} [] OTHER -> {}

\* parse_u32 takes a negative number for 0 (`as u32`).
SaturatingFields(card) ==
    CASE card = "GW" -> {1, 2} [] card = "GM" -> {2, 9} [] card \in NearCards -> 1 .. 4
      [] OTHER -> {}

\* Positional::count, and the arms' own tests
NotNegative(card) ==
    CASE card \in {"EX", "TL", "NT"} -> 1 .. 4 [] card = "FR" -> 1 .. 2
      [] card \in {"RP", "LD", "PT"} -> 2 .. 4
      [] card \in {"GX", "GM", "GR"} -> {1}
      [] card = "GA" -> {1} [] card = "GH" -> {1, 5, 6, 7, 8}
      [] card = "GW" -> {9} [] OTHER -> {}

\* parse_radius, and the arms' own tests
Positive(card) ==
    CASE card = "GC" -> {3, 4, 5} [] card = "GA" -> {2, 3, 6} [] card = "GH" -> {2, 3, 9}
      [] card = "GS" -> {3} [] card = "GR" -> {2} [] OTHER -> {}

BadField(l) ==
    \/ Len(l.f) < Need(l.card)
    \/ \E i \in Reads(l.card) \cap DOMAIN l.f :
          \/ l.f[i].as = "bad"
          \/ i \in WholeFields(l.card) /\ ~IsWhole(l.f[i].v)
    \/ \E i \in NotNegative(l.card) : Value(l, i) < 0
    \/ \E i \in Positive(l.card) : Value(l, i) <= 0
-----------------------------------------------------------------------------
(* What a card may not say, beyond a bad field                             *)

\* One segment cannot taper; segments is the wire's.
GcRefused(l, segments) == segments = 1 /\ Value(l, 4) # Value(l, 5)

GeRefused(l) == IntOf(l, 1) \notin -1 .. 1

GxRefused(l) == IntOf(l, 2) \notin 0 .. 999

Degrees(n) == Whole * n

GaRefused(l) == LET turn == Value(l, 5) - Value(l, 4)
                    span == IF turn < 0 THEN -turn ELSE turn
                IN \/ span = 0 \/ span > Degrees(360)
                   \/ span >= Degrees(180) * IntOf(l, 2)

\* B1 = 0 stands for A1 in a uniform helix only.
GhRefused(l) ==
    LET a1 == Value(l, 5)  b1 == Value(l, 6)  a2 == Value(l, 7)  b2 == Value(l, 8)
    IN \/ Value(l, 4) = 0
       \/ a2 = a1 /\ b2 \notin {0, IF b1 = 0 THEN a1 ELSE b1}
       \/ a2 = a1 /\ a1 = 0
       \/ a2 # a1 /\ b1 = 0 /\ a1 # 0

\* A third field that is not 360/I2 is fnec's old reading of the card.
GrRefused(l) == Value(l, 3) # 0 /\ Value(l, 3) * IntOf(l, 2) # Degrees(360)

Finite(l) == IntOf(l, 1) \in {0, 2}
GnRefused(l) == \/ IntOf(l, 1) \notin -1 .. 2
                \/ Finite(l) /\ Value(l, 2) # 0

\* I4's units digit of a voltage source asks for the impedance print.
ExRefused(l) == /\ IntOf(l, 1) \in {0, 5}
                /\ \/ IntOf(l, 4) % 10 >= 2
                   \/ IntOf(l, 4) % 10 = 1 /\ Value(l, 7) < 0

\* fr_shorthand and rp_float_xnda: fnec's retired layouts of these cards
FrRefused(l) == Len(l.f) <= 4 /\ \E i \in 3 .. Len(l.f) : ~IsPlain(l, i)
RpRefused(l) == \/ Len(l.f) >= 4 /\ ~IsPlain(l, 4)
                \/ IntOf(l, 1) # 0

\* legacy_tl_layout: NSEG and TYPE in the places of Z0 and the length
TlRefused(l) == /\ Len(l.f) >= 8
                /\ IsPlain(l, 5) /\ IntOf(l, 5) \in 0 .. 16
                /\ IsPlain(l, 6) /\ IntOf(l, 6) \in 0 .. 1

CardRefused(l, segments) ==
    CASE l.card = "GC" -> GcRefused(l, segments) [] l.card = "GE" -> GeRefused(l)
      [] l.card = "GX" -> GxRefused(l) [] l.card = "GA" -> GaRefused(l)
      [] l.card = "GH" -> GhRefused(l) [] l.card = "GR" -> GrRefused(l)
      [] l.card = "GN" -> GnRefused(l) [] l.card = "EX" -> ExRefused(l)
      [] l.card = "FR" -> FrRefused(l) [] l.card = "RP" -> RpRefused(l)
      [] l.card = "TL" -> TlRefused(l) [] OTHER -> FALSE
-----------------------------------------------------------------------------
(* What is kept of a card, and what is said of the rest                    *)

Digit(n, place) == (n \div place) % 10
Set(n, place) == IF Digit(n, place) # 0 THEN 1 ELSE 0

\* The positions a typed card holds.  A GN that gives no medium holds none, one with
\* radials no second medium.
MediumGiven(l) == Value(l, 5) # 0 \/ Value(l, 6) # 0
Kept(l) ==
    CASE l.card \in {"GW", "GH", "GM"} -> 1 .. 9 [] l.card = "GA" -> 1 .. 6
      [] l.card = "GC" -> 3 .. 5 [] l.card \in {"GR", "GX"} -> 1 .. 2
      [] l.card = "GS" -> {3} [] l.card = "GE" -> {1}
      [] l.card = "GN" -> {1, 2} \cup (IF MediumGiven(l) THEN {5, 6} ELSE {})
                                 \cup (IF Value(l, 2) # 0 THEN {7, 8} ELSE 7 .. 10)
      [] l.card = "FR" -> {1, 2, 5, 6} [] l.card = "RP" -> 1 .. 8
      [] l.card = "LD" -> 1 .. 7 [] l.card = "PT" -> 1 .. 4 [] l.card = "TL" -> 1 .. 12
      [] l.card \in Comments \cup {"EN"} -> {}
      [] OTHER -> 1 .. 10

AtLeast(low, v) == IF v < low THEN low ELSE v

\* XNDA by its digits: N asks to normalize, D for the directive gain, A for the average.
Xnda(n) == 500 * Set(n, 100) + 10 * Set(n, 10) + Set(n, 1)
Planes(n) == 100 * (IF n >= 100 THEN 1 ELSE 0) + 10 * Set(n, 10) + Set(n, 1)

KeptValue(l, i) ==
    CASE i \in SaturatingFields(l.card) -> AtLeast(0, Value(l, i))
      [] l.card = "GM" /\ i = 1 -> Whole * IntOf(l, 1)
      [] l.card = "GX" /\ i = 2 -> Whole * Planes(IntOf(l, 2))
      [] l.card = "RP" /\ i \in {2, 3} -> AtLeast(Whole, Value(l, i))
      [] l.card = "RP" /\ i = 4 -> Whole * Xnda(IntOf(l, 4))
      [] l.card = "TL" /\ i = 11 /\ Len(l.f) < 11 -> Whole
      [] OTHER -> Value(l, i)

Card(l) == [card |-> IF l.card = "CE" THEN "CM" ELSE l.card,
            f |-> [i \in Kept(l) |-> KeptValue(l, i)]]

\* gn_card, rp_card and PT's arm: the fields warned of as ignored
FirstNonzero(l, fields) ==
    {i \in fields : Value(l, i) # 0 /\ \A j \in fields : Value(l, j) # 0 => i <= j}

GnWarned(l) == IF Finite(l) THEN FirstNonzero(l, 3 .. 4) \cup FirstNonzero(l, 7 .. 10)
                            ELSE FirstNonzero(l, 2 .. 10)

RpWarned(l) == LET n == Digit(IntOf(l, 4), 100)
               IN {i \in {4} : n \notin {0, 5}} \cup {i \in {9} : Value(l, 9) # 0}
                    \cup {i \in {10} : n # 0 /\ Value(l, 10) # 0}

Warned(l) == CASE l.card = "GN" -> GnWarned(l) [] l.card = "RP" -> RpWarned(l)
               [] l.card = "PT" -> {i \in {1} : IntOf(l, 1) \in 1 .. 3}
               [] OTHER -> {}

\* read_positional for the record of program cards; none when NEC could not read it.
Recorded(l) ==
    LET ten == DOMAIN l.f \cap 1 .. 10
    IN IF \E i \in ten : l.f[i].as = "bad" \/ (i <= 4 /\ ~IsWhole(l.f[i].v))
       THEN <<>> ELSE [i \in 1 .. 10 |-> Value(l, i)]
-----------------------------------------------------------------------------
(* The parser                                                              *)

\* n lines read; taper: the segments of a wire of radius 0 that awaits its GC, or NoTaper;
\* ge: the GE card's line; gn: the last GN's type, -1 for none; at: each card's line.
NoTaper == -1
Start == [cards |-> <<>>, at |-> <<>>, program |-> <<>>, warned |-> {}, n |-> 0,
          taper |-> NoTaper, ge |-> 0, plane |-> FALSE, gn |-> -1,
          status |-> "reading", why |-> "none"]

Refuse(s, why) == [s EXCEPT !.status = "refused", !.why = why]

\* GE 1 declares a ground plane, which only GN defines.
Finish(s) == CASE s.taper # NoTaper -> Refuse(s, "taper")
               [] s.taper = NoTaper /\ s.plane /\ s.gn = -1 -> Refuse(s, "ground")
               [] OTHER -> [s EXCEPT !.status = "parsed"]

Noted(s, l) ==
    IF ProgramCard(l.card)
    THEN [s EXCEPT !.program = Append(@, [card |-> l.card, line |-> s.n, f |-> Recorded(l)])]
    ELSE s

Take(s, l) ==
    [s EXCEPT !.cards = Append(@, Card(l)), !.at = Append(@, s.n),
              !.warned = @ \cup {<<s.n, i>> : i \in Warned(l)},
              !.taper = CASE l.card = "GW" /\ Value(l, 9) = 0 -> KeptValue(l, 2) \div Whole
                          [] l.card = "GC" -> NoTaper [] OTHER -> @,
              !.ge = IF l.card = "GE" THEN s.n ELSE @,
              !.plane = @ \/ (l.card = "GE" /\ IntOf(l, 1) = 1),
              !.gn = IF l.card = "GN" THEN IntOf(l, 1) ELSE @]

Judge(s, l) ==
    CASE l.card = "GC" /\ s.taper = NoTaper -> Refuse(s, "taper")
      [] l.card \in Typed /\ (l.card = "GC" => s.taper # NoTaper) ->
            IF BadField(l) \/ CardRefused(l, s.taper) THEN Refuse(s, "field") ELSE Take(s, l)
      [] l.card \in Comments -> Take(s, l)
      [] l.card = "EN" -> Finish(Take(s, l))
      [] l.card \in IgnoredCards -> [s EXCEPT !.warned = @ \cup {<<s.n, 0>>}]
      [] OTHER -> Refuse(s, "card")

\* Mutant: a comment may come between a tapered wire and its GC.
SplitsAcrossComments(s, l) == s.taper # NoTaper /\ l.card \notin Comments \cup {"GC"}

\* nec2c reads the very next card as the GC.
SplitsTaper(s, l) == s.taper # NoTaper /\ l.card # "GC"

\* One line.  A blank one is no card; a ' comment splits a taper like any card.
ReadLine(before, l) ==
    LET s == [before EXCEPT !.n = @ + 1]
    IN CASE s.status # "reading" -> before
         [] s.status = "reading" /\ l.card = "" -> s
         [] s.status = "reading" /\ l.card # "" /\ SplitsTaper(s, l) -> Refuse(s, "taper")
         [] s.status = "reading" /\ l.card = "'" /\ ~SplitsTaper(s, l) -> s
         [] s.status = "reading" /\ l.card \notin {"", "'"} /\ ~SplitsTaper(s, l) ->
               IF s.ge # 0 /\ l.card \in GeometryCards THEN Refuse(s, "after GE")
               ELSE Judge(Noted(s, l), l)

\* A whole text: nothing behind an EN or a refused line is read.
Parse(text) ==
    LET n == Len(text)
        read[k \in 0 .. n] == IF k = 0 THEN Start ELSE ReadLine(read[k - 1], text[k])
    IN IF read[n].status = "reading" THEN Finish(read[n]) ELSE read[n]
=============================================================================
