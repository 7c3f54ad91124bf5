---------------------------- MODULE DeckDocument ----------------------------
(***************************************************************************)
(* The visual editor's document: the deck DeckText reads, split into a     *)
(* table of wires and the cards around it, edited field by field, and      *)
(* written back as text (apps/nec-gui/src/model_doc.rs, deck_write.rs).    *)
(*                                                                         *)
(* An entry is a card whose boxes hold what was typed: a field as DeckText *)
(* reads it, or nothing.  Undo, files and tasks are DeckEditor's.          *)
(***************************************************************************)
EXTENDS DeckText, FiniteSets, FiniteSetsExt

CONSTANTS Alphabets,   \* of the texts: each its lines, and its longest text
          Inputs       \* what may be typed into a box

DocumentAssumption ==
    /\ \A a \in DOMAIN Alphabets :
           Alphabets[a].max \in Nat /\ \A l \in Alphabets[a].lines : l.f \in Seq(Field)
    /\ Inputs \subseteq [v : Int, as : {"int", "real", "bad", "none"}]

VARIABLES alphabet, text, \* the lines read so far
          reader,         \* the parser
          doc, edits      \* ModelDoc, and the edits made to it

docVars == <<alphabet, text, reader, doc, edits>>

NoDocument == [pre |-> <<>>, wires |-> <<>>, post |-> <<>>, open |-> FALSE]
-----------------------------------------------------------------------------
(* Cards and entries                                                       *)

\* fmt_f, u and i: a whole number is written without a point.
Shown(v) == [v |-> v, as |-> IF IsWhole(v) THEN "int" ELSE "real"]
Empty == [v |-> 0, as |-> "none"]

\* A medium GN does not give is an empty box.
Boxes(c) == DOMAIN c.f \cup (IF c.card = "GN" THEN {5, 6} ELSE {})
Entry(c) == [card |-> c.card,
             f |-> [i \in Boxes(c) |-> IF i \in DOMAIN c.f THEN Shown(c.f[i]) ELSE Empty]]

ToCard(e) == [card |-> e.card,
              f |-> [i \in {j \in DOMAIN e.f : e.f[j].as # "none"} |-> e.f[i].v]]

Number(x) == x.as \in {"int", "real"}
Count(x) == x.as = "int" /\ x.v >= 0          \* parse_u
Point(e, i) == <<e.f[i].v, e.f[i + 1].v, e.f[i + 2].v>>

WireValid(e) == /\ \A i \in 1 .. 2 : Count(e.f[i]) /\ e.f[i].v >= Whole
                /\ \A i \in 3 .. 9 : Number(e.f[i])
                /\ e.f[9].v > 0
                /\ Point(e, 3) # Point(e, 6)

ControlValid(e) ==
    CASE e.card = "EX" -> /\ \A i \in 1 .. 3 : Count(e.f[i])
                          /\ Number(e.f[5]) /\ Number(e.f[6])
      [] e.card = "GN" -> \A i \in 5 .. 6 : Number(e.f[i]) \/ e.f[i].as = "none"
      [] e.card = "LD" -> /\ \A i \in 2 .. 4 : Count(e.f[i])
                          /\ \A i \in 5 .. 7 : Number(e.f[i])
      [] e.card = "FR" -> /\ Count(e.f[2]) /\ e.f[2].v >= Whole
                          /\ Number(e.f[5]) /\ e.f[5].v > 0 /\ Number(e.f[6])
      [] OTHER -> TRUE

Valid(d) == /\ \A k \in DOMAIN d.wires : WireValid(d.wires[k])
            /\ \A k \in DOMAIN d.post : ControlValid(d.post[k])

Entries(d) == d.pre \o d.wires \o d.post

\* to_deck, of a document that is valid
ToDeck(d) == [k \in DOMAIN Entries(d) |-> ToCard(Entries(d)[k])]

\* from_deck: the table is the first block of plain wires.  A tapered wire ends it.
IsRow(c) == c.card = "GW" /\ c.f[9] # 0
FromDeck(cards) ==
    LET n == Len(cards)
        entries == [k \in 1 .. n |-> Entry(cards[k])]
        from == Min({k \in 1 .. n : IsRow(cards[k])} \cup {n + 1})
        to == Min({k \in from .. n : ~IsRow(cards[k])} \cup {n + 1})
    IN [pre |-> SubSeq(entries, 1, from - 1), wires |-> SubSeq(entries, from, to - 1),
        post |-> SubSeq(entries, to, n), open |-> TRUE]
-----------------------------------------------------------------------------
(* The writer                                                              *)

\* The fields of a card's line, and how many stay when trailing zeros are dropped.
Fields(card) == CASE card \in {"GW", "GM", "GH"} -> 9 [] card \in {"GA", "FR"} -> 6
                  [] card = "GC" -> 5 [] card = "GS" -> 3 [] card \in {"GR", "GX"} -> 2
                  [] card = "GE" -> 1 [] card = "LD" -> 7 [] card = "TL" -> 12
                  [] card = "RP" -> 8 [] card = "PT" -> 4
                  [] card \in {"CM", "EN"} -> 0 [] OTHER -> 10
Fixed(card) == CASE card = "GN" -> 1 [] card \in {"LD", "EX"} -> 4 [] OTHER -> Fields(card)

\* Mutant: a line's Z0 and length are written as any other number.
WrittenWhole(card, i, v) == Shown(v)

\* f_dec: never a bare integer where a retired layout of TL had one.
WrittenField(card, i, v) ==
    IF card = "TL" /\ i \in 5 .. 6 THEN [v |-> v, as |-> "real"] ELSE Shown(v)

\* A field the card does not hold is written 0.
WriteCard(c) ==
    LET held == [i \in 1 .. Fields(c.card) |-> IF i \in DOMAIN c.f THEN c.f[i] ELSE 0]
        last == Max({Fixed(c.card)} \cup {i \in DOMAIN held : held[i] # 0})
    IN [card |-> c.card, f |-> [i \in 1 .. last |-> WrittenField(c.card, i, held[i])]]

WriteDeck(cards) == [k \in DOMAIN cards |-> WriteCard(cards[k])]
-----------------------------------------------------------------------------
(* Edits                                                                   *)

Editable(card) == CASE card = "EX" -> {1, 2, 3, 5, 6} [] card = "GN" -> {1, 5, 6}
                    [] card = "LD" -> 1 .. 7 [] card = "FR" -> {1, 2, 5, 6}
                    [] OTHER -> {}

\* A pick list offers its numbers, a text box takes anything.
Offered(card, i) == CASE card = "GN" /\ i = 1 -> {Shown(Whole * k) : k \in -1 .. 2}
                      [] card = "LD" /\ i = 1 -> {Shown(Whole * k) : k \in 0 .. 5}
                      [] card = "FR" /\ i = 1 -> {Shown(Whole * k) : k \in 0 .. 1}
                      [] OTHER -> Inputs

Default(card) ==
    Entry([card |-> card,
           f |-> CASE card = "EX" -> [i \in 1 .. 10 |-> IF i \in {2, 3, 5} THEN Whole ELSE 0]
                   [] card = "GN" -> [i \in {1, 2, 7, 8, 9, 10} |-> IF i = 1 THEN Whole ELSE 0]
                   [] card = "LD" -> [i \in 1 .. 7 |-> CASE i = 1 -> 4 * Whole
                                                         [] i \in 2 .. 4 -> Whole
                                                         [] OTHER -> 0]])

\* new_default, its radius any small one
DefaultWire(tag) ==
    Entry([card |-> "GW",
           f |-> [i \in 1 .. 9 |-> CASE i = 1 -> tag [] i \in {2, 6} -> Whole
                                     [] i = 9 -> Half [] OTHER -> 0]])

NextTag(wires) == Whole + Max({0} \cup {wires[k].f[1].v : k \in {j \in DOMAIN wires :
                                                                    Count(wires[j].f[1])}})

OrderRank(card) == CASE card = "GN" -> 1 [] card = "LD" -> 2 [] card = "EX" -> 3
                     [] card = "FR" -> 4 [] card \in GeometryCards \cup {"CM"} -> 0
                     [] card = "EN" -> 9 [] OTHER -> 5

Insertion(post, e) ==
    Min({k \in DOMAIN post : OrderRank(post[k].card) > OrderRank(e.card)} \cup {Len(post) + 1})
-----------------------------------------------------------------------------
DocInit == /\ alphabet \in DOMAIN Alphabets
           /\ text = <<>> /\ reader = Start
           /\ doc = NoDocument /\ edits = 0

Read == /\ reader.status = "reading" /\ Len(text) < Alphabets[alphabet].max
        /\ \E l \in Alphabets[alphabet].lines : text' = Append(text, l) /\ reader' = ReadLine(reader, l)
        /\ UNCHANGED <<alphabet, doc, edits>>

EndOfText == /\ reader.status = "reading"
             /\ reader' = Finish(reader)
             /\ UNCHANGED <<alphabet, text, doc, edits>>

Open == /\ reader.status = "parsed" /\ ~doc.open
        /\ doc' = FromDeck(reader.cards)
        /\ UNCHANGED <<alphabet, text, reader, edits>>

\* Bound: lines and edits together, and a document once invalid is not edited on.
Edit == /\ doc.open /\ Valid(doc) /\ Len(text) + edits < Alphabets[alphabet].max
        /\ edits' = edits + 1
        /\ UNCHANGED <<alphabet, text, reader>>

EditWire == /\ Edit
            /\ \E k \in DOMAIN doc.wires, i \in 1 .. 9, x \in Inputs :
                  doc' = [doc EXCEPT !.wires[k].f[i] = x]

EditControl == /\ Edit
               /\ \E k \in DOMAIN doc.post : \E i \in Editable(doc.post[k].card) :
                     \E x \in Offered(doc.post[k].card, i) :
                        doc' = [doc EXCEPT !.post[k].f[i] = x]

AddWire == /\ Edit
           /\ doc' = [doc EXCEPT !.wires = Append(@, DefaultWire(NextTag(@)))]

DeleteWire == /\ Edit
              /\ \E k \in DOMAIN doc.wires : doc' = [doc EXCEPT !.wires = RemoveAt(@, k)]

AddControl == /\ Edit
              /\ \E card \in {"GN", "LD", "EX"} :
                    doc' = [doc EXCEPT !.post = InsertAt(@, Insertion(@, Default(card)),
                                                         Default(card))]

DeleteControl == /\ Edit
                 /\ \E k \in DOMAIN doc.post :
                       /\ Editable(doc.post[k].card) # {}
                       /\ doc' = [doc EXCEPT !.post = RemoveAt(@, k)]

DocNext == \/ Read \/ EndOfText \/ Open
           \/ EditWire \/ AddWire \/ DeleteWire
           \/ EditControl \/ AddControl \/ DeleteControl

DocSpec == DocInit /\ [][DocNext]_docVars
-----------------------------------------------------------------------------
(* Properties                                                              *)

DocTypeOK == /\ reader.status \in {"reading", "parsed", "refused"}
             /\ Len(reader.cards) = Len(reader.at)
             /\ (doc.open => reader.status = "parsed")
             /\ \A k \in DOMAIN doc.wires : doc.wires[k].card = "GW"

\* The fields of a line NEC-2 reads.  GC's and GS's first two it ignores; RP's tenth
\* only counts where its fourth asks to normalize.
NecReads(l) ==
    CASE l.card = "RP" -> 1 .. IF Digit(IntOf(l, 4), 100) # 0 THEN 10 ELSE 9
      [] l.card = "FR" -> {1, 2, 5, 6} [] l.card = "LD" -> 1 .. 7 [] l.card = "PT" -> 1 .. 4
      [] l.card = "GR" -> 1 .. 2
      [] l.card \in {"CM", "CE", "EN"} -> {} [] OTHER -> Reads(l.card) \cap 1 .. 10

\* A digit of XNDA or of GX's planes is a flag, and XNDA's first is none of fnec's.  A
\* negative count and a fraction of GM's tag increment are read as a smaller number, which
\* no warning says (README).
ReadAsFlag(l, i) == <<l.card, i>> \in {<<"GX", 2>>, <<"RP", 4>>}
Rounded(l, i) == \/ i \in SaturatingFields(l.card) /\ Value(l, i) < 0
                 \/ l.card = "GM" /\ i = 1

FieldAccounted(l, c, k, i) ==
    \/ Value(l, i) = 0
    \/ i \in DOMAIN c.f /\ (c.f[i] = Value(l, i) \/ Rounded(l, i))
    \/ ReadAsFlag(l, i) /\ \A place \in {1, 10, 100} :
           (Digit(IntOf(l, i), place) # 0) <=> (Digit(c.f[i] \div Whole, place) # 0)
    \/ \E j \in 1 .. i : <<k, j>> \in reader.warned

Normalizes(l) == l.card = "RP" /\ Digit(IntOf(l, 4), 100) \notin {0, 5}

\* The GW-GC pairing, as taper_pairing asks it of any deck
TaperOf(cards, k) == /\ k \in DOMAIN cards /\ k + 1 \in DOMAIN cards
                     /\ cards[k].card = "GW" /\ cards[k].f[9] = 0 /\ cards[k + 1].card = "GC"
TaperPairing(cards) ==
    \A k \in DOMAIN cards : /\ cards[k].card = "GW" /\ cards[k].f[9] = 0 => TaperOf(cards, k)
                            /\ cards[k].card = "GC" => TaperOf(cards, k - 1)

\* What a deck says is what is solved, or is named: each line up to EN is, in its order, a
\* card, a warning, or no card; each field NEC reads is kept or warned of; a tapered wire
\* and its GC are neighbours whatever stands between their lines; nothing is added to the
\* geometry after GE; and the record of a program card is of the card's own line (FND-236,
\* FND-245, FND-283 to FND-287, FND-298, FND-300).
DeckIsRead ==
    LET lines == {reader.at[k] : k \in DOMAIN reader.at}
    IN reader.status # "refused" =>
         /\ \A k \in 1 .. reader.n : \/ text[k].card \in {"", "'"} \/ k \in lines
                                     \/ <<k, 0>> \in reader.warned
         /\ \A k, j \in DOMAIN reader.at : k < j => reader.at[k] < reader.at[j]
         /\ \A k \in DOMAIN reader.at :
               LET l == text[reader.at[k]]  c == reader.cards[k]
               IN /\ c.card \in {l.card, "CM"}
                  /\ \A i \in NecReads(l) : FieldAccounted(l, c, reader.at[k], i)
                  /\ Normalizes(l) => <<reader.at[k], 4>> \in reader.warned
         /\ \A k, j \in DOMAIN reader.cards :
               k < j /\ reader.cards[k].card = "GE" => reader.cards[j].card \notin GeometryCards
         /\ TaperPairing(IF reader.taper # NoTaper THEN Front(reader.cards) ELSE reader.cards)
         /\ \A k \in DOMAIN reader.program :
               LET p == reader.program[k]
               IN /\ p.card = text[p.line].card
                  /\ p.line \in lines /\ p.card # "EN" =>
                        \A i \in 1 .. 10 : p.f[i] = Value(text[p.line], i)

\* An empty box for one of GN's two fields, or 0 in both, is read back as another medium
\* than the document's (README).
SaysItsMedium(c) ==
    c.card = "GN" => /\ 5 \in DOMAIN c.f <=> 6 \in DOMAIN c.f
                     /\ 5 \in DOMAIN c.f => c.f[5] # 0 \/ c.f[6] # 0

\* The table stands in the geometry and the controls before EN, as they do unless one is
\* added to a deck that had no plain wire (EveryEntryIsSaved).
InPlace(d) == LET before == {d.pre[k].card : k \in DOMAIN d.pre}
              IN /\ d.wires # <<>> => {"GE", "EN"} \cap before = {}
                 /\ d.post # <<>> => "EN" \notin before

\* What is saved is the document: its text reads back as its deck, card for card and field
\* for field; no edit makes it a text of another layout, splits a tapered wire from its GC
\* or moves a card out of its section, and a value the parser refuses is refused as that
\* value (FND-111, FND-287).
RenderedReadsBack ==
    doc.open /\ Valid(doc) /\ InPlace(doc) =>
        LET deck == ToDeck(doc)
            back == Parse(WriteDeck(deck))
        IN /\ edits = 0 => back.status = "parsed" /\ back.cards = reader.cards
           /\ back.status = "refused" => back.why \in {"field", "ground"}
           /\ back.status = "parsed" /\ (\A k \in DOMAIN deck : SaysItsMedium(deck[k]))
                => back.cards = deck

\* Every wire of the table and every control is in the text a save writes, where the
\* parser reads it.
EveryEntryIsSaved ==
    doc.open /\ Valid(doc) =>
        LET back == Parse(WriteDeck(ToDeck(doc)))
        IN /\ back.status = "refused" => back.why \in {"field", "ground"}
           /\ back.status = "parsed" => Len(back.cards) = Len(ToDeck(doc))
=============================================================================
