----------------------------- MODULE DeckDrive -----------------------------
(***************************************************************************)
(* What drives a deck: its EX cards, resolved to segments by NEC-2's rule  *)
(* (driven_segments and input_impedance_print,                             *)
(* crates/nec_solver/src/excitation.rs; the refusals of pre_solve_error    *)
(* that keep a current source alone, validate.rs).  A card is its type,    *)
(* the segment it names and a voltage or a current.                        *)
(***************************************************************************)
EXTENDS Integers, Sequences, FiniteSets, SequencesExt, DeckGeometry

\* ExcitationKind: NEC's types 0, 5, 4 and 1 to 3.
Kinds == {"gap", "slope", "current", "wave"}
Drives(x) == x.kind # "wave"
IndexOf(s, x) == FindDeckSegment(s, x.tag, x.n)

\* A driven card that names no segment.
SegmentNotFound(s, ex) == \E c \in DOMAIN ex : Drives(ex[c]) /\ IndexOf(s, ex[c]) = None

Entry(idx, role) == [idx |-> idx, role |-> role, cards |-> {}, overridden |-> {}]

\* Mutant: a type-0 card adds to the one before it, as it did before FND-305.
AssignsNever(x) == FALSE

\* A type-0 card replaces the segment's drive, a type-5 card adds to it.
Assigns(x) == x.kind = "gap"

\* One card read into the entries: the cards that drive each segment, by their places
\* in the deck, and the pairs of an overridden card and the one that overrides it.
ReadCard(s, ex, entries, c) ==
    LET x == ex[c]
        i == IndexOf(s, x)
        at == {d \in DOMAIN entries : entries[d].idx = i /\ entries[d].role = "gap"}
        into == IF at = {} THEN Append(entries, Entry(i, "gap")) ELSE entries
        d == IF at = {} THEN Len(into) ELSE CHOOSE d \in at : TRUE
        lost == {k \in into[d].cards : Assigns(x) /\ Assigns(ex[k])}
    IN CASE ~Drives(x) -> entries
         [] x.kind = "current" ->
              Append(entries, [Entry(i, "current") EXCEPT !.cards = {c}])
         [] OTHER ->
              [into EXCEPT ![d].cards = (@ \ lost) \cup {c},
                           ![d].overridden = @ \cup (lost \X {c})]

\* The winner of every overridden card is the segment's last type-0 card.
Settled(ex, d) ==
    LET won == {k \in d.cards : Assigns(ex[k])}
    IN [d EXCEPT !.overridden = {<<pair[1], CHOOSE k \in won : TRUE>> : pair \in @}]

\* driven_segments, of cards that resolve: one entry a driven segment, in deck order.
ReadCards(s, ex) ==
    LET read[c \in 0 .. Len(ex)] == IF c = 0 THEN <<>> ELSE ReadCard(s, ex, read[c - 1], c)
    IN read[Len(ex)]

Driven(s, ex) ==
    LET read == ReadCards(s, ex)
    IN [d \in DOMAIN read |-> Settled(ex, read[d])]

VoltsOf(ex, cards) == FoldSet(LAMBDA c, sum : sum + ex[c].volts, 0, cards)
Volts(ex, d) == VoltsOf(ex, d.cards)

\* more_than_one_feedpoint
MoreThanOneFeedpoint(s, ex) == Len(Driven(s, ex)) > 1

\* multiple_current_sources_error, mixed_excitation_error: a current source stands
\* alone, and so does a plane wave.
MixedExcitation(ex) ==
    \/ \E c, d \in DOMAIN ex : c # d /\ ex[c].kind = "current" /\ ex[d].kind # "wave"
    \/ \E c, d \in DOMAIN ex : ex[c].kind = "wave" /\ ex[d].kind # "wave"

\* input_impedance_print: the last type-5 card, or else the last type-0 card.
Printed(ex) ==
    LET LastOf(kind) == {c \in DOMAIN ex : /\ ex[c].kind = kind
                                           /\ \A d \in DOMAIN ex : ex[d].kind = kind => d <= c}
        of == IF LastOf("slope") # {} THEN LastOf("slope") ELSE LastOf("gap")
    IN IF of = {} THEN 0 ELSE CHOOSE c \in of : TRUE
=============================================================================
