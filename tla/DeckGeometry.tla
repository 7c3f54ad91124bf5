---------------------------- MODULE DeckGeometry ----------------------------
(***************************************************************************)
(* The geometry section of a deck: the segments its cards build            *)
(* (build_unnumbered), the two geometries the solvers take - the deck's    *)
(* own, and the one refined at free wire ends for Hallen - with NEC's      *)
(* numbers on their segments, and how a card names one                     *)
(* (crates/nec_solver/src/geometry.rs); and the same deck on a mesh three  *)
(* times finer (refine_deck, crates/nec_solver/src/refine.rs).             *)
(*                                                                         *)
(* Points are on an integer lattice, where ends that meet are equal: the   *)
(* tolerances that decide a near miss are not modelled.  A wire is its     *)
(* first point, the vector of a segment (a multiple of 3, so that thirds   *)
(* are points too) and how many there are.                                 *)
(***************************************************************************)
EXTENDS Integers, Sequences, FiniteSets, SequencesExt

CONSTANTS MAX_SEGMENTS,
          MaxTag        \* u32::MAX

Factor == 3     \* the mesh factor of the refined deck
Axes == 1 .. 3  \* x, y, z
Points == [Axes -> Int]
Plus(p, q) == [a \in Axes |-> p[a] + q[a]]
Minus(p, q) == [a \in Axes |-> p[a] - q[a]]
Times(k, p) == [a \in Axes |-> k * p[a]]
Dot(p, q) == p[1] * q[1] + p[2] * q[2] + p[3] * q[3]
Cross(p, q) == <<p[2] * q[3] - p[3] * q[2], p[3] * q[1] - p[1] * q[3],
                 p[1] * q[2] - p[2] * q[1]>>
Origin == <<0, 0, 0>>
Mirror(p, a) == [p EXCEPT ![a] = -p[a]]
QuarterTurn(p) == <<-p[2], p[1], p[3]>>
Turned(p, quarters) == CASE quarters = 0 -> p
                         [] quarters = 1 -> QuarterTurn(p)
                         [] quarters = 2 -> QuarterTurn(QuarterTurn(p))
                         [] OTHER        -> QuarterTurn(QuarterTurn(QuarterTurn(p)))

\* part: what a segment is to the deck.  num and abs: its number within its tag and
\* in the deck, 0 for a flank, which belongs to the segment numbered parent.
Seg(tag, from, to, radius) == [tag |-> tag, from |-> from, to |-> to, radius |-> radius,
                               part |-> "whole", num |-> 0, abs |-> 0, parent |-> 0]
Along(s) == Minus(s.to, s.from)
Mid(s) == Plus(s.from, s.to)    \* twice the midpoint

\* What a card makes of the segments before it: the segments, or a refusal.
Made(s) == [ok |-> TRUE, segs |-> s]
Refusal == [ok |-> FALSE, segs |-> <<>>]
-----------------------------------------------------------------------------
(* The cards                                                               *)

\* Mutant: each card is judged alone.
OverBudgetAlone(have, adding) == adding > MAX_SEGMENTS

\* check_segment_budget: the running total, before the card expands.
OverBudget(have, adding) == have + adding > MAX_SEGMENTS

\* expand_wire
Wire(c, s) == IF c.n = 0 \/ c.step = Origin \/ OverBudget(Len(s), c.n)
              THEN Refusal
              ELSE Made(s \o [i \in 1 .. c.n |->
                                Seg(c.tag, Plus(c.at, Times(i - 1, c.step)),
                                    Plus(c.at, Times(i, c.step)), c.radius)])

\* copy_tag: tag 0 stays 0.  Tags past MaxTag are caught by Checked.
CopyTag(tag, by) == IF tag = 0 THEN 0 ELSE tag + by
Checked(s) == IF \E i \in DOMAIN s : s[i].tag > MaxTag THEN Refusal ELSE Made(s)

Image(s, by, from, to) == [s EXCEPT !.tag = CopyTag(@, by), !.from = from, !.to = to]

\* transform_block: one copy of a block, by the card's turn and shift.
OnceMore(c, block) ==
    LET Step(p) == Plus(Turned(p, c.turn), c.shift)
    IN [i \in DOMAIN block |-> Image(block[i], c.inc, Step(block[i].from), Step(block[i].to))]

\* Each copy is made from the one before.
Copies(c, block) ==
    LET copy[k \in 0 .. c.times] == IF k = 0 THEN block ELSE OnceMore(c, copy[k - 1])
    IN [k \in 1 .. c.times |-> copy[k]]

\* apply_gm: ITS picks the suffix from the first segment with that tag; NRPT = 0 moves
\* it, otherwise it is copied.
Moved(c, s) ==
    LET named == {i \in DOMAIN s : c.its = 0 \/ s[i].tag = c.its}
        first == CHOOSE i \in named : \A j \in named : i <= j
        suffix == SubSeq(s, first, Len(s))
    IN CASE s = <<>>                        -> IF c.its = 0 THEN Made(s) ELSE Refusal
         [] s # <<>> /\ named = {}          -> Refusal
         [] c.times = 0 /\ named # {}       ->
              Checked(SubSeq(s, 1, first - 1) \o OnceMore(c, suffix))
         [] OTHER -> IF OverBudget(Len(s), Len(suffix) * c.times)
                     THEN Refusal
                     ELSE Checked(s \o FlattenSeq(Copies(c, suffix)))

\* apply_gr: the structure occurs c.n times in all, about z (2 or 4 here).
RotatedCopy(c, s, k) ==
    LET Turn(p) == Turned(p, k * (4 \div c.n))
    IN [i \in DOMAIN s |-> Image(s[i], k * c.inc, Turn(s[i].from), Turn(s[i].to))]

Rotated(c, s) ==
    IF c.n <= 1 THEN Made(s)
    ELSE IF OverBudget(Len(s), Len(s) * (c.n - 1))
    THEN Refusal
    ELSE Checked(s \o FlattenSeq([k \in 1 .. c.n - 1 |-> RotatedCopy(c, s, k)]))

\* Mutant: every plane's copies take the card's own increment.
PlaneStepFlat(inc, before) == inc

\* The increment of a plane's copies doubles with every plane before it.
PlaneStep(inc, before) == inc * 2 ^ before

\* A segment in a plane, or through it, has no image there.
InPlane(x, a) == \/ x.from[a] = 0 /\ x.to[a] = 0
                 \/ x.from[a] * x.to[a] < 0

\* apply_gx: z, then y, then x, each copying all there is so far.
ReflectedIn(c, m, a) ==
    LET before == Cardinality({b \in c.planes : b > a})
    IN CASE ~m.ok \/ a \notin c.planes -> m
         [] OTHER ->
              IF OverBudget(Len(m.segs), Len(m.segs)) \/ \E i \in DOMAIN m.segs : InPlane(m.segs[i], a)
              THEN Refusal
              ELSE Checked(m.segs \o
                     [i \in DOMAIN m.segs |->
                        Image(m.segs[i], PlaneStep(c.inc, before),
                              Mirror(m.segs[i].from, a), Mirror(m.segs[i].to, a))])

Reflected(c, s) == ReflectedIn(c, ReflectedIn(c, ReflectedIn(c, Made(s), 3), 2), 1)

Scaled(c, s) ==
    Made([i \in DOMAIN s |-> [s[i] EXCEPT !.from = Times(c.by, @), !.to = Times(c.by, @),
                                          !.radius = @ * c.by]])

Expanded(c, s) == CASE c.card = "GW" -> Wire(c, s)
                    [] c.card = "GM" -> Moved(c, s)
                    [] c.card = "GR" -> Rotated(c, s)
                    [] c.card = "GX" -> Reflected(c, s)
                    [] c.card = "GS" -> Scaled(c, s)

\* refine_deck scales the wires' counts and leaves the other cards alone.
Finer(c) == IF c.card = "GW" /\ c.n > 0
            THEN [c EXCEPT !.n = Factor * @, !.step = [a \in Axes |-> @[a] \div Factor]]
            ELSE c
-----------------------------------------------------------------------------
(* Numbering and free ends                                                 *)

\* Mutant: a flank takes a number of its own.
CountsEvery(s) == TRUE

\* Whether number() counts a segment: a flank is not the deck's.
Counts(s) == s.part # "flank"

\* number: occurrences of each tag, and of all.
Numbered(s) ==
    LET Upto(i, tag) == Cardinality({j \in 1 .. i : Counts(s[j]) /\ s[j].tag = tag})
        Total(i) == Cardinality({j \in 1 .. i : Counts(s[j])})
        BeforeCentre(i) == i < Len(s) /\ s[i + 1].part = "centre"
    IN [i \in DOMAIN s |->
          IF Counts(s[i])
          THEN [s[i] EXCEPT !.num = Upto(i, s[i].tag), !.abs = Total(i)]
          ELSE [s[i] EXCEPT !.parent = Upto(i, s[i].tag) + IF BeforeCentre(i) THEN 1 ELSE 0]]

Ends(s) == {s.from, s.to}

\* free_end_segments: an end no other segment shares, and not on the ground.
Free(s, grounded) ==
    {i \in DOMAIN s : \E p \in Ends(s[i]) :
        /\ \A j \in DOMAIN s : j # i => p \notin Ends(s[j])
        /\ ~(grounded /\ p[3] <= 0)}

\* refine: flank, centre, flank.
Thirds(s) == LET third == [a \in Axes |-> Along(s)[a] \div 3]
                 At(k) == Plus(s.from, Times(k, third))
                 Third(k, part) == [s EXCEPT !.from = At(k), !.to = At(k + 1), !.part = part]
             IN <<Third(0, "flank"), Third(1, "centre"), Third(2, "flank")>>

Refined(s, free) == FlattenSeq([i \in DOMAIN s |-> IF i \in free THEN Thirds(s[i]) ELSE <<s[i]>>])

\* overlapping_segments: two segments along each other for part of their length.
Overlap(a, b) ==
    LET d == Along(a)
        t0 == Dot(Minus(b.from, a.from), d)
        t1 == Dot(Minus(b.to, a.from), d)
        Low(x, y) == IF x < y THEN x ELSE y
        High(x, y) == IF x > y THEN x ELSE y
    IN /\ Cross(d, Along(b)) = Origin /\ Cross(d, Minus(b.from, a.from)) = Origin
       /\ Low(High(t0, t1), Dot(d, d)) > High(Low(t0, t1), 0)

Overlapping(s) == \E i, j \in DOMAIN s : i < j /\ Overlap(s[i], s[j])
-----------------------------------------------------------------------------
(* References                                                              *)

None == 0

\* find_deck_segment: the index of the segment (tag, n) names, None for none.
FindDeckSegment(s, tag, n) ==
    LET found == {i \in DOMAIN s : IF tag = 0 THEN s[i].abs = n ELSE s[i].tag = tag /\ s[i].num = n}
    IN IF n = 0 \/ found = {} THEN None ELSE CHOOSE i \in found : \A j \in found : i <= j

\* deck_segment_in_range: what LD and PT select.
InRange(s, tag, first, last) ==
    LET end == IF last = 0 THEN first ELSE last
    IN /\ s.part # "flank"
       /\ IF tag = 0 THEN first = 0 \/ s.abs \in first .. end
                     ELSE s.tag = tag /\ (first = 0 \/ s.num \in first .. end)

\* flank_centre
FlankCentre(s, i) == IF i < Len(s) /\ s[i + 1].part = "centre" THEN i + 1 ELSE i - 1

\* segment_matches: a type-5 load, per metre, is on a flank of what it is on.
LoadOn(s, i, perMetre, tag, first, last) ==
    LET subject == IF perMetre /\ s[i].part = "flank" THEN FlankCentre(s, i) ELSE i
    IN InRange(s[subject], tag, first, last)

\* find_segment_index: TL and NT read segment 0 as the (lower) centre of the tag.
FindPort(s, tag, n) ==
    LET tagged == {i \in DOMAIN s : s[i].tag = tag /\ Counts(s[i])}
        middle == (Cardinality(tagged) + 1) \div 2
    IN IF n # 0 THEN FindDeckSegment(s, tag, n)
       ELSE IF tag = 0 \/ tagged = {} THEN None
       ELSE CHOOSE i \in tagged : Cardinality({j \in tagged : j <= i}) = middle

\* centre: the sub-segment whose midpoint is that of segment k.
CentreOf(k) == Factor * k - (Factor - 1) \div 2
-----------------------------------------------------------------------------
(* The image problem of a deck touching PEC ground (ground_contact.rs)     *)

Mirrored(p) == Mirror(p, 3)
MaxTagOf(s) == CHOOSE t \in {s[i].tag : i \in DOMAIN s} : \A i \in DOMAIN s : s[i].tag <= t
DeckSegments(s) == Cardinality({i \in DOMAIN s : Counts(s[i])})

\* An image is numbered past every segment of the deck; a flank's stays 0.
ImageAbs(s, i) == IF s[i].abs = 0 THEN 0 ELSE s[i].abs + DeckSegments(s)

\* doubled_segments: the segments and their images.
Doubled(s) == s \o [i \in DOMAIN s |->
                      [s[i] EXCEPT !.tag = @ + MaxTagOf(s), !.abs = ImageAbs(s, i),
                                   !.from = Mirrored(@), !.to = Mirrored(@)]]

Touches(s) == \E i \in DOMAIN s : \E p \in Ends(s[i]) : p[3] <= 0

\* A wire below the ground, or in it, has no image problem.
BelowOrIn(s) == \E i \in DOMAIN s : \/ \E p \in Ends(s[i]) : p[3] < 0
                                    \/ \A p \in Ends(s[i]) : p[3] <= 0

\* image_reference
ImageReference(s, tag, n) ==
    CASE tag = 0 /\ n = 0 -> <<0, 0>>
      [] tag = 0 /\ n # 0 -> <<0, n + DeckSegments(s)>>
      [] OTHER            -> <<tag + MaxTagOf(s), n>>
=============================================================================
