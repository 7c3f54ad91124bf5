-------------------------------- MODULE Deck --------------------------------
(***************************************************************************)
(* A deck, read card by card into segments (build_unnumbered,              *)
(* crates/nec_solver/src/geometry.rs), built at its GE into the two        *)
(* geometries the solvers take and the refined deck's, then driven by its  *)
(* EX cards.                                                               *)
(***************************************************************************)
EXTENDS Caveats

CONSTANTS Wires,        \* the GW cards a deck may have
          Moves,        \* its GM, GR, GX and GS cards
          Sources,      \* its EX cards
          MaxCards,     \* bound: geometry cards of a deck
          DrivenDecks,  \* bound: the geometry cards of the decks whose EX cards are read
          MaxSources    \* bound: EX cards of a deck

\* Decks as the parser lets them through: steps are in thirds, so that thirds of segments
\* are points too.
ASSUME DeckAssumption ==
    /\ {MAX_SEGMENTS, MaxTag, MaxCards, MaxSources} \subseteq Nat
    /\ Wires \subseteq [card : {"GW"}, tag : 0 .. MaxTag, at : Points, step : Points,
                        n : Nat, radius : Int]
    /\ \A c \in Wires : \A a \in Axes : c.step[a] % 3 = 0
    /\ Moves \subseteq
            [card : {"GM"}, inc : Nat, times : Nat, its : Nat, shift : Points, turn : 0 .. 3]
              \cup [card : {"GR"}, inc : Nat, n : {1, 2, 4}]
              \cup [card : {"GX"}, inc : Nat, planes : SUBSET Axes]
              \cup [card : {"GS"}, by : Nat \ {0}]
    /\ Sources \subseteq [kind : Kinds, tag : Nat, n : Nat, volts : Int]

VARIABLES cards,   \* the geometry cards read
          segs,    \* the segments they built
          fine,    \* those of the refined deck; none when it is refused
          stage,   \* "reading", "refused" or "built"
          ground,  \* "free", "finite" or "pec"
          deck,    \* build_deck_geometry
          hallen,  \* build_geometry; none when it refuses
          contact, \* pec_ground_contact of the geometry built
          ex       \* the EX cards read

vars == <<cards, segs, fine, stage, ground, deck, hallen, contact, ex>>

Grounds == {"free", "finite", "pec"}

Init == /\ cards = <<>> /\ segs = <<>> /\ fine = <<>> /\ deck = <<>> /\ hallen = <<>>
        /\ ex = <<>> /\ stage = "reading" /\ contact = Contact(<<>>, FALSE)
        /\ ground \in Grounds

\* A card makes more segments or refuses the deck.
GeometryCard(c) ==
    LET made == Expanded(c, segs)
    IN /\ stage = "reading" /\ Len(cards) < MaxCards
       /\ cards' = Append(cards, c)
       /\ IF made.ok
          THEN /\ segs' = made.segs
               /\ fine' = (IF fine = <<>> /\ segs # <<>> THEN <<>>
                           ELSE Expanded(Finer(c), fine).segs)
               /\ UNCHANGED stage
          ELSE stage' = "refused" /\ UNCHANGED <<segs, fine>>
       /\ UNCHANGED <<ground, deck, hallen, contact, ex>>

\* build_geometry judges a deck on PEC ground by the image problem it is solved as; a
\* contact that has none is refused when it is solved.
GeometryEnd ==
    LET solved == Numbered(Refined(segs, Free(segs, ground # "free")))
        touch == Contact(solved, ground = "pec")
    IN /\ stage = "reading"
       /\ IF segs = <<>> \/ Overlapping(segs)
          THEN stage' = "refused" /\ UNCHANGED <<deck, hallen, fine, contact>>
          ELSE /\ stage' = "built"
               /\ deck' = Numbered(segs)
               /\ fine' = Numbered(fine)
               /\ contact' = touch
               /\ hallen' = (IF touch.kind = "none" /\ OneSegmentRunTopology(solved)
                             THEN <<>> ELSE solved)
       /\ UNCHANGED <<cards, segs, ground, ex>>

Excite(x) == /\ stage = "built" /\ cards \in DrivenDecks /\ Len(ex) < MaxSources
             /\ ex' = Append(ex, x)
             /\ UNCHANGED <<cards, segs, fine, stage, ground, deck, hallen, contact>>

Next == \/ \E c \in Wires \cup Moves : GeometryCard(c)
        \/ GeometryEnd
        \/ \E x \in Sources : Excite(x)

Spec == Init /\ [][Next]_vars
-----------------------------------------------------------------------------
(* Properties                                                              *)

\* Every list of segments is within its budget, numbered as the deck counts it, and a
\* refused deck leaves none built.
TypeOK ==
    /\ Len(cards) <= MaxCards /\ stage \in {"reading", "refused", "built"} /\ ground \in Grounds
    /\ \A s \in {segs, fine, deck, hallen} : \A i \in DOMAIN s :
         /\ DOMAIN s[i] = {"tag", "from", "to", "radius", "part", "num", "abs", "parent"}
         /\ s[i].tag \in 0 .. MaxTag /\ s[i].part \in {"whole", "centre", "flank"}
         /\ s[i].from # s[i].to
    /\ Len(segs) <= MAX_SEGMENTS /\ Len(fine) <= MAX_SEGMENTS
    /\ stage # "built" => deck = <<>> /\ hallen = <<>>
    /\ stage = "built" => /\ Len(deck) = Len(segs)
                          /\ [i \in DOMAIN deck |-> deck[i].abs] = [i \in DOMAIN deck |-> i]

\* A reference names the same place whichever geometry resolves it: a numbered
\* segment, an absolute number and a network's centre port have the midpoint of the
\* deck's segment on the refined one; a lumped load is on one segment of its subject, a
\* load per metre on all of it; a flank's parent is the segment it is part of
\* (geometry.rs:2015, loads.rs:291).
HallenKeepsReferences ==
    LET Same(h, i) == h # None /\ Mid(hallen[h]) = Mid(deck[i])
        Loaded(perMetre, d) == {h \in DOMAIN hallen : LoadOn(hallen, h, perMetre, d.tag, d.num, 0)}
    IN \A i \in DOMAIN deck :
         LET d == deck[i]
             on == {h \in DOMAIN hallen : Overlap(d, hallen[h])}
         IN /\ Same(FindDeckSegment(hallen, 0, d.abs), i)
            /\ d.tag # 0 =>
                 /\ Same(FindDeckSegment(hallen, d.tag, d.num), i)
                 /\ Same(FindPort(hallen, d.tag, 0), FindPort(deck, d.tag, 0))
                 /\ Loaded(TRUE, d) = on
                 /\ Cardinality(Loaded(FALSE, d)) = 1
                 /\ \A h \in on : hallen[h].part = "flank" => hallen[h].parent = d.num

\* And on the deck meshed three times finer: the centre sub-segment has the midpoint of
\* the segment, and the first and last touch its ends, through every copy GM, GR and GX
\* make (refine.rs:75, :105).
FinerKeepsReferences ==
    \A i \in DOMAIN deck :
        LET d == deck[i]
            Sub(k) == fine[FindDeckSegment(fine, d.tag, k)]
        IN d.tag # 0 => /\ FindDeckSegment(fine, d.tag, CentreOf(d.num)) # None
                        /\ Mid(Sub(CentreOf(d.num))) = Mid(d)
                        /\ Sub(Factor * (d.num - 1) + 1).from = d.from
                        /\ Sub(Factor * d.num).to = d.to

\* The images GX adds complete the structure - what it holds is its own mirror image in
\* each plane - and when the tags it had fit in the increment, no tag of one image is
\* another's, so that a card that drove one segment still names one (geometry.rs:2411).
ImagesComplete ==
    [][LET c == Last(cards')
           block(i) == (i - 1) \div Len(segs)
           lines == {Ends(segs'[i]) : i \in DOMAIN segs'}
       IN cards' # cards /\ c.card = "GX" /\ segs' # segs =>
            /\ \A a \in c.planes : {{Mirror(p, a) : p \in l} : l \in lines} = lines
            /\ (\A i \in DOMAIN segs : segs[i].tag \in 1 .. c.inc) =>
                 \A i, j \in DOMAIN segs' : segs'[i].tag = segs'[j].tag => block(i) = block(j)
      ]_vars

\* The lists the solvers take, each with its numbers.
Solved == IF stage = "built" THEN {deck, hallen, contact.segs} \ {<<>>} ELSE {}

EndsThere(s, p) == {e \in (DOMAIN s) \X BOOLEAN : p = IF e[2] THEN s[e[1]].to ELSE s[e[1]].from}

\* Paths are whole conductors: each segment is on one of them once, each goes on where
\* the one before left, through points where nothing else ends, between free ends
\* (geometry.rs:1262).
PathsAreConductors(s) ==
    LET paths == PathsOf(s)
    IN /\ UNION {{p[i].seg : i \in DOMAIN p} : p \in paths} = DOMAIN s
       /\ FoldSet(LAMBDA p, n : n + Len(p), 0, paths) = Len(s)
       /\ \A p \in paths :
            /\ \A i \in 1 .. Len(p) - 1 :
                 /\ Leaving(s, p[i]) = Entering(s, p[i + 1])
                 /\ Cardinality(EndsThere(s, Leaving(s, p[i]))) = 2
            /\ Cardinality(EndsThere(s, Entering(s, p[1]))) = 1
            /\ Cardinality(EndsThere(s, Leaving(s, Last(p)))) = 1

\* In chain order every path is one contiguous stretch walked head to tail in the
\* direction its lowest segment has in the deck, and a straight path of one radius is
\* one conductor there, however its cards ran (geometry.rs:1100, FND-233, FND-249).
ChainsAreInOrder(s) ==
    LET order == ChainOrder(s)
        t == InOrder(s, order)
        At(p) == {k \in DOMAIN order : order[k].seg \in {p[i].seg : i \in DOMAIN p}}
        Straight(p) == \A i, j \in At(p) : Parallel(t[i], t[j]) /\ t[i].radius = t[j].radius
    IN /\ Len(order) = Len(s) /\ {order[k].seg : k \in DOMAIN order} = DOMAIN s
       /\ \A p \in PathsOf(s) :
            LET first == CHOOSE k \in At(p) : \A l \in At(p) : k <= l
                last == first + Len(p) - 1
            IN /\ At(p) = first .. last
               /\ \A k \in first .. last - 1 : t[k].to = t[k + 1].from
               /\ \E k \in At(p) : /\ order[k].forward
                                   /\ \A l \in At(p) : order[k].seg <= order[l].seg
               /\ Straight(p) => <<first, last>> \in ToSet(MergedOf(t))

\* No wire turns or changes radius within its run of one tag.
PlainlyTagged(s) ==
    \A r \in ToSet(Runs(s)) : \A i \in r[1] .. r[2] - 1 : ContinuesStraight(s[i], s[i + 1])

\* The gaps tried on a list: a feed on a segment or on it and the next, or a load on it.
GapsOf(s) ==
    LET none == [i \in DOMAIN s |-> 0]
    IN {[feeds |-> {i, Min({i + k, Len(s)})}, load |-> none] : i \in DOMAIN s, k \in 0 .. 1}
         \cup {[feeds |-> {}, load |-> [none EXCEPT ![i] = 1]] : i \in DOMAIN s}

\* Whatever solves the conductors has as many rows as unknowns, wherever the current
\* kinks; where the paths and the graph both apply, and no wire bends within its tag,
\* they make one system, the same sections with the same rows at the same points; and
\* in each a section that meets another has its corner term referenced where they meet
\* (section_graph.rs:506, FND-270, FND-278).
RefsWhereSectionsMeet(s, system) ==
    \A ref \in system.refs :
        LET node(p) == \E x \in system.rows : x.point = p /\ x.kind # "free"
        IN node(ref[2]) \/ \A i \in ref[1] : \A p \in Ends(s[i]) : ~node(p)

LayoutsAgree(s) ==
    LET graph == Sections(s)
        paths == PathsOf(s)
        oneSegment == OneSegmentRun(graph)
        decomposes == Decomposes(s)
        both == decomposes /\ PlainlyTagged(s) /\ ~oneSegment /\ ~HasRadiusStep(s, graph)
    IN \A gaps \in GapsOf(s) :
         LET byPath == PathSystem(s, paths, gaps)
             byGraph == GraphSystem(graph, gaps)
         IN /\ decomposes => Determined(byPath)
            /\ ~oneSegment => Determined(byGraph)
            /\ both => /\ byPath.groups = byGraph.groups /\ byPath.rows = byGraph.rows
                       /\ RefsWhereSectionsMeet(s, byPath) /\ RefsWhereSectionsMeet(s, byGraph)

\* The decompositions agree, and every geometry built for Hallen has a route: the paths
\* give up exactly where the graph of the same wires has a junction or a loop, the
\* graph then takes them, and what neither is needed for is parallel straight
\* conductors (geometry.rs:1535, hallen_session.rs:209, FND-172, FND-251).
RoutesAgree ==
    /\ \A s \in Solved : Decomposes(s) <=> ~HasJunctionOrLoop(Sections(s))
    /\ ex = <<>> /\ hallen # <<>> /\ ground # "finite" => LayoutsAgree(hallen)
    /\ stage = "built" /\ hallen # <<>> /\ contact.kind # "refused" =>
         LET s == IF contact.kind = "image" THEN contact.segs ELSE hallen
             route == Route(s, contact.kind = "none" /\ ground # "free")
         IN /\ route # "unsupported"
            /\ route = "plain" =>
                 /\ \A i, j \in DOMAIN s : Parallel(s[i], s[j])
                 /\ \A p \in PathsOf(s) : <<p[1].seg, Last(p).seg>> \in ToSet(MergedOf(s))

\* A Hallen run says of a deck what its solve leaves out, on the geometry it solves: a
\* bend when a conductor with one pair of constants turns, which is also the only way
\* the corner term is lost; a radius step when one such conductor has two radii; a
\* joined row at a bend.  A feed is at a free end on the refined geometry when it is on
\* the deck's own, and then the MPIE refuses it, as it does a feed between two
\* junctions; a junction or a loop is never blamed (validate.rs:2010, :808, FND-179,
\* FND-294, FND-276).
FedThere(q, i) ==
    LET h == FindDeckSegment(hallen, 0, deck[i].abs)
        n == Len(hallen)
        gaps == {h, Min({h + 1, n})}
    IN [feeds |-> IF contact.kind = "image" THEN gaps \cup {j + n : j \in gaps} ELSE gaps,
        load |-> [j \in DOMAIN q.segs |-> 0]]

SaysTheLayout(q, said, system) ==
    LET Holds(differ(_, _)) == \E g \in system.groups : \E a, b \in g : differ(q.segs[a], q.segs[b])
        lost == q.route = "paths" /\ system.refs = {}
    IN /\ q.route # "graph" \/ PlainlyTagged(q.segs) =>
            ("bend" \in said <=> Holds(LAMBDA a, b : ~Parallel(a, b)))
       /\ lost \/ "slant" \in said => "bend" \in said
       /\ Holds(LAMBDA a, b : a.radius # b.radius) => "radius" \in said
       /\ (\E row \in system.rows : Bent(q.segs, row)) => "joined" \in said
       /\ said \cap {"topology", "junction feed"} = {}

SaysTheFeed(said, i) ==
    LET free == i \in Free(deck, ground # "free")
        driven == <<[kind |-> "gap", tag |-> 0, n |-> deck[i].abs, volts |-> 1]>>
        mpie == MpiePlan(deck, driven, ground)
    IN /\ "free end" \in said <=> free
       /\ mpie # "ground contact" => (mpie = "free end" <=> free) /\ mpie # "no interior node"

SaysTheRoute(q) ==
    \A i \in DOMAIN deck :
        LET said == CaveatsOf(q, {FindDeckSegment(hallen, 0, deck[i].abs)}, FedThere(q, i))
        IN SaysTheLayout(q, said, Solve(q, FedThere(q, i))) /\ SaysTheFeed(said, i)

CaveatsSayTheRoute ==
    ex = <<>> /\ hallen # <<>> /\ contact.kind # "refused" /\ (ground = "finite" => ~Touches(deck)) =>
        SaysTheRoute(Problem(hallen, contact, ground))

\* A section's segments run on in one line, with one radius.
SectionsStraight(s, graph) ==
    \A c \in graph : \A i \in 1 .. Len(c.segs) - 1 :
        LET a == s[c.segs[i].seg]
            b == s[c.segs[i + 1].seg]
        IN Parallel(a, b) /\ a.radius = b.radius /\ Leaving(s, c.segs[i]) = Entering(s, c.segs[i + 1])

\* Where the conductors of a list really end: other than two segment ends, or two
\* that bend or change radius.
GoesStraight(s, there) ==
    /\ Cardinality(there) = 2
    /\ \A e, f \in there : Parallel(s[e[1]], s[f[1]]) /\ s[e[1]].radius = s[f[1]].radius

\* The graph is the structure: its sections share out the segments, each a straight
\* run of one radius, and its nodes are the points where conductors end, each with as
\* many sections as segments end there; no merged conductor passes a node (FND-192).
IsTheGraphOf(s, graph) ==
    LET points == UNION {Ends(s[i]) : i \in DOMAIN s}
    IN /\ UNION {{c.segs[i].seg : i \in DOMAIN c.segs} : c \in graph} = DOMAIN s
       /\ FoldSet(LAMBDA c, n : n + Len(c.segs), 0, graph) = Len(s)
       /\ SectionsStraight(s, graph)
       /\ Nodes(graph) = {p \in points : ~GoesStraight(s, EndsThere(s, p))}
       /\ \A p \in Nodes(graph) : Cardinality(NodeEnds(graph, p)) = Cardinality(EndsThere(s, p))
       /\ \A m \in ToSet(MergedOf(s)) :
            \E c \in graph : m[1] .. m[2] \subseteq {c.segs[i].seg : i \in DOMAIN c.segs}

\* What the solves take for conductors are the structure: the paths and the chain order,
\* when there are any, and the section graph, when no wire bends within its tag
\* (geometry.rs:1262, section_graph.rs:180).
ConductorsAreTheStructure ==
    \A s \in Solved : /\ Decomposes(s) => PathsAreConductors(s) /\ ChainsAreInOrder(s)
                      /\ PlainlyTagged(s) => IsTheGraphOf(s, Sections(s))

\* A reference and its image resolve to a segment and its image in the image problem:
\* a numbered segment, a network's centre port, and what a load of a whole tag is on -
\* the image of a tag-0 wire apart (ground_contact.rs:135, FND-282).
LoadedBy(s, tag, n) == {i \in DOMAIN s : LoadOn(s, i, TRUE, tag, n, 0)}

MirrorsIn(s, n, tag, seg) ==
    LET image == ImageReference(hallen, tag, seg)
    IN /\ tag # 0 \/ seg # 0 =>
            LET i == FindPort(s, tag, seg)
            IN /\ i # None /\ i <= n
               /\ FindPort(s, image[1], image[2]) = i + n
       /\ LoadedBy(s, tag, seg) \cup LoadedBy(s, image[1], image[2]) =
              LET on == LoadedBy(hallen, tag, seg) IN on \cup {i + n : i \in on}

ImageMirrorsReferences ==
    contact.kind = "image" =>
        LET n == Len(hallen)
        IN /\ \A i \in DOMAIN deck : MirrorsIn(contact.segs, n, 0, deck[i].abs)
           /\ (\A i \in DOMAIN deck : deck[i].tag # 0) =>
                \A i \in DOMAIN deck : \A seg \in {0, deck[i].num} :
                    MirrorsIn(contact.segs, n, deck[i].tag, seg)

\* A card that names a segment names the same place on every geometry the deck is
\* solved with: the deck's own, the one refined at free ends, the finer one, and the one
\* with its mirror image.
ReferencesSurvive ==
    stage = "built" => /\ hallen # <<>> => HallenKeepsReferences
                       /\ fine # <<>> => FinerKeepsReferences
                       /\ ImageMirrorsReferences

\* The same of the whole tags of every deck: "the image of a series load is the same
\* load" (ground_contact.rs:13).
ImageLoadsAreTheSame ==
    contact.kind = "image" =>
        \A i \in DOMAIN deck : deck[i].tag # 0 =>
            MirrorsIn(contact.segs, Len(hallen), deck[i].tag, 0)

\* What drives the segments is what NEC-2 drives them with: on each, the last type-0
\* card and all the type-5 ones; no card is lost - it drives or is overridden by a
\* later card of its segment that does; the printed source has a row; and a route that
\* reports one feedpoint reports all the drive there is (excitation.rs:170, FND-304,
\* FND-305).
DriveIsNec2s ==
    LET driven == Driven(hallen, ex)
        on(i, kind) == {c \in DOMAIN ex : ex[c].kind = kind /\ IndexOf(hallen, ex[c]) = i}
        last(cs) == CHOOSE c \in cs : \A d \in cs : d <= c
        rows(c) == {d \in DOMAIN driven : c \in driven[d].cards}
        driving == {c \in DOMAIN ex : Drives(ex[c])}
    IN hallen # <<>> /\ ~SegmentNotFound(hallen, ex) =>
        /\ \A i \in DOMAIN hallen : on(i, "gap") \cup on(i, "slope") # {} =>
             \E d \in DOMAIN driven :
                 /\ driven[d].idx = i /\ driven[d].role = "gap"
                 /\ \A e \in DOMAIN driven :
                      driven[e].idx = i /\ driven[e].role = "gap" => e = d
                 /\ Volts(ex, driven[d]) = VoltsOf(ex, on(i, "slope"))
                      + IF on(i, "gap") = {} THEN 0 ELSE ex[last(on(i, "gap"))].volts
        /\ \A c \in driving :
             \/ Cardinality(rows(c)) = 1
             \/ /\ rows(c) = {}
                /\ \E d \in DOMAIN driven : \E k \in driven[d].cards :
                     k > c /\ <<c, k>> \in driven[d].overridden
        /\ Printed(ex) # 0 => rows(Printed(ex)) # {}
        /\ ~MixedExcitation(ex) /\ ~MoreThanOneFeedpoint(hallen, ex) =>
             Cardinality({IndexOf(hallen, ex[c]) : c \in driving}) <= 1
=============================================================================
