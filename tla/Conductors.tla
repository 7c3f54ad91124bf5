----------------------------- MODULE Conductors -----------------------------
(***************************************************************************)
(* What a list of segments is as conductors: wires, straight conductors,   *)
(* paths (crates/nec_solver/src/geometry.rs), the graph of sections and    *)
(* nodes (section_graph.rs), and which of them the Hallen solve is given   *)
(* (hallen_session.rs).  Four decompositions of one list, each with a rule *)
(* of its own for what continues what.                                     *)
(*                                                                         *)
(* A wire is <<first, last>>, indices of the list; a wire end is           *)
(* <<wire, 0>> for its start and <<wire, 1>> for its end.                  *)
(***************************************************************************)
EXTENDS Integers, Sequences, FiniteSets, SequencesExt, DeckGeometry

Parallel(a, b) == Cross(Along(a), Along(b)) = Origin
SameWay(a, b) == Parallel(a, b) /\ Dot(Along(a), Along(b)) > 0

\* continues_straight
ContinuesStraight(a, b) == a.to = b.from /\ SameWay(a, b) /\ a.radius = b.radius

\* The wires that start at each index of starts.
Cut(s, starts) ==
    LET at == SelectSeq([i \in DOMAIN s |-> i], LAMBDA i : i \in starts)
    IN [w \in DOMAIN at |-> <<at[w], IF w = Len(at) THEN Len(s) ELSE at[w + 1] - 1>>]

\* Runs of one tag, each segment starting where the one before ended.  (The tag u32::MAX,
\* which the code takes for "no wire yet", is not told apart.)
Runs(s) == Cut(s, {i \in DOMAIN s : \/ i = 1 \/ s[i].tag # s[i - 1].tag
                                    \/ s[i - 1].to # s[i].from})

\* split_at_touching_ends: a segment outside the run starts or ends at its joint m.
Touched(s, run, m) ==
    \E i \in DOMAIN s : i \notin run[1] .. run[2] /\ s[m].to \in Ends(s[i])

SplitWhereTouched(s, runs) ==
    Cut(s, UNION {{run[1]} \cup {m + 1 : m \in {m \in run[1] .. run[2] - 1 : Touched(s, run, m)}}
                  : run \in ToSet(runs)})

\* wire_endpoints_from_segs
WiresOf(s) == SplitWhereTouched(s, Runs(s))

EndsOf(wires) == (DOMAIN wires) \X {0, 1}
PointOf(s, wires, e) == IF e[2] = 0 THEN s[wires[e[1]][1]].from ELSE s[wires[e[1]][2]].to
SegOf(wires, e) == wires[e[1]][e[2] + 1]
EndsAt(s, wires, p) == {e \in EndsOf(wires) : PointOf(s, wires, e) = p}
Other(e) == <<e[1], 1 - e[2]>>

\* Mutant: the halves of a bar are welded over the stem that ends between them.
MergesPast(n) == TRUE

\* A joint where a third wire ends is no continuation.
MergesAt(n) == n = 2

Merged(s, wires) ==
    LET Merges(w) == LET last == wires[w - 1][2] IN
                     /\ ContinuesStraight(s[last], s[wires[w][1]])
                     /\ MergesAt(Cardinality(EndsAt(s, wires, s[last].to)))
    IN Cut(s, {wires[w][1] : w \in {w \in DOMAIN wires : w = 1 \/ ~Merges(w)}})

\* merge_collinear_wire_endpoints
MergedOf(s) == Merged(s, WiresOf(s))
-----------------------------------------------------------------------------
(* Paths                                                                   *)

\* From the wire end it enters by, a walk leaves each wire by the other end and goes
\* on at the end "on" has for that one, if any; it crosses no wire twice.
Walk(wires, from, on) ==
    LET Crossed(w) == {w[i][1] : i \in DOMAIN w}
        walk[n \in 1 .. Len(wires)] ==
            IF n = 1 THEN <<from>>
            ELSE LET w == walk[n - 1]
                     next == on[Other(Last(w))]
                 IN IF next = {} \/ \E e \in next : e[1] \in Crossed(w) THEN w
                    ELSE w \o SetToSeq(next)
    IN walk[Len(wires)]

\* The segments of a walk, each with whether it is crossed forward.
Traced(wires, walk) ==
    LET Cross1(e) == LET f == wires[e[1]][1]
                         l == wires[e[1]][2]
                     IN [i \in 1 .. l - f + 1 |->
                           [seg |-> IF e[2] = 0 THEN f + i - 1 ELSE l - i + 1,
                            forward |-> e[2] = 0]]
    IN FlattenSeq([k \in DOMAIN walk |-> Cross1(walk[k])])

\* The other end at a point where exactly two meet.
Partner(s, wires, e) ==
    LET at == EndsAt(s, wires, PointOf(s, wires, e))
    IN IF Cardinality(at) = 2 THEN at \ {e} ELSE {}

\* build_conductor_paths: out of scope (no paths) are a point where three ends meet and
\* a conductor with no free end; a path starts at the earlier of its free ends.
PathWalks(s, wires) ==
    LET free == {e \in EndsOf(wires) : Cardinality(EndsAt(s, wires, PointOf(s, wires, e))) = 1}
        on == [e \in EndsOf(wires) |-> Partner(s, wires, e)]
        WalkFrom(e) == Walk(wires, e, on)
        Before(e, f) == e[1] < f[1] \/ (e[1] = f[1] /\ e[2] <= f[2])
    IN {w \in {WalkFrom(e) : e \in free} : Before(w[1], Other(Last(w)))}

HighDegree(s, wires) ==
    \E e \in EndsOf(wires) : Cardinality(EndsAt(s, wires, PointOf(s, wires, e))) > 2

ClosedLoop(s, wires) ==
    LET walked == UNION {{w[i][1] : i \in DOMAIN w} : w \in PathWalks(s, wires)}
    IN DOMAIN wires \ walked # {}

Unbranched(s, wires) == ~HighDegree(s, wires) /\ ~ClosedLoop(s, wires)
Decomposes(s) == Unbranched(s, WiresOf(s))

Paths(s, wires) == {Traced(wires, w) : w \in PathWalks(s, wires)}
PathsOf(s) == Paths(s, WiresOf(s))

\* ConductorPath::is_trivial
Trivial(s, path) ==
    /\ \A i \in DOMAIN path : path[i].forward
    /\ \A i \in 1 .. Len(path) - 1 :
         path[i + 1].seg = path[i].seg + 1 /\ ContinuesStraight(s[path[i].seg], s[path[i + 1].seg])

Reverse1(path) == [i \in DOMAIN path |->
                     [seg |-> path[Len(path) + 1 - i].seg, forward |-> ~path[Len(path) + 1 - i].forward]]
Lowest(path) == CHOOSE i \in DOMAIN path : \A j \in DOMAIN path : path[i].seg <= path[j].seg

\* The lowest segment of a chain keeps its own direction.
Framed(path) == IF path[Lowest(path)].forward THEN path ELSE Reverse1(path)

\* SegmentOrder::chains: the segments in walk order, chain by chain, with those that run
\* against their chain marked to be flipped; the deck's order when there are no paths.
ChainOrder(s) ==
    IF ~Decomposes(s) THEN [i \in DOMAIN s |-> [seg |-> i, forward |-> TRUE]]
    ELSE LET Chains(i) == {p \in {Framed(p) : p \in PathsOf(s)} : p[Lowest(p)].seg = i}
         IN FlattenSeq([i \in DOMAIN s |-> IF Chains(i) = {} THEN <<>>
                                           ELSE CHOOSE p \in Chains(i) : TRUE])

\* SegmentOrder::segments
InOrder(s, order) ==
    [i \in DOMAIN order |->
       LET g == s[order[i].seg]
       IN IF order[i].forward THEN g ELSE [g EXCEPT !.from = g.to, !.to = g.from]]
-----------------------------------------------------------------------------
(* The section graph                                                       *)

\* The direction in which a wire leaves the point its end is at.
Outward(s, wires, e) == LET d == Along(s[SegOf(wires, e)])
                        IN IF e[2] = 0 THEN d ELSE Times(-1, d)

\* continues: the wire end that the one at a point goes straight on in, when it is no node.
StraightOn(s, wires, e) ==
    {f \in Partner(s, wires, e) :
       /\ Cross(Outward(s, wires, e), Outward(s, wires, f)) = Origin
       /\ Dot(Outward(s, wires, e), Outward(s, wires, f)) < 0
       /\ s[SegOf(wires, e)].radius = s[SegOf(wires, f)].radius}

\* section_graph, without the one-segment refusal: each section as its walk, found from
\* its lowest wire by backing up to where it starts.
SectionWalks(s, wires) ==
    LET on == [e \in EndsOf(wires) |-> StraightOn(s, wires, e)]
        Back(w) == Other(Last(Walk(wires, <<w, 1>>, on)))
        WalkOf(w) == Walk(wires, Back(w), on)
        Wires1(k) == {k[i][1] : i \in DOMAIN k}
    IN {WalkOf(w) : w \in {w \in DOMAIN wires : \A v \in Wires1(WalkOf(w)) : w <= v}}

SectionsOf(s, wires) == {[segs |-> Traced(wires, k),
                          start |-> PointOf(s, wires, k[1]),
                          end |-> PointOf(s, wires, Other(Last(k)))] : k \in SectionWalks(s, wires)}
Sections(s) == SectionsOf(s, WiresOf(s))

\* GraphRefusal::OneSegmentRun
OneSegmentRun(graph) == \E c \in graph : Len(c.segs) < 2

\* The section ends at a node: TRUE where it is the section's end.
NodeEnds(graph, p) == {e \in graph \X BOOLEAN : p = IF e[2] THEN e[1].end ELSE e[1].start}
Nodes(graph) == {c.start : c \in graph} \cup {c.end : c \in graph}

\* has_junction_or_loop: a node of three ends, or a cycle - as many sections between
\* the nodes of a component as it has nodes.
Reached(graph, p) ==
    LET reach[n \in 0 .. Cardinality(Nodes(graph))] ==
            IF n = 0 THEN {p}
            ELSE LET r == reach[n - 1]
                 IN r \cup {c.end : c \in {c \in graph : c.start \in r}}
                      \cup {c.start : c \in {c \in graph : c.end \in r}}
    IN reach[Cardinality(Nodes(graph))]

HasJunctionOrLoop(graph) ==
    \/ \E p \in Nodes(graph) : Cardinality(NodeEnds(graph, p)) >= 3
    \/ Cardinality(graph) > Cardinality(Nodes(graph))
                             - Cardinality({Reached(graph, p) : p \in Nodes(graph)})

\* has_radius_step
EndSeg(s, e) == s[IF e[2] THEN Last(e[1].segs).seg ELSE e[1].segs[1].seg]
HasRadiusStep(s, graph) ==
    \E p \in Nodes(graph) :
        /\ Cardinality(NodeEnds(graph, p)) = 2
        /\ \E e, f \in NodeEnds(graph, p) : EndSeg(s, e).radius # EndSeg(s, f).radius

\* graph_of: a junction or loop the paths cannot carry, or a radius step.
NeedsGraph(s, graph) == IF Decomposes(s) THEN HasRadiusStep(s, graph)
                                         ELSE HasJunctionOrLoop(graph)

\* needs_transverse_term: conductors that are not parallel to one another or, over a
\* ground with images, to their own images.
Transverse(s, grounded) ==
    \/ \E p, q \in PathsOf(s) : ~Parallel(s[p[1].seg], s[q[1].seg])
    \/ grounded /\ \E p \in PathsOf(s) :
                     Cross(Along(s[p[1].seg]), Mirrored(Along(s[p[1].seg]))) # Origin

\* graph_of
TakesGraph(s) == LET graph == Sections(s) IN ~OneSegmentRun(graph) /\ NeedsGraph(s, graph)

\* classify_paths, nontrivial_paths
NonTrivialPaths(s, grounded) ==
    Decomposes(s) /\ (Transverse(s, grounded) \/ \E p \in PathsOf(s) : ~Trivial(s, p))

\* hallen_route: the route a drive takes.
Route(s, grounded) ==
    CASE TakesGraph(s) -> "graph"
      [] ~TakesGraph(s) /\ ~Decomposes(s) -> "unsupported"
      [] ~TakesGraph(s) /\ NonTrivialPaths(s, grounded) -> "paths"
      [] OTHER -> "plain"

\* one_segment_run_topology: a loop or junction, on a straight run of one segment.
OneSegmentRunTopology(s) == ~Decomposes(s) /\ OneSegmentRun(Sections(s))

\* pec_ground_contact: none, the image problem, or a contact it refuses.
Contact(s, pec) ==
    CASE ~(pec /\ Touches(s)) -> [kind |-> "none", segs |-> <<>>]
      [] pec /\ Touches(s) /\ ~BelowOrIn(s) /\ ~OneSegmentRunTopology(Doubled(s)) ->
           [kind |-> "image", segs |-> Doubled(s)]
      [] OTHER -> [kind |-> "refused", segs |-> <<>>]
=============================================================================
