------------------------------ MODULE Caveats ------------------------------
(***************************************************************************)
(* What a run is told of its deck before it is solved: the caveats of a    *)
(* Hallen solve (crates/nec_solver/src/validate.rs) and what the MPIE     *)
(* refuses (mpie_session.rs).  Each caveat works out again, from the       *)
(* segments, what the solve will leave unmodelled, so each is a second     *)
(* opinion on HallenLayout.                                                *)
(*                                                                         *)
(* A problem is what the solve runs on: raw, the geometry built for        *)
(* Hallen; segs, that or its image problem; images, whether the kernel     *)
(* carries the ground's images; the ground; and the route, graph and       *)
(* paths of segs, which each caveat asks for.                              *)
(***************************************************************************)
EXTENDS HallenLayout, DeckDrive

Problem(s, contact, ground) ==
    LET segs == IF contact.kind = "image" THEN contact.segs ELSE s
        images == contact.kind = "none" /\ ground # "free"
    IN [raw |-> s, segs |-> segs, ground |-> ground, images |-> images,
        route |-> Route(segs, images), graph |-> Sections(segs),
        paths |-> IF NonTrivialPaths(segs, images) THEN PathsOf(segs) ELSE {}]

\* hallen_section_fallback
SectionFallback(q) == Fallback(q.segs, q.paths)

\* unsupported_topology_warning
Topology(q) == q.route # "graph" /\ ~Decomposes(q.raw)

\* Mutant: asked of the raw segments, as before FND-179.
LeavesABendRaw(q) ==
    LET raw == Problem(q.raw, Contact(q.raw, FALSE), q.ground)
    IN SectionFallback(raw) /\ \E p \in raw.paths : Len(SectionsOfPath(raw.segs, p)) > 1

\* bent_conductor_warning, hallen_leaves_a_bend_unmodelled
LeavesABend(q) == SectionFallback(q) /\ \E p \in q.paths : Len(SectionsOfPath(q.segs, p)) > 1

\* Between 15 and 75 degrees from horizontal: the squared sine is 1/15 to 14/15.
Slanted(seg) == LET d == Along(seg)
                    rise == 15 * d[3] * d[3]
                IN rise >= Dot(d, d) /\ rise <= 14 * Dot(d, d)

\* slanted_over_ground_warning: a wire that stands clear of the ground.
SlantOverGround(q) ==
    LET standing == {q.raw[i].tag : i \in {i \in DOMAIN q.raw :
                        q.ground = "pec" /\ \E p \in Ends(q.raw[i]) : p[3] = 0}}
    IN /\ q.ground # "free" /\ SectionFallback(q)
       /\ \E i \in DOMAIN q.raw : q.raw[i].tag \notin standing /\ Slanted(q.raw[i])

\* radius_step_warning: along one wire, or where wires join and the graph is not taken.
RadiusStep(q) ==
    LET s == q.raw
        wires == WiresOf(s)
        RadiusAt(e) == s[wires[e[1]][1]].radius
    IN \/ \E w \in DOMAIN wires : \E i \in wires[w][1] .. wires[w][2] :
            s[i].radius # s[wires[w][1]].radius
       \/ /\ q.route # "graph"
          /\ \E e, f \in EndsOf(wires) : /\ PointOf(s, wires, e) = PointOf(s, wires, f)
                                         /\ RadiusAt(e) # RadiusAt(f)

\* detect_wire_junctions
WireJunctions(s, wires) ==
    {j \in EndsOf(wires) \X EndsOf(wires) :
       /\ j[1] # j[2] /\ PointOf(s, wires, j[1]) = PointOf(s, wires, j[2])
       /\ SegOf(wires, j[1]) # SegOf(wires, j[2])}

\* feedpoint_at_junction_warnings, of a feed on segment i.
FedAtJunction(q, i) ==
    LET merged == MergedOf(q.raw)
    IN /\ q.route \notin {"graph", "paths"}
       /\ \E j \in WireJunctions(q.raw, merged) : \E e \in ToSet(j) : SegOf(merged, e) = i

\* at_free_end
AtFreeEnd(s, grounded, i) == i \in Free(s, grounded) \/ s[i].part = "centre"

\* free_end_feed_warnings, of a feed on segment i.
FedAtFreeEnd(q, i) == AtFreeEnd(q.raw, q.ground # "free", i)

\* joined_gaps_at_a_bend_deg: a bend with a gap on either side, at a node of the graph
\* or between two sections of a path whose sections fit.
Bent(s, row) == row.kind = "joined" /\ \E a, b \in row.gaps : ~Parallel(s[a], s[b])

JoinedAtABend(q, gaps) ==
    LET OfNode(p) == LET ends == SetToSeq(NodeEnds(q.graph, p))
                     IN IF Len(ends) = 2 THEN {NodeRow(p, gaps, From(ends[1]), From(ends[2]))} ELSE {}
        OfPath(path) ==
            LET secs == SectionsOfPath(q.segs, path)
            IN {NodeRow(Leaving(q.segs, Last(secs[k])), gaps, Behind(secs[k]), Ahead(secs[k + 1])) :
                  k \in IF SectionsFit(secs) THEN 1 .. Len(secs) - 1 ELSE {}}
        rows == IF q.route = "graph" THEN UNION {OfNode(p) : p \in Nodes(q.graph)}
                                     ELSE UNION {OfPath(p) : p \in q.paths}
    IN \E row \in rows : Bent(q.segs, row)

\* frequency_independent_caveats, of the deck and of a feed on segment i.
DeckCaveats(q) ==
    (IF Topology(q) THEN {"topology"} ELSE IF LeavesABend(q) THEN {"bend"} ELSE {})
      \cup (IF SlantOverGround(q) THEN {"slant"} ELSE {})
      \cup (IF RadiusStep(q) THEN {"radius"} ELSE {})

FeedCaveats(q, i) == (IF FedAtJunction(q, i) THEN {"junction feed"} ELSE {})
                       \cup (IF FedAtFreeEnd(q, i) THEN {"free end"} ELSE {})

\* hallen_geometry_caveats, but for the low-ground caveat, which asks the frequency;
\* the gaps are those of the feeds, ports and loads of the run.
CaveatsOf(q, feeds, gaps) == DeckCaveats(q) \cup UNION {FeedCaveats(q, i) : i \in feeds}
                               \cup (IF JoinedAtABend(q, gaps) THEN {"joined"} ELSE {})
-----------------------------------------------------------------------------
(* The system the solve builds                                             *)

Solve(q, gaps) ==
    CASE q.route = "graph" -> GraphSystem(q.graph, gaps)
      [] q.route = "paths" -> PathSystem(q.segs, q.paths, gaps)
      [] OTHER -> [groups |-> {m[1] .. m[2] : m \in ToSet(MergedOf(q.segs))},
                   refs |-> {}, rows |-> {}]
-----------------------------------------------------------------------------
(* The MPIE                                                                *)

\* mpie_unsupported, of the EX cards: a wave or a current source.
MpieUnsupported(ex) == \E c \in DOMAIN ex : ex[c].kind \in {"wave", "current"}

\* feed_reference_sign, feed_node_for_segment: a node of two arms takes a gap.
TakesGap(s, p) == Cardinality({i \in DOMAIN s : p \in Ends(s[i])}) = 2

FeedRefusal(s, i) == IF AtFreeEnd(s, FALSE, i) THEN "free end"
                     ELSE IF \A p \in Ends(s[i]) : ~TakesGap(s, p) THEN "no interior node"
                     ELSE "none"

\* mpie_plan: what the MPIE refuses a deck for, in its order, the first feed it refuses
\* before the others; "none" if it takes it.
MpiePlan(s, ex, ground) ==
    IF MpieUnsupported(ex) THEN "unsupported"
    ELSE IF ground # "free" /\ Touches(s) THEN "ground contact"
    ELSE IF SegmentNotFound(s, ex) THEN "no such segment"
    ELSE FoldLeft(LAMBDA why, d : IF why \in {"free end", "no interior node"} THEN why
                                  ELSE FeedRefusal(s, d.idx),
                  "no source", Driven(s, ex))
=============================================================================
