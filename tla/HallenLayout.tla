---------------------------- MODULE HallenLayout ----------------------------
(***************************************************************************)
(* The system a Hallen solve makes of its conductors: each straight        *)
(* section with two constants of its own, and the rows that fix them at    *)
(* the points where sections end.  Written twice in the code: for the      *)
(* conductor paths (section_layout, crates/nec_solver/src/hallen_session.rs) *)
(* and for the section graph (GraphSystem::build, section_graph.rs), which *)
(* is to reproduce it where both apply.                                    *)
(*                                                                         *)
(* A row is known by its kind and the segments whose currents or constants *)
(* it ties; its coefficients are left out.  gaps.feeds are the segments    *)
(* with a feed, a source or a network port, gaps.load the load per metre   *)
(* of each.                                                                *)
(***************************************************************************)
EXTENDS Conductors

Nearest(q, k) == SubSeq(q, 1, IF Len(q) < k THEN Len(q) ELSE k)
SegsOf(q) == [i \in DOMAIN q |-> q[i].seg]
-----------------------------------------------------------------------------
(* NodeGaps                                                                *)

LoadStep(gaps, j, nbrs) == gaps.load[j] # 0 /\ \E n \in nbrs : gaps.load[n] # gaps.load[j]

\* gap_at: whether the current kinks on the i-th segment of a side, nearest first.
GapAt(gaps, side, other, i) ==
    LET nbrs == {IF i = 1 THEN other[1] ELSE side[i - 1]}
                  \cup (IF i < Len(side) THEN {side[i + 1]} ELSE {})
    IN side[i] \in gaps.feeds \/ LoadStep(gaps, side[i], nbrs)

\* NodeGaps::row, at a point where two sections end, of the sides there: the kind, the
\* gap segments it is written for, and the segments each side is read from.
Row(p, kind, at, of) == [point |-> p, kind |-> kind, gaps |-> at, of |-> of]
Linear(p, sides) == Row(p, "linear", {}, {ToSet(Nearest(q, 2)) : q \in sides})

Extrapolate(p, gaps, near, far) ==
    IF Len(far) >= 3 /\ ~GapAt(gaps, far, near, 2)
    THEN Row(p, "extrapolate", {near[1]}, {ToSet(far)})
    ELSE Linear(p, {near, far})

NodeRow(p, gaps, a, b) ==
    LET inA == GapAt(gaps, a, b, 1)
        inB == GapAt(gaps, b, a, 1)
    IN CASE inA /\ inB   -> Row(p, "joined", {a[1], b[1]}, {})
         [] inA /\ ~inB  -> Extrapolate(p, gaps, a, b)
         [] ~inA /\ inB  -> Extrapolate(p, gaps, b, a)
         [] ~inA /\ ~inB -> Linear(p, {a, b})

\* path_end_rows, extrapolated: no current at a free end.
FreeEndRow(p, side) == Row(p, "free", {}, {ToSet(Nearest(side, 2))})

\* Phi is the same from both sides.
Potential(p, one, other) == Row(p, "potential", {}, {{one[1]}, {other[1]}})
-----------------------------------------------------------------------------
(* The conductor paths                                                     *)

Entering(s, x) == IF x.forward THEN s[x.seg].from ELSE s[x.seg].to
Leaving(s, x) == IF x.forward THEN s[x.seg].to ELSE s[x.seg].from
Heading(s, x) == Minus(Leaving(s, x), Entering(s, x))
Turns(s, x, y) == \/ Cross(Heading(s, x), Heading(s, y)) # Origin
                  \/ Dot(Heading(s, x), Heading(s, y)) < 0

\* section_starts: a path cut where it turns.
SectionsOfPath(s, path) ==
    LET starts == SelectSeq([i \in DOMAIN path |-> i],
                            LAMBDA i : i = 1 \/ Turns(s, path[i - 1], path[i]))
    IN [k \in DOMAIN starts |->
          SubSeq(path, starts[k], IF k = Len(starts) THEN Len(path) ELSE starts[k + 1] - 1)]

\* sections_fit
SectionsFit(sections) == \A k \in DOMAIN sections : Len(sections[k]) >= 2

\* hallen_section_fallback: one section that does not fit sends the whole deck back to
\* one pair of constants per path.
Fallback(s, paths) == \E p \in paths : ~SectionsFit(SectionsOfPath(s, p))

Ahead(section) == Nearest(SegsOf(section), 3)
Behind(section) == Nearest(Reverse(SegsOf(section)), 3)

\* What each path gives the system: groups of segments with their own constants, the
\* point each group's corner term is referenced at, and its rows.
PathLayout(s, gaps, path, whole) ==
    LET sections == IF whole THEN <<path>> ELSE SectionsOfPath(s, path)
        last == sections[Len(sections)]
        Bend(k) == LET p == Leaving(s, Last(sections[k]))
                       a == Behind(sections[k])
                       b == Ahead(sections[k + 1])
                   IN {NodeRow(p, gaps, a, b), Potential(p, a, b)}
        RefPoint(k) == IF k = 1 THEN Leaving(s, Last(sections[k]))
                       ELSE Entering(s, sections[k][1])
    IN [groups |-> {ToSet(SegsOf(sections[k])) : k \in DOMAIN sections},
        refs |-> IF whole THEN {}
                 ELSE {<<ToSet(SegsOf(sections[k])), RefPoint(k)>> : k \in DOMAIN sections},
        rows |-> {FreeEndRow(Entering(s, path[1]), Ahead(sections[1])),
                  FreeEndRow(Leaving(s, Last(path)), Behind(last))}
                   \cup UNION {Bend(k) : k \in 1 .. Len(sections) - 1}]

Gathered(layouts) == [groups |-> UNION {l.groups : l \in layouts},
                      refs |-> UNION {l.refs : l \in layouts},
                      rows |-> UNION {l.rows : l \in layouts}]

\* group_sections, of the paths of a list.
PathSystem(s, paths, gaps) ==
    Gathered({PathLayout(s, gaps, p, Fallback(s, paths)) : p \in paths})
-----------------------------------------------------------------------------
(* The section graph                                                       *)

\* The segments of a section from one of its ends.
From(e) == IF e[2] THEN Behind(e[1].segs) ELSE Ahead(e[1].segs)

\* Mutant: every section is referenced at its start.
RefAtStart(graph, c) == FALSE

\* A section is referenced at its start, unless that is a free end.
RefAtEnd(graph, c) == Cardinality(NodeEnds(graph, c.start)) < 2

\* The rows of a node: no current at a free end; else one for the currents, and equal
\* potential against the first section there.
NodeRows(graph, gaps, p) ==
    LET ends == SetToSeq(NodeEnds(graph, p))
        currents == IF Len(ends) = 2 THEN NodeRow(p, gaps, From(ends[1]), From(ends[2]))
                    ELSE Row(p, "kirchhoff", {},
                             {ToSet(Nearest(From(ends[k]), 2)) : k \in DOMAIN ends})
    IN IF Len(ends) = 1 THEN {FreeEndRow(p, From(ends[1]))}
       ELSE {currents} \cup {Potential(p, From(ends[1]), From(ends[k])) : k \in 2 .. Len(ends)}

\* GraphSystem::build
GraphSystem(graph, gaps) ==
    [groups |-> {ToSet(SegsOf(c.segs)) : c \in graph},
     refs |-> {<<ToSet(SegsOf(c.segs)), IF RefAtEnd(graph, c) THEN c.end ELSE c.start>> : c \in graph},
     rows |-> UNION {NodeRows(graph, gaps, p) : p \in Nodes(graph)}]

\* The constants of a system: two for each group, beside a current for each segment,
\* which has its own collocation row.
Determined(system) == Cardinality(system.rows) = 2 * Cardinality(system.groups)
=============================================================================
