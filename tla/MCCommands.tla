----------------------------- MODULE MCCommands -----------------------------
(***************************************************************************)
(* What a command line asks of many solves, for TLC: a mesh study          *)
(* (MeshStudy), a resonance search (Resonance), a matching network         *)
(* (MatchRun), and which frequencies a run solves at (Frequencies).  Each  *)
(* is a process of its own; MCCli takes one at a time.                     *)
(***************************************************************************)
EXTENDS Integers, Sequences

CONSTANTS Studies, Searches, Reactances, Resolution, Requests, Loads, MaxPoints,
          Sweeps, MAX_FR_POINTS, Largest, None

VARIABLES study, meshStage, refined, meshes, report, studyRefusal, studyCode,
          search, searchAt, seen, low, high, mid, found, searchError,
          request, matchAt, points, handled, blocks, unmatched, matchCode,
          asked, freqStage, freqs, warned, freqRefusal

studyVars == <<study, meshStage, refined, meshes, report, studyRefusal, studyCode>>
searchVars == <<search, searchAt, seen, low, high, mid, found, searchError>>
matchVars == <<request, matchAt, points, handled, blocks, unmatched, matchCode>>
freqVars == <<asked, freqStage, freqs, warned, freqRefusal>>
commandVars == <<studyVars, searchVars, matchVars, freqVars>>

Study == INSTANCE MeshStudy WITH stage <- meshStage, refusal <- studyRefusal,
                                 code <- studyCode
Search == INSTANCE Resonance WITH at <- searchAt, lo <- low, hi <- high, result <- found,
                                  error <- searchError
Net == INSTANCE LNetwork
Match == INSTANCE MatchRun WITH at <- matchAt, failed <- unmatched, code <- matchCode
Freq == INSTANCE Frequencies WITH stage <- freqStage, said <- warned,
                                  refusal <- freqRefusal
-----------------------------------------------------------------------------
(* What is asked                                                           *)

\* Every series of four values, on a reactance that is still, drifts or grows; pairs
\* of rows of three, and none; and every way a list of factors is refused.
Values == {0, 4, 6, 7}
Still == [i \in 1 .. 4 |-> 4]
PlainStudy == [factors |-> <<1, 3, 9>>, tolOhm |-> 1, tolShare |-> 0, rows |-> <<>>,
               unread |-> FALSE, unrefined |-> FALSE, sizeLimit |-> 100, refused |-> {}]
OneRow == {[PlainStudy EXCEPT !.factors = <<1, 3, 9, 27>>, !.tolOhm = a, !.tolShare = 2 * (1 - a),
                              !.rows = <<[r |-> v, x |-> w]>>] :
              a \in 0 .. 1, v \in [1 .. 4 -> Values],
              w \in {Still, <<0, 4, 6, 7>>, <<0, 0, 4, 6>>}}
TwoRows == {PlainStudy} \cup
    {[PlainStudy EXCEPT !.rows = <<[r |-> v, x |-> w], [r |-> w, x |-> v]>>] :
        v \in [1 .. 3 -> Values],
        w \in {<<4, 4, 4>>, <<0, 4, 6>>, <<0, 6, 4>>, <<7, 4, 0>>}}
Factors == {<<1>>, <<3, 3>>, <<9, 3>>, <<1, 2>>, <<1, 3>>, <<3, 9, 27>>, <<1, 3, 27>>,
            <<1, 3, 9, 27>>}
RefusedStudies ==
    {[PlainStudy EXCEPT !.factors = f, !.unread = n, !.unrefined = u, !.sizeLimit = z, !.refused = d,
                        !.rows = <<[r |-> Still, x |-> Still]>>] :
        f \in Factors, n \in BOOLEAN, u \in BOOLEAN, z \in {1, 3, 9, 27}, d \in {{}, {1}, {9}}}
MCStudies == OneRow \cup TwoRows \cup RefusedStudies

MCSearches == [lo : {0}, hi : {-1, 0, 16}, tol : 0 .. 1, maxIter : 0 .. 4]
MCReactances == -2 .. 2

\* Every way of typing the command on one load; then loads and targets with rational roots.
Typed == [z : {"none", "bad", "given"}, freq : {"none", "bad", "given"},
          target : {"good", "bad", "negative"}, forwarded : {"none", "bad", "deck"},
          load : {<<5, 0>>}, zt : {<<5, 0>>}]
Resistive == {<<1, 0>>, <<2, 0>>, <<5, 0>>, <<8, 0>>, <<10, 0>>}
Reactive == {<<4, 2>>, <<2, 1>>, <<2, -1>>, <<5, 5>>, <<1, 3>>, <<10, 5>>, <<0, 3>>}
Targets == {<<1, 0>>, <<2, 0>>, <<4, 0>>, <<5, 0>>, <<2, 1>>, <<5, -5>>}
MCRequests ==
    Typed \cup {[z |-> "given", freq |-> "given", target |-> "good", forwarded |-> "none",
                 load |-> q[1], zt |-> q[2]] :
                   q \in {p \in (Resistive \cup Reactive) \X Targets :
                            p[1][1] <= 0 \/ Net!RootsRational(p[1], p[2])}}
MCLoads == {<<1, 0>>, <<5, 5>>, <<0, 3>>}

\* Short lists and decks; ranges on and off the grid, above, at and below the resolution.
Cards == [type : 0 .. 2, steps : 0 .. 4, start : {-1, 0, 2}, step : {-2, 0, 1, 3}]
Line(t, n, f, d) == [type |-> t, steps |-> n, start |-> f, step |-> d]
MCSweeps ==
    {[source |-> "list", points |-> p] : p \in UNION {[1 .. n -> {0, 2, 9}] : n \in 0 .. 2}}
    \cup {[source |-> "range", span |-> w, step |-> s, err |-> e, finite |-> f, room |-> m] :
            w \in {-1, 0, 15, 16, 17, 31, 32, 33, 34, 40, 51, 60, 64}, s \in {0, 15, 16, 17, 20},
            e \in -5 .. 5, f \in BOOLEAN, m \in {-1, 20, 80}}
    \cup {[source |-> "deck", cards |-> p] :
            p \in {<<>>} \cup [1 .. 1 -> Cards]
                  \cup ({Line(0, 1, 0, 0), Line(1, 2, 2, 1)} \X Cards)}
-----------------------------------------------------------------------------
NoStudy == Study!InitWith({PlainStudy})
NoSearch == Search!InitWith({[lo |-> 0, hi |-> 0, tol |-> 0, maxIter |-> 0]})
NoMatch == Match!InitWith({CHOOSE q \in Typed : TRUE})
NoFreq == Freq!InitWith({[source |-> "list", points |-> <<>>]})
NoCommand == NoStudy /\ NoSearch /\ NoMatch /\ NoFreq

CommandInit(command) ==
    \/ command = "converge" /\ Study!Init /\ NoSearch /\ NoMatch /\ NoFreq
    \/ command = "resonance" /\ Search!Init /\ NoStudy /\ NoMatch /\ NoFreq
    \/ command = "match" /\ Match!Init /\ NoStudy /\ NoSearch /\ NoFreq
    \/ command = "frequencies" /\ Freq!Init /\ NoStudy /\ NoSearch /\ NoMatch

CommandStep(command) ==
    \/ command = "converge" /\ Study!Next /\ UNCHANGED <<searchVars, matchVars, freqVars>>
    \/ command = "resonance" /\ Search!Next /\ UNCHANGED <<studyVars, matchVars, freqVars>>
    \/ command = "match" /\ Match!Next /\ UNCHANGED <<studyVars, searchVars, freqVars>>
    \/ command = "frequencies" /\ Freq!Next /\ UNCHANGED <<studyVars, searchVars, matchVars>>

CommandEnded(command) == CASE command = "converge" -> meshStage = "done"
                           [] command = "resonance" -> searchAt = "done"
                           [] command = "match" -> matchAt = "done"
                           [] command = "frequencies" -> freqStage \in {"solve", "done"}

CommandsTypeOK == Study!TypeOK /\ Search!TypeOK /\ Match!TypeOK /\ Freq!TypeOK
=============================================================================
