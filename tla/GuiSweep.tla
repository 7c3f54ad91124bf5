------------------------------ MODULE GuiSweep ------------------------------
(***************************************************************************)
(* The streaming sweep: the reducer's sweep phase                          *)
(* (apps/nec-gui/src/app_state.rs), composed with the streams that feed it *)
(* (apps/nec-gui/src/sweep_stream.rs), one per RunSweep.                   *)
(*                                                                         *)
(* A stream sends its messages in order; two streams, one of them of a run *)
(* the user has given up, interleave in any order.  A point is its place   *)
(* in its sweep and the run that solved it; a caveat is which of the two   *)
(* it is and its run.                                                      *)
(***************************************************************************)
EXTENDS Integers, Sequences, FiniteSets, SequencesExt

CONSTANTS Solvers,
          Points,   \* bound: frequencies of a sweep, at least one
          MaxRuns   \* bound: sweeps started

SweepAssumption == Points \in Nat \ {0} /\ MaxRuns \in Nat

RunIds == 1 .. MaxRuns

VARIABLES solver,
          nextRun,   \* next_run, the sweeps' own
          phase,     \* sweep_phase: "idle", "running", "streaming", "done", "failed"
          run,       \* the id Running and Streaming carry, 0 in the other phases
          points,    \* the points the phase carries
          caveats,   \* sweep_caveats
          streams,   \* the streams not ended: run, solver, and where each is
          asked      \* history: the solver of each sweep

vars == <<solver, nextRun, phase, run, points, caveats, streams, asked>>

Stages == {"prepare", "geometry", "points", "aggregate", "end"}

TypeOK == /\ solver \in Solvers
          /\ nextRun \in 0 .. MaxRuns
          /\ phase \in {"idle", "running", "streaming", "done", "failed"}
          /\ run \in 0 .. MaxRuns /\ (run # 0) = (phase \in {"running", "streaming"})
          /\ points \in Seq([run : RunIds, at : 1 .. Points])
          /\ caveats \in Seq([run : RunIds, kind : {"geometry", "aggregate"}])
          /\ streams \subseteq [run : RunIds, stage : Stages, next : 1 .. Points + 1,
                                failed : BOOLEAN]
          /\ asked \in [RunIds -> Solvers]

Init == /\ solver \in Solvers
        /\ nextRun = 0
        /\ phase = "idle" /\ run = 0 /\ points = <<>> /\ caveats = <<>>
        /\ streams = {}
        /\ asked = [r \in RunIds |-> solver]
-----------------------------------------------------------------------------
(* The user                                                                *)

\* can_sweep
MayRun == phase \notin {"running", "streaming"}

\* RunSweep clears the caveats of the sweep before.
Minted == /\ MayRun /\ nextRun < MaxRuns
          /\ nextRun' = nextRun + 1
          /\ asked' = [asked EXCEPT ![nextRun + 1] = solver]
          /\ caveats' = <<>>
          /\ points' = <<>>

RunSweep ==
    /\ Minted
    /\ phase' = "running" /\ run' = nextRun + 1
    /\ streams' = streams \cup {[run |-> nextRun + 1, stage |-> "prepare", next |-> 1,
                                 failed |-> FALSE]}
    /\ UNCHANGED solver

\* A range that does not parse, or a deck that cannot be read: SweepComplete(Err)
\* in the same step.
RunSweepRefused ==
    /\ Minted
    /\ phase' = "failed" /\ run' = 0
    /\ UNCHANGED <<solver, streams>>

\* discard_solver_derived_state
Discard == phase' = "idle" /\ run' = 0 /\ points' = <<>> /\ caveats' = <<>>

SolverSelected(s) ==
    /\ s # solver
    /\ solver' = s
    /\ Discard
    /\ UNCHANGED <<nextRun, streams, asked>>
-----------------------------------------------------------------------------
(* The reducer's completion arms                                           *)

\* Mutant: the id is not carried through streaming (FND-115).
AcceptsByPhase(s) == phase \in {"running", "streaming"}

\* accepted_run_for
Accepts(s) == run = s.run

SweepCaveats(s, kind) ==
    IF Accepts(s)
    THEN caveats' = Append(caveats, [run |-> s.run, kind |-> kind])
         /\ UNCHANGED <<phase, run, points>>
    ELSE UNCHANGED <<phase, run, points, caveats>>

SweepPointComputed(s) ==
    IF Accepts(s)
    THEN /\ phase' = "streaming" /\ run' = s.run
         /\ points' = Append(points, [run |-> s.run, at |-> s.next])
         /\ UNCHANGED caveats
    ELSE UNCHANGED <<phase, run, points, caveats>>

\* Mutant: a failed sweep loses the points it had (FND-033), or keeps its run.
PointsKeptNone == <<>>

PointsKept == points

RunAfterEnd == 0

\* SweepComplete(Err): Failed(e, kept).
SweepFailed(s) ==
    IF Accepts(s)
    THEN phase' = "failed" /\ run' = RunAfterEnd /\ points' = PointsKept /\ UNCHANGED caveats
    ELSE UNCHANGED <<phase, run, points, caveats>>

\* SweepStreamDone finalises what streamed in; a run with no point stays running.
SweepStreamDone(s) ==
    IF Accepts(s) /\ phase = "streaming"
    THEN phase' = "done" /\ run' = RunAfterEnd /\ UNCHANGED <<points, caveats>>
    ELSE UNCHANGED <<phase, run, points, caveats>>
-----------------------------------------------------------------------------
(* A stream: run_sweep_stream, one message a step                          *)

Becomes(s, t) == streams' = (streams \ {s}) \cup {t}
Ends(s) == streams' = streams \ {s}

\* SweepJob::prepare refuses the deck, or the job is ready.
PrepareFails(s) == s.stage = "prepare" /\ SweepFailed(s) /\ Ends(s)
Prepared(s) == /\ s.stage = "prepare"
               /\ Becomes(s, [s EXCEPT !.stage = "geometry"])
               /\ UNCHANGED <<phase, run, points, caveats>>

SendGeometryCaveats(s) == /\ s.stage = "geometry"
                          /\ SweepCaveats(s, "geometry")
                          /\ Becomes(s, [s EXCEPT !.stage = "points"])

SendPoint(s) == /\ s.stage = "points" /\ s.next <= Points
                /\ SweepPointComputed(s)
                /\ Becomes(s, [s EXCEPT !.next = @ + 1])

\* A frequency fails to solve: the aggregate is sent all the same.
PointFails(s) == /\ s.stage = "points" /\ s.next <= Points
                 /\ Becomes(s, [s EXCEPT !.stage = "aggregate", !.failed = TRUE])
                 /\ UNCHANGED <<phase, run, points, caveats>>

PointsDone(s) == /\ s.stage = "points" /\ s.next > Points
                 /\ Becomes(s, [s EXCEPT !.stage = "aggregate"])
                 /\ UNCHANGED <<phase, run, points, caveats>>

Aggregate(s) == SweepCaveats(s, "aggregate")

SendAggregate(s) == /\ s.stage = "aggregate"
                    /\ Aggregate(s)
                    /\ Becomes(s, [s EXCEPT !.stage = "end"])

Close(s) == IF s.failed THEN SweepFailed(s) ELSE SweepStreamDone(s)

SendEnd(s) == s.stage = "end" /\ Close(s) /\ Ends(s)

Step(s) == /\ \/ PrepareFails(s) \/ Prepared(s) \/ SendGeometryCaveats(s)
              \/ SendPoint(s) \/ PointFails(s) \/ PointsDone(s)
              \/ SendAggregate(s) \/ SendEnd(s)
           /\ UNCHANGED <<solver, nextRun, asked>>
-----------------------------------------------------------------------------
Next == \/ RunSweep \/ RunSweepRefused
        \/ \E s \in Solvers : SolverSelected(s)
        \/ \E s \in streams : Step(s)

Spec == Init /\ [][Next]_vars

-----------------------------------------------------------------------------
(* Properties                                                              *)

\* The points on screen are the first points of one sweep, in order, each once,
\* and of the sweep that is awaited if one is: two streams never merge (FND-115).
OneSweepOnScreen ==
    /\ \A i \in 1 .. Len(points) : points[i] = [run |-> points[1].run, at |-> i]
    /\ run # 0 /\ points # <<>> => points[1].run = run

\* Points on screen were solved by the selected solver.
PointsOfSelectedSolver == points # <<>> => asked[points[1].run] = solver

\* Points on screen are qualified: the geometry caveats stand before the first
\* point, the aggregate by the end, on the failing path too, each once and both of
\* the same sweep (FND-014, FND-042).
PointsAreQualified ==
    points # <<>> =>
        LET mine(kind) == [run |-> points[1].run, kind |-> kind]
        IN IF phase = "streaming"
           THEN caveats \in {<<mine("geometry")>>, <<mine("geometry"), mine("aggregate")>>}
           ELSE caveats = <<mine("geometry"), mine("aggregate")>>

\* A finished sweep has all of its points.
DoneIsComplete == phase = "done" => Len(points) = Points

\* A point that reached the screen stays there until the user starts another sweep
\* or picks another solver: a failure does not take it away (FND-033).
PointKept == IsPrefix(points, points') \/ nextRun' # nextRun \/ solver' # solver

\* Every sweep ends.
EverySweepEnds == run # 0 ~> run = 0
=============================================================================
