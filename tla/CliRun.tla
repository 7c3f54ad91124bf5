------------------------------- MODULE CliRun -------------------------------
(***************************************************************************)
(* One run of the command line on a deck (apps/nec-cli/src/main.rs): the   *)
(* refusals in the order main makes them, the choice of CPU and GPU, the   *)
(* sweep on several threads (execute_frequency_sweep) or on workers, and   *)
(* the output.                                                             *)
(*                                                                         *)
(* The record r is that of SolvePoint, with what may be wrong of the       *)
(* inputs: faults names the checks that fail.  fit is how many points the  *)
(* memory budget holds, calibrated that the host's calibration gives the   *)
(* GPU a run of this size, entries that the hosts file lists workers.  A   *)
(* fault of a file says that the run names the file.                       *)
(***************************************************************************)
EXTENDS SolvePoint, Sequences, FiniteSetsExt, SequencesExt

CONSTANTS Runs,    \* the runs to consider
          N,       \* frequency points
          Threads, \* of the rayon pool
          None

CliAssumption == /\ N \in Nat \ {0} /\ Threads \in Nat \ {0}
                 /\ Runs \subseteq Described
                 /\ None \notin {0, 1, 2}
                 /\ None \notin {"usage", "loads_file", "thresholds", "deck_file", "vars_file",
                                 "parse", "nec2d", "hosts_file", "sweep_file", "undriven",
                                 "no_frequency", "geometry", "pre_solve", "laplace_ref",
                                 "hosts", "unreachable", "excitation", "pattern"}

VARIABLES r, at,
          mode,      \* the execution mode in force
          lane,      \* whether hybrid's GPU lane takes more points
          laned,     \* whether it was opened
          lanePoint, \* the point the lane is solving, 0 for none
          busy,      \* the points the pool's threads are solving
          next,      \* the shared counter
          solved,    \* the points kept, as they came back
          dialled, printed, refusal, exit

sweepVars == <<lane, laned, lanePoint, busy, next, solved>>
vars == <<r, at, mode, sweepVars, dialled, printed, refusal, exit>>

Points == 1 .. N
Solved == [point : Points, mode : {"cpu", "gpu"},
           answer : [ok : BOOLEAN, device : BOOLEAN, remote : BOOLEAN,
                     label : {"none", "hallen", "pulse", "continuity", "sinusoidal", "mpie",
                              "continuity->pulse", "continuity->pulse(residual)",
                              "sinusoidal->hallen(residual)"}]]

TypeOK == /\ {r.hosts, r.device} \subseteq BOOLEAN
          /\ at \in {"inputs", "hosts", "dial", "batch", "pick", "excitation", "sweep",
                     "emit", "done"}
          /\ mode \in {"cpu", "gpu", "hybrid"}
          /\ {lane, laned, dialled} \subseteq BOOLEAN
          /\ lanePoint \in 0 .. N /\ busy \subseteq Points /\ next \in 1 .. N + 1
          /\ solved \in Seq(Solved) /\ printed \in Seq(Points)
          /\ exit \in {None, 0, 1, 2}

InitWith(runs) ==
        /\ r \in runs /\ at = "inputs"
        /\ mode = (IF r.exec = "none" THEN "cpu" ELSE r.exec)
        /\ lane = FALSE /\ laned = FALSE /\ lanePoint = 0
        /\ busy = {} /\ next = 1 /\ solved = <<>>
        /\ dialled = FALSE /\ printed = <<>> /\ refusal = None /\ exit = None

Init == InitWith(Runs)

-----------------------------------------------------------------------------
Exit(why, code) == /\ at' = "done" /\ refusal' = why /\ exit' = code
                   /\ UNCHANGED <<r, mode, sweepVars, dialled, printed>>

Go(to) == at' = to /\ UNCHANGED <<r, refusal, exit>>

\* check_admissible: the inputs the NEC-2D layout cannot echo, the GPU's pattern, and the
\* cards it cannot print.  It is asked of the flags as given.
Inadmissible == /\ r.output = "nec2d"
                /\ \/ r.laplace \/ r.hosts \/ "sweep_file" \in r.faults \/ mode = "gpu"
                   \/ r.networks \/ r.drive # "voltage" \/ "nec2d" \in r.faults
                   \/ r.sommerfeld /\ r.ground = "finite" /\ r.solver # "mpie"

\* The checks every run passes through, in order.
Files == <<"usage", "loads_file", "thresholds", "deck_file", "vars_file", "parse", "nec2d",
           "hosts_file", "sweep_file">>
OfTheDeck == <<"undriven", "no_frequency", "geometry", "pre_solve", "laplace_ref">>
\* Mutant: the deck is judged before the last files are read (FND-150).
DeckJudgedFirst == SubSeq(Files, 1, 7) \o OfTheDeck \o SubSeq(Files, 8, 9)

InputChecks == Files \o OfTheDeck

Fails(check) == IF check = "nec2d" THEN Inadmissible ELSE check \in r.faults
Failing == {i \in DOMAIN InputChecks : Fails(InputChecks[i])}

CheckInputs == /\ at = "inputs"
               /\ IF Failing = {}
                  THEN /\ Go(IF r.hosts THEN "hosts" ELSE "pick")
                       /\ UNCHANGED <<mode, sweepVars, dialled, printed>>
                  ELSE LET first == InputChecks[Min(Failing)]
                       IN  Exit(first, IF first \in {"usage", "loads_file", "thresholds"}
                                       THEN 2 ELSE 1)

\* What the distributed run would drop without a word, refused before any host is
\* dialled.
HostsRefused == \/ r.laplace \/ r.solver # "hallen" \/ r.sommerfeld
                \/ r.drive = "wave" \/ r.feeds > 1 \/ ~r.entries

CheckHosts == /\ at = "hosts"
              /\ IF HostsRefused THEN Exit("hosts", 1)
                 ELSE Go("dial") /\ UNCHANGED <<mode, sweepVars, dialled, printed>>

\* WorkerPool::new_ssh_skip_failures: the workers that answered, or none.
Dial == /\ at = "dial" /\ dialled' = TRUE
        /\ \/ Go("batch")
           \/ at' = "done" /\ refusal' = "unreachable" /\ exit' = 1 /\ UNCHANGED r
        /\ UNCHANGED <<mode, sweepVars, printed>>

Kept(f, a, m) == [point |-> f, answer |-> a, mode |-> m]

\* dispatch_batch returns one outcome per task, in task order (BatchService).  A hybrid
\* run asks its workers for the CPU.
Batch == /\ at = "batch"
         /\ LET m == IF mode = "gpu" THEN "gpu" ELSE "cpu"
            IN  \E outcome \in [Points -> UNION {WorkerAnswers(r, f, m) : f \in Points}] :
                  /\ \A f \in Points : outcome[f] \in WorkerAnswers(r, f, m)
                  /\ solved' = [f \in Points |-> Kept(f, outcome[f], m)]
         /\ Go("emit")
         /\ UNCHANGED <<mode, lane, laned, lanePoint, busy, next, dialled, printed>>

-----------------------------------------------------------------------------
\* The deck class the device takes, one answer for the pick and the lane.
DeckClass == r.solver = "hallen" /\ ~ResidentDecline(r, Points)

\* auto_select_execution_mode picks the CPU or the GPU, never hybrid.
Picked == IF r.exec # "none" THEN r.exec
          ELSE IF DeckClass /\ r.calibrated /\ r.device THEN "gpu" ELSE "cpu"

Pick == /\ at = "pick"
        /\ mode' = Picked
        /\ laned' = (Picked = "hybrid" /\ N > 1 /\ DeckClass /\ r.device)
        /\ lane' = laned'
        /\ Go("excitation")
        /\ UNCHANGED <<lanePoint, busy, next, solved, dialled, printed>>

\* build_excitation: an EX card that names no segment.
Excitation == /\ at = "excitation"
              /\ IF "excitation" \in r.faults THEN Exit("excitation", 1)
                 ELSE Go("sweep") /\ UNCHANGED <<mode, sweepVars, dialled, printed>>

\* The threads that take points: a GPU sweep takes them in turn; otherwise the pool,
\* within the memory budget, less the lane's point - but never fewer than one.
MaxParallel == Max({1, Min({r.fit, Threads})})

\* Mutant: no thread is kept beside the lane where the budget holds one point.
WorkersMaybeNone == IF mode = "gpu" THEN 1
                    ELSE IF laned THEN MaxParallel - 1 ELSE MaxParallel

Workers == IF mode = "gpu" THEN 1
           ELSE IF laned THEN Max({1, MaxParallel - 1})
           ELSE MaxParallel

\* Mutant: the counter is compared with the length one step late.
LeftOneMore == next <= N + 1

\* The next index is inside the list of frequencies.
Left == next <= N

Take == /\ at = "sweep" /\ Left /\ Cardinality(busy) < Workers
        /\ busy' = busy \cup {next} /\ next' = next + 1
        /\ UNCHANGED <<r, at, mode, lane, laned, lanePoint, solved, dialled, printed, refusal, exit>>

Finish(f) == LET m == IF mode = "gpu" THEN "gpu" ELSE "cpu"
             IN  /\ at = "sweep" /\ f \in busy
                 /\ busy' = busy \ {f}
                 /\ \E a \in PointAnswers(r, f, m) : solved' = Append(solved, Kept(f, a, m))
                 /\ UNCHANGED <<r, at, mode, lane, laned, lanePoint, next, dialled, printed,
                                refusal, exit>>

\* The lane's own thread takes points from the same counter while the lane is open.
LaneTakes == /\ at = "sweep" /\ lane /\ lanePoint = 0 /\ Left
             /\ lanePoint' = next /\ next' = next + 1
             /\ UNCHANGED <<r, at, mode, lane, laned, busy, solved, dialled, printed, refusal, exit>>

\* A point the device did not solve closes the lane; the point is kept.
LaneAfter(a) == [open |-> lane /\ a.device,
                 solved |-> Append(solved, Kept(lanePoint, a, "gpu"))]

LaneFinishes == /\ at = "sweep" /\ lanePoint # 0
                /\ lanePoint' = 0
                /\ \E a \in PointAnswers(r, lanePoint, "gpu") :
                     lane' = LaneAfter(a).open /\ solved' = LaneAfter(a).solved
                /\ UNCHANGED <<r, at, mode, laned, busy, next, dialled, printed, refusal, exit>>

SweepEnds == /\ at = "sweep" /\ next > N /\ busy = {} /\ lanePoint = 0
             /\ Go("emit")
             /\ UNCHANGED <<mode, sweepVars, dialled, printed>>

-----------------------------------------------------------------------------
\* solved.sort_by_key, which keeps the order of what came back under one index.
Before(i, j) == \/ solved[i].point < solved[j].point
                \/ solved[i].point = solved[j].point /\ i < j
Place(j) == Cardinality({i \in DOMAIN solved : Before(i, j)}) + 1
Sorted == [k \in DOMAIN solved |-> solved[CHOOSE j \in DOMAIN solved : Place(j) = k]]
AnyFailed == \E i \in DOMAIN solved : ~solved[i].answer.ok

\* Mutant: the output stops at the first failed point (FND-101).
EmittedUntilFailure ==
    LET failed == {i \in DOMAIN Sorted : ~Sorted[i].answer.ok}
        last == IF failed = {} THEN Len(Sorted) ELSE Min(failed) - 1
    IN  [i \in 1 .. last |-> Sorted[i].point]

\* The points emit_sweep_points prints: those that solved, past those that failed.
Emitted == LET upTo[n \in 0 .. Len(solved)] ==
                   IF n = 0 THEN <<>>
                   ELSE IF Sorted[n].answer.ok THEN Append(upTo[n - 1], Sorted[n].point)
                   ELSE upTo[n - 1]
           IN  upTo[Len(solved)]

\* A point in GPU mode has its pattern computed on the device, gains only, whichever
\* solver solved it.
DevicePattern(s) == r.pattern /\ s.mode = "gpu" /\ r.ground = "free" /\ r.device

\* The NEC-2D report is refused rather than printed short, and rather than printed
\* without the fields the device does not compute.
RenderRefused == \E i \in DOMAIN solved : solved[i].answer.ok /\ DevicePattern(solved[i])

Emit == /\ at = "emit" /\ at' = "done"
        /\ IF r.output = "nec2d"
           THEN /\ printed' = IF AnyFailed \/ RenderRefused THEN <<>> ELSE Emitted
                /\ refusal' = IF ~AnyFailed /\ RenderRefused THEN "pattern" ELSE None
                /\ exit' = IF AnyFailed \/ RenderRefused THEN 1 ELSE 0
           ELSE /\ printed' = Emitted
                /\ refusal' = None
                /\ exit' = IF AnyFailed THEN 1 ELSE 0
        /\ UNCHANGED <<r, mode, sweepVars, dialled>>

Next == \/ CheckInputs \/ CheckHosts \/ Dial \/ Batch
        \/ Pick \/ Excitation
        \/ Take \/ LaneTakes \/ LaneFinishes \/ (\E f \in busy : Finish(f)) \/ SweepEnds
        \/ Emit

\* Every thread of the sweep goes on, and every solve and every batch returns.
Spec == Init /\ [][Next]_vars /\ WF_vars(Next)
-----------------------------------------------------------------------------
\* A refused run has contacted no host, solved no point and printed nothing, and the
\* files it names are refused before anything is said of the deck (FND-013, FND-150).
\* The two refusals that come of dialling and of solving are left out: no host answers, and
\* a pattern in a layout that cannot print it, when the automatic pick chose the GPU.
NothingBeforeRefusal ==
    refusal \notin {None, "unreachable", "pattern"} =>
        /\ ~dialled /\ solved = <<>> /\ printed = <<>> /\ exit # 0
        /\ refusal \notin Range(Files) => r.faults \cap (Range(Files) \ {"nec2d"}) = {}

\* "What it cannot print is refused here, before anything is solved" (main.rs:518).
\* Does not hold of the code (README, "Divergences without a run").
RefusedBeforeSolving == refusal # None /\ r.output = "nec2d" => solved = <<>>

\* A run that is not refused solves each point once and prints in order those that
\* solved, all or none of them in the NEC-2D layout; the exit code says whether one
\* failed (FND-101).
PointsComplete ==
    exit # None /\ refusal = None =>
        /\ Len(solved) = N /\ {solved[i].point : i \in DOMAIN solved} = Points
        /\ exit = 0 <=> \A i \in DOMAIN solved : solved[i].answer.ok
        /\ IF r.output = "nec2d" /\ exit # 0 THEN printed = <<>>
           ELSE /\ Range(printed) = {solved[i].point : i \in {j \in DOMAIN solved :
                                                              solved[j].answer.ok}}
                /\ \A i, j \in DOMAIN printed : i < j => printed[i] < printed[j]

\* No answer is of another antenna than the deck and the flags describe, by whichever
\* solver, device, worker or fallback it came (FND-023, FND-025, FND-123, FND-162).
AnswersTheDeck == \A i \in DOMAIN solved : CarriesDeck(r, solved[i].point, solved[i].answer)

\* Points in flight stay within the memory budget, or within what an open lane and one
\* thread beside it hold (FND-187).
WithinBudget == Cardinality(busy \cup ({lanePoint} \ {0})) <=
                    Max({r.fit, IF laned THEN 2 ELSE 1})

\* A device in trouble is tried once: at most one point of the lane came back from
\* elsewhere, and it was the lane's last.
LaneStopsAtTrouble ==
    laned => \A i \in DOMAIN solved :
        solved[i].mode = "gpu" /\ ~solved[i].answer.device =>
            \A j \in DOMAIN solved : solved[j].mode = "gpu" => j <= i

\* Every run ends, whatever its device and its workers answer.
RunEnds == <>(exit # None)
=============================================================================
