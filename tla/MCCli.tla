------------------------------- MODULE MCCli -------------------------------
(***************************************************************************)
(* The command line on one host, for TLC: one run (CliRun), the device a   *)
(* process shares (GpuDevice), several processes that measure the host     *)
(* (Calibration), or one of the commands of MCCommands.  A run takes the   *)
(* device's answers as they come, reads the calibration once and writes    *)
(* none of its files outside the offer, so each behaviour is of one panel. *)
(*                                                                         *)
(* The runs are every deck and solver of SolvePoint with nothing wrong of  *)
(* it, and one plain deck with every mode, output, memory budget, device   *)
(* and pair of failing checks.                                             *)
(***************************************************************************)
EXTENDS SolvePoint, MCCommands, Functions

CONSTANTS Runs, N, Threads, Procs, Asked, Host, Other, Outlasts,
          Users, MAX_BACKOFF, GPU_WAIT_TIMEOUT, MaxFailures

VARIABLES panel,
          r, at, mode, lane, laned, lanePoint, busy, next, solved, dialled, printed,
          refusal, exit,
          cal, lock, declined, pc, tries, loaded, fresh, exec, robbed,
          cache, building, held, waited, driver, dead, standing, missed, dying

runVars == <<r, at, mode, lane, laned, lanePoint, busy, next, solved, dialled, printed,
             refusal, exit>>
calVars == <<cal, lock, declined, pc, tries, loaded, fresh, exec, robbed>>
deviceVars == <<cache, building, held, waited, driver, dead, standing, missed, dying>>
vars == <<panel, runVars, calVars, deviceVars, commandVars>>

Run == INSTANCE CliRun
Cal == INSTANCE Calibration
Device == INSTANCE GpuDevice

ASSUME CliAndCommands == /\ Run!CliAssumption /\ Cal!CalibrationAssumption
                         /\ Device!DeviceAssumption /\ Freq!FrequenciesAssumption
                         /\ Study!StudyAssumption /\ Search!SearchAssumption

Plain == [solver |-> "hallen", exec |-> "none", laplace |-> FALSE, sommerfeld |-> FALSE,
          hosts |-> FALSE, output |-> "text", drive |-> "voltage", feeds |-> 1,
          route |-> "plain", ground |-> "free", networks |-> FALSE, loaded |-> {},
          pattern |-> FALSE, split |-> FALSE, large |-> TRUE, device |-> TRUE,
          faults |-> {}, fit |-> 3, calibrated |-> FALSE, entries |-> TRUE]

EveryDeck ==
    {[Plain EXCEPT !.solver = s, !.drive = d, !.route = t, !.ground = g, !.networks = n,
                   !.loaded = l, !.laplace = z, !.hosts = h, !.exec = "gpu", !.split = z] :
        s \in Solvers, d \in Drives, t \in Routes, g \in Grounds, n \in BOOLEAN,
        l \in {{}, {2}}, z \in BOOLEAN, h \in BOOLEAN}

EveryMode ==
    {[Plain EXCEPT !.exec = e, !.output = o, !.fit = k, !.device = v, !.pattern = p,
                   !.calibrated = c, !.loaded = l] :
        e \in {"none", "cpu", "gpu", "hybrid"}, o \in {"text", "nec2d"}, k \in 0 .. 3,
        v \in BOOLEAN, p \in BOOLEAN, c \in BOOLEAN, l \in {{}, {2}}}

Remote == {[Plain EXCEPT !.hosts = TRUE, !.feeds = f, !.sommerfeld = s, !.entries = e] :
              f \in 1 .. 2, s \in BOOLEAN, e \in BOOLEAN}

\* Those of CliRun's InputChecks and the one that comes after them.
Checks == {"usage", "loads_file", "thresholds", "deck_file", "vars_file", "parse", "nec2d",
           "hosts_file", "sweep_file", "undriven", "no_frequency", "geometry", "pre_solve",
           "laplace_ref", "excitation"}
Faulty == {[Plain EXCEPT !.faults = {x, y}, !.hosts = ("hosts_file" \in {x, y}),
                         !.laplace = ({x, y} \cap {"loads_file", "laplace_ref"} # {}),
                         !.output = o] : x \in Checks, y \in Checks, o \in {"text", "nec2d"}}

MCRuns == EveryDeck \cup EveryMode \cup Remote \cup Faulty
-----------------------------------------------------------------------------
NoRun == Run!InitWith({Plain})
NoCal == Cal!InitWith({None}, {None}, {None})

NoDevice == Device!InitWith({TRUE})
Commands == {"converge", "resonance", "match", "frequencies"}

Init == \/ panel = "run" /\ Run!Init /\ NoCal /\ NoDevice /\ NoCommand
        \/ panel = "cal" /\ Cal!Init /\ NoRun /\ NoDevice /\ NoCommand
        \/ panel = "device" /\ Device!Init /\ NoRun /\ NoCal /\ NoCommand
        \/ panel \in Commands /\ CommandInit(panel) /\ NoRun /\ NoCal /\ NoDevice

RunStep == panel = "run" /\ Run!Next /\ UNCHANGED <<panel, calVars, deviceVars, commandVars>>
CalStep == panel = "cal" /\ Cal!Next /\ UNCHANGED <<panel, runVars, deviceVars, commandVars>>
OfDevice == panel = "device" /\ UNCHANGED <<panel, runVars, calVars, commandVars>>
UserStep(u) == OfDevice /\ Device!Step(u)
ClockStep == OfDevice /\ Device!Tick
DriverStep == OfDevice /\ (Device!DriverFails \/ Device!DriverHeals)

OneCommand == /\ panel \in Commands /\ CommandStep(panel)
              /\ UNCHANGED <<panel, runVars, calVars, deviceVars>>

Next == \/ RunStep \/ CalStep \/ ClockStep \/ DriverStep \/ OneCommand
        \/ \E u \in Users : UserStep(u)

\* A run and a command go on; so do the threads that solve on the device, the driver they ask and the
\* clock.  A process that measures may be killed at any step, and the driver may stay ill.
Spec == /\ Init /\ [][Next]_vars
        /\ WF_vars(RunStep) /\ WF_vars(OneCommand) /\ WF_vars(ClockStep)
        /\ \A u \in Users : WF_vars(UserStep(u))
-----------------------------------------------------------------------------
TypeOK == Run!TypeOK /\ Cal!TypeOK /\ Device!TypeOK /\ CommandsTypeOK

\* A refused run has contacted no host, solved no point and printed nothing, and the
\* files it names are refused before anything is said of the deck (FND-013, FND-150);
\* but for the two refusals that come of dialling and of solving ("unreachable", "pattern").
NothingBeforeRefusal == Run!NothingBeforeRefusal

\* A run that is not refused solves each point once, within the memory budget (FND-187)
\* and trying a device in trouble once, and prints in order those that solved; the exit
\* code says whether one failed (FND-101).
PointsComplete == Run!PointsComplete /\ Run!WithinBudget /\ Run!LaneStopsAtTrouble

\* No answer is of another antenna than the deck and the flags describe, by whichever
\* solver, device, worker or fallback it came (FND-023, FND-025, FND-123, FND-162).
AnswersTheDeck == Run!AnswersTheDeck

\* Two processes measure at once only after a take-over removed a live one's lock; every
\* way out of a calibration releases it, and none leaves half a file another reads.
MeasuresAlone == Cal!MeasuresAlone /\ Cal!LockIsReleased /\ Cal!ReadsWhole

\* However many threads want the device at once, one is built, and the next only after
\* somebody blamed it; the driver is asked again no sooner than the failures in a row have
\* earned, hangs apart (FND-186, FND-234).
DeviceBacksOff == [][Device!BacksOff]_vars

\* What converge and sweep --resonance say of their solves is what the solves showed: no
\* study is half done, none is called settled whose last steps, going on as they did,
\* leave the tolerance in the next two (FND-255), and no value is the
\* resonance that was not tried and does not stand beside a crossing; and match prints
\* every L-network that presents the target, and no other.
CommandsAreHonest == /\ Study!RefusedWhole /\ Study!SettledIsPriced
                     /\ Search!BracketHolds /\ Search!ResultIsSeen
                     /\ Match!PresentsTarget

\* A run solves at the frequencies that were typed, however the arithmetic rounds, and
\* says what it leaves out (FND-057, FND-097, FND-297, FND-316).
FrequenciesAsTyped == Freq!CountsWhatWasTyped /\ Freq!RunsWhatWasAsked

\* Every run and every command ends, whatever its device, its workers and its solves
\* answer; and once the driver stays well so does the device: no failure is remembered for
\* good (FND-234).
RunEnds == /\ panel = "run" ~> exit # None
           /\ panel \in Commands ~> panel \in Commands /\ CommandEnded(panel)
           /\ panel = "device" => Device!HealedDeviceServes
=============================================================================
