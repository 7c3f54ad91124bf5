------------------------------- MODULE MCGui -------------------------------
(***************************************************************************)
(* The desktop program's panels, for TLC: the tabs and the caveat strip    *)
(* (GuiRuns), the streaming sweep (GuiSweep) and the 3-D viewport          *)
(* (GuiViewport), over the deck path and the solver they share.            *)
(*                                                                         *)
(* A reducer arm of one panel touches no field of another, but for the     *)
(* solver switch, which resets all of them; so each behaviour uses one     *)
(* panel, any, and leaves the others as they started.                      *)
(***************************************************************************)
EXTENDS Integers, Sequences, FiniteSets

CONSTANTS Decks, Document, Edits, Solvers, None,
          MaxRuns,   \* GuiRuns: run ids minted
          MaxSweeps, \* GuiSweep: sweeps started
          Points,    \* GuiSweep: frequencies of a sweep
          MaxTasks,  \* GuiViewport: tasks in flight
          ViewDecks  \* GuiViewport: the decks its behaviours use

VARIABLES panel, deck, solver,
          nextRun, tab, strip, stripRun, tasks, asked, refreshed,
          nextSweep, phase, run, points, caveats, streams, sweepOf,
          geometry, currents, grid, showCurrents, showPattern, scene, lobe,
          pending, legTasks, kept

tabVars == <<nextRun, tab, strip, stripRun, tasks, asked, refreshed>>
sweepVars == <<nextSweep, phase, run, points, caveats, streams, sweepOf>>
viewVars == <<geometry, currents, grid, showCurrents, showPattern, scene, lobe,
              pending, legTasks, kept>>
vars == <<panel, deck, solver, tabVars, sweepVars, viewVars>>

Tabs == INSTANCE GuiRuns
Sweep == INSTANCE GuiSweep WITH nextRun <- nextSweep, MaxRuns <- MaxSweeps,
                                asked <- sweepOf
View == INSTANCE GuiViewport WITH tasks <- legTasks, Decks <- ViewDecks

ASSUME GuiAssumption == /\ Tabs!RunsAssumption /\ Sweep!SweepAssumption
                        /\ View!ViewportAssumption
                        /\ ViewDecks # {} /\ ViewDecks \subseteq Decks /\ Solvers # {}

\* The decks and the solvers are interchangeable, and the user may pick any.
Init == /\ panel \in {"tabs", "sweep", "view"}
        /\ deck = (CHOOSE d \in ViewDecks : TRUE) /\ solver = (CHOOSE s \in Solvers : TRUE)
        /\ Tabs!Init /\ Sweep!Init /\ View!Init

TabStep == panel = "tabs" /\ Tabs!Next /\ UNCHANGED <<panel, sweepVars, viewVars>>
SweepStep == panel = "sweep" /\ Sweep!Next /\ UNCHANGED <<panel, deck, tabVars, viewVars>>
ViewStep == panel = "view" /\ View!Next /\ UNCHANGED <<panel, tabVars, sweepVars>>

Next == TabStep \/ SweepStep \/ ViewStep

TabAnswers(r) == \E m \in tasks : m.run = r /\ panel = "tabs" /\ Tabs!Complete(m)
                                  /\ UNCHANGED <<panel, sweepVars, viewVars>>
StreamSends(r) == \E s \in streams : s.run = r /\ panel = "sweep" /\ Sweep!Step(s)
                                     /\ UNCHANGED <<panel, deck, tabVars, viewVars>>

\* The executor polls every task and every stream, and each ends.
Spec == /\ Init /\ [][Next]_vars
        /\ \A r \in 1 .. MaxRuns : WF_vars(TabAnswers(r))
        /\ \A r \in 1 .. MaxSweeps : WF_vars(StreamSends(r))
-----------------------------------------------------------------------------
TypeOK == Tabs!TypeOK /\ Sweep!TypeOK /\ (panel = "view" => View!TypeOK)

\* Nothing on screen was computed by a solver other than the selected one - no tab's
\* result, no swept point, no overlay of the viewport - and no run in flight across a
\* switch brings it back (FND-038, FND-116).
NothingOfAnotherSolver == /\ Tabs!ShownIsOfSelectedSolver
                          /\ Sweep!PointsOfSelectedSolver
                          /\ View!OverlaysOfSelectedSolver

\* A tab shows the answer to the last thing it was asked, never an earlier run's that
\* arrived late (FND-115); and when no refresh of the caveats is awaited the strip shows
\* the answer to the last one, or nothing, whichever of those in flight answered first.
\* Whatever is awaited has a task in flight that will report it.
ShownIsLastAsked == Tabs!ShownIsLastAsked /\ Tabs!StripIsLastRefresh /\ Tabs!AwaitedIsInFlight

\* The points on screen are the first points of one sweep, in order, each once - two
\* streams never merge - all of them when it is finished, and qualified by both caveats
\* of that sweep, each once, on the failing path too (FND-014, FND-042, FND-115).
OneSweepOnScreen == Sweep!OneSweepOnScreen /\ Sweep!PointsAreQualified /\ Sweep!DoneIsComplete

\* The meshes in the viewport are those of the geometry, currents and grid it holds, and
\* no leg in flight replaces the geometry an edit left on screen (FND-141).
DrawnIsHeld == View!DrawnIsHeld /\ View!EditKeepsTheScreen

\* A point that reached the screen stays there until the user starts another sweep or
\* picks another solver: a failure does not take it away (FND-033).
PointsStay == [][Sweep!PointKept]_vars

\* Every tab that is running, and every sweep, stops running.
EveryRunEnds == Tabs!EveryAskEnds /\ Sweep!EverySweepEnds
=============================================================================
