------------------------------ MODULE GuiRuns ------------------------------
(***************************************************************************)
(* The desktop program's one-answer runs: the Solve, Pattern and Currents  *)
(* tabs and the caveat strip (apps/nec-gui/src/app_state.rs), with the     *)
(* tasks FnecGui::update spawns for them (apps/nec-gui/src/main.rs).       *)
(*                                                                         *)
(* One call of update is one step: the reducer (AppState::apply) and then  *)
(* the spawn.  Tasks answer in any order, and each answer carries the run  *)
(* id the reducer minted for it.  A result is the source it was computed   *)
(* from and the solver that computed it.                                   *)
(*                                                                         *)
(* asked and refreshed are history variables: what each tab, and the       *)
(* strip, were last asked for.                                             *)
(***************************************************************************)
EXTENDS Integers, FiniteSets

CONSTANTS Decks,    \* deck paths a user may enter
          Document, \* the editor's document, which Apply+Solve solves
          Solvers,  \* SolverKind
          None,
          MaxRuns   \* bound: run ids minted

RunsAssumption == /\ Document \notin Decks /\ MaxRuns \in Nat
                  /\ None \notin [src : Decks \cup {Document}, solver : Solvers]

Tabs == {"solve", "pattern", "currents"}
RunIds == 1 .. MaxRuns
Result == [src : Decks \cup {Document}, solver : Solvers]

VARIABLES deck,      \* deck_path
          solver,
          nextRun,   \* next_run
          tab,       \* the phase of each tab, with its run id, or its result
          strip,     \* deck_warnings: what the caveats shown describe
          stripRun,  \* deck_warnings_run, 0 for none
          tasks,     \* spawned and not answered
          asked, refreshed

vars == <<deck, solver, nextRun, tab, strip, stripRun, tasks, asked, refreshed>>

Idle == [at |-> "idle", run |-> 0, shows |-> None]
Running(r) == [at |-> "running", run |-> r, shows |-> None]
Done(x) == [at |-> "done", run |-> 0, shows |-> x]
Failed == [at |-> "failed", run |-> 0, shows |-> None]

Phase == {Idle, Failed} \cup {Running(r) : r \in RunIds} \cup {Done(x) : x \in Result}
Task == [for : Tabs \cup {"caveats"}, run : RunIds, of : Result]

TypeOK == /\ deck \in Decks /\ solver \in Solvers
          /\ nextRun \in 0 .. MaxRuns
          /\ tab \in [Tabs -> Phase]
          /\ strip \in Result \cup {None} /\ stripRun \in 0 .. MaxRuns
          /\ tasks \subseteq Task
          /\ asked \in [Tabs -> Result \cup {None}] /\ refreshed \in Result \cup {None}

Init == /\ deck \in Decks /\ solver \in Solvers
        /\ nextRun = 0
        /\ tab = [t \in Tabs |-> Idle]
        /\ strip = None /\ stripRun = 0
        /\ tasks = {}
        /\ asked = [t \in Tabs |-> None] /\ refreshed = None

Of(source) == [src |-> source, solver |-> solver]

\* refreshes_deck_warnings: the reducer mints the refresh's id before the match.
MintRefresh(x) == /\ stripRun' = nextRun + 1
                  /\ refreshed' = x

RefreshTask(x) == [for |-> "caveats", run |-> nextRun + 1, of |-> x]
-----------------------------------------------------------------------------
(* The user                                                                *)

DeckPathChanged(d) ==
    /\ d # deck
    /\ deck' = d
    /\ strip' = None
    /\ tab' = [tab EXCEPT !["solve"] = IF @ = Failed THEN Idle ELSE @]
    /\ UNCHANGED <<solver, nextRun, stripRun, tasks, asked, refreshed>>

\* discard_solver_derived_state
DiscardedTabs == [t \in Tabs |-> Idle]

\* The refresh is spawned with the solver update() read before apply().
SolverSelected(s) ==
    /\ nextRun < MaxRuns
    /\ solver' = s
    /\ tab' = IF s # solver THEN DiscardedTabs ELSE tab
    /\ strip' = IF s # solver THEN None ELSE strip
    /\ MintRefresh(Of(deck))
    /\ tasks' = tasks \cup {RefreshTask(Of(deck))}
    /\ nextRun' = nextRun + 1
    /\ UNCHANGED <<deck, asked>>

\* The buttons: a tab that is running cannot be asked again (can_solve, ...).
MayAsk(t) == tab[t].at # "running"

\* Both tasks are spawned from one read of source.
Launch(t, source) ==
    /\ nextRun + 2 <= MaxRuns
    /\ MintRefresh(Of(source))
    /\ tab' = [tab EXCEPT ![t] = Running(nextRun + 2)]
    /\ asked' = [asked EXCEPT ![t] = Of(source)]
    /\ tasks' = tasks \cup {RefreshTask(Of(source)),
                            [for |-> t, run |-> nextRun + 2, of |-> Of(source)]}
    /\ nextRun' = nextRun + 2
    /\ UNCHANGED <<deck, solver, strip>>

\* Solve, RunPattern, RunCurrents
Ask(t) == MayAsk(t) /\ Launch(t, deck)

\* EditApplySolve: its button is not gated.
ApplySolve == Launch("solve", Document)

\* The reducer is told SolveComplete / PatternComplete(run, Err) at once.
Refused == Failed

\* RunPattern with an azimuth that is no number: the deck is read for the caveats
\* alone.
AskPatternInvalid ==
    /\ MayAsk("pattern") /\ nextRun + 2 <= MaxRuns
    /\ MintRefresh(Of(deck))
    /\ tab' = [tab EXCEPT !["pattern"] = Refused]
    /\ asked' = [asked EXCEPT !["pattern"] = Of(deck)]
    /\ tasks' = tasks \cup {RefreshTask(Of(deck))}
    /\ nextRun' = nextRun + 2
    /\ UNCHANGED <<deck, solver, strip>>

\* EditApplySolve on a document that does not render: a refresh of the deck's
\* caveats, and no solve.
ApplySolveInvalid ==
    /\ nextRun < MaxRuns
    /\ MintRefresh(Of(deck))
    /\ tasks' = tasks \cup {RefreshTask(Of(deck))}
    /\ nextRun' = nextRun + 1
    /\ UNCHANGED <<deck, solver, tab, strip, asked>>
-----------------------------------------------------------------------------
(* The answers                                                             *)

\* Mutant: a completion is taken from any run of its pipeline.
AcceptedByKind(m) == IF m.for = "caveats" THEN stripRun # 0 ELSE tab[m.for].at = "running"

\* claimed_run = accepted_run_for
Accepted(m) == m.run = IF m.for = "caveats" THEN stripRun ELSE tab[m.for].run

\* DeckWarnings: a source that cannot be read or built has no caveats.
CaveatsShown(x) == /\ strip' \in {x, None}
                   /\ stripRun' = 0
                   /\ UNCHANGED tab

\* Mutants: an error is shown as an empty result; an error is dropped.
AnswerShownBlank(t, x) == /\ tab' \in {[tab EXCEPT ![t] = p] : p \in {Done(x), Done(None)}}
                          /\ UNCHANGED <<strip, stripRun>>
AnswerShownIfOk(t, x) == /\ tab' \in {[tab EXCEPT ![t] = Done(x)], tab}
                         /\ UNCHANGED <<strip, stripRun>>

\* SolveComplete, PatternComplete, CurrentsComplete: Ok or Err.
AnswerShown(t, x) == /\ tab' \in {[tab EXCEPT ![t] = p] : p \in {Done(x), Failed}}
                     /\ UNCHANGED <<strip, stripRun>>

Complete(m) ==
    /\ m \in tasks
    /\ tasks' = tasks \ {m}
    /\ IF ~Accepted(m)
       THEN UNCHANGED <<tab, strip, stripRun>>
       ELSE IF m.for = "caveats" THEN CaveatsShown(m.of) ELSE AnswerShown(m.for, m.of)
    /\ UNCHANGED <<deck, solver, nextRun, asked, refreshed>>
-----------------------------------------------------------------------------
User == \/ \E d \in Decks : DeckPathChanged(d)
        \/ \E s \in Solvers : SolverSelected(s)
        \/ \E t \in Tabs : Ask(t)
        \/ AskPatternInvalid \/ ApplySolve \/ ApplySolveInvalid

Next == User \/ \E m \in tasks : Complete(m)

Spec == Init /\ [][Next]_vars

-----------------------------------------------------------------------------
(* Properties                                                              *)

\* No tab shows a result of a solver other than the selected one: a solve that
\* was in flight across a switch cannot undo the discard (FND-038).
ShownIsOfSelectedSolver ==
    \A t \in Tabs : tab[t].at = "done" => tab[t].shows.solver = solver

\* A tab shows the answer to the last thing it was asked, never an earlier run's
\* that arrived late (FND-115).
ShownIsLastAsked == \A t \in Tabs : tab[t].at = "done" => tab[t].shows = asked[t]

\* When no refresh is awaited the strip shows the answer to the last one, or
\* nothing: of two refreshes in flight the later wins, whichever answers first.
StripIsLastRefresh == stripRun = 0 => strip \in {refreshed, None}

\* A run that is awaited has a task that will report it: no tab is left running,
\* and no refresh pending, with nobody to answer.
AwaitedIsInFlight ==
    /\ \A t \in Tabs : tab[t].at = "running" =>
         \E m \in tasks : m.for = t /\ m.run = tab[t].run
    /\ stripRun # 0 => \E m \in tasks : m.for = "caveats" /\ m.run = stripRun

\* Every tab that is running stops running.
EveryAskEnds == \A t \in Tabs : tab[t].at = "running" ~> tab[t].at # "running"

\* The caveats shown describe the deck in front of the user (or its document).
\* The code: DeckPathChanged clears the strip and leaves the refresh armed.
CaveatsOfTheDeckShown == strip # None => strip.src \in {deck, Document}

\* The caveats shown are those of the selected solver.
\* The code: update() reads the solver before apply() changes it.
\* Does not hold of the code (README, "Divergences without a run").
CaveatsOfSelectedSolver == strip # None => strip.solver = solver
=============================================================================
