---------------------------- MODULE GuiViewport ----------------------------
(***************************************************************************)
(* The 3-D viewport's three legs - geometry, currents, radiation pattern - *)
(* and the editor's preview, which draws in the same viewport              *)
(* (apps/nec-gui/src/app_state.rs, with the spawns of main.rs).            *)
(*                                                                         *)
(* A geometry is the source it was built from: a deck, or a text of the    *)
(* editor.  An overlay (currents or far-field grid) is its source and the  *)
(* solver that computed it.  scene and lobe are the meshes on screen, each *)
(* named by what it was drawn from.  Every button but the ones of an empty *)
(* path may be pressed while its leg is in flight.                         *)
(*                                                                         *)
(* kept is a history variable: the geometry the last edit left on screen,  *)
(* until a leg is asked for after it.                                      *)
(***************************************************************************)
EXTENDS Integers, FiniteSets

CONSTANTS Decks,   \* deck paths a user may enter
          Edits,   \* texts of the editor's document that build
          Solvers, \* SolverKind
          None,
          MaxTasks \* bound: tasks in flight

ViewportAssumption == /\ Decks \cap Edits = {} /\ None \notin Decks \cup Edits
                      /\ MaxTasks \in Nat

Legs == {"geometry", "currents", "pattern"}
Sources == Decks \cup Edits
Overlay == [src : Sources, solver : Solvers]
Runs == 0 .. MaxTasks + 3

VARIABLES deck, solver,
          geometry,
          currents, grid,            \* currents_ma, and the far-field grid
          showCurrents, showPattern,
          scene, lobe,               \* what each mesh was drawn from
          pending,                   \* the run each leg waits for, 0 for none
          tasks,
          kept

shown == <<geometry, currents, grid, showCurrents, showPattern, scene, lobe>>
vars == <<deck, solver, shown, pending, tasks, kept>>

Task == [leg : Legs, run : Runs, of : Overlay]
Scene == [wires : Sources, paint : Overlay \cup {None}]

TypeOK == /\ deck \in Decks /\ solver \in Solvers
          /\ geometry \in Sources \cup {None}
          /\ {currents, grid} \subseteq Overlay \cup {None}
          /\ {showCurrents, showPattern} \subseteq BOOLEAN
          /\ scene \in Scene \cup {None} /\ lobe \in Overlay \cup {None}
          /\ pending \in [Legs -> Runs]
          /\ tasks \subseteq Task
          /\ kept \in Sources \cup {None}

Init == /\ deck \in Decks /\ solver \in Solvers
        /\ geometry = None /\ currents = None /\ grid = None
        /\ showCurrents = FALSE /\ showPattern = FALSE
        /\ scene = None /\ lobe = None
        /\ pending = [l \in Legs |-> 0]
        /\ tasks = {} /\ kept = None

\* Mutant: without currents the scene is left as it was drawn.
SceneLeft(geo, mags, show) ==
    IF geo = None \/ (mags = None /\ scene # None) THEN scene
    ELSE [wires |-> geo, paint |-> IF show THEN mags ELSE None]

\* rebuild_scene: without a geometry there is nothing to draw, and nothing changes.
SceneOf(geo, mags, show) ==
    IF geo = None THEN scene ELSE [wires |-> geo, paint |-> IF show THEN mags ELSE None]

\* rebuild_lobe
LobeOf(gains, show) == IF show THEN gains ELSE None

\* Run ids are only compared, so one that nothing holds any more stands for the
\* next new one.
Mint == CHOOSE r \in Runs \ {0} : /\ \A l \in Legs : pending[l] # r
                                  /\ \A t \in tasks : t.run # r
-----------------------------------------------------------------------------
(* The user                                                                *)

\* DeckPathChanged leaves the viewport alone.
DeckPathChanged(d) ==
    /\ deck' = d
    /\ UNCHANGED <<solver, shown, pending, tasks, kept>>

\* LoadGeometry, LoadCurrents, LoadPattern3d
Ask(l) ==
    /\ Cardinality(tasks) < MaxTasks
    /\ pending' = [pending EXCEPT ![l] = Mint]
    /\ tasks' = tasks \cup {[leg |-> l, run |-> Mint, of |-> [src |-> deck, solver |-> solver]]}
    /\ kept' = None
    /\ UNCHANGED <<deck, solver, shown>>

\* Mutant: the two solved legs stay armed across a switch.
LegsKept == pending

\* A geometry in flight comes from the deck, not from a solve, and still lands.
SolvedLegsOrphaned == [pending EXCEPT !["currents"] = 0, !["pattern"] = 0]

\* SolverSelected of another solver: discard_solver_derived_state
SolverSelected(s) ==
    /\ s # solver
    /\ solver' = s
    /\ currents' = None /\ grid' = None
    /\ showCurrents' = FALSE /\ showPattern' = FALSE
    /\ pending' = SolvedLegsOrphaned
    /\ scene' = SceneOf(geometry, None, FALSE)
    /\ lobe' = LobeOf(None, FALSE)
    /\ UNCHANGED <<deck, geometry, tasks, kept>>

ToggleCurrents(on) ==
    /\ showCurrents' = on
    /\ scene' = SceneOf(geometry, currents, on)
    /\ UNCHANGED <<deck, solver, geometry, currents, grid, showPattern, lobe, pending, tasks, kept>>

TogglePattern(on) ==
    /\ showPattern' = on
    /\ lobe' = LobeOf(grid, on)
    /\ UNCHANGED <<deck, solver, geometry, currents, grid, showCurrents, scene, pending, tasks, kept>>

\* ToggleAxes, ToggleGrid: drawn again with what is held.
ToggleReference ==
    /\ scene' = SceneOf(geometry, currents, showCurrents)
    /\ UNCHANGED <<deck, solver, geometry, currents, grid, showCurrents, showPattern, lobe,
                   pending, tasks, kept>>

\* refresh_editor_preview retires the three legs first, whether or not the document
\* renders.
NoLegs == [l \in Legs |-> 0]

\* An edit, an undo or an editor load whose document builds...
EditPreviewed(e) ==
    /\ pending' = NoLegs
    /\ geometry' = e /\ currents' = None /\ grid' = None
    /\ showCurrents' = FALSE /\ showPattern' = FALSE
    /\ scene' = SceneOf(e, None, FALSE)
    /\ lobe' = LobeOf(None, FALSE)
    /\ kept' = e
    /\ UNCHANGED <<deck, solver, tasks>>

\* ... and one whose document does not: the last good preview stays.
EditInvalid ==
    /\ pending' = NoLegs
    /\ kept' = geometry
    /\ UNCHANGED <<deck, solver, shown, tasks>>
-----------------------------------------------------------------------------
(* The answers                                                             *)

\* accepted_run_for
Accepted(t) == t.run = pending[t.leg]

\* GeometryLoaded: the grid, and the lobe drawn from it, are left.
GeometryLoaded(t) ==
    \/ /\ geometry' = t.of.src /\ currents' = None
       /\ scene' = SceneOf(t.of.src, None, showCurrents)
       /\ UNCHANGED <<grid, showCurrents, showPattern, lobe>>
    \/ scene' = None /\ UNCHANGED <<geometry, currents, grid, showCurrents, showPattern, lobe>>

CurrentsSolved(t) ==
    \/ /\ geometry' = t.of.src /\ currents' = t.of /\ showCurrents' = TRUE
       /\ scene' = SceneOf(t.of.src, t.of, TRUE)
       /\ UNCHANGED <<grid, showPattern, lobe>>
    \/ UNCHANGED shown

\* Pattern3dComplete: the currents held are left.
Pattern3dComplete(t) ==
    \/ /\ geometry' = t.of.src /\ grid' = t.of /\ showPattern' = TRUE
       /\ scene' = SceneOf(t.of.src, currents, showCurrents)
       /\ lobe' = LobeOf(t.of, TRUE)
       /\ UNCHANGED <<currents, showCurrents>>
    \/ UNCHANGED shown

Landed(t) == /\ pending' = [pending EXCEPT ![t.leg] = 0]
             /\ \/ t.leg = "geometry" /\ GeometryLoaded(t)
                \/ t.leg = "currents" /\ CurrentsSolved(t)
                \/ t.leg = "pattern" /\ Pattern3dComplete(t)

Complete(t) ==
    /\ tasks' = tasks \ {t}
    /\ IF Accepted(t) THEN Landed(t) ELSE UNCHANGED <<pending, shown>>
    /\ UNCHANGED <<deck, solver, kept>>
-----------------------------------------------------------------------------
User == \/ \E d \in Decks : DeckPathChanged(d)
        \/ \E l \in Legs : Ask(l)
        \/ \E s \in Solvers : SolverSelected(s)
        \/ \E on \in BOOLEAN : ToggleCurrents(on) \/ TogglePattern(on)
        \/ ToggleReference
        \/ \E e \in Edits : EditPreviewed(e)
        \/ EditInvalid

Next == User \/ \E t \in tasks : Complete(t)

Spec == Init /\ [][Next]_vars
-----------------------------------------------------------------------------
(* Properties                                                              *)

\* The meshes on screen are those of the geometry, the currents and the grid held:
\* no handler that changes one of these, or whether it is shown, leaves the mesh of
\* what was there before.
DrawnIsHeld ==
    /\ scene # None => scene = [wires |-> geometry,
                                paint |-> IF showCurrents THEN currents ELSE None]
    /\ lobe = IF showPattern THEN grid ELSE None

\* The currents and the pattern over the geometry are those of the selected solver: a
\* leg in flight across a switch cannot undo the discard (FND-116).
OverlaysOfSelectedSolver ==
    \A o \in {currents, grid} \ {None} : o.solver = solver

\* After an edit the editor's document owns the viewport: no leg that was in flight,
\* and no solver switch, replaces the geometry the edit left on screen (FND-141).
EditKeepsTheScreen == kept # None => geometry = kept

\* The currents are those of the segments they are painted on.
\* The code: Pattern3dComplete replaces the geometry and leaves the currents.
\* Does not hold of the code (README, "Divergences without a run").
CurrentsOfTheGeometry == currents # None => currents.src = geometry
=============================================================================
