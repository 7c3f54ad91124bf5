----------------------------- MODULE SolvePoint -----------------------------
(***************************************************************************)
(* How the command line solves one frequency point                         *)
(* (apps/nec-cli/src/solve_session.rs, solve_frequency_point): which       *)
(* solver answers, after which declines and fallbacks, and which features  *)
(* of the deck its equations hold.  The numerics are left out: an answer   *)
(* is the label the report prints and the device's part in it, and a       *)
(* residual is inside its bound or outside.                                *)
(*                                                                         *)
(* A run r is a record.  Of the command line: solver, exec (none when the  *)
(* flag is absent), laplace (--loads-config), sommerfeld, hosts, output.   *)
(* Of the deck: drive, feeds, route, ground (contact: a wire touching      *)
(* perfect ground), networks, loaded (the points at which its LD cards     *)
(* stamp anything but zero), pattern (an RP card).  split says a wire of   *)
(* one segment, large that the device's size floor is reached, device that *)
(* this host has a hardware adapter.                                       *)
(***************************************************************************)
EXTENDS Integers, FiniteSets

Solvers == {"hallen", "pulse", "continuity", "sinusoidal", "mpie"}
Drives == {"voltage", "current", "wave"}
Routes == {"plain", "paths", "unsupported"}
Grounds == {"free", "perfect", "contact", "finite"}

Described == [solver : Solvers, exec : {"none", "cpu", "gpu", "hybrid"}, laplace : BOOLEAN,
              sommerfeld : BOOLEAN, hosts : BOOLEAN, output : {"text", "nec2d"},
              drive : Drives, feeds : Nat, route : Routes, ground : Grounds,
              networks : BOOLEAN, loaded : SUBSET Nat, pattern : BOOLEAN, split : BOOLEAN,
              large : BOOLEAN, device : BOOLEAN,
              faults : SUBSET STRING, fit : Nat, calibrated : BOOLEAN, entries : BOOLEAN]

-----------------------------------------------------------------------------
\* gpu_resident_class: the plain delta-gap route in free space.
ResidentClass(r) == r.drive = "voltage" /\ r.route = "plain" /\ r.ground = "free"

\* build_deck_stamps at one frequency is not the identity.
Stamped(r, f) == f \in r.loaded \/ r.networks

\* Mutant: the device is asked for the class alone, and drops what is stamped (FND-023).
ResidentDeclineOfClass(r, freqs) == ~ResidentClass(r)

\* gpu_resident_decline at some frequencies: the automatic pick asks all of the run's,
\* a point its own.
ResidentDecline(r, freqs) == ~ResidentClass(r) \/ r.laplace \/ \E f \in freqs : Stamped(r, f)

\* gpu_resident_plan: decided before the fill.  That the excitation may lie in the
\* homogeneous span, which the CPU solve then refuses, is left to CpuFails.
ResidentPlan(r, f, mode) == /\ mode = "gpu" /\ r.solver = "hallen" /\ r.large
                            /\ ~ResidentDecline(r, {f})

-----------------------------------------------------------------------------
\* The refusals of a point that the deck and the flags decide, in any of the solvers.
NotHallen(r) == r.solver # "hallen"
DriveRefused(r) == r.drive # "voltage" /\ NotHallen(r)
ContactRefused(r) == r.ground = "contact" /\ NotHallen(r)
TopologyRefused(r) == r.route # "plain" /\ r.solver = "sinusoidal"
NetworksRefused(r) == r.networks /\ (NotHallen(r) \/ r.drive # "voltage")

PointRefused(r) == \/ DriveRefused(r) \/ ContactRefused(r)
                   \/ TopologyRefused(r) \/ NetworksRefused(r)

-----------------------------------------------------------------------------
Answer(label, device) == [ok |-> TRUE, label |-> label, device |-> device, remote |-> FALSE]
Failed == [ok |-> FALSE, label |-> "none", device |-> FALSE, remote |-> FALSE]

\* The solver that was asked, or the one its residual or the wires make it fall back to.
CpuLabels(r) ==
    CASE r.solver = "hallen" -> {"hallen"}
      [] r.solver = "pulse" -> {"pulse"}
      [] r.solver = "continuity" ->
            IF r.split THEN {"continuity->pulse"}
            ELSE {"continuity", "continuity->pulse(residual)"}
      [] r.solver = "sinusoidal" -> {"sinusoidal", "sinusoidal->hallen(residual)"}
      [] r.solver = "mpie" -> {"mpie"}

\* A singular matrix or currents that are not finite fail the point on every solver.
CpuAnswers(r) == {Answer(l, FALSE) : l \in CpuLabels(r)} \cup {Failed}

\* The device's currents are kept when they meet the f64 problem within the bound.  A
\* decline, a lost device or a residual outside it, and the routed CPU solve answers;
\* currents that are not finite fail the point.
DeviceAnswers(r) == (IF r.device THEN {Answer("hallen", TRUE)} ELSE {}) \cup CpuAnswers(r)

PointAnswers(r, f, mode) == IF PointRefused(r) THEN {Failed}
                            ELSE IF ResidentPlan(r, f, mode) THEN DeviceAnswers(r)
                            ELSE CpuAnswers(r)

\* A worker's solve of its task (nec_worker/src/solve.rs): the Hallen basis only, a deck
\* with a feedpoint only, and the same two ways of answering.  The reply has room for
\* one feedpoint.
WorkerRefused(r) == NotHallen(r) \/ r.drive = "wave" \/ NetworksRefused(r)

WorkerAnswers(r, f, mode) ==
    LET task == [r EXCEPT !.laplace = FALSE, !.device = TRUE]
        answers == IF WorkerRefused(r) THEN {Failed}
                   ELSE IF ResidentPlan(task, f, mode) THEN DeviceAnswers(task)
                   ELSE CpuAnswers(task)
    IN  {[a EXCEPT !.remote = TRUE] : a \in answers}

-----------------------------------------------------------------------------
\* What the deck and the flags ask of the equations at a point, beside plain wires
\* driven by voltage gaps in free space.
Features(r, f) ==
    {x \in {"drive", "path", "ground", "contact", "load", "laplace", "network", "feeds"} :
        CASE x = "drive" -> r.drive # "voltage"
          [] x = "path" -> r.route # "plain"
          [] x = "ground" -> r.ground # "free"
          [] x = "contact" -> r.ground = "contact"
          [] x = "load" -> f \in r.loaded
          [] x = "laplace" -> r.laplace
          [] x = "network" -> r.networks
          [] x = "feeds" -> r.feeds > 1}

\* What the equations behind a label hold: the routed Hallen solve everything, the
\* sinusoidal basis and its fallback one system with the ground and the load columns in
\* it, the MPIE the junctions and loops too.  The pulse bases are the experimental ones:
\* they scale the loads with their sources, and ignore the ground.
Equations(label) ==
    CASE label = "hallen" ->
            {"drive", "path", "ground", "contact", "load", "laplace", "network", "feeds"}
      [] label \in {"sinusoidal", "sinusoidal->hallen(residual)"} ->
            {"ground", "load", "laplace", "feeds"}
      [] label = "mpie" -> {"path", "ground", "load", "laplace", "feeds"}
      [] OTHER -> {"path", "load", "laplace", "feeds"}

\* The device solves bare wires in free space; a worker is sent the deck and no Laplace
\* loads, and answers for its first feedpoint.
Held(a) == (IF a.device THEN {"feeds"} ELSE Equations(a.label))
           \ (IF a.remote THEN {"laplace", "feeds"} ELSE {})

Experimental(a) ==
    a.label \in {"pulse", "continuity", "continuity->pulse", "continuity->pulse(residual)"}

CarriesDeck(r, f, a) ==
    a.ok => Features(r, f) \ Held(a) \subseteq (IF Experimental(a) THEN {"ground"} ELSE {})
=============================================================================
