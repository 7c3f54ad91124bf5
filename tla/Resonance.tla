------------------------------ MODULE Resonance ------------------------------
(***************************************************************************)
(* fnec sweep --resonance: a bisection over one variable of a template     *)
(* deck (bisect, apps/nec-cli/src/resonance_search.rs), each probe a solve *)
(* of the deck at a value (run_sweep_subcommand, main.rs).                 *)
(*                                                                         *)
(* A probe may fail, and answers any reactance: the curve is what the      *)
(* probes have seen of it, and need not be continuous, as a reactance is   *)
(* not at a pole or where a wire comes to touch another.  Values are on    *)
(* an integer grid, reactances relative to the target.                     *)
(***************************************************************************)
EXTENDS Integers, FiniteSets

CONSTANTS Searches,   \* what is asked: lo, hi, tol, maxIter
          Reactances, \* what a probe may answer
          Resolution, \* the half interval below which the search ends (1e-9)
          None

\* The grid of values is finer than what the search tells apart.
Described == [lo : Int, hi : Int, tol : Nat, maxIter : Nat]
SearchAssumption == /\ Resolution \in Nat \ {0, 1} /\ Reactances \subseteq Int
                    /\ Searches \subseteq {s \in Described : s.hi - s.lo # 1}
                    /\ None \notin {"range", "solver", "bracket"}

VARIABLES search, at,
          seen,   \* what each probe answered
          lo, hi, \* the bracket, a and b in the code
          mid,    \* the middle last tried, the low end before
          result, \* [value, converged], or None
          error

vars == <<search, at, seen, lo, hi, mid, result, error>>

Abs(n) == IF n < 0 THEN -n ELSE n

InitWith(searches) ==
    /\ search \in searches /\ at = "lo"
    /\ seen = [v \in {} |-> 0] /\ lo = search.lo /\ hi = search.hi /\ mid = search.lo
    /\ result = None /\ error = None

Init == InitWith(Searches)

Iterations == Cardinality(DOMAIN seen)

Fails(why) == /\ at' = "done" /\ error' = why /\ UNCHANGED <<seen, lo, hi, result>>

Result(v, converged) == /\ at' = "done" /\ result' = [value |-> v, converged |-> converged]
                        /\ UNCHANGED <<lo, hi, error>>

\* One solve of the deck at a value, which any of the main command's refusals may end
\* instead.
Probe(v, x) == seen' = [w \in DOMAIN seen \cup {v} |-> IF w = v THEN x ELSE seen[w]]

ProbeLo == /\ at = "lo"
           /\ \/ search.lo >= search.hi /\ Fails("range")
              \/ search.lo < search.hi /\ Fails("solver")
              \/ /\ search.lo < search.hi
                 /\ \E x \in Reactances :
                      /\ Probe(lo, x)
                      /\ IF Abs(x) <= search.tol THEN Result(lo, TRUE)
                         ELSE at' = "hi" /\ UNCHANGED <<lo, hi, result, error>>
           /\ UNCHANGED <<search, mid>>

\* Both ends known: an end within the tolerance is the answer, and two ends on the same
\* side bracket nothing.
ProbeHi == /\ at = "hi"
           /\ \/ Fails("solver")
              \/ \E x \in Reactances :
                   /\ Probe(hi, x)
                   /\ IF Abs(x) <= search.tol THEN Result(hi, TRUE)
                      ELSE /\ IF seen[lo] * x > 0 THEN at' = "done" /\ error' = "bracket"
                              ELSE at' = "bisect" /\ UNCHANGED error
                           /\ UNCHANGED <<lo, hi, result>>
           /\ UNCHANGED <<search, mid>>

Halve(m, x) == IF seen[lo] * x < 0 THEN hi' = m /\ UNCHANGED lo ELSE lo' = m /\ UNCHANGED hi

Bisect == /\ at = "bisect" /\ Iterations < search.maxIter + 2
          /\ mid' = (lo + hi) \div 2
          /\ \/ Fails("solver")
             \/ \E x \in Reactances :
                  /\ Probe(mid', x)
                  /\ IF Abs(x) <= search.tol \/ hi - lo < 2 * Resolution
                     THEN Result(mid', TRUE)
                     ELSE Halve(mid', x) /\ UNCHANGED <<at, result, error>>
          /\ UNCHANGED search

\* Out of iterations: the last value tried, whether or not it will do.
GiveUp == /\ at = "bisect" /\ Iterations = search.maxIter + 2
          /\ Result(mid, Abs(seen[mid]) <= search.tol)
          /\ UNCHANGED <<search, seen, mid>>

Next == ProbeLo \/ ProbeHi \/ Bisect \/ GiveUp

Spec == Init /\ [][Next]_vars /\ WF_vars(Next)

Exit == IF at # "done" THEN None ELSE IF error = None THEN 0 ELSE 1
-----------------------------------------------------------------------------
TypeOK == /\ at \in {"lo", "hi", "bisect", "done"}
          /\ error \in {None, "range", "solver", "bracket"}
          /\ result = None \/ result.converged \in BOOLEAN

Straddle(v, w) == v \in DOMAIN seen /\ w \in DOMAIN seen /\ seen[v] * seen[w] <= 0

\* The bracket keeps the crossing: both its ends have been probed, on either side of the
\* target and out of its tolerance, and each probe halves it; it never leaves the range.
BracketHolds ==
    at = "bisect" =>
        /\ search.lo <= lo /\ lo < hi /\ hi <= search.hi
        /\ {lo, hi} \subseteq DOMAIN seen /\ seen[lo] * seen[hi] < 0
        /\ Abs(seen[lo]) > search.tol /\ Abs(seen[hi]) > search.tol
        /\ (hi - lo) * 2 ^ (Iterations - 2) = search.hi - search.lo

\* What it ends with is what it saw: a value it probed, within the tolerance or beside a
\* crossing no wider than the resolution when it says it converged, and beyond the
\* tolerance after every iteration it had when it does not; an unbracketed range has both
\* its ends on one side (resonance_search.rs:116).
ResultIsSeen ==
    at = "done" =>
        /\ Iterations <= search.maxIter + 2
        /\ error = "bracket" => seen[search.lo] * seen[search.hi] > 0
        /\ error = None =>
             LET v == result.value
             IN /\ v \in DOMAIN seen
                /\ result.converged =>
                     \/ Abs(seen[v]) <= search.tol
                     \/ \E w \in DOMAIN seen : Abs(w - v) <= Resolution /\ Straddle(v, w)
                /\ ~result.converged => /\ Iterations = search.maxIter + 2
                                        /\ \A w \in DOMAIN seen : Abs(seen[w]) > search.tol

\* "Whether the search converged within tolerance_ohm" (resonance_search.rs:112): does
\* not hold of the code at a jump (README, "Divergences without a run").
ConvergedWithinTolerance ==
    result # None /\ result.converged => Abs(seen[result.value]) <= search.tol
=============================================================================
