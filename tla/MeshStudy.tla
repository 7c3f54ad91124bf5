------------------------------ MODULE MeshStudy ------------------------------
(***************************************************************************)
(* fnec converge (apps/nec-cli/src/converge_cmd.rs): a deck refined by     *)
(* every factor and judged, then solved mesh by mesh, and each feedpoint's *)
(* series judged by the rule of crates/nec_solver/src/convergence.rs.      *)
(*                                                                         *)
(* What a mesh would answer is chosen with the study; a solve may still    *)
(* fail.  Resistances and reactances are integers, and a tail is compared  *)
(* with the tolerance as the quotient it is: d2 r / (1 - r) with           *)
(* r = d2 / d1 is d2 d2 / (d1 - d2).                                       *)
(***************************************************************************)
EXTENDS Integers, Sequences, FiniteSets, SequencesExt

CONSTANTS Studies, \* the studies asked for: factors, tolOhm, tolShare (the other
                   \* tolerance is that part of |Z|, 0 for none), rows (the series of each
                   \* feedpoint, on R and on X), unread (the deck or its
                   \* variables cannot be read), unrefined (refine_deck refuses),
                   \* sizeLimit (the largest factor within the size rules), refused (the
                   \* factors at which the main command would refuse the deck)
          None

Described == [factors : Seq(Nat), tolOhm : Nat, tolShare : Nat,
              rows : Seq([r : Seq(Int), x : Seq(Int)]), unread : BOOLEAN,
              unrefined : BOOLEAN, sizeLimit : Nat, refused : SUBSET Nat]
StudyAssumption == /\ Studies \subseteq Described
                   /\ None \notin {"usage", "input", "refine", "size", "deck"}

VARIABLES study, stage,
          refined,  \* the factors refined and judged, in order
          meshes,   \* the factors solved, in order
          report,   \* the rows printed, or None
          refusal, code

vars == <<study, stage, refined, meshes, report, refusal, code>>

Abs(n) == IF n < 0 THEN -n ELSE n

InitWith(studies) == /\ study \in studies /\ stage = "args"
                     /\ refined = <<>> /\ meshes = <<>>
                     /\ report = None /\ refusal = None /\ code = None

Init == InitWith(Studies)

-----------------------------------------------------------------------------
(* The settle rule                                                         *)

Steps(v) == [i \in 1 .. Len(v) - 1 |-> Abs(v[i + 1] - v[i])]

\* The last two steps of a series of three or more.
Steps2(v) == LET d == Steps(v) IN <<d[Len(d) - 1], d[Len(d)]>>

\* remaining_drift, at full precision: the tail num / den, when it is finite.
RemainingDrift(v) ==
    LET d == Steps2(v)
    IN IF d[2] = 0 THEN [finite |-> TRUE, num |-> 0, den |-> 1]
       ELSE IF d[2] >= d[1] THEN [finite |-> FALSE, num |-> 0, den |-> 1]
       ELSE [finite |-> TRUE, num |-> d[2] * d[2], den |-> d[1] - d[2]]

\* The two last step ratios both within 0.7 .. 1.3; a ratio to no step is never.
InBand(d1, d2) == d1 > 0 /\ 7 * d1 <= 10 * d2 /\ 10 * d2 <= 13 * d1

\* The last step is no shorter than the one before.
Grows(v) == LET d == Steps2(v) IN d[2] > 0 /\ d[2] >= d[1]

Classify(v) ==
    LET d == Steps(v)
        n == Len(d)
    IN IF InBand(d[n - 2], d[n - 1]) /\ InBand(d[n - 1], d[n]) THEN "log-drift"
       ELSE IF Grows(v) THEN "diverging" ELSE "settling"

Trend(v) == IF Len(v) > 3 THEN Classify(v)
            ELSE IF Grows(v) THEN "diverging" ELSE "settling"

Rank(t) == CASE t = "settling" -> 0 [] t = "log-drift" -> 1 [] t = "diverging" -> 2

\* A quantity num / den is within max(tol_ohm, tol_pct % of |Z|).
InTolerance(num, den, z) ==
    \/ num <= study.tolOhm * den
    \/ study.tolShare > 0 /\ (study.tolShare * num) ^ 2 <= den ^ 2 * (z[1] ^ 2 + z[2] ^ 2)

Within(tail, z) == tail.finite /\ InTolerance(tail.num, tail.den, z)

\* judge: one feedpoint's series, and its verdict from three meshes on.
Judged(r, x) ==
    LET tails == <<RemainingDrift(r), RemainingDrift(x)>>
        z == <<Last(r), Last(x)>>
        row == [r |-> r, x |-> x, class |-> None, settled |-> "undecided"]
    IN IF Len(r) < 3 THEN row
       ELSE [row EXCEPT
               !.class = IF Rank(Trend(x)) > Rank(Trend(r)) THEN Trend(x) ELSE Trend(r),
               !.settled = IF Within(tails[1], z) /\ Within(tails[2], z) THEN "true" ELSE "false"]

\* Mutant: a row without a verdict does not count against the others.
AnyFalse(rows) == IF \E k \in DOMAIN rows : rows[k].settled = "false" THEN "false" ELSE "true"

AllSettled(rows) == IF \E k \in DOMAIN rows : rows[k].settled = "false" THEN "false"
                    ELSE IF \E k \in DOMAIN rows : rows[k].settled = "undecided" THEN "undecided"
                    ELSE "true"
-----------------------------------------------------------------------------
(* The study                                                               *)

\* parse_factors: two odd factors or more, each the one before times the same odd integer
\* of three or more.
FactorsOk(f) == /\ \A i \in DOMAIN f : f[i] % 2 = 1
                /\ Len(f) >= 2
                /\ f[2] > f[1] /\ f[2] % f[1] = 0 /\ f[2] \div f[1] >= 3
                /\ \A i \in 1 .. Len(f) - 1 : f[i + 1] = f[i] * (f[2] \div f[1])

End(why, exit) == stage' = "done" /\ refusal' = why /\ code' = exit

ParseArgs == /\ stage = "args"
             /\ IF ~FactorsOk(study.factors) THEN End("usage", 2)
                ELSE IF study.unread THEN End("input", 1)
                ELSE stage' = "refine" /\ UNCHANGED <<refusal, code>>
             /\ UNCHANGED <<study, refined, meshes, report>>

\* One factor: the refinement, then the size rules - the segment budget and the thin-wire
\* kernel - then every refusal of the main command.
Unsized(f) == f > study.sizeLimit

Refuses(f) == CASE study.unrefined        -> "refine"
                [] ~study.unrefined /\ Unsized(f) -> "size"
                [] ~study.unrefined /\ ~Unsized(f) /\ f \in study.refused -> "deck"
                [] OTHER                  -> None

Refine == /\ stage = "refine"
          /\ IF Len(refined) = Len(study.factors)
             THEN stage' = "solve" /\ UNCHANGED <<refined, refusal, code>>
             ELSE LET f == study.factors[Len(refined) + 1]
                  IN IF Refuses(f) = None
                     THEN refined' = Append(refined, f) /\ UNCHANGED <<stage, refusal, code>>
                     ELSE End(Refuses(f), 1) /\ UNCHANGED refined
          /\ UNCHANGED <<study, meshes, report>>

\* The list a size refusal offers instead, when it is a study: the factors it refined.
Offered == IF refusal = "size" /\ Len(refined) >= 2 THEN refined ELSE <<>>

\* probe_feedpoints of the next mesh: a failure ends the solving.
SolveMesh == /\ stage = "solve" /\ Len(meshes) < Len(refined)
             /\ \/ /\ meshes' = Append(meshes, refined[Len(meshes) + 1])
                   /\ UNCHANGED <<stage, code>>
                \/ stage' = "report" /\ code' = 1 /\ UNCHANGED meshes
             /\ UNCHANGED <<study, refined, report, refusal>>

Solved == /\ stage = "solve" /\ Len(meshes) = Len(refined)
          /\ stage' = "report"
          /\ UNCHANGED <<study, refined, meshes, report, refusal, code>>

\* One row per feedpoint of the first mesh, its series across the meshes solved; what
\* solved is printed when a later mesh failed.
Report == /\ stage = "report"
          /\ report' = IF meshes = <<>> THEN None
                       ELSE [k \in DOMAIN study.rows |->
                               Judged(SubSeq(study.rows[k].r, 1, Len(meshes)),
                                      SubSeq(study.rows[k].x, 1, Len(meshes)))]
          /\ stage' = "done"
          /\ code' = IF code = 1 \/ study.rows = <<>> THEN 1 ELSE 0
          /\ UNCHANGED <<study, refined, meshes, refusal>>

Next == ParseArgs \/ Refine \/ SolveMesh \/ Solved \/ Report

Spec == Init /\ [][Next]_vars /\ WF_vars(Next)
-----------------------------------------------------------------------------
TypeOK == /\ stage \in {"args", "refine", "solve", "report", "done"}
          /\ refusal \in {None, "usage", "input", "refine", "size", "deck"} /\ code \in {None, 0, 1, 2}
          /\ IsPrefix(refined, study.factors) /\ IsPrefix(meshes, refined)

\* No mesh is solved before every one is refined and judged, so no half-finished study
\* is printed for a refusal (converge_cmd.rs:547); and the list a size refusal offers is
\* one the command takes, up to the largest factor it would.
RefusedWhole ==
    /\ refusal # None => meshes = <<>> /\ report = None /\ code # 0
    /\ meshes # <<>> => \A i \in DOMAIN study.factors : Refuses(study.factors[i]) = None
    /\ Offered # <<>> => /\ FactorsOk(Offered)
                         /\ ToSet(Offered) =
                              {f \in ToSet(study.factors) : Refuses(f) = None}

\* What a series that goes on contracting as it did moves in its next k steps,
\* d2 r + ... + d2 r^k, times d1^k.
Ahead(d1, d2, k) ==
    LET sum[i \in 0 .. k] == IF i = 0 THEN 0 ELSE sum[i - 1] * d1 + d2 * d2 ^ i
    IN sum[k]

StaysSettled(v, z) ==
    LET d == Steps2(v)
    IN \A k \in 1 .. 2 : InTolerance(Ahead(d[1], d[2], k), d[1] ^ k, z)

\* A report that says ALL_SETTLED true is of three meshes or more on which every
\* feedpoint, going on as it did, stays within the tolerance on both axes; one with exit
\* code 0 is of every mesh that was asked for (FND-255, FND-256).
SettledIsPriced ==
    report # None =>
        /\ \A k \in DOMAIN report :
             LET row == report[k]
             IN /\ Len(row.r) = Len(meshes) /\ Len(row.x) = Len(meshes)
                /\ row.settled = "undecided" <=> Len(meshes) < 3
                /\ row.settled = "true" => StaysSettled(row.r, <<Last(row.r), Last(row.x)>>)
                                           /\ StaysSettled(row.x, <<Last(row.r), Last(row.x)>>)
                                           /\ row.class # "diverging"
        /\ AllSettled(report) = "true" <=>
             \A k \in DOMAIN report : report[k].settled = "true"
        /\ code = 0 => meshes = study.factors

\* "Near-constant step ... for which no tail exists" (convergence.rs:54): does not hold
\* of the code (README, "Divergences without a run").
DriftIsNotSettled == report # None =>
    \A k \in DOMAIN report : report[k].class = "log-drift" => report[k].settled # "true"
=============================================================================
