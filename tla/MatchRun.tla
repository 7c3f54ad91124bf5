------------------------------ MODULE MatchRun ------------------------------
(***************************************************************************)
(* fnec match (apps/nec-cli/src/match_cmd.rs): impedances typed, or read   *)
(* back from a run of the main command on a deck, each matched to a target *)
(* by the L-networks of LNetwork.                                          *)
(***************************************************************************)
EXTENDS LNetwork

CONSTANTS Requests, \* what is typed: z and freq ("none", "bad" or "given"), target ("good",
                    \* "bad" or "negative"), forwarded ("none", "bad" or "deck"), load (the
                    \* z typed) and zt (the target)
          Loads,    \* what a deck's feedpoint may be
          MaxPoints

VARIABLES request, at,
          points,  \* to be matched: the impedance, and how many feedpoints there are
          handled, \* how many have been
          blocks,  \* matched
          failed, code

vars == <<request, at, points, handled, blocks, failed, code>>

-----------------------------------------------------------------------------
(* The command                                                             *)

InitWith(requests) == /\ request \in requests /\ at = "args"
                      /\ points = <<>> /\ handled = 0 /\ blocks = <<>>
                      /\ failed = FALSE /\ code = None

Init == InitWith(Requests)

End(exit) == at' = "done" /\ code' = exit /\ UNCHANGED points

\* What is wrong of what was typed: a target that is none or not positive; with --z a deck
\* too, a bad impedance, or no frequency; without, a frequency, no deck, or an option the
\* main command does not take.
Usage == \/ request.target # "good"
         \/ request.z # "none" /\ \/ request.forwarded # "none" \/ request.z = "bad"
                                  \/ request.freq # "given"
         \/ request.z = "none" /\ (request.freq # "none" \/ request.forwarded # "deck")

ParseArgs == /\ at = "args"
             /\ IF Usage THEN End(2)
                ELSE IF request.z = "given"
                     THEN /\ points' = <<[z |-> request.load, feeds |-> 1]>>
                          /\ at' = "match" /\ UNCHANGED code
                     ELSE at' = "child" /\ UNCHANGED <<points, code>>
             /\ UNCHANGED <<request, handled, blocks, failed>>

\* The main command on the deck: it cannot be run, it exits with a code of its own - 1
\* for one killed - or its records are read back, of which there must be one.
Child == /\ at = "child"
         /\ \/ \E exit \in 1 .. 2 : End(exit)
            \/ \E n \in 1 .. MaxPoints :
                 \E p \in [1 .. n -> [z : Loads, feeds : 1 .. 2]] :
                   points' = p /\ at' = "match" /\ UNCHANGED code
         /\ UNCHANGED <<request, handled, blocks, failed>>

\* A load without positive resistance fails alone; the others are matched.
Match == /\ at = "match" /\ handled < Len(points)
         /\ LET p == points[handled + 1]
            IN IF p.z[1] <= 0
               THEN failed' = TRUE /\ UNCHANGED blocks
               ELSE \E networks \in {Solutions(p.z, request.zt)} :
                      /\ blocks' = Append(blocks, [z |-> p.z, solutions |-> networks,
                                     notes |-> (IF p.feeds > 1 THEN {"several"} ELSE {})
                                       \cup (IF networks = <<>> THEN {"matched"} ELSE {})])
                      /\ UNCHANGED failed
         /\ handled' = handled + 1
         /\ UNCHANGED <<request, at, points, code>>

Finish == /\ at = "match" /\ handled = Len(points)
          /\ at' = "done" /\ code' = IF failed THEN 1 ELSE 0
          /\ UNCHANGED <<request, points, handled, blocks, failed>>

Next == ParseArgs \/ Child \/ Match \/ Finish

Spec == Init /\ [][Next]_vars /\ WF_vars(Next)
-----------------------------------------------------------------------------
TypeOK == /\ at \in {"args", "child", "match", "done"} /\ failed \in BOOLEAN
          /\ code \in {None, 0, 1, 2}
          /\ \A i \in DOMAIN points : DOMAIN points[i] = {"z", "feeds"}

\* Every network of the block presents the target to the load, no two are the same, and
\* none is missing: whatever series reactance brings the load's conductance to the
\* target's, or susceptance its resistance to the target's, is that of one of them.
Halves == {Q[n, 2] : n \in -24 .. 24}
AllNetworks(b, t) ==
    /\ \A i \in DOMAIN b.solutions : Presents(b.solutions[i], b.z, t)
    /\ \A i, j \in DOMAIN b.solutions :
         SameNetwork(b.solutions[i], b.solutions[j]) => i = j
    /\ b.solutions = <<>> <=> b.z = t
    /\ b.z # t => \A x \in Halves :
         /\ Reciprocal[PlusJ[Of(b.z), x]][1] = Reciprocal[Of(t)][1] =>
              \E i \in DOMAIN b.solutions : b.solutions[i].series = Element(x)
         /\ LET y == Q[x[1], x[2] * Norm2(b.z)]
            IN Reciprocal[PlusJ[Reciprocal[Of(b.z)], y]][1] = Q[t[1], 1] =>
                 \E i \in DOMAIN b.solutions : b.solutions[i].shunt = Element(y)

\* What is printed of a point is every lossless L-network that presents the target at its
\* load, and nothing is without one unless it is the target already (lnetwork.rs:224); a
\* point that cannot be matched costs the others nothing, and the exit code says so.
PresentsTarget ==
    /\ \A k \in DOMAIN blocks : AllNetworks(blocks[k], request.zt)
    /\ code \in {0, 1} /\ points # <<>> =>
         LET Matchable(p) == p.z[1] > 0
         IN /\ Len(blocks) = Len(SelectSeq(points, Matchable))
            /\ code = 0 <=> Len(blocks) = Len(points)
=============================================================================
