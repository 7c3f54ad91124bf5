------------------------------ MODULE MCDeck ------------------------------
(* The decks TLC builds. *)
EXTENDS Deck

P(x, y, z) == <<3 * x, 3 * y, 3 * z>>
GW(tag, at, step, n, radius) ==
    [card |-> "GW", tag |-> tag, at |-> at, step |-> step, n |-> n, radius |-> radius]

\* An arm, twice, drawn either way; a mast it stands on; wires that close a loop with
\* it, meet it in the middle or go on from it with another radius; one of no tag, and a
\* slanted link of one segment from it to the arm.
MCWires == {GW(1, P(0, 0, 1), P(1, 0, 0), 2, 1),
            GW(2, P(2, 0, 1), P(-1, 0, 0), 2, 1),
            GW(2, P(0, 0, 0), P(0, 0, 1), 1, 1),
            GW(1, P(2, 0, 1), P(-1, 0, 1), 2, 1),
            GW(1, P(0, 0, 1), P(0, 0, 1), 2, 1),
            GW(2, P(1, 0, 1), P(0, 0, 1), 2, 1),
            GW(3, P(3, 0, 1), P(-1, 0, 0), 1, 2),
            GW(1, P(1, -1, 1), P(0, 1, 0), 2, 1),
            GW(0, P(0, 1, 2), P(1, 0, 0), 2, 1),
            GW(3, P(0, 0, 1), P(0, 1, 1), 1, 1)}

MCDrivenDecks == {<<GW(1, P(0, 0, 1), P(1, 0, 0), 2, 1)>>}

MCMoves == {[card |-> "GM", inc |-> 1, times |-> 0, its |-> 2, shift |-> P(1, 0, 0), turn |-> 0],
            [card |-> "GM", inc |-> 0, times |-> 1, its |-> 0, shift |-> P(2, 0, 0), turn |-> 0],
            [card |-> "GM", inc |-> 1, times |-> 2, its |-> 1, shift |-> P(0, 0, 1), turn |-> 1],
            [card |-> "GR", inc |-> 1, n |-> 4],
            [card |-> "GR", inc |-> 0, n |-> 4],
            [card |-> "GX", inc |-> 1, planes |-> {1, 3}],
            [card |-> "GX", inc |-> 2, planes |-> {3}],
            [card |-> "GS", by |-> 2]}

EX(kind, tag, n, volts) == [kind |-> kind, tag |-> tag, n |-> n, volts |-> volts]

\* Two segments, each by its number and by the deck's.
MCSources == {EX("gap", 1, 1, 1), EX("gap", 0, 1, 2), EX("slope", 1, 1, 4),
              EX("gap", 1, 2, 8), EX("slope", 0, 2, 16), EX("current", 1, 1, 1),
              EX("wave", 0, 0, 0)}
=============================================================================
