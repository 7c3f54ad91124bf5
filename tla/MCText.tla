------------------------------- MODULE MCText -------------------------------
(* Lines for TLC: every card the parser knows, in the forms it tells apart. *)
EXTENDS DeckDocument

I(n) == [v |-> Whole * n, as |-> "int"]
R(halves) == [v |-> halves, as |-> "real"]
Unreadable == [v |-> 0, as |-> "bad"]
Line(card, f) == [card |-> card, f |-> f]
No(n) == [i \in 1 .. n |-> I(0)]

GWLine(tag, segments, radius) ==
    Line("GW", <<I(tag), I(segments), I(0), I(0), R(1), I(2), I(0), I(0), radius>>)
Wire == GWLine(1, 2, R(1))

Tapers == {GWLine(2, 1, I(0)), GWLine(2, 3, R(0)), Wire,
           Line("GC", <<I(7), Unreadable, I(1), R(1), R(1)>>), Line("GC", <<I(0), I(0), R(1), R(1), R(3)>>),
           Line("GE", <<>>), Line("GE", <<I(1)>>), Line("GN", <<I(1)>>),
           Line("CM", <<>>), Line("'", <<>>), Line("", <<>>), Line("EN", <<>>)}

Geometry == {Wire, GWLine(-1, 1, R(1)), GWLine(1, 1, R(-1)), Line("GW", No(8)),
             Line("GM", <<R(3), I(1), R(1)>>), Line("GM", <<I(-1)>>), Line("GM", <<>>),
             Line("GR", <<I(1), I(4), R(180)>>), Line("GR", <<I(1), I(4), R(60)>>),
             Line("GX", <<I(1), I(205)>>), Line("GX", <<I(0), R(3)>>), Line("GX", <<I(0), I(1001)>>),
             Line("GA", <<I(1), I(1), R(1), I(0), I(360), R(1)>>),
             Line("GA", <<I(1), I(4), R(1), I(0), I(180), R(1)>>),
             Line("GH", <<I(1), I(4), R(1), I(2), R(1), I(0), R(1), I(0), R(1)>>),
             Line("GH", <<I(1), I(4), R(1), I(2), R(1), I(0), I(1), I(0), R(1)>>),
             Line("GH", <<I(1), I(4), R(1), I(2), R(1), R(1), I(1), I(0), R(1)>>),
             Line("GS", <<Unreadable, I(0), R(1)>>), Line("GS", <<I(0), I(0), I(0)>>),
             Line("GE", <<I(1)>>), Line("GE", <<I(-1)>>), Line("GE", <<I(2)>>),
             Line("GN", <<I(1)>>), Line("EN", <<>>)}

Ground == {Wire, Line("GE", <<I(1)>>), Line("GN", <<I(2), I(0), I(0), I(0), I(13), R(1)>>),
           Line("GN", <<I(0), I(0), I(1), I(2), I(0), I(0), I(3), R(1)>>),
           Line("GN", <<I(0), I(4)>>), Line("GN", <<I(1), I(4), I(0), I(0), I(0), I(0), I(3), R(1)>>),
           Line("GN", <<I(-1), I(0), I(0), I(0), I(3)>>), Line("GN", <<I(3)>>), Line("GN", <<>>),
           Line("GD", <<I(0), R(1)>>), Line("EN", <<>>)}

Program == {Wire, Line("GE", <<I(0)>>), Line("EN", <<>>), Line("CE", <<>>), Line("XQ", <<R(1)>>),
            Line("SY", <<>>), Line("SP", <<>>), Line("ZZ", <<>>),
            Line("EX", <<I(0), I(1), I(1), I(0), I(1)>>),
            Line("EX", <<I(0), I(1), I(1), I(1), I(1), I(0), R(1)>>),
            Line("EX", <<I(0), I(1), I(1), I(1), I(1), I(0), I(-1)>>),
            Line("EX", <<I(5), I(1), I(1), I(12)>>), Line("EX", <<I(1), I(1), I(-1)>>),
            Line("EX", <<I(1), I(1), I(2), I(0), R(1), R(1), I(3), I(4), I(5), R(1), I(9)>>),
            Line("FR", <<I(0), I(1), I(0), I(0), R(29)>>), Line("FR", <<I(0), I(1), R(29), I(0)>>),
            Line("FR", <<I(0), I(1), I(14), I(0)>>), Line("FR", <<I(1), I(2), I(3), I(0), I(14), R(1)>>),
            Line("FR", <<I(0), Unreadable, I(0), I(0), I(14)>>),
            Line("RP", <<I(0), I(4), I(0), I(1511), I(0), R(1), I(5), I(5)>>),
            Line("RP", <<I(0), I(4), I(2), I(200), I(0), I(0), I(5), I(5), I(7), I(2)>>),
            Line("RP", <<I(0), I(4), I(2), I(1020), I(0), I(0), I(5), I(5), I(0), I(2)>>),
            Line("RP", <<I(0), I(4), I(2), R(0), I(0), I(5), I(5)>>), Line("RP", <<I(1)>>),
            Line("LD", <<I(4), I(1), I(1), I(1), R(1), I(50)>>), Line("LD", <<I(-1)>>),
            Line("LD", <<I(5), I(0), I(0), I(0), I(58), I(0), I(0), I(9)>>),
            Line("TL", <<I(1), I(1), I(1), I(2), I(50), I(1)>>),
            Line("TL", <<I(1), I(1), I(1), I(2), R(4), R(2), I(0), R(1), I(0), I(0), R(1)>>),
            Line("TL", <<I(1), I(1), I(1), I(2), I(2), I(1), I(50), R(1)>>),
            Line("NT", <<I(1), I(1), I(1), I(2), I(0), R(1)>>), Line("NT", <<I(1), I(-1)>>),
            Line("PT", <<I(2), I(1), I(1), I(2)>>), Line("PT", <<I(-1)>>),
            Line("NE", <<I(0), I(-1), I(1), I(1), R(1)>>), Line("NH", <<I(0), I(1), I(1)>>)}

MCAlphabets == [tapers |-> [lines |-> Tapers, max |-> 4],
                geometry |-> [lines |-> Geometry, max |-> 3],
                ground |-> [lines |-> Ground, max |-> 4],
                program |-> [lines |-> Program, max |-> 3]]

MCInputs == {I(0), R(1), I(-1), I(2), Empty}
=============================================================================
