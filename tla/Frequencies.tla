----------------------------- MODULE Frequencies -----------------------------
(***************************************************************************)
(* At what frequencies a run solves (crates/nec_solver/src/frequency.rs):  *)
(* a list or a range of --sweep-config, or the deck's FR cards, and what   *)
(* main.rs says or refuses of them.                                        *)
(*                                                                         *)
(* A card's frequencies are integers.  A range is where arithmetic rounds: *)
(* its quantities are in halves of an ulp of its largest frequency, from   *)
(* its start, and err is what the roundings of start, end, step,           *)
(* difference and quotient add up to, at most half an ulp each.            *)
(***************************************************************************)
EXTENDS Integers, Sequences, SequencesExt

CONSTANTS Sweeps,         \* what is asked for, by source: "list" (points), "range" (span,
                         \* step, err, finite, room: the last point that is a frequency in
                         \* hertz, negative when the start is none) or "deck" (cards)
          MAX_FR_POINTS, \* points expanded, of a card or of a range
          Largest,       \* the last integer that is finite in hertz
          None

Tolerance == 8   \* 4 ulp
MinStep == 16 \* 8 ulp
Rounding == 5    \* five halves

FrCard == [type : Nat, steps : Nat, start : Int, step : Int]
Described == [source : {"list"}, points : Seq(Int)]
             \cup [source : {"range"}, span : Int, step : Int, err : -Rounding .. Rounding,
                   finite : BOOLEAN, room : Int]
             \cup [source : {"deck"}, cards : Seq(FrCard)]

FrequenciesAssumption == /\ MAX_FR_POINTS \in Nat \ {0} /\ Largest \in Nat
                         /\ Sweeps \subseteq Described
                         /\ None \notin {"empty", "point", "start", "step", "end", "order",
                                         "resolution", "size", "none", "frequency"}

VARIABLES asked, stage,
          freqs, \* the frequencies of the run, in order
          said,  \* the warnings
          refusal

vars == <<asked, stage, freqs, said, refusal>>

InitWith(set) == /\ asked \in set /\ stage = "warn"
                 /\ freqs = <<>> /\ said = {} /\ refusal = None

Init == InitWith(Sweeps)

-----------------------------------------------------------------------------
(* A range                                                                 *)

\* The first thing wrong of a range that is not its size.
RangeError(g) == CASE g.room < 0 -> "start"
                   [] g.room >= 0 /\ g.step <= 0 -> "step"
                   [] g.room >= 0 /\ g.step > 0 /\ ~g.finite -> "end"
                   [] g.room >= 0 /\ g.step > 0 /\ g.finite /\ g.span < 0 -> "order"
                   [] g.room >= 0 /\ g.step \in 1 .. MinStep - 1 /\ g.finite
                                  /\ g.span >= 0 -> "resolution"
                   [] OTHER -> None

\* Mutant: the end is counted as the quotient rounded it (FND-297).
CountOfQuotient(g) == (g.span + g.err) \div g.step + 1

\* linear_range_len: an end on the grid to within the rounding is counted.
CountOf(g) == (g.span + g.err + Tolerance) \div g.step + 1

RangeRefusal(g) == IF RangeError(g) # None THEN RangeError(g)
                   ELSE IF CountOf(g) > MAX_FR_POINTS THEN "size" ELSE None

RangePoints(g) == [i \in 1 .. CountOf(g) |-> (i - 1) * g.step]
-----------------------------------------------------------------------------
(* The FR cards                                                            *)

Power(b, e) == LET p[i \in 0 .. e] == IF i = 0 THEN 1 ELSE p[i - 1] * b IN p[e]

\* The i-th frequency of a card; a type that is not 1 is linear.
FrequencyAt(c, i) == IF c.type = 1 THEN c.start * Power(c.step, i) ELSE c.start + c.step * i

PointsAsked(c) == IF c.steps = 0 THEN 1 ELSE c.steps

Truncated(c) == PointsAsked(c) > MAX_FR_POINTS

Expanded(c) == [i \in 1 .. IF Truncated(c) THEN MAX_FR_POINTS ELSE PointsAsked(c) |->
                  FrequencyAt(c, i - 1)]

Governing(cards) == IF cards = <<>> THEN {} ELSE {Last(cards)}

IsUsable(f) == 0 < f /\ f <= Largest

Unusable(fs) == \E i \in DOMAIN fs : ~IsUsable(fs[i])
-----------------------------------------------------------------------------
(* The run, up to its first solve                                          *)

Earlier(cards) == 1 .. Len(cards) - 1

\* superseded_frequency_warnings; a list or a range replaces every card, which nothing is
\* said of then.
Warn == /\ stage = "warn"
        /\ said' = IF asked.source # "deck" THEN {}
                   ELSE {<<"superseded", i>> : i \in Earlier(asked.cards)}
                        \cup {<<"unusable", i>> :
                                i \in {k \in Earlier(asked.cards) :
                                         Unusable(Expanded(asked.cards[k]))}}
                        \cup {<<"truncated", Len(asked.cards)>> :
                                c \in {d \in Governing(asked.cards) : Truncated(d)}}
        /\ stage' = "read"
        /\ UNCHANGED <<asked, freqs, refusal>>

Refused(why) == stage' = "done" /\ refusal' = why /\ UNCHANGED freqs
Take(fs) == stage' = "judge" /\ freqs' = fs /\ UNCHANGED refusal

ReadList == /\ stage = "read" /\ asked.source = "list"
            /\ IF asked.points = <<>> THEN Refused("empty")
               ELSE IF Unusable(asked.points) THEN Refused("point") ELSE Take(asked.points)
            /\ UNCHANGED <<asked, said>>

ReadRange == /\ stage = "read" /\ asked.source = "range"
             /\ IF RangeRefusal(asked) # None THEN Refused(RangeRefusal(asked))
                ELSE Take(RangePoints(asked))
             /\ UNCHANGED <<asked, said>>

ReadDeck == /\ stage = "read" /\ asked.source = "deck"
            /\ Take(IF asked.cards = <<>> THEN <<>> ELSE Expanded(Last(asked.cards)))
            /\ UNCHANGED <<asked, said>>

\* no_frequency_error, then the frequency check of pre_solve_error_at, which reads the
\* governing card or the list that will be solved: a range's last points may be past the
\* last frequency in hertz, as only its start was asked.
OutOfRoom(fs) == IF asked.source = "range" THEN \E i \in DOMAIN fs : fs[i] > asked.room
                 ELSE Unusable(fs)

Judge == /\ stage = "judge"
         /\ IF freqs = <<>> THEN Refused("none")
            ELSE IF OutOfRoom(freqs) THEN Refused("frequency")
            ELSE stage' = "solve" /\ UNCHANGED <<freqs, refusal>>
         /\ UNCHANGED <<asked, said>>

Next == Warn \/ ReadList \/ ReadRange \/ ReadDeck \/ Judge

Spec == Init /\ [][Next]_vars /\ WF_vars(Next)
-----------------------------------------------------------------------------
TypeOK == /\ stage \in {"warn", "read", "judge", "solve", "done"}
          /\ stage = "done" <=> refusal # None
          /\ Len(freqs) <= MAX_FR_POINTS \/ asked.source = "list"

\* The points of a range are the typed ones: one for each multiple of the step up to its
\* end, the end itself when it is one, however the arithmetic rounds; never one past it by
\* more than rounding can be; and no two alike, with what rounding adds to each
\* (FND-109, FND-297, FND-316).
CountsWhatWasTyped ==
    asked.source = "range" /\ stage \in {"judge", "solve"} =>
        LET n == Len(freqs)
        IN /\ n * asked.step > asked.span
           /\ (n - 1) * asked.step <= asked.span + Tolerance + Rounding
           /\ asked.span % asked.step = 0 => (n - 1) * asked.step = asked.span
           /\ \A i \in 1 .. n - 1 : freqs[i + 1] - freqs[i] > 4

\* What a run solves is what was asked, at frequencies that exist: a list as it is, or the
\* last card's points in their order; what it does not solve - an earlier card, a card's
\* points past the limit - is said, and nothing else is; and a deck is refused for the
\* frequencies it would have solved, not for a card that never runs (FND-057, FND-070,
\* FND-097, FND-100, FND-210).
RunsWhatWasAsked ==
    /\ stage = "solve" =>
         /\ freqs # <<>>
         /\ asked.source = "range" => freqs[Len(freqs)] <= asked.room
         /\ asked.source # "range" => \A i \in DOMAIN freqs : IsUsable(freqs[i])
         /\ asked.source = "list" => freqs = asked.points /\ said = {}
         /\ asked.source = "deck" =>
              LET c == Last(asked.cards)
              IN /\ \A i \in DOMAIN freqs : freqs[i] = FrequencyAt(c, i - 1)
                 /\ Len(freqs) = PointsAsked(c) \/ <<"truncated", Len(asked.cards)>> \in said
                 /\ {w[2] : w \in {v \in said : v[1] = "superseded"}} = Earlier(asked.cards)
    /\ asked.source = "deck" /\ refusal # None =>
         asked.cards = <<>> \/ \E i \in 0 .. PointsAsked(Last(asked.cards)) - 1 :
                                 i < MAX_FR_POINTS /\ ~IsUsable(FrequencyAt(Last(asked.cards), i))
=============================================================================
