------------------------------ MODULE LNetwork ------------------------------
(***************************************************************************)
(* The lossless L-networks that match a load to a target (solve,           *)
(* crates/nec_solver/src/lnetwork.rs).                                     *)
(*                                                                         *)
(* An impedance is a pair of integers, resistance and reactance; a         *)
(* reactance or susceptance of an element is a quotient of two.  The loads *)
(* and targets are such that the roots are rational: what rounding may do  *)
(* to an element that should be none is not modelled.                      *)
(***************************************************************************)
EXTENDS Integers, Sequences, FiniteSets, SequencesExt

CONSTANT None

-----------------------------------------------------------------------------
(* Quotients, and complex numbers of them                                  *)

Gcd[p \in Nat \X Nat] == IF p[2] = 0 THEN p[1] ELSE Gcd[<<p[2], p[1] % p[2]>>]
Abs(n) == IF n < 0 THEN -n ELSE n

\* n / d in its lowest terms.
Q[n \in Int, d \in Int] == LET g == Gcd[<<Abs(n), Abs(d)>>]
                           IN  IF d < 0 THEN <<(-n) \div g, (-d) \div g>>
                               ELSE <<n \div g, d \div g>>
Quotients == Int \X Int
Zero == <<0, 1>>
Plus[p \in Quotients, q \in Quotients] == Q[p[1] * q[2] + q[1] * p[2], p[2] * q[2]]
Times[p \in Quotients, q \in Quotients] == Q[p[1] * q[1], p[2] * q[2]]
Of(z) == <<Q[z[1], 1], Q[z[2], 1]>>
Reciprocal[c \in Quotients \X Quotients] ==
    LET norm == Plus[Times[c[1], c[1]], Times[c[2], c[2]]]
        over == <<norm[2], norm[1]>>
    IN <<Times[c[1], over], Times[Q[-c[2][1], c[2][2]], over]>>
PlusJ[c \in Quotients \X Quotients, x \in Quotients] == <<c[1], Plus[c[2], x]>>
Norm2(z) == z[1] * z[1] + z[2] * z[2]

\* The root of n / d, where it is a quotient.
HasRoot(n, d) == \E k \in 0 .. n * d : k * k = n * d
Root(n, d) == Q[CHOOSE k \in 0 .. n * d : k * k = n * d, d]
-----------------------------------------------------------------------------
(* The networks                                                            *)

\* An element of value zero is left out.
Element(x) == IF x = Zero THEN None ELSE x
Network(order, series, shunt) ==
    [order |-> order, series |-> Element(series), shunt |-> Element(shunt)]

\* same_network: the order matters with both elements present only.
SameNetwork(m, n) == /\ m.series = n.series /\ m.shunt = n.shunt
                     /\ (m.series # None /\ m.shunt # None) => m.order = n.order

\* R_L / G_T - R_L^2 and, times |Z_L|^4, G_L / R_T - G_L^2, each over R_T.
SeriesRadicand(l, t) == l[1] * Norm2(t) - l[1] * l[1] * t[1]
ShuntRadicand(l, t) == l[1] * Norm2(l) - l[1] * l[1] * t[1]

RootsRational(l, t) == \A n \in {SeriesRadicand(l, t), ShuntRadicand(l, t)} :
                           n >= 0 => HasRoot(n, t[1])

Signs(r) == <<r, Q[-r[1], r[2]]>>

\* Series-first: the series reactance X_t - X_L, then the shunt B_T + X_t G_T / R_L.
SeriesFirst(l, t) ==
    IF SeriesRadicand(l, t) < 0 THEN <<>>
    ELSE LET roots == Signs(Root(SeriesRadicand(l, t), t[1]))
         IN [i \in 1 .. 2 |->
               Network("series-first", Plus[roots[i], Q[-l[2], 1]],
                       Plus[Q[-t[2], Norm2(t)],
                           Times[roots[i], Q[t[1], Norm2(t) * l[1]]]])]

\* Shunt-first: the shunt B_t - B_L, then the series reactance X_T + B_t R_T / G_L.
ShuntFirst(l, t) ==
    IF ShuntRadicand(l, t) < 0 THEN <<>>
    ELSE LET roots == Signs(Root(ShuntRadicand(l, t), t[1]))
         IN [i \in 1 .. 2 |->
               Network("shunt-first",
                       Plus[Q[t[2], 1], Times[roots[i], Q[t[1], l[1]]]],
                       Plus[Times[roots[i], Q[1, Norm2(l)]], Q[l[2], Norm2(l)]])]

\* A network is left out when one before it is the same.
Distinct(networks) ==
    LET First(i) == \A j \in 1 .. i - 1 : ~SameNetwork(networks[j], networks[i])
        kept == SelectSeq([i \in DOMAIN networks |-> i], First)
    IN  [k \in DOMAIN kept |-> networks[kept[k]]]

AlreadyMatched(l, t) == l = t

Solutions(l, t) == IF AlreadyMatched(l, t) THEN <<>>
                   ELSE Distinct(SeriesFirst(l, t) \o ShuntFirst(l, t))
\* The input impedance of a load behind a network, by the circuit.
InputImpedance(n, l) ==
    LET series == IF n.series = None THEN Zero ELSE n.series
        shunt == IF n.shunt = None THEN Zero ELSE n.shunt
    IN IF n.order = "series-first"
       THEN Reciprocal[PlusJ[Reciprocal[PlusJ[Of(l), series]], shunt]]
       ELSE PlusJ[Reciprocal[PlusJ[Reciprocal[Of(l)], shunt]], series]

Presents(n, l, t) == LET z == InputImpedance(n, l)
                     IN z = Of(t)
=============================================================================
