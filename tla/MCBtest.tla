------------------------------ MODULE MCBtest ------------------------------
(***************************************************************************)
(* Arguments for the puzzles, for TLC: words with one run of ones, which make *)
(* every carry chain and every boundary of a field, their complements with    *)
(* both ends set, and small numbers of both signs.                          *)
(***************************************************************************)
EXTENDS Btest

Ends == {0, 1, 2, 7, 8, 15, 16, 22, 23, 24, 30, 31}
Runs == {a .. b : a \in Ends, b \in Ends}
Alternating == {{i \in Bits : i % 2 = 0}, {i \in Bits : i % 2 = 1}, {i \in Bits : i % 4 < 2}}
Samples == Runs \cup Alternating \cup {Not(r) : r \in {a .. 30 : a \in 1 .. 6}}

\* Exponents of denormals, and fractions that end in any three bits.
Small == {FromNat(n) : n \in 0 .. 160} \cup {Neg(FromNat(n)) : n \in 1 .. 160}
Fractions == {r \cup e \cup s : r \in {a .. 22 : a \in 0 .. 23} \cup SUBSET (0 .. 3),
                                e \in {Shl(FromNat(n), 23) : n \in 0 .. 255},
                                s \in {Zero, TMin}}
Given == <<{a .. b : a \in Bits, b \in Bits} \cup Small \cup Fractions, Samples>>
=============================================================================
