------------------------------- MODULE Words -------------------------------
(***************************************************************************)
(* C's 32-bit integers as the sets of the positions of their one bits, and  *)
(* the operators on them: & is \cap, | is \cup, and addition wraps (the     *)
(* puzzles are compiled with -fwrapv).  Signed and unsigned words differ in *)
(* the shift to the right and in comparisons only.                          *)
(***************************************************************************)
EXTENDS Integers, FiniteSets

Bits == 0 .. 31
Sign == 31
Word == SUBSET Bits

Zero == {}
One == {0}
TMin == {Sign}
TMax == Bits \ {Sign}

Not(x) == Bits \ x
Xor(x, y) == (x \ y) \cup (y \ x)
Bool(b) == IF b THEN One ELSE Zero
Lnot(x) == Bool(x = Zero)

\* Shifts by n; Sar keeps the sign.
Shl(x, n) == {i \in Bits : i - n \in x}
Shr(x, n) == {i \in Bits : i + n \in x}
Sar(x, n) == {i \in Bits : (IF i + n > Sign THEN Sign ELSE i + n) \in x}

\* The number of a word that counts something: all of them are below 256.
Number(x) ==
  LET bit(i) == IF i \in x THEN 1 ELSE 0
  IN  bit(0) + 2 * bit(1) + 4 * bit(2) + 8 * bit(3) + 16 * bit(4) + 32 * bit(5) + 64 * bit(6) + 128 * bit(7)

\* The word of a small number.
Pow2 == [i \in 0 .. 30 |-> 2 ^ i]
FromNat(n) == {i \in 0 .. 30 : (n \div Pow2[i]) % 2 = 1}

\* A carry comes into position i from a position that generates it, over
\* positions that hand it on.
SumIn(positions, x, y) ==
  Xor(Xor(x, y), {i \in positions : \E j \in x \cap y : j < i /\ (j + 1) .. (i - 1) \subseteq x \cup y})

Plus(x, y) == SumIn(Bits, x, y)
Neg(x) == Plus(Not(x), One)
Minus(x, y) == Plus(x, Neg(y))

Negative(x) == Sign \in x
Positive(x) == x # Zero /\ ~Negative(x)

\* The order of unsigned and of signed words: the highest bit that differs decides.
Highest(x) == CHOOSE i \in x : \A j \in x : j <= i
Leq(x, y) == x = y \/ LET d == Highest(Xor(x, y)) IN d \in (IF d = Sign THEN x ELSE y)
UnsignedLeq(x, y) == x = y \/ Highest(Xor(x, y)) \in y

\* long long: 64 positions.
Long == 0 .. 63
Extended(x) == IF Negative(x) THEN x \cup 32 .. 63 ELSE x
Truncated(x) == x \cap Bits
=============================================================================
