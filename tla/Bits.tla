------------------------------- MODULE Bits -------------------------------
(***************************************************************************)
(* bits.c: the puzzles, statement by statement.  A variable that is assigned *)
(* again has a number.  Masks are sets: 0xAA is {1, 3, 5, 7}.               *)
(***************************************************************************)
EXTENDS Words

bitNot(x) == Xor(x, Sar(Shl(One, 31), 31))

bitXor(x, y) == Not(x \cap y) \cap Not(Not(x) \cap Not(y))

\* A byte in all four bytes of a word.
Repeated(byte) ==
  LET half == byte \cup Shl(byte, 8)
  IN  half \cup Shl(half, 16)

allOddBits(x) == Lnot(Xor(x, x \cup Repeated({1, 3, 5, 7})))

rotateRight(x, n) ==
  LET sgn  == Sar(x, 31) \cap One
      v    == Xor(0 .. 4, n)
      rest == Xor(x, Shl(sgn, 31))
  IN  Shl(sgn \cup Shl(x, 1), Number(v)) \cup Sar(rest, Number(n))

\* Swaps neighbours of n bits; low has the lower of them in two bytes.
Swapped(y, low, n) == (Shl(y, n) \cap Shl(low, n)) \cup (Sar(y, n) \cap low)

palindrome(x) ==
  LET z  == Sar(x, 16) \cap 0 .. 15
      y1 == (Shl(x, 8) \cap 8 .. 15) \cup (Sar(x, 8) \cap 0 .. 7)
      y2 == Swapped(y1, 0 .. 3 \cup 8 .. 11, 4)
      y3 == Swapped(y2, {0, 1, 4, 5, 8, 9, 12, 13}, 2)
      y4 == Swapped(y3, {0, 2, 4, 6, 8, 10, 12, 14}, 1)
  IN  Lnot(Xor(y4, z))

\* Marks where a run of ones begins, and counts the marks.
countConsecutive1(x) ==
  LET y0 == Xor(x, x \cap Shl(x, 1))
      y1 == Plus(y0, Sar(y0, 1)) \cap Repeated({0, 2, 4, 6})
      y2 == Plus(y1, Sar(y1, 2)) \cap Repeated({0, 1, 4, 5})
      y3 == Plus(y2, Sar(y2, 4)) \cap Repeated(0 .. 3)
      y4 == Plus(y3, Sar(y3, 8))
      y5 == Plus(y4, Sar(y4, 16))
  IN  y5 \cap 0 .. 4

counter1To5(x) ==
  LET re  == Plus(x, One)
      sgn == Sar(Plus(re, {1}), 3)
  IN  Sar(re, Number(Shl(sgn, 4))) \cup sgn

fullSub(x, y) ==
  LET m1 == Shl(Not(x) \cap y, 1)
      m2 == Not(x) \cup y
      m3 == m1 \cup Shl(m2 \cap m1, 1)
      m4 == m3 \cup Shl(m2 \cap m3, 1)
  IN  Xor(Xor(x, y), m4 \cap 0 .. 3)

isLessOrEqual(x, y) ==
  LET v  == Not(y)
      f  == Sar(Xor(x, v), 31) \cap One
      f1 == Sar(x, 31)
      f2 == Sar(Plus(x, v), 31)
  IN  (Lnot(f) \cap f1) \cup (f \cap f2)

sm2tc(x) ==
  LET mask == Sar(x, 31) \cap One
      v    == Shl(mask, 31)
  IN  Plus(Xor(x, Xor(Sar(v, 31), v)), mask)

satAdd(x, y) ==
  LET sum == Plus(x, y)
      f   == Sar(Not(Xor(x, y)) \cap Xor(x, sum), 31)
      re  == Xor(sum \cup f, Shl(f \cap One, 31))
  IN  Plus(re, Sar(x, 31) \cap f \cap One)

\* Variant: rounds down.
trueFiveEighthsDown(x) ==
  Plus(Plus(Sar(x, 1), Sar(x, 3)), Sar({5, 7}, Number(x \cap 0 .. 2)) \cap One)
trueFiveEighths(x) ==
  LET sgn == Sar(x, 31) \cap One
      ed  == x \cap 0 .. 2
      carry == Sar({5, 7}, Number(ed)) \cap One
  IN  Plus(Plus(Plus(Sar(x, 1), Sar(x, 3)), carry), sgn \cap Lnot(Lnot(ed)))
--------------------------------------------------------------------------
\* Single precision: sign 31, exponent 23 to 30, fraction 0 to 22.
ExponentField == 23 .. 30
FractionField == 0 .. 22

float_twice(uf) ==
  LET s == uf \cap {Sign}
      e == uf \cap ExponentField
      b == uf \cap FractionField
      e1 == Plus(e, {23})
  IN  CASE e = ExponentField -> uf
        [] e # ExponentField /\ e # Zero ->
             Plus(Plus(s, e1), IF e1 = ExponentField THEN Zero ELSE b)
        [] e = Zero -> Plus(Plus(s, e), Shl(b, 1))

float_half(uf) ==
  LET s == uf \cap {Sign}
      e == uf \cap ExponentField
      b == (uf \cap FractionField) \cup e
      rounded == IF {0, 1} \subseteq b THEN Plus(b, One) ELSE b
  IN  CASE e = ExponentField -> uf
        [] e # ExponentField /\ ~UnsignedLeq(e, {23}) -> Minus(uf, {23})
        [] OTHER -> Plus(s, Shr(rounded, 1))

float_f2i(uf) ==
  LET e == Number(Shr(uf, 23) \cap 0 .. 7)
      b == (uf \cap FractionField) \cup {23}
      magnitude == IF e >= 150 THEN Shl(b, e - 150) ELSE Shr(b, 150 - e)
  IN  CASE e >= 158 -> TMin
        [] e <= 126 -> Zero
        [] e \in 127 .. 157 -> IF Sign \in uf THEN Neg(magnitude) ELSE magnitude

\* The word of a negative number.
Negated(n) == Neg(FromNat(n))

\* Variant: the smallest denormal is taken for too small.
float_pwr2NoSmallest(x) ==
  CASE Leq(x, Negated(149)) -> Zero
    [] ~Leq(x, Negated(149)) /\ ~Leq(Negated(126), x) -> Shl(One, Number(Plus(x, FromNat(149))))
    [] Leq(Negated(126), x) /\ Leq(x, FromNat(127)) -> Shl(Plus(x, FromNat(127)), 23)
    [] ~Leq(x, FromNat(127)) -> ExponentField
float_pwr2(x) ==
  CASE ~Leq(Negated(149), x) -> Zero
    [] Leq(Negated(149), x) /\ ~Leq(Negated(126), x) -> Shl(One, Number(Plus(x, FromNat(149))))
    [] Leq(Negated(126), x) /\ Leq(x, FromNat(127)) -> Shl(Plus(x, FromNat(127)), 23)
    [] ~Leq(x, FromNat(127)) -> ExponentField
=============================================================================
