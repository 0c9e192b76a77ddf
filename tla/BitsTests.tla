----------------------------- MODULE BitsTests -----------------------------
(***************************************************************************)
(* tests.c: what the puzzles should compute, by their test functions.  The  *)
(* operations on float are those of the machine (single precision, rounded   *)
(* to nearest, ties to even).                                               *)
(***************************************************************************)
EXTENDS Words

test_bitNot(x) == Not(x)
test_bitXor(x, y) == Xor(x, y)

test_allOddBits(x) == Bool(\A i \in Bits : i % 2 = 1 => i \in x)

test_rotateRight(x, n) == {i \in Bits : (i + Number(n)) % 32 \in x}

test_palindrome(x) == Bool(\A i \in 0 .. 15 : i \in x <=> 31 - i \in x)

test_countConsecutive1(x) == FromNat(Cardinality({i \in x : i = 0 \/ i - 1 \notin x}))

test_counter1To5(x) == FromNat((Number(x) % 5) + 1)

test_fullSub(x, y) == Minus(x, y) \cap 0 .. 3

test_isLessOrEqual(x, y) == Bool(Leq(x, y))

test_sm2tc(x) == IF Negative(x) THEN Neg(x \cap TMax) ELSE x \cap TMax

test_satAdd(x, y) ==
  CASE Positive(x) /\ Positive(y) /\ Negative(Plus(x, y)) -> TMax
    [] Negative(x) /\ Negative(y) /\ ~Negative(Plus(x, y)) -> TMin
    [] OTHER -> Plus(x, y)

\* The division rounds towards zero.
test_trueFiveEighths(x) ==
  LET long     == Extended(x)
      product  == SumIn(Long, long, {i \in Long : i - 2 \in long})
      dividend == IF 63 \in product THEN SumIn(Long, product, 0 .. 2) ELSE product
  IN  {i \in Bits : (IF i + 3 > 63 THEN 63 ELSE i + 3) \in dividend}
--------------------------------------------------------------------------
\* A finite float is (-1)^s * sig * 2^(e - 150), with sig in positions 0 to 23.
NotANumber(uf) == 23 .. 30 \subseteq uf /\ uf \cap 0 .. 22 # Zero
Infinite(uf) == uf \cap 0 .. 30 = 23 .. 30

Exponent(uf) == Number(Shr(uf, 23) \cap 0 .. 7)
Significand(uf) ==
  (uf \cap 0 .. 22) \cup (IF Exponent(uf) = 0 THEN Zero ELSE {23})
Scale(uf) == IF Exponent(uf) = 0 THEN 1 ELSE Exponent(uf)

\* sig * 2^-n to the nearest integer, to the even one when two are as near.
Rounded(sig, n) ==
  LET rest == {i \in sig : i < n}
      up   == /\ n - 1 \in rest
              /\ rest # {n - 1} \/ n \in sig
  IN  IF up THEN Plus(Shr(sig, n), One) ELSE Shr(sig, n)

\* The bits of the float nearest to sig * 2^(e - 150).
NearestFloat(sign, sig, e) ==
  LET top   == IF sig = Zero THEN 0 ELSE Highest(sig)
      shift == IF e - (23 - top) < 1 THEN 1 - e ELSE top - 23   \* to the right
      s     == IF shift > 0 THEN Rounded(sig, shift) ELSE Shl(sig, -shift)
      field == IF 23 \in s THEN e + shift ELSE 0
  IN  sign \cup (IF field >= 255 THEN 23 .. 30 ELSE Shl(FromNat(field), 23) \cup (s \cap 0 .. 22))

\* uf * 2^k
Scaled(uf, k) ==
  IF NotANumber(uf) \/ Infinite(uf) THEN uf
  ELSE NearestFloat(uf \cap {Sign}, Significand(uf), Scale(uf) + k)

test_float_twice(uf) == Scaled(uf, 1)
test_float_half(uf) == Scaled(uf, -1)

\* Truncated; out of range the machine delivers TMin.
test_float_f2i(uf) ==
  LET shift == Exponent(uf) - 150
      magnitude == IF shift >= 0 THEN Shl(Significand(uf), shift) ELSE Shr(Significand(uf), -shift)
  IN  CASE NotANumber(uf) \/ Infinite(uf) \/ shift > 7 -> TMin
        [] OTHER -> IF Negative(uf) THEN Neg(magnitude) ELSE magnitude

\* Powers of two as floats: zero, infinity, or the exponent.
Tiny == -200
Huge == 200
TimesPower(a, b) ==
  CASE a + b < -149 -> Tiny
    [] a + b > 127 -> Huge
    [] OTHER -> a + b

PowerBits(a) ==
  CASE a = Tiny -> Zero
    [] a = Huge -> 23 .. 30
    [] a \in -149 .. -127 -> {a + 149}
    [] a \in -126 .. 127 -> Shl(FromNat(a + 127), 23)

\* By squaring, from the lowest bit of |x| to its highest.
test_float_pwr2(x) ==
  LET n == IF Negative(x) THEN Neg(x) ELSE x
      loop[i \in 0 .. 31] ==   \* p2 and result after i turns
        IF i = 0 THEN [p2 |-> IF Negative(x) THEN -1 ELSE 1, result |-> 0]
        ELSE LET last == loop[i-1]
             IN  [p2 |-> TimesPower(last.p2, last.p2),
                  result |-> IF i - 1 \in n THEN TimesPower(last.result, last.p2) ELSE last.result]
  IN  IF x = TMin THEN Zero ELSE PowerBits(loop[31].result)
=============================================================================
