----------------------------- MODULE BitsProofs -----------------------------
(***************************************************************************)
(* Every puzzle equals its test function on all arguments it is specified    *)
(* for (Bits, BitsTests), and so btest finds no error (Btest).              *)
(***************************************************************************)
EXTENDS Btest, FiniteSetTheorems, WellFoundedInduction, TLAPS

\* The sign, shifted down over the whole word.
LEMMA SignFills ==
  ASSUME NEW x \in Word
  PROVE  Sar(x, 31) = IF Negative(x) THEN Bits ELSE Zero
<1>1. \A i \in Bits : (IF i + 31 > Sign THEN Sign ELSE i + 31) = Sign
  BY DEF Bits, Sign
<1> QED
  BY <1>1 DEF Sar, Negative, Zero

\* bits.c:179: x ^ -1 complements.
THEOREM BitNotRight == \A x \in Word : bitNot(x) = test_bitNot(x)
<1> SUFFICES ASSUME NEW x \in Word
             PROVE  bitNot(x) = test_bitNot(x)
  OBVIOUS
<1>1. Shl(One, 31) = TMin
  BY DEF Shl, One, TMin, Bits, Sign
<1>2. TMin \in Word /\ Negative(TMin)
  BY DEF TMin, Word, Negative, Bits, Sign
<1>3. Sar(TMin, 31) = Bits
  BY <1>2, SignFills
<1> QED
  BY <1>1, <1>3 DEF bitNot, test_bitNot, Xor, Not, Word

\* bits.c:190: exclusive or without it.
THEOREM BitXorRight == \A x, y \in Word : bitXor(x, y) = test_bitXor(x, y)
  BY DEF bitXor, test_bitXor, Xor, Not, Word

\* The byte 0xAA in all bytes of a word is its odd positions.
LEMMA OddMask == Repeated({1, 3, 5, 7}) = {i \in Bits : i % 2 = 1}
<1> DEFINE half == {1, 3, 5, 7} \cup Shl({1, 3, 5, 7}, 8)
<1>1. half = {1, 3, 5, 7, 9, 11, 13, 15}
  BY DEF Shl, Bits
<1>2. Repeated({1, 3, 5, 7}) = half \cup Shl(half, 16)
  BY DEF Repeated
<1>3. Shl(half, 16) = {17, 19, 21, 23, 25, 27, 29, 31}
  BY <1>1 DEF Shl, Bits
<1> QED
  BY <1>1, <1>2, <1>3 DEF Bits

\* bits.c:202: all odd bits are set when the mask adds none.
THEOREM AllOddBitsRight == \A x \in Word : allOddBits(x) = test_allOddBits(x)
<1> SUFFICES ASSUME NEW x \in Word
             PROVE  allOddBits(x) = test_allOddBits(x)
  OBVIOUS
<1> DEFINE v == {i \in Bits : i % 2 = 1}
<1>1. Xor(x, x \cup v) = Zero <=> v \subseteq x
  BY DEF Xor, Zero
<1>2. (\A i \in Bits : i % 2 = 1 => i \in x) <=> v \subseteq x
  OBVIOUS
<1>3. allOddBits(x) = Lnot(Xor(x, x \cup v))
  BY OddMask DEF allOddBits
<1> QED
  BY <1>1, <1>2, <1>3 DEF test_allOddBits, Lnot, Bool
--------------------------------------------------------------------------
\* Adding zero changes nothing.
LEMMA PlusZero ==
  ASSUME NEW x \in Word
  PROVE  Plus(x, Zero) = x /\ Plus(Zero, x) = x
<1> DEFINE C(a, b) == {i \in Bits : \E j \in a \cap b : j < i /\ (j + 1) .. (i - 1) \subseteq a \cup b}
<1>1. C(x, Zero) = {} /\ C(Zero, x) = {}
  BY DEF Zero
<1>2. Plus(x, Zero) = Xor(Xor(x, Zero), C(x, Zero)) /\ Plus(Zero, x) = Xor(Xor(Zero, x), C(Zero, x))
  BY DEF Plus, SumIn
<1> HIDE DEF C
<1>3. Xor(Xor(x, Zero), {}) = x /\ Xor(Xor(Zero, x), {}) = x
  BY DEF Xor, Zero
<1> QED
  BY <1>1, <1>2, <1>3

\* A sum is a word.
LEMMA PlusType ==
  ASSUME NEW x \in Word, NEW y \in Word
  PROVE  Plus(x, y) \in Word
<1> DEFINE C == {i \in Bits : \E j \in x \cap y : j < i /\ (j + 1) .. (i - 1) \subseteq x \cup y}
<1>1. Plus(x, y) = Xor(Xor(x, y), C)
  BY DEF Plus, SumIn
<1>2. C \subseteq Bits
  OBVIOUS
<1> HIDE DEF C
<1> QED
  BY <1>1, <1>2 DEF Xor, Word

\* bits.c:344: flipping the magnitude and adding the sign negates it.
THEOREM Sm2tcRight == \A x \in Word : sm2tc(x) = test_sm2tc(x)
<1> SUFFICES ASSUME NEW x \in Word
             PROVE  sm2tc(x) = test_sm2tc(x)
  OBVIOUS
<1>1. CASE Negative(x)
  <2>1. Sar(x, 31) \cap One = One
    BY <1>1, SignFills DEF One, Bits
  <2>2. Shl(One, 31) = TMin
    BY DEF Shl, One, TMin, Bits, Sign
  <2>3. Sar(TMin, 31) = Bits
    BY SignFills DEF TMin, Word, Negative, Bits, Sign
  <2>4. Xor(x, Xor(Bits, TMin)) = Not(x \cap TMax)
    BY <1>1 DEF Xor, Not, TMin, TMax, Negative, Word
  <2> QED
    BY <1>1, <2>1, <2>2, <2>3, <2>4 DEF sm2tc, test_sm2tc, Neg
<1>2. CASE ~Negative(x)
  <2>1. Sar(x, 31) \cap One = Zero
    BY <1>2, SignFills DEF Zero
  <2>2. Shl(Zero, 31) = Zero /\ Sar(Zero, 31) = Zero
    BY DEF Shl, Sar, Zero
  <2>3. Xor(x, Xor(Zero, Zero)) = x
    BY DEF Xor, Zero
  <2>4. x = x \cap TMax
    BY <1>2 DEF Negative, TMax, Word
  <2> QED
    BY <1>2, <2>1, <2>2, <2>3, <2>4, PlusZero DEF sm2tc, test_sm2tc
<1> QED
  BY <1>1, <1>2

\* The largest number and one wrap to the smallest.
LEMMA TMaxPlusOne == Plus(TMax, One) = TMin
<1> DEFINE C == {i \in Bits : \E j \in TMax \cap One : j < i /\ (j + 1) .. (i - 1) \subseteq TMax \cup One}
<1>1. TMax \cap One = {0}
  BY DEF TMax, One, Bits, Sign
<1>2. TMax \cup One = TMax
  BY DEF TMax, One, Bits, Sign
<1>3. C = Bits \ {0}
  BY <1>1, <1>2 DEF TMax, Bits, Sign
<1>4. Xor(TMax, One) = TMax \ {0}
  BY DEF Xor, TMax, One, Bits, Sign
<1>5. Plus(TMax, One) = Xor(Xor(TMax, One), C)
  BY DEF Plus, SumIn
<1> HIDE DEF C
<1>6. Xor(TMax \ {0}, Bits \ {0}) = TMin
  BY DEF Xor, TMax, TMin, Bits, Sign
<1> QED
  BY <1>3, <1>4, <1>5, <1>6

\* bits.c:360: a sum whose sign differs from both operands' is replaced by the
\* extreme of the operands' sign.
THEOREM SatAddRight == \A x, y \in Word : satAdd(x, y) = test_satAdd(x, y)
<1> SUFFICES ASSUME NEW x \in Word, NEW y \in Word
             PROVE  satAdd(x, y) = test_satAdd(x, y)
  OBVIOUS
<1> DEFINE sum == Plus(x, y)
           differ == Not(Xor(x, y)) \cap Xor(x, sum)
           overflow == (Negative(x) <=> Negative(y)) /\ ~(Negative(x) <=> Negative(sum))
<1>1. sum \in Word
  BY PlusType
<1>2. differ \in Word /\ (Negative(differ) <=> overflow)
  BY <1>1 DEF Not, Xor, Word, Negative, Bits, Sign
<1>3. One \cap Bits = One
  BY DEF One, Bits
<1>4. CASE overflow
  <2>1. Sar(differ, 31) = Bits
    BY <1>2, <1>4, SignFills
  <2>2. Shl(One, 31) = TMin
    BY DEF Shl, One, TMin, Bits, Sign
  <2>3. Xor(sum \cup Bits, Shl(Bits \cap One, 31)) = TMax
    BY <1>1, <1>3, <2>2 DEF Xor, TMin, TMax, Word, Bits, Sign
  <2>4. satAdd(x, y) = Plus(TMax, Sar(x, 31) \cap Bits \cap One)
    BY <2>1, <2>3 DEF satAdd
  <2>5. CASE Negative(x)
    <3>1. Sar(x, 31) \cap Bits \cap One = One
      BY <2>5, <1>3, SignFills
    <3>2. satAdd(x, y) = TMin
      BY <2>4, <3>1, TMaxPlusOne
    <3> QED
      BY <1>4, <2>5, <3>2 DEF test_satAdd, Positive
  <2>6. CASE ~Negative(x)
    <3>1. Sar(x, 31) \cap Bits \cap One = Zero
      BY <2>6, SignFills DEF Zero
    <3>2. satAdd(x, y) = TMax
      BY <2>4, <3>1, PlusZero DEF TMax, Word
    <3>3. x # Zero /\ y # Zero
      <4>1. CASE x = Zero
        <5>1. sum = y
          BY <4>1, PlusZero
        <5> QED
          BY <1>4, <2>6, <4>1, <5>1
      <4>2. CASE y = Zero
        <5>1. sum = x
          BY <4>2, PlusZero
        <5> QED
          BY <1>4, <2>6, <4>2, <5>1
      <4> QED
        BY <4>1, <4>2, <1>4, <2>6
    <3> QED
      BY <1>4, <2>6, <3>2, <3>3 DEF test_satAdd, Positive
  <2> QED
    BY <2>5, <2>6
<1>5. CASE ~overflow
  <2>1. Sar(differ, 31) = Zero
    BY <1>2, <1>5, SignFills
  <2>2. Xor(sum \cup Zero, Shl(Zero \cap One, 31)) = sum
    BY DEF Xor, Zero, Shl
  <2>3. satAdd(x, y) = Plus(sum, Zero)
    <3>1. Sar(x, 31) \cap Zero \cap One = Zero
      BY DEF Zero
    <3> QED
      BY <2>1, <2>2, <3>1 DEF satAdd
  <2>4. satAdd(x, y) = sum
    BY <1>1, <2>3, PlusZero
  <2> QED
    BY <1>5, <2>4 DEF test_satAdd, Positive
<1> QED
  BY <1>4, <1>5
--------------------------------------------------------------------------
\* Sets of numbers have a largest element, shown for longer and longer ranges.
\* D holds integers from k to m.
Between(D, k, m) == \A j \in D : j \in Int /\ k <= j /\ j <= m

HaveLargest(n) ==
  \A k \in Int : \A D : Between(D, k, k + n) /\ D # {} => \E i \in D : \A j \in D : j <= i

\* What is known of ranges of n holds of ranges of twice that.
LEMMA LongerRanges ==
  ASSUME NEW n \in Int, HaveLargest(n)
  PROVE  HaveLargest(n + n + 1)
<1> SUFFICES ASSUME NEW k \in Int, NEW D, Between(D, k, k + (n + n + 1)), D # {}
             PROVE  \E i \in D : \A j \in D : j <= i
  BY DEF HaveLargest
<1>1. CASE \E i \in D : i > k + n
  <2> DEFINE high == {i \in D : i > k + n}
  <2>1. k + n + 1 \in Int /\ high # {} /\ \A j \in high : j \in D /\ j > k + n
    BY <1>1
  <2>2. \A j \in D : j > k + n \/ j <= k + n
    BY DEF Between
  <2>3. \A j \in D : j > k + n => j \in high
    OBVIOUS
  <2> HIDE DEF high
  <2>4. Between(high, k + n + 1, (k + n + 1) + n)
    BY <2>1 DEF Between
  <2>5. PICK i \in high : \A j \in high : j <= i
    BY <2>1, <2>4 DEF HaveLargest
  <2> QED
    BY <2>1, <2>2, <2>3, <2>5 DEF Between
<1>2. CASE ~\E i \in D : i > k + n
  <2>1. Between(D, k, k + n)
    BY <1>2 DEF Between
  <2> QED
    BY <2>1 DEF HaveLargest
<1> QED
  BY <1>1, <1>2

\* A word that is not 0 has a highest bit.
LEMMA HighestBit ==
  ASSUME NEW x \in Word, x # Zero
  PROVE  /\ Highest(x) \in x
         /\ \A j \in x : j <= Highest(x)
<1>1. HaveLargest(0)
  BY DEF HaveLargest, Between
<1>2. HaveLargest(1)
  BY <1>1, LongerRanges
<1>3. HaveLargest(3)
  BY <1>2, LongerRanges
<1>4. HaveLargest(7)
  BY <1>3, LongerRanges
<1>5. HaveLargest(15)
  BY <1>4, LongerRanges
<1>6. HaveLargest(31)
  BY <1>5, LongerRanges
<1>7. PICK k \in Int : k = 0
  OBVIOUS
<1>8. Between(x, k, k + 31)
  BY <1>7 DEF Word, Bits, Between
<1>9. \E i \in x : \A j \in x : j <= i
  BY <1>6, <1>8 DEF HaveLargest, Zero
<1> QED
  BY <1>9 DEF Highest

\* The sum of x and ~y, for x and y of the same sign: its sign bit is set unless
\* a carry reaches it, and one does when x is the greater.
LEMMA CarryReachesSign ==
  ASSUME NEW x \in Word, NEW y \in Word, Negative(x) <=> Negative(y)
  PROVE  Negative(Plus(x, Not(y))) <=> Leq(x, y)
<1> DEFINE carry == \E j \in x \cap Not(y) : j < Sign /\ (j + 1) .. (Sign - 1) \subseteq x \cup Not(y)
           C == {i \in Bits : \E j \in x \cap Not(y) : j < i /\ (j + 1) .. (i - 1) \subseteq x \cup Not(y)}
<1>1. Negative(Plus(x, Not(y))) <=> ~carry
  <2>1. Sign \in C <=> carry
    BY DEF Sign, Bits
  <2>2. Plus(x, Not(y)) = Xor(Xor(x, Not(y)), C)
    BY DEF Plus, SumIn
  <2>3. Sign \in Xor(x, Not(y))
    BY DEF Negative, Not, Xor, Bits, Sign
  <2> HIDE DEF C, carry
  <2> QED
    BY <2>1, <2>2, <2>3 DEF Negative, Xor
<1>2. CASE x = y
  BY <1>1, <1>2 DEF Not, Leq
<1>3. CASE x # y
  <2> DEFINE D == Xor(x, y)
             d == Highest(D)
  <2>1. D \in Word /\ D # Zero
    BY <1>3 DEF Xor, Word, Zero
  <2>2. d \in D /\ \A j \in D : j <= d
    BY <2>1, HighestBit
  <2>3. d \in Bits /\ d # Sign
    BY <2>1, <2>2 DEF Xor, Negative, Word
  <2>4. Leq(x, y) <=> d \in y
    BY <1>3, <2>3 DEF Leq
  <2>5. \A k \in Bits : k > d => (k \in x <=> k \in y)
    <3>1. \A k \in Bits : k > d => k \notin D
      BY <2>2, <2>3 DEF Bits
    <3> QED
      BY <3>1 DEF Xor
  <2> HIDE DEF d
  <2>6. CASE d \in y
    <3>1. d \notin x /\ d \notin Not(y)
      BY <2>2, <2>6 DEF Xor, Not
    <3>2. \A j \in x \cap Not(y) : j <= d
      BY <2>3, <2>5 DEF Not, Bits, Word
    <3>3. ~carry
      BY <2>3, <3>1, <3>2 DEF Bits, Sign, Not
    <3> QED
      BY <1>1, <2>4, <2>6, <3>3
  <2>7. CASE d \notin y
    <3>1. d \in x \cap Not(y)
      BY <2>2, <2>3, <2>7 DEF Xor, Not
    <3>2. (d + 1) .. (Sign - 1) \subseteq x \cup Not(y)
      BY <2>3, <2>5 DEF Not, Bits, Sign
    <3>3. carry
      BY <2>3, <3>1, <3>2 DEF Bits, Sign
    <3> QED
      BY <1>1, <2>4, <2>7, <3>3
  <2> QED
    BY <2>6, <2>7
<1> QED
  BY <1>2, <1>3

\* bits.c:324: the comparison survives the overflow of the difference.
THEOREM IsLessOrEqualRight ==
  \A x, y \in Word : isLessOrEqual(x, y) = test_isLessOrEqual(x, y)
<1> SUFFICES ASSUME NEW x \in Word, NEW y \in Word
             PROVE  isLessOrEqual(x, y) = test_isLessOrEqual(x, y)
  OBVIOUS
<1> DEFINE same == Negative(x) <=> Negative(y)
           f == Sar(Xor(x, Not(y)), 31) \cap One
<1>1. Not(y) \in Word /\ Xor(x, Not(y)) \in Word
  BY DEF Not, Xor, Word
<1>2. Negative(Xor(x, Not(y))) <=> same
  BY DEF Negative, Xor, Not, Bits, Sign
<1>3. One \cap Bits = One /\ Lnot(One) = Zero /\ Lnot(Zero) = One
  BY DEF One, Zero, Bits, Lnot, Bool
<1>4. CASE same
  <2>1. f = One
    BY <1>1, <1>2, <1>3, <1>4, SignFills
  <2>2. isLessOrEqual(x, y) = (Zero \cap Sar(x, 31)) \cup (One \cap Sar(Plus(x, Not(y)), 31))
    BY <2>1, <1>3 DEF isLessOrEqual
  <2>3. Sar(Plus(x, Not(y)), 31) = IF Leq(x, y) THEN Bits ELSE Zero
    BY <1>1, <1>4, PlusType, SignFills, CarryReachesSign
  <2> QED
    BY <1>3, <2>2, <2>3 DEF test_isLessOrEqual, Bool, Zero
<1>5. CASE ~same
  <2>1. f = Zero
    BY <1>1, <1>2, <1>5, SignFills DEF Zero
  <2>2. isLessOrEqual(x, y) = (One \cap Sar(x, 31)) \cup (Zero \cap Sar(Plus(x, Not(y)), 31))
    BY <2>1, <1>3 DEF isLessOrEqual
  <2>3. Leq(x, y) <=> Negative(x)
    <3>1. x # y /\ Xor(x, y) \in Word /\ Sign \in Xor(x, y)
      BY <1>5 DEF Negative, Xor, Word
    <3>2. Highest(Xor(x, y)) = Sign
      <4>1. Highest(Xor(x, y)) \in Bits /\ Sign <= Highest(Xor(x, y))
        BY <3>1, HighestBit DEF Zero, Word
      <4> QED
        BY <4>1 DEF Bits, Sign
    <3> QED
      BY <3>1, <3>2 DEF Leq, Negative
  <2>4. Sar(x, 31) = IF Leq(x, y) THEN Bits ELSE Zero
    BY <2>3, SignFills
  <2> QED
    BY <1>3, <2>2, <2>4 DEF test_isLessOrEqual, Bool, Zero
<1> QED
  BY <1>4, <1>5
--------------------------------------------------------------------------
\* A stage of the reversal, on the lower half of the word: each half of a pair
\* of n-bit groups goes to the place of the other.
LEMMA SwappedGroups ==
  ASSUME NEW y \in SUBSET (0 .. 15), NEW low \in SUBSET (0 .. 15), NEW n \in 1 .. 4,
         \A i \in low : i + n \in 0 .. 15,
         \A i \in 0 .. 15 : i \notin low <=> (i >= n /\ i - n \in low)
  PROVE  /\ Swapped(y, low, n) \in SUBSET (0 .. 15)
         /\ \A i \in 0 .. 15 :
              i \in Swapped(y, low, n) <=> (IF i \in low THEN i + n ELSE i - n) \in y
<1>1. \A i : i \in Shl(y, n) <=> i \in Bits /\ i - n \in y
  BY DEF Shl
<1>2. \A i : i \in Shl(low, n) <=> i \in Bits /\ i - n \in low
  BY DEF Shl
<1>3. \A i \in low : i \in Sar(y, n) <=> i + n \in y
  BY DEF Sar, Bits, Sign
<1>4. \A i : i \in Swapped(y, low, n)
               <=> \/ i \in Bits /\ i - n \in y /\ i - n \in low
                   \/ i \in low /\ i + n \in y
  BY <1>1, <1>2, <1>3 DEF Swapped
<1>5. \A i \in Bits : i - n \in low => i \in 0 .. 15 /\ i \notin low
  BY DEF Bits
<1>6. Swapped(y, low, n) \in SUBSET (0 .. 15)
  BY <1>4, <1>5
<1>7. ASSUME NEW i \in low
      PROVE  i \in Swapped(y, low, n) <=> i + n \in y
  <2>1. i \in Bits /\ i - n \notin low
    BY <1>5 DEF Bits
  <2> QED
    BY <1>4, <2>1
<1>8. ASSUME NEW i \in 0 .. 15, i \notin low
      PROVE  i \in Swapped(y, low, n) <=> i - n \in y
  <2>1. i \in Bits /\ i - n \in low
    BY <1>8 DEF Bits
  <2> QED
    BY <1>4, <1>8, <2>1
<1> QED
  BY <1>6, <1>7, <1>8

\* bits.c:240: four swaps reverse the lower half, which must then be the upper.
THEOREM PalindromeRight == \A x \in Word : palindrome(x) = test_palindrome(x)
<1> SUFFICES ASSUME NEW x \in Word
             PROVE  palindrome(x) = test_palindrome(x)
  OBVIOUS
<1> DEFINE z  == Sar(x, 16) \cap 0 .. 15
           y1 == (Shl(x, 8) \cap 8 .. 15) \cup (Sar(x, 8) \cap 0 .. 7)
           y2 == Swapped(y1, 0 .. 3 \cup 8 .. 11, 4)
           y3 == Swapped(y2, {0, 1, 4, 5, 8, 9, 12, 13}, 2)
           y4 == Swapped(y3, {0, 2, 4, 6, 8, 10, 12, 14}, 1)
<1>1. /\ y1 \in SUBSET (0 .. 15)
      /\ \A i \in 0 .. 15 : i \in y1 <=> (IF i < 8 THEN i + 8 ELSE i - 8) \in x
  BY DEF Shl, Sar, Bits, Sign
<1>z. z \in SUBSET (0 .. 15) /\ \A i \in 0 .. 15 : i \in z <=> i + 16 \in x
  BY DEF Sar, Bits, Sign
<1>0. palindrome(x) = Lnot(Xor(y4, z))
  BY DEF palindrome
<1> HIDE DEF y1, z
<1>2. /\ y2 \in SUBSET (0 .. 15)
      /\ \A i \in 0 .. 15 : i \in y2 <=> (IF i \in 0 .. 3 \cup 8 .. 11 THEN i + 4 ELSE i - 4) \in y1
  BY <1>1, SwappedGroups
<1> HIDE DEF y2
<1>3. /\ y3 \in SUBSET (0 .. 15)
      /\ \A i \in 0 .. 15 : i \in y3 <=> (IF i \in {0, 1, 4, 5, 8, 9, 12, 13} THEN i + 2 ELSE i - 2) \in y2
  BY <1>2, SwappedGroups
<1> HIDE DEF y3
<1>4. /\ y4 \in SUBSET (0 .. 15)
      /\ \A i \in 0 .. 15 : i \in y4 <=> (IF i \in {0, 2, 4, 6, 8, 10, 12, 14} THEN i + 1 ELSE i - 1) \in y3
  BY <1>3, SwappedGroups
<1> HIDE DEF y4
<1>5. \A i \in 0 .. 15 : i \in y4 <=> 15 - i \in x
  <2>1. /\ 0 \in y4 <=> 15 \in x
        /\ 1 \in y4 <=> 14 \in x
        /\ 2 \in y4 <=> 13 \in x
        /\ 3 \in y4 <=> 12 \in x
    BY <1>1, <1>2, <1>3, <1>4
  <2>2. /\ 4 \in y4 <=> 11 \in x
        /\ 5 \in y4 <=> 10 \in x
        /\ 6 \in y4 <=> 9 \in x
        /\ 7 \in y4 <=> 8 \in x
    BY <1>1, <1>2, <1>3, <1>4
  <2>3. /\ 8 \in y4 <=> 7 \in x
        /\ 9 \in y4 <=> 6 \in x
        /\ 10 \in y4 <=> 5 \in x
        /\ 11 \in y4 <=> 4 \in x
    BY <1>1, <1>2, <1>3, <1>4
  <2>4. /\ 12 \in y4 <=> 3 \in x
        /\ 13 \in y4 <=> 2 \in x
        /\ 14 \in y4 <=> 1 \in x
        /\ 15 \in y4 <=> 0 \in x
    BY <1>1, <1>2, <1>3, <1>4
  <2> QED
    BY <2>1, <2>2, <2>3, <2>4
<1>6. Xor(y4, z) = Zero <=> \A i \in 0 .. 15 : i \in y4 <=> i \in z
  BY <1>z, <1>4 DEF Xor, Zero
<1>7. (\A i \in 0 .. 15 : i \in y4 <=> i \in z) <=> (\A i \in 0 .. 15 : 15 - i \in x <=> i + 16 \in x)
  BY <1>z, <1>5
<1>8. (\A i \in 0 .. 15 : 15 - i \in x <=> i + 16 \in x) <=> (\A i \in 0 .. 15 : i \in x <=> 31 - i \in x)
  <2>1. ASSUME \A i \in 0 .. 15 : 15 - i \in x <=> i + 16 \in x, NEW i \in 0 .. 15
        PROVE  i \in x <=> 31 - i \in x
    <3> DEFINE k == 15 - i
    <3>1. k \in 0 .. 15 /\ 15 - k = i /\ k + 16 = 31 - i
      OBVIOUS
    <3> QED
      BY <2>1, <3>1
  <2>2. ASSUME \A i \in 0 .. 15 : i \in x <=> 31 - i \in x, NEW i \in 0 .. 15
        PROVE  15 - i \in x <=> i + 16 \in x
    <3> DEFINE k == 15 - i
    <3>1. k \in 0 .. 15 /\ 31 - k = i + 16
      OBVIOUS
    <3> QED
      BY <2>2, <3>1
  <2> QED
    BY <2>1, <2>2
<1> QED
  BY <1>0, <1>6, <1>7, <1>8 DEF test_palindrome, Lnot, Bool

--------------------------------------------------------------------------
\* Whatever holds at the lowest position and passes from each to the next one
\* holds at all of them.
LEMMA Upwards ==
  ASSUME NEW n \in Nat, NEW S, 0 \in S, \A i \in 0 .. (n - 1) : i \in S => i + 1 \in S
  PROVE  0 .. n \subseteq S
<1> DEFINE D == {i \in Nat : i \in 0 .. n /\ i \notin S}
<1> SUFFICES ASSUME D # {} PROVE FALSE
  OBVIOUS
<1>1. PICK i \in D : \A j \in D : ~ (<<j, i>> \in OpToRel(<, Nat))
  BY NatLessThanWellFounded, WFMin
<1>2. i \in 0 .. n /\ i \notin S /\ i # 0
  OBVIOUS
<1>3. i - 1 \in 0 .. (n - 1) /\ i - 1 < i /\ (i - 1) + 1 = i
  BY <1>2
<1>4. <<i - 1, i>> \in OpToRel(<, Nat)
  BY <1>2, <1>3 DEF OpToRel
<1>5. i - 1 \notin D
  BY <1>1, <1>4
<1>6. i - 1 \in S
  BY <1>2, <1>3, <1>5
<1> QED
  BY <1>2, <1>3, <1>6

\* The carry into position i.
Carry(x, y, i) == \E j \in x \cap y : j < i /\ (j + 1) .. (i - 1) \subseteq x \cup y

\* No carry comes into the lowest position; into the next one of i comes one if two of
\* the three that meet in i are set.
LEMMA CarryStep ==
  ASSUME NEW x \in SUBSET Nat, NEW y \in SUBSET Nat
  PROVE  /\ ~Carry(x, y, 0)
         /\ \A i \in Nat : Carry(x, y, i + 1) <=> \/ i \in x /\ i \in y
                                                  \/ (i \in x \/ i \in y) /\ Carry(x, y, i)
<1>1. ~Carry(x, y, 0)
  BY DEF Carry
<1>2. ASSUME NEW i \in Nat, Carry(x, y, i + 1), ~(i \in x /\ i \in y)
      PROVE  (i \in x \/ i \in y) /\ Carry(x, y, i)
  <2>1. PICK j \in x \cap y : j < i + 1 /\ (j + 1) .. ((i + 1) - 1) \subseteq x \cup y
    BY <1>2 DEF Carry
  <2>2. j \in Nat /\ j # i /\ j < i /\ i \in (j + 1) .. ((i + 1) - 1)
    BY <1>2, <2>1
  <2>3. (j + 1) .. (i - 1) \subseteq x \cup y
    BY <2>1, <2>2
  <2> QED
    BY <2>1, <2>2, <2>3 DEF Carry
<1>3. ASSUME NEW i \in Nat, i \in x /\ i \in y
      PROVE  Carry(x, y, i + 1)
  <2>1. i \in x \cap y /\ i < i + 1 /\ (i + 1) .. ((i + 1) - 1) = {}
    BY <1>3
  <2> QED
    BY <2>1 DEF Carry
<1>4. ASSUME NEW i \in Nat, i \in x \/ i \in y, Carry(x, y, i)
      PROVE  Carry(x, y, i + 1)
  <2>1. PICK j \in x \cap y : j < i /\ (j + 1) .. (i - 1) \subseteq x \cup y
    BY <1>4 DEF Carry
  <2>2. j < i + 1 /\ (j + 1) .. ((i + 1) - 1) \subseteq x \cup y
    BY <1>4, <2>1
  <2> QED
    BY <2>1, <2>2 DEF Carry
<1> QED
  BY <1>1, <1>2, <1>3, <1>4

\* A position of a sum.
LEMMA SumBit ==
  ASSUME NEW P, NEW x, NEW y, NEW i \in P
  PROVE  i \in SumIn(P, x, y) <=> (Carry(x, y, i) <=> (i \in x <=> i \in y))
<1> DEFINE C == {k \in P : Carry(x, y, k)}
<1>1. SumIn(P, x, y) = Xor(Xor(x, y), C)
  BY DEF SumIn, Carry
<1>2. i \in C <=> Carry(x, y, i)
  OBVIOUS
<1> HIDE DEF C
<1>3. i \in Xor(Xor(x, y), C) <=> (i \in C <=> (i \in x <=> i \in y))
  BY DEF Xor
<1> QED
  BY <1>1, <1>2, <1>3

\* Arithmetic yields words.
LEMMA WordTypes ==
  /\ TMin \in Word /\ TMax \in Word /\ One \in Word
  /\ \A n : FromNat(n) \in Word
  /\ \A x \in Word : Neg(x) \in Word
  /\ \A x, y \in Word : Minus(x, y) \in Word
<1>1. TMin \in Word /\ TMax \in Word /\ One \in Word /\ \A x : Not(x) \in Word
  BY DEF TMin, TMax, One, Word, Bits, Sign, Not
<1>2. \A n : FromNat(n) \in Word
  BY DEF FromNat, Word, Bits
<1>3. \A x \in Word : Neg(x) \in Word
  BY <1>1, PlusType DEF Neg
<1>4. \A x, y \in Word : Minus(x, y) \in Word
  BY <1>3, PlusType DEF Minus
<1> QED
  BY <1>1, <1>2, <1>3, <1>4

--------------------------------------------------------------------------
\* The powers of 2 up to a byte.
LEMMA Powers ==
  \A i \in 0 .. 30 : /\ Pow2[i] \in Nat
                     /\ i = 0 => Pow2[i] = 1
                     /\ i = 1 => Pow2[i] = 2
                     /\ i = 2 => Pow2[i] = 4
                     /\ i = 3 => Pow2[i] = 8
                     /\ i = 4 => Pow2[i] = 16
                     /\ i = 5 => Pow2[i] = 32
                     /\ i = 6 => Pow2[i] = 64
                     /\ i = 7 => Pow2[i] = 128
                     /\ i >= 8 => Pow2[i] >= 256
<1> SUFFICES ASSUME NEW i \in 0 .. 30
             PROVE  /\ Pow2[i] \in Nat
                    /\ i = 0 => Pow2[i] = 1
                    /\ i = 1 => Pow2[i] = 2
                    /\ i = 2 => Pow2[i] = 4
                    /\ i = 3 => Pow2[i] = 8
                    /\ i = 4 => Pow2[i] = 16
                    /\ i = 5 => Pow2[i] = 32
                    /\ i = 6 => Pow2[i] = 64
                    /\ i = 7 => Pow2[i] = 128
                    /\ i >= 8 => Pow2[i] >= 256
  OBVIOUS
<1>1. i = 0 => Pow2[i] = 1
  BY DEF Pow2
<1>2. i = 1 => Pow2[i] = 2
  BY DEF Pow2
<1>3. i = 2 => Pow2[i] = 4
  BY DEF Pow2
<1>4. i = 3 => Pow2[i] = 8
  BY DEF Pow2
<1>5. i = 4 => Pow2[i] = 16
  BY DEF Pow2
<1>6. i = 5 => Pow2[i] = 32
  BY DEF Pow2
<1>7. i = 6 => Pow2[i] = 64
  BY DEF Pow2
<1>8. i = 7 => Pow2[i] = 128
  BY DEF Pow2
<1>9. i = 8 => Pow2[i] = 256
  BY DEF Pow2
<1>10. i = 9 => Pow2[i] = 512
  BY DEF Pow2
<1>11. i = 10 => Pow2[i] = 1024
  BY DEF Pow2
<1>12. i = 11 => Pow2[i] = 2048
  BY DEF Pow2
<1>13. i = 12 => Pow2[i] = 4096
  BY DEF Pow2
<1>14. i = 13 => Pow2[i] = 8192
  BY DEF Pow2
<1>15. i = 14 => Pow2[i] = 16384
  BY DEF Pow2
<1>16. i = 15 => Pow2[i] = 32768
  BY DEF Pow2
<1>17. i = 16 => Pow2[i] = 65536
  BY DEF Pow2
<1>18. i = 17 => Pow2[i] = 131072
  BY DEF Pow2
<1>19. i = 18 => Pow2[i] = 262144
  BY DEF Pow2
<1>20. i = 19 => Pow2[i] = 524288
  BY DEF Pow2
<1>21. i = 20 => Pow2[i] = 1048576
  BY DEF Pow2
<1>22. i = 21 => Pow2[i] = 2097152
  BY DEF Pow2
<1>23. i = 22 => Pow2[i] = 4194304
  BY DEF Pow2
<1>24. i = 23 => Pow2[i] = 8388608
  BY DEF Pow2
<1>25. i = 24 => Pow2[i] = 16777216
  BY DEF Pow2
<1>26. i = 25 => Pow2[i] = 33554432
  BY DEF Pow2
<1>27. i = 26 => Pow2[i] = 67108864
  BY DEF Pow2
<1>28. i = 27 => Pow2[i] = 134217728
  BY DEF Pow2
<1>29. i = 28 => Pow2[i] = 268435456
  BY DEF Pow2
<1>30. i = 29 => Pow2[i] = 536870912
  BY DEF Pow2
<1>31. i = 30 => Pow2[i] = 1073741824
  BY DEF Pow2
<1> QED
  BY <1>1, <1>2, <1>3, <1>4, <1>5, <1>6, <1>7, <1>8, <1>9, <1>10, <1>11, <1>12, <1>13, <1>14, <1>15, <1>16,
     <1>17, <1>18, <1>19, <1>20, <1>21, <1>22, <1>23, <1>24, <1>25, <1>26, <1>27, <1>28, <1>29, <1>30, <1>31

\* The word of a number of eight bits, bit by bit.
LEMMA EightBits ==
  ASSUME NEW n \in 0 .. 255
  PROVE  FromNat(n) = {i \in 0 .. 7 : \/ i = 0 /\ (n \div 1) % 2 = 1
                                      \/ i = 1 /\ (n \div 2) % 2 = 1
                                      \/ i = 2 /\ (n \div 4) % 2 = 1
                                      \/ i = 3 /\ (n \div 8) % 2 = 1
                                      \/ i = 4 /\ (n \div 16) % 2 = 1
                                      \/ i = 5 /\ (n \div 32) % 2 = 1
                                      \/ i = 6 /\ (n \div 64) % 2 = 1
                                      \/ i = 7 /\ (n \div 128) % 2 = 1}
<1> DEFINE F == {i \in 0 .. 7 : \/ i = 0 /\ (n \div 1) % 2 = 1
                                \/ i = 1 /\ (n \div 2) % 2 = 1
                                \/ i = 2 /\ (n \div 4) % 2 = 1
                                \/ i = 3 /\ (n \div 8) % 2 = 1
                                \/ i = 4 /\ (n \div 16) % 2 = 1
                                \/ i = 5 /\ (n \div 32) % 2 = 1
                                \/ i = 6 /\ (n \div 64) % 2 = 1
                                \/ i = 7 /\ (n \div 128) % 2 = 1}
<1>1. ASSUME NEW i \in 8 .. 30
      PROVE  ~((n \div Pow2[i]) % 2 = 1)
  <2> DEFINE p == Pow2[i]
  <2>1. p \in Nat /\ p >= 256
    <3>1. i \in 0 .. 30 /\ i >= 8
      OBVIOUS
    <3> QED
      BY <3>1, Powers
  <2> HIDE DEF p
  <2>2. n \div p = 0
    BY <2>1
  <2> QED
    BY <2>2 DEF p
<1>2. \A i \in 0 .. 7 : i \in F <=> (n \div Pow2[i]) % 2 = 1
  <2>1. \A i \in 0 .. 7 : i = 0 \/ i = 1 \/ i = 2 \/ i = 3 \/ i = 4 \/ i = 5 \/ i = 6 \/ i = 7
    OBVIOUS
  <2> QED
    BY <2>1, Powers
<1>3. F \subseteq 0 .. 7 /\ \A i \in 0 .. 30 : i \in 0 .. 7 \/ i \in 8 .. 30
  OBVIOUS
<1> HIDE DEF F
<1>4. \A i \in 0 .. 30 : i \in F <=> (n \div Pow2[i]) % 2 = 1
  BY <1>1, <1>2, <1>3
<1>5. F = {i \in 0 .. 30 : i \in F}
  <2>1. F \subseteq 0 .. 30
    BY <1>3
  <2> QED
    BY <2>1
<1>6. FromNat(n) = F
  BY <1>4, <1>5 DEF FromNat
<1> QED
  BY <1>6 DEF F

\* Numbers of eight bits and their words correspond.
LEMMA NumberFrom ==
  ASSUME NEW n \in 0 .. 255
  PROVE  FromNat(n) \in SUBSET (0 .. 7) /\ Number(FromNat(n)) = n
<1>1. FromNat(n) \in SUBSET (0 .. 7)
  BY EightBits
<1> DEFINE d(k) == IF k \in FromNat(n) THEN 1 ELSE 0
<1>2. /\ d(0) = n % 2 /\ d(1) = (n \div 2) % 2 /\ d(2) = (n \div 4) % 2 /\ d(3) = (n \div 8) % 2
      /\ d(4) = (n \div 16) % 2 /\ d(5) = (n \div 32) % 2 /\ d(6) = (n \div 64) % 2 /\ d(7) = (n \div 128) % 2
  BY EightBits
<1>3. Number(FromNat(n)) = d(0) + 2 * d(1) + 4 * d(2) + 8 * d(3) + 16 * d(4) + 32 * d(5) + 64 * d(6) + 128 * d(7)
  BY DEF Number
<1> HIDE DEF d
<1>4. Number(FromNat(n)) = n
  <2>1. (n % 2) + 2 * ((n \div 2) % 2) + 4 * ((n \div 4) % 2) + 8 * ((n \div 8) % 2) + 16 * ((n \div 16) % 2)
          + 32 * ((n \div 32) % 2) + 64 * ((n \div 64) % 2) + 128 * ((n \div 128) % 2) = n
    OBVIOUS
  <2> QED
    BY <1>2, <1>3, <2>1
<1> QED
  BY <1>1, <1>4

\* A word's number has eight bits.
LEMMA NumberRange == \A x : Number(x) \in 0 .. 255
BY DEF Number

\* The word of its number is the word, if it has eight bits.
LEMMA FromNumber ==
  ASSUME NEW x \in SUBSET (0 .. 7)
  PROVE  FromNat(Number(x)) = x
<1> DEFINE n == Number(x)
<1>1. n \in 0 .. 255
  BY NumberRange
<1>2. /\ ((n \div 1) % 2 = 1) <=> 0 \in x
      /\ ((n \div 2) % 2 = 1) <=> 1 \in x
      /\ ((n \div 4) % 2 = 1) <=> 2 \in x
      /\ ((n \div 8) % 2 = 1) <=> 3 \in x
      /\ ((n \div 16) % 2 = 1) <=> 4 \in x
      /\ ((n \div 32) % 2 = 1) <=> 5 \in x
      /\ ((n \div 64) % 2 = 1) <=> 6 \in x
      /\ ((n \div 128) % 2 = 1) <=> 7 \in x
  BY DEF Number
<1> HIDE DEF n
<1>3. \A i \in 0 .. 7 : i = 0 \/ i = 1 \/ i = 2 \/ i = 3 \/ i = 4 \/ i = 5 \/ i = 6 \/ i = 7
  OBVIOUS
<1>4. FromNat(n) = {i \in 0 .. 7 : i \in x}
  BY <1>1, <1>2, <1>3, EightBits
<1> QED
  BY <1>4 DEF n

\* Words of five and of four bits.
LEMMA Narrow ==
  /\ \A n \in 0 .. 31 : FromNat(n) \in SUBSET (0 .. 4)
  /\ \A n \in 0 .. 15 : FromNat(n) \in SUBSET (0 .. 3)
  /\ \A x \in SUBSET (0 .. 4) : Number(x) \in 0 .. 31
<1>1. ASSUME NEW n \in 0 .. 31
      PROVE  FromNat(n) \in SUBSET (0 .. 4) /\ (n <= 15 => FromNat(n) \in SUBSET (0 .. 3))
  <2>1. n \in 0 .. 255 /\ n \div 32 = 0 /\ n \div 64 = 0 /\ n \div 128 = 0 /\ (n <= 15 => n \div 16 = 0)
    OBVIOUS
  <2>2. 5 \notin FromNat(n) /\ 6 \notin FromNat(n) /\ 7 \notin FromNat(n) /\ (n <= 15 => 4 \notin FromNat(n))
    BY <2>1, EightBits
  <2> QED
    BY <2>1, <2>2, NumberFrom
<1>2. \A x \in SUBSET (0 .. 4) : Number(x) \in 0 .. 31
  BY DEF Number
<1> QED
  BY <1>1, <1>2

\* A bit as a number.
Digit(x, i) == IF i \in x THEN 1 ELSE 0
\* The number in the four positions from p on.
Nibble(x, p) == Digit(x, p) + 2 * Digit(x, p + 1) + 4 * Digit(x, p + 2) + 8 * Digit(x, p + 3)

\* What meets in a position of a sum is its bit there and the carry into the next one.
LEMMA Adder ==
  ASSUME NEW x \in Word, NEW y \in Word, NEW i \in Bits
  PROVE  Digit(Plus(x, y), i) + 2 * (IF Carry(x, y, i + 1) THEN 1 ELSE 0)
           = Digit(x, i) + Digit(y, i) + (IF Carry(x, y, i) THEN 1 ELSE 0)
<1>1. i \in Nat /\ x \in SUBSET Nat /\ y \in SUBSET Nat
  BY DEF Bits, Word
<1>2. i \in Plus(x, y) <=> (Carry(x, y, i) <=> (i \in x <=> i \in y))
  BY SumBit DEF Plus
<1>3. Carry(x, y, i + 1) <=> \/ i \in x /\ i \in y
                             \/ (i \in x \/ i \in y) /\ Carry(x, y, i)
  BY <1>1, CarryStep
<1> QED
  BY <1>2, <1>3 DEF Digit

\* Four positions are added as numbers when no carry comes into them and the sum
\* has four bits.
LEMMA NibbleSum ==
  ASSUME NEW x \in Word, NEW y \in Word, NEW p \in Bits, p + 3 \in Bits, ~Carry(x, y, p),
         Nibble(x, p) + Nibble(y, p) < 16
  PROVE  Nibble(Plus(x, y), p) = Nibble(x, p) + Nibble(y, p) /\ ~Carry(x, y, p + 4)
<1> DEFINE c(i) == IF Carry(x, y, i) THEN 1 ELSE 0
           s == Plus(x, y)
<1>1. p \in Bits /\ p + 1 \in Bits /\ p + 2 \in Bits /\ p + 3 \in Bits
  BY DEF Bits
<1>2. (p + 1) + 1 = p + 2 /\ (p + 2) + 1 = p + 3 /\ (p + 3) + 1 = p + 4
  BY DEF Bits
<1>3. Digit(s, p) + 2 * c(p + 1) = Digit(x, p) + Digit(y, p) + c(p)
  BY <1>1, Adder
<1>4. Digit(s, p + 1) + 2 * c(p + 2) = Digit(x, p + 1) + Digit(y, p + 1) + c(p + 1)
  BY <1>1, <1>2, Adder
<1>5. Digit(s, p + 2) + 2 * c(p + 3) = Digit(x, p + 2) + Digit(y, p + 2) + c(p + 2)
  BY <1>1, <1>2, Adder
<1>6. Digit(s, p + 3) + 2 * c(p + 4) = Digit(x, p + 3) + Digit(y, p + 3) + c(p + 3)
  BY <1>1, <1>2, Adder
<1>7. c(p) = 0
  OBVIOUS
<1>8. \A z, i : Digit(z, i) \in 0 .. 1
  BY DEF Digit
<1>9. /\ c(p + 1) \in 0 .. 1 /\ c(p + 2) \in 0 .. 1 /\ c(p + 3) \in 0 .. 1 /\ c(p + 4) \in 0 .. 1
      /\ c(p + 4) = 0 => ~Carry(x, y, p + 4)
  OBVIOUS
<1> HIDE DEF c, s
<1>10. Nibble(s, p) + 16 * c(p + 4) = Nibble(x, p) + Nibble(y, p)
  BY <1>3, <1>4, <1>5, <1>6, <1>7, <1>8, <1>9 DEF Nibble
<1>11. Nibble(s, p) \in Nat /\ Nibble(x, p) \in Nat /\ Nibble(y, p) \in Nat
  <2>1. \A k, l, m, n \in 0 .. 1 : k + 2 * l + 4 * m + 8 * n \in Nat
    OBVIOUS
  <2> QED
    BY <1>8, <2>1 DEF Nibble
<1>12. c(p + 4) = 0
  BY <1>9, <1>10, <1>11
<1> QED
  BY <1>9, <1>10, <1>11, <1>12 DEF s

--------------------------------------------------------------------------
\* The four lowest positions of a sum, and the carries into them.
LEMMA LowBits ==
  ASSUME NEW x \in Word, NEW y \in Word
  PROVE  /\ \A i \in 0 .. 3 : i \in Plus(x, y) <=> (Carry(x, y, i) <=> (i \in x <=> i \in y))
         /\ ~Carry(x, y, 0)
         /\ Carry(x, y, 1) <=> 0 \in x /\ 0 \in y
         /\ Carry(x, y, 2) <=> (1 \in x /\ 1 \in y) \/ ((1 \in x \/ 1 \in y) /\ Carry(x, y, 1))
         /\ Carry(x, y, 3) <=> (2 \in x /\ 2 \in y) \/ ((2 \in x \/ 2 \in y) /\ Carry(x, y, 2))
         /\ Carry(x, y, 4) <=> (3 \in x /\ 3 \in y) \/ ((3 \in x \/ 3 \in y) /\ Carry(x, y, 3))
<1>1. x \in SUBSET Nat /\ y \in SUBSET Nat
  BY DEF Word, Bits
<1>2. \A i \in 0 .. 3 : i \in Plus(x, y) <=> (Carry(x, y, i) <=> (i \in x <=> i \in y))
  BY SumBit DEF Plus, Bits
<1>3. Carry(x, y, 0 + 1) <=> (0 \in x /\ 0 \in y) \/ ((0 \in x \/ 0 \in y) /\ Carry(x, y, 0))
  BY <1>1, CarryStep
<1>4. Carry(x, y, 1 + 1) <=> (1 \in x /\ 1 \in y) \/ ((1 \in x \/ 1 \in y) /\ Carry(x, y, 1))
  BY <1>1, CarryStep
<1>5. Carry(x, y, 2 + 1) <=> (2 \in x /\ 2 \in y) \/ ((2 \in x \/ 2 \in y) /\ Carry(x, y, 2))
  BY <1>1, CarryStep
<1>6. Carry(x, y, 3 + 1) <=> (3 \in x /\ 3 \in y) \/ ((3 \in x \/ 3 \in y) /\ Carry(x, y, 3))
  BY <1>1, CarryStep
<1>7. ~Carry(x, y, 0)
  BY <1>1, CarryStep
<1>8. 0 + 1 = 1 /\ 1 + 1 = 2 /\ 2 + 1 = 3 /\ 3 + 1 = 4
  OBVIOUS
<1> QED
  BY <1>2, <1>3, <1>4, <1>5, <1>6, <1>7, <1>8

\* bits.c:306: the borrows of a subtraction of four bits, each from the one before it.
THEOREM FullSubRight == \A x, y \in SUBSET (0 .. 3) : fullSub(x, y) = test_fullSub(x, y)
<1> SUFFICES ASSUME NEW x \in SUBSET (0 .. 3), NEW y \in SUBSET (0 .. 3)
             PROVE  fullSub(x, y) = test_fullSub(x, y)
  OBVIOUS
<1> DEFINE n == Not(y)
           z == Plus(n, One)
           m1 == Shl(Not(x) \cap y, 1)
           m2 == Not(x) \cup y
           m3 == m1 \cup Shl(m2 \cap m1, 1)
           m4 == m3 \cup Shl(m2 \cap m3, 1)
<1>1. x \in Word /\ y \in Word /\ n \in Word /\ One \in Word
  BY DEF Word, Bits, Not, One
<1>2. z \in Word
  BY <1>1, PlusType
<1>3. \A i \in 0 .. 3 : i \in n <=> i \notin y
  BY DEF Not, Bits
<1>4. 0 \in One /\ 1 \notin One /\ 2 \notin One /\ 3 \notin One
  BY DEF One
<1>5. \A i \in 0 .. 3 : i \in Not(x) <=> i \notin x
  BY DEF Not, Bits
<1>6. \A w : 0 \in Shl(w, 1) <=> -1 \in w
  BY DEF Shl, Bits
<1>7. \A w : /\ 1 \in Shl(w, 1) <=> 0 \in w
             /\ 2 \in Shl(w, 1) <=> 1 \in w
             /\ 3 \in Shl(w, 1) <=> 2 \in w
  BY DEF Shl, Bits
<1>8. -1 \notin Not(x) /\ -1 \notin y /\ -1 \notin x
  BY DEF Not, Bits
<1>9. /\ 0 \notin m1
      /\ 1 \in m1 <=> 0 \notin x /\ 0 \in y
      /\ 2 \in m1 <=> 1 \notin x /\ 1 \in y
      /\ 3 \in m1 <=> 2 \notin x /\ 2 \in y
  BY <1>5, <1>6, <1>7, <1>8
<1>10. -1 \notin m2 /\ (0 \in m2 <=> (0 \notin x \/ 0 \in y)) /\ (1 \in m2 <=> (1 \notin x \/ 1 \in y)) /\ (2 \in m2 <=> (2 \notin x \/ 2 \in y))
  BY <1>5, <1>8
<1> HIDE DEF m1, m2
<1>11. /\ 0 \notin m3
       /\ 1 \in m3 <=> 1 \in m1
       /\ 2 \in m3 <=> 2 \in m1 \/ (1 \in m2 /\ 1 \in m1)
       /\ 3 \in m3 <=> 3 \in m1 \/ (2 \in m2 /\ 2 \in m1)
  BY <1>6, <1>7, <1>9, <1>10
<1> HIDE DEF m3
<1>12. /\ 0 \notin m4
       /\ 1 \in m4 <=> 1 \in m3
       /\ 2 \in m4 <=> 2 \in m3 \/ (1 \in m2 /\ 1 \in m3)
       /\ 3 \in m4 <=> 3 \in m3 \/ (2 \in m2 /\ 2 \in m3)
  BY <1>6, <1>7, <1>10, <1>11
<1> HIDE DEF m4
<1>13. fullSub(x, y) = Xor(Xor(x, y), m4 \cap 0 .. 3)
  BY DEF fullSub, m4, m3, m2, m1
<1>14. fullSub(x, y) \subseteq 0 .. 3
  BY <1>13 DEF Xor
<1>15. test_fullSub(x, y) = Plus(x, z) \cap 0 .. 3
  BY DEF test_fullSub, Minus, Neg
<1>16. \A i \in 0 .. 3 : i \in fullSub(x, y) <=> (i \in m4 <=> (i \in x <=> i \in y))
  BY <1>13 DEF Xor
<1> HIDE DEF n, z
<1>17. /\ 0 \in z <=> 0 \in y
       /\ 1 \in z <=> (1 \in y <=> 0 \notin y)
       /\ 2 \in z <=> (2 \in y <=> (0 \notin y /\ 1 \notin y))
       /\ 3 \in z <=> (3 \in y <=> (0 \notin y /\ 1 \notin y /\ 2 \notin y))
  <2>1. \A i \in 0 .. 3 : i \in z <=> (Carry(n, One, i) <=> (i \in n <=> i \in One))
    BY <1>1, LowBits DEF z
  <2>2. /\ ~Carry(n, One, 0)
        /\ Carry(n, One, 1) <=> 0 \in n
        /\ Carry(n, One, 2) <=> 1 \in n /\ Carry(n, One, 1)
        /\ Carry(n, One, 3) <=> 2 \in n /\ Carry(n, One, 2)
    BY <1>1, <1>4, LowBits
  <2> QED
    BY <1>3, <1>4, <2>1, <2>2
<1>18. /\ \A i \in 0 .. 3 : i \in Plus(x, z) <=> (Carry(x, z, i) <=> (i \in x <=> i \in z))
       /\ ~Carry(x, z, 0)
       /\ Carry(x, z, 1) <=> 0 \in x /\ 0 \in z
       /\ Carry(x, z, 2) <=> (1 \in x /\ 1 \in z) \/ ((1 \in x \/ 1 \in z) /\ Carry(x, z, 1))
       /\ Carry(x, z, 3) <=> (2 \in x /\ 2 \in z) \/ ((2 \in x \/ 2 \in z) /\ Carry(x, z, 2))
  BY <1>1, <1>2, LowBits
<1>19. /\ 0 \in Plus(x, z) <=> 0 \in fullSub(x, y)
       /\ 1 \in Plus(x, z) <=> 1 \in fullSub(x, y)
       /\ 2 \in Plus(x, z) <=> 2 \in fullSub(x, y)
       /\ 3 \in Plus(x, z) <=> 3 \in fullSub(x, y)
  BY <1>9, <1>10, <1>11, <1>12, <1>16, <1>17, <1>18
<1>20. \A i \in 0 .. 3 : i = 0 \/ i = 1 \/ i = 2 \/ i = 3
  OBVIOUS
<1> QED
  BY <1>14, <1>15, <1>19, <1>20

\* A sum of four bits stays within them if no carry leaves them.
LEMMA SmallSum ==
  ASSUME NEW x \in SUBSET (0 .. 3), NEW y \in SUBSET (0 .. 3), Nibble(x, 0) + Nibble(y, 0) < 16
  PROVE  Plus(x, y) \in SUBSET (0 .. 3) /\ Nibble(Plus(x, y), 0) = Nibble(x, 0) + Nibble(y, 0)
<1>1. x \in Word /\ y \in Word /\ x \in SUBSET Nat /\ y \in SUBSET Nat /\ 0 \in Bits /\ 0 + 3 \in Bits
  BY DEF Word, Bits
<1>2. ~Carry(x, y, 0)
  BY <1>1, CarryStep
<1>3. Nibble(Plus(x, y), 0) = Nibble(x, 0) + Nibble(y, 0) /\ ~Carry(x, y, 0 + 4)
  BY <1>1, <1>2, NibbleSum
<1>4. \A i \in Bits : i > 3 => ~Carry(x, y, i)
  <2> SUFFICES ASSUME NEW i \in Bits, i > 3, Carry(x, y, i) PROVE FALSE
    OBVIOUS
  <2>1. i # 4
    BY <1>3
  <2>2. PICK j \in x \cap y : j < i /\ (j + 1) .. (i - 1) \subseteq x \cup y
    BY DEF Carry
  <2>3. j \in 0 .. 3 /\ 4 \in (j + 1) .. (i - 1)
    BY <2>1, <2>2 DEF Bits
  <2> QED
    BY <2>2, <2>3
<1>5. \A i \in Bits : i > 3 => i \notin Plus(x, y)
  <2> SUFFICES ASSUME NEW i \in Bits, i > 3 PROVE i \notin Plus(x, y)
    OBVIOUS
  <2>1. i \in Plus(x, y) <=> (Carry(x, y, i) <=> (i \in x <=> i \in y))
    BY SumBit DEF Plus
  <2>2. i \notin x /\ i \notin y
    BY DEF Bits
  <2> QED
    BY <1>4, <2>1, <2>2
<1>6. Plus(x, y) \in Word
  BY <1>1, PlusType
<1>7. Plus(x, y) \in SUBSET (0 .. 3)
  BY <1>5, <1>6 DEF Word, Bits
<1> QED
  BY <1>3, <1>7

\* The number of a word of four bits.
LEMMA NibbleNumber ==
  ASSUME NEW x \in SUBSET (0 .. 3)
  PROVE  Number(x) = Nibble(x, 0) /\ FromNat(Nibble(x, 0)) = x /\ Nibble(x, 0) \in 0 .. 15
<1>1. 0 + 1 = 1 /\ 0 + 2 = 2 /\ 0 + 3 = 3 /\ 4 \notin x /\ 5 \notin x /\ 6 \notin x /\ 7 \notin x
  OBVIOUS
<1>2. Number(x) = Nibble(x, 0)
  BY <1>1 DEF Number, Nibble, Digit
<1>3. x \in SUBSET (0 .. 4)
  OBVIOUS
<1>4. FromNat(Number(x)) = x
  <2>1. x \in SUBSET (0 .. 7)
    OBVIOUS
  <2> QED
    BY <2>1, FromNumber
<1>5. Nibble(x, 0) \in 0 .. 15
  BY <1>1 DEF Nibble, Digit
<1> QED
  BY <1>2, <1>4, <1>5

\* bits.c:290: one more, and from five back to one, which the sum with 2 tells by its
\* fourth bit.
THEOREM Counter1To5Right ==
  \A n \in 1 .. 5 : counter1To5(FromNat(n)) = test_counter1To5(FromNat(n))
<1> SUFFICES ASSUME NEW n \in 1 .. 5
             PROVE  counter1To5(FromNat(n)) = test_counter1To5(FromNat(n))
  OBVIOUS
<1> DEFINE x == FromNat(n)
           re == Plus(x, One)
           more == Plus(re, {1})
           sgn == Sar(more, 3)
<1>1. x \in SUBSET (0 .. 3) /\ Number(x) = n
  <2>1. n \in 0 .. 255 /\ n \in 0 .. 15
    OBVIOUS
  <2> QED
    BY <2>1, NumberFrom, Narrow
<1>2. counter1To5(x) = Sar(re, Number(Shl(sgn, 4))) \cup sgn
  BY DEF counter1To5
<1>3. test_counter1To5(x) = FromNat((n % 5) + 1)
  BY <1>1 DEF test_counter1To5
<1> HIDE DEF x, re, more, sgn
<1>4. Nibble(x, 0) = n
  BY <1>1, NibbleNumber
<1>5. One \in SUBSET (0 .. 3) /\ Nibble(One, 0) = 1 /\ {1} \in SUBSET (0 .. 3) /\ Nibble({1}, 0) = 2
  <2>1. One \in SUBSET (0 .. 3) /\ {1} \in SUBSET (0 .. 3)
    BY DEF One
  <2>2. Nibble(One, 0) = 1 /\ Nibble({1}, 0) = 2
    BY DEF One, Nibble, Digit
  <2> QED
    BY <2>1, <2>2
<1>6. re \in SUBSET (0 .. 3) /\ Nibble(re, 0) = n + 1
  BY <1>1, <1>4, <1>5, SmallSum DEF re
<1>7. more \in SUBSET (0 .. 3) /\ Nibble(more, 0) = n + 3
  BY <1>5, <1>6, SmallSum DEF more
<1>8. 3 \in more <=> n = 5
  <2>1. Nibble(more, 0) = Digit(more, 0) + 2 * Digit(more, 1) + 4 * Digit(more, 2) + 8 * Digit(more, 3)
    BY DEF Nibble
  <2>2. Digit(more, 3) = IF 3 \in more THEN 1 ELSE 0
    BY DEF Digit
  <2>3. \A i : Digit(more, i) \in 0 .. 1
    BY DEF Digit
  <2> QED
    BY <1>7, <2>1, <2>2, <2>3
<1>9. sgn = IF n = 5 THEN {0} ELSE {}
  <2>1. sgn = {i \in Bits : i + 3 \in more}
    <3>1. \A i \in Bits : (IF i + 3 > Sign THEN Sign ELSE i + 3) \in more <=> i + 3 \in more
      BY <1>7 DEF Bits, Sign
    <3> QED
      BY <3>1 DEF sgn, Sar
  <2>2. \A i \in Bits : i + 3 \in more <=> i = 0 /\ 3 \in more
    BY <1>7 DEF Bits
  <2> QED
    BY <1>8, <2>1, <2>2 DEF Bits
<1>10. CASE n = 5
  <2>1. Shl({0}, 4) = {4}
    BY DEF Shl, Bits
  <2>2. Number({4}) = 16
    BY DEF Number
  <2>3. Sar(re, 16) = {}
    BY <1>6 DEF Sar, Bits, Sign
  <2>4. FromNat(1) = {0}
    <3>1. Nibble({0}, 0) = 1 /\ {0} \in SUBSET (0 .. 3)
      BY DEF Nibble, Digit
    <3> QED
      BY <3>1, NibbleNumber
  <2>5. (n % 5) + 1 = 1
    BY <1>10
  <2> QED
    BY <1>2, <1>3, <1>9, <1>10, <2>1, <2>2, <2>3, <2>4, <2>5 DEF x
<1>11. CASE n # 5
  <2>1. Shl({}, 4) = {}
    BY DEF Shl
  <2>2. Number({}) = 0
    BY DEF Number
  <2>3. Sar(re, 0) = re
    <3>1. \A i \in Bits : (IF i + 0 > Sign THEN Sign ELSE i + 0) = i
      BY DEF Bits, Sign
    <3>2. Sar(re, 0) = {i \in Bits : i \in re}
      BY <3>1 DEF Sar
    <3>3. re \subseteq Bits
      BY <1>6 DEF Bits
    <3> QED
      BY <3>2, <3>3
  <2>4. FromNat(n + 1) = re
    BY <1>6, NibbleNumber
  <2>5. (n % 5) + 1 = n + 1
    BY <1>11
  <2> QED
    BY <1>2, <1>3, <1>9, <1>11, <2>1, <2>2, <2>3, <2>4, <2>5 DEF x
<1> QED
  BY <1>10, <1>11

\* bits.c:218: the bits that leave on the right come in on the left, and the sign goes with
\* them instead of filling up.
THEOREM RotateRightRight ==
  \A x \in Word : \A n \in SUBSET (0 .. 4) : rotateRight(x, n) = test_rotateRight(x, n)
<1> SUFFICES ASSUME NEW x \in Word, NEW n \in SUBSET (0 .. 4)
             PROVE  rotateRight(x, n) = test_rotateRight(x, n)
  OBVIOUS
<1> DEFINE sgn == Sar(x, 31) \cap One
           v == Xor(0 .. 4, n)
           rest == Xor(x, Shl(sgn, 31))
           c == Number(n)
<1>1. c \in 0 .. 31 /\ Number(v) = 31 - c
  <2>1. v = (0 .. 4) \ n
    BY DEF Xor
  <2>2. Number((0 .. 4) \ n) = 31 - c
    BY DEF Number
  <2> QED
    BY <2>1, <2>2, Narrow
<1>2. sgn = IF Negative(x) THEN One ELSE Zero
  BY SignFills DEF One, Bits, Zero
<1>3. Shl(sgn, 31) = IF Negative(x) THEN TMin ELSE Zero
  <2>1. Shl(One, 31) = TMin /\ Shl(Zero, 31) = Zero
    BY DEF Shl, One, TMin, Bits, Sign, Zero
  <2> QED
    BY <1>2, <2>1
<1>4. rest = x \ {Sign}
  BY <1>3 DEF Xor, TMin, Negative, Zero
<1>5. rotateRight(x, n) = Shl(sgn \cup Shl(x, 1), 31 - c) \cup Sar(rest, c)
  BY <1>1 DEF rotateRight
<1>6. test_rotateRight(x, n) = {i \in Bits : (i + c) % 32 \in x}
  BY DEF test_rotateRight
<1> HIDE DEF sgn, v, rest, c
<1>7. \A i \in Bits : i \in sgn <=> i = 0 /\ Sign \in x
  BY <1>2 DEF Negative, One, Zero
<1>8. \A i \in Bits : i \in Shl(x, 1) <=> i - 1 \in x
  BY DEF Shl
<1>9. \A i \in Bits : i \in Sar(rest, c) <=> i + c < Sign /\ i + c \in x
  <2>1. \A i \in Bits : i \in Sar(rest, c) <=> (IF i + c > Sign THEN Sign ELSE i + c) \in rest
    BY DEF Sar
  <2>2. \A i \in Bits : i + c \in Int
    BY <1>1 DEF Bits
  <2> QED
    BY <1>1, <1>4, <2>1, <2>2 DEF Bits, Sign
<1>10. \A i \in Bits : i \in Shl(sgn \cup Shl(x, 1), 31 - c) <=> i + c >= Sign /\ (i + c) % 32 \in x
  <2> SUFFICES ASSUME NEW i \in Bits
               PROVE  i \in Shl(sgn \cup Shl(x, 1), 31 - c) <=> i + c >= Sign /\ (i + c) % 32 \in x
    OBVIOUS
  <2> DEFINE k == i - (31 - c)
  <2>1. i \in Shl(sgn \cup Shl(x, 1), 31 - c) <=> k \in sgn \/ k \in Shl(x, 1)
    BY DEF Shl
  <2>2. k \in Int /\ k = (i + c) - 31 /\ k <= 31
    BY <1>1 DEF Bits
  <2>3. CASE i + c < Sign
    <3>1. k \notin Bits
      BY <2>2, <2>3, <1>1 DEF Bits, Sign
    <3>2. k \notin sgn /\ k \notin Shl(x, 1)
      BY <1>2, <3>1 DEF Shl, One, Zero, Bits
    <3> QED
      BY <1>1, <2>1, <2>3, <3>2 DEF Bits, Sign
  <2>4. CASE i + c = Sign
    <3>1. k = 0 /\ (i + c) % 32 = Sign
      BY <2>2, <2>4 DEF Sign
    <3>2. k \in Bits /\ k - 1 \notin x
      BY <3>1 DEF Bits, Word
    <3> QED
      BY <1>7, <1>8, <2>1, <2>4, <3>1, <3>2 DEF Sign
  <2>5. CASE i + c > Sign
    <3>1. k \in Bits /\ k # 0 /\ k - 1 = (i + c) % 32
      BY <1>1, <2>2, <2>5 DEF Sign, Bits
    <3>2. i + c >= Sign
      BY <1>1, <2>5 DEF Sign, Bits
    <3> HIDE DEF k
    <3> QED
      BY <1>7, <1>8, <2>1, <3>1, <3>2
  <2>6. i + c \in Int /\ Sign \in Int
    BY <1>1 DEF Bits, Sign
  <2> HIDE DEF k
  <2> QED
    BY <2>3, <2>4, <2>5, <2>6
<1>11. \A i \in Bits : i + c < Sign => (i + c) % 32 = i + c
  BY <1>1 DEF Bits, Sign
<1>12. \A i \in Bits : i + c < Sign \/ i + c >= Sign
  BY <1>1 DEF Bits, Sign
<1>13. \A i \in Bits : i \in rotateRight(x, n) <=> (i + c) % 32 \in x
  BY <1>5, <1>9, <1>10, <1>11, <1>12
<1>14. rotateRight(x, n) \subseteq Bits
  BY <1>5 DEF Shl, Sar
<1> QED
  BY <1>6, <1>13, <1>14

--------------------------------------------------------------------------
\* The carry of a one that is added, where b says that it is: it reaches the positions
\* above a run of ones.
RunsTo(w, b, i) == b /\ \A k \in 0 .. (i - 1) : k \in w

\* It reaches the lowest position if it is added, and passes over ones.
LEMMA RunsStep ==
  ASSUME NEW w, NEW b \in BOOLEAN
  PROVE  /\ RunsTo(w, b, 0) <=> b
         /\ \A i \in Nat : RunsTo(w, b, i + 1) <=> RunsTo(w, b, i) /\ i \in w
<1>1. RunsTo(w, b, 0) <=> b
  BY DEF RunsTo
<1>2. \A i \in Nat : RunsTo(w, b, i + 1) <=> RunsTo(w, b, i) /\ i \in w
  <2> SUFFICES ASSUME NEW i \in Nat
               PROVE  RunsTo(w, b, i + 1) <=> RunsTo(w, b, i) /\ i \in w
    OBVIOUS
  <2>1. 0 .. ((i + 1) - 1) = (0 .. (i - 1)) \cup {i}
    OBVIOUS
  <2> QED
    BY <2>1 DEF RunsTo
<1> QED
  BY <1>1, <1>2

\* A one added to a word flips the positions that it reaches.
LEMMA PlusBool ==
  ASSUME NEW w \in Word, NEW b \in BOOLEAN
  PROVE  \A i \in Bits : i \in Plus(w, Bool(b)) <=> ~(RunsTo(w, b, i) <=> i \in w)
<1>1. CASE b
  <2>1. Bool(b) = {0} /\ w \in SUBSET Nat /\ {0} \in SUBSET Nat
    BY <1>1 DEF Bool, One, Word, Bits
  <2> SUFFICES ASSUME NEW i \in Bits
               PROVE  i \in Plus(w, {0}) <=> ~(RunsTo(w, b, i) <=> i \in w)
    BY <2>1
  <2>2. i \in Plus(w, {0}) <=> (Carry(w, {0}, i) <=> (i \in w <=> i \in {0}))
    BY SumBit DEF Plus
  <2>3. CASE i = 0
    <3>1. ~Carry(w, {0}, 0)
      BY <2>1, CarryStep
    <3> QED
      BY <1>1, <2>2, <2>3, <3>1, RunsStep
  <2>4. CASE i # 0
    <3>1. ASSUME RunsTo(w, b, i) PROVE Carry(w, {0}, i)
      <4>1. 0 \in w \cap {0} /\ 0 < i /\ (0 + 1) .. (i - 1) \subseteq w \cup {0}
        BY <2>4, <3>1 DEF RunsTo, Bits
      <4> QED
        BY <4>1 DEF Carry
    <3>2. ASSUME Carry(w, {0}, i) PROVE RunsTo(w, b, i)
      <4>1. 0 \in w /\ (0 + 1) .. (i - 1) \subseteq w \cup {0}
        BY <3>2 DEF Carry
      <4>2. \A k \in 0 .. (i - 1) : k = 0 \/ k \in (0 + 1) .. (i - 1)
        BY DEF Bits
      <4> QED
        BY <1>1, <4>1, <4>2 DEF RunsTo
    <3> QED
      BY <2>2, <2>4, <3>1, <3>2
  <2> QED
    BY <2>3, <2>4
<1>2. CASE ~b
  <2>1. Plus(w, Bool(b)) = w
    BY <1>2, PlusZero DEF Bool
  <2> QED
    BY <1>2, <2>1 DEF RunsTo
<1> QED
  BY <1>1, <1>2

\* One more on a sum is a carry that comes into its lowest position: K has the positions
\* that carries come into then.
LEMMA CarryIn ==
  ASSUME NEW x \in Word, NEW y \in Word, NEW b \in BOOLEAN, NEW K,
         0 \in K <=> b,
         \A i \in 0 .. 30 : i + 1 \in K <=> (i \in x /\ i \in y) \/ ((i \in x \/ i \in y) /\ i \in K)
  PROVE  \A i \in Bits : i \in Plus(Plus(x, y), Bool(b)) <=> (i \in K <=> (i \in x <=> i \in y))
<1> DEFINE s == Plus(x, y)
           S == {i \in 0 .. 31 : /\ i \in K <=> Carry(x, y, i) \/ RunsTo(s, b, i)
                                 /\ ~(Carry(x, y, i) /\ RunsTo(s, b, i))}
<1>1. s \in Word /\ x \in SUBSET Nat /\ y \in SUBSET Nat
  BY PlusType DEF Word, Bits
<1>2. \A i \in Bits : i \in s <=> (Carry(x, y, i) <=> (i \in x <=> i \in y))
  BY SumBit DEF Plus
<1>3. 0 \in S
  BY <1>1, CarryStep, RunsStep
<1>9. \A i \in Nat : RunsTo(s, b, i + 1) <=> RunsTo(s, b, i) /\ i \in s
  <2> HIDE DEF s
  <2> QED
    BY RunsStep
<1>4. ASSUME NEW i \in 0 .. (31 - 1), i \in S PROVE i + 1 \in S
  <2>1. i \in 0 .. 30 /\ i \in Nat /\ i \in Bits /\ i + 1 \in 0 .. 31
    BY DEF Bits
  <2>2. i + 1 \in K <=> (i \in x /\ i \in y) \/ ((i \in x \/ i \in y) /\ i \in K)
    BY <2>1
  <2>3. Carry(x, y, i + 1) <=> (i \in x /\ i \in y) \/ ((i \in x \/ i \in y) /\ Carry(x, y, i))
    BY <1>1, <2>1, CarryStep
  <2>4. RunsTo(s, b, i + 1) <=> RunsTo(s, b, i) /\ i \in s
    BY <1>9, <2>1
  <2>5. i \in s <=> (Carry(x, y, i) <=> (i \in x <=> i \in y))
    BY <1>2, <2>1
  <2>6. /\ i \in K <=> Carry(x, y, i) \/ RunsTo(s, b, i)
        /\ ~(Carry(x, y, i) /\ RunsTo(s, b, i))
    BY <1>4
  <2> HIDE DEF s
  <2>7. /\ i + 1 \in K <=> Carry(x, y, i + 1) \/ RunsTo(s, b, i + 1)
        /\ ~(Carry(x, y, i + 1) /\ RunsTo(s, b, i + 1))
    BY <2>2, <2>3, <2>4, <2>5, <2>6
  <2> QED
    BY <2>1, <2>7
<1> HIDE DEF S
<1>5. 0 .. 31 \subseteq S
  <2>1. 31 \in Nat
    OBVIOUS
  <2> QED
    BY <1>3, <1>4, <2>1, Upwards
<1> SUFFICES ASSUME NEW i \in Bits
             PROVE  i \in Plus(s, Bool(b)) <=> (i \in K <=> (i \in x <=> i \in y))
  OBVIOUS
<1>6. i \in Plus(s, Bool(b)) <=> ~(RunsTo(s, b, i) <=> i \in s)
  BY <1>1, PlusBool
<1>7. /\ i \in K <=> Carry(x, y, i) \/ RunsTo(s, b, i)
      /\ ~(Carry(x, y, i) /\ RunsTo(s, b, i))
  BY <1>5 DEF S, Bits
<1>8. i \in s <=> (Carry(x, y, i) <=> (i \in x <=> i \in y))
  BY <1>2
<1> HIDE DEF s
<1> QED
  BY <1>6, <1>7, <1>8

\* bits.c:381: 5x has 64 positions; three of them are lost and their carry and, below 0, their
\* remainder are added to the sum of the halves.
THEOREM TrueFiveEighthsRight == \A x \in Word : trueFiveEighths(x) = test_trueFiveEighths(x)
<1> SUFFICES ASSUME NEW x \in Word
             PROVE  trueFiveEighths(x) = test_trueFiveEighths(x)
  OBVIOUS
<1> DEFINE ed == x \cap 0 .. 2
           a == Sar(x, 1)
           b == Sar(x, 3)
           c == 0 \in x /\ 2 \in x
           r == Negative(x) /\ ed # {}
           q == Plus(Plus(a, b), Bool(c))
           long == Extended(x)
           four == {i \in Long : i - 2 \in long}
           p == SumIn(Long, long, four)
           K == {i \in Bits : Carry(long, four, i + 3)}
<1>1. a \in Word /\ b \in Word /\ Plus(a, b) \in Word /\ Bool(c) \in Word /\ q \in Word
  <2>1. a \in Word /\ b \in Word
    BY DEF Sar, Word
  <2>2. Bool(c) \in Word
    BY DEF Bool, One, Zero, Word, Bits
  <2>3. Plus(a, b) \in Word
    BY <2>1, PlusType
  <2> QED
    BY <2>1, <2>2, <2>3, PlusType
<1>2. trueFiveEighths(x) = Plus(q, Bool(r))
  <2>1. Sar({5, 7}, Number(ed)) \cap One = Bool(c)
    <3> DEFINE m == Number(ed)
    <3>1. m \in 0 .. 7 /\ (m \in {5, 7} <=> c)
      <4>1. 3 \notin ed /\ 4 \notin ed /\ 5 \notin ed /\ 6 \notin ed /\ 7 \notin ed
        OBVIOUS
      <4>2. (0 \in ed <=> 0 \in x) /\ (1 \in ed <=> 1 \in x) /\ (2 \in ed <=> 2 \in x)
        OBVIOUS
      <4> QED
        BY <4>1, <4>2 DEF Number
    <3> HIDE DEF m, c
    <3>2. 0 \in Sar({5, 7}, m) <=> m \in {5, 7}
      BY <3>1 DEF Sar, Bits, Sign
    <3>3. Sar({5, 7}, m) \cap One = IF 0 \in Sar({5, 7}, m) THEN One ELSE Zero
      BY DEF One, Zero
    <3> QED
      BY <3>1, <3>2, <3>3 DEF Bool, m
  <2>2. Sar(x, 31) \cap One = Bool(Negative(x))
    BY SignFills DEF Bool, One, Zero, Bits
  <2>3. Bool(Negative(x)) \cap Lnot(Lnot(ed)) = Bool(r)
    BY DEF Bool, Lnot, One, Zero
  <2>4. trueFiveEighths(x)
          = Plus(Plus(Plus(a, b), Sar({5, 7}, Number(ed)) \cap One), (Sar(x, 31) \cap One) \cap Lnot(Lnot(ed)))
    BY DEF trueFiveEighths
  <2> QED
    BY <2>1, <2>2, <2>3, <2>4
<1>3. /\ \A i \in Bits : i \in long <=> i \in x
      /\ \A i \in 31 .. 63 : i \in long <=> Negative(x)
      /\ long \subseteq Long
  BY DEF Extended, Negative, Word, Bits, Sign, Long
<1>4. long \in SUBSET Nat /\ four \in SUBSET Nat
  BY <1>3 DEF Long
<1>5. /\ \A i \in Bits : i \in a <=> i + 1 \in long
      /\ \A i \in Bits : i \in b <=> i + 3 \in long
  <2> SUFFICES ASSUME NEW i \in Bits
               PROVE  (i \in a <=> i + 1 \in long) /\ (i \in b <=> i + 3 \in long)
    OBVIOUS
  <2>1. \A n \in 0 .. 3 : i + n \in long <=> (IF i + n > Sign THEN Sign ELSE i + n) \in x
    <3> SUFFICES ASSUME NEW n \in 0 .. 3
                 PROVE  i + n \in long <=> (IF i + n > Sign THEN Sign ELSE i + n) \in x
      OBVIOUS
    <3>1. CASE i + n > Sign
      <4>1. i + n \in 31 .. 63
        BY <3>1 DEF Bits, Sign
      <4> QED
        BY <1>3, <3>1, <4>1 DEF Negative
    <3>2. CASE ~(i + n > Sign)
      <4>1. i + n \in Bits
        BY <3>2 DEF Bits, Sign
      <4> QED
        BY <1>3, <3>2, <4>1
    <3> QED
      BY <3>1, <3>2
  <2>2. 1 \in 0 .. 3 /\ 3 \in 0 .. 3
    OBVIOUS
  <2> HIDE DEF long
  <2> QED
    BY <2>1, <2>2 DEF Sar
<1>6. \A i \in Bits : i + 3 \in four <=> i + 1 \in long
  <2>1. \A i \in Bits : i + 3 \in Long /\ (i + 3) - 2 = i + 1
    BY DEF Bits, Long
  <2> QED
    BY <2>1
<1>7. 0 \notin four /\ 1 \notin four /\ (2 \in four <=> 0 \in x) /\ \A i \in 33 .. 63 : i \in four <=> Negative(x)
  <2>1. 0 - 2 \notin long /\ 1 - 2 \notin long
    BY <1>3 DEF Long
  <2>2. 2 \in Long /\ 2 - 2 = 0 /\ (0 \in long <=> 0 \in x)
    BY <1>3 DEF Long, Bits
  <2>3. \A i \in 33 .. 63 : i \in Long /\ i - 2 \in 31 .. 63
    BY DEF Long
  <2> HIDE DEF long
  <2> QED
    BY <1>3, <2>1, <2>2, <2>3
<1> HIDE DEF long, four, a, b
<1>8. /\ ~Carry(long, four, 0) /\ ~Carry(long, four, 1) /\ ~Carry(long, four, 2)
      /\ Carry(long, four, 3) <=> c
      /\ Carry(long, four, 63) <=> Negative(x)
  <2>1. \A i \in Nat : Carry(long, four, i + 1) <=> (i \in long /\ i \in four) \/ ((i \in long \/ i \in four) /\ Carry(long, four, i))
    BY <1>4, CarryStep
  <2>2. ~Carry(long, four, 0)
    BY <1>4, CarryStep
  <2>3. Carry(long, four, 0 + 1) <=> (0 \in long /\ 0 \in four) \/ ((0 \in long \/ 0 \in four) /\ Carry(long, four, 0))
    BY <2>1
  <2>4. Carry(long, four, 1 + 1) <=> (1 \in long /\ 1 \in four) \/ ((1 \in long \/ 1 \in four) /\ Carry(long, four, 1))
    BY <2>1
  <2>5. Carry(long, four, 2 + 1) <=> (2 \in long /\ 2 \in four) \/ ((2 \in long \/ 2 \in four) /\ Carry(long, four, 2))
    BY <2>1
  <2>6. Carry(long, four, 62 + 1) <=> (62 \in long /\ 62 \in four) \/ ((62 \in long \/ 62 \in four) /\ Carry(long, four, 62))
    BY <2>1
  <2>7. (2 \in long <=> 2 \in x) /\ (62 \in long <=> Negative(x)) /\ (62 \in four <=> Negative(x))
    BY <1>3, <1>7 DEF Bits
  <2>8. 0 + 1 = 1 /\ 1 + 1 = 2 /\ 2 + 1 = 3 /\ 62 + 1 = 63
    OBVIOUS
  <2>9. ~Carry(long, four, 1)
    BY <1>7, <2>2, <2>3, <2>8
  <2>10. ~Carry(long, four, 2)
    BY <1>7, <2>4, <2>8, <2>9
  <2>11. Carry(long, four, 3) <=> c
    BY <1>7, <2>5, <2>7, <2>8, <2>10
  <2>12. Carry(long, four, 63) <=> Negative(x)
    BY <2>6, <2>7, <2>8
  <2> QED
    BY <2>2, <2>9, <2>10, <2>11, <2>12
<1>9. \A i \in Long : i \in p <=> (Carry(long, four, i) <=> (i \in long <=> i \in four))
  BY SumBit
<1>10. 0 \in K <=> c
  <2>1. 0 \in Bits /\ 0 + 3 = 3
    BY DEF Bits
  <2> QED
    BY <1>8, <2>1
<1>11. \A i \in 0 .. 30 : i + 1 \in K <=> (i \in a /\ i \in b) \/ ((i \in a \/ i \in b) /\ i \in K)
  <2> SUFFICES ASSUME NEW i \in 0 .. 30
               PROVE  i + 1 \in K <=> (i \in a /\ i \in b) \/ ((i \in a \/ i \in b) /\ i \in K)
    OBVIOUS
  <2>1. i \in Bits /\ i + 1 \in Bits /\ (i + 1) + 3 = (i + 3) + 1 /\ i + 3 \in Nat
    BY DEF Bits
  <2>2. Carry(long, four, (i + 3) + 1) <=> (i + 3 \in long /\ i + 3 \in four) \/ ((i + 3 \in long \/ i + 3 \in four) /\ Carry(long, four, i + 3))
    BY <1>4, <2>1, CarryStep
  <2>3. (i + 1 \in K <=> Carry(long, four, (i + 3) + 1)) /\ (i \in K <=> Carry(long, four, i + 3))
    BY <2>1
  <2> HIDE DEF K
  <2> QED
    BY <1>5, <1>6, <2>1, <2>2, <2>3
<1>12. \A i \in Bits : i \in q <=> i + 3 \in p
  <2> SUFFICES ASSUME NEW i \in Bits
               PROVE  i \in q <=> i + 3 \in p
    OBVIOUS
  <2>1. i \in K <=> Carry(long, four, i + 3)
    OBVIOUS
  <2> HIDE DEF K, c, p
  <2>2. c \in BOOLEAN
    BY DEF c
  <2>3. i \in q <=> (i \in K <=> (i \in a <=> i \in b))
    BY <1>1, <1>10, <1>11, <2>2, CarryIn
  <2>4. i + 3 \in Long
    BY DEF Bits, Long
  <2>5. i + 3 \in p <=> (Carry(long, four, i + 3) <=> (i + 3 \in long <=> i + 3 \in four))
    BY <1>9, <2>4
  <2> QED
    BY <1>5, <1>6, <2>1, <2>3, <2>5
<1>13. 63 \in p <=> Negative(x)
  <2>1. (63 \in long <=> Negative(x)) /\ (63 \in four <=> Negative(x)) /\ 63 \in Long
    BY <1>3, <1>7 DEF Long
  <2> QED
    BY <1>8, <1>9, <2>1
<1> DEFINE dividend == IF 63 \in p THEN SumIn(Long, p, 0 .. 2) ELSE p
<1>14. test_trueFiveEighths(x) = {i \in Bits : i + 3 \in dividend}
  <2>1. test_trueFiveEighths(x) = {i \in Bits : (IF i + 3 > 63 THEN 63 ELSE i + 3) \in dividend}
    BY DEF test_trueFiveEighths, long, four
  <2>2. \A i \in Bits : (IF i + 3 > 63 THEN 63 ELSE i + 3) = i + 3
    BY DEF Bits
  <2> HIDE DEF dividend
  <2> QED
    BY <2>1, <2>2
<1>15. (0 \in p <=> 0 \in x) /\ (1 \in p <=> 1 \in x) /\ (2 \in p <=> (2 \in x <=> 0 \notin x))
  <2>1. 0 \in Long /\ 1 \in Long /\ 2 \in Long /\ 0 \in Bits /\ 1 \in Bits /\ 2 \in Bits
    BY DEF Long, Bits
  <2> HIDE DEF p
  <2> QED
    BY <1>3, <1>7, <1>8, <1>9, <2>1
<1>16. p \in SUBSET Nat /\ r \in BOOLEAN
  <2>1. Long \subseteq Nat /\ {i \in Long : Carry(long, four, i)} \subseteq Nat
    BY DEF Long
  <2>2. p = Xor(Xor(long, four), {i \in Long : Carry(long, four, i)})
    BY DEF SumIn, Carry
  <2> HIDE DEF p
  <2>3. p \in SUBSET Nat
    BY <1>4, <2>1, <2>2 DEF Xor
  <2> QED
    BY <2>3
<1>17. trueFiveEighths(x) \in Word
  <2>1. Bool(r) \in Word
    BY DEF Bool, One, Zero, Word, Bits
  <2> QED
    BY <1>1, <1>2, <2>1, PlusType
<1> HIDE DEF p, q, K, c
<1>18. ASSUME NEW i \in Bits
       PROVE  i \in trueFiveEighths(x) <=> i + 3 \in dividend
  <2>1. CASE ~Negative(x)
    <3>1. Plus(q, Bool(r)) = q
      BY <1>1, <2>1, PlusZero DEF Bool
    <3> QED
      BY <1>2, <1>12, <1>13, <2>1, <3>1
  <2>2. CASE Negative(x)
    <3> DEFINE S == {k \in 0 .. 31 : Carry(p, 0 .. 2, k + 3) <=> RunsTo(q, r, k)}
    <3>1. 0 .. 2 \in SUBSET Nat
      OBVIOUS
    <3>2. \A k \in Nat : Carry(p, 0 .. 2, k + 1) <=> (k \in p /\ k \in 0 .. 2) \/ ((k \in p \/ k \in 0 .. 2) /\ Carry(p, 0 .. 2, k))
      BY <1>16, <3>1, CarryStep
    <3>3. 0 \in S
      <4>1. ~Carry(p, 0 .. 2, 0)
        BY <1>16, <3>1, CarryStep
      <4>2. Carry(p, 0 .. 2, 0 + 1) <=> 0 \in p
        BY <3>2, <4>1
      <4>3. Carry(p, 0 .. 2, 1 + 1) <=> 1 \in p \/ Carry(p, 0 .. 2, 1)
        BY <3>2
      <4>4. Carry(p, 0 .. 2, 2 + 1) <=> 2 \in p \/ Carry(p, 0 .. 2, 2)
        BY <3>2
      <4>5. 0 + 1 = 1 /\ 1 + 1 = 2 /\ 2 + 1 = 3 /\ 0 + 3 = 3
        OBVIOUS
      <4>6. Carry(p, 0 .. 2, 0 + 3) <=> 0 \in x \/ 1 \in x \/ 2 \in x
        BY <1>15, <4>2, <4>3, <4>4, <4>5
      <4>7. r <=> 0 \in x \/ 1 \in x \/ 2 \in x
        <5>1. \A k \in 0 .. 2 : k = 0 \/ k = 1 \/ k = 2
          OBVIOUS
        <5>2. ed # {} <=> 0 \in x \/ 1 \in x \/ 2 \in x
          BY <5>1
        <5> QED
          BY <2>2, <5>2
      <4>8. RunsTo(q, r, 0) <=> r
        BY <1>16, RunsStep
      <4> HIDE DEF r
      <4> QED
        BY <4>6, <4>7, <4>8
    <3>4. ASSUME NEW k \in 0 .. (31 - 1), k \in S PROVE k + 1 \in S
      <4>1. k \in Nat /\ k \in Bits /\ k + 3 \in Nat /\ k + 3 \notin 0 .. 2 /\ (k + 3) + 1 = (k + 1) + 3 /\ k + 1 \in 0 .. 31
        BY DEF Bits
      <4>2. Carry(p, 0 .. 2, (k + 3) + 1) <=> k + 3 \in p /\ Carry(p, 0 .. 2, k + 3)
        BY <3>2, <4>1
      <4>3. RunsTo(q, r, k + 1) <=> RunsTo(q, r, k) /\ k \in q
        BY <1>16, <4>1, RunsStep
      <4>4. k \in q <=> k + 3 \in p
        BY <1>12, <4>1
      <4>5. Carry(p, 0 .. 2, k + 3) <=> RunsTo(q, r, k)
        BY <3>4
      <4> HIDE DEF r
      <4>6. Carry(p, 0 .. 2, (k + 1) + 3) <=> RunsTo(q, r, k + 1)
        BY <4>1, <4>2, <4>3, <4>4, <4>5
      <4> QED
        BY <4>1, <4>6
    <3> HIDE DEF S
    <3>5. 0 .. 31 \subseteq S
      <4>1. 31 \in Nat
        OBVIOUS
      <4> QED
        BY <3>3, <3>4, <4>1, Upwards
    <3>6. Carry(p, 0 .. 2, i + 3) <=> RunsTo(q, r, i)
      BY <3>5 DEF S, Bits
    <3>7. i + 3 \in Long /\ i + 3 \notin 0 .. 2
      BY DEF Bits, Long
    <3>8. i + 3 \in SumIn(Long, p, 0 .. 2) <=> (Carry(p, 0 .. 2, i + 3) <=> (i + 3 \in p <=> i + 3 \in 0 .. 2))
      BY <3>7, SumBit
    <3>9. i \in Plus(q, Bool(r)) <=> ~(RunsTo(q, r, i) <=> i \in q)
      BY <1>1, <1>16, PlusBool
    <3>10. dividend = SumIn(Long, p, 0 .. 2)
      BY <1>13, <2>2
    <3>11. i \in q <=> i + 3 \in p
      BY <1>12
    <3> HIDE DEF r, dividend
    <3> QED
      BY <1>2, <3>6, <3>7, <3>8, <3>9, <3>10, <3>11
  <2> QED
    BY <2>1, <2>2
<1> HIDE DEF dividend
<1> QED
  BY <1>14, <1>17, <1>18 DEF Word

--------------------------------------------------------------------------
\* The masks of countConsecutive1, by position.
LEMMA Masks ==
  /\ Repeated({0, 2, 4, 6}) = {i \in Bits : i % 2 = 0}
  /\ Repeated({0, 1, 4, 5}) = {i \in Bits : i % 4 < 2}
  /\ Repeated(0 .. 3) = {i \in Bits : i % 8 < 4}
<1> DEFINE half(m) == m \cup Shl(m, 8)
<1>1. \A m : Repeated(m) = half(m) \cup Shl(half(m), 16)
  BY DEF Repeated
<1>2. ASSUME NEW m \in SUBSET (0 .. 7)
      PROVE  Repeated(m) = {i \in Bits : i % 8 \in m}
  <2>1. half(m) = {i \in 0 .. 15 : i % 8 \in m}
    <3>1. \A i \in Bits : i \in half(m) <=> i \in m \/ i - 8 \in m
      BY DEF Shl
    <3>2. \A i \in half(m) : i \in 0 .. 15
      BY DEF Shl, Bits
    <3>3. \A i \in 0 .. 15 : i \in Bits /\ (i \in m \/ i - 8 \in m <=> i % 8 \in m)
      BY DEF Bits
    <3> HIDE DEF half
    <3>4. \A i \in 0 .. 15 : i \in half(m) <=> i % 8 \in m
      BY <3>1, <3>3
    <3> QED
      BY <3>2, <3>4
  <2> HIDE DEF half
  <2>2. \A i \in Bits : i \in Repeated(m) <=> i \in half(m) \/ i - 16 \in half(m)
    BY <1>1 DEF Shl
  <2>3. \A i \in Bits : (i \in half(m) \/ i - 16 \in half(m)) <=> i % 8 \in m
    <3> SUFFICES ASSUME NEW i \in Bits
                 PROVE  (i \in half(m) \/ i - 16 \in half(m)) <=> i % 8 \in m
      OBVIOUS
    <3>1. i \in 0 .. 15 \/ i - 16 \in 0 .. 15
      BY DEF Bits
    <3>2. i \in 0 .. 15 => i - 16 \notin 0 .. 15
      OBVIOUS
    <3>3. i - 16 \in 0 .. 15 => i \notin 0 .. 15 /\ (i - 16) % 8 = i % 8
      BY DEF Bits
    <3> QED
      BY <2>1, <3>1, <3>2, <3>3
  <2>4. \A i \in Repeated(m) : i \in Bits
    BY <1>1, <2>1 DEF Shl, Bits
  <2> QED
    BY <2>2, <2>3, <2>4
<1> HIDE DEF half
<1>3. {0, 2, 4, 6} \in SUBSET (0 .. 7) /\ {0, 1, 4, 5} \in SUBSET (0 .. 7) /\ 0 .. 3 \in SUBSET (0 .. 7)
  OBVIOUS
<1>4. \A i \in Bits : /\ i % 8 \in {0, 2, 4, 6} <=> i % 2 = 0
                      /\ i % 8 \in {0, 1, 4, 5} <=> i % 4 < 2
                      /\ i % 8 \in 0 .. 3 <=> i % 8 < 4
  BY DEF Bits
<1>5. Repeated({0, 2, 4, 6}) = {i \in Bits : i % 8 \in {0, 2, 4, 6}}
  BY <1>2, <1>3
<1>6. Repeated({0, 1, 4, 5}) = {i \in Bits : i % 8 \in {0, 1, 4, 5}}
  BY <1>2, <1>3
<1>7. Repeated(0 .. 3) = {i \in Bits : i % 8 \in 0 .. 3}
  BY <1>2, <1>3
<1> QED
  BY <1>4, <1>5, <1>6, <1>7

\* A shift to the right, as far as it does not reach the sign.
LEMMA SarBit ==
  ASSUME NEW y, NEW n \in Bits, NEW i \in Bits, i + n <= 31
  PROVE  i \in Sar(y, n) <=> i + n \in y
BY DEF Sar, Bits, Sign

\* A shift yields a word.
LEMMA SarType == \A y, n : Sar(y, n) \in Word
BY DEF Sar, Word

\* The digits of four positions are those of the word.
LEMMA NibbleSame ==
  ASSUME NEW y, NEW z, NEW p, NEW q, \A i \in 0 .. 3 : p + i \in y <=> q + i \in z, p \in Int, q \in Int
  PROVE  Nibble(y, p) = Nibble(z, q)
<1>1. (p \in y <=> q \in z) /\ (p + 1 \in y <=> q + 1 \in z) /\ (p + 2 \in y <=> q + 2 \in z) /\ (p + 3 \in y <=> q + 3 \in z)
  <2>1. p + 0 = p /\ q + 0 = q
    OBVIOUS
  <2> QED
    BY <2>1
<1> QED
  BY <1>1 DEF Nibble, Digit

\* Four positions of a shifted word are four positions of the word.
LEMMA NibbleSar ==
  ASSUME NEW y, NEW n \in Bits, NEW p \in Bits, p + n + 3 <= 31
  PROVE  Nibble(Sar(y, n), p) = Nibble(y, p + n)
<1>1. \A i \in 0 .. 3 : p + i \in Sar(y, n) <=> (p + n) + i \in y
  <2> SUFFICES ASSUME NEW i \in 0 .. 3 PROVE p + i \in Sar(y, n) <=> (p + n) + i \in y
    OBVIOUS
  <2>1. p + i \in Bits /\ (p + i) + n <= 31 /\ (p + i) + n = (p + n) + i
    BY DEF Bits
  <2> QED
    BY <2>1, SarBit
<1>2. p \in Int /\ p + n \in Int
  BY DEF Bits
<1> QED
  BY <1>1, <1>2, NibbleSame

\* No carry leaves a position that is empty in both words.
LEMMA NoCarry ==
  ASSUME NEW x \in Word, NEW y \in Word, NEW p \in Bits, p = 0 \/ (p - 1 \notin x /\ p - 1 \notin y)
  PROVE  ~Carry(x, y, p)
<1>1. x \in SUBSET Nat /\ y \in SUBSET Nat
  BY DEF Word, Bits
<1>2. CASE p = 0
  BY <1>1, <1>2, CarryStep
<1>3. CASE p # 0
  <2>1. p - 1 \in Nat /\ (p - 1) + 1 = p
    BY <1>3 DEF Bits
  <2>2. Carry(x, y, (p - 1) + 1) <=> (p - 1 \in x /\ p - 1 \in y) \/ ((p - 1 \in x \/ p - 1 \in y) /\ Carry(x, y, p - 1))
    BY <1>1, <2>1, CarryStep
  <2> QED
    BY <1>3, <2>1, <2>2
<1> QED
  BY <1>2, <1>3

\* The positions are finitely many, which counting them needs.
LEMMA FiniteBits == IsFiniteSet(Bits)
<1>1. 0 \in Int /\ 31 \in Int
  OBVIOUS
<1>2. IsFiniteSet(0 .. 31)
  BY <1>1, FS_Interval
<1> QED
  BY <1>2 DEF Bits

\* The elements below n + 2 are those below n with two more.
LEMMA CountPair ==
  ASSUME NEW m \in Word, NEW n \in 0 .. 30
  PROVE  Cardinality({i \in m : i < n + 2}) = Cardinality({i \in m : i < n}) + Digit(m, n) + Digit(m, n + 1)
<1> DEFINE below(k) == {i \in m : i < k}
<1>1. \A k : IsFiniteSet(below(k)) /\ Cardinality(below(k)) \in Nat
  <2>1. IsFiniteSet(Bits)
    BY FiniteBits
  <2>2. \A k : below(k) \subseteq Bits
    BY DEF Word
  <2> HIDE DEF below
  <2>3. \A k : IsFiniteSet(below(k))
    BY <2>1, <2>2, FS_Subset
  <2> QED
    BY <2>3, FS_CardinalityType
<1>2. ASSUME NEW k \in 0 .. 31
      PROVE  Cardinality(below(k + 1)) = Cardinality(below(k)) + Digit(m, k)
  <2>1. k \notin below(k)
    OBVIOUS
  <2>2. below(k + 1) = IF k \in m THEN below(k) \cup {k} ELSE below(k)
    <3>1. \A i \in m : i < k + 1 <=> i < k \/ i = k
      BY DEF Word, Bits
    <3> QED
      BY <3>1
  <2> HIDE DEF below
  <2>3. Cardinality(below(k) \cup {k}) = Cardinality(below(k)) + 1
    BY <1>1, <2>1, FS_AddElement
  <2> QED
    BY <1>1, <2>2, <2>3 DEF Digit
<1>3. n \in 0 .. 31 /\ n + 1 \in 0 .. 31 /\ (n + 1) + 1 = n + 2
  OBVIOUS
<1>4. Cardinality(below(n + 1)) = Cardinality(below(n)) + Digit(m, n)
  BY <1>2, <1>3
<1>5. Cardinality(below((n + 1) + 1)) = Cardinality(below(n + 1)) + Digit(m, n + 1)
  BY <1>2, <1>3
<1>6. Digit(m, n) \in 0 .. 1 /\ Digit(m, n + 1) \in 0 .. 1
  BY DEF Digit
<1> HIDE DEF below
<1>7. Cardinality(below(n + 2)) = Cardinality(below(n)) + Digit(m, n) + Digit(m, n + 1)
  BY <1>1, <1>3, <1>4, <1>5, <1>6
<1> QED
  BY <1>7 DEF below

\* The stages, for the places at which each counts: pairs are marked, four positions hold the marks of two pairs,
\* and so on.
Marks(x) == {i \in x : i = 0 \/ i - 1 \notin x}
Pairs(x) == {i \in Bits : i % 2 = 0 /\ (i \in Marks(x) \/ i + 1 \in Marks(x))}

\* As no two neighbours are marked, the marked pairs are as many as the marks.
LEMMA CountPairs ==
  ASSUME NEW x \in Word
  PROVE  LET w == Pairs(x)
         IN  Cardinality(Marks(x))
               = Digit(w, 0) + Digit(w, 2) + Digit(w, 4) + Digit(w, 6) + Digit(w, 8) + Digit(w, 10)
                   + Digit(w, 12) + Digit(w, 14) + Digit(w, 16) + Digit(w, 18) + Digit(w, 20) + Digit(w, 22)
                   + Digit(w, 24) + Digit(w, 26) + Digit(w, 28) + Digit(w, 30)
<1> DEFINE w == Pairs(x)
           m == Marks(x)
           c(k) == Cardinality({i \in m : i < k})
<1>1. m \in Word
  BY DEF Marks, Word
<1>2. ASSUME NEW n \in 0 .. 30, n % 2 = 0
      PROVE  c(n + 2) = c(n) + Digit(w, n)
  <2>1. ~(n \in m /\ n + 1 \in m)
    <3>1. n + 1 # 0 /\ (n + 1) - 1 = n
      OBVIOUS
    <3> QED
      BY <3>1 DEF Marks
  <2>2. n \in w <=> n \in m \/ n + 1 \in m
    BY <1>2 DEF Pairs, Bits
  <2>3. Digit(m, n) + Digit(m, n + 1) = Digit(w, n)
    BY <2>1, <2>2 DEF Digit
  <2>4. Digit(m, n) \in 0 .. 1 /\ Digit(m, n + 1) \in 0 .. 1 /\ c(n) \in Nat
    <3>1. {i \in m : i < n} \subseteq Bits /\ IsFiniteSet(Bits)
      BY <1>1, FiniteBits DEF Word
    <3>2. IsFiniteSet({i \in m : i < n})
      BY <3>1, FS_Subset
    <3> QED
      BY <3>2, FS_CardinalityType DEF Digit
  <2>5. c(n + 2) = c(n) + Digit(m, n) + Digit(m, n + 1)
    BY <1>1, CountPair
  <2> HIDE DEF c, w, m
  <2> QED
    BY <2>3, <2>4, <2>5
<1>3. c(0) = 0
  <2>1. {i \in m : i < 0} = {}
    BY <1>1 DEF Word, Bits
  <2> QED
    BY <2>1, FS_EmptySet
<1>4. c(32) = Cardinality(m)
  <2>1. {i \in m : i < 32} = m
    BY <1>1 DEF Word, Bits
  <2> QED
    BY <2>1
<1> HIDE DEF c, w, m
<1>5. \A i : Digit(w, i) \in 0 .. 1
  BY DEF Digit
<1>6. c(2) = Digit(w, 0) /\ c(4) = c(2) + Digit(w, 2) /\ c(6) = c(4) + Digit(w, 4) /\ c(8) = c(6) + Digit(w, 6)
  <2>1. c(0 + 2) = c(0) + Digit(w, 0)
    BY <1>2
  <2>2. c(2 + 2) = c(2) + Digit(w, 2)
    BY <1>2
  <2>3. c(4 + 2) = c(4) + Digit(w, 4)
    BY <1>2
  <2>4. c(6 + 2) = c(6) + Digit(w, 6)
    BY <1>2
  <2> QED
    BY <1>3, <1>5, <2>1, <2>2, <2>3, <2>4
<1>7. c(10) = c(8) + Digit(w, 8) /\ c(12) = c(10) + Digit(w, 10) /\ c(14) = c(12) + Digit(w, 12) /\ c(16) = c(14) + Digit(w, 14)
  <2>1. c(8 + 2) = c(8) + Digit(w, 8)
    BY <1>2
  <2>2. c(10 + 2) = c(10) + Digit(w, 10)
    BY <1>2
  <2>3. c(12 + 2) = c(12) + Digit(w, 12)
    BY <1>2
  <2>4. c(14 + 2) = c(14) + Digit(w, 14)
    BY <1>2
  <2> QED
    BY <2>1, <2>2, <2>3, <2>4
<1>8. c(18) = c(16) + Digit(w, 16) /\ c(20) = c(18) + Digit(w, 18) /\ c(22) = c(20) + Digit(w, 20) /\ c(24) = c(22) + Digit(w, 22)
  <2>1. c(16 + 2) = c(16) + Digit(w, 16)
    BY <1>2
  <2>2. c(18 + 2) = c(18) + Digit(w, 18)
    BY <1>2
  <2>3. c(20 + 2) = c(20) + Digit(w, 20)
    BY <1>2
  <2>4. c(22 + 2) = c(22) + Digit(w, 22)
    BY <1>2
  <2> QED
    BY <2>1, <2>2, <2>3, <2>4
<1>9. c(26) = c(24) + Digit(w, 24) /\ c(28) = c(26) + Digit(w, 26) /\ c(30) = c(28) + Digit(w, 28) /\ c(32) = c(30) + Digit(w, 30)
  <2>1. c(24 + 2) = c(24) + Digit(w, 24)
    BY <1>2
  <2>2. c(26 + 2) = c(26) + Digit(w, 26)
    BY <1>2
  <2>3. c(28 + 2) = c(28) + Digit(w, 28)
    BY <1>2
  <2>4. c(30 + 2) = c(30) + Digit(w, 30)
    BY <1>2
  <2> QED
    BY <2>1, <2>2, <2>3, <2>4
<1>10. Cardinality(m)
         = Digit(w, 0) + Digit(w, 2) + Digit(w, 4) + Digit(w, 6) + Digit(w, 8) + Digit(w, 10)
             + Digit(w, 12) + Digit(w, 14) + Digit(w, 16) + Digit(w, 18) + Digit(w, 20) + Digit(w, 22)
             + Digit(w, 24) + Digit(w, 26) + Digit(w, 28) + Digit(w, 30)
  BY <1>4, <1>5, <1>6, <1>7, <1>8, <1>9
<1> QED
  BY <1>10 DEF w, m

--------------------------------------------------------------------------
\* The first stage: the marks of a pair meet in its lower position, and as no two marks are
\* neighbours there are no carries.
LEMMA PairStage ==
  ASSUME NEW x \in Word
  PROVE  /\ Xor(x, x \cap Shl(x, 1)) = Marks(x)
         /\ Plus(Marks(x), Sar(Marks(x), 1)) \cap Repeated({0, 2, 4, 6}) = Pairs(x)
<1> DEFINE m == Marks(x)
           v == Sar(m, 1)
<1>1. m \in Word /\ v \in Word
  BY SarType DEF Marks, Word
<1>2. Xor(x, x \cap Shl(x, 1)) = m
  <2>1. \A i \in x : i \in Shl(x, 1) <=> ~(i = 0 \/ i - 1 \notin x)
    BY DEF Shl, Word, Bits
  <2> QED
    BY <2>1 DEF Xor, Marks
<1>3. \A i \in m : i + 1 \notin m
  <2>1. \A i \in m : i \in x /\ i + 1 # 0 /\ (i + 1) - 1 = i
    BY DEF Marks, Word, Bits
  <2> QED
    BY <2>1 DEF Marks
<1>4. \A i \in 0 .. 30 : i \in v <=> i + 1 \in m
  <2> SUFFICES ASSUME NEW i \in 0 .. 30 PROVE i \in v <=> i + 1 \in m
    OBVIOUS
  <2>1. 1 \in Bits /\ i \in Bits /\ i + 1 <= 31
    BY DEF Bits
  <2> HIDE DEF m
  <2> QED
    BY <2>1, SarBit
<1> HIDE DEF m, v
<1>5. \A i \in Bits : ~Carry(m, v, i)
  <2> SUFFICES ASSUME NEW i \in Bits, NEW j \in m \cap v, j < i PROVE FALSE
    BY DEF Carry
  <2>1. j \in 0 .. 30
    BY <1>1 DEF Word, Bits
  <2> QED
    BY <1>3, <1>4, <2>1
<1>6. \A i \in Bits : i \in Plus(m, v) <=> ~(i \in m <=> i \in v)
  BY <1>5, SumBit DEF Plus
<1>7. \A i \in Bits : i % 2 = 0 => (i \in Plus(m, v) <=> i \in m \/ i + 1 \in m)
  <2>1. \A i \in Bits : i % 2 = 0 => i \in 0 .. 30
    BY DEF Bits
  <2> QED
    BY <1>3, <1>4, <1>6, <2>1
<1>8. Plus(m, v) \cap {i \in Bits : i % 2 = 0} = Pairs(x)
  BY <1>7 DEF Pairs, m
<1> QED
  BY <1>2, <1>8, Masks DEF m, v

\* The second stage: four positions from p on count their two pairs.
LEMMA FourStage ==
  ASSUME NEW w \in Word, \A i \in w : i % 2 = 0, NEW p \in {0, 4, 8, 12, 16, 20, 24, 28}
  PROVE  Nibble(Plus(w, Sar(w, 2)) \cap Repeated({0, 1, 4, 5}), p) = Digit(w, p) + Digit(w, p + 2)
<1> DEFINE v == Sar(w, 2)
           s == Plus(w, v)
           z == s \cap Repeated({0, 1, 4, 5})
<1>1. v \in Word /\ w \in SUBSET Nat /\ v \in SUBSET Nat
  BY SarType DEF Word, Bits
<1>2. p \in Bits /\ p + 1 \in Bits /\ p + 2 \in Bits /\ p + 3 \in Bits /\ p + 2 <= 31 /\ p \in Nat
  BY DEF Bits
<1>3. p \in v <=> p + 2 \in w
  <2>1. 2 \in Bits
    BY DEF Bits
  <2> QED
    BY <1>2, <2>1, SarBit
<1>4. \A i \in Bits : i % 2 = 1 => i \notin w /\ i \notin v
  <2> SUFFICES ASSUME NEW i \in Bits, i % 2 = 1 PROVE i \notin w /\ i \notin v
    OBVIOUS
  <2>1. i + 2 # Sign => (i + 2) % 2 = 1
    BY DEF Bits
  <2>2. Sign % 2 = 1
    BY DEF Sign
  <2>3. i \notin w
    OBVIOUS
  <2>4. (IF i + 2 > Sign THEN Sign ELSE i + 2) \notin w
    <3>1. CASE i + 2 > Sign
      BY <2>2, <3>1
    <3>2. CASE ~(i + 2 > Sign)
      <4>1. (i + 2) % 2 = 1
        BY DEF Bits
      <4> QED
        BY <3>2, <4>1
    <3> QED
      BY <3>1, <3>2
  <2>5. i \notin v
    BY <2>4 DEF Sar
  <2> QED
    BY <2>3, <2>5
<1> HIDE DEF v
<1>5. ~Carry(w, v, p)
  <2>1. p = 0 \/ (p - 1 \in Bits /\ (p - 1) % 2 = 1)
    BY DEF Bits
  <2> QED
    BY <1>1, <1>2, <1>4, <2>1, NoCarry
<1>6. Carry(w, v, p + 1) <=> p \in w /\ p \in v
  BY <1>1, <1>2, <1>5, CarryStep
<1>7. p \in s <=> ~(p \in w <=> p \in v)
  BY <1>2, <1>5, SumBit DEF Plus
<1>8. p + 1 \in s <=> p \in w /\ p \in v
  <2>1. p + 1 \notin w /\ p + 1 \notin v
    <3>1. (p + 1) % 2 = 1
      OBVIOUS
    <3> QED
      BY <1>2, <1>4, <3>1
  <2>2. p + 1 \in s <=> (Carry(w, v, p + 1) <=> (p + 1 \in w <=> p + 1 \in v))
    BY <1>2, SumBit DEF Plus
  <2> QED
    BY <1>6, <2>1, <2>2
<1> HIDE DEF s
<1>9. /\ p \in z <=> p \in s
      /\ p + 1 \in z <=> p + 1 \in s
      /\ p + 2 \notin z /\ p + 3 \notin z
  <2>1. p % 4 = 0 /\ (p + 1) % 4 = 1 /\ (p + 2) % 4 = 2 /\ (p + 3) % 4 = 3
    OBVIOUS
  <2>2. \A i \in Bits : i \in Repeated({0, 1, 4, 5}) <=> i % 4 < 2
    BY Masks
  <2>3. /\ p \in Repeated({0, 1, 4, 5}) /\ p + 1 \in Repeated({0, 1, 4, 5})
        /\ p + 2 \notin Repeated({0, 1, 4, 5}) /\ p + 3 \notin Repeated({0, 1, 4, 5})
    BY <1>2, <2>1, <2>2
  <2> QED
    BY <2>3
<1> HIDE DEF z
<1>10. Nibble(z, p) = Digit(w, p) + Digit(w, p + 2)
  BY <1>3, <1>7, <1>8, <1>9 DEF Nibble, Digit
<1> QED
  BY <1>10 DEF z, s, v

\* The third stage: the lower four positions of a byte count for the byte.
LEMMA ByteStage ==
  ASSUME NEW w \in Word, \A i \in w : i % 4 < 2, NEW p \in {0, 8, 16, 24},
         Nibble(w, p) + Nibble(w, p + 4) < 16
  PROVE  Nibble(Plus(w, Sar(w, 4)) \cap Repeated(0 .. 3), p) = Nibble(w, p) + Nibble(w, p + 4)
<1> DEFINE v == Sar(w, 4)
           s == Plus(w, v)
           z == s \cap Repeated(0 .. 3)
<1>1. v \in Word /\ p \in Bits /\ p + 3 \in Bits /\ 4 \in Bits /\ p + 4 + 3 <= 31 /\ p \in Int
  BY SarType DEF Bits
<1>2. ~Carry(w, v, p)
  <2>1. p = 0 \/ (p - 1 \in Bits /\ (p - 1) % 4 = 3 /\ (p - 1) + 4 <= 31 /\ ((p - 1) + 4) % 4 = 3)
    BY DEF Bits
  <2>2. CASE p = 0
    BY <1>1, <2>2, NoCarry
  <2>3. CASE p # 0
    <3>1. p - 1 \in v <=> (p - 1) + 4 \in w
      BY <1>1, <2>1, <2>3, SarBit
    <3>2. p - 1 \notin w /\ (p - 1) + 4 \notin w
      BY <2>1, <2>3
    <3> HIDE DEF v
    <3> QED
      BY <1>1, <3>1, <3>2, NoCarry
  <2> QED
    BY <2>2, <2>3
<1>3. Nibble(v, p) = Nibble(w, p + 4)
  BY <1>1, NibbleSar
<1> HIDE DEF v
<1>4. Nibble(s, p) = Nibble(w, p) + Nibble(w, p + 4)
  BY <1>1, <1>2, <1>3, NibbleSum
<1> HIDE DEF s
<1>5. \A i \in 0 .. 3 : p + i \in z <=> p + i \in s
  <2>1. \A i \in 0 .. 3 : p + i \in Bits /\ (p + i) % 8 < 4
    BY DEF Bits
  <2> QED
    BY <2>1, Masks
<1>6. Nibble(z, p) = Nibble(s, p)
  BY <1>1, <1>5, NibbleSame
<1> QED
  BY <1>4, <1>6 DEF z, s, v

\* The fourth stage: bytes 0 and 2 count for two.
LEMMA HalfStage ==
  ASSUME NEW w \in Word, \A i \in w : i % 8 < 4, NEW p \in {0, 16},
         Nibble(w, p) + Nibble(w, p + 8) < 16
  PROVE  LET z == Plus(w, Sar(w, 8))
         IN  Nibble(z, p) = Nibble(w, p) + Nibble(w, p + 8) /\ p + 4 \notin z
<1> DEFINE v == Sar(w, 8)
           s == Plus(w, v)
<1>1. v \in Word /\ p \in Bits /\ p + 3 \in Bits /\ p + 4 \in Bits /\ 8 \in Bits /\ p + 8 + 3 <= 31
  BY SarType DEF Bits
<1>2. ~Carry(w, v, p)
  <2>1. p = 0 \/ (p - 1 \in Bits /\ (p - 1) % 8 = 7 /\ (p - 1) + 8 <= 31 /\ ((p - 1) + 8) % 8 = 7)
    BY DEF Bits
  <2>2. CASE p = 0
    BY <1>1, <2>2, NoCarry
  <2>3. CASE p # 0
    <3>1. p - 1 \in v <=> (p - 1) + 8 \in w
      BY <1>1, <2>1, <2>3, SarBit
    <3>2. p - 1 \notin w /\ (p - 1) + 8 \notin w
      BY <2>1, <2>3
    <3> HIDE DEF v
    <3> QED
      BY <1>1, <3>1, <3>2, NoCarry
  <2> QED
    BY <2>2, <2>3
<1>3. Nibble(v, p) = Nibble(w, p + 8)
  BY <1>1, NibbleSar
<1>4. p + 4 \notin w /\ p + 4 \notin v
  <2>1. (p + 4) % 8 = 4 /\ (p + 4) + 8 <= 31 /\ ((p + 4) + 8) % 8 = 4
    OBVIOUS
  <2>2. p + 4 \in v <=> (p + 4) + 8 \in w
    BY <1>1, <2>1, SarBit
  <2> HIDE DEF v
  <2> QED
    BY <2>1, <2>2
<1> HIDE DEF v
<1>5. Nibble(s, p) = Nibble(w, p) + Nibble(w, p + 8) /\ ~Carry(w, v, p + 4)
  BY <1>1, <1>2, <1>3, NibbleSum
<1>6. p + 4 \notin s
  BY <1>1, <1>4, <1>5, SumBit DEF Plus
<1> QED
  BY <1>5, <1>6 DEF s, v

\* The last stage has five bits.
LEMMA WordStage ==
  ASSUME NEW w \in Word, 4 \notin w, 20 \notin w, Nibble(w, 0) + Nibble(w, 16) <= 16
  PROVE  Number(Plus(w, Sar(w, 16)) \cap 0 .. 4) = Nibble(w, 0) + Nibble(w, 16)
<1> DEFINE v == Sar(w, 16)
           s == Plus(w, v)
           c(i) == IF Carry(w, v, i) THEN 1 ELSE 0
<1>1. v \in Word /\ 0 \in Bits /\ 1 \in Bits /\ 2 \in Bits /\ 3 \in Bits /\ 4 \in Bits /\ 16 \in Bits
  BY SarType DEF Bits
<1>2. 4 \notin v
  <2>1. 4 + 16 <= 31 /\ 4 + 16 = 20
    OBVIOUS
  <2> QED
    BY <1>1, <2>1, SarBit
<1>3. Nibble(v, 0) = Nibble(w, 16)
  <2>1. 0 + 16 + 3 <= 31 /\ 0 + 16 = 16
    OBVIOUS
  <2> QED
    BY <1>1, <2>1, NibbleSar
<1> HIDE DEF v
<1>4. ~Carry(w, v, 0)
  BY <1>1, NoCarry
<1>5. Digit(s, 0) + 2 * c(0 + 1) = Digit(w, 0) + Digit(v, 0) + c(0)
  BY <1>1, Adder
<1>6. Digit(s, 1) + 2 * c(1 + 1) = Digit(w, 1) + Digit(v, 1) + c(1)
  BY <1>1, Adder
<1>7. Digit(s, 2) + 2 * c(2 + 1) = Digit(w, 2) + Digit(v, 2) + c(2)
  BY <1>1, Adder
<1>8. Digit(s, 3) + 2 * c(3 + 1) = Digit(w, 3) + Digit(v, 3) + c(3)
  BY <1>1, Adder
<1>9. Digit(s, 4) = c(4)
  <2>1. 4 \in s <=> Carry(w, v, 4)
    BY <1>1, <1>2, SumBit DEF Plus
  <2> QED
    BY <2>1 DEF Digit
<1>10. c(0) = 0 /\ c(1) \in 0 .. 1 /\ c(2) \in 0 .. 1 /\ c(3) \in 0 .. 1 /\ c(4) \in 0 .. 1
  BY <1>4
<1>11. \A z, i : Digit(z, i) \in 0 .. 1
  BY DEF Digit
<1>12. Number(s \cap 0 .. 4) = Digit(s, 0) + 2 * Digit(s, 1) + 4 * Digit(s, 2) + 8 * Digit(s, 3) + 16 * Digit(s, 4)
  <2> HIDE DEF s
  <2> QED
    BY DEF Number, Digit
<1>13. \A z : Nibble(z, 0) = Digit(z, 0) + 2 * Digit(z, 1) + 4 * Digit(z, 2) + 8 * Digit(z, 3)
  BY DEF Nibble
<1>14. 0 + 1 = 1 /\ 1 + 1 = 2 /\ 2 + 1 = 3 /\ 3 + 1 = 4
  OBVIOUS
<1> HIDE DEF c, s
<1>15. Number(s \cap 0 .. 4) = Nibble(w, 0) + Nibble(v, 0)
  BY <1>5, <1>6, <1>7, <1>8, <1>9, <1>10, <1>11, <1>12, <1>13, <1>14
<1> QED
  BY <1>3, <1>15 DEF s, v

\* bits.c:264: the marks where runs of ones begin are counted in parallel, in fields of 2, 4, 8, 16
\* and 32 positions that never overflow.
THEOREM CountConsecutive1Right ==
  \A x \in Word : countConsecutive1(x) = test_countConsecutive1(x)
<1> SUFFICES ASSUME NEW x \in Word
             PROVE  countConsecutive1(x) = test_countConsecutive1(x)
  OBVIOUS
<1> DEFINE y0 == Marks(x)
           y1 == Pairs(x)
           y2 == Plus(y1, Sar(y1, 2)) \cap Repeated({0, 1, 4, 5})
           y3 == Plus(y2, Sar(y2, 4)) \cap Repeated(0 .. 3)
           y4 == Plus(y3, Sar(y3, 8))
           y5 == Plus(y4, Sar(y4, 16)) \cap 0 .. 4
<1>1. countConsecutive1(x) = y5
  BY PairStage DEF countConsecutive1
<1>2. y1 \in Word /\ \A i \in y1 : i % 2 = 0
  BY DEF Pairs, Word
<1>3. Cardinality(Marks(x))
        = Digit(y1, 0) + Digit(y1, 2) + Digit(y1, 4) + Digit(y1, 6) + Digit(y1, 8) + Digit(y1, 10)
            + Digit(y1, 12) + Digit(y1, 14) + Digit(y1, 16) + Digit(y1, 18) + Digit(y1, 20) + Digit(y1, 22)
            + Digit(y1, 24) + Digit(y1, 26) + Digit(y1, 28) + Digit(y1, 30)
  BY CountPairs
<1> HIDE DEF y1
<1>4. \A p \in {0, 4, 8, 12, 16, 20, 24, 28} : Nibble(y2, p) = Digit(y1, p) + Digit(y1, p + 2)
  BY <1>2, FourStage
<1>5. y2 \in Word /\ \A i \in y2 : i % 4 < 2
  <2>1. Plus(y1, Sar(y1, 2)) \in Word
    BY <1>2, SarType, PlusType
  <2> QED
    BY <2>1, Masks DEF Word
<1> HIDE DEF y2
<1>6. \A i : Digit(y1, i) \in 0 .. 1
  BY DEF Digit
<1>7. /\ Nibble(y2, 0) = Digit(y1, 0) + Digit(y1, 2) /\ Nibble(y2, 4) = Digit(y1, 4) + Digit(y1, 6)
      /\ Nibble(y2, 8) = Digit(y1, 8) + Digit(y1, 10) /\ Nibble(y2, 12) = Digit(y1, 12) + Digit(y1, 14)
      /\ Nibble(y2, 16) = Digit(y1, 16) + Digit(y1, 18) /\ Nibble(y2, 20) = Digit(y1, 20) + Digit(y1, 22)
      /\ Nibble(y2, 24) = Digit(y1, 24) + Digit(y1, 26) /\ Nibble(y2, 28) = Digit(y1, 28) + Digit(y1, 30)
  BY <1>4
<1>8. \A p \in {0, 4, 8, 12, 16, 20, 24, 28} : Nibble(y2, p) \in 0 .. 2
  BY <1>4, <1>6
<1>9. \A p \in {0, 8, 16, 24} : Nibble(y3, p) = Nibble(y2, p) + Nibble(y2, p + 4)
  <2> SUFFICES ASSUME NEW p \in {0, 8, 16, 24}
               PROVE  Nibble(y3, p) = Nibble(y2, p) + Nibble(y2, p + 4)
    OBVIOUS
  <2>1. Nibble(y2, p) \in 0 .. 2 /\ Nibble(y2, p + 4) \in 0 .. 2
    <3>1. p \in {0, 4, 8, 12, 16, 20, 24, 28} /\ p + 4 \in {0, 4, 8, 12, 16, 20, 24, 28}
      OBVIOUS
    <3> QED
      BY <1>8, <3>1
  <2>2. Nibble(y2, p) + Nibble(y2, p + 4) < 16
    BY <2>1
  <2> QED
    BY <1>5, <2>2, ByteStage
<1>10. y3 \in Word /\ \A i \in y3 : i % 8 < 4
  <2>1. Plus(y2, Sar(y2, 4)) \in Word
    BY <1>5, SarType, PlusType
  <2> QED
    BY <2>1, Masks DEF Word
<1> HIDE DEF y3
<1>11. /\ Nibble(y3, 0) = Nibble(y2, 0) + Nibble(y2, 4) /\ Nibble(y3, 8) = Nibble(y2, 8) + Nibble(y2, 12)
       /\ Nibble(y3, 16) = Nibble(y2, 16) + Nibble(y2, 20) /\ Nibble(y3, 24) = Nibble(y2, 24) + Nibble(y2, 28)
  BY <1>9
<1>12. /\ Nibble(y3, 0) \in 0 .. 4 /\ Nibble(y3, 8) \in 0 .. 4
       /\ Nibble(y3, 16) \in 0 .. 4 /\ Nibble(y3, 24) \in 0 .. 4
  BY <1>8, <1>11
<1>13. /\ Nibble(y4, 0) = Nibble(y3, 0) + Nibble(y3, 8) /\ 4 \notin y4
       /\ Nibble(y4, 16) = Nibble(y3, 16) + Nibble(y3, 24) /\ 20 \notin y4
  <2>1. 0 + 8 = 8 /\ 16 + 8 = 24 /\ 0 + 4 = 4 /\ 16 + 4 = 20
    OBVIOUS
  <2>2. Nibble(y3, 0) + Nibble(y3, 0 + 8) < 16 /\ Nibble(y3, 16) + Nibble(y3, 16 + 8) < 16
    BY <1>12, <2>1
  <2>3. Nibble(y4, 0) = Nibble(y3, 0) + Nibble(y3, 0 + 8) /\ 0 + 4 \notin y4
    BY <1>10, <2>2, HalfStage
  <2>4. Nibble(y4, 16) = Nibble(y3, 16) + Nibble(y3, 16 + 8) /\ 16 + 4 \notin y4
    BY <1>10, <2>2, HalfStage
  <2> HIDE DEF y4
  <2> QED
    BY <2>1, <2>3, <2>4
<1>14. y4 \in Word
  BY <1>10, SarType, PlusType
<1> HIDE DEF y4
<1>15. Nibble(y4, 0) + Nibble(y4, 16) <= 16
  BY <1>12, <1>13
<1>16. Number(y5) = Nibble(y4, 0) + Nibble(y4, 16)
  BY <1>13, <1>14, <1>15, WordStage
<1>17. y5 \in SUBSET (0 .. 4)
  OBVIOUS
<1> HIDE DEF y5
<1>18. Number(y5) = Cardinality(Marks(x))
  BY <1>3, <1>6, <1>7, <1>11, <1>13, <1>16
<1>19. FromNat(Number(y5)) = y5
  <2>1. y5 \in SUBSET (0 .. 7)
    BY <1>17
  <2> QED
    BY <2>1, FromNumber
<1> QED
  BY <1>1, <1>18, <1>19 DEF test_countConsecutive1, Marks

--------------------------------------------------------------------------
\* The exponent of a float as digits, and its field from its number.
LEMMA ExponentDigits ==
  ASSUME NEW y
  PROVE  Exponent(y) = Digit(y, 23) + 2 * Digit(y, 24) + 4 * Digit(y, 25) + 8 * Digit(y, 26)
                         + 16 * Digit(y, 27) + 32 * Digit(y, 28) + 64 * Digit(y, 29) + 128 * Digit(y, 30)
<1> DEFINE x == Shr(y, 23) \cap 0 .. 7
<1>1. /\ 0 \in x <=> 23 \in y
      /\ 1 \in x <=> 24 \in y
      /\ 2 \in x <=> 25 \in y
      /\ 3 \in x <=> 26 \in y
      /\ 4 \in x <=> 27 \in y
      /\ 5 \in x <=> 28 \in y
      /\ 6 \in x <=> 29 \in y
      /\ 7 \in x <=> 30 \in y
  BY DEF Shr, Bits
<1> HIDE DEF x
<1>2. Number(x) = Digit(y, 23) + 2 * Digit(y, 24) + 4 * Digit(y, 25) + 8 * Digit(y, 26)
                    + 16 * Digit(y, 27) + 32 * Digit(y, 28) + 64 * Digit(y, 29) + 128 * Digit(y, 30)
  BY <1>1 DEF Number, Digit
<1> QED
  BY <1>2 DEF Exponent, x

\* The exponent and its field determine each other.
LEMMA ExponentIsField ==
  ASSUME NEW y
  PROVE  /\ Exponent(y) \in 0 .. 255
         /\ Shl(FromNat(Exponent(y)), 23) = y \cap ExponentField
         /\ Exponent(y) = 0 <=> y \cap ExponentField = Zero
         /\ Exponent(y) = 255 <=> y \cap ExponentField = ExponentField
         /\ Exponent(y) = 1 <=> y \cap ExponentField = {23}
<1> DEFINE x == Shr(y, 23) \cap 0 .. 7
<1>1. Exponent(y) = Number(x)
  BY DEF Exponent
<1>2. Exponent(y) \in 0 .. 255
  BY <1>1, NumberRange
<1>3. FromNat(Exponent(y)) = x
  <2>1. x \in SUBSET (0 .. 7)
    OBVIOUS
  <2> HIDE DEF x
  <2> QED
    BY <1>1, <2>1, FromNumber
<1>4. Shl(x, 23) = y \cap ExponentField
  BY DEF Shl, Shr, Bits, ExponentField
<1>5. Exponent(y) = Digit(y, 23) + 2 * Digit(y, 24) + 4 * Digit(y, 25) + 8 * Digit(y, 26)
                      + 16 * Digit(y, 27) + 32 * Digit(y, 28) + 64 * Digit(y, 29) + 128 * Digit(y, 30)
  BY ExponentDigits
<1>6. \A i \in ExponentField : i = 23 \/ i = 24 \/ i = 25 \/ i = 26 \/ i = 27 \/ i = 28 \/ i = 29 \/ i = 30
  BY DEF ExponentField
<1> HIDE DEF x
<1>7. Exponent(y) = 0 <=> \A i \in ExponentField : i \notin y
  BY <1>5, <1>6 DEF Digit, ExponentField
<1>8. Exponent(y) = 255 <=> \A i \in ExponentField : i \in y
  BY <1>5, <1>6 DEF Digit, ExponentField
<1>9. Exponent(y) = 1 <=> \A i \in ExponentField : i \in y <=> i = 23
  BY <1>5, <1>6 DEF Digit, ExponentField
<1>10. 23 \in ExponentField
  BY DEF ExponentField
<1> QED
  BY <1>2, <1>3, <1>4, <1>7, <1>8, <1>9, <1>10 DEF Zero

\* Exponents are added as numbers when no carry comes from the fractions.
LEMMA ExponentSum ==
  ASSUME NEW x \in Word, NEW y \in Word, ~Carry(x, y, 23)
  PROVE  Exponent(Plus(x, y)) + 256 * (IF Carry(x, y, 31) THEN 1 ELSE 0) = Exponent(x) + Exponent(y)
<1> DEFINE s == Plus(x, y)
           c(i) == IF Carry(x, y, i) THEN 1 ELSE 0
<1>1. \A i \in Bits : Digit(s, i) + 2 * c(i + 1) = Digit(x, i) + Digit(y, i) + c(i)
  BY Adder
<1>2. c(23) = 0 /\ \A i : c(i) \in 0 .. 1
  OBVIOUS
<1>3. \A z, i : Digit(z, i) \in 0 .. 1
  BY DEF Digit
<1> HIDE DEF c, s
<1>4. /\ Digit(s, 23) + 2 * c(24) = Digit(x, 23) + Digit(y, 23) + c(23)
      /\ Digit(s, 24) + 2 * c(25) = Digit(x, 24) + Digit(y, 24) + c(24)
      /\ Digit(s, 25) + 2 * c(26) = Digit(x, 25) + Digit(y, 25) + c(25)
      /\ Digit(s, 26) + 2 * c(27) = Digit(x, 26) + Digit(y, 26) + c(26)
      /\ Digit(s, 27) + 2 * c(28) = Digit(x, 27) + Digit(y, 27) + c(27)
      /\ Digit(s, 28) + 2 * c(29) = Digit(x, 28) + Digit(y, 28) + c(28)
      /\ Digit(s, 29) + 2 * c(30) = Digit(x, 29) + Digit(y, 29) + c(29)
      /\ Digit(s, 30) + 2 * c(31) = Digit(x, 30) + Digit(y, 30) + c(30)
  <2>1. /\ Digit(s, 23) + 2 * c(23 + 1) = Digit(x, 23) + Digit(y, 23) + c(23)
        /\ Digit(s, 24) + 2 * c(24 + 1) = Digit(x, 24) + Digit(y, 24) + c(24)
        /\ Digit(s, 25) + 2 * c(25 + 1) = Digit(x, 25) + Digit(y, 25) + c(25)
        /\ Digit(s, 26) + 2 * c(26 + 1) = Digit(x, 26) + Digit(y, 26) + c(26)
    BY <1>1 DEF Bits
  <2>2. /\ Digit(s, 27) + 2 * c(27 + 1) = Digit(x, 27) + Digit(y, 27) + c(27)
        /\ Digit(s, 28) + 2 * c(28 + 1) = Digit(x, 28) + Digit(y, 28) + c(28)
        /\ Digit(s, 29) + 2 * c(29 + 1) = Digit(x, 29) + Digit(y, 29) + c(29)
        /\ Digit(s, 30) + 2 * c(30 + 1) = Digit(x, 30) + Digit(y, 30) + c(30)
    BY <1>1 DEF Bits
  <2> QED
    BY <2>1, <2>2
<1>5. Exponent(s) + 256 * c(31) = Exponent(x) + Exponent(y)
  <2>2. Nibble(s, 23) + 16 * c(27) = Nibble(x, 23) + Nibble(y, 23) + c(23)
    BY <1>3, <1>4, <1>2 DEF Nibble
  <2>3. Nibble(s, 27) + 16 * c(31) = Nibble(x, 27) + Nibble(y, 27) + c(27)
    BY <1>3, <1>4, <1>2 DEF Nibble
  <2>4. \A z : Exponent(z) = Nibble(z, 23) + 16 * Nibble(z, 27) /\ Nibble(z, 23) \in Int /\ Nibble(z, 27) \in Int
    BY <1>3, ExponentDigits DEF Nibble
  <2>5. c(23) = 0 /\ c(27) \in Int /\ c(31) \in Int
    BY <1>2
  <2>6. /\ Exponent(s) = Nibble(s, 23) + 16 * Nibble(s, 27) /\ Nibble(s, 23) \in Int /\ Nibble(s, 27) \in Int
        /\ Exponent(x) = Nibble(x, 23) + 16 * Nibble(x, 27) /\ Nibble(x, 23) \in Int /\ Nibble(x, 27) \in Int
        /\ Exponent(y) = Nibble(y, 23) + 16 * Nibble(y, 27) /\ Nibble(y, 23) \in Int /\ Nibble(y, 27) \in Int
    BY <2>4
  <2> QED
    BY <2>2, <2>3, <2>5, <2>6
<1> QED
  BY <1>5 DEF s, c

\* Words without a common position are added by joining them.
LEMMA PlusDisjoint ==
  ASSUME NEW x \in Word, NEW y \in Word, x \cap y = {}
  PROVE  Plus(x, y) = x \cup y
<1>1. \A i : ~Carry(x, y, i)
  BY DEF Carry
<1>2. \A i \in Bits : i \in Plus(x, y) <=> i \in x \cup y
  <2> SUFFICES ASSUME NEW i \in Bits PROVE i \in Plus(x, y) <=> i \in x \cup y
    OBVIOUS
  <2>1. i \in Plus(x, y) <=> (Carry(x, y, i) <=> (i \in x <=> i \in y))
    BY SumBit DEF Plus
  <2> QED
    BY <1>1, <2>1
<1>3. Plus(x, y) \in Word
  BY PlusType
<1> QED
  BY <1>2, <1>3 DEF Word

\* The highest bit, given what it is.
LEMMA HighestIs ==
  ASSUME NEW x \in Word, NEW d \in x, \A j \in x : j <= d
  PROVE  Highest(x) = d
<1>1. x # Zero /\ x \subseteq Int
  BY DEF Zero, Word, Bits
<1>2. Highest(x) \in x /\ \A j \in x : j <= Highest(x)
  BY <1>1, HighestBit
<1>3. d <= Highest(x) /\ Highest(x) <= d /\ d \in Int /\ Highest(x) \in Int
  BY <1>1, <1>2
<1> HIDE DEF Highest
<1> QED
  BY <1>3

\* -0 is 0: the carry runs through the whole word.
LEMMA NegZero == Neg(Zero) = Zero
<1>1. Not(Zero) = Bits /\ Bits \in Word /\ One = Bool(TRUE)
  BY DEF Not, Zero, Word, Bool
<1>2. \A i \in Bits : i \in Plus(Bits, Bool(TRUE)) <=> ~(RunsTo(Bits, TRUE, i) <=> i \in Bits)
  BY <1>1, PlusBool
<1>3. \A i \in Bits : RunsTo(Bits, TRUE, i)
  BY DEF RunsTo, Bits
<1>4. One \in Word
  BY WordTypes
<1>5. Plus(Bits, One) \in Word
  BY <1>1, <1>4, PlusType
<1>6. \A i \in Bits : i \notin Plus(Bits, One)
  BY <1>1, <1>2, <1>3
<1>7. Plus(Bits, One) = {}
  BY <1>5, <1>6 DEF Word
<1> QED
  BY <1>1, <1>7 DEF Neg, Zero

\* bits.c:446: out of range, below 1, and the shift in between.
THEOREM FloatF2iRight == \A uf \in Word : float_f2i(uf) = test_float_f2i(uf)
<1> SUFFICES ASSUME NEW uf \in Word
             PROVE  float_f2i(uf) = test_float_f2i(uf)
  OBVIOUS
<1> DEFINE e == Exponent(uf)
           b == (uf \cap FractionField) \cup {23}
           m == IF e >= 150 THEN Shl(b, e - 150) ELSE Shr(b, 150 - e)
           shift == e - 150
           tm == IF shift >= 0 THEN Shl(Significand(uf), shift) ELSE Shr(Significand(uf), -shift)
           odd == NotANumber(uf) \/ Infinite(uf)
<1>1. e \in 0 .. 255 /\ (odd => e = 255)
  <2>1. odd => 23 .. 30 \subseteq uf
    BY DEF NotANumber, Infinite
  <2>2. odd => uf \cap ExponentField = ExponentField
    BY <2>1 DEF ExponentField
  <2> QED
    BY <2>2, ExponentIsField
<1>2. float_f2i(uf) = CASE e >= 158 -> TMin
                        [] e <= 126 -> Zero
                        [] e \in 127 .. 157 -> IF Sign \in uf THEN Neg(m) ELSE m
  BY DEF float_f2i, Exponent
<1>3. test_float_f2i(uf) = CASE odd \/ shift > 7 -> TMin
                             [] OTHER -> IF Negative(uf) THEN Neg(tm) ELSE tm
  BY DEF test_float_f2i
<1>4. Significand(uf) = (uf \cap 0 .. 22) \cup (IF e = 0 THEN Zero ELSE {23})
  BY DEF Significand
<1> HIDE DEF e, odd
<1>5. CASE e >= 158
  BY <1>1, <1>2, <1>3, <1>5
<1>6. CASE e <= 126
  <2>1. ~(odd \/ shift > 7) /\ ~(shift >= 0) /\ -shift >= 24 /\ -shift \in Int
    BY <1>1, <1>6
  <2>2. Significand(uf) \subseteq 0 .. 23
    BY <1>4 DEF Zero
  <2>3. tm = Zero
    <3>1. tm = Shr(Significand(uf), -shift)
      BY <2>1
    <3> HIDE DEF shift, tm
    <3>2. \A i \in Bits : i + (-shift) \notin Significand(uf)
      BY <2>1, <2>2 DEF Bits
    <3> QED
      BY <3>1, <3>2 DEF Shr, Zero
  <2>4. float_f2i(uf) = Zero
    BY <1>1, <1>2, <1>6
  <2>5. test_float_f2i(uf) = IF Negative(uf) THEN Neg(tm) ELSE tm
    BY <1>3, <2>1
  <2> QED
    BY <2>3, <2>4, <2>5, NegZero
<1>7. CASE e \in 127 .. 157
  <2>1. ~(odd \/ shift > 7) /\ (shift >= 0 <=> e >= 150) /\ -shift = 150 - e
    BY <1>1, <1>7
  <2>2. Significand(uf) = b
    BY <1>4, <1>7 DEF FractionField
  <2>3. tm = m
    BY <2>1, <2>2
  <2>4. float_f2i(uf) = IF Sign \in uf THEN Neg(m) ELSE m
    BY <1>1, <1>2, <1>7
  <2>5. test_float_f2i(uf) = IF Negative(uf) THEN Neg(tm) ELSE tm
    BY <1>3, <2>1
  <2> QED
    BY <2>3, <2>4, <2>5 DEF Negative
<1> QED
  BY <1>1, <1>5, <1>6, <1>7

--------------------------------------------------------------------------
\* A float is its sign, its exponent field and its fraction; it is not finite when all of
\* the exponent field is set.
LEMMA FloatFields ==
  ASSUME NEW uf \in Word
  PROVE  /\ uf = (uf \cap {Sign}) \cup ((uf \cap ExponentField) \cup (uf \cap FractionField))
         /\ (NotANumber(uf) \/ Infinite(uf)) <=> uf \cap ExponentField = ExponentField
<1>1. Bits = {Sign} \cup (ExponentField \cup FractionField)
  BY DEF Bits, Sign, ExponentField, FractionField
<1>2. 0 .. 30 = ExponentField \cup FractionField /\ 23 .. 30 = ExponentField /\ 0 .. 22 = FractionField
      /\ ExponentField \cap FractionField = {}
  BY DEF ExponentField, FractionField
<1>3. NotANumber(uf) <=> ExponentField \subseteq uf /\ uf \cap FractionField # {}
  BY <1>2 DEF NotANumber, Zero
<1>4. Infinite(uf) <=> uf \cap (ExponentField \cup FractionField) = ExponentField
  BY <1>2 DEF Infinite
<1>5. uf \subseteq {Sign} \cup (ExponentField \cup FractionField)
  BY <1>1 DEF Word
<1> QED
  BY <1>2, <1>3, <1>4, <1>5

\* A significand of 24 bits needs no shift: the exponent is the float's.
LEMMA NearestNormal ==
  ASSUME NEW sign, NEW sig \in SUBSET (0 .. 23), NEW e, e \in 1 .. 255, 23 \in sig
  PROVE  /\ e = 255 => NearestFloat(sign, sig, e) = sign \cup ExponentField
         /\ e # 255 => NearestFloat(sign, sig, e) = sign \cup (Shl(FromNat(e), 23) \cup (sig \cap FractionField))
<1>1. sig \in Word /\ sig # Zero /\ \A j \in sig : j <= 23
  BY DEF Word, Bits, Zero
<1>2. Highest(sig) = 23
  BY <1>1, HighestIs
<1> DEFINE top   == IF sig = Zero THEN 0 ELSE Highest(sig)
           shift == IF e - (23 - top) < 1 THEN 1 - e ELSE top - 23
           s     == IF shift > 0 THEN Rounded(sig, shift) ELSE Shl(sig, -shift)
           field == IF 23 \in s THEN e + shift ELSE 0
<1>3. NearestFloat(sign, sig, e)
        = sign \cup (IF field >= 255 THEN 23 .. 30 ELSE Shl(FromNat(field), 23) \cup (s \cap 0 .. 22))
  BY DEF NearestFloat
<1>4. top = 23
  BY <1>1, <1>2
<1> HIDE DEF top
<1>5. shift = 0
  BY <1>4
<1> HIDE DEF shift
<1>6. s = sig
  <2>1. s = Shl(sig, 0)
    BY <1>5
  <2>2. Shl(sig, 0) = sig
    <3>1. \A i \in Bits : i - 0 = i
      BY DEF Bits
    <3>2. Shl(sig, 0) = {i \in Bits : i \in sig}
      BY <3>1 DEF Shl
    <3> QED
      BY <1>1, <3>2 DEF Word
  <2> QED
    BY <2>1, <2>2
<1> HIDE DEF s
<1>7. field = e
  BY <1>5, <1>6
<1> HIDE DEF field
<1>8. field >= 255 <=> e = 255
  BY <1>7
<1> QED
  BY <1>3, <1>6, <1>7, <1>8 DEF ExponentField, FractionField

\* The positions of a sum around the exponent field, when nothing is added to the fraction.
LEMMA FieldAdded ==
  ASSUME NEW x \in Word, NEW y \in SUBSET (23 .. 31)
  PROVE  /\ Plus(x, y) \in Word
         /\ Plus(x, y) \cap FractionField = x \cap FractionField
         /\ Sign \in Plus(x, y) <=> (Carry(x, y, 31) <=> (Sign \in x <=> Sign \in y))
         /\ Exponent(Plus(x, y)) + 256 * (IF Carry(x, y, 31) THEN 1 ELSE 0) = Exponent(x) + Exponent(y)
<1>1. y \in Word /\ x \subseteq Int
  BY DEF Word, Bits
<1>2. \A i \in 0 .. 23 : ~Carry(x, y, i)
  BY <1>1 DEF Carry
<1>3. \A i \in Bits : i \in Plus(x, y) <=> (Carry(x, y, i) <=> (i \in x <=> i \in y))
  BY SumBit DEF Plus
<1>4. \A i \in FractionField : i \in Plus(x, y) <=> i \in x
  BY <1>2, <1>3 DEF FractionField, Bits
<1>5. Sign \in Plus(x, y) <=> (Carry(x, y, 31) <=> (Sign \in x <=> Sign \in y))
  BY <1>3 DEF Sign, Bits
<1>6. ~Carry(x, y, 23)
  BY <1>2
<1>7. Exponent(Plus(x, y)) + 256 * (IF Carry(x, y, 31) THEN 1 ELSE 0) = Exponent(x) + Exponent(y)
  BY <1>1, <1>6, ExponentSum
<1>8. Plus(x, y) \in Word
  BY <1>1, PlusType
<1> QED
  BY <1>4, <1>5, <1>7, <1>8

\* Exponents 1 and 0.
LEMMA SmallFields ==
  /\ Exponent({23}) = 1
  /\ Shl(FromNat(1), 23) = {23} /\ Shl(FromNat(0), 23) = {}
  /\ \A x, y : x \cap ExponentField = y \cap ExponentField => Exponent(x) = Exponent(y)
<1>1. {23} \cap ExponentField = {23}
  BY DEF ExponentField
<1>2. Exponent({23}) = 1
  BY <1>1, ExponentIsField
<1>3. Shl(FromNat(1), 23) = {23}
  BY <1>1, <1>2, ExponentIsField
<1>4. Exponent({}) = 0
  BY ExponentIsField DEF Zero
<1>5. Shl(FromNat(0), 23) = {}
  BY <1>4, ExponentIsField
<1>6. ASSUME NEW x, NEW y, x \cap ExponentField = y \cap ExponentField
      PROVE  Exponent(x) = Exponent(y)
  <2>1. Shr(x, 23) \cap 0 .. 7 = Shr(y, 23) \cap 0 .. 7
    <3>1. \A i \in 0 .. 7 : i + 23 \in ExponentField
      BY DEF ExponentField
    <3>2. \A i \in 0 .. 7 : i + 23 \in x <=> i + 23 \in y
      BY <1>6, <3>1
    <3> QED
      BY <3>2 DEF Shr
  <2> QED
    BY <2>1 DEF Exponent
<1> QED
  BY <1>2, <1>3, <1>5, <1>6

\* bits.c:400: normal numbers up to overflow, and denormals up to the smallest normal numbers.
THEOREM FloatTwiceRight == \A uf \in Word : float_twice(uf) = test_float_twice(uf)
<1> SUFFICES ASSUME NEW uf \in Word
             PROVE  float_twice(uf) = test_float_twice(uf)
  OBVIOUS
<1> DEFINE s == uf \cap {Sign}
           e == uf \cap ExponentField
           b == uf \cap FractionField
           e1 == Plus(e, {23})
           sig == Significand(uf)
           odd == NotANumber(uf) \/ Infinite(uf)
<1>1. float_twice(uf) = CASE e = ExponentField -> uf
                          [] e # ExponentField /\ e # Zero ->
                               Plus(Plus(s, e1), IF e1 = ExponentField THEN Zero ELSE b)
                          [] e = Zero -> Plus(Plus(s, e), Shl(b, 1))
  BY DEF float_twice
<1>2. test_float_twice(uf) = IF odd THEN uf ELSE NearestFloat(s, sig, Scale(uf) + 1)
  BY DEF test_float_twice, Scaled
<1>3. uf = s \cup (e \cup b) /\ (odd <=> e = ExponentField)
  BY FloatFields
<1>4. /\ s \in Word /\ e \in Word /\ b \in Word /\ b \subseteq FractionField /\ e \subseteq ExponentField /\ s \subseteq {Sign}
      /\ ExponentField # Zero
  BY DEF Word, ExponentField, Zero
<1>5. /\ Exponent(uf) \in 0 .. 255
      /\ Exponent(uf) = 255 <=> e = ExponentField
      /\ Exponent(uf) = 0 <=> e = Zero
  BY ExponentIsField
<1>6. sig = b \cup (IF Exponent(uf) = 0 THEN Zero ELSE {23}) /\ Scale(uf) = IF Exponent(uf) = 0 THEN 1 ELSE Exponent(uf)
  BY DEF Significand, Scale, FractionField
<1> HIDE DEF s, e, b, sig, odd
<1>7. CASE e = ExponentField
  BY <1>1, <1>2, <1>3, <1>4, <1>7
<1>8. CASE e # ExponentField /\ e # Zero
  <2>1. Exponent(uf) \in 1 .. 254 /\ sig = b \cup {23} /\ Scale(uf) = Exponent(uf)
    BY <1>5, <1>6, <1>8
  <2>2. Exponent(e) = Exponent(uf)
    <3>1. e \cap ExponentField = uf \cap ExponentField
      BY DEF e
    <3> QED
      BY <3>1, SmallFields
  <2>3. /\ e1 \in Word /\ e1 \cap FractionField = e \cap FractionField
        /\ Sign \in e1 <=> (Carry(e, {23}, 31) <=> (Sign \in e <=> Sign \in {23}))
        /\ Exponent(e1) + 256 * (IF Carry(e, {23}, 31) THEN 1 ELSE 0) = Exponent(e) + Exponent({23})
    <3>1. {23} \in SUBSET (23 .. 31)
      OBVIOUS
    <3> QED
      BY <1>4, <3>1, FieldAdded
  <2> HIDE DEF e1
  <2>4. Exponent(e1) \in 0 .. 255 /\ Exponent({23}) = 1
    BY ExponentIsField, SmallFields
  <2>5. Exponent(e1) = Exponent(uf) + 1 /\ ~Carry(e, {23}, 31)
    BY <2>1, <2>2, <2>3, <2>4
  <2>6. e1 = e1 \cap ExponentField
    <3>1. Sign \notin e1 /\ e1 \cap FractionField = {}
      BY <1>4, <2>3, <2>5 DEF Sign, ExponentField, FractionField
    <3> QED
      BY <2>3, <3>1, FloatFields
  <2>7. e1 = Shl(FromNat(Exponent(uf) + 1), 23) /\ (e1 = ExponentField <=> Exponent(uf) + 1 = 255)
    BY <2>5, <2>6, ExponentIsField
  <2>8. NearestFloat(s, sig, Exponent(uf) + 1)
          = s \cup (IF Exponent(uf) + 1 = 255 THEN ExponentField
                    ELSE Shl(FromNat(Exponent(uf) + 1), 23) \cup (sig \cap FractionField))
    <3>1. sig \in SUBSET (0 .. 23) /\ 23 \in sig /\ Exponent(uf) + 1 \in 1 .. 255
      BY <1>4, <2>1 DEF FractionField
    <3> QED
      BY <3>1, NearestNormal
  <2>9. sig \cap FractionField = b
    <3>1. 23 \notin FractionField
      BY DEF FractionField
    <3> QED
      BY <1>4, <2>1, <3>1
  <2> DEFINE b1 == IF e1 = ExponentField THEN Zero ELSE b
  <2>10. b1 \in Word /\ b1 \cap e1 = {} /\ b1 \cap s = {} /\ s \cap e1 = {}
    <3>1. e1 \subseteq ExponentField /\ b1 \subseteq b /\ b1 \in Word
      BY <1>4, <2>6 DEF Zero, Word
    <3>2. ExponentField \cap FractionField = {} /\ Sign \notin ExponentField /\ Sign \notin FractionField
      BY DEF Sign, ExponentField, FractionField
    <3> HIDE DEF b1
    <3> QED
      BY <1>4, <3>1, <3>2
  <2>11. Plus(s, e1) = s \cup e1
    BY <1>4, <2>3, <2>10, PlusDisjoint
  <2>12. s \cup e1 \in Word /\ (s \cup e1) \cap b1 = {}
    BY <1>4, <2>3, <2>10 DEF Word
  <2> HIDE DEF b1
  <2>13. Plus(Plus(s, e1), b1) = s \cup e1 \cup b1
    BY <2>10, <2>11, <2>12, PlusDisjoint
  <2>14. float_twice(uf) = s \cup e1 \cup b1
    BY <1>1, <1>8, <2>13 DEF b1, e1
  <2>15. test_float_twice(uf) = NearestFloat(s, sig, Exponent(uf) + 1)
    BY <1>2, <1>3, <1>8, <2>1
  <2> QED
    BY <2>7, <2>8, <2>9, <2>14, <2>15 DEF b1, Zero
<1>9. CASE e = Zero
  <2>1. Exponent(uf) = 0 /\ sig = b /\ Scale(uf) + 1 = 2 /\ b \subseteq 0 .. 22
    BY <1>4, <1>5, <1>6, <1>9 DEF Zero, FractionField
  <2> DEFINE top   == IF sig = Zero THEN 0 ELSE Highest(sig)
             shift == IF 2 - (23 - top) < 1 THEN 1 - 2 ELSE top - 23
             r     == IF shift > 0 THEN Rounded(sig, shift) ELSE Shl(sig, -shift)
             field == IF 23 \in r THEN 2 + shift ELSE 0
  <2>2. NearestFloat(s, sig, 2)
          = s \cup (IF field >= 255 THEN 23 .. 30 ELSE Shl(FromNat(field), 23) \cup (r \cap 0 .. 22))
    BY DEF NearestFloat
  <2>3. top \in 0 .. 22
    <3>1. sig \in Word /\ sig \subseteq 0 .. 22
      BY <1>4, <2>1
    <3>2. sig # Zero => Highest(sig) \in sig
      BY <3>1, HighestBit
    <3>3. sig # Zero => Highest(sig) \in 0 .. 22
      BY <3>1, <3>2
    <3> QED
      BY <3>3
  <2> HIDE DEF top
  <2>4. shift = -1
    BY <2>3
  <2> HIDE DEF shift
  <2>5. r = Shl(b, 1)
    <3>1. shift = -1
      BY <2>4
    <3>2. -shift = 1
      <4>1. shift \in Int /\ shift + 1 = 0
        BY <3>1
      <4> QED
        BY <4>1
    <3>3. ~(shift > 0)
      BY <3>1
    <3> QED
      BY <2>1, <3>2, <3>3 DEF r
  <2> HIDE DEF r
  <2>6. r \subseteq 0 .. 23
    BY <2>1, <2>5 DEF Shl, Bits
  <2>7. field = (IF 23 \in r THEN 1 ELSE 0)
    BY <2>4
  <2> HIDE DEF field
  <2>8. NearestFloat(s, sig, 2) = s \cup r
    <3>1. NearestFloat(s, sig, 2) = s \cup (Shl(FromNat(field), 23) \cup (r \cap 0 .. 22))
      BY <2>2, <2>7
    <3>2. Shl(FromNat(field), 23) = IF 23 \in r THEN {23} ELSE {}
      BY <2>7, SmallFields
    <3>3. r = (IF 23 \in r THEN {23} ELSE {}) \cup (r \cap 0 .. 22)
      <4>1. \A i \in r : i = 23 \/ i \in 0 .. 22
        BY <2>6
      <4> QED
        BY <4>1
    <3> QED
      BY <3>1, <3>2, <3>3
  <2>9. Plus(s, e) = s
    BY <1>4, <1>9, PlusZero
  <2>10. Plus(s, Shl(b, 1)) = s \cup r
    <3>1. r \in Word /\ s \cap r = {}
      BY <1>4, <2>6 DEF Word, Bits, Sign
    <3> QED
      BY <1>4, <2>5, <3>1, PlusDisjoint
  <2>11. float_twice(uf) = s \cup r
    BY <1>1, <1>4, <1>9, <2>9, <2>10
  <2>12. test_float_twice(uf) = NearestFloat(s, sig, 2)
    BY <1>2, <1>3, <1>4, <1>9, <2>1
  <2> QED
    BY <2>8, <2>11, <2>12
<1> QED
  BY <1>7, <1>8, <1>9

--------------------------------------------------------------------------
\* A position of -x is set if the first one of x from below is there, or below it and the
\* position is not set in x.
LEMMA NegBits ==
  ASSUME NEW x \in Word, NEW i \in Bits
  PROVE  i \in Neg(x) <=> (i \in x <=> \A k \in x : ~(k < i))
<1>1. Not(x) \in Word /\ One = Bool(TRUE)
  BY DEF Not, Word, Bool
<1>2. i \in Plus(Not(x), Bool(TRUE)) <=> ~(RunsTo(Not(x), TRUE, i) <=> i \in Not(x))
  BY <1>1, PlusBool
<1>3. RunsTo(Not(x), TRUE, i) <=> \A k \in x : ~(k < i)
  <2>1. 0 .. (i - 1) \subseteq Bits /\ \A k \in Bits : k \in 0 .. (i - 1) <=> k < i
    BY DEF Bits
  <2>2. x \subseteq Bits /\ \A k \in Bits : k \in Not(x) <=> k \notin x
    BY DEF Word, Not
  <2> QED
    BY <2>1, <2>2 DEF RunsTo
<1>4. i \in Not(x) <=> i \notin x
  BY DEF Not
<1> QED
  BY <1>1, <1>2, <1>3, <1>4 DEF Neg

\* Adding 1 before or after the shift to the right is the same when a one is shifted out.
LEMMA RoundUp ==
  ASSUME NEW b \in SUBSET (0 .. 23), 0 \in b
  PROVE  /\ Shr(Plus(b, One), 1) = Plus(Shr(b, 1), One)
         /\ Plus(Shr(b, 1), One) \subseteq 0 .. 23
<1> DEFINE h == Shr(b, 1)
<1>1. b \in Word /\ h \in Word /\ One = Bool(TRUE) /\ One \in Word
  BY DEF Word, Bits, Shr, Bool, One
<1>2. \A i \in Bits : (i \in h <=> i + 1 \in b) /\ (i + 1 \in b => i \in 0 .. 22)
  BY DEF Shr, Bits
<1>3. \A i \in Bits : i \in Plus(b, Bool(TRUE)) <=> ~(RunsTo(b, TRUE, i) <=> i \in b)
  BY <1>1, PlusBool
<1>4. \A i \in Bits : i \in Plus(h, Bool(TRUE)) <=> ~(RunsTo(h, TRUE, i) <=> i \in h)
  BY <1>1, PlusBool
<1>5. Plus(b, One) \in Word /\ Plus(h, One) \in Word
  BY <1>1, PlusType
<1> HIDE DEF h
<1>6. ASSUME NEW i \in Bits
      PROVE  RunsTo(b, TRUE, i + 1) <=> RunsTo(h, TRUE, i)
  <2>1. ASSUME RunsTo(b, TRUE, i + 1), NEW k \in 0 .. (i - 1)
        PROVE  k \in h
    <3>1. k \in Bits /\ k + 1 \in 0 .. ((i + 1) - 1)
      BY DEF Bits
    <3>2. k + 1 \in b
      BY <2>1, <3>1 DEF RunsTo
    <3> QED
      BY <1>2, <3>1, <3>2
  <2>2. ASSUME RunsTo(h, TRUE, i), NEW k \in 0 .. ((i + 1) - 1)
        PROVE  k \in b
    <3>1. CASE k = 0
      BY <3>1
    <3>2. CASE k # 0
      <4>1. k - 1 \in 0 .. (i - 1) /\ k - 1 \in Bits /\ (k - 1) + 1 = k
        BY <3>2 DEF Bits
      <4>2. k - 1 \in h
        BY <2>2, <4>1 DEF RunsTo
      <4>3. (k - 1) + 1 \in b
        BY <1>2, <4>1, <4>2
      <4> QED
        BY <4>1, <4>3
    <3> QED
      BY <3>1, <3>2
  <2> QED
    BY <2>1, <2>2 DEF RunsTo
<1>7. ASSUME NEW i \in Bits, i >= 23
      PROVE  i \notin h /\ (i >= 24 => i \notin Plus(h, One))
  <2>1. i \notin h
    BY <1>2, <1>7
  <2>2. i >= 24 => 23 \in 0 .. (i - 1) /\ 23 \in Bits
    BY DEF Bits
  <2>3. 23 \in Bits => 23 \notin h
    BY <1>2
  <2>4. i >= 24 => ~RunsTo(h, TRUE, i)
    BY <2>2, <2>3 DEF RunsTo
  <2> QED
    BY <1>1, <1>4, <2>1, <2>4
<1>8. ASSUME NEW i \in Bits
      PROVE  i + 1 \in Plus(b, One) <=> i \in Plus(h, One)
  <2>1. CASE i = 31
    <3>1. i + 1 \notin Plus(b, One)
      BY <1>5, <2>1 DEF Word, Bits
    <3>2. i \notin Plus(h, One)
      BY <1>7, <2>1
    <3> QED
      BY <3>1, <3>2
  <2>2. CASE i # 31
    <3>1. i + 1 \in Bits
      BY <2>2 DEF Bits
    <3> QED
      BY <1>1, <1>2, <1>3, <1>4, <1>6, <3>1
  <2> QED
    BY <2>1, <2>2
<1>9. Shr(Plus(b, One), 1) = Plus(h, One)
  <2>1. Shr(Plus(b, One), 1) = {i \in Bits : i \in Plus(h, One)}
    BY <1>8 DEF Shr
  <2> QED
    BY <1>5, <2>1 DEF Word
<1>10. Plus(h, One) \subseteq 0 .. 23
  <2>1. \A i \in Bits : ~(i >= 24) => i \in 0 .. 23
    BY DEF Bits
  <2> QED
    BY <1>5, <1>7, <2>1 DEF Word, Bits
<1> QED
  BY <1>9, <1>10 DEF h

\* The exponent fields above that of the smallest normal numbers.
LEMMA AboveSmallest ==
  ASSUME NEW e \in SUBSET ExponentField
  PROVE  UnsignedLeq(e, {23}) <=> e = Zero \/ e = {23}
<1> DEFINE x == Xor(e, {23})
<1>1. e \in Word /\ x \in Word
  BY DEF Word, Bits, ExponentField, Xor
<1>2. UnsignedLeq(e, {23}) <=> e = {23} \/ Highest(x) = 23
  BY DEF UnsignedLeq
<1>3. CASE e = Zero
  <2>1. x = {23}
    BY <1>3 DEF Xor, Zero
  <2> HIDE DEF x
  <2>2. Highest(x) = 23
    BY <1>1, <2>1, HighestIs
  <2> QED
    BY <1>2, <1>3, <2>2
<1>4. CASE e = {23}
  BY <1>2, <1>4
<1>5. CASE e # Zero /\ e # {23}
  <2>1. PICK d \in e : d # 23
    BY <1>5 DEF Zero
  <2>2. d > 23 /\ d \in Int
    BY <2>1 DEF ExponentField
  <2>3. d \in x
    BY <2>1 DEF Xor
  <2> HIDE DEF x
  <2>4. x # Zero
    BY <2>3 DEF Zero
  <2>5. d <= Highest(x)
    BY <1>1, <2>3, <2>4, HighestBit
  <2>6. Highest(x) # 23
    BY <2>2, <2>5
  <2> QED
    BY <1>2, <1>5, <2>6
<1> QED
  BY <1>3, <1>4, <1>5

\* Subtracting 0x800000 from a normal number takes 1 from its exponent.
LEMMA ExponentLess ==
  ASSUME NEW uf \in Word, Exponent(uf) \in 1 .. 255
  PROVE  Minus(uf, {23}) = (uf \cap {Sign}) \cup (Shl(FromNat(Exponent(uf) - 1), 23) \cup (uf \cap FractionField))
<1> DEFINE m == Neg({23})
           p == Plus(uf, m)
<1>1. {23} \in Word
  BY DEF Word, Bits
<1>2. m = 23 .. 31
  <2>1. m \in Word
    BY <1>1, WordTypes
  <2>2. \A i \in Bits : i \in m <=> (i \in {23} <=> \A k \in {23} : ~(k < i))
    BY <1>1, NegBits
  <2> HIDE DEF m
  <2>3. \A i \in Bits : i \in m <=> i \in 23 .. 31
    BY <2>2 DEF Bits
  <2>4. 23 .. 31 \subseteq Bits
    BY DEF Bits
  <2> QED
    BY <2>1, <2>3, <2>4 DEF Word
<1>3. Minus(uf, {23}) = p
  BY DEF Minus
<1> HIDE DEF m
<1>4. /\ p \in Word /\ p \cap FractionField = uf \cap FractionField
      /\ Sign \in p <=> (Carry(uf, m, 31) <=> (Sign \in uf <=> Sign \in m))
      /\ Exponent(p) + 256 * (IF Carry(uf, m, 31) THEN 1 ELSE 0) = Exponent(uf) + Exponent(m)
  <2>1. m \in SUBSET (23 .. 31)
    BY <1>2
  <2> QED
    BY <2>1, FieldAdded
<1> HIDE DEF p
<1>5. Exponent(m) = 255
  <2>1. m \cap ExponentField = ExponentField
    BY <1>2 DEF ExponentField
  <2> QED
    BY <2>1, ExponentIsField
<1>6. Exponent(p) \in 0 .. 255
  BY ExponentIsField
<1>7. Exponent(p) = Exponent(uf) - 1 /\ Carry(uf, m, 31)
  <2> DEFINE E == Exponent(uf)
             F == Exponent(p)
  <2>1. E \in 1 .. 255 /\ F \in 0 .. 255
    BY <1>6
  <2>2. F + 256 * (IF Carry(uf, m, 31) THEN 1 ELSE 0) = E + 255
    BY <1>4, <1>5
  <2> HIDE DEF E, F
  <2>3. Carry(uf, m, 31)
    BY <2>1, <2>2
  <2>4. F = E - 1
    BY <2>1, <2>2, <2>3
  <2> QED
    BY <2>3, <2>4 DEF E, F
<1>8. Sign \in p <=> Sign \in uf
  <2>1. Sign \in m
    BY <1>2 DEF Sign
  <2> QED
    BY <1>4, <1>7, <2>1
<1>9. p \cap ExponentField = Shl(FromNat(Exponent(uf) - 1), 23)
  BY <1>7, ExponentIsField
<1>10. p = (p \cap {Sign}) \cup ((p \cap ExponentField) \cup (p \cap FractionField))
  BY <1>4, FloatFields
<1>11. p \cap {Sign} = uf \cap {Sign}
  BY <1>8
<1> QED
  BY <1>3, <1>4, <1>9, <1>10, <1>11

\* bits.c:423: numbers that stay normal, the smallest normal ones and the denormals, where
\* a half is rounded to even, and those that are not finite.
THEOREM FloatHalfRight == \A uf \in Word : float_half(uf) = test_float_half(uf)
<1> SUFFICES ASSUME NEW uf \in Word
             PROVE  float_half(uf) = test_float_half(uf)
  OBVIOUS
<1> DEFINE s == uf \cap {Sign}
           e == uf \cap ExponentField
           f == uf \cap FractionField
           b == f \cup e
           rounded == IF {0, 1} \subseteq b THEN Plus(b, One) ELSE b
           sig == Significand(uf)
           odd == NotANumber(uf) \/ Infinite(uf)
<1>1. float_half(uf) = CASE e = ExponentField -> uf
                         [] e # ExponentField /\ ~UnsignedLeq(e, {23}) -> Minus(uf, {23})
                         [] OTHER -> Plus(s, Shr(rounded, 1))
  BY DEF float_half
<1>2. test_float_half(uf) = IF odd THEN uf ELSE NearestFloat(s, sig, Scale(uf) + (-1))
  BY DEF test_float_half, Scaled
<1>3. odd <=> e = ExponentField
  BY FloatFields
<1>4. /\ s \in Word /\ f \subseteq FractionField /\ e \in SUBSET ExponentField /\ s \subseteq {Sign}
      /\ ExponentField # Zero /\ ExponentField # {23}
  BY DEF Word, ExponentField, Zero
<1>5. /\ Exponent(uf) \in 0 .. 255
      /\ Exponent(uf) = 255 <=> e = ExponentField
      /\ Exponent(uf) = 0 <=> e = Zero
      /\ Exponent(uf) = 1 <=> e = {23}
  BY ExponentIsField
<1>6. sig = f \cup (IF Exponent(uf) = 0 THEN Zero ELSE {23}) /\ Scale(uf) = IF Exponent(uf) = 0 THEN 1 ELSE Exponent(uf)
  BY DEF Significand, Scale, FractionField
<1>7. UnsignedLeq(e, {23}) <=> e = Zero \/ e = {23}
  BY <1>4, AboveSmallest
<1> HIDE DEF s, e, f, sig, odd
<1>8. CASE e = ExponentField
  BY <1>1, <1>2, <1>3, <1>8
<1>9. CASE e # ExponentField /\ e # Zero /\ e # {23}
  <2>1. Exponent(uf) \in 2 .. 254 /\ sig = f \cup {23} /\ Scale(uf) = Exponent(uf)
    BY <1>5, <1>6, <1>9
  <2>2. float_half(uf) = s \cup (Shl(FromNat(Exponent(uf) - 1), 23) \cup f)
    <3>1. Exponent(uf) \in 1 .. 255
      BY <2>1
    <3>2. Minus(uf, {23}) = s \cup (Shl(FromNat(Exponent(uf) - 1), 23) \cup f)
      BY <3>1, ExponentLess DEF s, f
    <3> QED
      BY <1>1, <1>7, <1>9, <3>2
  <2>3. test_float_half(uf) = NearestFloat(s, sig, Exponent(uf) - 1)
    <3>1. Scale(uf) + (-1) = Exponent(uf) - 1
      BY <2>1
    <3> QED
      BY <1>2, <1>3, <1>9, <3>1
  <2>4. NearestFloat(s, sig, Exponent(uf) - 1)
          = s \cup (Shl(FromNat(Exponent(uf) - 1), 23) \cup (sig \cap FractionField))
    <3>1. sig \in SUBSET (0 .. 23) /\ 23 \in sig
      BY <1>4, <2>1 DEF FractionField
    <3>2. Exponent(uf) - 1 \in 1 .. 255 /\ Exponent(uf) - 1 # 255
      BY <2>1
    <3> QED
      BY <3>1, <3>2, NearestNormal
  <2>5. sig \cap FractionField = f
    <3>1. 23 \notin FractionField
      BY DEF FractionField
    <3> QED
      BY <1>4, <2>1, <3>1
  <2> QED
    BY <2>2, <2>3, <2>4, <2>5
<1>10. CASE e = Zero \/ e = {23}
  <2>1. sig = b /\ Scale(uf) = 1 /\ b \in SUBSET (0 .. 23) /\ e # ExponentField
    <3>1. sig = b /\ Scale(uf) = 1
      BY <1>5, <1>6, <1>10
    <3>2. b \in SUBSET (0 .. 23)
      <4>1. f \subseteq 0 .. 22 /\ e \subseteq {23}
        BY <1>4, <1>10 DEF FractionField, Zero
      <4>2. 0 .. 22 \subseteq 0 .. 23 /\ 23 \in 0 .. 23
        OBVIOUS
      <4> QED
        BY <4>1, <4>2
    <3> QED
      BY <1>4, <1>10, <3>1, <3>2
  <2> HIDE DEF b
  <2> DEFINE h == Shr(rounded, 1)
             up == 0 \in b /\ 1 \in b
  <2>2. h = (IF up THEN Plus(Shr(b, 1), One) ELSE Shr(b, 1)) /\ h \subseteq 0 .. 23
    <3>1. CASE up
      BY <2>1, <3>1, RoundUp
    <3>2. CASE ~up
      <4>1. h = Shr(b, 1)
        BY <3>2
      <4>2. Shr(b, 1) \subseteq 0 .. 23
        BY <2>1 DEF Shr, Bits
      <4> QED
        BY <3>2, <4>1, <4>2
    <3> QED
      BY <3>1, <3>2
  <2>3. Rounded(b, 1) = h
    <3> DEFINE rest == {i \in b : i < 1}
               upwards == 1 - 1 \in rest /\ (rest # {1 - 1} \/ 1 \in b)
    <3>1. Rounded(b, 1) = IF upwards THEN Plus(Shr(b, 1), One) ELSE Shr(b, 1)
      BY DEF Rounded
    <3>2. rest \subseteq {0} /\ (0 \in rest <=> 0 \in b)
      <4>1. \A i \in 0 .. 23 : i < 1 <=> i = 0
        OBVIOUS
      <4>2. \A i : i \in rest <=> i \in b /\ i = 0
        BY <2>1, <4>1
      <4> HIDE DEF rest
      <4> QED
        BY <4>2
    <3> HIDE DEF rest
    <3>3. upwards <=> up
      <4>1. 1 - 1 = 0
        OBVIOUS
      <4>2. upwards <=> 0 \in rest /\ (rest # {0} \/ 1 \in b)
        BY <4>1
      <4>3. 0 \in rest => rest = {0}
        BY <3>2
      <4> QED
        BY <3>2, <4>2, <4>3
    <3> QED
      BY <2>2, <3>1, <3>3
  <2> HIDE DEF h
  <2> DEFINE top   == IF sig = Zero THEN 0 ELSE Highest(sig)
             shift == IF 0 - (23 - top) < 1 THEN 1 - 0 ELSE top - 23
             r     == IF shift > 0 THEN Rounded(sig, shift) ELSE Shl(sig, -shift)
             field == IF 23 \in r THEN 0 + shift ELSE 0
  <2>4. NearestFloat(s, sig, 0)
          = s \cup (IF field >= 255 THEN 23 .. 30 ELSE Shl(FromNat(field), 23) \cup (r \cap 0 .. 22))
    BY DEF NearestFloat
  <2>5. top \in 0 .. 23
    <3>1. sig \in Word /\ sig \subseteq 0 .. 23
      BY <2>1 DEF Word, Bits
    <3>2. sig # Zero => Highest(sig) \in sig
      BY <3>1, HighestBit
    <3>3. sig # Zero => Highest(sig) \in 0 .. 23
      BY <3>1, <3>2
    <3> QED
      BY <3>3
  <2> HIDE DEF top
  <2>6. shift = 1
    BY <2>5
  <2> HIDE DEF shift
  <2>7. r = h
    BY <2>1, <2>3, <2>6
  <2> HIDE DEF r
  <2>8. field = (IF 23 \in r THEN 1 ELSE 0)
    BY <2>6
  <2> HIDE DEF field
  <2>9. NearestFloat(s, sig, 0) = s \cup h
    <3>1. NearestFloat(s, sig, 0) = s \cup (Shl(FromNat(field), 23) \cup (r \cap 0 .. 22))
      BY <2>4, <2>8
    <3>2. Shl(FromNat(field), 23) = IF 23 \in r THEN {23} ELSE {}
      BY <2>8, SmallFields
    <3>3. r = (IF 23 \in r THEN {23} ELSE {}) \cup (r \cap 0 .. 22)
      <4>1. \A i \in r : i = 23 \/ i \in 0 .. 22
        BY <2>2, <2>7
      <4> QED
        BY <4>1
    <3> QED
      BY <2>7, <3>1, <3>2, <3>3
  <2>10. test_float_half(uf) = s \cup h
    <3>1. Scale(uf) + (-1) = 0
      BY <2>1
    <3> QED
      BY <1>2, <1>3, <2>1, <2>9, <3>1
  <2>11. float_half(uf) = Plus(s, h)
    BY <1>1, <1>7, <1>10, <2>1 DEF h
  <2>12. Plus(s, h) = s \cup h
    <3>1. h \in Word /\ s \cap h = {}
      BY <1>4, <2>2 DEF Word, Bits, Sign
    <3> QED
      BY <1>4, <3>1, PlusDisjoint
  <2> QED
    BY <2>10, <2>11, <2>12
<1> QED
  BY <1>8, <1>9, <1>10

--------------------------------------------------------------------------
\* Numbers of eight bits are added up to the carry out of them.
LEMMA ByteSum ==
  ASSUME NEW x \in Word, NEW y \in Word
  PROVE  Number(Plus(x, y)) + 256 * (IF Carry(x, y, 8) THEN 1 ELSE 0) = Number(x) + Number(y)
<1> DEFINE s == Plus(x, y)
           c(i) == IF Carry(x, y, i) THEN 1 ELSE 0
<1>1. \A i \in Bits : Digit(s, i) + 2 * c(i + 1) = Digit(x, i) + Digit(y, i) + c(i)
  BY Adder
<1>2. ~Carry(x, y, 0)
  BY CarryStep DEF Word, Bits
<1>3. c(0) = 0 /\ \A i : c(i) \in 0 .. 1
  BY <1>2
<1>4. \A z, i : Digit(z, i) \in 0 .. 1
  BY DEF Digit
<1> HIDE DEF c, s
<1>5. /\ Digit(s, 0) + 2 * c(1) = Digit(x, 0) + Digit(y, 0) + c(0)
      /\ Digit(s, 1) + 2 * c(2) = Digit(x, 1) + Digit(y, 1) + c(1)
      /\ Digit(s, 2) + 2 * c(3) = Digit(x, 2) + Digit(y, 2) + c(2)
      /\ Digit(s, 3) + 2 * c(4) = Digit(x, 3) + Digit(y, 3) + c(3)
  <2>1. /\ Digit(s, 0) + 2 * c(0 + 1) = Digit(x, 0) + Digit(y, 0) + c(0)
        /\ Digit(s, 1) + 2 * c(1 + 1) = Digit(x, 1) + Digit(y, 1) + c(1)
        /\ Digit(s, 2) + 2 * c(2 + 1) = Digit(x, 2) + Digit(y, 2) + c(2)
        /\ Digit(s, 3) + 2 * c(3 + 1) = Digit(x, 3) + Digit(y, 3) + c(3)
    BY <1>1 DEF Bits
  <2> QED
    BY <2>1
<1>6. /\ Digit(s, 4) + 2 * c(5) = Digit(x, 4) + Digit(y, 4) + c(4)
      /\ Digit(s, 5) + 2 * c(6) = Digit(x, 5) + Digit(y, 5) + c(5)
      /\ Digit(s, 6) + 2 * c(7) = Digit(x, 6) + Digit(y, 6) + c(6)
      /\ Digit(s, 7) + 2 * c(8) = Digit(x, 7) + Digit(y, 7) + c(7)
  <2>1. /\ Digit(s, 4) + 2 * c(4 + 1) = Digit(x, 4) + Digit(y, 4) + c(4)
        /\ Digit(s, 5) + 2 * c(5 + 1) = Digit(x, 5) + Digit(y, 5) + c(5)
        /\ Digit(s, 6) + 2 * c(6 + 1) = Digit(x, 6) + Digit(y, 6) + c(6)
        /\ Digit(s, 7) + 2 * c(7 + 1) = Digit(x, 7) + Digit(y, 7) + c(7)
    BY <1>1 DEF Bits
  <2> QED
    BY <2>1
<1> DEFINE L(z) == Digit(z, 0) + 2 * Digit(z, 1) + 4 * Digit(z, 2) + 8 * Digit(z, 3)
           H(z) == Digit(z, 4) + 2 * Digit(z, 5) + 4 * Digit(z, 6) + 8 * Digit(z, 7)
<1>7. L(s) + 16 * c(4) = L(x) + L(y) + c(0)
  BY <1>3, <1>4, <1>5
<1>8. H(s) + 16 * c(8) = H(x) + H(y) + c(4)
  BY <1>3, <1>4, <1>6
<1>9. \A z : Number(z) = L(z) + 16 * H(z) /\ L(z) \in Int /\ H(z) \in Int
  BY DEF Number, Digit
<1> HIDE DEF L, H
<1>10. /\ Number(s) = L(s) + 16 * H(s) /\ L(s) \in Int /\ H(s) \in Int
       /\ Number(x) = L(x) + 16 * H(x) /\ L(x) \in Int /\ H(x) \in Int
       /\ Number(y) = L(y) + 16 * H(y) /\ L(y) \in Int /\ H(y) \in Int
  BY <1>9
<1>11. c(0) = 0 /\ c(4) \in Int /\ c(8) \in Int
  BY <1>3
<1>12. Number(s) + 256 * c(8) = Number(x) + Number(y)
  BY <1>7, <1>8, <1>10, <1>11
<1> QED
  BY <1>12 DEF s, c

\* The number of the complement to two in eight bits.
LEMMA NegNumber ==
  ASSUME NEW x \in Word, x \cap 0 .. 7 # {}
  PROVE  Number(Neg(x)) = 256 - Number(x)
<1>1. Not(x) \in Word /\ One \in Word
  BY WordTypes DEF Not, Word
<1>2. Number(Not(x)) = 255 - Number(x)
  BY DEF Number, Not, Bits
<1>3. Number(One) = 1
  BY DEF Number, One
<1>4. ~Carry(Not(x), One, 8)
  <2> SUFFICES ASSUME Carry(Not(x), One, 8) PROVE FALSE
    OBVIOUS
  <2>1. PICK j \in Not(x) \cap One : (j + 1) .. (8 - 1) \subseteq Not(x) \cup One
    BY DEF Carry
  <2>2. j = 0 /\ 0 \notin x
    BY <2>1 DEF One, Not
  <2>3. \A k \in 0 .. 7 : k = 0 \/ k \in (j + 1) .. (8 - 1)
    BY <2>2
  <2>4. \A k \in 0 .. 7 : k \notin x
    BY <2>1, <2>2, <2>3 DEF One, Not
  <2> QED
    BY <2>4
<1>5. Number(Plus(Not(x), One)) = Number(Not(x)) + Number(One)
  <2>1. Number(Plus(Not(x), One)) + 256 * (IF Carry(Not(x), One, 8) THEN 1 ELSE 0) = Number(Not(x)) + Number(One)
    BY <1>1, ByteSum
  <2>2. Number(Plus(Not(x), One)) \in Int
    BY NumberRange
  <2> QED
    BY <1>4, <2>1, <2>2
<1>6. Number(x) \in Int
  BY NumberRange
<1> QED
  BY <1>2, <1>3, <1>5, <1>6 DEF Neg

\* A word with a one has a lowest one.
LEMMA LowestBit ==
  ASSUME NEW x \in Word, NEW k \in x
  PROVE  \E j \in x : j <= k /\ \A l \in x : ~(l < j)
<1> SUFFICES ASSUME \A j \in x : j <= k => \E l \in x : l < j
             PROVE  FALSE
  OBVIOUS
<1> DEFINE S == {i \in 0 .. 31 : \A l \in x : ~(l < i)}
<1>1. x \subseteq 0 .. 31
  BY DEF Word, Bits
<1>2. 0 \in S
  BY <1>1
<1>3. ASSUME NEW i \in 0 .. (31 - 1), i \in S
      PROVE  i + 1 \in S
  <2>1. i \notin x
    <3> SUFFICES ASSUME i \in x PROVE FALSE
      OBVIOUS
    <3>1. ~(k < i)
      BY <1>3
    <3>2. i <= k
      BY <1>1, <3>1
    <3> QED
      BY <1>3, <3>2
  <2>2. \A l \in x : ~(l < i + 1)
    BY <1>1, <1>3, <2>1
  <2> QED
    BY <2>2
<1>4. 31 \in Nat
  OBVIOUS
<1> HIDE DEF S
<1>5. 0 .. 31 \subseteq S
  BY <1>2, <1>3, <1>4, Upwards
<1>6. k \in S
  BY <1>1, <1>5
<1> QED
  BY <1>6 DEF S

\* Negation undoes itself.
LEMMA NegNeg ==
  ASSUME NEW x \in Word
  PROVE  Neg(Neg(x)) = x
<1> DEFINE n == Neg(x)
<1>1. n \in Word /\ Neg(n) \in Word /\ x \subseteq Int
  BY WordTypes DEF Word, Bits
<1>2. \A i \in Bits : i \in n <=> (i \in x <=> \A k \in x : ~(k < i))
  BY NegBits
<1> HIDE DEF n
<1>3. \A i \in Bits : i \in Neg(n) <=> (i \in n <=> \A k \in n : ~(k < i))
  BY <1>1, NegBits
<1>4. ASSUME NEW i \in Bits
      PROVE  (\A k \in n : ~(k < i)) <=> (\A k \in x : ~(k < i))
  <2>1. ASSUME NEW k \in x, k < i
        PROVE  \E j \in n : j < i
    <3>1. PICK j \in x : j <= k /\ \A l \in x : ~(l < j)
      BY LowestBit
    <3>2. j \in Bits /\ j < i
      BY <1>1, <2>1, <3>1 DEF Word, Bits
    <3>3. j \in n
      BY <1>2, <3>1, <3>2
    <3> QED
      BY <3>2, <3>3
  <2>2. ASSUME NEW k \in n, k < i, \A l \in x : ~(l < i)
        PROVE  FALSE
    <3>1. k \in Bits /\ k \notin x
      BY <1>1, <2>2 DEF Word
    <3>2. \A l \in x : ~(l < k)
      BY <1>1, <2>2, <3>1 DEF Bits
    <3> QED
      BY <1>2, <2>2, <3>1, <3>2
  <2> QED
    BY <2>1, <2>2
<1>5. \A i \in Bits : i \in Neg(n) <=> i \in x
  BY <1>2, <1>3, <1>4
<1>6. Neg(n) = x
  BY <1>1, <1>5 DEF Word
<1> QED
  BY <1>6 DEF n

--------------------------------------------------------------------------
\* Words that agree above the lowest byte are ordered as its numbers.
LEMMA ByteOrder ==
  ASSUME NEW x \in Word, NEW y \in Word, \A i \in 8 .. 31 : i \in x <=> i \in y
  PROVE  Leq(x, y) <=> Number(x) <= Number(y)
<1>1. CASE x = y
  <2>1. Number(x) \in Int
    BY NumberRange
  <2> QED
    BY <1>1, <2>1 DEF Leq
<1>2. CASE x # y
  <2> DEFINE z == Xor(x, y)
             d == Highest(z)
  <2>1. z \in Word /\ z # Zero
    BY <1>2 DEF Xor, Word, Zero
  <2>2. \A i \in Bits : i \in z <=> ~(i \in x <=> i \in y)
    BY DEF Xor
  <2>3. Leq(x, y) <=> d \in (IF d = Sign THEN x ELSE y)
    BY <1>2 DEF Leq
  <2>4. d \in z /\ \A j \in z : j <= d
    BY <2>1, HighestBit
  <2> HIDE DEF z, d
  <2>5. d \in Bits /\ d \notin 8 .. 31 /\ ~(d \in x <=> d \in y)
    <3>1. d \in Bits
      BY <2>1, <2>4 DEF Word
    <3> QED
      BY <2>2, <2>4, <3>1
  <2>6. d = 0 \/ d = 1 \/ d = 2 \/ d = 3 \/ d = 4 \/ d = 5 \/ d = 6 \/ d = 7
    BY <2>5 DEF Bits
  <2>7. Leq(x, y) <=> d \in y
    BY <2>3, <2>6 DEF Sign
  <2>8. \A i \in 0 .. 7 : ~(i <= d) => (i \in x <=> i \in y)
    BY <2>2, <2>4 DEF Bits
  <2>9. d \in y => Number(x) < Number(y)
    <3>1. CASE d = 0
      BY <2>5, <2>8, <3>1 DEF Number
    <3>2. CASE d = 1
      BY <2>5, <2>8, <3>2 DEF Number
    <3>3. CASE d = 2
      BY <2>5, <2>8, <3>3 DEF Number
    <3>4. CASE d = 3
      BY <2>5, <2>8, <3>4 DEF Number
    <3>5. CASE d = 4
      BY <2>5, <2>8, <3>5 DEF Number
    <3>6. CASE d = 5
      BY <2>5, <2>8, <3>6 DEF Number
    <3>7. CASE d = 6
      BY <2>5, <2>8, <3>7 DEF Number
    <3>8. CASE d = 7
      BY <2>5, <3>8 DEF Number
    <3> QED
      BY <2>6, <3>1, <3>2, <3>3, <3>4, <3>5, <3>6, <3>7, <3>8
  <2>10. d \notin y => Number(y) < Number(x)
    <3>1. CASE d = 0
      BY <2>5, <2>8, <3>1 DEF Number
    <3>2. CASE d = 1
      BY <2>5, <2>8, <3>2 DEF Number
    <3>3. CASE d = 2
      BY <2>5, <2>8, <3>3 DEF Number
    <3>4. CASE d = 3
      BY <2>5, <2>8, <3>4 DEF Number
    <3>5. CASE d = 4
      BY <2>5, <2>8, <3>5 DEF Number
    <3>6. CASE d = 5
      BY <2>5, <2>8, <3>6 DEF Number
    <3>7. CASE d = 6
      BY <2>5, <2>8, <3>7 DEF Number
    <3>8. CASE d = 7
      BY <2>5, <3>8 DEF Number
    <3> QED
      BY <2>6, <3>1, <3>2, <3>3, <3>4, <3>5, <3>6, <3>7, <3>8
  <2>11. Number(x) \in Int /\ Number(y) \in Int
    BY NumberRange
  <2> QED
    BY <2>7, <2>9, <2>10, <2>11
<1> QED
  BY <1>1, <1>2

\* A difference above the lowest byte decides; at the sign it decides the other way.
LEMMA HighOrder ==
  ASSUME NEW x \in Word, NEW y \in Word, NEW i \in 8 .. 31, ~(i \in x <=> i \in y)
  PROVE  /\ Sign \in x /\ Sign \notin y => Leq(x, y)
         /\ Sign \in y /\ Sign \notin x => ~Leq(x, y)
         /\ (Sign \in x <=> Sign \in y) => \E d \in 8 .. 30 : /\ ~(d \in x <=> d \in y)
                                                              /\ Leq(x, y) <=> d \in y
<1> DEFINE z == Xor(x, y)
           d == Highest(z)
<1>1. i \in Bits /\ i \in z /\ z \in Word /\ x # y
  BY DEF Bits, Xor, Word
<1>2. \A j \in Bits : j \in z <=> ~(j \in x <=> j \in y)
  BY DEF Xor
<1>3. Leq(x, y) <=> d \in (IF d = Sign THEN x ELSE y)
  BY <1>1 DEF Leq
<1>4. d \in z /\ \A j \in z : j <= d
  BY <1>1, HighestBit DEF Zero
<1> HIDE DEF z, d
<1>5. d \in Bits /\ i <= d /\ ~(d \in x <=> d \in y)
  BY <1>1, <1>2, <1>4 DEF Word
<1>6. d \in 8 .. 31
  BY <1>5 DEF Bits
<1>7. Sign \in Bits /\ Sign = 31
  BY DEF Sign, Bits
<1>8. CASE Sign \in x <=> Sign \in y
  <2>1. d # Sign
    BY <1>5, <1>8
  <2>2. d \in 8 .. 30
    BY <1>6, <1>7, <2>1
  <2>3. Leq(x, y) <=> d \in y
    BY <1>3, <2>1
  <2> QED
    BY <1>5, <1>8, <2>2, <2>3
<1>9. CASE ~(Sign \in x <=> Sign \in y)
  <2>1. Sign <= d
    BY <1>2, <1>4, <1>7, <1>9
  <2>2. d = Sign
    BY <1>6, <1>7, <2>1
  <2> QED
    BY <1>3, <1>9, <2>2
<1> QED
  BY <1>8, <1>9

\* The order of words without the sign and a number below 128.
LEMMA PositiveLeq ==
  ASSUME NEW x \in SUBSET (0 .. 30)
  PROVE  Leq(x, FromNat(127)) <=> x \subseteq 0 .. 7 /\ Number(x) <= 127
<1> DEFINE y == FromNat(127)
<1>1. y \in SUBSET (0 .. 7) /\ Number(y) = 127
  <2>1. 127 \in 0 .. 255
    OBVIOUS
  <2> QED
    BY <2>1, NumberFrom
<1> HIDE DEF y
<1>2. x \in Word /\ y \in Word /\ Sign \notin x /\ Sign \notin y
  BY <1>1 DEF Word, Bits, Sign
<1>3. CASE x \subseteq 0 .. 7
  <2>1. \A i \in 8 .. 31 : i \in x <=> i \in y
    BY <1>1, <1>3
  <2>2. Leq(x, y) <=> Number(x) <= Number(y)
    BY <1>2, <2>1, ByteOrder
  <2> QED
    BY <1>1, <1>3, <2>2 DEF y
<1>4. CASE ~(x \subseteq 0 .. 7)
  <2>1. PICK i \in x : i \notin 0 .. 7
    BY <1>4
  <2>2. i \in 8 .. 31 /\ ~(i \in x <=> i \in y)
    BY <1>1, <2>1
  <2>3. PICK d \in 8 .. 30 : ~(d \in x <=> d \in y) /\ (Leq(x, y) <=> d \in y)
    BY <1>2, <2>2, HighOrder
  <2>4. d \notin y
    BY <1>1, <2>3
  <2> QED
    BY <1>4, <2>3, <2>4 DEF y
<1> QED
  BY <1>3, <1>4

\* A negative word of eight bits.
LEMMA NegByte ==
  ASSUME NEW n \in SUBSET (0 .. 7), n # {}
  PROVE  Neg(n) \in Word /\ 8 .. 31 \subseteq Neg(n) /\ Number(Neg(n)) = 256 - Number(n)
<1>1. n \in Word
  BY DEF Word, Bits
<1>2. PICK k \in n : k \in 0 .. 7
  OBVIOUS
<1>3. ASSUME NEW i \in 8 .. 31 PROVE i \in Neg(n)
  <2>1. i \in Bits /\ i \notin n /\ k < i
    BY <1>2 DEF Bits
  <2> QED
    BY <1>1, <2>1, NegBits
<1>4. n \cap 0 .. 7 # {}
  OBVIOUS
<1> QED
  BY <1>1, <1>3, <1>4, NegNumber, WordTypes

\* The order of negative words and the negative of a number of eight bits.
LEMMA NegativeLeq ==
  ASSUME NEW n \in SUBSET (0 .. 30), n # {}, NEW k, k \in 1 .. 255
  PROVE  Leq(Negated(k), Neg(n)) <=> n \subseteq 0 .. 7 /\ Number(n) <= k
<1> DEFINE f == FromNat(k)
           y == Neg(f)
           x == Neg(n)
<1>1. f \in SUBSET (0 .. 7) /\ Number(f) = k
  BY NumberFrom
<1>2. f # {}
  BY <1>1 DEF Number
<1> HIDE DEF f
<1>3. y \in Word /\ 8 .. 31 \subseteq y /\ Number(y) = 256 - k
  BY <1>1, <1>2, NegByte
<1>4. n \in Word /\ n \subseteq Int
  BY DEF Word, Bits
<1>5. x \in Word /\ \A i \in Bits : i \in n <=> (i \in x <=> \A l \in x : ~(l < i))
  <2>1. x \in Word /\ Neg(x) = n
    BY <1>4, NegNeg, WordTypes
  <2> QED
    BY <2>1, NegBits
<1>6. Sign \in x
  <2>1. PICK l \in n : l \in 0 .. 30
    OBVIOUS
  <2>2. Sign \in Bits /\ Sign \notin n /\ l < Sign
    BY <2>1 DEF Sign, Bits
  <2> QED
    BY <1>4, <2>2, NegBits
<1>7. Negated(k) = y
  BY DEF Negated, f
<1>8. CASE n \subseteq 0 .. 7
  <2>1. 8 .. 31 \subseteq x /\ Number(x) = 256 - Number(n)
    BY <1>8, NegByte
  <2> HIDE DEF x, y
  <2>2. \A i \in 8 .. 31 : i \in y <=> i \in x
    BY <1>3, <2>1
  <2>3. Leq(y, x) <=> Number(y) <= Number(x)
    BY <1>3, <1>5, <2>2, ByteOrder
  <2>4. Number(n) \in Int
    BY NumberRange
  <2>5. Number(y) <= Number(x) <=> Number(n) <= k
    BY <1>3, <2>1, <2>4
  <2> QED
    BY <1>7, <1>8, <2>3, <2>5 DEF x
<1>9. CASE ~(n \subseteq 0 .. 7)
  <2> HIDE DEF x, y
  <2>1. CASE 8 .. 31 \subseteq x
    <3>1. Number(x) = 0
      <4>1. \A l \in 0 .. 7 : l \notin x
        <5> SUFFICES ASSUME NEW l \in 0 .. 7, l \in x PROVE FALSE
          OBVIOUS
        <5>1. PICK i \in n : i \notin 0 .. 7
          BY <1>9
        <5>2. i \in Bits /\ i \in x /\ l < i
          BY <2>1, <5>1 DEF Bits
        <5> QED
          BY <1>5, <5>1, <5>2
      <4> QED
        BY <4>1 DEF Number
    <3>2. Leq(y, x) <=> Number(y) <= Number(x)
      <4>1. \A i \in 8 .. 31 : i \in y <=> i \in x
        BY <1>3, <2>1
      <4> QED
        BY <1>3, <1>5, <4>1, ByteOrder
    <3>3. ~(Number(y) <= Number(x))
      BY <1>3, <3>1
    <3> QED
      BY <1>7, <1>9, <3>2, <3>3 DEF x
  <2>2. CASE ~(8 .. 31 \subseteq x)
    <3>1. PICK i \in 8 .. 31 : i \notin x
      BY <2>2
    <3>2. i \in y /\ Sign \in y
      BY <1>3, <3>1 DEF Sign
    <3>3. PICK d \in 8 .. 30 : ~(d \in y <=> d \in x) /\ (Leq(y, x) <=> d \in x)
      BY <1>3, <1>5, <1>6, <3>1, <3>2, HighOrder
    <3>4. d \notin x
      BY <1>3, <3>3
    <3> QED
      BY <1>7, <1>9, <3>3, <3>4 DEF x
  <2> QED
    BY <2>1, <2>2
<1> QED
  BY <1>8, <1>9

--------------------------------------------------------------------------
\* A turn of the loop of test_float_pwr2: p2 and result after i turns, from those before.
Turn(n, neg, loop, i) ==
  IF i = 0 THEN [p2 |-> IF neg THEN -1 ELSE 1, result |-> 0]
  ELSE [p2 |-> TimesPower(loop[i-1].p2, loop[i-1].p2),
        result |-> IF i - 1 \in n THEN TimesPower(loop[i-1].result, loop[i-1].p2) ELSE loop[i-1].result]
Turns(n, neg) == CHOOSE loop : loop = [i \in 0 .. 31 |-> Turn(n, neg, loop, i)]

\* p2 is squared until it is out of range.
PowerAfter(neg, i) ==
  IF neg THEN IF i <= 7 THEN 0 - Pow2[i] ELSE Tiny ELSE IF i <= 6 THEN Pow2[i] ELSE Huge

\* The result is the power for the bits of n met so far, up to the range.
ResultAfter(n, neg, i) ==
  LET low == n \cap 0 .. (i - 1)
  IN  IF neg THEN IF low \subseteq 0 .. 7 /\ Number(low) <= 149 THEN 0 - Number(low) ELSE Tiny
      ELSE IF low \subseteq 0 .. 7 /\ Number(low) <= 127 THEN Number(low) ELSE Huge

\* The recursion of the model with its turn under a name.
LEMMA Unfolded ==
  \A x \in Word : test_float_pwr2(x)
     = IF x = TMin THEN Zero
       ELSE PowerBits(Turns(IF Negative(x) THEN Neg(x) ELSE x, Negative(x))[31].result)
BY DEF test_float_pwr2, Turns, Turn

\* A turn, by cases.
LEMMA TurnRange ==
  ASSUME NEW a \in Int, NEW b \in Int
  PROVE  /\ a + b < -149 => TimesPower(a, b) = Tiny
         /\ a + b > 127 => TimesPower(a, b) = Huge
         /\ a + b >= -149 /\ a + b <= 127 => TimesPower(a, b) = a + b
BY DEF TimesPower

\* The power is squared.
LEMMA PowerStep ==
  ASSUME NEW neg \in BOOLEAN, NEW i \in 0 .. 30
  PROVE  /\ PowerAfter(neg, i) \in Int
         /\ PowerAfter(neg, i + 1) = TimesPower(PowerAfter(neg, i), PowerAfter(neg, i))
<1> DEFINE p == Pow2[i]
           q == Pow2[i + 1]
<1>1. p \in Nat /\ (i <= 6 => q = p + p /\ p <= 64) /\ (i <= 5 => p <= 32) /\ (i = 6 => p = 64) /\ (i = 7 => p = 128)
  <2>1. i = 0 \/ i = 1 \/ i = 2 \/ i = 3 \/ i = 4 \/ i = 5 \/ i = 6 \/ i >= 7
    OBVIOUS
  <2>2. /\ Pow2[0] = 1 /\ Pow2[1] = 2 /\ Pow2[2] = 4 /\ Pow2[3] = 8
        /\ Pow2[4] = 16 /\ Pow2[5] = 32 /\ Pow2[6] = 64 /\ Pow2[7] = 128
    BY Powers
  <2>3. p \in Nat
    BY Powers
  <2> QED
    BY <2>1, <2>2, <2>3
<1> HIDE DEF p, q
<1>2. CASE neg
  <2>1. /\ PowerAfter(neg, i) = (IF i <= 7 THEN 0 - p ELSE Tiny)
        /\ PowerAfter(neg, i + 1) = (IF i <= 6 THEN 0 - q ELSE Tiny)
    BY <1>2 DEF PowerAfter, p, q
  <2>2. CASE i <= 6
    <3>1. TimesPower(0 - p, 0 - p) = (0 - p) + (0 - p)
      BY <1>1, <2>2, TurnRange
    <3> QED
      BY <1>1, <2>1, <2>2, <3>1
  <2>3. CASE i = 7
    <3>1. TimesPower(0 - p, 0 - p) = Tiny
      BY <1>1, <2>3, TurnRange
    <3> QED
      BY <1>1, <2>1, <2>3, <3>1
  <2>4. CASE i > 7
    <3>1. TimesPower(Tiny, Tiny) = Tiny /\ Tiny \in Int
      BY TurnRange DEF Tiny
    <3> QED
      BY <2>1, <2>4, <3>1
  <2> QED
    BY <2>2, <2>3, <2>4
<1>3. CASE ~neg
  <2>1. /\ PowerAfter(neg, i) = (IF i <= 6 THEN p ELSE Huge)
        /\ PowerAfter(neg, i + 1) = (IF i <= 5 THEN q ELSE Huge)
    BY <1>3 DEF PowerAfter, p, q
  <2>2. CASE i <= 5
    <3>1. TimesPower(p, p) = p + p
      BY <1>1, <2>2, TurnRange
    <3> QED
      BY <1>1, <2>1, <2>2, <3>1
  <2>3. CASE i = 6
    <3>1. TimesPower(p, p) = Huge
      BY <1>1, <2>3, TurnRange
    <3> QED
      BY <1>1, <2>1, <2>3, <3>1
  <2>4. CASE i > 6
    <3>1. TimesPower(Huge, Huge) = Huge /\ Huge \in Int
      BY TurnRange DEF Huge
    <3> QED
      BY <2>1, <2>4, <3>1
  <2> QED
    BY <2>2, <2>3, <2>4
<1> QED
  BY <1>2, <1>3

\* One more position of a number.
LEMMA NumberStep ==
  ASSUME NEW n, NEW i \in 0 .. 30
  PROVE  /\ i \notin n => n \cap 0 .. i = n \cap 0 .. (i - 1)
         /\ i \in n => n \cap 0 .. i = (n \cap 0 .. (i - 1)) \cup {i}
         /\ i \in n /\ i <= 7 => Number(n \cap 0 .. i) = Number(n \cap 0 .. (i - 1)) + Pow2[i]
<1>1. 0 .. i = (0 .. (i - 1)) \cup {i} /\ i \notin 0 .. (i - 1)
  OBVIOUS
<1> DEFINE low == n \cap 0 .. (i - 1)
           lower == n \cap 0 .. i
<1>2. \A k : k \in lower <=> k \in low \/ (k = i /\ i \in n)
  BY <1>1
<1>3. i \notin low
  BY <1>1
<1> HIDE DEF low, lower
<1>4. ASSUME i \in n, i <= 7 PROVE Number(lower) = Number(low) + Pow2[i]
  <2>1. i = 0 \/ i = 1 \/ i = 2 \/ i = 3 \/ i = 4 \/ i = 5 \/ i = 6 \/ i = 7
    BY <1>4
  <2>2. /\ Pow2[0] = 1 /\ Pow2[1] = 2 /\ Pow2[2] = 4 /\ Pow2[3] = 8
        /\ Pow2[4] = 16 /\ Pow2[5] = 32 /\ Pow2[6] = 64 /\ Pow2[7] = 128
    BY Powers
  <2>3. i \in lower /\ \A k \in 0 .. 7 : k # i => (k \in lower <=> k \in low)
    BY <1>2, <1>4
  <2>4. CASE i = 0
    BY <1>3, <2>2, <2>3, <2>4 DEF Number
  <2>5. CASE i = 1
    BY <1>3, <2>2, <2>3, <2>5 DEF Number
  <2>6. CASE i = 2
    BY <1>3, <2>2, <2>3, <2>6 DEF Number
  <2>7. CASE i = 3
    BY <1>3, <2>2, <2>3, <2>7 DEF Number
  <2>8. CASE i = 4
    BY <1>3, <2>2, <2>3, <2>8 DEF Number
  <2>9. CASE i = 5
    BY <1>3, <2>2, <2>3, <2>9 DEF Number
  <2>10. CASE i = 6
    BY <1>3, <2>2, <2>3, <2>10 DEF Number
  <2>11. CASE i = 7
    BY <1>3, <2>2, <2>3, <2>11 DEF Number
  <2> QED
    BY <2>1, <2>4, <2>5, <2>6, <2>7, <2>8, <2>9, <2>10, <2>11
<1> QED
  BY <1>2, <1>4 DEF low, lower

\* A turn multiplies the result by the power where the exponent has a one.
LEMMA ResultStep ==
  ASSUME NEW n \in SUBSET (0 .. 30), NEW neg \in BOOLEAN, NEW i \in 0 .. 30
  PROVE  ResultAfter(n, neg, i + 1)
           = IF i \in n THEN TimesPower(ResultAfter(n, neg, i), PowerAfter(neg, i)) ELSE ResultAfter(n, neg, i)
<1> DEFINE low == n \cap 0 .. (i - 1)
           lower == n \cap 0 .. ((i + 1) - 1)
           m == Number(low)
           m1 == Number(lower)
<1>1. ResultAfter(n, neg, i)
        = IF neg THEN IF low \subseteq 0 .. 7 /\ m <= 149 THEN 0 - m ELSE Tiny
          ELSE IF low \subseteq 0 .. 7 /\ m <= 127 THEN m ELSE Huge
  BY DEF ResultAfter
<1>2. ResultAfter(n, neg, i + 1)
        = IF neg THEN IF lower \subseteq 0 .. 7 /\ m1 <= 149 THEN 0 - m1 ELSE Tiny
          ELSE IF lower \subseteq 0 .. 7 /\ m1 <= 127 THEN m1 ELSE Huge
  BY DEF ResultAfter
<1>3. (i + 1) - 1 = i
  OBVIOUS
<1>4. i \notin n => lower = low
  BY <1>3, NumberStep
<1>5. i \in n => lower = low \cup {i}
  BY <1>3, NumberStep
<1>6. i \in n /\ i <= 7 => m1 = m + Pow2[i]
  BY <1>3, NumberStep
<1>7. m \in 0 .. 255 /\ m1 \in 0 .. 255 /\ Pow2[i] \in Nat /\ (i = 7 => Pow2[i] = 128)
  BY NumberRange, Powers
<1>8. CASE i \notin n
  <2> HIDE DEF low, lower
  <2> QED
    BY <1>1, <1>2, <1>4, <1>8
<1>9. CASE i \in n
  <2> HIDE DEF low, lower, m, m1
  <2> DEFINE small == low \subseteq 0 .. 7
  <2>1. lower \subseteq 0 .. 7 <=> small /\ i <= 7
    BY <1>5, <1>9
  <2> HIDE DEF small
  <2>2. CASE neg
    <3>1. ResultAfter(n, neg, i) = (IF small /\ m <= 149 THEN 0 - m ELSE Tiny)
      BY <1>1, <2>2 DEF small
    <3>2. ResultAfter(n, neg, i + 1) = (IF small /\ i <= 7 /\ m1 <= 149 THEN 0 - m1 ELSE Tiny)
      BY <1>2, <2>1, <2>2
    <3>3. PowerAfter(neg, i) = (IF i <= 7 THEN 0 - Pow2[i] ELSE Tiny)
      BY <2>2 DEF PowerAfter
    <3>4. CASE small /\ m <= 149 /\ i <= 7
      <4>1. m1 = m + Pow2[i]
        BY <1>6, <1>9, <3>4
      <4>2. TimesPower(0 - m, 0 - Pow2[i]) = IF m1 <= 149 THEN 0 - m1 ELSE Tiny
        BY <1>7, <4>1, TurnRange
      <4> QED
        BY <1>9, <3>1, <3>2, <3>3, <3>4, <4>2
    <3>5. CASE small /\ m <= 149 /\ ~(i <= 7)
      <4>1. TimesPower(0 - m, Tiny) = Tiny
        BY <1>7, TurnRange DEF Tiny
      <4> QED
        BY <1>9, <3>1, <3>2, <3>3, <3>5, <4>1
    <3>6. CASE ~(small /\ m <= 149)
      <4>1. TimesPower(Tiny, PowerAfter(neg, i)) = Tiny
        BY <1>7, <3>3, TurnRange DEF Tiny
      <4>2. ~(small /\ i <= 7 /\ m1 <= 149)
        BY <1>6, <1>7, <1>9, <3>6
      <4> QED
        BY <1>9, <3>1, <3>2, <3>6, <4>1, <4>2
    <3> QED
      BY <3>4, <3>5, <3>6
  <2>3. CASE ~neg
    <3>1. ResultAfter(n, neg, i) = (IF small /\ m <= 127 THEN m ELSE Huge)
      BY <1>1, <2>3 DEF small
    <3>2. ResultAfter(n, neg, i + 1) = (IF small /\ i <= 7 /\ m1 <= 127 THEN m1 ELSE Huge)
      BY <1>2, <2>1, <2>3
    <3>3. PowerAfter(neg, i) = (IF i <= 6 THEN Pow2[i] ELSE Huge)
      BY <2>3 DEF PowerAfter
    <3>4. CASE small /\ m <= 127 /\ i <= 6
      <4>1. m1 = m + Pow2[i] /\ i <= 7
        BY <1>6, <1>9, <3>4
      <4>2. TimesPower(m, Pow2[i]) = IF m1 <= 127 THEN m1 ELSE Huge
        <5>1. m \in Int /\ Pow2[i] \in Int /\ m + Pow2[i] >= -149 /\ m + Pow2[i] = m1
          BY <1>7, <4>1
        <5>2. CASE m + Pow2[i] > 127
          BY <5>1, <5>2, TurnRange
        <5>3. CASE ~(m + Pow2[i] > 127)
          BY <5>1, <5>3, TurnRange
        <5> QED
          BY <5>2, <5>3
      <4> QED
        BY <1>9, <3>1, <3>2, <3>3, <3>4, <4>1, <4>2
    <3>5. CASE small /\ m <= 127 /\ ~(i <= 6)
      <4>1. TimesPower(m, Huge) = Huge
        BY <1>7, TurnRange DEF Huge
      <4>2. ~(i <= 7 /\ m1 <= 127)
        BY <1>6, <1>7, <1>9, <3>5
      <4> QED
        BY <1>9, <3>1, <3>2, <3>3, <3>5, <4>1, <4>2
    <3>6. CASE ~(small /\ m <= 127)
      <4>1. TimesPower(Huge, PowerAfter(neg, i)) = Huge
        BY <1>7, <3>3, TurnRange DEF Huge
      <4>2. ~(small /\ i <= 7 /\ m1 <= 127)
        BY <1>6, <1>7, <1>9, <3>6
      <4> QED
        BY <1>9, <3>1, <3>2, <3>6, <4>1, <4>2
    <3> QED
      BY <3>4, <3>5, <3>6
  <2> QED
    BY <2>2, <2>3
<1> QED
  BY <1>8, <1>9

\* What the loop computes.
LEMMA LoopResult ==
  ASSUME NEW n \in SUBSET (0 .. 30), NEW neg \in BOOLEAN
  PROVE  Turns(n, neg)[31].result = ResultAfter(n, neg, 31)
<1> DEFINE W == [i \in 0 .. 31 |-> [p2 |-> PowerAfter(neg, i), result |-> ResultAfter(n, neg, i)]]
           L == Turns(n, neg)
<1>1. W[0] = [p2 |-> IF neg THEN -1 ELSE 1, result |-> 0]
  <2>1. PowerAfter(neg, 0) = IF neg THEN -1 ELSE 1
    BY Powers DEF PowerAfter
  <2>2. n \cap 0 .. (0 - 1) = {}
    OBVIOUS
  <2>3. ResultAfter(n, neg, 0) = 0
    <3>1. Number({}) = 0
      BY DEF Number
    <3> QED
      BY <2>2, <3>1 DEF ResultAfter
  <2> QED
    BY <2>1, <2>3
<1>2. ASSUME NEW i \in 0 .. 30, NEW V, V[i] = W[i]
      PROVE  W[i + 1] = Turn(n, neg, V, i + 1)
  <2>1. V[i].p2 = PowerAfter(neg, i) /\ V[i].result = ResultAfter(n, neg, i)
    BY <1>2
  <2>2. i + 1 \in 0 .. 31 /\ i + 1 # 0 /\ (i + 1) - 1 = i
    OBVIOUS
  <2>3. W[i + 1] = [p2 |-> PowerAfter(neg, i + 1), result |-> ResultAfter(n, neg, i + 1)]
    BY <2>2
  <2> HIDE DEF W
  <2>4. PowerAfter(neg, i + 1) = TimesPower(V[i].p2, V[i].p2)
    BY <2>1, PowerStep
  <2>5. ResultAfter(n, neg, i + 1) = IF i \in n THEN TimesPower(V[i].result, V[i].p2) ELSE V[i].result
    BY <2>1, ResultStep
  <2>6. Turn(n, neg, V, i + 1)
          = [p2 |-> TimesPower(V[i].p2, V[i].p2),
             result |-> IF i \in n THEN TimesPower(V[i].result, V[i].p2) ELSE V[i].result]
    BY <2>2 DEF Turn
  <2> QED
    BY <2>3, <2>4, <2>5, <2>6
<1>3. W = [i \in 0 .. 31 |-> Turn(n, neg, W, i)]
  <2>1. ASSUME NEW i \in 0 .. 31 PROVE W[i] = Turn(n, neg, W, i)
    <3>1. CASE i = 0
      BY <1>1, <3>1 DEF Turn
    <3>2. CASE i # 0
      <4>1. i - 1 \in 0 .. 30 /\ (i - 1) + 1 = i
        BY <3>2
      <4> HIDE DEF W
      <4>2. W[(i - 1) + 1] = Turn(n, neg, W, (i - 1) + 1)
        BY <1>2, <4>1
      <4> QED
        BY <4>1, <4>2
    <3> QED
      BY <3>1, <3>2
  <2> DEFINE T == [i \in 0 .. 31 |-> Turn(n, neg, W, i)]
  <2>2. DOMAIN W = 0 .. 31 /\ W = [i \in DOMAIN W |-> W[i]]
    OBVIOUS
  <2> HIDE DEF W
  <2> QED
    BY <2>1, <2>2
<1> HIDE DEF W
<1>4. L = [i \in 0 .. 31 |-> Turn(n, neg, L, i)]
  BY <1>3 DEF Turns
<1> HIDE DEF L
<1>5. \A i \in 0 .. 31 : L[i] = Turn(n, neg, L, i)
  BY <1>4
<1> DEFINE S == {i \in 0 .. 31 : L[i] = W[i]}
<1>6. 0 \in S
  BY <1>1, <1>5 DEF Turn
<1>7. ASSUME NEW i \in 0 .. (31 - 1), i \in S
      PROVE  i + 1 \in S
  <2>1. i \in 0 .. 30 /\ i + 1 \in 0 .. 31 /\ L[i] = W[i]
    BY <1>7
  <2>2. W[i + 1] = Turn(n, neg, L, i + 1)
    BY <1>2, <2>1
  <2> QED
    BY <1>5, <2>1, <2>2
<1>8. 31 \in Nat
  OBVIOUS
<1> HIDE DEF S
<1>9. 0 .. 31 \subseteq S
  BY <1>6, <1>7, <1>8, Upwards
<1>10. L[31] = W[31]
  BY <1>9 DEF S
<1> QED
  BY <1>10 DEF W, L

--------------------------------------------------------------------------
\* Only the lowest byte of a word whose ninth bit is clear is shifted into a float.
LEMMA ShiftedByte ==
  ASSUME NEW p \in Word, 8 \notin p
  PROVE  Shl(p, 23) = Shl(FromNat(Number(p)), 23)
<1> DEFINE q == p \cap 0 .. 7
<1>1. Number(q) = Number(p)
  BY DEF Number
<1>2. FromNat(Number(q)) = q
  BY FromNumber
<1>3. \A i \in Bits : i - 23 \in p <=> i - 23 \in q
  <2>1. \A i \in Bits : i - 23 \in 0 .. 31 => i - 23 \in 0 .. 7 \/ i - 23 = 8
    BY DEF Bits
  <2> QED
    BY <2>1 DEF Word, Bits
<1>4. Shl(p, 23) = Shl(q, 23)
  BY <1>3 DEF Shl
<1> QED
  BY <1>1, <1>2, <1>4

\* The exponents that have a float: their words, and the field or the position they are put into.
LEMMA Biased ==
  ASSUME NEW x \in Word, NEW k, k \in {127, 149}
  PROVE  /\ Plus(x, FromNat(k)) \in Word
         /\ Number(Plus(x, FromNat(k))) + 256 * (IF Carry(x, FromNat(k), 8) THEN 1 ELSE 0) = Number(x) + k
         /\ 8 \in Plus(x, FromNat(k)) <=> ~(Carry(x, FromNat(k), 8) <=> 8 \in x)
<1> DEFINE y == FromNat(k)
<1>1. k \in 0 .. 255
  OBVIOUS
<1>2. y \in SUBSET (0 .. 7) /\ Number(y) = k
  BY <1>1, NumberFrom
<1> HIDE DEF y
<1>3. y \in Word /\ 8 \in Bits /\ 8 \notin y
  BY <1>2 DEF Word, Bits
<1>4. 8 \in Plus(x, y) <=> (Carry(x, y, 8) <=> (8 \in x <=> 8 \in y))
  BY <1>3, SumBit DEF Plus
<1>5. Number(Plus(x, y)) + 256 * (IF Carry(x, y, 8) THEN 1 ELSE 0) = Number(x) + Number(y)
  BY <1>3, ByteSum
<1>6. Plus(x, y) \in Word
  BY <1>3, PlusType
<1> QED
  BY <1>2, <1>3, <1>4, <1>5, <1>6 DEF y

\* 2^m for m below the range, as a denormal, as a normal number and above the range.
LEMMA PowerOf ==
  /\ PowerBits(Tiny) = Zero
  /\ PowerBits(Huge) = ExponentField
  /\ \A a \in -149 .. -127 : PowerBits(a) = {a + 149}
  /\ \A a \in -126 .. 127 : PowerBits(a) = Shl(FromNat(a + 127), 23)
<1>1. PowerBits(Tiny) = Zero
  BY DEF PowerBits, Tiny, Huge
<1>2. PowerBits(Huge) = ExponentField
  BY DEF PowerBits, Tiny, Huge, ExponentField
<1>3. \A a \in -149 .. -127 : PowerBits(a) = {a + 149}
  BY DEF PowerBits, Tiny, Huge
<1>4. \A a \in -126 .. 127 : PowerBits(a) = Shl(FromNat(a + 127), 23)
  BY DEF PowerBits, Tiny, Huge
<1> QED
  BY <1>1, <1>2, <1>3, <1>4

\* bits.c:470: below the range, denormal, normal and infinite powers, for every exponent
\* there is, the smallest integer included.
THEOREM FloatPwr2Right == \A x \in Word : float_pwr2(x) = test_float_pwr2(x)
<1> SUFFICES ASSUME NEW x \in Word
             PROVE  float_pwr2(x) = test_float_pwr2(x)
  OBVIOUS
<1> DEFINE n == IF Negative(x) THEN Neg(x) ELSE x
           m == Number(n)
           small(k) == n \subseteq 0 .. 7 /\ m <= k
           d == Plus(x, FromNat(149))
           e == Plus(x, FromNat(127))
<1>1. float_pwr2(x) = CASE ~Leq(Negated(149), x) -> Zero
                        [] Leq(Negated(149), x) /\ ~Leq(Negated(126), x) -> Shl(One, Number(d))
                        [] Leq(Negated(126), x) /\ Leq(x, FromNat(127)) -> Shl(e, 23)
                        [] ~Leq(x, FromNat(127)) -> ExponentField
  BY DEF float_pwr2
<1>2. test_float_pwr2(x) = IF x = TMin THEN Zero ELSE PowerBits(Turns(n, Negative(x))[31].result)
  BY Unfolded
<1>3. m \in 0 .. 255 /\ Number(x) \in 0 .. 255 /\ Number(d) \in 0 .. 255 /\ Number(e) \in 0 .. 255
  BY NumberRange
<1>4. \A k \in {126, 149} : FromNat(k) \in SUBSET (0 .. 7) /\ FromNat(k) # {}
  <2> SUFFICES ASSUME NEW k, k \in {126, 149} PROVE FromNat(k) \in SUBSET (0 .. 7) /\ FromNat(k) # {}
    OBVIOUS
  <2>1. k \in 0 .. 255 /\ k # 0
    OBVIOUS
  <2>2. Number({}) = 0
    BY DEF Number
  <2>3. FromNat(k) \in SUBSET (0 .. 7) /\ Number(FromNat(k)) = k
    BY <2>1, NumberFrom
  <2> QED
    BY <2>1, <2>2, <2>3
<1>5. \A k \in {126, 149} : Negated(k) \in Word /\ Sign \in Negated(k)
  BY <1>4, NegByte DEF Negated, Sign
<1>6. FromNat(127) \in Word /\ Sign \notin FromNat(127)
  <2>1. 127 \in 0 .. 255
    OBVIOUS
  <2>2. FromNat(127) \in SUBSET (0 .. 7)
    BY <2>1, NumberFrom
  <2> QED
    BY <2>2 DEF Word, Bits, Sign
<1>7. 31 \in 8 .. 31 /\ Sign = 31 /\ (Negative(x) <=> Sign \in x)
  BY DEF Sign, Negative
<1>8. x \in SUBSET (0 .. 30) <=> ~Negative(x)
  <2>1. \A i \in Bits : i = 31 \/ i \in 0 .. 30
    BY DEF Bits
  <2> QED
    BY <1>7, <2>1 DEF Word
<1>9. /\ Number(d) + 256 * (IF Carry(x, FromNat(149), 8) THEN 1 ELSE 0) = Number(x) + 149
      /\ e \in Word
      /\ Number(e) + 256 * (IF Carry(x, FromNat(127), 8) THEN 1 ELSE 0) = Number(x) + 127
      /\ 8 \in e <=> ~(Carry(x, FromNat(127), 8) <=> 8 \in x)
  BY Biased
<1> HIDE DEF d, e
<1>10. CASE ~Negative(x)
  <2>1. x \in SUBSET (0 .. 30) /\ n = x /\ x # TMin
    BY <1>7, <1>8, <1>10 DEF TMin
  <2> HIDE DEF n
  <2>2. Leq(Negated(149), x) /\ Leq(Negated(126), x)
    BY <1>5, <1>7, <1>10, HighOrder
  <2>3. Leq(x, FromNat(127)) <=> small(127)
    BY <2>1, PositiveLeq
  <2>4. test_float_pwr2(x) = PowerBits(IF small(127) THEN m ELSE Huge)
    <3>1. Turns(n, FALSE)[31].result = ResultAfter(n, FALSE, 31)
      BY <2>1, LoopResult
    <3>2. n \cap 0 .. (31 - 1) = n
      <4>1. \A i \in 0 .. 30 : i \in 0 .. (31 - 1)
        OBVIOUS
      <4> QED
        BY <2>1, <4>1
    <3>3. ResultAfter(n, FALSE, 31) = IF small(127) THEN m ELSE Huge
      BY <3>2 DEF ResultAfter
    <3>4. Negative(x) = FALSE
      BY <1>10 DEF Negative
    <3> QED
      BY <1>2, <2>1, <3>1, <3>3, <3>4
  <2>5. CASE small(127)
    <3>1. float_pwr2(x) = Shl(e, 23)
      BY <1>1, <2>2, <2>3, <2>5
    <3>2. Number(x) = m /\ m <= 127 /\ 8 \notin x
      BY <2>1, <2>5
    <3> HIDE DEF m
    <3>3. Number(e) = m + 127 /\ ~Carry(x, FromNat(127), 8)
      BY <1>3, <1>9, <3>2
    <3>4. Shl(e, 23) = Shl(FromNat(m + 127), 23)
      BY <1>9, <3>2, <3>3, ShiftedByte
    <3>5. m \in -126 .. 127
      BY <1>3, <3>2
    <3> QED
      BY <2>4, <2>5, <3>1, <3>4, <3>5, PowerOf
  <2>6. CASE ~small(127)
    <3>1. float_pwr2(x) = ExponentField
      BY <1>1, <2>2, <2>3, <2>6
    <3> QED
      BY <2>4, <2>6, <3>1, PowerOf
  <2> QED
    BY <2>5, <2>6
<1>11. CASE Negative(x)
  <2>1. n = Neg(x) /\ n \in Word /\ Neg(n) = x /\ n # {}
    <3>1. n = Neg(x) /\ n \in Word /\ Neg(n) = x
      BY <1>11, NegNeg, WordTypes
    <3>2. n # {}
      <4>1. Neg({}) = {}
        BY NegZero DEF Zero
      <4> QED
        BY <1>7, <1>11, <3>1, <4>1
    <3> QED
      BY <3>1, <3>2
  <2> HIDE DEF n
  <2>2. Leq(x, FromNat(127))
    BY <1>6, <1>7, <1>11, HighOrder
  <2>3. CASE x = TMin
    <3>1. ASSUME NEW k \in {126, 149} PROVE ~Leq(Negated(k), x)
      <4> DEFINE y == Negated(k)
      <4>1. FromNat(k) \in SUBSET (0 .. 7) /\ FromNat(k) # {}
        BY <1>4
      <4>2. 8 .. 31 \subseteq y /\ y \in Word
        BY <4>1, NegByte DEF Negated
      <4>3. 8 \in y /\ 8 \notin x /\ Sign \in y /\ 8 \in 8 .. 31 /\ Sign \in x
        BY <2>3, <4>2 DEF TMin, Sign
      <4> HIDE DEF y
      <4>4. PICK i \in 8 .. 30 : ~(i \in y <=> i \in x) /\ (Leq(y, x) <=> i \in x)
        BY <4>2, <4>3, HighOrder
      <4>5. i \notin x
        BY <2>3, <4>4 DEF TMin, Sign
      <4> QED
        BY <4>4, <4>5 DEF y
    <3>2. ~Leq(Negated(149), x) /\ ~Leq(Negated(126), x)
      BY <3>1
    <3> QED
      BY <1>1, <1>2, <2>2, <2>3, <3>2
  <2>4. CASE x # TMin
    <3>1. n \in SUBSET (0 .. 30)
      <4>1. Sign \notin n
        <5>1. PICK k \in x : k # Sign
          BY <1>7, <1>11, <2>4 DEF TMin
        <5>2. k < Sign /\ Sign \in Bits
          BY <5>1 DEF Word, Bits, Sign
        <5> QED
          BY <1>7, <1>11, <2>1, <5>2, NegBits
      <4>2. \A i \in Bits : i = 31 \/ i \in 0 .. 30
        BY DEF Bits
      <4> QED
        BY <1>7, <2>1, <4>1, <4>2 DEF Word
    <3>2. \A k \in {126, 149} : Leq(Negated(k), x) <=> small(k)
      <4>1. ASSUME NEW k \in {126, 149} PROVE Leq(Negated(k), Neg(n)) <=> small(k)
        <5>1. k \in 1 .. 255
          OBVIOUS
        <5> QED
          BY <2>1, <3>1, <5>1, NegativeLeq
      <4> QED
        BY <2>1, <4>1
    <3>3. test_float_pwr2(x) = PowerBits(IF small(149) THEN 0 - m ELSE Tiny)
      <4>1. Turns(n, TRUE)[31].result = ResultAfter(n, TRUE, 31)
        BY <3>1, LoopResult
      <4>2. n \cap 0 .. (31 - 1) = n
        <5>1. \A i \in 0 .. 30 : i \in 0 .. (31 - 1)
          OBVIOUS
        <5> QED
          BY <3>1, <5>1
      <4>3. ResultAfter(n, TRUE, 31) = IF small(149) THEN 0 - m ELSE Tiny
        BY <4>2 DEF ResultAfter
      <4>4. Negative(x) = TRUE
        BY <1>11 DEF Negative
      <4> QED
        BY <1>2, <2>4, <4>1, <4>3, <4>4
    <3>4. CASE ~small(149)
      <4>1. ~small(126)
        BY <1>3, <3>4
      <4>2. ~Leq(Negated(149), x) /\ ~Leq(Negated(126), x)
        BY <3>2, <3>4, <4>1
      <4>3. float_pwr2(x) = Zero
        BY <1>1, <2>2, <4>2
      <4> QED
        BY <3>3, <3>4, <4>3, PowerOf
    <3>5. CASE small(149)
      <4>1. 8 .. 31 \subseteq x /\ Number(x) = 256 - m
        BY <2>1, <3>5, NegByte
      <4>2. m \in 1 .. 149 /\ 8 \in x /\ Leq(Negated(149), x) /\ test_float_pwr2(x) = PowerBits(0 - m)
        <5>1. m \in 1 .. 149
          BY <1>3, <3>5, <4>1
        <5>2. 8 \in 8 .. 31
          OBVIOUS
        <5> QED
          BY <3>2, <3>3, <3>5, <4>1, <5>1, <5>2
      <4>3. Leq(Negated(126), x) <=> m <= 126
        BY <3>2, <3>5
      <4> HIDE DEF m
      <4>4. Number(d) = 149 - m
        BY <1>3, <1>9, <4>1, <4>2
      <4>5. CASE m <= 126
        <5>1. float_pwr2(x) = Shl(e, 23)
          BY <1>1, <2>2, <4>2, <4>3, <4>5
        <5>2. Number(e) = 127 - m /\ Carry(x, FromNat(127), 8)
          BY <1>3, <1>9, <4>1, <4>2, <4>5
        <5>3. 8 \notin e
          BY <1>9, <4>2, <5>2
        <5>4. Shl(e, 23) = Shl(FromNat(127 - m), 23)
          BY <1>9, <5>2, <5>3, ShiftedByte
        <5>5. 0 - m \in -126 .. 127 /\ (0 - m) + 127 = 127 - m
          BY <4>2, <4>5
        <5> QED
          BY <4>2, <5>1, <5>4, <5>5, PowerOf
      <4>6. CASE ~(m <= 126)
        <5>1. float_pwr2(x) = Shl(One, 149 - m)
          BY <1>1, <2>2, <4>2, <4>3, <4>4, <4>6
        <5>2. 149 - m \in 0 .. 22
          BY <4>2, <4>6
        <5>3. \A k \in 0 .. 22 : Shl(One, k) = {k}
          BY DEF Shl, One, Bits
        <5>4. 0 - m \in -149 .. -127 /\ (0 - m) + 149 = 149 - m
          BY <4>2, <4>6
        <5> QED
          BY <4>2, <5>1, <5>2, <5>3, <5>4, PowerOf
      <4> QED
        BY <4>5, <4>6
    <3> QED
      BY <3>4, <3>5
  <2> QED
    BY <2>3, <2>4
<1> QED
  BY <1>10, <1>11

--------------------------------------------------------------------------
\* btest calls the puzzles with arguments they are specified for.
Legal(range) ==
  IF range.kind = "range" THEN {FromNat(n) : n \in range.min .. range.max} ELSE Word

Ranges == {AnyInt, AnyFloat, Within(0, 31), Within(1, 5), Within(0, 15)}

\* The table of puzzles, entry by entry.
Is(t, name_, ranges_) == test_set[t].name = name_ /\ test_set[t].ranges = ranges_

\* test_set as the facts that are used of it.
LEMMA Entries ==
  /\ Len(test_set) = 16
  /\ Is(1, "bitNot", <<AnyInt>>) /\ Is(2, "bitXor", <<AnyInt, AnyInt>>)
  /\ Is(3, "allOddBits", <<AnyInt>>) /\ Is(4, "rotateRight", <<AnyInt, Within(0, 31)>>)
  /\ Is(5, "palindrome", <<AnyInt>>) /\ Is(6, "countConsecutive1", <<AnyInt>>)
  /\ Is(7, "counter1To5", <<Within(1, 5)>>) /\ Is(8, "fullSub", <<Within(0, 15), Within(0, 15)>>)
  /\ Is(9, "isLessOrEqual", <<AnyInt, AnyInt>>) /\ Is(10, "sm2tc", <<AnyInt>>)
  /\ Is(11, "satAdd", <<AnyInt, AnyInt>>) /\ Is(12, "trueFiveEighths", <<AnyInt>>)
  /\ Is(13, "float_twice", <<AnyFloat>>) /\ Is(14, "float_half", <<AnyFloat>>)
  /\ Is(15, "float_f2i", <<AnyFloat>>) /\ Is(16, "float_pwr2", <<AnyFloat>>)
BY DEF Is, test_set, Puzzle

\* A number has an integer square root.
LEMMA RangeExists == \A args \in 1 .. 2 : TestRange(args) \in Nat \ {0}
<1> SUFFICES ASSUME NEW args \in 1 .. 2, args # 1 PROVE TestRange(args) \in Nat \ {0}
  BY RangeAssumption DEF TestRange
<1> DEFINE T == TEST_RANGE
           Root(r) == r * r <= T /\ (r + 1) * (r + 1) > T
<1>1. T \in Nat \ {0} /\ T - 1 \in Nat
  BY RangeAssumption
<1>2. TestRange(args) = CHOOSE r \in 1 .. T : Root(r)
  BY DEF TestRange
<1> HIDE DEF T
<1>3. \E r \in 1 .. T : Root(r)
  <2> SUFFICES ASSUME \A r \in 1 .. T : ~Root(r) PROVE FALSE
    OBVIOUS
  <2> DEFINE S == {i \in 0 .. (T - 1) : (i + 1) * (i + 1) <= T}
  <2>1. 0 \in S
    BY <1>1
  <2>2. ASSUME NEW i \in 0 .. ((T - 1) - 1), i \in S PROVE i + 1 \in S
    <3>1. i + 1 \in 1 .. T /\ (i + 1) * (i + 1) <= T
      BY <1>1, <2>2
    <3>2. (i + 1) + 1 \in Nat /\ ((i + 1) + 1) * ((i + 1) + 1) <= T
      <4>1. ~Root(i + 1)
        BY <3>1
      <4>2. ~(((i + 1) + 1) * ((i + 1) + 1) > T)
        BY <3>1, <4>1
      <4> DEFINE sq == ((i + 1) + 1) * ((i + 1) + 1)
      <4>3. sq \in Nat /\ (i + 1) + 1 \in Nat
        BY <3>1
      <4> HIDE DEF sq
      <4>4. ~(sq > T) => sq <= T
        BY <1>1, <4>3
      <4> QED
        BY <4>2, <4>3, <4>4 DEF sq
    <3>3. (i + 1) + 1 <= ((i + 1) + 1) * ((i + 1) + 1)
      BY <3>2
    <3> QED
      BY <1>1, <3>1, <3>2, <3>3
  <2> HIDE DEF S
  <2>3. 0 .. (T - 1) \subseteq S
    BY <1>1, <2>1, <2>2, Upwards
  <2>4. T * T <= T
    BY <1>1, <2>3 DEF S
  <2>5. T = 1
    BY <1>1, <2>4
  <2> QED
    BY <2>5
<1>4. TestRange(args) \in 1 .. T
  BY <1>2, <1>3
<1> QED
  BY <1>1, <1>4

\* A sequence of sets of legal arguments, not an empty one.
LegalVals(vals, range) ==
  /\ Len(vals) \in Nat \ {0}
  /\ \A i \in 1 .. Len(vals) : vals[i] \subseteq Legal(range)

\* The generated arguments of each kind.
LEMMA RangeLegal ==
  ASSUME NEW m \in Nat, NEW n \in Nat, m <= n
  PROVE  LegalVals(RangeVals(m, n), Within(m, n))
<1>1. Legal(Within(m, n)) = {FromNat(i) : i \in m .. n}
  BY DEF Legal, Within
<1>2. n - m + 1 \in Nat \ {0} /\ Len(RangeVals(m, n)) = n - m + 1
  BY DEF RangeVals
<1>3. \A k \in 1 .. (n - m + 1) : RangeVals(m, n)[k] = {FromNat(m + k - 1)} /\ m + k - 1 \in m .. n
  BY DEF RangeVals
<1> QED
  BY <1>1, <1>2, <1>3 DEF LegalVals

\* Integers around the ends of their range and zero, and random ones, are words.
LEMMA IntLegal ==
  ASSUME NEW n \in Nat \ {0}
  PROVE  LegalVals(IntVals(n), AnyInt)
<1>1. Legal(AnyInt) = Word
  BY DEF Legal, AnyInt
<1>2. 5 * n \in Nat \ {0} /\ Len(IntVals(n)) = 5 * n
  BY DEF IntVals
<1>3. ASSUME NEW k \in 1 .. (5 * n) PROVE IntVals(n)[k] \subseteq Word
  <2> DEFINE i == FromNat((k - 1) \div 5)
             of == (k - 1) % 5
  <2>1. i \in Word
    BY WordTypes
  <2>2. of = 0 \/ of = 1 \/ of = 2 \/ of = 3 \/ of = 4
    OBVIOUS
  <2>3. IntVals(n)[k] = CASE of = 0 -> {Plus(TMin, i)} [] of = 1 -> {Minus(TMax, i)} [] of = 2 -> {i}
                          [] of = 3 -> {Neg(i)} [] of = 4 -> RandomWords
    BY DEF IntVals
  <2> HIDE DEF i, of
  <2>4. Plus(TMin, i) \in Word /\ Minus(TMax, i) \in Word /\ Neg(i) \in Word
    BY <2>1, WordTypes, PlusType
  <2>5. RandomWords \subseteq Word
    BY RangeAssumption
  <2> QED
    BY <2>1, <2>2, <2>3, <2>4, <2>5
<1> QED
  BY <1>1, <1>2, <1>3 DEF LegalVals

\* So are the floats around zero, the smallest normal numbers, one and the largest.
LEMMA FloatLegal ==
  ASSUME NEW n \in Nat \ {0}
  PROVE  LegalVals(FloatVals(n), AnyFloat)
<1> DEFINE range == IF n > 2 ^ 23 THEN 2 ^ 23 ELSE n
           Val(k) ==
             LET i == FromNat((k - 1) \div 12)
                 of == (k - 1) % 12
                 near == CASE of \in {0, 1} -> i
                           [] of \in {2, 4} -> Plus(SmallestNorm, i) [] of \in {3, 5} -> Minus(SmallestNorm, i)
                           [] of \in {6, 8} -> Plus(FloatOne, i) [] of \in {7, 9} -> Minus(FloatOne, i)
                           [] of \in {10, 11} -> Minus(LargestNorm, i)
             IN  {IF of \in {1, 4, 5, 8, 9, 11} THEN near \cup {Sign} ELSE near}
           near == [k \in 1 .. (12 * range) |-> Val(k)]
<1>1. FloatVals(n) = near \o BothSigns(Inf) \o BothSigns(NaN)
  BY DEF FloatVals
<1>2. range \in Nat /\ 12 * range \in Nat
  OBVIOUS
<1> HIDE DEF range
<1>3. \A x \in Word : x \cup {Sign} \in Word
  BY DEF Word, Bits, Sign
<1>4. SmallestNorm \in Word /\ FloatOne \in Word /\ LargestNorm \in Word /\ Inf \in Word /\ NaN \in Word
  BY DEF SmallestNorm, FloatOne, LargestNorm, Inf, NaN, Word, Bits
<1>5. ASSUME NEW k \in 1 .. (12 * range)
      PROVE  Val(k) \subseteq Word
  <2> DEFINE i == FromNat((k - 1) \div 12)
             of == (k - 1) % 12
             x == CASE of \in {0, 1} -> i
                    [] of \in {2, 4} -> Plus(SmallestNorm, i) [] of \in {3, 5} -> Minus(SmallestNorm, i)
                    [] of \in {6, 8} -> Plus(FloatOne, i) [] of \in {7, 9} -> Minus(FloatOne, i)
                    [] of \in {10, 11} -> Minus(LargestNorm, i)
  <2>1. of \in 0 .. 11
    BY <1>2
  <2>2. i \in Word
    BY WordTypes
  <2>3. Val(k) = {IF of \in {1, 4, 5, 8, 9, 11} THEN x \cup {Sign} ELSE x}
    OBVIOUS
  <2> HIDE DEF i, of
  <2>4. /\ Plus(SmallestNorm, i) \in Word /\ Minus(SmallestNorm, i) \in Word /\ Plus(FloatOne, i) \in Word
        /\ Minus(FloatOne, i) \in Word /\ Minus(LargestNorm, i) \in Word
    BY <1>4, <2>2, PlusType, WordTypes
  <2>5. x \in Word
    BY <2>1, <2>2, <2>4
  <2> HIDE DEF x, Val
  <2> QED
    BY <1>3, <2>3, <2>5
<1> HIDE DEF Val
<1>6. /\ near \in Seq(SUBSET Word) /\ Len(near) = 12 * range
      /\ BothSigns(Inf) \in Seq(SUBSET Word) /\ BothSigns(NaN) \in Seq(SUBSET Word)
      /\ Len(BothSigns(Inf)) = 2
  <2>1. near \in [1 .. (12 * range) -> SUBSET Word]
    BY <1>5
  <2>2. near \in Seq(SUBSET Word) /\ Len(near) = 12 * range
    BY <1>2, <2>1
  <2> HIDE DEF near
  <2> QED
    BY <1>3, <1>4, <2>2 DEF BothSigns
<1> HIDE DEF near
<1>7. /\ near \o BothSigns(Inf) \o BothSigns(NaN) \in Seq(SUBSET Word)
      /\ Len(near \o BothSigns(Inf) \o BothSigns(NaN)) # 0
  BY <1>2, <1>6
<1>8. Legal(AnyFloat) = Word
  BY DEF Legal, AnyFloat
<1> QED
  BY <1>1, <1>7, <1>8 DEF LegalVals

\* All arguments of a puzzle are legal, generated or given.
LEMMA GenLegal ==
  ASSUME NEW range \in Ranges, NEW n \in Nat \ {0}
  PROVE  LegalVals(gen_vals(range, n), range)
<1>1. CASE range = AnyInt
  <2>1. gen_vals(range, n) = IntVals(n)
    BY <1>1 DEF gen_vals, AnyInt
  <2> QED
    BY <1>1, <2>1, IntLegal
<1>2. ASSUME NEW m \in Nat, NEW k \in Nat, m <= k, range = Within(m, k)
      PROVE  LegalVals(gen_vals(range, n), range)
  <2>1. gen_vals(range, n) = RangeVals(m, k)
    BY <1>2 DEF gen_vals, Within
  <2> QED
    BY <1>2, <2>1, RangeLegal
<1>3. CASE range = AnyFloat
  <2>1. gen_vals(range, n) = FloatVals(n)
    BY <1>3 DEF gen_vals, AnyFloat
  <2> QED
    BY <1>3, <2>1, FloatLegal
<1> QED
  BY <1>1, <1>2, <1>3 DEF Ranges

\* A user gives a word, or one in the range of the puzzle.
LEMMA GivenLegal ==
  ASSUME NEW range \in Ranges, NEW args \in 1 .. 2
  PROVE  LegalVals(GivenVals(range, args), range)
<1>1. CASE range = AnyInt \/ range = AnyFloat
  <2>1. GivenVals(range, args) = <<GivenWords[args]>> /\ Legal(range) = Word
    BY <1>1 DEF GivenVals, AnyInt, AnyFloat, Legal
  <2>2. GivenWords[args] \subseteq Word
    BY RangeAssumption
  <2> QED
    BY <2>1, <2>2 DEF LegalVals
<1>2. ASSUME NEW m \in Nat, NEW k \in Nat, m <= k, range = Within(m, k)
      PROVE  LegalVals(GivenVals(range, args), range)
  <2> DEFINE vals == RangeVals(m, k)
  <2>1. GivenVals(range, args) = <<UNION ToSet(vals)>>
    BY <1>2 DEF GivenVals, Within
  <2>2. LegalVals(vals, range) /\ DOMAIN vals = 1 .. Len(vals)
    <3>1. k - m + 1 \in Nat
      BY <1>2
    <3>2. DOMAIN vals = 1 .. Len(vals)
      BY <3>1 DEF RangeVals
    <3> QED
      BY <1>2, <3>2, RangeLegal
  <2> HIDE DEF vals
  <2>3. UNION ToSet(vals) \subseteq Legal(range)
    BY <2>2 DEF LegalVals, ToSet
  <2> QED
    BY <2>1, <2>3 DEF LegalVals
<1> QED
  BY <1>1, <1>2 DEF Ranges

\* The values of both arguments of puzzle t.
LEMMA Arguments ==
  ASSUME NEW t \in 1 .. 16, NEW g \in BOOLEAN
  PROVE  LET v == arg_test_vals[t][g]
         IN  /\ Len(v[2]) \in Nat \ {0}
             /\ LegalVals(v[1], test_set[t].ranges[1])
             /\ Len(test_set[t].ranges) = 2 => LegalVals(v[2], test_set[t].ranges[2])
<1> DEFINE ranges == test_set[t].ranges
           v == arg_test_vals[t][g]
           of(k) == IF g THEN GivenVals(ranges[k], Len(ranges)) ELSE gen_vals(ranges[k], TestRange(Len(ranges)))
<1>1. t \in DOMAIN test_set
  BY DEF test_set
<1>2. v = <<of(1), IF Len(ranges) = 2 THEN of(2) ELSE NoArgument>>
  BY <1>1 DEF arg_test_vals
<1>3. ranges \in {<<AnyInt>>, <<AnyFloat>>, <<AnyInt, AnyInt>>, <<AnyInt, Within(0, 31)>>, <<Within(1, 5)>>,
                  <<Within(0, 15), Within(0, 15)>>}
  <2>1. \/ t = 1 \/ t = 2 \/ t = 3 \/ t = 4 \/ t = 5 \/ t = 6 \/ t = 7 \/ t = 8
        \/ t = 9 \/ t = 10 \/ t = 11 \/ t = 12 \/ t = 13 \/ t = 14 \/ t = 15 \/ t = 16
    OBVIOUS
  <2> HIDE DEF ranges
  <2>2. t \in {1, 3, 5, 6, 10, 12} => ranges = <<AnyInt>>
    BY Entries DEF Is, ranges
  <2>3. t \in {2, 9, 11} => ranges = <<AnyInt, AnyInt>>
    BY Entries DEF Is, ranges
  <2>4. t = 4 => ranges = <<AnyInt, Within(0, 31)>>
    BY Entries DEF Is, ranges
  <2>5. t = 7 => ranges = <<Within(1, 5)>>
    BY Entries DEF Is, ranges
  <2>6. t = 8 => ranges = <<Within(0, 15), Within(0, 15)>>
    BY Entries DEF Is, ranges
  <2>7. t \in {13, 14, 15, 16} => ranges = <<AnyFloat>>
    BY Entries DEF Is, ranges
  <2>8. t \in {1, 3, 5, 6, 10, 12} \/ t \in {2, 9, 11} \/ t = 4 \/ t = 7 \/ t = 8 \/ t \in {13, 14, 15, 16}
    BY <2>1
  <2> QED
    BY <2>2, <2>3, <2>4, <2>5, <2>6, <2>7, <2>8
<1>4. (\E r \in Ranges : ranges = <<r>>) \/ (\E r, u \in Ranges : ranges = <<r, u>>)
  <2>1. AnyInt \in Ranges /\ AnyFloat \in Ranges /\ Within(0, 31) \in Ranges /\ Within(1, 5) \in Ranges
        /\ Within(0, 15) \in Ranges
    BY DEF Ranges
  <2> HIDE DEF ranges
  <2> QED
    BY <1>3, <2>1
<1> HIDE DEF ranges, v
<1>5. \A k \in 1 .. 2 : Len(ranges) \in 1 .. 2 /\ ranges[k] \in Ranges => LegalVals(of(k), ranges[k])
  BY RangeExists, GenLegal, GivenLegal
<1> HIDE DEF of
<1>6. v[1] = of(1) /\ (Len(ranges) = 2 => v[2] = of(2)) /\ (Len(ranges) # 2 => v[2] = NoArgument)
  BY <1>2
<1>7. Len(NoArgument) = 1
  BY DEF NoArgument
<1>8. CASE \E r \in Ranges : ranges = <<r>>
  <2>1. Len(ranges) = 1 /\ ranges[1] \in Ranges
    BY <1>8
  <2>2. LegalVals(of(1), ranges[1])
    BY <1>5, <2>1
  <2> QED
    BY <1>6, <1>7, <2>1, <2>2 DEF ranges, v
<1>9. CASE \E r, u \in Ranges : ranges = <<r, u>>
  <2>1. Len(ranges) = 2 /\ ranges[1] \in Ranges /\ ranges[2] \in Ranges
    BY <1>9
  <2>2. LegalVals(of(1), ranges[1]) /\ LegalVals(of(2), ranges[2])
    BY <1>5, <2>1
  <2>3. Len(of(2)) \in Nat \ {0}
    BY <2>2 DEF LegalVals
  <2> QED
    BY <1>6, <2>1, <2>2, <2>3 DEF ranges, v
<1> QED
  BY <1>4, <1>8, <1>9

\* A puzzle agrees with its test function on legal arguments.
LEMMA AllAgree ==
  ASSUME NEW t \in 1 .. 16, NEW x \in Legal(test_set[t].ranges[1]), NEW y,
         Len(test_set[t].ranges) = 2 => y \in Legal(test_set[t].ranges[2])
  PROVE  solution(test_set[t].name, x, y) = reference(test_set[t].name, x, y)
<1>1. Legal(AnyInt) = Word /\ Legal(AnyFloat) = Word
  BY DEF Legal, AnyInt, AnyFloat
<1>2. \A m, n : Legal(Within(m, n)) = {FromNat(i) : i \in m .. n}
  BY DEF Legal, Within
<1>3. Legal(Within(0, 31)) \subseteq SUBSET (0 .. 4)
  BY <1>2, Narrow
<1>4. Legal(Within(0, 15)) \subseteq SUBSET (0 .. 3)
  BY <1>2, Narrow
<1>5. CASE t = 1
  <2>1. test_set[t].name = "bitNot" /\ x \in Word
    BY <1>1, <1>5, Entries DEF Is
  <2> QED
    BY <2>1, BitNotRight DEF solution, reference
<1>6. CASE t = 2
  <2>1. test_set[t].name = "bitXor" /\ x \in Word /\ y \in Word
    BY <1>1, <1>6, Entries DEF Is
  <2> QED
    BY <2>1, BitXorRight DEF solution, reference
<1>7. CASE t = 3
  <2>1. test_set[t].name = "allOddBits" /\ x \in Word
    BY <1>1, <1>7, Entries DEF Is
  <2> QED
    BY <2>1, AllOddBitsRight DEF solution, reference
<1>8. CASE t = 4
  <2>1. test_set[t].name = "rotateRight" /\ x \in Word /\ y \in SUBSET (0 .. 4)
    BY <1>1, <1>3, <1>8, Entries DEF Is
  <2> QED
    BY <2>1, RotateRightRight DEF solution, reference
<1>9. CASE t = 5
  <2>1. test_set[t].name = "palindrome" /\ x \in Word
    BY <1>1, <1>9, Entries DEF Is
  <2> QED
    BY <2>1, PalindromeRight DEF solution, reference
<1>10. CASE t = 6
  <2>1. test_set[t].name = "countConsecutive1" /\ x \in Word
    BY <1>1, <1>10, Entries DEF Is
  <2> QED
    BY <2>1, CountConsecutive1Right DEF solution, reference
<1>11. CASE t = 7
  <2>1. test_set[t].name = "counter1To5" /\ \E n \in 1 .. 5 : x = FromNat(n)
    BY <1>2, <1>11, Entries DEF Is
  <2> QED
    BY <2>1, Counter1To5Right DEF solution, reference
<1>12. CASE t = 8
  <2>1. test_set[t].name = "fullSub" /\ x \in SUBSET (0 .. 3) /\ y \in SUBSET (0 .. 3)
    BY <1>4, <1>12, Entries DEF Is
  <2> QED
    BY <2>1, FullSubRight DEF solution, reference
<1>13. CASE t = 9
  <2>1. test_set[t].name = "isLessOrEqual" /\ x \in Word /\ y \in Word
    BY <1>1, <1>13, Entries DEF Is
  <2> QED
    BY <2>1, IsLessOrEqualRight DEF solution, reference
<1>14. CASE t = 10
  <2>1. test_set[t].name = "sm2tc" /\ x \in Word
    BY <1>1, <1>14, Entries DEF Is
  <2> QED
    BY <2>1, Sm2tcRight DEF solution, reference
<1>15. CASE t = 11
  <2>1. test_set[t].name = "satAdd" /\ x \in Word /\ y \in Word
    BY <1>1, <1>15, Entries DEF Is
  <2> QED
    BY <2>1, SatAddRight DEF solution, reference
<1>16. CASE t = 12
  <2>1. test_set[t].name = "trueFiveEighths" /\ x \in Word
    BY <1>1, <1>16, Entries DEF Is
  <2> QED
    BY <2>1, TrueFiveEighthsRight DEF solution, reference
<1>17. CASE t = 13
  <2>1. test_set[t].name = "float_twice" /\ x \in Word
    BY <1>1, <1>17, Entries DEF Is
  <2> QED
    BY <2>1, FloatTwiceRight DEF solution, reference
<1>18. CASE t = 14
  <2>1. test_set[t].name = "float_half" /\ x \in Word
    BY <1>1, <1>18, Entries DEF Is
  <2> QED
    BY <2>1, FloatHalfRight DEF solution, reference
<1>19. CASE t = 15
  <2>1. test_set[t].name = "float_f2i" /\ x \in Word
    BY <1>1, <1>19, Entries DEF Is
  <2> QED
    BY <2>1, FloatF2iRight DEF solution, reference
<1>20. CASE t = 16
  <2>1. test_set[t].name = "float_pwr2" /\ x \in Word
    BY <1>1, <1>20, Entries DEF Is
  <2> QED
    BY <2>1, FloatPwr2Right DEF solution, reference
<1> QED
  BY <1>5, <1>6, <1>7, <1>8, <1>9, <1>10, <1>11, <1>12, <1>13, <1>14, <1>15, <1>16, <1>17, <1>18, <1>19, <1>20

\* The invariant of btest: the indices stay within the arguments, and no puzzle has an error.
BtestInv ==
  /\ test \in 1 .. 17 /\ given \in BOOLEAN
  /\ a1 \in Nat \ {0} /\ a2 \in Nat \ {0}
  /\ Running => a2 <= Len(Vals[2])
  /\ failed = {}

\* As solution and reference agree on legal arguments, no call of btest finds an error.
LEMMA BtestInvariant == Spec => []BtestInv
<1>1. Len(test_set) = 16 /\ DOMAIN test_set = 1 .. 16
  BY DEF test_set
<1>2. ASSUME test \in 1 .. 17, given \in BOOLEAN, Running
      PROVE  1 <= Len(Vals[2])
  <2>1. test \in 1 .. 16
    BY <1>1, <1>2 DEF Running
  <2>2. Len(Vals[2]) \in Nat \ {0}
    BY <1>2, <2>1, Arguments DEF Vals
  <2> QED
    BY <2>2
<1>3. Init => BtestInv
  <2> SUFFICES ASSUME Init PROVE BtestInv
    OBVIOUS
  <2>1. /\ test \in 1 .. 17 /\ given \in BOOLEAN
        /\ a1 = 1 /\ a2 = 1
        /\ failed = {}
    BY <1>1 DEF Init
  <2>2. Running => 1 <= Len(Vals[2])
    BY <1>2, <2>1
  <2> QED
    BY <2>1, <2>2 DEF BtestInv
<1>4. BtestInv /\ [Next]_vars => BtestInv'
  <2> SUFFICES ASSUME BtestInv, [Next]_vars PROVE BtestInv'
    OBVIOUS
  <2>1. CASE Test
    <3>1. PICK x \in Vals[1][a1], y \in Vals[2][a2] :
            IF ~Agree(x, y) THEN Scored(TRUE)
            ELSE /\ IF a2 < Len(Vals[2]) THEN a2' = a2 + 1 /\ UNCHANGED a1
                    ELSE a2' = 1 /\ a1' = a1 + 1
                 /\ UNCHANGED <<test, given, failed, points, max_points>>
      BY <2>1 DEF Test
    <3>2. Running /\ a1 <= Len(Vals[1]) /\ test \in 1 .. 16 /\ given \in BOOLEAN
          /\ a1 \in Nat \ {0} /\ a2 \in Nat \ {0} /\ a2 <= Len(Vals[2])
      BY <1>1, <2>1 DEF Test, BtestInv, Running
    <3>3. Len(Vals[2]) \in Nat \ {0}
      BY <3>2, Arguments DEF Vals
    <3>4. Agree(x, y)
      <4>1. LegalVals(Vals[1], test_set[test].ranges[1])
        BY <3>2, Arguments DEF Vals
      <4>2. Len(test_set[test].ranges) = 2 => LegalVals(Vals[2], test_set[test].ranges[2])
        BY <3>2, Arguments DEF Vals
      <4>3. x \in Legal(test_set[test].ranges[1])
        BY <3>1, <3>2, <4>1 DEF LegalVals
      <4>4. Len(test_set[test].ranges) = 2 => y \in Legal(test_set[test].ranges[2])
        BY <3>1, <3>2, <4>2 DEF LegalVals
      <4> QED
        BY <3>2, <4>3, <4>4, AllAgree DEF Agree, name
    <3>5. test' = test /\ given' = given /\ failed' = failed
      BY <3>1, <3>4
    <3>6. a1' \in Nat \ {0} /\ a2' \in Nat \ {0} /\ a2' <= Len(Vals[2])
      BY <3>1, <3>2, <3>3, <3>4
    <3>7. Vals' = Vals /\ (Running' <=> Running)
      BY <3>5 DEF Vals, Running
    <3> QED
      BY <3>5, <3>6, <3>7 DEF BtestInv
  <2>2. CASE Finish
    <3>1. test \in 1 .. 16 /\ test' \in 1 .. 17 /\ given' = given /\ a1' = 1 /\ a2' = 1 /\ failed' = failed
      BY <1>1, <2>2 DEF BtestInv, Finish, Scored, Running
    <3>2. given' \in BOOLEAN
      BY <3>1 DEF BtestInv
    <3>3. Running' => 1 <= Len(Vals[2])'
      <4> SUFFICES ASSUME Running' PROVE 1 <= Len(Vals[2])'
        OBVIOUS
      <4>1. test' \in 1 .. 16
        BY <1>1, <3>1 DEF Running
      <4>2. Len(arg_test_vals[test'][given'][2]) \in Nat \ {0}
        BY <3>2, <4>1, Arguments
      <4> QED
        BY <4>2 DEF Vals
    <3> QED
      BY <3>1, <3>2, <3>3 DEF BtestInv
  <2>3. CASE UNCHANGED vars
    <3>1. Vals' = Vals /\ (Running' <=> Running)
      BY <2>3 DEF vars, Vals, Running
    <3> QED
      BY <2>3, <3>1 DEF vars, BtestInv
  <2> QED
    BY <2>1, <2>2, <2>3 DEF Next
<1> QED
  BY <1>3, <1>4, PTL DEF Spec

\* btest finds no error in a puzzle on integers, whatever TEST_RANGE is, whatever random_val
\* returns and whatever a user gives (btest.c:289).
THEOREM IntegerPuzzlesAreRight == Spec => []IntegerPuzzlesRight
<1>1. BtestInv => IntegerPuzzlesRight
  BY DEF BtestInv, IntegerPuzzlesRight
<1> QED
  BY <1>1, BtestInvariant, PTL

\* Neither does it in a puzzle on floats: they are the machine's arithmetic (btest.c:243).
THEOREM FloatPuzzlesAreRight == Spec => []FloatPuzzlesRight
<1>1. BtestInv => FloatPuzzlesRight
  BY DEF BtestInv, FloatPuzzlesRight
<1> QED
  BY <1>1, BtestInvariant, PTL
=============================================================================
