------------------------------- MODULE Btest -------------------------------
(***************************************************************************)
(* btest.c: calls every puzzle and its test function on generated arguments, *)
(* stops at the first difference, and adds up the ratings of the puzzles     *)
(* without one.  The user may choose one puzzle and give the arguments.      *)
(***************************************************************************)
EXTENDS Bits, BitsTests, SequencesExt

CONSTANTS TEST_RANGE,   \* values on each side of a boundary
          RandomWords,  \* what random_val may return
          GivenWords    \* what a user may give with -1 and -2, by number of arguments

ASSUME RangeAssumption ==
  /\ TEST_RANGE \in Nat \ {0}
  /\ RandomWords \subseteq Word /\ GivenWords \in [1 .. 2 -> SUBSET Word]

VARIABLES test,      \* index of the puzzle in test_set
          a1, a2,    \* indices of the next arguments
          given,     \* the user has chosen a puzzle and gives its arguments
          failed,    \* puzzles with errors
          points, max_points

vars == <<test, a1, a2, given, failed, points, max_points>>

\* An entry of test_set: name, arguments with their ranges, rating.
Puzzle(name, ranges, rating) == [name |-> name, ranges |-> ranges, rating |-> rating]
AnyInt == [kind |-> "int"]
AnyFloat == [kind |-> "float"]
Within(min, max) == [kind |-> "range", min |-> min, max |-> max]

test_set == <<
  Puzzle("bitNot", <<AnyInt>>, 1), Puzzle("bitXor", <<AnyInt, AnyInt>>, 1),
  Puzzle("allOddBits", <<AnyInt>>, 2), Puzzle("rotateRight", <<AnyInt, Within(0, 31)>>, 3),
  Puzzle("palindrome", <<AnyInt>>, 4), Puzzle("countConsecutive1", <<AnyInt>>, 4),
  Puzzle("counter1To5", <<Within(1, 5)>>, 2), Puzzle("fullSub", <<Within(0, 15), Within(0, 15)>>, 2),
  Puzzle("isLessOrEqual", <<AnyInt, AnyInt>>, 3), Puzzle("sm2tc", <<AnyInt>>, 4),
  Puzzle("satAdd", <<AnyInt, AnyInt>>, 4), Puzzle("trueFiveEighths", <<AnyInt>>, 4),
  Puzzle("float_twice", <<AnyFloat>>, 4), Puzzle("float_half", <<AnyFloat>>, 4),
  Puzzle("float_f2i", <<AnyFloat>>, 4), Puzzle("float_pwr2", <<AnyFloat>>, 4)>>

solution(name, x, y) ==
  CASE name = "bitNot" -> bitNot(x) [] name = "bitXor" -> bitXor(x, y)
    [] name = "allOddBits" -> allOddBits(x) [] name = "rotateRight" -> rotateRight(x, y)
    [] name = "palindrome" -> palindrome(x) [] name = "countConsecutive1" -> countConsecutive1(x)
    [] name = "counter1To5" -> counter1To5(x) [] name = "fullSub" -> fullSub(x, y)
    [] name = "isLessOrEqual" -> isLessOrEqual(x, y) [] name = "sm2tc" -> sm2tc(x)
    [] name = "satAdd" -> satAdd(x, y) [] name = "trueFiveEighths" -> trueFiveEighths(x)
    [] name = "float_twice" -> float_twice(x) [] name = "float_half" -> float_half(x)
    [] name = "float_f2i" -> float_f2i(x) [] name = "float_pwr2" -> float_pwr2(x)

reference(name, x, y) ==
  CASE name = "bitNot" -> test_bitNot(x) [] name = "bitXor" -> test_bitXor(x, y)
    [] name = "allOddBits" -> test_allOddBits(x) [] name = "rotateRight" -> test_rotateRight(x, y)
    [] name = "palindrome" -> test_palindrome(x) [] name = "countConsecutive1" -> test_countConsecutive1(x)
    [] name = "counter1To5" -> test_counter1To5(x) [] name = "fullSub" -> test_fullSub(x, y)
    [] name = "isLessOrEqual" -> test_isLessOrEqual(x, y) [] name = "sm2tc" -> test_sm2tc(x)
    [] name = "satAdd" -> test_satAdd(x, y) [] name = "trueFiveEighths" -> test_trueFiveEighths(x)
    [] name = "float_twice" -> test_float_twice(x) [] name = "float_half" -> test_float_half(x)
    [] name = "float_f2i" -> test_float_f2i(x) [] name = "float_pwr2" -> test_float_pwr2(x)
--------------------------------------------------------------------------
\* gen_vals: a sequence of arguments, each the set of the values it may have.
SmallestNorm == {23}
FloatOne == 23 .. 29
LargestNorm == 0 .. 30 \ {23}
Inf == 23 .. 30
NaN == 22 .. 30

BothSigns(x) == <<{x}, {x \cup {Sign}}>>

FloatVals(n) ==
  LET range == IF n > 2 ^ 23 THEN 2 ^ 23 ELSE n
      Val(k) ==
        LET i == FromNat((k - 1) \div 12)
            of == (k - 1) % 12
            near == CASE of \in {0, 1} -> i
                      [] of \in {2, 4} -> Plus(SmallestNorm, i) [] of \in {3, 5} -> Minus(SmallestNorm, i)
                      [] of \in {6, 8} -> Plus(FloatOne, i) [] of \in {7, 9} -> Minus(FloatOne, i)
                      [] of \in {10, 11} -> Minus(LargestNorm, i)
        IN  {IF of \in {1, 4, 5, 8, 9, 11} THEN near \cup {Sign} ELSE near}
  IN  [k \in 1 .. (12 * range) |-> Val(k)] \o BothSigns(Inf) \o BothSigns(NaN)

IntVals(n) ==
  [k \in 1 .. (5 * n) |->
    LET i == FromNat((k - 1) \div 5)
        of == (k - 1) % 5
    IN  CASE of = 0 -> {Plus(TMin, i)} [] of = 1 -> {Minus(TMax, i)} [] of = 2 -> {i}
          [] of = 3 -> {Neg(i)} [] of = 4 -> RandomWords]

\* A range small enough is tested exhaustively.
RangeVals(min, max) == [k \in 1 .. (max - min + 1) |-> {FromNat(min + k - 1)}]

gen_vals(range, n) ==
  CASE range.kind = "float" -> FloatVals(n)
    [] range.kind = "int"   -> IntVals(n)
    [] range.kind = "range" -> RangeVals(range.min, range.max)

\* What a user may give: what the puzzle's specification allows.
GivenVals(range, args) ==
  IF range.kind = "range" THEN <<UNION ToSet(RangeVals(range.min, range.max))>>
  ELSE <<GivenWords[args]>>

\* Puzzles with two arguments take the square root of TEST_RANGE for each.
TestRange(args) ==
  IF args = 1 THEN TEST_RANGE
  ELSE CHOOSE r \in 1 .. TEST_RANGE : r * r <= TEST_RANGE /\ (r + 1) * (r + 1) > TEST_RANGE

NoArgument == <<{Zero}>>
arg_test_vals ==
  [t \in DOMAIN test_set |-> [g \in BOOLEAN |->
     LET ranges == test_set[t].ranges
         Of(k) == IF g THEN GivenVals(ranges[k], Len(ranges)) ELSE gen_vals(ranges[k], TestRange(Len(ranges)))
     IN  <<Of(1), IF Len(ranges) = 2 THEN Of(2) ELSE NoArgument>>]]
--------------------------------------------------------------------------
Init ==
  /\ given \in BOOLEAN
  /\ test \in (IF given THEN DOMAIN test_set ELSE {1})
  /\ a1 = 1 /\ a2 = 1
  /\ failed = {}
  /\ points = 0 /\ max_points = 0

Vals == arg_test_vals[test][given]
Running == test <= Len(test_set)
name == test_set[test].name

\* run_tests gives the rating or nothing, and goes on to the next puzzle.
Scored(errors) ==
  /\ points' = points + (IF errors THEN 0 ELSE test_set[test].rating)
  /\ max_points' = max_points + test_set[test].rating
  /\ failed' = IF errors THEN failed \cup {name} ELSE failed
  /\ test' = IF given THEN Len(test_set) + 1 ELSE test + 1
  /\ a1' = 1 /\ a2' = 1
  /\ UNCHANGED given

Agree(x, y) == solution(name, x, y) = reference(name, x, y)

\* One call of the puzzle and of its test function.
Test ==
  /\ Running
  /\ a1 <= Len(Vals[1])
  /\ \E x \in Vals[1][a1], y \in Vals[2][a2] :
       IF ~Agree(x, y) THEN Scored(TRUE)
       ELSE /\ IF a2 < Len(Vals[2]) THEN a2' = a2 + 1 /\ UNCHANGED a1
               ELSE a2' = 1 /\ a1' = a1 + 1
            /\ UNCHANGED <<test, given, failed, points, max_points>>

Finish ==
  /\ Running
  /\ a1 > Len(Vals[1])
  /\ Scored(FALSE)

Next == Test \/ Finish
Spec == Init /\ [][Next]_vars
--------------------------------------------------------------------------
FloatPuzzles == {"float_twice", "float_half", "float_f2i", "float_pwr2"}
IntegerPuzzles == {test_set[t].name : t \in DOMAIN test_set} \ FloatPuzzles

\* The puzzles on integers agree with their test functions, on btest's
\* arguments and on those a user may give: at the extremes, and where sums
\* overflow and carries run through the word.
IntegerPuzzlesRight == failed \cap IntegerPuzzles = {}

\* The puzzles on floats agree with the machine's arithmetic: between denormals
\* and normal numbers, on ties, on overflow and infinities, and on the
\* exponents that btest's own arguments leave out.
FloatPuzzlesRight == failed \cap FloatPuzzles = {}
=============================================================================
