SPECIFICATION Spec
CHECK_DEADLOCK FALSE
CONSTANTS
  TEST_RANGE = 9
  RandomWords <- Samples
  GivenWords <- Given
INVARIANTS
  IntegerPuzzlesRight
  FloatPuzzlesRight
