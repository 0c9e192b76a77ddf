SPECIFICATION Spec
CONSTANTS
  Ids = {id1, id2}
  id1 = id1
  id2 = id2
  Sizes = {1, 5}
  NumTraces = 2
  ALIGNMENT = 2
  HeapLo = 2
  HeapHi = 8
  MaxFaults = 2
  Options <- AllOptions
SYMMETRY Symmetry
INVARIANTS NoFalseAlarm WrongIsFound RangesSound UtilIsHighWater IndexStandsForAll
\* The driver stops.
CHECK_DEADLOCK FALSE
