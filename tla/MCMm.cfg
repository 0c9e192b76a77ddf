SPECIFICATION Spec
CONSTANTS
  MAX_HEAP = 144
  MINEXPANDSIZE = 16
  MAXSIZE = 128
  CHUNKSIZE = 32
  Ids = {1, 2, 3}
  SizeModulus = 160
  Sizes = {0, 8, 24, 132, 148, 156}
  InitialWords = {0, 9}
  CopyOrders = {"up"}
INVARIANTS HeapOK BlocksOwned
PROPERTIES GrowsOnlyWhenNeeded ImplementsAllocator
\* The program may stop.
CHECK_DEADLOCK FALSE
