SPECIFICATION PropSpec
CHECK_DEADLOCK FALSE
CONSTANTS
  WordBytes = 1
  MemLen = 32
  FetchAhead = 1
  InstrLimit = 40
  IsaLimit = 12
  Sims = {"psim", "ssim"}
  Bodies <- SmallBodies
  Images <- Programs
INVARIANTS
  NoPipeError
  WrongPathCancelled
  CountersExplained
  MatchUnlessStackFault
PROPERTIES
  FaultFreezesState
  ImplementsArch
