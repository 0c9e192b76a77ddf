SPECIFICATION PropSpec
CHECK_DEADLOCK FALSE
CONSTANTS
  WordBytes = 1
  MemLen = 32
  FetchAhead = 1
  InstrLimit = 40
  IsaLimit = 12
  Sims = {"psim", "ssim"}
  Bodies <- NoBaseBodies
  Images <- Programs
INVARIANTS
  IsaCheckSucceeds
