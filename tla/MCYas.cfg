SPECIFICATION Spec
CHECK_DEADLOCK FALSE
CONSTANTS
  WordBytes = 3
  MemLen = 8192
  IntModulus = 262144
  Sources <- AllSources
INVARIANTS
  PassesAgree
  LabelsAgree
  ExitStatusRight
  ImageRight
