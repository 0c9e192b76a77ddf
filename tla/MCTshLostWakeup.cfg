SPECIFICATION FairSpec
CONSTANTS
  MAXJOBS = 1
  JidBound = 2
  Pids = {p1}
  Commands = {"run"}
  p1 = p1
PROPERTIES WaitfgReturns
CHECK_DEADLOCK FALSE
