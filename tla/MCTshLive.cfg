SPECIFICATION FairSpec
CONSTANTS
  MAXJOBS = 2
  JidBound = 2
  Pids = {p1, p2}
  Commands = {"runbg"}
  p1 = p1
  p2 = p2
PROPERTIES DeadAreReaped
CHECK_DEADLOCK FALSE
