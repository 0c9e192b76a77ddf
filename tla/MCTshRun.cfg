SPECIFICATION Spec
CONSTANTS
  MAXJOBS = 2
  JidBound = 2
  Pids = {p1, p2, p3}
  Commands = {"run", "runbg", "kill"}
  p1 = p1
  p2 = p2
  p3 = p3
SYMMETRY Symmetry
INVARIANTS OneForeground StopRecorded
PROPERTIES RunIsWaitedFor
CHECK_DEADLOCK FALSE
