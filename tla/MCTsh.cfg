SPECIFICATION Spec
CONSTANTS
  MAXJOBS = 2
  JidBound = 2
  Pids = {p1, p2}
  Commands = {"run", "runbg", "fg", "bg", "kill", "killpg", "jobs", "quit"}
  p1 = p1
  p2 = p2
SYMMETRY Symmetry
INVARIANTS TypeOK Recorded NoStaleEntry UniquePids ForwardOnlyToForeground FreshUnlessWrapped EveryJobIsNameable
PROPERTIES ImplementsJobControl
CHECK_DEADLOCK FALSE
