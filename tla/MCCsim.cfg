SPECIFICATION Spec
CONSTANTS
  S = 2
  B = 2
  E = 2
  Locations <- MCLocations
  Garbage = {0, 1}
  ClockBound = 6
INVARIANTS KeepsMostRecent CountsAgree
PROPERTIES ImplementsLru
CHECK_DEADLOCK FALSE
