SPECIFICATION Spec
CHECK_DEADLOCK FALSE
CONSTANTS
  MAXJOBS = 3
  Pids = {1, 2, 3, 4, 5, 6, 7, 8, 9, 10, 11}
  QueueLen = 3
  Traces <- TraceNames
  Lines <- TraceLines
  Expected <- Reference
INVARIANTS
  InStep
  OutputAsExpected
  SignalFindsJob
PROPERTIES
  Terminates
