CONSTANTS
  Jobs = {1, 2}
  Workers = {w1, w2}
  NULL = NULL
  Priority <- MCPriority
  Timed = {2}
  Slots = 1
  MaxAttempts = 2
  MaxFaults = 1
CHECK_DEADLOCK FALSE
SPECIFICATION FairSpec
INVARIANTS Inv RunsOnce
PROPERTIES CancelledNeverStarts AcceptedJobsEnd ShutdownReturns
