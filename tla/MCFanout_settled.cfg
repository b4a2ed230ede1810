CONSTANTS
  a1 = a1
  a2 = a2
  other = other
  Addresses = {a1, a2}
  ReportedIP <- Differing
  Concurrency = 2
  NULL = NULL
  SingleCancels = FALSE
  CanStall = FALSE
  MaxFaults = 2
CHECK_DEADLOCK FALSE
SPECIFICATION FairSpec
INVARIANT EndedTreeIsSettled
PROPERTY EverythingEnds
