CONSTANTS
  Jobs = {1}
  TargetOf <- MCTargetOf
  Legacy = {}
  ProtectedJob = 0
  Workers = {w1, w2}
  Owners = {o1}
  NULL = NULL
  ClaimLimit = 1
  LeaseTicks = 3
  BeatTicks = 1
  CanStall = TRUE
  MaxFaults = 2
SPECIFICATION FairSpec
INVARIANT SnapshotsAreBacked
PROPERTIES JobContract EventuallyTerminal
