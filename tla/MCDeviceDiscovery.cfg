CONSTANTS
  Targets <- MCTargets
  Profiles <- MCProfiles
  NULL = NULL
  MaxPatches = 1
  MaxFaults = 2
CHECK_DEADLOCK FALSE
SPECIFICATION FairSpec
INVARIANTS Inv SuccessIsComplete  VerdictIsExplained
PROPERTY ExecutionEnds
