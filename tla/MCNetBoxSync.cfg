CONSTANTS
  Procs = {p1, p2}
  Jobs = {1, 2}
  Endpoints = 1
  MaxPages = 2
  MaxAttempts = 2
  MaxConns = 2
  Fragile = {p1}
  MaxCrashes = 1
  MaxErrors = 1
  NULL = NULL
CHECK_DEADLOCK FALSE
SPECIFICATION FairSpec
INVARIANTS OneSyncAtATime OutcomeIsTrue
PROPERTY EverySyncEnds
