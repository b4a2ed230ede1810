CONSTANTS
  a1 = a1
  a2 = a2
  other = other
  Addresses = {a1, a2}
  ReportedIP <- Differing
  Concurrency = 1
  NULL = NULL
  SingleCancels = TRUE
  CanStall = TRUE
  MaxFaults = 1
SYMMETRY MCSymmetry
CHECK_DEADLOCK FALSE
SPECIFICATION Spec
INVARIANT Inv
PROPERTY ParentContract
PROPERTY DiscoveriesAreKept
