CONSTANTS
  Jobs = {1, 2, 3}
  TargetOf <- MCTargetOf
  Legacy = {1}
  ProtectedJob = 0
  Workers = {w1, w2}
  Owners = {o1, o2}
  NULL = NULL
  ClaimLimit = 2
  LeaseTicks = 3
  BeatTicks = 1
  CanStall = FALSE
  MaxFaults = 1
SYMMETRY MCSymmetry
SPECIFICATION Spec
INVARIANTS Inv NeverResumed CancelNeverSucceeds
PROPERTY ReconcileExpiredOnly
