CONSTANTS
  a1 = a1
  a2 = a2
  solo = solo
  ssh_a = ssh_a
  ssh_b = ssh_b
  Jobs = {a1, a2, solo}
  Keys = {ssh_a, ssh_b}
  Key <- MCKey
  Timed = {a1}
  MaxAttempts <- MCMaxAttempts
  MaxSize = 1
  Threshold = 2
  Successes = 1
  Recovery = 1
  NULL = NULL
  Closer = Closer
  MaxTime = 1
  MaxCloses = 1
CHECK_DEADLOCK FALSE
SPECIFICATION FairSpec
INVARIANTS Inv SavedIffSucceeded
PROPERTY JobsEnd
