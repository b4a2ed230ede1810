CONSTANTS
  daily = daily
  once = once
  Schedules = {daily, once}
  OneTime = {once}
  Period <- MCPeriod
  Starts <- MCStarts
  NULL = NULL
  MaxTime = 3
  MaxRuns = 2
  MaxFaults = 1
CHECK_DEADLOCK FALSE
SPECIFICATION FairSpec
INVARIANT Inv
PROPERTIES DeletedStaysDeleted DueSchedulesRun
