CONSTANTS
  NULL = NULL
  Text <- MCText
  Strip <- MCStrip
  Fold <- MCFold
  Within <- MCWithin
  Rank <- MCRank
  Host <- MCHost
  Addresses = {"i", "j"}
  InRange = {"i", "j"}
  JobResults <- MCResults
  NetBoxInventories <- MCNetBox
  LiveInventories <- MCLive
  Times <- MCTimes
  DaysPerMonth = 6
  MaxSnapshots = 3
  MaxComparisons = 2
CHECK_DEADLOCK FALSE
SPECIFICATION Spec
INVARIANTS AggregatesAreComplete ReportsAgree ViewsAgree
