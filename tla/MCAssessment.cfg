CONSTANTS
  NULL = NULL
  Text <- MCText
  Strip <- MCStrip
  Fold <- MCFold
  Within <- MCWithin
  Number <- MCNumber
  Rules <- MCRules
  Holds <- MCHolds
  Cases <- MCCases
CHECK_DEADLOCK FALSE
SPECIFICATION Spec
INVARIANTS DriftIsDetected RulesAreInherited VerdictIsJustified
