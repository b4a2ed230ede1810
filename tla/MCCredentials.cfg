CONSTANTS
  Keys <- MCKeys
  p1 = p1
  p2 = p2
  ProfileIds = {p1, p2}
  Forms <- MCForms
  TargetForms <- MCTargetForms
  Secrets = {"known"}
  Platforms <- MCPlatforms
  Alias <- MCAlias
  Starts <- MCStarts
  r1 = r1
  r2 = r2
  Requests = {r1, r2}
  MaxEdits = 3
  NULL = NULL
SYMMETRY Symmetry
CHECK_DEADLOCK FALSE
SPECIFICATION Spec
INVARIANTS CollectingIsSound
PROPERTIES  RevokedProfilesAreRefused
