CONSTANTS
  MaxItems = 2
  Shown = 2
  MaxClaims = 1
SPECIFICATION DecisionsSpec
INVARIANT BreakdownAddsUp
CHECK_DEADLOCK FALSE
