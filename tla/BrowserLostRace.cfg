CONSTANTS
  Tabs = {b1, b2}
  Requests = {r1}
  MaxTokens = 3
  MaxOpen = 2
  May = {"overlap"}
SPECIFICATION Spec
SYMMETRY TabSymmetry
INVARIANT SessionUsable
CHECK_DEADLOCK FALSE
