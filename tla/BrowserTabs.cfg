CONSTANTS
  Tabs = {b1, b2}
  Requests = {r1}
  MaxTokens = 2
  MaxOpen = 2
  May = {"overlap", "reload", "account"}
SPECIFICATION Spec
SYMMETRY TabSymmetry
INVARIANT TabsAgree
CHECK_DEADLOCK FALSE
