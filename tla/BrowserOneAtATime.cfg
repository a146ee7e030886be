CONSTANTS
  Tabs = {b1, b2}
  Requests = {r1, r2}
  MaxTokens = 3
  MaxOpen = 2
  May = {"lose", "signOut"}
SPECIFICATION FairSpec
INVARIANT SessionUsable
INVARIANT NeverReused
PROPERTY RequestsEnd
CHECK_DEADLOCK FALSE
