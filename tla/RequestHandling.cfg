CONSTANTS
  Callers = {b1, b2}
  MaxTokens = 3
  Clients = {c1, c2}
  Servers = {s1, s2}
  MaxFailures = 2
  MaxAttempts = 2
  MaxCodes = 2
  Submitters = {p1, p2}
  MaxInvestigations = 2
  MaxRounds = 3
  People = {u1, u2}
  MaxRows = 2
  Checks = {k1, k2}
  Contents = {1, 2}
  Readers = {r1, r2, r3}
  MaxFetches = 3
  MaxItems = 3
  Shown = 2
  MaxClaims = 1
SPECIFICATION HandlingSpec
SYMMETRY CallerSymmetry
INVARIANT OneUsableToken
INVARIANT ReplacementsLeadForward
INVARIANT AccessInvariant
INVARIANT IntakeInvariant
INVARIANT ReviewsInvariant
INVARIANT StoreInvariant
INVARIANT FeedsInvariant
PROPERTY OverForGood
PROPERTY SubmittedOnce
PROPERTY DecidedForGood
PROPERTY ClaimsJudged
PROPERTY RisksScored
PROPERTY MoreNeverLess
CHECK_DEADLOCK FALSE
