CONSTANTS
  Clients = {c1, c2}
  Servers = {v1}
  MaxFailures = 2
  MaxAttempts = 2
  MaxCodes = 1
  Threads = {t1, t2, t3}
  Threshold = 3
  Attempts = 3
  MaxRuns = 4
  MaxRetries = 2
  Suspensions = 3
  MaxClaims = 2
  Sources <- GivenSources
  Yield <- Given
  Deadline = 4
  RetryLimit = 2
  Searchers = {s1, s2}
  Engines = 2
  TripAfter = 2
  Lookups = {l1, l2}
  MaxVersions = 3
  Analyses = {a1, a2}
  MaxReports = 2
SPECIFICATION Spec
INVARIANT BreakerInvariant
INVARIANT JobsInvariant
INVARIANT SearchInvariant
INVARIANT WebInvariant
INVARIANT MemoryInvariant
PROPERTY GuessingWearsOut
PROPERTY ProviderUsedAgain
PROPERTY JobSettles
PROPERTY WorkEnds
PROPERTY NewFileIsLoaded
CHECK_DEADLOCK FALSE
