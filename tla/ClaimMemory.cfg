CONSTANTS
  Analyses = {a1, a2}
  MaxReports = 2
SPECIFICATION MemorySpec
INVARIANT ScoresAreTheirs
CHECK_DEADLOCK FALSE
