SPECIFICATION Spec
CONSTANTS
  Executors = {"celery"}
  Sweepers = {}
  Misrouters = {}
  StaleAfter = 1
  QueueTimeout = 1
  TimeLimit = 1
  MaySkip = {}
  MaxDeliveries = 2
INVARIANT SummaryMatchesResult
