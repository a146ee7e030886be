SPECIFICATION Spec
CONSTANTS
  Executors = {"background", "celery"}
  Sweepers = {s1}
  Misrouters = {m1}
  s1 = s1
  m1 = m1
  StaleAfter = 1
  QueueTimeout = 1
  TimeLimit = 1
  MaySkip = {}
  MaxDeliveries = 2
INVARIANT TimelineInOrder
INVARIANT CompletedIsWhole
INVARIANT ArtefactsMatchResult
INVARIANT ProgressIsLive
INVARIANT IInv
PROPERTY CompletedRecordKept
PROPERTY FailureIsFinal
