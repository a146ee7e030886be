SPECIFICATION FairSpec
CONSTANTS
  Executors = {"inline", "background", "celery"}
  Sweepers = {s1}
  Misrouters = {}
  s1 = s1
  StaleAfter = 1
  QueueTimeout = 1
  TimeLimit = 1
  MaySkip = {3}
  MaxDeliveries = 2
PROPERTY EventuallySettled
PROPERTY ImplementsTimeline
