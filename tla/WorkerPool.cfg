SPECIFICATION FairSpec
CONSTANTS
  Tasks = {t1, t2, t3}
  NoTask = noTask
  NumWorkers = 2
  QueueCap = 1
INVARIANTS
  NoTaskLost
PROPERTIES
  ImplementsTaskPool
  AcceptedIsExecuted
  CloseEndsWorkers
CHECK_DEADLOCK FALSE
