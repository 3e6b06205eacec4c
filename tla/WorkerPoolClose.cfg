SPECIFICATION Spec
CONSTANTS
  Tasks = {t1}
  NoTask = noTask
  NumWorkers = 1
  QueueCap = 1
INVARIANTS
  ClosesGracefully
CHECK_DEADLOCK FALSE
