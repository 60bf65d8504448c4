CONSTANTS
  Tasks = {t1, t2, t3}
  Workers = {w1, w2, w3}
  NoTask = NoTask
  UseTimeout = TRUE
SPECIFICATION LiveSpec
INVARIANTS
  WorkerAccounting
  NoUseAfterFree
PROPERTIES
  ImplementsTaskPool
  AcceptedTaskIsExecuted
  ShutdownEndsWorkers
CHECK_DEADLOCK FALSE
