CONSTANTS
  Timers = {t1}
  Ports = {p1}
  Ended = {q1}
  Requests <- MixedRequests
  None = None
  NoTime = NoTime
  ID_MASK = 1
  NonFatal = FALSE
  MaxTime = 3
  PipeCapacity = 1
SPECIFICATION SpecAfterEnd
PROPERTIES
  DueTimersRun
CHECK_DEADLOCK FALSE
