CONSTANTS
  Timers = {t1, t2}
  Ports = {p1, p2}
  Ended = {}
  Requests <- MixedRequests
  None = None
  NoTime = NoTime
  ID_MASK = 1
  NonFatal = FALSE
  MaxTime = 3
  PipeCapacity = 1
SPECIFICATION Spec
INVARIANTS
  HeapStaysOrdered
  NextWakeupIsKnown
  ZeroEventsMatch
PROPERTIES
  BatchIsDueInOrder
  DueTimersRun
CHECK_DEADLOCK FALSE
