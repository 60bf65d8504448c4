CONSTANTS
  Handlers = {h1, service}
  Service = service
  Posters = {p1, p2}
  None = None
  Holds = {"start", "exit"}
  Redirects = TRUE
  MaxCalls = 3
SPECIFICATION LiveSpec
INVARIANTS
  NoUseAfterDelete
  NoLockCycle
PROPERTIES
  PostReturnsUnlessPauseHangs
CHECK_DEADLOCK FALSE
