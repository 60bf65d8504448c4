CONSTANTS
  p1 = p1
  c1 = c1
  l1 = l1
  Threads = {t1, t2}
  Ports = {p1}
  StartPort = start
  Caps = {c1}
  PauseCap = pauseCap
  Listeners = {l1}
  Contents <- AllMessages
  MaxPosts = 3
  PauseOnStart = {TRUE, FALSE}
  PauseOnExit = {TRUE, FALSE}
SPECIFICATION MCSpec
INVARIANTS
  OneThreadRunsIsolate
  NoMessageStranded
  PauseCountsCapabilities
  ExitIsAnnounced
PROPERTIES
  ControlBeforeEvents
  EventsInOrder
  KillIsFinal
  ExitNoticeIsLast
  KillEndsIsolate
  PortlessIsolateExits
CHECK_DEADLOCK FALSE
