CONSTANTS
  Ports <- CollidingPorts
  Handlers = {h1, n1}
  Natives = {n1}
  NULL = NULL
  Deleted = Deleted
  InitialCapacity = 4
  MaxUsed = 5
SPECIFICATION Spec
INVARIANTS
  ProbesEnd
  LivePortsAreCounted
PROPERTIES
  ImplementsPortDirectory
