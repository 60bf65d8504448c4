\* Four events and the done event, a listener that pauses up to twice.
SPECIFICATION Spec
CONSTANTS
  MaxEvents = 4
  MaxPauses = 2
INVARIANTS
  EventsKept
  ControllerIsTold
PROPERTIES
  EventsOnlyWhenWanted
  StreamEnds
CHECK_DEADLOCK FALSE
