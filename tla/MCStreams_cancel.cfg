\* Two events and the done event.
SPECIFICATION Spec
CONSTANTS
  MaxEvents = 2
  MaxPauses = 1
PROPERTIES
  NothingAfterCancel
CHECK_DEADLOCK FALSE
