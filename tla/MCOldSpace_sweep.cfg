\* Three addresses for pages of two slots.
SPECIFICATION Spec
CONSTANTS
  Pages = {p1, p2, p3}
  NULL = NULL
  SlotsPerPage = 2
  MaxPages = 3
INVARIANTS
  LiveObjectsSurvive
  PageListIsWhole
  TasksCoverWork
PROPERTIES
  OperationsEnd
CHECK_DEADLOCK FALSE
