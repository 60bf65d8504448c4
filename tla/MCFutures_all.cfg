CONSTANTS
  SyncCompleters = {1}
  AsyncCompleters = {2}
  MaxFutures = 4
  Kinds <- AllKinds
  Values = {v}
  Errors = {e}
SPECIFICATION Spec
INVARIANTS
  OneCompletionEach
  ListenersInOrder
PROPERTIES
  ResultIsFinal
  AsyncCompletionHappens
CHECK_DEADLOCK FALSE
