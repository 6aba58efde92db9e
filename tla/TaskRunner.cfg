SPECIFICATION Spec
CONSTANTS
  MaxRuns = 5
  Parallel = 2
  CanLack = TRUE
  AddedSizes = {1, 2}
  Waiters = {1, 2, 3}
INVARIANTS
  ResolvedMeansDone
  NoIdleSlot
PROPERTIES
  ImplementsPlan
  RunsEnd
CHECK_DEADLOCK FALSE
