SPECIFICATION Spec
CONSTANTS
  MaxRuns = 4
  Parallel = 2
  CanLack = FALSE
  AddedSizes = {1, 2}
  Waiters = {1}
INVARIANT
  SelectedIsTodo
CHECK_DEADLOCK FALSE
