CONSTANTS
  o1 = o1
  o2 = o2
  Ops = {o1, o2}
  MaxWrappers = 4
  MaxHandles = 5
  Modes = {"pooled", "file", "memory"}
  Workloads <- MCWorkloads
  Disturbances <- MCDisturbances
  Textual = FALSE
SPECIFICATION MCSpec
INVARIANTS
  WellConnected
  AllClosed
PROPERTIES
  StorageEnds
CHECK_DEADLOCK FALSE
