SPECIFICATION Spec
CONSTANTS
  MaxJobs = 3
  Concurrent = 2
  Callers = {c1}
  Owner = owner
INVARIANTS
  WorkConserving
  ShutdownLeavesNothing
PROPERTIES
  ImplementsPool
  CallsEnd
CHECK_DEADLOCK FALSE
