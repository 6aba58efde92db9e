SPECIFICATION FairSpecTasks
CONSTANTS
  p1 = p1
  p2 = p2
  n1 = n1
  n2 = n2
  n3 = n3
  Procs = {p1, p2}
  Nodes = {n1, n2, n3}
  NodeOf <- Pair
  Self = p1
  Offered <- Detect
  Failing = {}
  Wishes <- MCWishes
  Refusing = {p2}
  Views <- MCViews
  Stopping = {p2}
INVARIANTS
  AwaitedRunIsOver
PROPERTIES
  RequestsEnd
CHECK_DEADLOCK FALSE
