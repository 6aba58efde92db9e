SPECIFICATION SpecQuery
CONSTANTS
  p1 = p1
  p2 = p2
  p3 = p3
  n1 = n1
  n2 = n2
  n3 = n3
  Procs = {p1, p2, p3}
  Nodes = {n1, n2, n3}
  NodeOf <- Trio
  Self = p1
  Offered <- QueryOptions
  Failing = {p1, p2}
  Barring = {p3}
INVARIANTS
  ToldAsDone
CHECK_DEADLOCK FALSE
