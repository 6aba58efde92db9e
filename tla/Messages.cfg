SPECIFICATION FairSpec
CONSTANTS
  p1 = p1
  p2 = p2
  p3 = p3
  n1 = n1
  n2 = n2
  Procs = {p1, p2, p3}
  Nodes = {n1, n2}
  NodeOf <- Twins
  Self = p1
  Offered <- SomeOptions
  Failing = {p2}
INVARIANTS
  HandledAlone
PROPERTIES
  ImplementsReply
  MessageEnds
CHECK_DEADLOCK FALSE
