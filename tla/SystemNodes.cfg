SPECIFICATION Spec
CONSTANTS
  p1 = p1
  p2 = p2
  p3 = p3
  n1 = n1
  n2 = n2
  Procs = {p1, p2, p3}
  Nodes = {n1, n2}
  NodeOf <- Successor
  Overlap = "none"
  Leaving = {p1, p3}
  Crashing = {p1}
  Window = 1
INVARIANTS
  QuietAgreement
PROPERTIES
  DroppedHaveLeft
  ComeToKnow
CHECK_DEADLOCK FALSE
