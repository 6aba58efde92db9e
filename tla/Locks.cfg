SPECIFICATION Spec
CONSTANTS
  Max = 1
  MaxSems = 3
  Clients = {c1, c2}
  Callers = {a1}
  Shuts = TRUE
INVARIANTS
  WaitingInLine
PROPERTIES
  DiscardsNobody
  CallersServed
CHECK_DEADLOCK FALSE
