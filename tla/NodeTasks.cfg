SPECIFICATION SpecAll
CONSTANTS
  p1 = p1
  p2 = p2
  p3 = p3
  n1 = n1
  n2 = n2
  t1 = t1
  t2 = t2
  Procs = {p1, p2, p3}
  Nodes = {n1, n2}
  NodeOf <- Successor
  Overlap = "none"
  Leaving = {p1, p3}
  Crashing = {p1}
  Window = 1
  Tasks = {t1, t2}
  Offers <- TaskOffers
  Working = {p1, p2}
  Running = {p1, p2}
INVARIANTS
  OffersKnown
  RunsOfThePresent
CHECK_DEADLOCK FALSE
