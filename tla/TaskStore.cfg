SPECIFICATION Spec
CONSTANTS
  m1 = m1
  m2 = m2
  r1 = r1
  r2 = r2
  Monitors = {m1, m2}
  Runs = {r1, r2}
  Keys = {"task at target"}
  Count <- LongAndShort
  Missed <- Later
  Slots = 2
  Faults = 1
INVARIANTS
  LastStateStored
PROPERTIES
  MonitorsEnd
CHECK_DEADLOCK FALSE
