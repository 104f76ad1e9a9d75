\* One drain and one job: the retry that does not wait.
SPECIFICATION Spec
CONSTANTS
  e1 = e1  j1 = j1  p1 = p1  d1 = d1  d2 = d2
  Events = {}
  Jobs = {j1}
  Recipients = {p1}
  Drains = {d1}
  MaxAttempts = 2
  MaxFaults = 1
  MaxStops = 0
  MaxNights = 0
  NoItem = NoItem
INVARIANTS
  NoEarlyClaim
CHECK_DEADLOCK FALSE
