\* Overlapping drains, failing calls, lost responses and crashes.
SPECIFICATION Spec
CONSTANTS
  r1 = r1  r2 = r2
  d1 = d1  d2 = d2
  Submissions = {r1}
  Actions <- TwoIncidents
  Drains = {d1, d2}
  MaxAttempts = 3
  ExecFaults = TRUE
  MarkFaults = TRUE
  Crashes = TRUE
  NoEvent = NoEvent
SYMMETRY Symmetry
INVARIANTS
  MintedAtMostOnce
  LedgerInv
PROPERTIES
  ImplementsQueue
