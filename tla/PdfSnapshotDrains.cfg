\* Two overlapping drains, every call may fail or look failed, one drain stops.
\* Deadlock is off: the requests are bounded, and the queue is empty at last.
SPECIFICATION FairSpec
CONSTANTS
  s1 = s1  d1 = d1  d2 = d2
  Submissions = {s1}
  Drains = {d1, d2}
  MaxAttempts = 2
  Faults = TRUE
  MaxRequests = 2
  MaxStops = 1
  NoDocument = NoDocument
  NoRow = NoRow
INVARIANTS
  RecordedIsStored
  SnapshotInv
PROPERTIES
  QueuedSettles
CHECK_DEADLOCK FALSE
