\* Two overlapping drains over both queues: one event, and one job, made of
\* the event or inserted by a route.
SPECIFICATION FairSpec
CONSTANTS
  e1 = e1  j1 = j1  p1 = p1  d1 = d1  d2 = d2
  Events = {e1}
  Jobs = {j1}
  Recipients = {p1}
  Drains = {d1, d2}
  MaxAttempts = 2
  MaxFaults = 1
  MaxStops = 1
  MaxNights = 1
  NoItem = NoItem
INVARIANTS
  WorkerInv
PROPERTIES
  ImplementsQueue
  PendingEnds
\* Once everything is sent or dead nothing is left to do.
CHECK_DEADLOCK FALSE
