SPECIFICATION FairSpec
CONSTANTS
  app = app  digest = digest  mail = mail  r1 = r1  r2 = r2
  Events = {e1, e2}
  Bindings = {digest, app}
  Channel <- MCChannel
  Recipients = {r1}
  Addressless = {}
  Drains = {d1, d2}
  MaxAttempts = 2
  MaxTroubles = 1
INVARIANT DistributionInv
PROPERTIES
  ImplementsQueue
  EventEnds
CHECK_DEADLOCK FALSE
