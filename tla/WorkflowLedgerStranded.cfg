\* No drain is stopped; only a bookkeeping call fails.
SPECIFICATION Spec
CONSTANTS
  r1 = r1  r2 = r2
  d1 = d1  d2 = d2
  Submissions = {r1}
  Actions <- IncidentAndNotify
  Drains = {d1}
  MaxAttempts = 2
  ExecFaults = TRUE
  MarkFaults = TRUE
  Crashes = FALSE
  NoEvent = NoEvent

INVARIANT NoStrandedClaim
