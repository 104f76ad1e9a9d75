\* No crash and no failing bookkeeping: everything enqueued is worked off.
SPECIFICATION FairSpec
CONSTANTS
  r1 = r1  r2 = r2
  d1 = d1  d2 = d2
  Submissions = {r1}
  Actions <- NotifyAndPdf
  Drains = {d1, d2}
  MaxAttempts = 2
  ExecFaults = TRUE
  MarkFaults = FALSE
  Crashes = FALSE
  NoEvent = NoEvent
INVARIANTS
  ProcessedMeansDone
  NotifiedOncePerAttempt
PROPERTY EverythingSettles
