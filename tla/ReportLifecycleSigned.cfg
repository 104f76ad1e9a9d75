\* Signatures required; validation errors become warnings, or none are found.
SPECIFICATION Spec
CONSTANTS
  r1 = r1  r2 = r2  r3 = r3
  s1 = s1  s2 = s2
  clean = clean  hidden = hidden  wrong = wrong  lead = lead
  Reports = {r1, r2}
  Sessions = {s1, s2}
  Payloads = {clean, hidden, wrong}
  Strip <- MCStrip
  Valid <- MCValid
  SignatureRoles = {lead}
  SignaturesRequired = TRUE
  SubmitPolicy = "warn_and_submit"
  NoReport = NoReport
  NoPayload = NoPayload
SYMMETRY Symmetry
INVARIANTS
  SubmittedContentApproved
  LifecycleInv
  RevisedHasSuccessor
PROPERTY ImplementsRecord
