\* Two overlapping revisions of one report.
SPECIFICATION Spec
CONSTANTS
  r1 = r1  r2 = r2  r3 = r3
  s1 = s1  s2 = s2
  clean = clean  hidden = hidden  wrong = wrong  lead = lead
  Reports = {r1, r2, r3}
  Sessions = {s1, s2}
  Payloads = {clean, wrong}
  Strip <- MCPlainStrip
  Valid <- MCPlainValid
  SignatureRoles = {}
  SignaturesRequired = FALSE
  SubmitPolicy = "strict_block"
  NoReport = NoReport
  NoPayload = NoPayload
SYMMETRY Symmetry
INVARIANT AtMostOneSuccessor
