\* A signature recorded between the check and the write of a submit.
SPECIFICATION Spec
CONSTANTS
  r1 = r1  r2 = r2  r3 = r3
  s1 = s1  s2 = s2
  clean = clean  hidden = hidden  wrong = wrong  lead = lead
  Reports = {r1, r2}
  Sessions = {s1, s2}
  Payloads = {clean, hidden, wrong}
  Strip <- MCStrip
  Valid <- MCValid
  SignatureRoles = {lead}
  SignaturesRequired = TRUE
  SubmitPolicy = "strict_block"
  NoReport = NoReport
  NoPayload = NoPayload
SYMMETRY Symmetry
INVARIANT NoUnseenSignature
