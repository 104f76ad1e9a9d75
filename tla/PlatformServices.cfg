SPECIFICATION ServicesSpec
CONSTANTS
  g1 = g1  g2 = g2  g3 = g3  b1 = b1  b2 = b2  i1 = i1  i2 = i2  i3 = i3
  Tabs = {t1, t2}
  Calls = {c1, c2}
  MaxTokens = 3
  MaxCalls = 2
  NoToken = NoToken

  Instances = {n1}
  Attempts = {a1, a2}
  Window = 1
  EmailMax = 1
  IpMax = 2
  DurableMax = 1
  StaleAfter = 1
  MaxRows = 1
  MaxNow = 2
  MaxAttempts = 3
  NoRow = NoRow

  Verifications = {v1, v2}
  MaxKeys = 2
  Ttl = 3
  ErrorTtl = 2
  MaxTime = 4
  NoCache = NoCache

  Offices = {o1, o2}
  Authors = {u1, u2}
  Contents = {x, y}
  MaxVersions = 2
  Forms = {f1, f2}
  MaxAsked = 2
  MaxOfficeCalls = 4

  Writers = {w1, w2}
  Payloads <- MCPayloads
  Texts <- MCPayloads
  SqlText <- MCSqlText
  JsText <- MCJsText
  MaxAuditRows = 3
  VerifyLimit = 2

  Reports = {p1}
  Files = {f1}
  Certificates = {k1}
  Uploads = {z1, z2}
  MaxCount = 1
  NoPath = NoPath

  Fields <- MCFields
  Numbers = {0, 1}
  Ops = {"eq", "neq"}
  Schemas <- MCSchemas

  Drafts = {q1, q2}
  MaxEdits = 2
  MaxFormCalls = 3
  Nothing = Nothing

  Places = {b1, b2}
  PlaceOf <- MCPlaceOf
  Queries = {q1}
  MaxPanelCalls = 4
  Blank = Blank

  Venues = {b1, b2}
  MaxListCalls = 6
INVARIANTS
  ServicesTypeOK
  SessionsInv
  ThrottleInv
  GovernanceInv
  VerdictIsRight
  EvidenceIsThere
  FieldsInv
  ReportFormInv
  ScreensInv
PROPERTY OutageKeepsKeys
CHECK_DEADLOCK FALSE
