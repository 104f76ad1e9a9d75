SPECIFICATION OperationsSpec
CONSTANTS
  u1 = u1  u2 = u2  am = am  noon = noon  l1 = l1  l2 = l2
  Managers = {u1, u2}
  Shifts = {s1, s2}
  Templates = {t1}
  Employees = {e1}
  Slots = {am, noon}
  Overlapping <- MCOverlapping
  MaxEdits = 3
  NoSlot = NoSlot

  Handlers = {u1, u2}
  Incidents = {i1, i2}
  Escalations = {x1}
  FollowUps = {f1}
  MaxRequests = 4
  NoIncident = NoIncident

  Clerks = {u1, u2}
  People = {p1, p2}
  MaxCalls = 5

  Crew = {u1, u2}
  Orders = {o1, o2}
  Workers = {e1}
  Strangers = {e2}
  SlaUrgent = 0
  SlaRoutine = 1
  MaxOrderCalls = 3
  MaxClock = 1
  NoOrder = NoOrder
  Nobody = Nobody

  Desks = {u1, u2}
  Messages = {n1}
  Members = {e1, e2}
  Groups = {g1}
  ShiftCrews = {s1}
  Devices = {k1}
  MaxPosts = 4
  NoOne = NoOne

  Trainers = {u1, u2}
  Lessons = {l1, l2}
  Assignments = {a1, a2}
  Curriculum <- MCCurriculum
  Enrolled = {a1}
  Holders = {b1}
  CertTypes = {y1}
  TypeWindow <- MCTypeWindow
  DefaultWindow = 1
  MaxCalendar = 1
  MaxTrainings = 3
  NoCert = NoCert

  Rinks = {k1, k2}
  Weeks = {1, 2}
  MaxBoardCalls = 3
  NoPeriod = NoPeriod
  NoBoard = NoBoard

  Sites = {k1, k2}
  Addressees = {g1}
  MaxMessages = 2
  MaxPresses = 3
  MaxWaiting = 2
SYMMETRY MCSymmetry
INVARIANTS
  OperationsTypeOK
  PublicationChain
  BookedOnceUnlessRaced
  RecordIsContinuous
  StatementHistory
  WorkOrdersInv
  CommunicationsInv
  CertificationsInv
  BoardsInv
PROPERTIES
  GatesHoldUnlessCollided
  PassedWasEarned
CHECK_DEADLOCK FALSE
