--------------------------- MODULE FacilityProofs ---------------------------
(***************************************************************************)
(* What FacilityOperations promises.                                       *)
(*                                                                         *)
(* Of what is kept of record: the publications of a schedule, the numbers  *)
(* and amendments of incidents, the versions of witness statements, and    *)
(* the histories of work orders.  The first three proofs have one core,    *)
(* for any number of overlapping requests.  A request computes the next    *)
(* number of a series from a read and inserts it later, behind a unique    *)
(* key.  What it read is a lower bound of what is there, so the number is  *)
(* at most one too high; the key refuses what is too low.  What is left is *)
(* the number that continues the series.  A work order's history has no    *)
(* key: it is told without a jump as long as a PATCH's two writes are not  *)
(* crossed by another's.                                                   *)
(*                                                                         *)
(* Of the daily work: an employee is not booked twice, a message has the   *)
(* recipients its compliance report counts, a certification's events tell  *)
(* its life, and the two panels of the client act on what they show.       *)
(* These promises lean on checks the routes make and the database does     *)
(* not.  A request that reads, decides and writes keeps them as long as    *)
(* what it read is still there: while it is the only one under way, or     *)
(* while nothing has touched the message it publishes.                     *)
(***************************************************************************)
EXTENDS FacilityOperations, FiniteSetTheorems, TLAPS

-----------------------------------------------------------------------------
\* Scheduling: the publications of a period.

Period == [at : {"patch", "generate", "publish", "prior"},
           status : {"draft", "review", "published", "archived"}, version : Nat]
Numbered == [at : {"publication"}, status : {"draft", "review", "published", "archived"},
             version : Nat, base : Nat]

\* What a publisher read lies behind, or is, what is there now.
PublisherIsBehind(m) ==
  LET n == Cardinality(publications)
  IN /\ desk[m].at \in {"patch", "generate", "publish", "prior"} =>
          /\ desk[m] \in Period
          /\ desk[m].version <= publishVersion
     /\ desk[m].at = "publication" =>
          /\ desk[m] \in Numbered
          /\ 0 < desk[m].version /\ desk[m].version - 1 <= publishVersion
          /\ desk[m].version - 1 <= desk[m].base /\ desk[m].base <= n
     /\ desk[m].at = "stamp" => desk[m].version = n /\ publishVersion = n - 1
     /\ desk[m].at \in {"patch", "generate", "publish", "prior", "publication", "stamp"} =>
          periodStatus # "absent"

ChainInv ==
  /\ publications \subseteq [version : Nat, base : Nat]
  /\ IsFiniteSet(publications)
  /\ PublicationChain
  /\ publishVersion \in Nat
  /\ periodStatus \in {"absent", "draft", "review", "published", "archived"}
  /\ periodStatus = "absent" => publishVersion = 0
  /\ DOMAIN desk = Managers
  /\ \A m \in Managers : PublisherIsBehind(m)
  /\ \A l, m \in Managers : desk[l].at = "stamp" /\ desk[m].at = "stamp" => l = m
PeriodTags == {"patch", "generate", "publish", "prior"}

\* The newest of a chain numbered 1, 2, ... is its length.
LEMMA NewestIsLast ==
  ASSUME NEW n \in Nat, NEW chain, {p.version : p \in chain} = 1 .. n,
         chain = {} <=> n = 0
  PROVE  Newest(chain) = n
  <1>1. CASE chain = {}
    BY <1>1 DEF Newest
  <1>2. CASE chain # {}
    <2>1. n \in {p.version : p \in chain} /\ \A p \in chain : p.version \in 1 .. n
      BY <1>2
    <2>2. \A x \in {p.version : p \in chain} :
            (\A p \in chain : p.version <= x) => x = n
      BY <2>1
    <2>3. \A p \in chain : p.version <= n
      BY <2>1
    <2> QED
      BY <1>2, <2>1, <2>2, <2>3 DEF Newest
  <1> QED
    BY <1>1, <1>2

\* A step of one request that neither publishes nor stamps.
LEMMA OneDesk ==
  ASSUME ChainInv, NEW m \in Managers, NEW r, r.at # "stamp",
         desk' = [desk EXCEPT ![m] = r],
         UNCHANGED <<publications, publishVersion>>,
         periodStatus' \in {periodStatus, "draft", "review", "published", "archived"},
         PublisherIsBehind(m)'
  PROVE  ChainInv'
  <1>1. \A l \in Managers : l # m => desk'[l] = desk[l]
    BY DEF ChainInv
  <1>2. \A l \in Managers : PublisherIsBehind(l)'
    BY <1>1 DEF ChainInv, PublisherIsBehind
  <1>3. \A l \in Managers : desk'[l].at = "stamp" => desk[l].at = "stamp"
    BY <1>1 DEF ChainInv
  <1> QED
    BY <1>2, <1>3 DEF ChainInv, PublicationChain

LEMMA SchedulingEditStep ==
  ASSUME ChainInv,
         \/ CreatePeriod
         \/ \E t \in Templates, x \in Slots \cup {NoSlot} : SaveTemplate(t, x)
         \/ \E s \in Shifts, x \in Slots : AddShift(s, x) \/ MoveShift(s, x)
  PROVE  ChainInv'
  <1>1. /\ UNCHANGED <<publications, desk>> /\ publishVersion' = publishVersion
        /\ periodStatus' \in {periodStatus, "draft"}
    BY DEF CreatePeriod, SaveTemplate, AddShift, MoveShift, period, ChainInv
  <1>2. \A m \in Managers : PublisherIsBehind(m)'
    BY <1>1 DEF ChainInv, PublisherIsBehind
  <1> QED
    BY <1>1, <1>2 DEF ChainInv, PublicationChain

\* Requests that are dropped, or are about shifts and assignments.
LEMMA OtherRequestStep ==
  ASSUME ChainInv, NEW m \in Managers,
         \/ DropEdit(m) \/ GenerateRead(m) \/ GenerateInsert(m)
         \/ \E row \in Rows : AssignLoad(m, row) \/ DecideLoad(m, row)
         \/ AssignCheck(m) \/ AssignInsert(m)
         \/ \E to \in {"approved", "declined", "cancelled"} : DecideWrite(m, to)
  PROVE  ChainInv'
  <1>1. PICK r : /\ desk' = [desk EXCEPT ![m] = r]
                 /\ r.at \notin PeriodTags \cup {"publication", "stamp"}
    BY DEF DropEdit, GenerateRead, GenerateInsert, AssignLoad, DecideLoad,
           AssignCheck, AssignInsert, DecideWrite, Open, Close, Continue, Free,
           PeriodTags
  <1>2. UNCHANGED <<publications, publishVersion, periodStatus>>
    BY DEF DropEdit, GenerateRead, GenerateInsert, AssignLoad, DecideLoad,
           AssignCheck, AssignInsert, DecideWrite, period
  <1>3. desk'[m] = r
    BY <1>1 DEF ChainInv
  <1>4. PublisherIsBehind(m)'
    BY <1>1, <1>3 DEF PublisherIsBehind, PeriodTags
  <1> QED
    BY <1>1, <1>2, <1>4, OneDesk

LEMMA LoadPeriodStep ==
  ASSUME ChainInv, NEW m \in Managers, NEW op \in {"patch", "generate", "publish"},
         LoadPeriod(m, op)
  PROVE  ChainInv'
  <1> DEFINE r == [at |-> op, status |-> periodStatus, version |-> publishVersion]
  <1>1. desk' = [desk EXCEPT ![m] = r] /\ periodStatus # "absent"
        /\ UNCHANGED <<publications, publishVersion, periodStatus>>
    BY DEF LoadPeriod, Open, period
  <1>2. desk'[m] = r /\ r \in Period /\ r.version <= publishVersion
    BY <1>1 DEF ChainInv, Period
  <1>3. PublisherIsBehind(m)'
    BY <1>1, <1>2 DEF PublisherIsBehind
  <1> QED
    BY <1>1, <1>3, OneDesk

LEMMA WritePeriodStep ==
  ASSUME ChainInv, NEW m \in Managers,
         NEW to \in {"draft", "review", "published", "archived"}, WritePeriod(m, to)
  PROVE  ChainInv'
  <1>1. desk' = [desk EXCEPT ![m] = Free] /\ periodStatus' = to
        /\ UNCHANGED <<publications, publishVersion>>
    BY DEF WritePeriod, Close, Continue
  <1>2. desk'[m] = Free
    BY <1>1 DEF ChainInv
  <1>3. PublisherIsBehind(m)'
    BY <1>2 DEF PublisherIsBehind, Free
  <1> QED
    BY <1>1, <1>3, OneDesk DEF Free

LEMMA PublishCheckStep ==
  ASSUME ChainInv, NEW m \in Managers, NEW override \in BOOLEAN,
         PublishCheck(m, override)
  PROVE  ChainInv'
  <1> DEFINE r == [desk[m] EXCEPT !.at = "prior"]
  <1>1. /\ desk[m].at = "publish" /\ desk' = [desk EXCEPT ![m] = r]
        /\ UNCHANGED <<publications, publishVersion, periodStatus>>
    BY DEF PublishCheck, Continue, period
  <1>2. /\ desk[m] \in Period /\ desk[m].version <= publishVersion
        /\ periodStatus # "absent"
    BY <1>1 DEF ChainInv, PublisherIsBehind
  <1>3. desk'[m] = r /\ r \in Period /\ r.at = "prior" /\ r.version = desk[m].version
    BY <1>1, <1>2 DEF ChainInv, Period
  <1>4. PublisherIsBehind(m)'
    BY <1>1, <1>2, <1>3 DEF PublisherIsBehind
  <1> QED
    BY <1>1, <1>3, <1>4, OneDesk

\* The newest snapshot may be newer than the version that was read before it.
LEMMA PublishPriorStep ==
  ASSUME ChainInv, NEW m \in Managers, PublishPrior(m)
  PROVE  ChainInv'
  <1> DEFINE n == Cardinality(publications)
             r == [at |-> "publication", status |-> desk[m].status,
                   version |-> desk[m].version + 1, base |-> Newest(publications)]
  <1>1. /\ desk[m].at = "prior" /\ desk' = [desk EXCEPT ![m] = r]
        /\ UNCHANGED <<publications, publishVersion, periodStatus>>
    BY DEF PublishPrior, Continue, period
  <1>2. /\ desk[m] \in Period /\ desk[m].version <= publishVersion
        /\ periodStatus # "absent"
    BY <1>1 DEF ChainInv, PublisherIsBehind
  <1>3. n \in Nat /\ publishVersion <= n /\ Newest(publications) = n
    <2>1. n \in Nat /\ (n = 0 <=> publications = {})
      BY FS_CardinalityType, FS_EmptySet DEF ChainInv
    <2>2. {p.version : p \in publications} = 1 .. n /\ publishVersion \in {n, n - 1}
      BY DEF ChainInv, PublicationChain
    <2>3. Newest(publications) = n
      BY <2>1, <2>2, NewestIsLast
    <2> QED
      BY <2>1, <2>2, <2>3
  <1>4. desk'[m] = r /\ r \in Numbered
    BY <1>1, <1>2, <1>3 DEF ChainInv, Period, Numbered
  <1>5. PublisherIsBehind(m)'
    BY <1>1, <1>2, <1>3, <1>4 DEF PublisherIsBehind, ChainInv, Period
  <1> QED
    BY <1>1, <1>5, OneDesk

\* The unique key admits the number after the newest, and no other.
LEMMA PublishInsertStep ==
  ASSUME ChainInv, NEW m \in Managers, PublishInsert(m)
  PROVE  ChainInv'
  <1> DEFINE n == Cardinality(publications)
             new == [version |-> desk[m].version, base |-> desk[m].base]
             r == [desk[m] EXCEPT !.at = "stamp"]
  <1>1. /\ desk[m].at = "publication" /\ desk' = [desk EXCEPT ![m] = r]
        /\ desk[m].version \notin {p.version : p \in publications}
        /\ publications' = publications \cup {new}
        /\ UNCHANGED <<publishVersion, periodStatus>>
    BY DEF PublishInsert, Continue
  <1>2. /\ n \in Nat /\ {p.version : p \in publications} = 1 .. n
        /\ publishVersion \in {n, n - 1}
        /\ \A p \in publications : p.base = p.version - 1
    BY FS_CardinalityType DEF ChainInv, PublicationChain
  <1>3. /\ desk[m].version = n + 1 /\ desk[m].base = n /\ publishVersion = n
        /\ periodStatus # "absent" /\ desk[m] \in Numbered
    BY <1>1, <1>2 DEF ChainInv, PublisherIsBehind, Numbered
  <1>4. \A l \in Managers : desk[l].at # "stamp"
    BY <1>2, <1>3 DEF ChainInv, PublisherIsBehind
  <1>5. new \notin publications
    BY <1>1
  <1>6. IsFiniteSet(publications') /\ Cardinality(publications') = n + 1
    BY <1>1, <1>5, FS_AddElement DEF ChainInv
  <1>7. PublicationChain'
    <2>1. {p.version : p \in publications'} = 1 .. n + 1
      <3>1. {p.version : p \in publications'} = {p.version : p \in publications} \cup {n + 1}
        <4>1. new.version = n + 1
          BY <1>3
        <4> HIDE DEF new
        <4> QED
          BY <1>1, <4>1
      <3>2. (1 .. n) \cup {n + 1} = 1 .. n + 1
        BY <1>2
      <3> QED
        BY <1>2, <3>1, <3>2
    <2>2. \A p \in publications' : p.base = p.version - 1
      BY <1>1, <1>2, <1>3
    <2> QED
      BY <1>1, <1>2, <1>3, <1>6, <2>1, <2>2 DEF PublicationChain
  <1>8. publications' \subseteq [version : Nat, base : Nat]
    BY <1>1, <1>2, <1>3 DEF ChainInv
  <1>9. desk'[m] = r /\ \A l \in Managers : l # m => desk'[l] = desk[l]
    BY <1>1 DEF ChainInv
  <1>10. ASSUME NEW l \in Managers PROVE PublisherIsBehind(l)'
    <2>1. CASE l = m
      <3>1. desk'[m].at = "stamp" /\ desk'[m].version = n + 1
        BY <1>1, <1>3, <1>9 DEF Numbered
      <3> QED
        BY <1>1, <1>2, <1>3, <1>6, <2>1, <3>1 DEF PublisherIsBehind
    <2>2. CASE l # m
      BY <1>1, <1>2, <1>4, <1>6, <1>9, <2>2
         DEF ChainInv, PublisherIsBehind, Period, Numbered
    <2> QED
      BY <2>1, <2>2
  <1> QED
    BY <1>1, <1>4, <1>6, <1>7, <1>8, <1>9, <1>10 DEF ChainInv

LEMMA PublishUpdateStep ==
  ASSUME ChainInv, NEW m \in Managers, PublishUpdate(m)
  PROVE  ChainInv'
  <1> DEFINE n == Cardinality(publications)
  <1>1. /\ desk[m].at = "stamp" /\ desk' = [desk EXCEPT ![m] = Free]
        /\ publishVersion' = desk[m].version
        /\ periodStatus' \in {periodStatus, "published"}
        /\ UNCHANGED publications
    BY DEF PublishUpdate, Close, Continue
  <1>2. /\ n \in Nat /\ desk[m].version = n /\ publishVersion = n - 1
        /\ periodStatus # "absent"
    BY <1>1, FS_CardinalityType DEF ChainInv, PublisherIsBehind
  <1>3. desk'[m] = Free /\ \A l \in Managers : l # m => desk'[l] = desk[l]
    BY <1>1 DEF ChainInv
  <1>4. \A l \in Managers : desk'[l].at # "stamp"
    BY <1>1, <1>3 DEF ChainInv, Free
  <1>5. ASSUME NEW l \in Managers PROVE PublisherIsBehind(l)'
    <2>1. CASE l = m
      BY <1>3, <2>1 DEF PublisherIsBehind, Free
    <2>2. CASE l # m
      <3>1. publishVersion <= publishVersion' /\ publishVersion \in Nat
        BY <1>1, <1>2 DEF ChainInv
      <3>2. periodStatus' # "absent" /\ UNCHANGED publications /\ desk'[l] = desk[l]
        BY <1>1, <1>2, <1>3, <2>2
      <3> QED
        BY <1>1, <1>2, <1>4, <3>1, <3>2 DEF ChainInv, PublisherIsBehind,
                                            Period, Numbered
    <2> QED
      BY <2>1, <2>2
  <1> QED
    BY <1>1, <1>2, <1>3, <1>4, <1>5 DEF ChainInv, PublicationChain

LEMMA ChainInit == SchedulingInit => ChainInv
  <1> SUFFICES ASSUME SchedulingInit PROVE ChainInv
    OBVIOUS
  <1>1. IsFiniteSet(publications) /\ Cardinality(publications) = 0
    BY FS_EmptySet DEF SchedulingInit
  <1>2. PublicationChain
    BY <1>1 DEF SchedulingInit, PublicationChain
  <1>3. \A m \in Managers : desk[m].at = "free"
    BY DEF SchedulingInit, Free
  <1> QED
    BY <1>1, <1>2, <1>3 DEF SchedulingInit, ChainInv, PublisherIsBehind

LEMMA ChainStep == ChainInv /\ [SchedulingNext]_schedulingVars => ChainInv'
  <1> SUFFICES ASSUME ChainInv, [SchedulingNext]_schedulingVars PROVE ChainInv'
    OBVIOUS
  <1>1. CASE SchedulingNext
    BY <1>1, SchedulingEditStep, OtherRequestStep, LoadPeriodStep,
       WritePeriodStep, PublishCheckStep, PublishPriorStep, PublishInsertStep,
       PublishUpdateStep
       DEF SchedulingNext
  <1>2. CASE UNCHANGED schedulingVars
    BY <1>2 DEF ChainInv, PublicationChain, PublisherIsBehind, schedulingVars
  <1> QED
    BY <1>1, <1>2

-----------------------------------------------------------------------------
\* Incidents: the numbers of a year, and the amendments of a report.

IncidentStates ==
  {"draft", "submitted", "under_review", "escalated", "action_pending", "closed"}
Closing  == {"under_review", "escalated", "action_pending", "closed"}
Wording  == [columns : {"all"}, wording : Nat]
Snapshot == [before : Wording, after : Wording]
NumbersRead == 1 .. Cardinality(Report) + 1

\* What a handler read is of an incident, and its number at most one too high.
HandlerIsBehind(h) ==
  /\ handler[h].at = "create" => handler[h].no \in NumbersRead
  /\ handler[h].at = "transition" => handler[h].to \in Closing
  /\ handler[h].at \in {"submit", "status", "hold", "amend", "escalate", "transition"} =>
       handler[h].of \in Incidents

RecordInv ==
  /\ number \in [Incidents -> Nat]
  /\ status \in [Incidents -> IncidentStates]
  /\ submitted \in [Incidents -> Nat] /\ wording \in [Incidents -> Nat]
  /\ amendments \in [Incidents -> Seq(Snapshot)]
  /\ requests \in Nat \ {0} /\ DOMAIN handler = Handlers
  /\ IsFiniteSet(Report)
  /\ RecordIsContinuous
  /\ \A i, j \in Report : number[i] = number[j] => i = j
  /\ \A i \in Incidents : /\ status[i] # "draft" <=> submitted[i] # 0
                          /\ amendments[i] = <<>> => wording[i] = 0
  /\ \A h \in Handlers : HandlerIsBehind(h)

LEMMA ReportsCounted ==
  ASSUME RecordInv
  PROVE  /\ Cardinality(Report) \in Nat
         /\ Report = {} <=> Cardinality(Report) = 0
  BY FS_CardinalityType, FS_EmptySet DEF RecordInv

\* The number a creator reads is the one after the last.
LEMMA NextNumber ==
  ASSUME RecordInv
  PROVE  NextIncidentNo \in NumbersRead
  <1> DEFINE n == Cardinality(Report)
             Newest1(x) == x \in {number[i] : i \in Report}
                           /\ \A i \in Report : number[i] <= x
  <1>1. n \in Nat /\ (Report = {} <=> n = 0)
    BY ReportsCounted
  <1>2. {number[i] : i \in Report} = 1 .. n
    BY DEF RecordInv, RecordIsContinuous
  <1>3. CASE Report = {}
    BY <1>1, <1>3 DEF NextIncidentNo, NumbersRead
  <1>4. CASE Report # {}
    <2>1. n \in {number[i] : i \in Report} /\ \A i \in Report : number[i] \in 1 .. n
      BY <1>1, <1>2, <1>4
    <2>2. \A i \in Report : number[i] <= n
      BY <1>1, <2>1
    <2>3. (CHOOSE x \in {number[i] : i \in Report} : \A i \in Report : number[i] <= x)
            \in {number[i] : i \in Report}
      BY <2>1, <2>2
    <2>4. NextIncidentNo \in 2 .. n + 1
      BY <1>1, <1>2, <1>4, <2>3 DEF NextIncidentNo
    <2> QED
      BY <1>1, <2>4 DEF NumbersRead
  <1> QED
    BY <1>3, <1>4

\* A step of one handler that writes nothing of what is kept.
LEMMA OneHandler ==
  ASSUME RecordInv, NEW h \in Handlers, NEW r,
         handler' = [handler EXCEPT ![h] = r],
         UNCHANGED <<number, status, submitted, wording, amendments>>,
         requests' \in {requests, requests + 1},
         HandlerIsBehind(h)'
  PROVE  RecordInv'
  <1>1. \A g \in Handlers : g # h => handler'[g] = handler[g]
    BY DEF RecordInv
  <1>2. Report' = Report
    BY DEF Report
  <1>3. \A g \in Handlers : HandlerIsBehind(g)'
    BY <1>1, <1>2 DEF RecordInv, HandlerIsBehind, NumbersRead
  <1>4. RecordIsContinuous'
    BY <1>2 DEF RecordInv, RecordIsContinuous
  <1> QED
    BY <1>2, <1>3, <1>4 DEF RecordInv

\* The tags of a request that carries something HandlerIsBehind speaks of.
IncidentTags ==
  {"create", "transition", "submit", "status", "hold", "amend", "escalate"}

LEMMA OtherHandlerStep ==
  ASSUME RecordInv, NEW h \in Handlers,
         \/ GiveUp(h) \/ WriteAuditEvent(h)
         \/ \E x \in BOOLEAN : HoldWrite(h, x)
         \/ \E e \in Escalations :
              \/ Escalate(h, e)
              \/ LoadEscalation(h, e, "acknowledge") \/ LoadEscalation(h, e, "resolve")
         \/ AdvanceEscalation(h)
         \/ \E f \in FollowUps : CreateFollowUp(h, f) \/ LoadFollowUp(h, f)
         \/ \E to \in Unfinished \cup {"completed", "waived"} : PatchFollowUp(h, to)
  PROVE  RecordInv'
  <1>1. PICK r : /\ handler' = [handler EXCEPT ![h] = r]
                 /\ r.at \notin IncidentTags
                 /\ requests' \in {requests, requests + 1}
    BY DEF GiveUp, WriteAuditEvent, HoldWrite, Escalate, LoadEscalation,
           AdvanceEscalation, CreateFollowUp, LoadFollowUp, PatchFollowUp,
           Receive, Become, ToAudit, Idle, IncidentTags
  <1>2. UNCHANGED <<number, status, submitted, wording, amendments>>
    BY DEF GiveUp, WriteAuditEvent, HoldWrite, Escalate, LoadEscalation,
           AdvanceEscalation, CreateFollowUp, LoadFollowUp, PatchFollowUp,
           reports, record
  <1>3. handler'[h] = r
    BY <1>1 DEF RecordInv
  <1>4. HandlerIsBehind(h)'
    BY <1>1, <1>3 DEF HandlerIsBehind, IncidentTags
  <1> QED
    BY <1>1, <1>2, <1>4, OneHandler

LEMMA CreateReadStep ==
  ASSUME RecordInv, NEW h \in Handlers, CreateRead(h) \/ CreateConflict(h)
  PROVE  RecordInv'
  <1>1. PICK r : /\ handler' = [handler EXCEPT ![h] = r]
                 /\ r.at \in {"create", "idle"}
                 /\ r.at = "create" => r.no = NextIncidentNo
    BY DEF CreateRead, CreateConflict, Receive, Become, Idle
  <1>2. /\ UNCHANGED <<number, status, submitted, wording, amendments>>
        /\ requests' \in {requests, requests + 1}
    BY DEF CreateRead, CreateConflict, Receive, Become, reports, record
  <1>3. handler'[h] = r /\ NumbersRead' = NumbersRead
    BY <1>1, <1>2 DEF RecordInv, NumbersRead, Report
  <1>4. HandlerIsBehind(h)'
    BY <1>1, <1>3, NextNumber DEF HandlerIsBehind
  <1> QED
    BY <1>1, <1>2, <1>4, OneHandler

LEMMA LoadIncidentStep ==
  ASSUME RecordInv, NEW h \in Handlers, NEW i \in Incidents,
         NEW at \in {"submit", "status", "hold", "amend", "escalate", "followup"},
         LoadIncident(h, i, at)
  PROVE  RecordInv'
  <1> DEFINE r == [at |-> at, of |-> i, status |-> status[i], hold |-> hold[i],
                   wording |-> wording[i]]
  <1>1. /\ handler' = [handler EXCEPT ![h] = r]
        /\ UNCHANGED <<number, status, submitted, wording, amendments>>
        /\ requests' \in {requests, requests + 1}
    BY DEF LoadIncident, Receive, reports, record
  <1>2. handler'[h] = r
    BY <1>1 DEF RecordInv
  <1>3. HandlerIsBehind(h)'
    BY <1>2 DEF HandlerIsBehind
  <1> QED
    BY <1>1, <1>3, OneHandler

LEMMA TransitionCheckStep ==
  ASSUME RecordInv, NEW h \in Handlers, NEW to \in Closing,
         NEW holder \in BOOLEAN, TransitionCheck(h, to, holder)
  PROVE  RecordInv'
  <1> DEFINE r == [at |-> "transition", of |-> handler[h].of,
                   status |-> handler[h].status, to |-> to]
  <1>1. /\ handler[h].at = "status" /\ handler' = [handler EXCEPT ![h] = r]
        /\ UNCHANGED <<number, status, submitted, wording, amendments>>
        /\ requests' \in {requests, requests + 1}
    BY DEF TransitionCheck, Become, reports, record
  <1>2. handler'[h] = r /\ handler[h].of \in Incidents
    BY <1>1 DEF RecordInv, HandlerIsBehind
  <1>3. HandlerIsBehind(h)'
    BY <1>2 DEF HandlerIsBehind
  <1> QED
    BY <1>1, <1>3, OneHandler

\* A report that is written keeps its place, and the handler goes on to audit.
LEMMA ReportWritten ==
  ASSUME RecordInv, NEW h \in Handlers, NEW event,
         ToAudit(h, event), number' = number
  PROVE  /\ requests' = requests /\ Report' = Report
         /\ DOMAIN handler' = Handlers
         /\ \A g \in Handlers : HandlerIsBehind(g)'
  <1>1. /\ handler' = [handler EXCEPT ![h] = [at |-> "audit", event |-> event]]
        /\ requests' = requests /\ Report' = Report
    BY DEF ToAudit, Become, Report
  <1>2. ASSUME NEW g \in Handlers PROVE HandlerIsBehind(g)'
    BY <1>1 DEF RecordInv, HandlerIsBehind, NumbersRead
  <1> QED
    BY <1>1, <1>2 DEF RecordInv

\* Whoever submits or moves a report leaves the numbers and the chains alone.
LEMMA RecordKept ==
  ASSUME RecordInv, UNCHANGED <<number, wording, amendments>>,
         \A i \in Incidents : status'[i] # "draft" <=> submitted'[i] # 0
  PROVE  RecordIsContinuous'
  <1>1. Report' = Report /\ Report \subseteq Incidents
    BY DEF Report
  <1>2. {number'[i] : i \in Report'} = 1 .. Cardinality(Report')
    BY <1>1 DEF RecordInv, RecordIsContinuous
  <1>3. \A i \in Report' : status'[i] # "draft" <=> submitted'[i] # 0
    BY <1>1
  <1>4. \A i \in Incidents :
          LET chain == amendments'[i]
          IN /\ \A k \in 1 .. Len(chain) - 1 : chain[k].after = chain[k + 1].before
             /\ chain # <<>> => /\ chain[1].before.wording = 0
                                /\ chain[Len(chain)].after.wording = wording'[i]
    BY DEF RecordInv, RecordIsContinuous
  <1> QED
    BY <1>2, <1>3, <1>4 DEF RecordIsContinuous

\* The trigger lets no status but draft leave draft, and none enter it.
LEMMA TransitionWriteStep ==
  ASSUME RecordInv, NEW h \in Handlers, TransitionWrite(h)
  PROVE  RecordInv'
  <1> DEFINE i == handler[h].of
             to == handler[h].to
  <1>1. /\ handler[h].at = "transition" /\ GuardAdmits(status[i], to)
        /\ status' = [status EXCEPT ![i] = to]
        /\ UNCHANGED <<number, submitted, wording, amendments>>
    BY DEF TransitionWrite, children, record, ToAudit
  <1>2. i \in Incidents /\ to \in Closing /\ to \in IncidentStates /\ to # "draft"
    BY <1>1 DEF RecordInv, HandlerIsBehind, Closing, IncidentStates
  <1>3. status[i] # "draft"
    BY <1>1, <1>2 DEF GuardAdmits, Transitions, Closing
  <1>4. \A j \in Incidents : status'[j] = "draft" <=> status[j] = "draft"
    BY <1>1, <1>2, <1>3 DEF RecordInv
  <1>5. /\ requests' = requests /\ Report' = Report
        /\ DOMAIN handler' = Handlers
        /\ \A g \in Handlers : HandlerIsBehind(g)'
    BY <1>1, ReportWritten DEF TransitionWrite
  <1>6. RecordIsContinuous'
    BY <1>1, <1>4, RecordKept DEF RecordInv
  <1>7. status' \in [Incidents -> IncidentStates]
    BY <1>1, <1>2 DEF RecordInv
  <1> QED
    BY <1>1, <1>4, <1>5, <1>6, <1>7 DEF RecordInv

LEMMA SubmitWriteStep ==
  ASSUME RecordInv, NEW h \in Handlers, SubmitWrite(h)
  PROVE  RecordInv'
  <1> DEFINE i == handler[h].of
  <1>1. /\ handler[h].at = "submit"
        /\ status' = [status EXCEPT ![i] = "submitted"]
        /\ submitted' = [submitted EXCEPT ![i] = requests]
        /\ UNCHANGED <<number, wording, amendments>>
    BY DEF SubmitWrite, children, record
  <1>2. i \in Incidents /\ requests \in Nat \ {0}
    BY <1>1 DEF RecordInv, HandlerIsBehind
  <1>3. \A j \in Incidents : status'[j] # "draft" <=> submitted'[j] # 0
    BY <1>1, <1>2 DEF RecordInv
  <1>4. /\ requests' = requests /\ Report' = Report
        /\ DOMAIN handler' = Handlers
        /\ \A g \in Handlers : HandlerIsBehind(g)'
    BY <1>1, ReportWritten DEF SubmitWrite
  <1>5. RecordIsContinuous'
    BY <1>1, <1>3, RecordKept
  <1>6. status' \in [Incidents -> IncidentStates] /\ submitted' \in [Incidents -> Nat]
    BY <1>1, <1>2 DEF RecordInv, IncidentStates
  <1> QED
    BY <1>1, <1>3, <1>4, <1>5, <1>6 DEF RecordInv

\* An amendment is taken from the row it locks, so it continues the chain
\* whatever the route had loaded.
LEMMA AmendWriteStep ==
  ASSUME RecordInv, NEW h \in Handlers, AmendWrite(h)
  PROVE  RecordInv'
  <1> DEFINE i     == handler[h].of
             chain == amendments[i]
             was   == [columns |-> "all", wording |-> wording[i]]
             now   == [columns |-> "all", wording |-> requests]
             link  == [before |-> was, after |-> now]
  <1>1. /\ handler[h].at = "amend"
        /\ wording' = [wording EXCEPT ![i] = requests]
        /\ amendments' = [amendments EXCEPT ![i] = Append(chain, link)]
        /\ UNCHANGED <<number, status, submitted>>
    BY DEF AmendWrite, children
  <1>2. /\ i \in Incidents /\ requests \in Nat \ {0} /\ wording[i] \in Nat
        /\ chain \in Seq(Snapshot)
    BY <1>1 DEF RecordInv, HandlerIsBehind
  <1>3. /\ wording'[i] = requests /\ amendments'[i] = Append(chain, link)
        /\ \A j \in Incidents : j # i => /\ wording'[j] = wording[j]
                                         /\ amendments'[j] = amendments[j]
    BY <1>1, <1>2 DEF RecordInv
  <1>4. link \in Snapshot
    BY <1>2 DEF Snapshot, Wording
  <1>5. /\ Append(chain, link) \in Seq(Snapshot) /\ Append(chain, link) # <<>>
        /\ Len(chain) \in Nat
        /\ Len(Append(chain, link)) = Len(chain) + 1
        /\ Append(chain, link)[Len(Append(chain, link))] = link
        /\ Append(chain, link)[Len(chain) + 1] = link
        /\ \A k \in 1 .. Len(chain) : Append(chain, link)[k] = chain[k]
    BY <1>2, <1>4
  <1>6. chain # <<>> => chain[Len(chain)].after = was
    <2>1. chain # <<>> => Len(chain) \in 1 .. Len(chain)
      BY <1>2
    <2>2. chain # <<>> => chain[Len(chain)] \in Snapshot
      BY <1>2, <2>1
    <2>3. chain # <<>> => chain[Len(chain)].after.wording = wording[i]
      BY <1>2 DEF RecordInv, RecordIsContinuous
    <2> QED
      BY <1>2, <2>2, <2>3 DEF Snapshot, Wording
  <1>7. chain = <<>> => wording[i] = 0 /\ Len(chain) = 0
    BY <1>2 DEF RecordInv
  <1>8. ASSUME NEW j \in Incidents
        PROVE  LET c == amendments'[j]
               IN /\ \A k \in 1 .. Len(c) - 1 : c[k].after = c[k + 1].before
                  /\ c # <<>> => /\ c[1].before.wording = 0
                                 /\ c[Len(c)].after.wording = wording'[j]
    <2>1. CASE j # i
      <3>1. amendments'[j] = amendments[j] /\ wording'[j] = wording[j]
        BY <1>3, <2>1
      <3>2. LET c == amendments[j]
            IN /\ \A k \in 1 .. Len(c) - 1 : c[k].after = c[k + 1].before
               /\ c # <<>> => /\ c[1].before.wording = 0
                              /\ c[Len(c)].after.wording = wording[j]
        BY DEF RecordInv, RecordIsContinuous
      <3> QED
        BY <3>1, <3>2
    <2>2. CASE j = i
      <3> DEFINE c == Append(chain, link)
      <3>1. ASSUME NEW k \in 1 .. Len(c) - 1 PROVE c[k].after = c[k + 1].before
        <4>1. CASE k = Len(chain)
          <5>1. Len(chain) >= 1 /\ chain # <<>>
            BY <1>5, <1>7, <4>1
          <5>2. c[k] = chain[Len(chain)] /\ c[k + 1] = link
            BY <1>5, <4>1, <5>1
          <5> QED
            BY <1>6, <5>1, <5>2
        <4>2. CASE k # Len(chain)
          <5>1. k \in 1 .. Len(chain) - 1 /\ k \in 1 .. Len(chain)
                /\ k + 1 \in 1 .. Len(chain)
            BY <1>5, <4>2
          <5>2. c[k] = chain[k] /\ c[k + 1] = chain[k + 1]
            BY <1>5, <5>1
          <5>3. chain[k].after = chain[k + 1].before
            BY <1>2, <5>1 DEF RecordInv, RecordIsContinuous
          <5> QED
            BY <5>2, <5>3
        <4> QED
          BY <4>1, <4>2
      <3>2. c[1].before.wording = 0
        <4>1. CASE chain = <<>>
          <5>1. c[1] = link
            BY <1>5, <1>7, <4>1
          <5> QED
            BY <1>7, <4>1, <5>1
        <4>2. CASE chain # <<>>
          <5>1. c[1] = chain[1]
            BY <1>5, <4>2
          <5>2. chain[1].before.wording = 0
            BY <1>2, <4>2 DEF RecordInv, RecordIsContinuous
          <5> QED
            BY <5>1, <5>2
        <4> QED
          BY <4>1, <4>2
      <3>3. c[Len(c)].after.wording = requests
        BY <1>5
      <3> QED
        BY <1>3, <2>2, <3>1, <3>2, <3>3
    <2> QED
      BY <2>1, <2>2
  <1>9. /\ requests' = requests /\ Report' = Report
        /\ DOMAIN handler' = Handlers
        /\ \A g \in Handlers : HandlerIsBehind(g)'
    BY <1>1, ReportWritten DEF AmendWrite
  <1>10. RecordIsContinuous'
    <2>1. {number'[j] : j \in Report'} = 1 .. Cardinality(Report')
      <3>1. number' = number /\ {number[j] : j \in Report} = 1 .. Cardinality(Report)
        BY <1>1 DEF RecordInv, RecordIsContinuous
      <3> QED
        BY <1>9, <3>1
    <2>2. \A j \in Report' : status'[j] # "draft" <=> submitted'[j] # 0
      BY <1>1, <1>9 DEF RecordInv, RecordIsContinuous
    <2> QED
      BY <1>8, <2>1, <2>2 DEF RecordIsContinuous
  <1>11. /\ wording' \in [Incidents -> Nat]
         /\ amendments' \in [Incidents -> Seq(Snapshot)]
    BY <1>1, <1>2, <1>5 DEF RecordInv
  <1>12. \A j \in Incidents : amendments'[j] = <<>> => wording'[j] = 0
    BY <1>3, <1>5 DEF RecordInv
  <1> QED
    BY <1>1, <1>9, <1>10, <1>11, <1>12 DEF RecordInv

\* The unique key admits the number after the last, and no other.
LEMMA CreateInsertStep ==
  ASSUME RecordInv, NEW h \in Handlers, NEW i \in Incidents, CreateInsert(h, i)
  PROVE  RecordInv'
  <1> DEFINE n == Cardinality(Report)
  <1>1. /\ handler[h].at = "create" /\ number[i] = 0
        /\ handler[h].no \notin {number[j] : j \in Report}
        /\ number' = [number EXCEPT ![i] = handler[h].no]
        /\ handler' = [handler EXCEPT ![h] = Idle]
        /\ UNCHANGED <<status, submitted, wording, amendments, requests>>
    BY DEF CreateInsert, Become, record
  <1>2. /\ n \in Nat /\ {number[j] : j \in Report} = 1 .. n
        /\ handler[h].no \in 1 .. n + 1
    BY <1>1, ReportsCounted DEF RecordInv, RecordIsContinuous, HandlerIsBehind,
                                NumbersRead
  <1>3. handler[h].no = n + 1
    BY <1>1, <1>2
  <1>4. /\ number'[i] = n + 1
        /\ \A j \in Incidents : j # i => number'[j] = number[j]
    BY <1>1, <1>3 DEF RecordInv
  <1>5. i \notin Report /\ Report' = Report \cup {i}
    BY <1>1, <1>2, <1>4 DEF Report
  <1>6. IsFiniteSet(Report') /\ Cardinality(Report') = n + 1
    BY <1>5, FS_AddElement DEF RecordInv
  <1>7. {number'[j] : j \in Report'} = 1 .. n + 1
    <2>1. \A j \in Report : j # i /\ j \in Incidents /\ number'[j] = number[j]
      BY <1>4, <1>5 DEF Report
    <2>2. {number'[j] : j \in Report'} = {number[j] : j \in Report} \cup {n + 1}
      BY <1>4, <1>5, <2>1
    <2>3. (1 .. n) \cup {n + 1} = 1 .. n + 1
      BY <1>2
    <2> QED
      BY <1>2, <2>2, <2>3
  <1>8. \A j, k \in Report' : number'[j] = number'[k] => j = k
    <2>1. \A j \in Report : j # i /\ j \in Incidents /\ number'[j] = number[j]
      BY <1>4, <1>5 DEF Report
    <2>2. \A j \in Report : number[j] \in 1 .. n
      BY <1>2
    <2>3. \A j \in Report : number[j] # n + 1
      BY <1>2, <2>2
    <2> QED
      BY <1>4, <1>5, <2>1, <2>3 DEF RecordInv
  <1>9. RecordIsContinuous'
    <2>1. \A j \in Report' : status'[j] # "draft" <=> submitted'[j] # 0
      <3> TAKE j \in Report'
      <3>1. j \in Incidents
        BY <1>5 DEF Report
      <3>2. CASE j \in Report
        BY <1>1, <3>2 DEF RecordInv, RecordIsContinuous
      <3>3. CASE j = i
        BY <1>1, <1>5, <3>1, <3>3 DEF RecordInv
      <3> QED
        BY <1>5, <3>2, <3>3
    <2>2. \A j \in Incidents :
            LET chain == amendments'[j]
            IN /\ \A k \in 1 .. Len(chain) - 1 : chain[k].after = chain[k + 1].before
               /\ chain # <<>> => /\ chain[1].before.wording = 0
                                  /\ chain[Len(chain)].after.wording = wording'[j]
      <3>1. amendments' = amendments /\ wording' = wording
        BY <1>1
      <3> QED
        BY <3>1 DEF RecordInv, RecordIsContinuous
    <2> QED
      BY <1>6, <1>7, <2>1, <2>2 DEF RecordIsContinuous
  <1>10. number' \in [Incidents -> Nat]
    BY <1>1, <1>2, <1>3 DEF RecordInv
  <1>11. ASSUME NEW g \in Handlers PROVE HandlerIsBehind(g)'
    <2>1. CASE g = h
      BY <1>1, <2>1 DEF RecordInv, HandlerIsBehind, Idle
    <2>2. CASE g # h
      BY <1>1, <1>2, <1>6, <2>2 DEF RecordInv, HandlerIsBehind, NumbersRead
    <2> QED
      BY <2>1, <2>2
  <1> QED
    BY <1>1, <1>6, <1>8, <1>9, <1>10, <1>11 DEF RecordInv

LEMMA RecordInit == IncidentsInit => RecordInv
  <1> SUFFICES ASSUME IncidentsInit PROVE RecordInv
    OBVIOUS
  <1>1. PICK known \in {{}} \cup {{i} : i \in Incidents} :
          /\ number = [i \in Incidents |-> IF i \in known THEN 1 ELSE 0]
          /\ status = [i \in Incidents |-> IF i \in known THEN "under_review"
                                           ELSE "draft"]
          /\ submitted = number
    BY DEF IncidentsInit
  <1>2. Report = known
    BY <1>1 DEF Report
  <1>3. /\ IsFiniteSet(Report)
        /\ {number[i] : i \in Report} = 1 .. Cardinality(Report)
        /\ \A i, j \in Report : number[i] = number[j] => i = j
    <2>1. CASE known = {}
      BY <1>2, <2>1, FS_EmptySet
    <2>2. ASSUME NEW k \in Incidents, known = {k} PROVE <1>3
      <3>1. IsFiniteSet(Report) /\ Cardinality(Report) = 1
        BY <1>2, <2>2, FS_Singleton
      <3>2. {number[i] : i \in Report} = {1}
        BY <1>1, <1>2, <2>2
      <3> QED
        BY <1>2, <2>2, <3>1, <3>2
    <2> QED
      BY <1>1, <2>1, <2>2
  <1>4. \A i \in Incidents : /\ amendments[i] = <<>> /\ wording[i] = 0
                             /\ status[i] # "draft" <=> submitted[i] # 0
    BY <1>1 DEF IncidentsInit
  <1>5. RecordIsContinuous
    BY <1>3, <1>4 DEF RecordIsContinuous, Report
  <1>6. \A h \in Handlers : handler[h].at = "idle"
    BY DEF IncidentsInit, Idle
  <1>7. \A h \in Handlers : HandlerIsBehind(h)
    BY <1>6 DEF HandlerIsBehind
  <1>8. amendments \in [Incidents -> Seq(Snapshot)]
    BY DEF IncidentsInit
  <1>9. /\ number \in [Incidents -> Nat] /\ status \in [Incidents -> IncidentStates]
        /\ submitted \in [Incidents -> Nat] /\ wording \in [Incidents -> Nat]
    BY <1>1 DEF IncidentsInit, IncidentStates
  <1>10. requests \in Nat \ {0} /\ DOMAIN handler = Handlers
    BY DEF IncidentsInit
  <1> QED
    BY <1>3, <1>4, <1>5, <1>7, <1>8, <1>9, <1>10 DEF RecordInv

LEMMA RecordStep == RecordInv /\ [IncidentsNext]_incidentsVars => RecordInv'
  <1> SUFFICES ASSUME RecordInv, [IncidentsNext]_incidentsVars PROVE RecordInv'
    OBVIOUS
  <1>1. CASE IncidentsNext
    BY <1>1, OtherHandlerStep, CreateReadStep, LoadIncidentStep,
       TransitionCheckStep, TransitionWriteStep, SubmitWriteStep,
       AmendWriteStep, CreateInsertStep
       DEF IncidentsNext, Closing
  <1>2. CASE UNCHANGED incidentsVars
    <2>1. UNCHANGED <<number, status, submitted, wording, amendments, handler,
                      requests>>
      BY <1>2 DEF incidentsVars
    <2>2. Report' = Report
      BY <2>1 DEF Report
    <2>3. RecordIsContinuous'
      BY <2>1, RecordKept DEF RecordInv
    <2> QED
      BY <2>1, <2>2, <2>3 DEF RecordInv, HandlerIsBehind, NumbersRead
  <1> QED
    BY <1>1, <1>2

\* As long as requests do not overlap, what a request read is what is there.
HandlerIsFresh(h) ==
  /\ handler[h].at = "transition" /\ handler[h].to = "closed" =>
       OpenFollowUps(handler[h].of) = {}
  /\ handler[h].at \in {"acknowledge", "resolve"} =>
       /\ handler[h].row \in Escalations
       /\ handler[h].status = escalation[handler[h].row].status

FreshInv ==
  /\ escalation \in [Escalations -> [of : Incidents \cup {NoIncident},
        status : {"none", "pending", "acknowledged", "resolved"}]]
  /\ ~ collided =>
       /\ \A g, h \in Handlers : handler[g] # Idle /\ handler[h] # Idle => g = h
       /\ \A h \in Handlers : HandlerIsFresh(h)

\* A step of a request while no other is under way.
LEMMA Alone ==
  ASSUME RecordInv, FreshInv, NEW h \in Handlers, NEW r,
         handler' = [handler EXCEPT ![h] = r],
         handler[h] # Idle \/ \A g \in Handlers \ {h} : handler[g] = Idle,
         ~ collided, ~ collided',
         HandlerIsFresh(h)'
  PROVE  /\ \A g, k \in Handlers : handler'[g] # Idle /\ handler'[k] # Idle => g = k
         /\ \A g \in Handlers : HandlerIsFresh(g)'
  <1>1. \A g \in Handlers : g # h => handler[g] = Idle /\ handler'[g] = Idle
    BY DEF RecordInv, FreshInv
  <1>2. \A g \in Handlers : g # h => HandlerIsFresh(g)'
    BY <1>1 DEF HandlerIsFresh, Idle
  <1> QED
    BY <1>1, <1>2

\* What a request finds when it starts, or goes on, alone.
LEMMA FreshIncidentsStep ==
  ASSUME RecordInv, FreshInv, NEW h \in Handlers,
         \/ GiveUp(h) \/ WriteAuditEvent(h)
         \/ CreateRead(h) \/ CreateConflict(h)
         \/ \E i \in Incidents :
              \/ CreateInsert(h, i)
              \/ \E at \in {"submit", "status", "hold", "amend", "escalate",
                            "followup"} : LoadIncident(h, i, at)
         \/ TransitionWrite(h) \/ SubmitWrite(h) \/ AmendWrite(h)
         \/ \E x \in BOOLEAN : HoldWrite(h, x)
         \/ \E f \in FollowUps : CreateFollowUp(h, f) \/ LoadFollowUp(h, f)
         \/ \E to \in Unfinished \cup {"completed", "waived"} : PatchFollowUp(h, to)
  PROVE  FreshInv'
  <1> DEFINE Proceeds(r) ==
               /\ handler' = [handler EXCEPT ![h] = r]
               /\ r.at \notin {"transition", "acknowledge", "resolve"}
               /\ escalation' = escalation
               /\ \/ handler[h] # Idle /\ collided' = collided
                  \/ collided' = (collided \/
                                    \E g \in Handlers \ {h} : handler[g] # Idle)
  <1>0. \E r : Proceeds(r)
    <2>1. CASE GiveUp(h) \/ WriteAuditEvent(h)
      <3>1. Proceeds(Idle)
        BY <2>1 DEF GiveUp, WriteAuditEvent, Become, children, Idle
      <3> QED
        BY <3>1
    <2>2. CASE CreateRead(h) \/ CreateConflict(h)
      BY <2>2 DEF CreateRead, CreateConflict, Receive, Become, Idle, children
    <2>3. ASSUME NEW i \in Incidents, CreateInsert(h, i) PROVE \E r : Proceeds(r)
      <3>1. Proceeds(Idle)
        BY <2>3 DEF CreateInsert, Become, Idle, children
      <3> QED
        BY <3>1
    <2>4. ASSUME NEW i \in Incidents, NEW at, LoadIncident(h, i, at),
                 at \notin {"transition", "acknowledge", "resolve"}
          PROVE  \E r : Proceeds(r)
      BY <2>4 DEF LoadIncident, Receive, children
    <2>5. ASSUME NEW event, ToAudit(h, event), handler[h] # Idle,
                 escalation' = escalation
          PROVE  \E r : Proceeds(r)
      BY <2>5 DEF ToAudit, Become
    <2>6. CASE TransitionWrite(h)
      BY <2>5, <2>6 DEF TransitionWrite, children, Idle
    <2>7. CASE SubmitWrite(h)
      BY <2>5, <2>7 DEF SubmitWrite, children, Idle
    <2>8. CASE AmendWrite(h)
      BY <2>5, <2>8 DEF AmendWrite, children, Idle
    <2>9. ASSUME NEW x \in BOOLEAN, HoldWrite(h, x) PROVE \E r : Proceeds(r)
      BY <2>5, <2>9 DEF HoldWrite, children, Idle
    <2>10. ASSUME NEW f \in FollowUps, CreateFollowUp(h, f) PROVE \E r : Proceeds(r)
      BY <2>5, <2>10 DEF CreateFollowUp, Idle
    <2>11. ASSUME NEW f \in FollowUps, LoadFollowUp(h, f) PROVE \E r : Proceeds(r)
      BY <2>11 DEF LoadFollowUp, Receive, children
    <2>12. ASSUME NEW to, PatchFollowUp(h, to) PROVE \E r : Proceeds(r)
      <3>1. handler[h].at = "followup_patch" /\ escalation' = escalation
        BY <2>12 DEF PatchFollowUp
      <3>2. CASE \E event : ToAudit(h, event)
        <4>1. handler[h] # Idle
          BY <3>1 DEF Idle
        <4> HIDE DEF Proceeds
        <4> QED
          BY <2>5, <3>1, <3>2, <4>1
      <3>3. CASE Become(h, Idle)
        <4>1. Proceeds(Idle)
          <5>1. handler[h] # Idle
            BY <3>1 DEF Idle
          <5> QED
            BY <3>1, <3>3, <5>1 DEF Become, Idle
        <4> QED
          BY <4>1
      <3> QED
        BY <2>12, <3>2, <3>3 DEF PatchFollowUp
    <2> QED
      BY <2>1, <2>2, <2>3, <2>4, <2>6, <2>7, <2>8, <2>9, <2>10, <2>11, <2>12
  <1>1. PICK r : Proceeds(r)
    BY <1>0
  <1>2. handler'[h] = r /\ escalation' = escalation
    BY <1>1 DEF RecordInv
  <1>3. ~ collided' => /\ ~ collided
                       /\ handler[h] # Idle \/ \A g \in Handlers \ {h} : handler[g] = Idle
    BY <1>1
  <1>4. HandlerIsFresh(h)'
    BY <1>1, <1>2 DEF HandlerIsFresh
  <1> QED
    <2>1. CASE collided'
      BY <1>2, <2>1 DEF FreshInv
    <2>2. CASE ~ collided'
      BY <1>1, <1>2, <1>3, <1>4, <2>2, Alone DEF FreshInv
    <2> QED
      BY <2>1, <2>2

LEMMA FreshTransitionStep ==
  ASSUME RecordInv, FreshInv, NEW h \in Handlers, NEW to, NEW holder \in BOOLEAN,
         TransitionCheck(h, to, holder)
  PROVE  FreshInv'
  <1> DEFINE r == [at |-> "transition", of |-> handler[h].of,
                   status |-> handler[h].status, to |-> to]
  <1>1. /\ handler[h].at = "status" /\ handler' = [handler EXCEPT ![h] = r]
        /\ UNCHANGED <<escalation, followUp, collided>>
        /\ to = "closed" => OpenFollowUps(handler[h].of) = {}
    BY DEF TransitionCheck, Become, children
  <1>2. handler'[h] = r /\ handler[h] # Idle
    BY <1>1 DEF RecordInv, Idle
  <1>3. HandlerIsFresh(h)'
    BY <1>1, <1>2 DEF HandlerIsFresh, OpenFollowUps
  <1> QED
    BY <1>1, <1>2, <1>3, Alone DEF FreshInv

LEMMA FreshEscalationStep ==
  ASSUME RecordInv, FreshInv, NEW h \in Handlers,
         \/ \E e \in Escalations :
              \/ Escalate(h, e)
              \/ LoadEscalation(h, e, "acknowledge") \/ LoadEscalation(h, e, "resolve")
         \/ AdvanceEscalation(h)
  PROVE  FreshInv'
  <1>1. ASSUME NEW e \in Escalations, Escalate(h, e)
        PROVE  FreshInv'
    <2> DEFINE r == [at |-> "audit", event |->
                       [of |-> handler[h].of, type |-> "escalated", from |-> e,
                        to |-> "pending"]]
    <2>1. /\ handler[h].at = "escalate" /\ handler' = [handler EXCEPT ![h] = r]
          /\ collided' = collided
          /\ escalation' = [escalation EXCEPT ![e] = [of |-> handler[h].of,
                                                      status |-> "pending"]]
      BY <1>1 DEF Escalate, ToAudit, Become
    <2>2. handler'[h] = r /\ handler[h] # Idle /\ handler[h].of \in Incidents
      BY <2>1 DEF RecordInv, HandlerIsBehind, Idle
    <2>3. HandlerIsFresh(h)'
      BY <2>2 DEF HandlerIsFresh
    <2> QED
      BY <2>1, <2>2, <2>3, Alone DEF FreshInv
  <1>2. ASSUME NEW e \in Escalations, NEW at \in {"acknowledge", "resolve"},
               LoadEscalation(h, e, at)
        PROVE  FreshInv'
    <2> DEFINE r == [at |-> at, row |-> e, status |-> escalation[e].status]
    <2>1. /\ handler' = [handler EXCEPT ![h] = r] /\ escalation' = escalation
          /\ collided' = (collided \/ \E g \in Handlers \ {h} : handler[g] # Idle)
      BY <1>2 DEF LoadEscalation, Receive, children
    <2>2. handler'[h] = r
      BY <2>1 DEF RecordInv
    <2>3. HandlerIsFresh(h)'
      BY <2>1, <2>2 DEF HandlerIsFresh
    <2> QED
      BY <2>1, <2>3, Alone DEF FreshInv
  <1>3. CASE AdvanceEscalation(h)
    <2> DEFINE e  == handler[h].row
               to == IF handler[h].at = "acknowledge" THEN "acknowledged"
                     ELSE "resolved"
    <2> DEFINE r == [at |-> "audit", event |->
                       [of |-> escalation[e].of, type |-> "escalation",
                        from |-> e, to |-> to]]
    <2>1. handler' = [handler EXCEPT ![h] = r] /\ r.at = "audit"
      BY <1>3 DEF AdvanceEscalation, ToAudit, Become
    <2>2. /\ handler[h] # Idle /\ collided' = collided
          /\ escalation' = [escalation EXCEPT ![e].status = to]
      BY <1>3 DEF AdvanceEscalation, ToAudit, Become, Idle
    <2>3. handler'[h] = r
      BY <2>1 DEF RecordInv
    <2>4. HandlerIsFresh(h)'
      BY <2>1, <2>3 DEF HandlerIsFresh
    <2>5. escalation' \in [Escalations -> [of : Incidents \cup {NoIncident},
            status : {"none", "pending", "acknowledged", "resolved"}]]
      BY <2>2 DEF FreshInv
    <2> QED
      BY <2>1, <2>2, <2>4, <2>5, Alone DEF FreshInv
  <1> QED
    BY <1>1, <1>2, <1>3

LEMMA FreshInit == IncidentsInit => FreshInv
  BY DEF IncidentsInit, FreshInv, HandlerIsFresh, Idle, NoRow

LEMMA FreshStep ==
  RecordInv /\ FreshInv /\ [IncidentsNext]_incidentsVars => FreshInv'
  <1> SUFFICES ASSUME RecordInv, FreshInv, [IncidentsNext]_incidentsVars
               PROVE  FreshInv'
    OBVIOUS
  <1>1. CASE IncidentsNext
    BY <1>1, FreshIncidentsStep, FreshTransitionStep, FreshEscalationStep
       DEF IncidentsNext
  <1>2. CASE UNCHANGED incidentsVars
    BY <1>2 DEF FreshInv, HandlerIsFresh, OpenFollowUps, incidentsVars
  <1> QED
    BY <1>1, <1>2

\* Only a transition closes a report, and only an acknowledgement or a
\* resolution moves an escalation that is there.
LEMMA GatesStep ==
  ASSUME RecordInv, FreshInv, IncidentsNext, ~ collided'
  PROVE  /\ \A i \in Incidents :
              status[i] # "closed" /\ status'[i] = "closed" => OpenFollowUps(i) = {}
         /\ \A e \in Escalations :
              /\ escalation[e].status = "acknowledged" => escalation'[e].status # "pending"
              /\ escalation[e].status = "resolved" => escalation'[e] = escalation[e]
  <1>1. ASSUME status' # status
        PROVE  \E h \in Handlers : TransitionWrite(h) \/ SubmitWrite(h)
    BY ZenonT(30), <1>1 DEF IncidentsNext, GiveUp, WriteAuditEvent, CreateRead,
                            CreateConflict, CreateInsert, LoadIncident,
                            TransitionCheck, AmendWrite, HoldWrite, Escalate,
                            LoadEscalation, AdvanceEscalation, CreateFollowUp,
                            LoadFollowUp, PatchFollowUp, reports
  <1>2. ASSUME escalation' # escalation
        PROVE  \E h \in Handlers : AdvanceEscalation(h) \/ \E e \in Escalations : Escalate(h, e)
    BY ZenonT(30), <1>2 DEF IncidentsNext, GiveUp, WriteAuditEvent, CreateRead,
                            CreateConflict, CreateInsert, LoadIncident,
                            TransitionCheck, TransitionWrite, SubmitWrite,
                            AmendWrite, HoldWrite, LoadEscalation,
                            CreateFollowUp, LoadFollowUp, PatchFollowUp,
                            children
  <1>3. ASSUME NEW i \in Incidents, status[i] # "closed", status'[i] = "closed"
        PROVE  OpenFollowUps(i) = {}
    <2>1. PICK h \in Handlers : TransitionWrite(h) \/ SubmitWrite(h)
      BY <1>1, <1>3
    <2>2. CASE TransitionWrite(h)
      <3>1. /\ handler[h].at = "transition" /\ collided' = collided
            /\ status' = [status EXCEPT ![handler[h].of] = handler[h].to]
        BY <2>2 DEF TransitionWrite, ToAudit, Become
      <3>2. i = handler[h].of /\ handler[h].to = "closed"
        BY <1>3, <3>1 DEF RecordInv
      <3> QED
        BY <3>1, <3>2 DEF FreshInv, HandlerIsFresh
    <2>3. CASE SubmitWrite(h)
      BY <1>3, <2>3 DEF SubmitWrite, RecordInv
    <2> QED
      BY <2>1, <2>2, <2>3
  <1>4. ASSUME NEW e \in Escalations
        PROVE  /\ escalation[e].status = "acknowledged" => escalation'[e].status # "pending"
               /\ escalation[e].status = "resolved" => escalation'[e] = escalation[e]
    <2>1. CASE escalation' = escalation
      BY <2>1
    <2>2. ASSUME NEW h \in Handlers, AdvanceEscalation(h) PROVE <1>4!2
      <3> DEFINE row == handler[h].row
                 to  == IF handler[h].at = "acknowledge" THEN "acknowledged"
                        ELSE "resolved"
      <3>1. /\ <<handler[h].at, handler[h].status>> \in
                  {<<"acknowledge", "pending">>, <<"resolve", "acknowledged">>}
            /\ escalation' = [escalation EXCEPT ![row].status = to]
            /\ collided' = collided
        BY <2>2 DEF AdvanceEscalation, ToAudit, Become
      <3>2. row \in Escalations /\ handler[h].status = escalation[row].status
        BY <3>1 DEF FreshInv, HandlerIsFresh
      <3>3. row # e => escalation'[e] = escalation[e]
        BY <3>1 DEF FreshInv
      <3>4. escalation'[row].status = to
        BY <3>1, <3>2 DEF FreshInv
      <3>5. escalation[row].status \in {"pending", "acknowledged"}
        BY <3>1, <3>2
      <3> QED
        BY <3>3, <3>4, <3>5
    <2>3. ASSUME NEW h \in Handlers, NEW x \in Escalations, Escalate(h, x)
          PROVE  <1>4!2
      <3>1. x # e => escalation'[e] = escalation[e]
        BY <2>3 DEF Escalate, FreshInv
      <3>2. escalation[x].status = "none"
        BY <2>3 DEF Escalate, NoRow
      <3> QED
        BY <3>1, <3>2
    <2> QED
      BY <1>2, <2>1, <2>2, <2>3
  <1> QED
    BY <1>3, <1>4

-----------------------------------------------------------------------------
\* Witness statements: the versions of a person's statement.

StatementKinds == {"statement_added", "statement_signed"}

\* What the audit event that a clerk has to write is about is there, and not
\* counted.
Uncounted(event) ==
  event[1] \in StatementKinds =>
    /\ event[2] \in People
    /\ event[3] \in (IF event[1] = "statement_added" THEN Numbers(event[2])
                     ELSE Signed(event[2]))
    /\ event \in Events => trail[event] = 0

ClerkIsBehind(c) ==
  /\ clerk[c].at \in {"update", "remove", "state", "sign", "insert", "stamp"} =>
       clerk[c].person \in People
  /\ clerk[c].at = "insert" =>
       clerk[c].version \in 1 .. Cardinality(statements[clerk[c].person]) + 1
  /\ clerk[c].at = "stamp" => clerk[c].version \in Numbers(clerk[c].person)
  /\ clerk[c].at = "audit" => Uncounted(clerk[c].event)

StatementInv ==
  /\ statements \in [People -> SUBSET [version : Nat, signed : BOOLEAN]]
  /\ trail \in [Events -> Nat] /\ locked \in [People -> Nat]
  /\ DOMAIN clerk = Clerks
  /\ \A p \in People : IsFiniteSet(statements[p])
  /\ StatementHistory
  /\ \A p \in People : \A s, t \in statements[p] : s.version = t.version => s = t
  /\ \A p \in People : Signed(p) = {} => locked[p] = 0
  /\ \A c \in Clerks : ClerkIsBehind(c)
  /\ \A b, c \in Clerks :
       /\ clerk[b].at = "audit" /\ clerk[c].at = "audit"
       /\ clerk[b].event = clerk[c].event /\ clerk[b].event[1] \in StatementKinds
       => b = c
  /\ ~ clashed =>
       /\ \A b, c \in Clerks : clerk[b] # AtRest /\ clerk[c] # AtRest => b = c
       /\ \A c \in Clerks : clerk[c].at = "insert" => Signed(clerk[c].person) = {}

\* No event counts twice, or what is not there.
CountedOnce(p) ==
  \A v \in 1 .. MaxCalls :
    /\ trail[<<"statement_added", p, v>>] <= IF v \in Numbers(p) THEN 1 ELSE 0
    /\ trail[<<"statement_signed", p, v>>] <= IF v \in Signed(p) THEN 1 ELSE 0

\* Of a statement's history: the versions, the events about them, and the lock.
HistoryOf(p) ==
  /\ Numbers(p) = 1 .. Cardinality(statements[p])
  /\ CountedOnce(p)
  /\ clashed \/ locked[p] \in {0, Cardinality(statements[p])}

LEMMA InOrNot ==
  ASSUME NEW v, NEW S
  PROVE  Cardinality({v} \cap S) = IF v \in S THEN 1 ELSE 0
  <1>1. CASE v \in S
    <2>1. {v} \cap S = {v}
      BY <1>1
    <2> QED
      BY <1>1, <2>1, FS_Singleton
  <1>2. CASE v \notin S
    <2>1. {v} \cap S = {}
      BY <1>2
    <2> QED
      BY <1>2, <2>1, FS_EmptySet
  <1> QED
    BY <1>1, <1>2

LEMMA HistoryInParts == StatementHistory => \A p \in People : HistoryOf(p)
  <1> SUFFICES ASSUME StatementHistory, NEW p \in People PROVE HistoryOf(p)
    OBVIOUS
  <1>1. ASSUME NEW v
        PROVE  /\ Cardinality({v} \cap Numbers(p)) = IF v \in Numbers(p) THEN 1 ELSE 0
               /\ Cardinality({v} \cap Signed(p)) = IF v \in Signed(p) THEN 1 ELSE 0
    BY InOrNot
  <1>2. ASSUME NEW v \in 1 .. MaxCalls
        PROVE  /\ trail[<<"statement_added", p, v>>]
                     <= Cardinality({v} \cap Numbers(p))
               /\ trail[<<"statement_signed", p, v>>]
                     <= Cardinality({v} \cap Signed(p))
    BY DEF StatementHistory
  <1>3. CountedOnce(p)
    BY <1>1, <1>2 DEF CountedOnce
  <1> QED
    BY <1>3 DEF StatementHistory, HistoryOf

LEMMA HistoryInPartsNext ==
  (\A p \in People : HistoryOf(p)') => StatementHistory'
  <1>1. ASSUME NEW p \in People, NEW v
        PROVE  /\ Cardinality({v} \cap Numbers(p)') = IF v \in Numbers(p)' THEN 1 ELSE 0
               /\ Cardinality({v} \cap Signed(p)') = IF v \in Signed(p)' THEN 1 ELSE 0
    BY InOrNot
  <1> QED
    BY <1>1 DEF StatementHistory, HistoryOf, CountedOnce

LEMMA VersionsCounted ==
  ASSUME StatementInv, NEW p \in People
  PROVE  /\ Cardinality(statements[p]) \in Nat
         /\ Numbers(p) = 1 .. Cardinality(statements[p])
         /\ Signed(p) \subseteq Numbers(p)
  BY FS_CardinalityType DEF StatementInv, StatementHistory, Numbers, Signed

LEMMA EventsCounted ==
  ASSUME StatementInv, NEW p \in People, NEW v \in 1 .. MaxCalls
  PROVE  /\ trail[<<"statement_added", p, v>>] \in Nat
         /\ trail[<<"statement_signed", p, v>>] \in Nat
  BY WitnessAssumption DEF StatementInv, Events, Versions

\* What is counted stays counted as long as no version or signature goes.
LEMMA CountsKept ==
  ASSUME StatementInv, NEW p \in People, CountedOnce(p), trail' = trail,
         Numbers(p) \subseteq Numbers(p)', Signed(p) \subseteq Signed(p)'
  PROVE  CountedOnce(p)'
  <1>1. ASSUME NEW v \in 1 .. MaxCalls
        PROVE  /\ trail[<<"statement_added", p, v>>] <= IF v \in Numbers(p)' THEN 1 ELSE 0
               /\ trail[<<"statement_signed", p, v>>] <= IF v \in Signed(p)' THEN 1 ELSE 0
    <2>1. /\ trail[<<"statement_added", p, v>>] <= IF v \in Numbers(p) THEN 1 ELSE 0
          /\ trail[<<"statement_signed", p, v>>] <= IF v \in Signed(p) THEN 1 ELSE 0
      BY DEF CountedOnce
    <2> QED
      BY <2>1, EventsCounted
  <1> QED
    BY <1>1 DEF CountedOnce

LEMMA NextIsOneMore ==
  ASSUME StatementInv, NEW p \in People
  PROVE  NextVersion(p) = Cardinality(statements[p]) + 1
  <1> DEFINE n == Cardinality(statements[p])
  <1>1. n \in Nat /\ Numbers(p) = 1 .. n
    BY VersionsCounted
  <1>2. n \in Numbers(p) \cup {0} /\ \A y \in Numbers(p) \cup {0} : n >= y
    BY <1>1
  <1>3. \A x \in Numbers(p) \cup {0} :
          (\A y \in Numbers(p) \cup {0} : x >= y) => x = n
    BY <1>1, <1>2
  <1>4. Max(Numbers(p) \cup {0}) = n
    BY <1>2, <1>3 DEF Max
  <1> QED
    BY <1>2, <1>3, <1>4 DEF NextVersion, Max

\* A step of one clerk that writes no statement and counts no event.
LEMMA OneClerk ==
  ASSUME StatementInv, NEW c \in Clerks, NEW r,
         clerk' = [clerk EXCEPT ![c] = r],
         UNCHANGED <<statements, trail, locked>>,
         \/ clerk[c] # AtRest /\ clashed' = clashed
         \/ clashed' = (clashed \/ \E b \in Clerks \ {c} : clerk[b] # AtRest),
         ClerkIsBehind(c)',
         r.at = "audit" => r.event[1] \notin StatementKinds,
         r.at = "insert" => Signed(r.person) = {}
  PROVE  StatementInv'
  <1>1. /\ clerk'[c] = r /\ DOMAIN clerk' = Clerks
        /\ \A b \in Clerks : b # c => clerk'[b] = clerk[b]
    BY DEF StatementInv
  <1>2. /\ \A p : Numbers(p)' = Numbers(p) /\ Signed(p)' = Signed(p)
        /\ \A p : Cardinality(statements[p])' = Cardinality(statements[p])
    BY DEF Numbers, Signed
  <1>3. \A b \in Clerks : ClerkIsBehind(b)'
    BY <1>1, <1>2 DEF StatementInv, ClerkIsBehind, Uncounted
  <1>4. StatementHistory'
    <2>1. ASSUME NEW p \in People PROVE HistoryOf(p)'
      <3>1. HistoryOf(p)
        BY HistoryInParts DEF StatementInv
      <3>2. CountedOnce(p)'
        BY <1>2, <3>1 DEF HistoryOf, CountedOnce
      <3> QED
        BY <1>2, <3>1, <3>2 DEF HistoryOf
    <2> QED
      BY <2>1, HistoryInPartsNext
  <1>5. \A a, b \in Clerks :
          /\ clerk'[a].at = "audit" /\ clerk'[b].at = "audit"
          /\ clerk'[a].event = clerk'[b].event
          /\ clerk'[a].event[1] \in StatementKinds
          => a = b
    BY <1>1 DEF StatementInv
  <1>6. ~ clashed' => \A b \in Clerks : b # c => clerk[b] = AtRest
    BY DEF StatementInv
  <1>7. ~ clashed' =>
          /\ \A a, b \in Clerks : clerk'[a] # AtRest /\ clerk'[b] # AtRest => a = b
          /\ \A b \in Clerks : clerk'[b].at = "insert" => Signed(clerk'[b].person) = {}
    BY <1>1, <1>6 DEF AtRest
  <1> QED
    BY <1>1, <1>2, <1>3, <1>4, <1>5, <1>7 DEF StatementInv

LEMMA PeopleStep ==
  ASSUME StatementInv, NEW c \in Clerks,
         \/ Hang(c) \/ UpdatePerson(c) \/ RemovePerson(c)
         \/ \E p \in People : AddPerson(c, p)
  PROVE  StatementInv'
  <1>1. PICK r : /\ clerk' = [clerk EXCEPT ![c] = r]
                 /\ r.at \in {"rest", "audit"}
                 /\ r.at = "audit" => r.event[1] \notin StatementKinds
    BY DEF Hang, UpdatePerson, RemovePerson, AddPerson, Call, Step, ThenAudit,
           AtRest, StatementKinds
  <1>2. UNCHANGED <<statements, trail, locked>>
    BY DEF Hang, UpdatePerson, RemovePerson, AddPerson
  <1>3. \/ clerk[c] # AtRest /\ clashed' = clashed
        \/ clashed' = (clashed \/ \E b \in Clerks \ {c} : clerk[b] # AtRest)
    BY DEF Hang, UpdatePerson, RemovePerson, AddPerson, Call, Step, ThenAudit,
           AtRest
  <1>4. clerk'[c] = r
    BY <1>1 DEF StatementInv
  <1>5. ClerkIsBehind(c)'
    BY <1>1, <1>4 DEF ClerkIsBehind, Uncounted
  <1> QED
    BY <1>1, <1>2, <1>3, <1>5, OneClerk

LEMMA ResolveStep ==
  ASSUME StatementInv, NEW c \in Clerks, NEW p \in People,
         NEW op \in {"update", "remove", "state", "sign"}, ResolvePerson(c, op, p)
  PROVE  StatementInv'
  <1> DEFINE r == [at |-> op, person |-> p]
  <1>1. /\ clerk' = [clerk EXCEPT ![c] = r] /\ UNCHANGED <<statements, trail, locked>>
        /\ clashed' = (clashed \/ \E b \in Clerks \ {c} : clerk[b] # AtRest)
    BY DEF ResolvePerson, Call
  <1>2. clerk'[c] = r
    BY <1>1 DEF StatementInv
  <1>3. ClerkIsBehind(c)'
    BY <1>2 DEF ClerkIsBehind
  <1> QED
    BY <1>1, <1>3, OneClerk

LEMMA ReadVersionsStep ==
  ASSUME StatementInv, NEW c \in Clerks, ReadVersions(c)
  PROVE  StatementInv'
  <1> DEFINE p == clerk[c].person
             r == [at |-> "insert", person |-> p, version |-> NextVersion(p)]
  <1>1. /\ clerk[c].at = "state" /\ Signed(p) = {}
        /\ clerk' = [clerk EXCEPT ![c] = r] /\ clashed' = clashed
        /\ UNCHANGED <<statements, trail, locked>>
    BY DEF ReadVersions, Step
  <1>2. /\ clerk'[c] = r /\ clerk[c] # AtRest /\ p \in People
    BY <1>1 DEF StatementInv, ClerkIsBehind, AtRest
  <1>3. NextVersion(p) \in 1 .. Cardinality(statements[p]) + 1
    BY <1>2, NextIsOneMore, VersionsCounted
  <1>4. ClerkIsBehind(c)'
    BY <1>1, <1>2, <1>3 DEF ClerkIsBehind
  <1> QED
    BY <1>1, <1>2, <1>4, OneClerk

LEMMA LoadStatementStep ==
  ASSUME StatementInv, NEW c \in Clerks, NEW v, LoadStatement(c, v)
  PROVE  StatementInv'
  <1> DEFINE p == clerk[c].person
             r == [at |-> "stamp", person |-> p, version |-> v]
  <1>1. /\ clerk[c].at = "sign" /\ v \in Numbers(p)
        /\ clerk' = [clerk EXCEPT ![c] = r] /\ clashed' = clashed
        /\ UNCHANGED <<statements, trail, locked>>
    BY DEF LoadStatement, Step
  <1>2. /\ clerk'[c] = r /\ clerk[c] # AtRest /\ p \in People
        /\ Numbers(p)' = Numbers(p)
    BY <1>1 DEF StatementInv, ClerkIsBehind, AtRest, Numbers
  <1>3. ClerkIsBehind(c)'
    BY <1>1, <1>2 DEF ClerkIsBehind
  <1> QED
    BY <1>1, <1>2, <1>3, OneClerk

\* An event is counted once: the clerk that has to write it is the only one.
LEMMA AuditStep ==
  ASSUME StatementInv, NEW c \in Clerks, Audit(c)
  PROVE  StatementInv'
  <1> DEFINE ev == clerk[c].event
  <1>1. /\ clerk[c].at = "audit" /\ trail' = [trail EXCEPT ![ev] = @ + 1]
        /\ clerk' = [clerk EXCEPT ![c] = AtRest] /\ clashed' = clashed
        /\ UNCHANGED <<statements, locked>>
    BY DEF Audit, Step
  <1>2. /\ Uncounted(ev) /\ trail' \in [Events -> Nat]
        /\ \A e \in Events : e # ev => trail'[e] = trail[e]
        /\ ev \in Events => trail'[ev] = trail[ev] + 1
    <2>1. Uncounted(ev) /\ trail \in [Events -> Nat]
      BY <1>1 DEF StatementInv, ClerkIsBehind
    <2>2. trail' = [e \in Events |-> IF e = ev THEN trail[e] + 1 ELSE trail[e]]
      BY <1>1, <2>1, Zenon
    <2>3. trail' \in [Events -> Nat]
      BY <2>1, <2>2
    <2>4. \A e \in Events : trail'[e] = IF e = ev THEN trail[e] + 1 ELSE trail[e]
      BY <2>2
    <2> QED
      BY <2>1, <2>3, <2>4
  <1>3. /\ clerk'[c] = AtRest /\ DOMAIN clerk' = Clerks
        /\ \A b \in Clerks : b # c => clerk'[b] = clerk[b]
    BY <1>1 DEF StatementInv
  <1>4. /\ \A p : Numbers(p)' = Numbers(p) /\ Signed(p)' = Signed(p)
        /\ \A p : Cardinality(statements[p])' = Cardinality(statements[p])
    BY <1>1 DEF Numbers, Signed
  <1>5. ASSUME NEW b \in Clerks PROVE ClerkIsBehind(b)'
    <2>1. CASE b = c
      BY <1>3, <2>1 DEF ClerkIsBehind, AtRest
    <2>2. CASE b # c
      <3>1. clerk'[b] = clerk[b]
        BY <1>3, <2>2
      <3>2. ASSUME clerk[b].at = "audit" PROVE Uncounted(clerk[b].event)'
        <4>1. clerk[b].event[1] \in StatementKinds => clerk[b].event # ev
          BY <1>1, <2>2, <3>2 DEF StatementInv
        <4>2. Uncounted(clerk[b].event)
          BY <3>2 DEF StatementInv, ClerkIsBehind
        <4> QED
          BY <1>2, <1>4, <3>1, <4>1, <4>2 DEF Uncounted
      <3> QED
        BY <1>4, <3>1, <3>2 DEF StatementInv, ClerkIsBehind
    <2> QED
      BY <2>1, <2>2
  <1>6. StatementHistory'
    <2>1. ASSUME NEW p \in People PROVE HistoryOf(p)'
      <3>1. HistoryOf(p)
        BY HistoryInParts DEF StatementInv
      <3>2. ASSUME NEW v \in 1 .. MaxCalls
            PROVE  /\ trail'[<<"statement_added", p, v>>]
                        <= IF v \in Numbers(p) THEN 1 ELSE 0
                   /\ trail'[<<"statement_signed", p, v>>]
                        <= IF v \in Signed(p) THEN 1 ELSE 0
        <4> DEFINE add == <<"statement_added", p, v>>
                   sign == <<"statement_signed", p, v>>
        <4>1. add \in Events /\ sign \in Events
          BY WitnessAssumption DEF Events, Versions
        <4>2. /\ trail[add] <= IF v \in Numbers(p) THEN 1 ELSE 0
              /\ trail[sign] <= IF v \in Signed(p) THEN 1 ELSE 0
          BY <3>1 DEF HistoryOf, CountedOnce
        <4>3. ev = add => v \in Numbers(p) /\ trail[add] = 0
          BY <1>2, <4>1 DEF Uncounted, StatementKinds
        <4>4. ev = sign => v \in Signed(p) /\ trail[sign] = 0
          BY <1>2, <4>1 DEF Uncounted, StatementKinds
        <4> HIDE DEF add, sign
        <4> QED
          BY <1>2, <4>1, <4>2, <4>3, <4>4 DEF add, sign
      <3> QED
        BY <1>1, <1>4, <3>1, <3>2 DEF HistoryOf, CountedOnce
    <2> QED
      BY <2>1, HistoryInPartsNext
  <1>7. \A a, b \in Clerks :
          /\ clerk'[a].at = "audit" /\ clerk'[b].at = "audit"
          /\ clerk'[a].event = clerk'[b].event
          /\ clerk'[a].event[1] \in StatementKinds
          => a = b
    BY <1>3 DEF StatementInv, AtRest
  <1>8. ~ clashed' =>
          /\ \A a, b \in Clerks : clerk'[a] # AtRest /\ clerk'[b] # AtRest => a = b
          /\ \A b \in Clerks : clerk'[b].at = "insert" => Signed(clerk'[b].person) = {}
    BY <1>1, <1>3 DEF StatementInv, AtRest
  <1> QED
    BY <1>1, <1>2, <1>3, <1>4, <1>5, <1>6, <1>7, <1>8 DEF StatementInv
\* A clerk that has written a statement has the only event about it.
LEMMA StatementWritten ==
  ASSUME StatementInv, NEW c \in Clerks, NEW p \in People, NEW v, NEW kind,
         kind \in StatementKinds,
         clerk' = [clerk EXCEPT ![c] = [at |-> "audit", event |-> <<kind, p, v>>]],
         clerk[c] # AtRest, UNCHANGED <<trail, clashed>>,
         statements' \in [People -> SUBSET [version : Nat, signed : BOOLEAN]],
         locked' \in [People -> Nat],
         v \notin (IF kind = "statement_added" THEN Numbers(p) ELSE Signed(p)),
         v \in (IF kind = "statement_added" THEN Numbers(p)' ELSE Signed(p)'),
         <<kind, p, v>> \in Events => trail[<<kind, p, v>>] = 0,
         \A q \in People :
           /\ Numbers(q) \subseteq Numbers(q)' /\ Signed(q) \subseteq Signed(q)'
           /\ Cardinality(statements[q]) <= Cardinality(statements'[q])
           /\ IsFiniteSet(statements'[q])
           /\ \A s, t \in statements'[q] : s.version = t.version => s = t
           /\ Signed(q)' = {} => locked'[q] = 0
           /\ HistoryOf(q)'
  PROVE  StatementInv'
  <1> DEFINE ev == <<kind, p, v>>
             r  == [at |-> "audit", event |-> ev]
  <1>1. /\ clerk'[c] = r /\ DOMAIN clerk' = Clerks
        /\ \A b \in Clerks : b # c => clerk'[b] = clerk[b]
    BY DEF StatementInv
  <1>2. ASSUME NEW b \in Clerks, clerk[b].at = "audit",
               clerk[b].event[1] \in StatementKinds
        PROVE  clerk[b].event # ev
    <2>1. Uncounted(clerk[b].event)
      BY <1>2 DEF StatementInv, ClerkIsBehind
    <2> QED
      BY <1>2, <2>1 DEF Uncounted
  <1>3. Uncounted(ev)'
    BY DEF Uncounted
  <1>4. ASSUME NEW b \in Clerks PROVE ClerkIsBehind(b)'
    <2>1. CASE b = c
      BY <1>1, <1>3, <2>1 DEF ClerkIsBehind
    <2>2. CASE b # c
      <3>1. clerk'[b] = clerk[b] /\ ClerkIsBehind(b)
        BY <1>1, <2>2 DEF StatementInv
      <3>2. clerk[b].at = "audit" => Uncounted(clerk[b].event)'
        BY <3>1 DEF ClerkIsBehind, Uncounted
      <3>3. clerk[b].at = "insert" =>
              clerk[b].version \in 1 .. Cardinality(statements'[clerk[b].person]) + 1
        <4> SUFFICES ASSUME clerk[b].at = "insert"
                     PROVE  clerk[b].version
                              \in 1 .. Cardinality(statements'[clerk[b].person]) + 1
          OBVIOUS
        <4> DEFINE q == clerk[b].person
        <4>1. q \in People /\ clerk[b].version \in 1 .. Cardinality(statements[q]) + 1
          BY <3>1 DEF ClerkIsBehind
        <4>2. /\ Cardinality(statements[q]) \in Nat
              /\ Cardinality(statements'[q]) \in Nat
              /\ Cardinality(statements[q]) <= Cardinality(statements'[q])
          BY <4>1, VersionsCounted, FS_CardinalityType
        <4> QED
          BY <4>1, <4>2
      <3> QED
        BY <3>1, <3>2, <3>3 DEF ClerkIsBehind
    <2> QED
      BY <2>1, <2>2
  <1>5. \A a, b \in Clerks :
          /\ clerk'[a].at = "audit" /\ clerk'[b].at = "audit"
          /\ clerk'[a].event = clerk'[b].event
          /\ clerk'[a].event[1] \in StatementKinds
          => a = b
    BY <1>1, <1>2 DEF StatementInv
  <1>6. ~ clashed =>
          /\ \A a, b \in Clerks : clerk'[a] # AtRest /\ clerk'[b] # AtRest => a = b
          /\ \A b \in Clerks : clerk'[b].at # "insert"
    BY <1>1 DEF StatementInv, AtRest
  <1>7. StatementHistory'
    BY HistoryInPartsNext
  <1> QED
    BY <1>1, <1>4, <1>5, <1>6, <1>7 DEF StatementInv

\* The unique key admits the version after the last, and no other.
LEMMA InsertVersionStep ==
  ASSUME StatementInv, NEW c \in Clerks, InsertVersion(c)
  PROVE  StatementInv'
  <1>0. PICK p, v : p = clerk[c].person /\ v = clerk[c].version
    OBVIOUS
  <1> DEFINE n   == Cardinality(statements[p])
             new == [version |-> v, signed |-> FALSE]
  <1>1. /\ clerk[c].at = "insert" /\ v \notin Numbers(p)
        /\ statements' = [statements EXCEPT ![p] = @ \cup {new}]
        /\ clerk' = [clerk EXCEPT ![c] =
                       [at |-> "audit", event |-> <<"statement_added", p, v>>]]
        /\ UNCHANGED <<trail, locked, clashed>>
    BY <1>0 DEF InsertVersion, ThenAudit, Step
  <1>2. /\ p \in People /\ v \in 1 .. n + 1 /\ clerk[c] # AtRest
        /\ n \in Nat /\ Numbers(p) = 1 .. n /\ Signed(p) \subseteq Numbers(p)
        /\ IsFiniteSet(statements[p])
    <2>1. ClerkIsBehind(c)
      BY DEF StatementInv
    <2>2. p \in People /\ v \in 1 .. n + 1 /\ clerk[c] # AtRest
      BY <1>0, <1>1, <2>1 DEF ClerkIsBehind, AtRest
    <2> QED
      BY <2>2, VersionsCounted DEF StatementInv
  <1>3. v = n + 1 /\ new \in [version : Nat, signed : BOOLEAN]
    BY <1>1, <1>2
  <1>4. /\ statements' \in [People -> SUBSET [version : Nat, signed : BOOLEAN]]
        /\ statements'[p] = statements[p] \cup {new}
        /\ \A q \in People : q # p => statements'[q] = statements[q]
    BY <1>1, <1>2, <1>3 DEF StatementInv
  <1>5. new \notin statements[p]
    BY <1>1 DEF Numbers
  <1>6. IsFiniteSet(statements'[p]) /\ Cardinality(statements'[p]) = n + 1
    <2>1. /\ IsFiniteSet(statements[p] \cup {new})
          /\ Cardinality(statements[p] \cup {new}) = n + 1
      BY <1>2, <1>5, FS_AddElement
    <2> QED
      BY <1>4, <2>1
  <1>7. Numbers(p)' = 1 .. n + 1 /\ v \in Numbers(p)'
    <2>1. Numbers(p)' = Numbers(p) \cup {v}
      <3>1. new.version = v
        OBVIOUS
      <3> HIDE DEF new
      <3> QED
        BY <1>4, <3>1 DEF Numbers
    <2>2. (1 .. n) \cup {n + 1} = 1 .. n + 1
      BY <1>2
    <2> QED
      BY <1>2, <1>3, <2>1, <2>2
  <1>8. Signed(p)' = Signed(p)
    BY <1>4 DEF Signed
  <1>9. \A q \in People : q # p => Numbers(q)' = Numbers(q) /\ Signed(q)' = Signed(q)
    BY <1>4 DEF Numbers, Signed
  <1>10. <<"statement_added", p, v>> \in Events => trail[<<"statement_added", p, v>>] = 0
    <2> SUFFICES ASSUME <<"statement_added", p, v>> \in Events
                 PROVE  trail[<<"statement_added", p, v>>] = 0
      OBVIOUS
    <2>1. v \in 1 .. MaxCalls
      BY <1>2, <1>3, WitnessAssumption DEF Events, Versions
    <2>2. trail[<<"statement_added", p, v>>] <= 0
      BY <1>1, <1>2, <2>1, HistoryInParts
         DEF StatementInv, HistoryOf, CountedOnce
    <2>3. trail[<<"statement_added", p, v>>] \in Nat
      BY DEF StatementInv
    <2> QED
      BY <2>2, <2>3
  <1>11. ASSUME NEW q \in People PROVE HistoryOf(q)'
    <2>1. HistoryOf(q)
      BY HistoryInParts DEF StatementInv
    <2>2. CASE q # p
      BY <1>1, <1>4, <1>9, <2>1, <2>2 DEF HistoryOf, CountedOnce
    <2>3. CASE q = p
      <3>1. CountedOnce(p)'
        <4>1. Numbers(p) \subseteq Numbers(p)'
          BY <1>2, <1>7
        <4> QED
          BY <1>1, <1>2, <1>8, <2>1, <2>3, <4>1, CountsKept DEF HistoryOf
      <3>2. clashed' \/ locked'[p] = 0
        BY <1>0, <1>1, <1>2 DEF StatementInv
      <3> QED
        BY <1>6, <1>7, <2>3, <3>1, <3>2 DEF HistoryOf
    <2> QED
      BY <2>2, <2>3
  <1>12. ASSUME NEW q \in People
         PROVE  /\ Numbers(q) \subseteq Numbers(q)' /\ Signed(q) \subseteq Signed(q)'
                /\ Cardinality(statements[q]) <= Cardinality(statements'[q])
                /\ IsFiniteSet(statements'[q])
                /\ \A s, t \in statements'[q] : s.version = t.version => s = t
                /\ Signed(q)' = {} => locked'[q] = 0
    <2>1. CASE q # p
      <3>1. statements'[q] = statements[q] /\ Cardinality(statements[q]) \in Nat
        BY <1>4, <2>1, VersionsCounted
      <3> QED
        BY <1>1, <1>9, <2>1, <3>1 DEF StatementInv
    <2>2. CASE q = p
      <3>1. \A s, t \in statements'[p] : s.version = t.version => s = t
        BY <1>1, <1>2, <1>4 DEF StatementInv, Numbers
      <3>2. Signed(p)' = {} => locked'[p] = 0
        BY <1>1, <1>2, <1>8 DEF StatementInv
      <3> QED
        BY <1>2, <1>6, <1>7, <1>8, <2>2, <3>1, <3>2
    <2> QED
      BY <2>1, <2>2
  <1>13. locked' \in [People -> Nat]
    BY <1>1 DEF StatementInv
  <1> QED
    BY <1>1, <1>2, <1>4, <1>7, <1>10, <1>11, <1>12, <1>13, StatementWritten
       DEF StatementKinds

\* A version is signed in place, and once.
LEMMA SignVersionStep ==
  ASSUME StatementInv, NEW c \in Clerks, SignVersion(c)
  PROVE  StatementInv'
  <1>0. PICK p, v : p = clerk[c].person /\ v = clerk[c].version
    OBVIOUS
  <1> DEFINE n   == Cardinality(statements[p])
             old == [version |-> v, signed |-> FALSE]
             new == [version |-> v, signed |-> TRUE]
  <1>1. /\ clerk[c].at = "stamp" /\ v \notin Signed(p)
        /\ statements' = [statements EXCEPT ![p] = (@ \ {old}) \cup {new}]
        /\ locked' = [locked EXCEPT
             ![p] = IF Signed(p) = {} THEN Cardinality(statements[p]) ELSE @]
        /\ clerk' = [clerk EXCEPT ![c] =
                       [at |-> "audit", event |-> <<"statement_signed", p, v>>]]
        /\ UNCHANGED <<trail, clashed>>
    BY <1>0 DEF SignVersion, StatementGuard, ThenAudit, Step
  <1>2. /\ p \in People /\ v \in Numbers(p) /\ clerk[c] # AtRest
        /\ n \in Nat /\ Numbers(p) = 1 .. n
        /\ IsFiniteSet(statements[p])
    <2>1. ClerkIsBehind(c)
      BY DEF StatementInv
    <2> QED
      BY <1>0, <1>1, <2>1, VersionsCounted
         DEF StatementInv, ClerkIsBehind, AtRest
  <1>3. /\ new \in [version : Nat, signed : BOOLEAN]
        /\ statements[p] \subseteq [version : Nat, signed : BOOLEAN]
    BY <1>2 DEF StatementInv
  <1>4. /\ statements' \in [People -> SUBSET [version : Nat, signed : BOOLEAN]]
        /\ statements'[p] = (statements[p] \ {old}) \cup {new}
        /\ \A q \in People : q # p => statements'[q] = statements[q]
    BY <1>1, <1>2, <1>3 DEF StatementInv
  <1>5. old \in statements[p] /\ new \notin statements[p]
    <2>1. PICK s \in statements[p] : s.version = v
      BY <1>2 DEF Numbers
    <2>2. s.signed = FALSE
      BY <1>1, <1>3, <2>1 DEF Signed
    <2>3. s = old
      BY <1>3, <2>1, <2>2
    <2> QED
      BY <1>1, <2>1, <2>3 DEF Signed
  <1>6. IsFiniteSet(statements'[p]) /\ Cardinality(statements'[p]) = n
    <2>1. IsFiniteSet(statements[p] \ {old}) /\ Cardinality(statements[p] \ {old}) = n - 1
      BY <1>2, <1>5, FS_RemoveElement
    <2>2. new \notin statements[p] \ {old}
      BY <1>5
    <2>3. /\ IsFiniteSet((statements[p] \ {old}) \cup {new})
          /\ Cardinality((statements[p] \ {old}) \cup {new}) = (n - 1) + 1
      BY <2>1, <2>2, FS_AddElement
    <2> QED
      BY <1>2, <1>4, <2>3
  <1>7. Numbers(p)' = Numbers(p)
    <2>1. ASSUME NEW s \in statements[p] PROVE s.version \in Numbers(p)'
      <3>1. CASE s = old
        <4>1. new \in statements'[p] /\ new.version = s.version
          BY <1>4, <3>1
        <4> QED
          BY <4>1 DEF Numbers
      <3>2. CASE s # old
        BY <1>4, <3>2 DEF Numbers
      <3> QED
        BY <3>1, <3>2
    <2>2. ASSUME NEW s \in statements'[p] PROVE s.version \in Numbers(p)
      BY <1>2, <1>4 DEF Numbers
    <2> QED
      BY <2>1, <2>2 DEF Numbers
  <1>8. Signed(p)' = Signed(p) \cup {v}
    BY <1>4, <1>5 DEF Signed
  <1>9. \A q \in People : q # p => /\ Numbers(q)' = Numbers(q) /\ Signed(q)' = Signed(q)
                                   /\ locked'[q] = locked[q]
    BY <1>1, <1>4 DEF Numbers, Signed, StatementInv
  <1>10. <<"statement_signed", p, v>> \in Events => trail[<<"statement_signed", p, v>>] = 0
    <2> SUFFICES ASSUME <<"statement_signed", p, v>> \in Events
                 PROVE  trail[<<"statement_signed", p, v>>] = 0
      OBVIOUS
    <2>1. v \in 1 .. MaxCalls
      BY <1>2, WitnessAssumption DEF Events, Versions
    <2>2. trail[<<"statement_signed", p, v>>] <= 0
      BY <1>1, <1>2, <2>1, HistoryInParts
         DEF StatementInv, HistoryOf, CountedOnce
    <2>3. trail[<<"statement_signed", p, v>>] \in Nat
      BY DEF StatementInv
    <2> QED
      BY <2>2, <2>3
  <1>11. locked' \in [People -> Nat] /\ (clashed' \/ locked'[p] \in {0, n})
    BY <1>1, <1>2 DEF StatementInv, StatementHistory
  <1>12. ASSUME NEW q \in People PROVE HistoryOf(q)'
    <2>1. HistoryOf(q)
      BY HistoryInParts DEF StatementInv
    <2>2. CASE q # p
      BY <1>1, <1>4, <1>9, <2>1, <2>2 DEF HistoryOf, CountedOnce
    <2>3. CASE q = p
      <3>1. CountedOnce(p)'
        <4>1. Signed(p) \subseteq Signed(p)'
          BY <1>8
        <4> QED
          BY <1>1, <1>2, <1>7, <2>1, <2>3, <4>1, CountsKept DEF HistoryOf
      <3> QED
        BY <1>2, <1>6, <1>7, <1>11, <2>3, <3>1 DEF HistoryOf
    <2> QED
      BY <2>2, <2>3
  <1>13. ASSUME NEW q \in People
         PROVE  /\ Numbers(q) \subseteq Numbers(q)' /\ Signed(q) \subseteq Signed(q)'
                /\ Cardinality(statements[q]) <= Cardinality(statements'[q])
                /\ IsFiniteSet(statements'[q])
                /\ \A s, t \in statements'[q] : s.version = t.version => s = t
                /\ Signed(q)' = {} => locked'[q] = 0
    <2>1. CASE q # p
      <3>1. statements'[q] = statements[q] /\ Cardinality(statements[q]) \in Nat
        BY <1>4, <2>1, VersionsCounted
      <3> QED
        BY <1>9, <2>1, <3>1 DEF StatementInv
    <2>2. CASE q = p
      <3>1. \A s \in statements[p] : s.version = v => s = old
        <4>1. old.version = v
          OBVIOUS
        <4> HIDE DEF old
        <4> QED
          BY <1>2, <1>5, <4>1 DEF StatementInv
      <3>2. \A s, t \in statements'[p] : s.version = t.version => s = t
        BY <1>2, <1>4, <3>1 DEF StatementInv
      <3> QED
        BY <1>2, <1>6, <1>7, <1>8, <2>2, <3>2
    <2> QED
      BY <2>1, <2>2
  <1>14. /\ "statement_signed" \in StatementKinds
         /\ "statement_signed" # "statement_added" /\ v \in Signed(p)'
    BY <1>8 DEF StatementKinds
  <1>15. UNCHANGED <<trail, clashed>>
    BY <1>1
  <1> HIDE DEF n, old, new
  <1> QED
    BY <1>1, <1>2, <1>4, <1>10, <1>11, <1>12, <1>13, <1>14, <1>15,
       StatementWritten

LEMMA StatementInit == WitnessInit => StatementInv
  <1> SUFFICES ASSUME WitnessInit PROVE StatementInv
    OBVIOUS
  <1>1. ASSUME NEW p \in People
        PROVE  /\ Numbers(p) = {} /\ Signed(p) = {} /\ IsFiniteSet(statements[p])
               /\ Cardinality(statements[p]) = 0
    BY FS_EmptySet DEF WitnessInit, Numbers, Signed
  <1>2. StatementHistory
    <2>1. ASSUME NEW p \in People, NEW v \in 1 .. MaxCalls
          PROVE  /\ trail[<<"statement_added", p, v>>] = 0
                 /\ trail[<<"statement_signed", p, v>>] = 0
      BY WitnessAssumption DEF WitnessInit, Events, Versions
    <2>2. ASSUME NEW p \in People, NEW v
          PROVE  /\ Cardinality({v} \cap Numbers(p)) = 0
                 /\ Cardinality({v} \cap Signed(p)) = 0
      BY <1>1, InOrNot
    <2>3. ASSUME NEW p \in People
          PROVE  /\ Numbers(p) = 1 .. Cardinality(statements[p])
                 /\ locked[p] \in {0, Cardinality(statements[p])}
      <3>1. locked[p] = 0 /\ 1 .. 0 = {}
        BY DEF WitnessInit
      <3> QED
        BY <1>1, <3>1
    <2>4. ASSUME NEW p \in People, NEW v \in 1 .. MaxCalls
          PROVE  /\ trail[<<"statement_added", p, v>>]
                       <= Cardinality({v} \cap Numbers(p))
                 /\ trail[<<"statement_signed", p, v>>]
                       <= Cardinality({v} \cap Signed(p))
      BY <2>1, <2>2
    <2> QED
      BY <2>3, <2>4 DEF StatementHistory
  <1>3. \A c \in Clerks : clerk[c] = AtRest
    BY DEF WitnessInit
  <1> QED
    BY <1>1, <1>2, <1>3 DEF WitnessInit, StatementInv, ClerkIsBehind, AtRest

LEMMA StatementStep == StatementInv /\ [WitnessNext]_witnessVars => StatementInv'
  <1> SUFFICES ASSUME StatementInv, [WitnessNext]_witnessVars PROVE StatementInv'
    OBVIOUS
  <1>1. CASE WitnessNext
    BY <1>1, AuditStep, PeopleStep, ResolveStep, ReadVersionsStep,
       InsertVersionStep, LoadStatementStep, SignVersionStep
       DEF WitnessNext
  <1>2. CASE UNCHANGED witnessVars
    <2>1. UNCHANGED <<statements, trail, locked, clerk, clashed>>
      BY <1>2 DEF witnessVars
    <2>2. /\ \A p : Numbers(p)' = Numbers(p) /\ Signed(p)' = Signed(p)
          /\ \A p : Cardinality(statements[p])' = Cardinality(statements[p])
      BY <2>1 DEF Numbers, Signed
    <2>3. \A c \in Clerks : ClerkIsBehind(c)'
      BY <2>1, <2>2 DEF StatementInv, ClerkIsBehind, Uncounted
    <2>4. \A p \in People : HistoryOf(p)'
      BY <2>1, <2>2, HistoryInParts DEF StatementInv, HistoryOf, CountedOnce
    <2>5. StatementHistory'
      BY <2>4, HistoryInPartsNext
    <2> QED
      BY <2>1, <2>2, <2>3, <2>5 DEF StatementInv
  <1> QED
    BY <1>1, <1>2

-----------------------------------------------------------------------------
\* Work orders: a history that is told row by row.

OrderFields == {"status", "assignee", "priority"}
OrderValues == Statuses \cup Priorities \cup Workers \cup {Nobody}
ChangeRows == [field : OrderFields, from : OrderValues, to : OrderValues]

OrdersTyped ==
  /\ orders \in [Orders -> OrderRows \cup {NoOrder}]
  /\ created \in [Orders -> OrderRows \cup {NoOrder}]
  /\ updates \in [Orders -> Seq(ChangeRows)]
  /\ \A w \in Orders : orders[w] = NoOrder => updates[w] = <<>>
  /\ DOMAIN crew = Crew /\ clock \in Nat

\* What a PATCH has read, and what it has to record.
PatchKnows(c) ==
  /\ crew[c] # OffDuty => crew[c].at \in {"update", "record"}
  /\ crew[c].at \in {"update", "record"} =>
       crew[c].order \in Orders /\ orders[crew[c].order] # NoOrder
  /\ crew[c].at = "update" =>
       /\ crew[c].read \in OrderRows
       /\ crew[c].status \in (Statuses \cup {"same"}) \ {crew[c].read.status}
       /\ crew[c].priority \in Priorities \cup {"same"}
       /\ crew[c].assignee \in Workers \cup {Nobody, "same"}
  /\ crew[c].at = "record" => crew[c].changes \in Seq(ChangeRows)

OnePatch == \A b, c \in Crew : crew[b] # OffDuty /\ crew[c] # OffDuty => b = c

\* The changes lead from what the history tells to the row that is there.
LeadsTo(rows, first, changes, row) ==
  /\ \A i, j \in DOMAIN changes : changes[i].field = changes[j].field => i = j
  /\ \A i \in DOMAIN changes :
       /\ Tells(rows, first, changes[i].field, Len(rows) + 1, changes[i].from)
       /\ changes[i].to = row[changes[i].field]
  /\ \A field \in OrderFields :
       \/ \E i \in DOMAIN changes : changes[i].field = field
       \/ Tells(rows, first, field, Len(rows) + 1, row[field])

PatchIsFresh(c) ==
  /\ crew[c].at = "update" => crew[c].read = orders[crew[c].order]
  /\ crew[c].at = "record" =>
       LET w == crew[c].order
       IN  LeadsTo(updates[w], created[w], crew[c].changes, orders[w])

OrdersInv ==
  /\ OrdersTyped /\ \A c \in Crew : PatchKnows(c)
  /\ HistoryExplainsOrder
  /\ crowded \/ unrecorded \/ (OnePatch /\ \A c \in Crew : PatchIsFresh(c))

\* What is told stays told when the history grows.
LEMMA ToldLonger ==
  ASSUME NEW s \in Seq(ChangeRows), NEW t \in Seq(ChangeRows), NEW first, NEW field,
         NEW i \in 1 .. Len(s) + 1, NEW value, Tells(s, first, field, i, value)
  PROVE  Tells(s \o t, first, field, i, value)
  <1>1. \A k \in 1 .. i - 1 : (s \o t)[k] = s[k]
    OBVIOUS
  <1>2. PICK both : both = s \o t
    OBVIOUS
  <1>3. \A k \in 1 .. i - 1 : both[k] = s[k]
    BY <1>1, <1>2
  <1>4. Tells(both, first, field, i, value)
    BY <1>3 DEF Tells
  <1> QED
    BY <1>2, <1>4

\* A history that takes in the changes tells the row.
LEMMA ToldByChanges ==
  ASSUME NEW s \in Seq(ChangeRows), NEW t \in Seq(ChangeRows), NEW first, NEW row,
         LeadsTo(s, first, t, row),
         \A i \in DOMAIN s : Tells(s, first, s[i].field, i, s[i].from)
  PROVE  /\ \A i \in DOMAIN (s \o t) :
              Tells(s \o t, first, (s \o t)[i].field, i, (s \o t)[i].from)
         /\ \A field \in OrderFields :
              Tells(s \o t, first, field, Len(s \o t) + 1, row[field])
  <1>1. PICK both : both = s \o t
    OBVIOUS
  <1>2. /\ Len(s) \in Nat /\ Len(t) \in Nat /\ Len(both) = Len(s) + Len(t)
        /\ DOMAIN both = 1 .. Len(s) + Len(t)
        /\ DOMAIN s = 1 .. Len(s) /\ DOMAIN t = 1 .. Len(t)
        /\ \A i \in 1 .. Len(s) : both[i] = s[i]
        /\ \A i \in 1 .. Len(t) : both[Len(s) + i] = t[i]
    BY <1>1
  <1>3. \A field, value : Tells(s, first, field, Len(s) + 1, value) =>
          Tells(both, first, field, Len(s) + 1, value)
    BY <1>1, <1>2, ToldLonger
  <1>4. ASSUME NEW n \in 0 .. Len(t), NEW field, NEW value,
               Tells(both, first, field, Len(s) + 1, value),
               \A k \in 1 .. n : t[k].field # field
        PROVE  Tells(both, first, field, Len(s) + n + 1, value)
    <2>1. \A k \in Len(s) + 1 .. Len(s) + n : both[k].field # field
      <3> TAKE k \in Len(s) + 1 .. Len(s) + n
      <3>1. PICK j \in 1 .. n : k = Len(s) + j
        <4>1. k - Len(s) \in 1 .. n /\ k = Len(s) + (k - Len(s))
          BY <1>2
        <4> QED
          BY <4>1
      <3>2. j \in 1 .. Len(t)
        BY <1>2
      <3>3. both[k] = t[j]
        BY <1>2, <3>1, <3>2
      <3> QED
        BY <1>4, <3>3
    <2>2. /\ 1 .. (Len(s) + 1) - 1 = 1 .. Len(s)
          /\ \A k \in 1 .. (Len(s) + n + 1) - 1 :
               k \in 1 .. Len(s) \/ k \in Len(s) + 1 .. Len(s) + n
          /\ 1 .. Len(s) \subseteq 1 .. (Len(s) + n + 1) - 1
      BY <1>2
    <2>3. CASE /\ \A k \in 1 .. (Len(s) + 1) - 1 : both[k].field # field
               /\ value = first[field]
      BY <2>1, <2>2, <2>3 DEF Tells
    <2>4. CASE \E j \in 1 .. (Len(s) + 1) - 1 :
                 /\ both[j].field = field /\ value = both[j].to
                 /\ \A k \in j + 1 .. (Len(s) + 1) - 1 : both[k].field # field
      <3>1. PICK j \in 1 .. Len(s) :
                 /\ both[j].field = field /\ value = both[j].to
                 /\ \A k \in j + 1 .. (Len(s) + 1) - 1 : both[k].field # field
        BY <2>2, <2>4
      <3>2. \A k \in j + 1 .. (Len(s) + n + 1) - 1 : both[k].field # field
        <4> TAKE k \in j + 1 .. (Len(s) + n + 1) - 1
        <4>1. k \in j + 1 .. (Len(s) + 1) - 1 \/ k \in Len(s) + 1 .. Len(s) + n
          BY <1>2
        <4> QED
          BY <2>1, <3>1, <4>1
      <3> QED
        BY <2>2, <3>1, <3>2 DEF Tells
    <2> QED
      BY <1>4, <2>3, <2>4 DEF Tells
  <1>5. ASSUME NEW i \in DOMAIN both
        PROVE  Tells(both, first, both[i].field, i, both[i].from)
    <2>1. CASE i <= Len(s)
      <3>1. i \in 1 .. Len(s) + 1 /\ i \in DOMAIN s /\ both[i] = s[i]
        BY <1>2, <2>1
      <3>2. Tells(s \o t, first, s[i].field, i, s[i].from)
        BY <3>1, ToldLonger
      <3> QED
        BY <1>1, <3>1, <3>2
    <2>2. CASE i > Len(s)
      <3>1. PICK k \in 1 .. Len(t) : i = Len(s) + k
        <4>1. i - Len(s) \in 1 .. Len(t) /\ i = Len(s) + (i - Len(s))
          BY <1>2, <2>2
        <4> QED
          BY <4>1
      <3>2. both[i] = t[k] /\ k \in DOMAIN t
        BY <1>2, <3>1
      <3>3. Tells(both, first, t[k].field, Len(s) + 1, t[k].from)
        BY <1>3, <3>2 DEF LeadsTo
      <3>4. \A j \in 1 .. k - 1 : t[j].field # t[k].field
        <4> TAKE j \in 1 .. k - 1
        <4>1. j \in DOMAIN t /\ j # k
          BY <1>2, <3>1
        <4> QED
          BY <3>2, <4>1 DEF LeadsTo
      <3>5. k - 1 \in 0 .. Len(t) /\ Len(s) + (k - 1) + 1 = i
        BY <1>2, <3>1
      <3>6. Tells(both, first, t[k].field, Len(s) + (k - 1) + 1, t[k].from)
        BY <1>4, <3>3, <3>4, <3>5
      <3> QED
        BY <3>2, <3>5, <3>6
    <2> QED
      BY <1>2, <2>1, <2>2
  <1>6. ASSUME NEW field \in OrderFields
        PROVE  Tells(both, first, field, Len(both) + 1, row[field])
    <2>1. CASE \E k \in DOMAIN t : t[k].field = field
      <3>1. PICK k \in DOMAIN t : t[k].field = field
        BY <2>1
      <3>2. /\ row[field] = t[k].to
            /\ \A j \in DOMAIN t : j # k => t[j].field # field
        BY <3>1 DEF LeadsTo
      <3>3. /\ Len(s) + k \in 1 .. Len(both) + 1 - 1
            /\ both[Len(s) + k] = t[k]
        BY <1>2, <3>1
      <3>4. \A j \in Len(s) + k + 1 .. Len(both) + 1 - 1 : both[j].field # field
        <4> TAKE j \in Len(s) + k + 1 .. Len(both) + 1 - 1
        <4>1. j - Len(s) \in DOMAIN t /\ j - Len(s) # k /\ j = Len(s) + (j - Len(s))
          BY <1>2, <3>1
        <4> QED
          BY <1>2, <3>2, <4>1
      <3> QED
        BY <3>1, <3>2, <3>3, <3>4 DEF Tells
    <2>2. CASE \A k \in DOMAIN t : t[k].field # field
      <3>1. Tells(both, first, field, Len(s) + 1, row[field])
        BY <1>3, <2>2 DEF LeadsTo
      <3>2. Len(t) \in 0 .. Len(t) /\ \A k \in 1 .. Len(t) : t[k].field # field
        BY <1>2, <2>2
      <3> QED
        BY <1>2, <1>4, <3>1, <3>2
    <2> QED
      BY <2>1, <2>2
  <1> QED
    BY <1>1, <1>5, <1>6

LEMMA OrderConstants ==
  /\ SlaUrgent \in Nat /\ SlaRoutine \in Nat
  /\ "same" \notin Statuses \cup Priorities
  BY WorkOrdersAssumption DEF Statuses, Priorities

LEMMA OrdersInitially == WorkOrdersInit => OrdersInv
  <1> SUFFICES ASSUME WorkOrdersInit PROVE OrdersInv
    OBVIOUS
  <1>1. OrdersTyped
    BY DEF WorkOrdersInit, OrdersTyped
  <1>2. \A c \in Crew : crew[c] = OffDuty /\ crew[c].at = "off"
    BY DEF WorkOrdersInit, OffDuty
  <1>3. \A w \in Orders : orders[w] = NoOrder
    BY DEF WorkOrdersInit
  <1> QED
    BY <1>1, <1>2, <1>3 DEF OrdersInv, PatchKnows, HistoryExplainsOrder,
                            OnePatch, PatchIsFresh

\* A row that is inserted has no history yet, and no request is about it.
LEMMA InsertOrderStep ==
  ASSUME OrdersInv, NEW w \in Orders, NEW row \in OrderRows, InsertOrder(w, row)
  PROVE  OrdersInv'
  <1>1. /\ orders[w] = NoOrder
        /\ orders' = [orders EXCEPT ![w] = row] /\ created' = [created EXCEPT ![w] = row]
        /\ UNCHANGED <<updates, crew, crowded, unrecorded, clock>>
    BY DEF InsertOrder
  <1>2. OrdersTyped /\ updates[w] = <<>>
    BY <1>1 DEF OrdersInv, OrdersTyped
  <1>3. \A v \in Orders \ {w} : orders'[v] = orders[v] /\ created'[v] = created[v]
    BY <1>1, <1>2 DEF OrdersTyped
  <1>4. orders'[w] = row /\ created'[w] = row
    BY <1>1, <1>2 DEF OrdersTyped
  <1>5. OrdersTyped'
    BY <1>1, <1>2 DEF OrdersTyped
  <1>6. ASSUME NEW c \in Crew
        PROVE  /\ PatchKnows(c)'
               /\ crew[c].at \in {"update", "record"} => crew[c].order \in Orders \ {w}
    BY <1>1, <1>2, <1>3, <1>4 DEF OrdersInv, PatchKnows
  <1>7. HistoryExplainsOrder'
    <2> SUFFICES ASSUME ~ crowded, ~ unrecorded, NEW v \in Orders, orders'[v] # NoOrder
                 PROVE
      /\ \A i \in DOMAIN updates[v] :
           Tells(updates[v], created'[v], updates[v][i].field, i, updates[v][i].from)
      /\ \/ \E c \in Crew : crew[c].at = "record" /\ crew[c].order = v
         \/ \A field \in {"status", "assignee", "priority"} :
              Tells(updates[v], created'[v], field, Len(updates[v]) + 1, orders'[v][field])
      BY <1>1 DEF HistoryExplainsOrder
    <2>1. CASE v = w
      BY <1>2, <1>4, <2>1 DEF Tells
    <2>2. CASE v # w
      BY <1>3, <2>2 DEF OrdersInv, HistoryExplainsOrder
    <2> QED
      BY <2>1, <2>2
  <1>8. crowded \/ unrecorded \/ (OnePatch' /\ \A c \in Crew : PatchIsFresh(c)')
    BY <1>1, <1>3, <1>6 DEF OrdersInv, OnePatch, PatchIsFresh
  <1> QED
    BY <1>1, <1>5, <1>6, <1>7, <1>8 DEF OrdersInv

LEMMA CreateOrderStep ==
  ASSUME OrdersInv, NEW w \in Orders, NEW assignee \in Workers \cup Strangers \cup {Nobody},
         \/ \E priority \in {"low", "urgent"}, due \in {-1, 1} :
              CreateOrder(w, priority, assignee, due)
         \/ \E severity \in Severities : CreateFromIncident(w, severity, assignee)
  PROVE  OrdersInv'
  <1>1. PICK row \in OrderRows : InsertOrder(w, row)
    <2>1. CASE \E priority \in {"low", "urgent"}, due \in {-1, 1} :
                 CreateOrder(w, priority, assignee, due)
      <3>1. PICK priority \in {"low", "urgent"}, due \in {-1, 1} :
                 CreateOrder(w, priority, assignee, due)
        BY <2>1
      <3>2. [status |-> "open", completed |-> -1, priority |-> priority,
             assignee |-> assignee, due |-> due] \in OrderRows
        BY <3>1 DEF CreateOrder, OrderRows, Statuses, Priorities
      <3> QED
        BY <3>1, <3>2 DEF CreateOrder
    <2>2. CASE \E severity \in Severities : CreateFromIncident(w, severity, assignee)
      <3>1. PICK severity \in Severities : CreateFromIncident(w, severity, assignee)
        BY <2>2
      <3>2. PICK priority \in Priorities :
              priority = CASE severity = "critical" -> "urgent"
                           [] severity = "high"     -> "high"
                           [] OTHER                 -> "medium"
        BY DEF Priorities
      <3>3. PICK due \in Int : due = clock + SlaHours(priority)
        BY OrderConstants DEF OrdersInv, OrdersTyped, SlaHours
      <3>4. /\ assignee \notin Strangers
            /\ InsertOrder(w, [status |-> "open", completed |-> -1, priority |-> priority,
                               assignee |-> assignee, due |-> due])
        BY <3>1, <3>2, <3>3 DEF CreateFromIncident
      <3>5. [status |-> "open", completed |-> -1, priority |-> priority,
             assignee |-> assignee, due |-> due] \in OrderRows
        BY <3>4 DEF OrderRows, Statuses
      <3> QED
        BY <3>4, <3>5
    <2> QED
      BY <2>1, <2>2
  <1> QED
    BY <1>1, InsertOrderStep

LEMMA PatchLoadStep ==
  ASSUME OrdersInv, NEW c \in Crew, NEW w \in Orders, NEW to \in Statuses \cup {"same"},
         NEW priority \in {"low", "urgent", "same"},
         NEW assignee \in Workers \cup Strangers \cup {Nobody, "same"},
         PatchLoad(c, w, to, priority, assignee)
  PROVE  OrdersInv'
  <1>1. PICK p : p = [at |-> "update", order |-> w, read |-> orders[w], status |-> to,
                      priority |-> priority, assignee |-> assignee]
    OBVIOUS
  <1>2. /\ crew[c] = OffDuty /\ orders[w] # NoOrder
        /\ assignee \in Workers \cup {Nobody, "same"}
        /\ to # "same" => CanTransition(orders[w].status, to)
        /\ crowded' = (crowded \/ \E other \in Crew \ {c} : crew[other] # OffDuty)
        /\ crew' = [crew EXCEPT ![c] = p]
        /\ UNCHANGED <<orders, created, updates, unrecorded, clock>>
    BY <1>1 DEF PatchLoad
  <1>3. /\ crew'[c] = p /\ \A d \in Crew \ {c} : crew'[d] = crew[d]
        /\ crew[c].at = "off"
    BY <1>2 DEF OrdersInv, OrdersTyped, OffDuty
  <1>4. /\ p.at = "update" /\ p.order = w /\ p.read = orders[w] /\ p.status = to
        /\ p.priority = priority /\ p.assignee = assignee
    BY <1>1
  <1>5. orders[w] \in OrderRows /\ orders[w].status \in Statuses
    BY <1>2 DEF OrdersInv, OrdersTyped, OrderRows
  <1>6. to # orders[w].status
    BY <1>2, <1>5, OrderConstants DEF CanTransition
  <1>7. OrdersTyped'
    BY <1>2 DEF OrdersInv, OrdersTyped
  <1>8. ASSUME NEW d \in Crew PROVE PatchKnows(d)'
    <2>1. CASE d = c
      BY <1>2, <1>3, <1>4, <1>5, <1>6, <2>1 DEF PatchKnows, Priorities
    <2>2. CASE d # c
      BY <1>2, <1>3, <2>2 DEF OrdersInv, PatchKnows
    <2> QED
      BY <2>1, <2>2
  <1>9. HistoryExplainsOrder'
    <2>1. \A v : (\E d \in Crew : crew[d].at = "record" /\ crew[d].order = v)
                   => \E d \in Crew : crew'[d].at = "record" /\ crew'[d].order = v
      BY <1>3
    <2> QED
      BY <1>2, <2>1 DEF OrdersInv, HistoryExplainsOrder
  <1>10. crowded' \/ unrecorded \/ (OnePatch' /\ \A d \in Crew : PatchIsFresh(d)')
    <2> SUFFICES ASSUME ~ crowded', ~ unrecorded
                 PROVE  OnePatch' /\ \A d \in Crew : PatchIsFresh(d)'
      OBVIOUS
    <2>1. \A d \in Crew \ {c} : crew[d] = OffDuty /\ crew[d].at = "off"
      <3>1. \A d \in Crew \ {c} : crew[d] = OffDuty
        BY <1>2
      <3> QED
        BY <3>1 DEF OffDuty
    <2>2. OnePatch'
      BY <1>3, <2>1 DEF OnePatch, OffDuty
    <2>3. ASSUME NEW d \in Crew PROVE PatchIsFresh(d)'
      <3>1. CASE d = c
        BY <1>2, <1>3, <1>4, <3>1 DEF PatchIsFresh
      <3>2. CASE d # c
        BY <1>3, <2>1, <3>2 DEF PatchIsFresh
      <3> QED
        BY <3>1, <3>2
    <2> QED
      BY <2>2, <2>3
  <1> QED
    BY <1>2, <1>7, <1>8, <1>9, <1>10 DEF OrdersInv

\* A request that ends without a history to record changes nothing that is told.
LEMMA PatchDropStep == ASSUME OrdersInv, NEW c \in Crew, PatchDrop(c) PROVE OrdersInv'
  <1>1. /\ crew' = [crew EXCEPT ![c] = OffDuty]
        /\ unrecorded' = (unrecorded \/ crew[c].at = "record")
        /\ UNCHANGED <<orders, created, updates, crowded, clock>>
    BY DEF PatchDrop
  <1>2. /\ crew'[c] = OffDuty /\ crew'[c].at = "off"
        /\ \A d \in Crew \ {c} : crew'[d] = crew[d]
    BY <1>1 DEF OrdersInv, OrdersTyped, OffDuty
  <1>3. OrdersTyped'
    BY <1>1 DEF OrdersInv, OrdersTyped
  <1>4. \A d \in Crew : PatchKnows(d)'
    BY <1>1, <1>2 DEF OrdersInv, PatchKnows
  <1>5. HistoryExplainsOrder'
    <2>1. ~ unrecorded' =>
            \A v : (\E d \in Crew : crew[d].at = "record" /\ crew[d].order = v)
                     => \E d \in Crew : crew'[d].at = "record" /\ crew'[d].order = v
      BY <1>1, <1>2
    <2> QED
      BY <1>1, <2>1 DEF OrdersInv, HistoryExplainsOrder
  <1>6. crowded' \/ unrecorded' \/ (OnePatch' /\ \A d \in Crew : PatchIsFresh(d)')
    BY <1>1, <1>2 DEF OrdersInv, OnePatch, PatchIsFresh
  <1> QED
    BY <1>3, <1>4, <1>5, <1>6 DEF OrdersInv

\* A list of what a PATCH changes of these fields, each once.
ListsChanges(s, p, fields) ==
  /\ s \in Seq(ChangeRows)
  /\ \A i, j \in DOMAIN s : s[i].field = s[j].field => i = j
  /\ \A i \in DOMAIN s :
       /\ s[i].field \in fields
       /\ s[i].from = p.read[s[i].field] /\ s[i].to = p[s[i].field]
       /\ p[s[i].field] \notin {"same", p.read[s[i].field]}
  /\ \A field \in fields : p[field] \notin {"same", p.read[field]} =>
       \E i \in DOMAIN s : s[i].field = field

LEMMA ListsOne ==
  ASSUME NEW p, NEW field \in OrderFields,
         p.read[field] \in OrderValues, p[field] \in OrderValues \cup {"same"}
  PROVE  ListsChanges(Change(p, field), p, {field})
  <1>1. CASE p[field] \in {"same", p.read[field]}
    <2>1. Change(p, field) = <<>>
      BY <1>1 DEF Change
    <2>2. /\ <<>> \in Seq(ChangeRows) /\ DOMAIN <<>> = {}
      OBVIOUS
    <2> QED
      BY <1>1, <2>1, <2>2 DEF ListsChanges
  <1>2. CASE p[field] \notin {"same", p.read[field]}
    <2>1. PICK r : r = [field |-> field, from |-> p.read[field], to |-> p[field]]
      OBVIOUS
    <2>2. /\ r \in ChangeRows
          /\ r.field = field /\ r.from = p.read[field] /\ r.to = p[field]
      BY <1>2, <2>1 DEF ChangeRows
    <2>3. Change(p, field) = <<r>>
      BY <1>2, <2>1 DEF Change
    <2>4. <<r>> \in Seq(ChangeRows) /\ DOMAIN <<r>> = {1} /\ <<r>>[1] = r
      BY <2>2
    <2>5. PICK s : s = <<r>>
      OBVIOUS
    <2>6. s \in Seq(ChangeRows) /\ DOMAIN s = {1} /\ s[1] = r
      BY <2>4, <2>5
    <2>7. ListsChanges(s, p, {field})
      BY <1>2, <2>2, <2>6 DEF ListsChanges
    <2> QED
      BY <2>3, <2>5, <2>7
  <1> QED
    BY <1>1, <1>2

LEMMA ListsBoth ==
  ASSUME NEW p, NEW s, NEW t, NEW these, NEW those, these \cap those = {},
         ListsChanges(s, p, these), ListsChanges(t, p, those)
  PROVE  ListsChanges(s \o t, p, these \cup those)
  <1>1. PICK both : both = s \o t
    OBVIOUS
  <1>2. s \in Seq(ChangeRows) /\ t \in Seq(ChangeRows)
    BY DEF ListsChanges
  <1>3. /\ both \in Seq(ChangeRows) /\ Len(s) \in Nat /\ Len(t) \in Nat
        /\ DOMAIN both = 1 .. Len(s) + Len(t)
        /\ DOMAIN s = 1 .. Len(s) /\ DOMAIN t = 1 .. Len(t)
        /\ \A i \in 1 .. Len(s) : both[i] = s[i]
        /\ \A i \in 1 .. Len(t) : both[Len(s) + i] = t[i]
    BY <1>1, <1>2
  <1>4. ASSUME NEW i \in DOMAIN both
        PROVE  \/ i \in DOMAIN s /\ both[i] = s[i]
               \/ i - Len(s) \in DOMAIN t /\ both[i] = t[i - Len(s)]
    <2>1. CASE i <= Len(s)
      BY <1>3, <2>1
    <2>2. CASE i > Len(s)
      <3>1. i - Len(s) \in 1 .. Len(t) /\ i = Len(s) + (i - Len(s))
        BY <1>3, <2>2
      <3> QED
        BY <1>3, <3>1
    <2> QED
      BY <1>3, <2>1, <2>2
  <1>5. \A i, j \in DOMAIN both : both[i].field = both[j].field => i = j
    <2> SUFFICES ASSUME NEW i \in DOMAIN both, NEW j \in DOMAIN both,
                        both[i].field = both[j].field
                 PROVE  i = j
      OBVIOUS
    <2>1. CASE i \in DOMAIN s /\ both[i] = s[i] /\ j \in DOMAIN s /\ both[j] = s[j]
      BY <2>1 DEF ListsChanges
    <2>2. CASE /\ i - Len(s) \in DOMAIN t /\ both[i] = t[i - Len(s)]
               /\ j - Len(s) \in DOMAIN t /\ both[j] = t[j - Len(s)]
      <3>1. i - Len(s) = j - Len(s)
        BY <2>2 DEF ListsChanges
      <3> QED
        BY <1>3, <3>1
    <2>3. CASE \/ /\ i \in DOMAIN s /\ both[i] = s[i]
                  /\ j - Len(s) \in DOMAIN t /\ both[j] = t[j - Len(s)]
               \/ /\ i - Len(s) \in DOMAIN t /\ both[i] = t[i - Len(s)]
                  /\ j \in DOMAIN s /\ both[j] = s[j]
      BY <2>3 DEF ListsChanges
    <2> QED
      BY <1>4, <2>1, <2>2, <2>3
  <1>6. ASSUME NEW i \in DOMAIN both
        PROVE  /\ both[i].field \in these \cup those
               /\ both[i].from = p.read[both[i].field]
               /\ both[i].to = p[both[i].field]
               /\ p[both[i].field] \notin {"same", p.read[both[i].field]}
    BY <1>4 DEF ListsChanges
  <1>7. ASSUME NEW field \in these \cup those, p[field] \notin {"same", p.read[field]}
        PROVE  \E i \in DOMAIN both : both[i].field = field
    <2>1. CASE field \in these
      <3>1. PICK i \in DOMAIN s : s[i].field = field
        BY <1>7, <2>1 DEF ListsChanges
      <3> QED
        BY <1>3, <3>1
    <2>2. CASE field \in those
      <3>1. PICK i \in DOMAIN t : t[i].field = field
        BY <1>7, <2>2 DEF ListsChanges
      <3>2. Len(s) + i \in DOMAIN both /\ both[Len(s) + i].field = field
        BY <1>3, <3>1
      <3> QED
        BY <3>2
    <2> QED
      BY <2>1, <2>2
  <1>8. ListsChanges(both, p, these \cup those)
    BY <1>3, <1>5, <1>6, <1>7 DEF ListsChanges
  <1> QED
    BY <1>1, <1>8

LEMMA ListsAll ==
  ASSUME NEW p, p.read \in OrderRows, p.status \in Statuses \cup {"same"},
         p.priority \in Priorities \cup {"same"}, p.assignee \in Workers \cup {Nobody, "same"}
  PROVE  ListsChanges(Changes(p), p, OrderFields)
  <1>1. /\ ListsChanges(Change(p, "status"), p, {"status"})
        /\ ListsChanges(Change(p, "assignee"), p, {"assignee"})
        /\ ListsChanges(Change(p, "priority"), p, {"priority"})
    <2>1. /\ p.read["status"] \in OrderValues /\ p["status"] \in OrderValues \cup {"same"}
          /\ p.read["assignee"] \in OrderValues /\ p["assignee"] \in OrderValues \cup {"same"}
          /\ p.read["priority"] \in OrderValues /\ p["priority"] \in OrderValues \cup {"same"}
      BY DEF OrderRows, OrderValues
    <2> QED
      BY <2>1, ListsOne DEF OrderFields
  <1>2. ListsChanges(Change(p, "status") \o Change(p, "assignee"), p,
                     {"status"} \cup {"assignee"})
    BY <1>1, ListsBoth
  <1>3. ListsChanges((Change(p, "status") \o Change(p, "assignee")) \o Change(p, "priority"),
                     p, ({"status"} \cup {"assignee"}) \cup {"priority"})
    BY <1>1, <1>2, ListsBoth
  <1>4. ({"status"} \cup {"assignee"}) \cup {"priority"} = OrderFields
    BY DEF OrderFields
  <1> QED
    BY <1>3, <1>4 DEF Changes

\* The row that a PATCH writes.
LEMMA PatchedRow ==
  ASSUME NEW order \in OrderRows, NEW p, clock \in Nat,
         p.status \in Statuses \cup {"same"}, p.priority \in Priorities \cup {"same"},
         p.assignee \in Workers \cup {Nobody, "same"}
  PROVE  /\ Patched(order, p) \in OrderRows
         /\ Patched(order, p).status = IF p.status = "same" THEN order.status ELSE p.status
         /\ Patched(order, p).assignee =
              IF p.assignee \notin {"same", p.read.assignee} THEN p.assignee
              ELSE order.assignee
         /\ Patched(order, p).priority =
              IF p.priority \notin {"same", p.read.priority} THEN p.priority
              ELSE order.priority
  <1>1. PICK shifted : shifted = IF p.status = "same" THEN order
                             ELSE ApplyStatusChange(order, p.status)
    OBVIOUS
  <1>2. /\ shifted \in OrderRows
        /\ shifted.status = IF p.status = "same" THEN order.status ELSE p.status
        /\ shifted.assignee = order.assignee /\ shifted.priority = order.priority
    <2>1. CASE p.status = "same"
      BY <1>1, <2>1
    <2>2. CASE p.status # "same"
      <3>1. PICK stamp \in Int : stamp = IF p.status \in Completing THEN clock ELSE -1
        OBVIOUS
      <3>2. PICK half : half = [order EXCEPT !.status = p.status]
        OBVIOUS
      <3>3. /\ half \in OrderRows /\ half.status = p.status
            /\ half.assignee = order.assignee /\ half.priority = order.priority
        BY <2>2, <3>2 DEF OrderRows
      <3>4. shifted = [half EXCEPT !.completed = stamp]
        BY <1>1, <2>2, <3>1, <3>2 DEF ApplyStatusChange
      <3> QED
        BY <2>2, <3>1, <3>3, <3>4 DEF OrderRows
    <2> QED
      BY <2>1, <2>2
  <1>3. PICK who : who = IF p.assignee \notin {"same", p.read.assignee} THEN p.assignee
                         ELSE order.assignee
    OBVIOUS
  <1>4. PICK rank : rank = IF p.priority \notin {"same", p.read.priority} THEN p.priority
                           ELSE order.priority
    OBVIOUS
  <1>5. who \in Workers \cup {Nobody} /\ rank \in Priorities
    BY <1>3, <1>4 DEF OrderRows
  <1>6. PICK half : half = [shifted EXCEPT !.assignee = who]
    OBVIOUS
  <1>7. /\ half \in OrderRows /\ half.status = shifted.status /\ half.assignee = who
        /\ half.priority = order.priority
    BY <1>2, <1>5, <1>6 DEF OrderRows
  <1>8. Patched(order, p) = [half EXCEPT !.priority = rank]
    BY <1>1, <1>2, <1>3, <1>4, <1>6, <1>7 DEF Patched
  <1>9. /\ [half EXCEPT !.priority = rank] \in OrderRows
        /\ [half EXCEPT !.priority = rank].status = shifted.status
        /\ [half EXCEPT !.priority = rank].assignee = who
        /\ [half EXCEPT !.priority = rank].priority = rank
    BY <1>5, <1>7 DEF OrderRows
  <1> QED
    BY <1>2, <1>3, <1>4, <1>8, <1>9

\* The update of the row: the changes to record lead to what is there now.
LEMMA PatchWriteStep == ASSUME OrdersInv, NEW c \in Crew, PatchWrite(c) PROVE OrdersInv'
  <1>1. PICK p : p = crew[c]
    OBVIOUS
  <1>2. PICK w : w = p.order
    OBVIOUS
  <1>3. /\ p.at = "update" /\ w \in Orders /\ orders[w] \in OrderRows
        /\ p.read \in OrderRows /\ p.status \in (Statuses \cup {"same"}) \ {p.read.status}
        /\ p.priority \in Priorities \cup {"same"} /\ p.assignee \in Workers \cup {Nobody, "same"}
    <2>1. p.at = "update"
      BY <1>1 DEF PatchWrite
    <2>2. PatchKnows(c)
      BY DEF OrdersInv
    <2> QED
      BY <1>1, <1>2, <2>1, <2>2 DEF PatchKnows, OrdersInv, OrdersTyped
  <1>4. PICK row : row = Patched(orders[w], p)
    OBVIOUS
  <1>5. /\ row \in OrderRows
        /\ row.status = IF p.status = "same" THEN orders[w].status ELSE p.status
        /\ row.assignee = IF p.assignee \notin {"same", p.read.assignee} THEN p.assignee
                          ELSE orders[w].assignee
        /\ row.priority = IF p.priority \notin {"same", p.read.priority} THEN p.priority
                          ELSE orders[w].priority
    <2>1. clock \in Nat
      BY DEF OrdersInv, OrdersTyped
    <2> QED
      BY <1>3, <1>4, <2>1, PatchedRow
  <1>6. PICK changes : changes = Changes(p)
    OBVIOUS
  <1>7. ListsChanges(changes, p, OrderFields)
    BY <1>3, <1>6, ListsAll
  <1>8. PICK next : next = IF changes = <<>> THEN OffDuty
                           ELSE [at |-> "record", order |-> w, changes |-> changes]
    OBVIOUS
  <1>9. /\ orders' = [orders EXCEPT ![w] = row] /\ crew' = [crew EXCEPT ![c] = next]
        /\ UNCHANGED <<created, updates, crowded, unrecorded, clock>>
    BY <1>1, <1>2, <1>4, <1>6, <1>8 DEF PatchWrite
  <1>10. /\ orders'[w] = row /\ \A v \in Orders \ {w} : orders'[v] = orders[v]
         /\ crew'[c] = next /\ \A d \in Crew \ {c} : crew'[d] = crew[d]
    BY <1>3, <1>9 DEF OrdersInv, OrdersTyped
  <1>11. /\ changes = <<>> => next = OffDuty /\ next.at = "off"
         /\ changes # <<>> => /\ next.at = "record" /\ next.order = w
                              /\ next.changes = changes
    BY <1>8 DEF OffDuty
  <1>12. row # NoOrder
    BY <1>5, NoOrderAssumption
  <1>13. OrdersTyped'
    BY <1>5, <1>9, <1>12 DEF OrdersInv, OrdersTyped
  <1>14. ASSUME NEW d \in Crew PROVE PatchKnows(d)'
    <2>1. \A v \in Orders : orders[v] # NoOrder => orders'[v] # NoOrder
      BY <1>10, <1>12
    <2>2. CASE d = c
      <3>1. changes \in Seq(ChangeRows)
        BY <1>7 DEF ListsChanges
      <3> QED
        BY <1>3, <1>10, <1>11, <1>12, <2>2, <3>1 DEF PatchKnows
    <2>3. CASE d # c
      <3>1. PatchKnows(d) /\ crew'[d] = crew[d]
        BY <1>10, <2>3 DEF OrdersInv
      <3> QED
        BY <2>1, <3>1 DEF PatchKnows
    <2> QED
      BY <2>2, <2>3
  <1>15. ASSUME ~ crowded, ~ unrecorded
         PROVE  /\ OnePatch /\ p.read = orders[w]
                /\ \A d \in Crew \ {c} : crew[d] = OffDuty /\ crew[d].at = "off"
                /\ \A v \in Orders : orders[v] # NoOrder =>
                     /\ \A i \in DOMAIN updates[v] :
                          Tells(updates[v], created[v], updates[v][i].field, i, updates[v][i].from)
                     /\ \A field \in OrderFields :
                          Tells(updates[v], created[v], field, Len(updates[v]) + 1, orders[v][field])
    <2>1. OnePatch /\ PatchIsFresh(c)
      BY <1>15 DEF OrdersInv
    <2>2. p.read = orders[w]
      BY <1>1, <1>2, <1>3, <2>1 DEF PatchIsFresh
    <2>3. crew[c] # OffDuty
      BY <1>1, <1>3 DEF OffDuty
    <2>4. \A d \in Crew \ {c} : crew[d] = OffDuty
      BY <2>1, <2>3 DEF OnePatch
    <2>5. \A d \in Crew \ {c} : crew[d].at = "off"
      BY <2>4 DEF OffDuty
    <2>6. \A d \in Crew : crew[d].at # "record"
      BY <1>1, <1>3, <2>5
    <2> QED
      BY <1>15, <2>1, <2>2, <2>4, <2>5, <2>6
         DEF OrdersInv, HistoryExplainsOrder, OrderFields
  <1>16. ASSUME ~ crowded, ~ unrecorded
         PROVE  LeadsTo(updates[w], created[w], changes, row)
    <2>1. /\ p.read = orders[w]
          /\ \A field \in OrderFields :
               Tells(updates[w], created[w], field, Len(updates[w]) + 1, orders[w][field])
      BY <1>3, <1>15, <1>16, NoOrderAssumption
    <2>2. ASSUME NEW field \in OrderFields
          PROVE  row[field] = IF p[field] \notin {"same", p.read[field]} THEN p[field]
                              ELSE orders[w][field]
      <3>1. CASE field = "status"
        BY <1>3, <1>5, <2>1, <3>1
      <3>2. CASE field = "assignee"
        BY <1>5, <3>2
      <3>3. CASE field = "priority"
        BY <1>5, <3>3
      <3> QED
        BY <3>1, <3>2, <3>3 DEF OrderFields
    <2>3. ASSUME NEW i \in DOMAIN changes
          PROVE  /\ Tells(updates[w], created[w], changes[i].field, Len(updates[w]) + 1,
                         changes[i].from)
                 /\ changes[i].to = row[changes[i].field]
      <3>1. /\ changes[i].field \in OrderFields
            /\ changes[i].from = p.read[changes[i].field]
            /\ changes[i].to = p[changes[i].field]
            /\ p[changes[i].field] \notin {"same", p.read[changes[i].field]}
        BY <1>7 DEF ListsChanges
      <3> QED
        BY <2>1, <2>2, <3>1
    <2>4. ASSUME NEW field \in OrderFields
          PROVE  \/ \E i \in DOMAIN changes : changes[i].field = field
                 \/ Tells(updates[w], created[w], field, Len(updates[w]) + 1, row[field])
      BY <1>7, <2>1, <2>2 DEF ListsChanges
    <2>5. \A i, j \in DOMAIN changes : changes[i].field = changes[j].field => i = j
      BY <1>7 DEF ListsChanges
    <2> QED
      BY <2>3, <2>4, <2>5 DEF LeadsTo
  <1>17. HistoryExplainsOrder'
    <2> SUFFICES ASSUME ~ crowded, ~ unrecorded, NEW v \in Orders, orders'[v] # NoOrder
                 PROVE
      /\ \A i \in DOMAIN updates[v] :
           Tells(updates[v], created[v], updates[v][i].field, i, updates[v][i].from)
      /\ \/ \E d \in Crew : crew'[d].at = "record" /\ crew'[d].order = v
         \/ \A field \in OrderFields :
              Tells(updates[v], created[v], field, Len(updates[v]) + 1, orders'[v][field])
      BY <1>9 DEF HistoryExplainsOrder, OrderFields
    <2>1. CASE v # w
      BY <1>10, <1>15, <2>1
    <2>2. CASE v = w /\ changes # <<>>
      BY <1>3, <1>10, <1>11, <1>15, <2>2, NoOrderAssumption
    <2>3. CASE v = w /\ changes = <<>>
      <3>1. DOMAIN changes = {}
        BY <2>3
      <3>2. \A field \in OrderFields :
              Tells(updates[w], created[w], field, Len(updates[w]) + 1, row[field])
        BY <1>16, <3>1 DEF LeadsTo
      <3> QED
        BY <1>3, <1>10, <1>15, <2>3, <3>2, NoOrderAssumption
    <2> QED
      BY <2>1, <2>2, <2>3
  <1>18. crowded \/ unrecorded \/ (OnePatch' /\ \A d \in Crew : PatchIsFresh(d)')
    <2> SUFFICES ASSUME ~ crowded, ~ unrecorded
                 PROVE  OnePatch' /\ \A d \in Crew : PatchIsFresh(d)'
      OBVIOUS
    <2>1. OnePatch'
      BY <1>10, <1>15 DEF OnePatch, OffDuty
    <2>2. ASSUME NEW d \in Crew PROVE PatchIsFresh(d)'
      <3>1. CASE d # c
        BY <1>10, <1>15, <3>1 DEF PatchIsFresh
      <3>2. CASE d = c /\ changes = <<>>
        BY <1>10, <1>11, <3>2 DEF PatchIsFresh
      <3>3. CASE d = c /\ changes # <<>>
        <4>1. LeadsTo(updates[w], created[w], changes, row)
          BY <1>16
        <4> QED
          BY <1>9, <1>10, <1>11, <3>3, <4>1 DEF PatchIsFresh
      <3> QED
        BY <3>1, <3>2, <3>3
    <2> QED
      BY <2>1, <2>2
  <1> QED
    BY <1>9, <1>13, <1>14, <1>17, <1>18 DEF OrdersInv

\* The history takes in what the request had to record.
LEMMA PatchHistoryStep == ASSUME OrdersInv, NEW c \in Crew, PatchHistory(c) PROVE OrdersInv'
  <1>1. PICK w : w = crew[c].order
    OBVIOUS
  <1>2. PICK changes : changes = crew[c].changes
    OBVIOUS
  <1>3. crew[c].at = "record"
    BY DEF PatchHistory
  <1>4. /\ w \in Orders /\ orders[w] # NoOrder /\ changes \in Seq(ChangeRows)
        /\ updates[w] \in Seq(ChangeRows)
    BY <1>1, <1>2, <1>3 DEF OrdersInv, OrdersTyped, PatchKnows
  <1>5. PICK longer : longer = updates[w] \o changes
    OBVIOUS
  <1>6. longer \in Seq(ChangeRows)
    BY <1>4, <1>5
  <1>7. /\ updates' = [updates EXCEPT ![w] = longer]
        /\ crew' = [crew EXCEPT ![c] = OffDuty]
        /\ UNCHANGED <<orders, created, crowded, unrecorded, clock>>
    BY <1>1, <1>2, <1>5 DEF PatchHistory
  <1>8. /\ updates'[w] = longer /\ \A v \in Orders \ {w} : updates'[v] = updates[v]
        /\ crew'[c] = OffDuty /\ crew'[c].at = "off"
        /\ \A d \in Crew \ {c} : crew'[d] = crew[d]
    BY <1>4, <1>7 DEF OrdersInv, OrdersTyped, OffDuty
  <1>9. OrdersTyped'
    BY <1>4, <1>6, <1>7 DEF OrdersInv, OrdersTyped
  <1>10. ASSUME NEW d \in Crew PROVE PatchKnows(d)'
    BY <1>7, <1>8 DEF OrdersInv, PatchKnows
  <1>11. ASSUME ~ crowded, ~ unrecorded
         PROVE  /\ \A i \in DOMAIN longer :
                     Tells(longer, created[w], longer[i].field, i, longer[i].from)
                /\ \A field \in OrderFields :
                     Tells(longer, created[w], field, Len(longer) + 1, orders[w][field])
                /\ \A d \in Crew \ {c} : crew[d] = OffDuty /\ crew[d].at = "off"
    <2>1. OnePatch /\ PatchIsFresh(c)
      BY <1>11 DEF OrdersInv
    <2>2. LeadsTo(updates[w], created[w], changes, orders[w])
      BY <1>1, <1>2, <1>3, <2>1 DEF PatchIsFresh
    <2>3. \A i \in DOMAIN updates[w] :
            Tells(updates[w], created[w], updates[w][i].field, i, updates[w][i].from)
      BY <1>4, <1>11 DEF OrdersInv, HistoryExplainsOrder
    <2>4. crew[c] # OffDuty
      BY <1>3 DEF OffDuty
    <2>5. \A d \in Crew \ {c} : crew[d] = OffDuty
      BY <2>1, <2>4 DEF OnePatch
    <2>6. \A d \in Crew \ {c} : crew[d].at = "off"
      BY <2>5 DEF OffDuty
    <2>7. /\ \A i \in DOMAIN longer :
               Tells(longer, created[w], longer[i].field, i, longer[i].from)
          /\ \A field \in OrderFields :
               Tells(longer, created[w], field, Len(longer) + 1, orders[w][field])
      BY <1>4, <1>5, <2>2, <2>3, ToldByChanges
    <2> QED
      BY <2>5, <2>6, <2>7
  <1>12. HistoryExplainsOrder'
    <2> SUFFICES ASSUME ~ crowded, ~ unrecorded, NEW v \in Orders, orders[v] # NoOrder
                 PROVE
      /\ \A i \in DOMAIN updates'[v] :
           Tells(updates'[v], created[v], updates'[v][i].field, i, updates'[v][i].from)
      /\ \/ \E d \in Crew : crew'[d].at = "record" /\ crew'[d].order = v
         \/ \A field \in OrderFields :
              Tells(updates'[v], created[v], field, Len(updates'[v]) + 1, orders[v][field])
      BY <1>7 DEF HistoryExplainsOrder, OrderFields
    <2>1. CASE v = w
      BY <1>8, <1>11, <2>1
    <2>2. CASE v # w
      <3>1. \A d \in Crew : crew[d].at = "record" /\ crew[d].order = v => d # c
        BY <1>1, <2>2
      <3> QED
        BY <1>8, <2>2, <3>1 DEF OrdersInv, HistoryExplainsOrder, OrderFields
    <2> QED
      BY <2>1, <2>2
  <1>13. crowded \/ unrecorded \/ (OnePatch' /\ \A d \in Crew : PatchIsFresh(d)')
    <2> SUFFICES ASSUME ~ crowded, ~ unrecorded
                 PROVE  OnePatch' /\ \A d \in Crew : PatchIsFresh(d)'
      OBVIOUS
    <2>1. \A d \in Crew : crew'[d] = OffDuty /\ crew'[d].at = "off"
      BY <1>8, <1>11
    <2> QED
      BY <2>1 DEF OnePatch, PatchIsFresh
  <1> QED
    BY <1>7, <1>9, <1>10, <1>12, <1>13 DEF OrdersInv

LEMMA OrdersStep ==
  ASSUME OrdersInv, [WorkOrdersNext]_workOrderVars PROVE OrdersInv'
  <1>1. CASE \E w \in Orders, assignee \in Workers \cup Strangers \cup {Nobody} :
               \/ \E priority \in {"low", "urgent"}, due \in {-1, 1} :
                    CreateOrder(w, priority, assignee, due)
               \/ \E severity \in Severities : CreateFromIncident(w, severity, assignee)
    BY <1>1, CreateOrderStep
  <1>2. ASSUME NEW c \in Crew,
               \E w \in Orders, to \in Statuses \cup {"same"},
                  priority \in {"low", "urgent", "same"},
                  assignee \in Workers \cup Strangers \cup {Nobody, "same"} :
                 PatchLoad(c, w, to, priority, assignee)
        PROVE  OrdersInv'
    BY <1>2, PatchLoadStep
  <1>3. ASSUME NEW c \in Crew, PatchWrite(c) \/ PatchHistory(c) \/ PatchDrop(c)
        PROVE  OrdersInv'
    BY <1>3, PatchWriteStep, PatchHistoryStep, PatchDropStep
  <1>4. CASE Tick
    <2>1. clock' \in Nat /\ UNCHANGED <<orders, created, updates, crew, crowded, unrecorded>>
      BY <1>4 DEF Tick, OrdersInv, OrdersTyped
    <2> QED
      BY <2>1 DEF OrdersInv, OrdersTyped, PatchKnows, HistoryExplainsOrder,
                  OnePatch, PatchIsFresh
  <1>5. CASE UNCHANGED workOrderVars
    BY <1>5 DEF workOrderVars, OrdersInv, OrdersTyped, PatchKnows,
                HistoryExplainsOrder, OnePatch, PatchIsFresh
  <1> QED
    BY <1>1, <1>2, <1>3, <1>4, <1>5 DEF WorkOrdersNext

\* The list and the dashboard are about the same orders.
LEMMA ListsAgree == OrdersInv => WorkOrdersInv
  <1> SUFFICES ASSUME OrdersInv PROVE OverdueListed
    BY DEF OrdersInv, WorkOrdersInv
  <1>1. \A w \in Orders : orders[w] # NoOrder => orders[w].status \in Statuses
    BY DEF OrdersInv, OrdersTyped, OrderRows
  <1>2. Listed("any", TRUE) = {w \in Orders : IsOverdue(w)}
    BY DEF Listed, IsOverdue
  <1>3. \A one \in OpenOnes :
          Listed(one, TRUE) = {w \in Listed(one, FALSE) : IsOverdue(w)}
    BY DEF Listed, IsOverdue, OpenOnes
  <1>4. \A rows \in Dashboards(Listed("any", FALSE)) : \A i, j \in DOMAIN rows :
          IsOverdue(rows[i]) /\ ~IsOverdue(rows[j]) => i < j
    <2> SUFFICES ASSUME NEW rows \in Dashboards(Listed("any", FALSE)),
                        NEW i \in DOMAIN rows, NEW j \in DOMAIN rows,
                        IsOverdue(rows[i]), ~IsOverdue(rows[j]), ~(i < j)
                 PROVE  FALSE
      OBVIOUS
    <2>1. PICK shown : shown = Listed("any", FALSE)
      OBVIOUS
    <2>2. rows \in [1 .. Cardinality(shown) -> shown]
      BY <2>1 DEF Dashboards, SetToSeqs
    <2>3. i \in Int /\ j \in Int /\ i # j
      BY <2>2
    <2>4. j < i
      BY <2>3
    <2>5. ~ Precedes(rows[i], rows[j])
      BY <2>4 DEF Dashboards
    <2> QED
      BY <2>5 DEF Precedes
  <1> QED
    BY <1>2, <1>3, <1>4 DEF OverdueListed

-----------------------------------------------------------------------------
\* Scheduling: the shifts of a period and who is booked on them.

RosterTyped ==
  /\ templates \in [Templates -> Slots \cup {NoSlot}]
  /\ slot \in [Shifts -> Slots \cup {NoSlot}]
  /\ generated \subseteq {s \in Shifts : slot[s] # NoSlot}
  /\ booking \in [Rows -> {"none", "pending", "approved", "declined",
                           "cancelled"}]
  /\ \A row \in Rows : booking[row] # "none" => slot[row[1]] # NoSlot
  /\ DOMAIN desk = Managers

\* A row a manager works on is of a shift that is there, and a row of templates
\* has their slots.
DeskKnows(m) ==
  /\ desk[m].at \in {"assign", "book", "decide"} =>
       desk[m].row \in Rows /\ slot[desk[m].row[1]] # NoSlot
  /\ desk[m].at = "insert" =>
       /\ DOMAIN desk[m].slots \subseteq Templates
       /\ desk[m].slots \in [DOMAIN desk[m].slots -> Slots]

\* What a manager read, or checked, still holds.
DeskIsFresh(m) ==
  /\ desk[m].at = "assign" => desk[m].slot = slot[desk[m].row[1]]
  /\ desk[m].at = "book" /\ rules.conflicts =>
       Conflicts(desk[m].row, slot[desk[m].row[1]]) = {}
  /\ desk[m].at = "decide" => desk[m].status = booking[desk[m].row]
  /\ desk[m].at = "insert" =>
       \A t \in DOMAIN desk[m].slots, s \in generated :
         slot[s] # desk[m].slots[t]

OneAtATime == \A l, m \in Managers : desk[l] # Free /\ desk[m] # Free => l = m

BookedOnce ==
  rules.conflicts =>
    \A a, b \in Rows :
      (a[1] # b[1] /\ a[2] = b[2] /\ booking[a] \in Live /\ booking[b] \in Live)
        => <<slot[a[1]], slot[b[1]]>> \notin Overlapping

GeneratedFor(x) == {s \in generated : slot[s] = x}

FilledOnce ==
  \A x \in Slots : /\ IsFiniteSet(GeneratedFor(x))
                   /\ Cardinality(GeneratedFor(x)) <= Cardinality(Templates)

RosterFresh ==
  /\ OneAtATime /\ BookedOnce /\ FilledOnce
  /\ \A m \in Managers : DeskIsFresh(m)

RosterInv ==
  /\ RosterTyped
  /\ \A m \in Managers : DeskKnows(m)
  /\ raced \/ moved \/ RosterFresh

\* A step of one manager that leaves the roster alone.
LEMMA OneManager ==
  ASSUME RosterInv, NEW m \in Managers, NEW r,
         desk' = [desk EXCEPT ![m] = r],
         UNCHANGED <<templates, slot, generated, booking, rules, moved>>,
         \/ desk[m] # Free /\ raced' = raced
         \/ raced' = (raced \/ \E l \in Managers \ {m} : desk[l] # Free),
         DeskKnows(m)',
         RosterFresh => DeskIsFresh(m)'
  PROVE  RosterInv'
  <1>1. /\ desk'[m] = r /\ DOMAIN desk' = Managers
        /\ \A l \in Managers : l # m => desk'[l] = desk[l]
    BY DEF RosterInv, RosterTyped
  <1>2. RosterTyped'
    BY <1>1 DEF RosterInv, RosterTyped
  <1>3. \A l \in Managers : DeskKnows(l)'
    BY <1>1 DEF RosterInv, DeskKnows
  <1>4. ASSUME ~ raced', ~ moved' PROVE RosterFresh'
    <2>1. RosterFresh
      BY <1>4 DEF RosterInv
    <2>2. \A l \in Managers : l # m => desk[l] = Free /\ desk'[l] = Free
      BY <1>1, <1>4, <2>1 DEF RosterFresh, OneAtATime
    <2>3. ASSUME NEW l \in Managers PROVE DeskIsFresh(l)'
      <3>1. CASE l = m
        BY <2>1, <3>1
      <3>2. CASE l # m
        BY <2>2, <3>2 DEF DeskIsFresh, Free
      <3> QED
        BY <3>1, <3>2
    <2>4. OneAtATime'
      BY <2>2 DEF OneAtATime
    <2>5. BookedOnce' /\ FilledOnce'
      BY <2>1 DEF RosterFresh, BookedOnce, FilledOnce, GeneratedFor
    <2> QED
      BY <2>3, <2>4, <2>5 DEF RosterFresh
  <1> QED
    BY <1>2, <1>3, <1>4 DEF RosterInv

DeskTags == {"assign", "book", "decide", "insert"}

\* Requests about the period, and requests that are dropped.
LEMMA PeriodRequestStep ==
  ASSUME RosterInv, NEW m \in Managers,
         \/ DropEdit(m)
         \/ \E op \in {"patch", "generate", "publish"} : LoadPeriod(m, op)
         \/ \E to \in {"draft", "review", "published", "archived"} :
              WritePeriod(m, to)
         \/ \E override \in BOOLEAN : PublishCheck(m, override)
         \/ PublishPrior(m) \/ PublishInsert(m) \/ PublishUpdate(m)
  PROVE  RosterInv'
  <1>1. PICK r : desk' = [desk EXCEPT ![m] = r]
    BY DEF DropEdit, LoadPeriod, WritePeriod, PublishCheck, PublishPrior,
           PublishInsert, PublishUpdate, Open, Close, Continue
  <1>2. desk'[m] = r
    BY <1>1 DEF RosterInv, RosterTyped
  <1>3. desk'[m].at \notin DeskTags
    <2>1. CASE DropEdit(m)
      BY <1>2, <2>1 DEF DropEdit, Close, Continue, Free, DeskTags, RosterInv,
                        RosterTyped
    <2>2. ASSUME NEW op \in {"patch", "generate", "publish"}, LoadPeriod(m, op)
          PROVE  desk'[m].at \notin DeskTags
      BY <2>2 DEF LoadPeriod, Open, DeskTags, RosterInv, RosterTyped
    <2>3. ASSUME NEW to, WritePeriod(m, to) PROVE desk'[m].at \notin DeskTags
      BY <2>3 DEF WritePeriod, Close, Continue, Free, DeskTags, RosterInv,
                  RosterTyped
    <2>4. ASSUME NEW x, PublishCheck(m, x) PROVE desk'[m].at \notin DeskTags
      BY <2>4 DEF PublishCheck, Continue, DeskTags, RosterInv, RosterTyped
    <2>5. CASE PublishPrior(m)
      BY <2>5 DEF PublishPrior, Continue, DeskTags, RosterInv, RosterTyped
    <2>6. CASE PublishInsert(m)
      BY <2>6 DEF PublishInsert, Continue, DeskTags, RosterInv, RosterTyped
    <2>7. CASE PublishUpdate(m)
      BY <2>7 DEF PublishUpdate, Close, Continue, Free, DeskTags, RosterInv,
                  RosterTyped
    <2> QED
      BY <2>1, <2>2, <2>3, <2>4, <2>5, <2>6, <2>7
  <1>4. UNCHANGED <<templates, slot, generated, booking, rules, moved>>
    BY DEF DropEdit, LoadPeriod, WritePeriod, PublishCheck, PublishPrior,
           PublishInsert, PublishUpdate, roster, context
  <1>5. \/ desk[m] # Free /\ raced' = raced
        \/ raced' = (raced \/ \E l \in Managers \ {m} : desk[l] # Free)
    BY DEF DropEdit, LoadPeriod, WritePeriod, PublishCheck, PublishPrior,
           PublishInsert, PublishUpdate, Open, Close, Continue, Free
  <1>6. DeskKnows(m)' /\ DeskIsFresh(m)'
    BY <1>3 DEF DeskKnows, DeskIsFresh, DeskTags
  <1> QED
    BY <1>1, <1>4, <1>5, <1>6, OneManager

\* A row that is loaded, and the check of an assignment.
LEMMA RowRequestStep ==
  ASSUME RosterInv, NEW m \in Managers,
         \/ \E row \in Rows : AssignLoad(m, row) \/ DecideLoad(m, row)
         \/ AssignCheck(m)
  PROVE  RosterInv'
  <1>1. ASSUME NEW row \in Rows, AssignLoad(m, row) PROVE RosterInv'
    <2> DEFINE r == [at |-> "assign", row |-> row, slot |-> slot[row[1]]]
    <2>1. /\ desk' = [desk EXCEPT ![m] = r] /\ slot[row[1]] # NoSlot
          /\ UNCHANGED <<templates, slot, generated, booking, rules, moved>>
          /\ raced' = (raced \/ \E l \in Managers \ {m} : desk[l] # Free)
      BY <1>1 DEF AssignLoad, Open, roster, context
    <2>2. desk'[m] = r
      BY <2>1 DEF RosterInv, RosterTyped
    <2>3. DeskKnows(m)' /\ DeskIsFresh(m)'
      BY <2>1, <2>2 DEF DeskKnows, DeskIsFresh
    <2> QED
      BY <2>1, <2>3, OneManager
  <1>2. ASSUME NEW row \in Rows, DecideLoad(m, row) PROVE RosterInv'
    <2> DEFINE r == [at |-> "decide", row |-> row, status |-> booking[row]]
    <2>1. /\ desk' = [desk EXCEPT ![m] = r] /\ booking[row] # "none"
          /\ UNCHANGED <<templates, slot, generated, booking, rules, moved>>
          /\ raced' = (raced \/ \E l \in Managers \ {m} : desk[l] # Free)
      BY <1>2 DEF DecideLoad, Open, roster, context
    <2>2. desk'[m] = r /\ slot[row[1]] # NoSlot
      BY <2>1 DEF RosterInv, RosterTyped
    <2>3. DeskKnows(m)' /\ DeskIsFresh(m)'
      BY <2>1, <2>2 DEF DeskKnows, DeskIsFresh
    <2> QED
      BY <2>1, <2>3, OneManager
  <1>3. CASE AssignCheck(m)
    <2> DEFINE r == [at |-> "book", row |-> desk[m].row]
    <2>1. /\ desk[m].at = "assign" /\ desk' = [desk EXCEPT ![m] = r]
          /\ UNCHANGED <<templates, slot, generated, booking, rules, moved>>
          /\ raced' = raced
          /\ rules.conflicts => Conflicts(desk[m].row, desk[m].slot) = {}
      BY <1>3 DEF AssignCheck, Continue, roster, context
    <2>2. /\ desk'[m] = r /\ desk[m] # Free
          /\ desk[m].row \in Rows /\ slot[desk[m].row[1]] # NoSlot
      BY <2>1 DEF RosterInv, RosterTyped, DeskKnows, Free
    <2>3. DeskKnows(m)'
      BY <2>1, <2>2 DEF DeskKnows
    <2>4. RosterFresh => DeskIsFresh(m)'
      BY <2>1, <2>2 DEF RosterFresh, DeskIsFresh, Conflicts
    <2> QED
      BY <2>1, <2>2, <2>3, <2>4, OneManager
  <1> QED
    BY <1>1, <1>2, <1>3

\* Templates generate into the slots no generated shift has.
LEMMA GenerateReadStep ==
  ASSUME RosterInv, NEW m \in Managers, GenerateRead(m)
  PROVE  RosterInv'
  <1> DEFINE r == [at |-> "insert", slots |-> [t \in Expand |-> templates[t]]]
  <1>1. /\ desk[m].at = "generate" /\ desk' = [desk EXCEPT ![m] = r]
        /\ UNCHANGED <<templates, slot, generated, booking, rules, moved>>
        /\ raced' = raced
    BY DEF GenerateRead, Continue, roster, context
  <1>2. desk'[m] = r /\ desk[m] # Free
    BY <1>1 DEF RosterInv, RosterTyped, Free
  <1>3. /\ Expand \subseteq Templates
        /\ \A t \in Expand : /\ templates[t] \in Slots
                             /\ \A s \in generated : slot[s] # templates[t]
    BY DEF Expand, RosterInv, RosterTyped
  <1>4. DeskKnows(m)'
    BY <1>2, <1>3 DEF DeskKnows
  <1>5. DeskIsFresh(m)'
    BY <1>1, <1>2, <1>3 DEF DeskIsFresh
  <1> QED
    BY <1>1, <1>2, <1>4, <1>5, OneManager

LEMMA SaveTemplateStep ==
  ASSUME RosterInv, NEW t \in Templates, NEW x \in Slots \cup {NoSlot},
         SaveTemplate(t, x)
  PROVE  RosterInv'
  <1>1. /\ UNCHANGED <<slot, generated, booking, rules, moved, desk, raced>>
        /\ templates' \in [Templates -> Slots \cup {NoSlot}]
    BY DEF SaveTemplate, roster, context, RosterInv, RosterTyped
  <1> QED
    BY <1>1 DEF RosterInv, RosterTyped, DeskKnows, RosterFresh, OneAtATime,
                BookedOnce, FilledOnce, GeneratedFor, DeskIsFresh, Conflicts

\* A shift that is added has no booking and is not a generated one; the time of
\* a shift that is there may move, and then nothing is promised.
LEMMA ShiftStep ==
  ASSUME RosterInv, NEW s \in Shifts, NEW x \in Slots,
         AddShift(s, x) \/ MoveShift(s, x)
  PROVE  RosterInv'
  <1>1. /\ UNCHANGED <<templates, generated, booking, rules, desk, raced>>
        /\ slot' = [slot EXCEPT ![s] = x]
        /\ \/ moved'
           \/ slot[s] = NoSlot /\ moved' = moved
    BY DEF AddShift, MoveShift, context
  <1>2. /\ slot' \in [Shifts -> Slots \cup {NoSlot}] /\ slot'[s] = x /\ x # NoSlot
        /\ \A z \in Shifts : z # s => slot'[z] = slot[z]
    BY <1>1, SchedulingAssumption DEF RosterInv, RosterTyped
  <1>3. \A row \in Rows : row[1] \in Shifts
    BY DEF Rows
  <1>4. RosterTyped'
    BY <1>1, <1>2, <1>3 DEF RosterInv, RosterTyped
  <1>5. \A m \in Managers : DeskKnows(m)'
    BY <1>1, <1>2, <1>3 DEF RosterInv, DeskKnows
  <1>6. ASSUME ~ raced', ~ moved' PROVE RosterFresh'
    <2>1. RosterFresh /\ slot[s] = NoSlot
      BY <1>1, <1>6 DEF RosterInv
    <2>2. \A z \in Shifts : slot[z] # NoSlot => slot'[z] = slot[z]
      BY <1>2, <2>1
    <2>3. \A row \in Rows : booking[row] # "none" => slot'[row[1]] = slot[row[1]]
      BY <1>3, <2>2 DEF RosterInv, RosterTyped
    <2>4. \A z \in generated : slot'[z] = slot[z]
      BY <2>2 DEF RosterInv, RosterTyped
    <2>5. ASSUME NEW m \in Managers PROVE DeskIsFresh(m)'
      <3>1. DeskIsFresh(m) /\ DeskKnows(m)
        BY <2>1 DEF RosterFresh, RosterInv
      <3>2. desk[m].at \in {"assign", "book", "decide"} =>
              slot'[desk[m].row[1]] = slot[desk[m].row[1]]
        BY <1>3, <2>2, <3>1 DEF DeskKnows
      <3>3. desk[m].at = "book" =>
              Conflicts(desk[m].row, slot[desk[m].row[1]])'
                = Conflicts(desk[m].row, slot[desk[m].row[1]])
        BY <1>1, <2>3, <3>2 DEF Conflicts, Live
      <3> QED
        BY <1>1, <2>4, <3>1, <3>2, <3>3 DEF DeskIsFresh
    <2>6. BookedOnce'
      BY <1>1, <2>1, <2>3 DEF RosterFresh, BookedOnce, Live
    <2>7. \A y : GeneratedFor(y)' = GeneratedFor(y)
      BY <1>1, <2>4 DEF GeneratedFor
    <2>8. FilledOnce' /\ OneAtATime'
      BY <1>1, <2>1, <2>7 DEF RosterFresh, FilledOnce, OneAtATime
    <2> QED
      BY <2>5, <2>6, <2>8 DEF RosterFresh
  <1> QED
    BY <1>4, <1>5, <1>6 DEF RosterInv
\* The last step of a request that was alone leaves nobody with a read.
LEMMA LastOne ==
  ASSUME RosterFresh, NEW m \in Managers, desk[m] # Free, DOMAIN desk = Managers,
         desk' = [desk EXCEPT ![m] = Free]
  PROVE  /\ \A l \in Managers : desk'[l] = Free
         /\ OneAtATime' /\ \A l \in Managers : DeskIsFresh(l)'
  <1>1. \A l \in Managers : desk'[l] = Free
    BY DEF RosterFresh, OneAtATime
  <1> QED
    BY <1>1 DEF OneAtATime, DeskIsFresh, Free

LEMMA AssignInsertStep ==
  ASSUME RosterInv, NEW m \in Managers, AssignInsert(m)
  PROVE  RosterInv'
  <1>0. PICK row : row = desk[m].row
    OBVIOUS
  <1>1. /\ desk[m].at = "book" /\ booking[row] = "none"
        /\ booking' = [booking EXCEPT ![row] = "pending"]
        /\ desk' = [desk EXCEPT ![m] = Free]
        /\ UNCHANGED <<templates, slot, generated, rules, moved, raced>>
    BY <1>0 DEF AssignInsert, Close, Continue, context
  <1>2. /\ row \in Rows /\ slot[row[1]] # NoSlot /\ desk[m] # Free
        /\ desk'[m] = Free /\ DOMAIN desk' = Managers
        /\ \A l \in Managers : l # m => desk'[l] = desk[l]
    BY <1>0, <1>1 DEF RosterInv, RosterTyped, DeskKnows, Free
  <1>3. /\ booking'[row] = "pending"
        /\ \A other \in Rows : other # row => booking'[other] = booking[other]
    BY <1>1, <1>2 DEF RosterInv, RosterTyped
  <1>4. RosterTyped'
    BY <1>1, <1>2, <1>3 DEF RosterInv, RosterTyped
  <1>5. \A l \in Managers : DeskKnows(l)'
    BY <1>1, <1>2 DEF RosterInv, DeskKnows, Free
  <1>6. ASSUME ~ raced', ~ moved' PROVE RosterFresh'
    <2>1. RosterFresh
      BY <1>1, <1>6 DEF RosterInv
    <2>2. OneAtATime' /\ \A l \in Managers : DeskIsFresh(l)'
      BY <1>1, <1>2, <2>1, LastOne DEF RosterInv, RosterTyped
    <2>3. FilledOnce'
      BY <1>1, <2>1 DEF RosterFresh, FilledOnce, GeneratedFor
    <2>4. ASSUME rules.conflicts, NEW other \in Rows, other[1] # row[1],
                 other[2] = row[2], booking[other] \in Live
          PROVE  /\ <<slot[other[1]], slot[row[1]]>> \notin Overlapping
                 /\ <<slot[row[1]], slot[other[1]]>> \notin Overlapping
      <3>1. Conflicts(row, slot[row[1]]) = {}
        BY <1>0, <1>1, <2>1, <2>4 DEF RosterFresh, DeskIsFresh
      <3>2. <<slot[other[1]], slot[row[1]]>> \notin Overlapping
        BY <2>4, <3>1 DEF Conflicts
      <3> QED
        BY <3>2, SchedulingAssumption
    <2>5. BookedOnce'
      BY <1>1, <1>3, <2>1, <2>4 DEF RosterFresh, BookedOnce, Live
    <2> QED
      BY <2>2, <2>3, <2>5 DEF RosterFresh
  <1> QED
    BY <1>4, <1>5, <1>6 DEF RosterInv

\* Only a live row becomes a live row.
LEMMA DecideWriteStep ==
  ASSUME RosterInv, NEW m \in Managers,
         NEW to \in {"approved", "declined", "cancelled"}, DecideWrite(m, to)
  PROVE  RosterInv'
  <1>0. PICK row : row = desk[m].row
    OBVIOUS
  <1>1. /\ desk[m].at = "decide" /\ CanTransitionAssignment(desk[m].status, to)
        /\ booking' = [booking EXCEPT ![row] = to]
        /\ desk' = [desk EXCEPT ![m] = Free]
        /\ UNCHANGED <<templates, slot, generated, rules, moved, raced>>
    BY <1>0 DEF DecideWrite, Close, Continue, context
  <1>2. /\ row \in Rows /\ slot[row[1]] # NoSlot /\ desk[m] # Free
        /\ desk'[m] = Free /\ DOMAIN desk' = Managers
        /\ \A l \in Managers : l # m => desk'[l] = desk[l]
    BY <1>0, <1>1 DEF RosterInv, RosterTyped, DeskKnows, Free
  <1>3. /\ booking'[row] = to
        /\ \A other \in Rows : other # row => booking'[other] = booking[other]
    BY <1>1, <1>2 DEF RosterInv, RosterTyped
  <1>4. RosterTyped'
    BY <1>1, <1>2, <1>3 DEF RosterInv, RosterTyped
  <1>5. \A l \in Managers : DeskKnows(l)'
    BY <1>1, <1>2 DEF RosterInv, DeskKnows, Free
  <1>6. ASSUME ~ raced', ~ moved' PROVE RosterFresh'
    <2>1. RosterFresh
      BY <1>1, <1>6 DEF RosterInv
    <2>2. OneAtATime' /\ \A l \in Managers : DeskIsFresh(l)'
      BY <1>1, <1>2, <2>1, LastOne DEF RosterInv, RosterTyped
    <2>3. FilledOnce'
      BY <1>1, <2>1 DEF RosterFresh, FilledOnce, GeneratedFor
    <2>4. to \in Live => booking[row] \in Live
      BY <1>0, <1>1, <2>1 DEF RosterFresh, DeskIsFresh,
                              CanTransitionAssignment, Live
    <2>5. \A other \in Rows : booking'[other] \in Live => booking[other] \in Live
      BY <1>3, <2>4
    <2>6. BookedOnce'
      BY <1>1, <2>1, <2>5 DEF RosterFresh, BookedOnce
    <2> QED
      BY <2>2, <2>3, <2>6 DEF RosterFresh
  <1> QED
    BY <1>4, <1>5, <1>6 DEF RosterInv

\* A slot that generate fills had no generated shift, and gets one per template
\* at most.
LEMMA GenerateInsertStep ==
  ASSUME RosterInv, NEW m \in Managers, GenerateInsert(m)
  PROVE  RosterInv'
  <1>0. PICK slots : slots = desk[m].slots
    OBVIOUS
  <1> DEFINE D == DOMAIN slots
  <1>1. /\ desk[m].at = "insert" /\ desk' = [desk EXCEPT ![m] = Free]
        /\ UNCHANGED <<templates, booking, rules, moved, raced>>
    BY DEF GenerateInsert, Close, Continue, context
  <1>2. PICK ids, f :
          /\ ids \subseteq {s \in Shifts : slot[s] = NoSlot}
          /\ f \in Bijection(ids, D)
          /\ slot' = [s \in Shifts |-> IF s \in ids THEN slots[f[s]] ELSE slot[s]]
          /\ generated' = generated \cup ids
    BY <1>0 DEF GenerateInsert, kSubset
  <1>3. /\ D \subseteq Templates /\ slots \in [D -> Slots] /\ desk[m] # Free
        /\ desk'[m] = Free /\ DOMAIN desk' = Managers
        /\ \A l \in Managers : l # m => desk'[l] = desk[l]
    BY <1>0, <1>1 DEF RosterInv, RosterTyped, DeskKnows, Free
  <1>4. /\ f \in [ids -> D]
        /\ \A a, b \in ids : f[a] = f[b] => a = b
    BY <1>2 DEF Bijection, Injection, IsInjective
  <1>5. /\ slot' \in [Shifts -> Slots \cup {NoSlot}]
        /\ \A s \in ids : slot'[s] = slots[f[s]] /\ slot'[s] \in Slots
        /\ \A s \in Shifts : slot[s] # NoSlot => slot'[s] = slot[s]
    BY <1>2, <1>3, <1>4 DEF RosterInv, RosterTyped
  <1>6. \A row \in Rows : row[1] \in Shifts
    BY DEF Rows
  <1>7. \A row \in Rows : booking[row] # "none" => slot'[row[1]] = slot[row[1]]
    BY <1>5, <1>6 DEF RosterInv, RosterTyped
  <1>8. RosterTyped'
    <2>1. RosterTyped
      BY DEF RosterInv
    <2>2. generated' \subseteq {s \in Shifts : slot'[s] # NoSlot}
      <3>1. \A s \in ids : slot'[s] # NoSlot
        BY <1>5, SchedulingAssumption
      <3> QED
        BY <1>2, <1>5, <2>1, <3>1 DEF RosterTyped
    <2>3. \A row \in Rows : booking'[row] # "none" => slot'[row[1]] # NoSlot
      BY <1>1, <1>7, <2>1 DEF RosterTyped
    <2> QED
      BY <1>1, <1>3, <1>5, <2>1, <2>2, <2>3 DEF RosterTyped
  <1>9. \A l \in Managers : DeskKnows(l)'
    BY <1>1, <1>3, <1>5, <1>6 DEF RosterInv, DeskKnows, Free
  <1>10. ASSUME ~ raced', ~ moved' PROVE RosterFresh'
    <2>1. RosterFresh
      BY <1>1, <1>10 DEF RosterInv
    <2>2. OneAtATime' /\ \A l \in Managers : DeskIsFresh(l)'
      BY <1>1, <1>3, <2>1, LastOne DEF RosterInv, RosterTyped
    <2>3. BookedOnce'
      BY <1>1, <1>7, <2>1 DEF RosterFresh, BookedOnce, Live
    <2>4. ASSUME NEW x \in Slots
          PROVE  /\ IsFiniteSet(GeneratedFor(x)')
                 /\ Cardinality(GeneratedFor(x)') <= Cardinality(Templates)
      <3> DEFINE New == {s \in ids : slots[f[s]] = x}
      <3>1. \A s \in generated : s \in Shifts /\ s \notin ids /\ slot'[s] = slot[s]
        BY <1>2, <1>5 DEF RosterInv, RosterTyped
      <3>2. GeneratedFor(x)' = GeneratedFor(x) \cup New
        BY <1>2, <1>5, <3>1 DEF GeneratedFor
      <3>3. CASE New = {}
        BY <2>1, <3>2, <3>3 DEF RosterFresh, FilledOnce
      <3>4. CASE New # {}
        <4>1. \A s \in generated, t \in D : slot[s] # slots[t]
          BY <1>0, <1>1, <2>1 DEF RosterFresh, DeskIsFresh
        <4>2. GeneratedFor(x) = {}
          BY <1>4, <3>4, <4>1 DEF GeneratedFor
        <4>3. GeneratedFor(x)' = New
          BY <3>2, <4>2
        <4> DEFINE g == [s \in New |-> f[s]]
        <4>4. g \in [New -> Templates] /\ \A a, b \in New : g[a] = g[b] => a = b
          BY <1>3, <1>4
        <4>5. g \in Injection(New, Templates)
          BY <4>4 DEF Injection, IsInjective
        <4>6. IsFiniteSet(New) /\ Cardinality(New) <= Cardinality(Templates)
          BY <4>5, SchedulingAssumption, FS_Injection
        <4> QED
          BY <4>3, <4>6
      <3> QED
        BY <3>3, <3>4
    <2>5. FilledOnce'
      BY <2>4 DEF FilledOnce
    <2> QED
      BY <2>2, <2>3, <2>5 DEF RosterFresh
  <1> QED
    BY <1>8, <1>9, <1>10 DEF RosterInv

LEMMA RosterInit == SchedulingInit => RosterInv
  <1> SUFFICES ASSUME SchedulingInit PROVE RosterInv
    OBVIOUS
  <1>1. \A m \in Managers : desk[m] = Free
    BY DEF SchedulingInit
  <1>2. \A x : IsFiniteSet(GeneratedFor(x)) /\ Cardinality(GeneratedFor(x)) = 0
    BY FS_EmptySet DEF SchedulingInit, GeneratedFor
  <1>3. Cardinality(Templates) \in Nat
    BY FS_CardinalityType, SchedulingAssumption
  <1>4. FilledOnce
    BY <1>2, <1>3 DEF FilledOnce
  <1> QED
    BY <1>1, <1>4 DEF SchedulingInit, RosterInv, RosterTyped, RosterFresh,
                      OneAtATime, BookedOnce, DeskKnows, DeskIsFresh, Free,
                      Live

LEMMA RosterStep == RosterInv /\ [SchedulingNext]_schedulingVars => RosterInv'
  <1> SUFFICES ASSUME RosterInv, [SchedulingNext]_schedulingVars PROVE RosterInv'
    OBVIOUS
  <1>1. CASE SchedulingNext
    <2>1. CASE CreatePeriod
      BY <2>1 DEF CreatePeriod, roster, context, RosterInv, RosterTyped,
                  DeskKnows, RosterFresh, OneAtATime, BookedOnce, FilledOnce,
                  GeneratedFor, DeskIsFresh, Conflicts
    <2> QED
      BY <1>1, <2>1, SaveTemplateStep, ShiftStep, PeriodRequestStep,
         RowRequestStep, GenerateReadStep, GenerateInsertStep,
         AssignInsertStep, DecideWriteStep
         DEF SchedulingNext
  <1>2. CASE UNCHANGED schedulingVars
    BY <1>2 DEF schedulingVars, RosterInv, RosterTyped, DeskKnows, RosterFresh,
                OneAtATime, BookedOnce, FilledOnce, GeneratedFor, DeskIsFresh,
                Conflicts
  <1> QED
    BY <1>1, <1>2
-----------------------------------------------------------------------------
\* Communications: the publication of a message and its recipients.

Postings == [at : {"audiences", "context", "stamp", "job"}, message : Messages,
             window : BOOLEAN, to : SUBSET Targets]

\* Whom the compliance report counts.
Counted(m) == ResolveMessageAudience(audiences[m], FALSE)

\* A publisher works on a message that is there, and inserts the job of one
\* that is published.
PostingHolds(d) ==
  posting[d] # Vacant =>
    /\ posting[d] \in Postings
    /\ messages[posting[d].message] # "none"
    /\ posting[d].at = "job" => messages[posting[d].message] = "published"
    /\ posting[d].at \in {"stamp", "job"} => posting[d].to \subseteq Members

\* A message of which no two publications overlapped has no job before its
\* publisher inserts one.
NotRushed(m) ==
  m \notin rushed =>
    /\ \A c, d \in Desks : Publishing(c, m) /\ Publishing(d, m) => c = d
    /\ \A d \in Desks : Publishing(d, m) => jobs[m] = <<>>

\* Until the audience or a roster it names changes, what a publisher holds, and
\* what a job was given, covers whom the report counts.
Covered(m) ==
  m \notin late =>
    /\ \A i \in DOMAIN jobs[m] : Counted(m) \subseteq jobs[m][i]
    /\ \A d \in Desks : Publishing(d, m) =>
         /\ posting[d].at = "context" => posting[d].to = audiences[m]
         /\ posting[d].at \in {"stamp", "job"} => Counted(m) \subseteq posting[d].to

MessagesTyped ==
  /\ messages \in [Messages -> {"none", "draft", "published"}]
  /\ audiences \in [Messages -> SUBSET Targets]
  /\ staff \in [Groups \cup ShiftCrews -> SUBSET Members]
  /\ jobs \in [Messages -> Seq(SUBSET Members)]
  /\ DOMAIN posting = Desks

MessagesInv ==
  /\ MessagesTyped
  /\ \A d \in Desks : PostingHolds(d)
  /\ PublishedOnce
  /\ \A m \in Messages : NotRushed(m) /\ Covered(m)

\* The audience of a publication covers that of the report, which leaves the
\* shifts out, and is made of members.
LEMMA ReportCountsFewer ==
  ASSUME MessagesTyped, NEW rows, NEW window \in BOOLEAN
  PROVE  /\ ResolveMessageAudience(rows, FALSE)
              \subseteq ResolveMessageAudience(rows, window)
         /\ ResolveMessageAudience(rows, window) \subseteq Members
  <1> DEFINE A == UNION {staff[g] : g \in rows \cap Groups}
             B == UNION {staff[g] : g \in IF window THEN rows \cap ShiftCrews
                                                    ELSE {}}
  <1>1. \A g \in Groups \cup ShiftCrews : staff[g] \subseteq Members
    BY DEF MessagesTyped
  <1>2. ResolveMessageAudience(rows, FALSE) = (rows \cap Members) \cup A
    BY DEF ResolveMessageAudience
  <1>3. ResolveMessageAudience(rows, window) = (rows \cap Members) \cup A \cup B
    BY Zenon DEF ResolveMessageAudience
  <1>4. A \subseteq Members
    BY <1>1
  <1>5. B \subseteq Members
    <2>1. \A g \in IF window THEN rows \cap ShiftCrews ELSE {} :
            staff[g] \subseteq Members
      BY <1>1
    <2> QED
      BY <2>1
  <1> HIDE DEF A, B
  <1> QED
    BY <1>2, <1>3, <1>4, <1>5

\* Receipts, acknowledgements and device tokens touch nothing of this.
LEMMA MarksStep ==
  ASSUME MessagesInv,
         UNCHANGED <<messages, audiences, staff, jobs, posting, rushed, muted, late>>
  PROVE  MessagesInv'
  BY DEF MessagesInv, MessagesTyped, PostingHolds, PublishedOnce, NotRushed,
         Covered, Counted, ResolveMessageAudience, Publishing

LEMMA CreateMessageStep ==
  ASSUME MessagesInv, NEW m \in Messages, NEW now \in BOOLEAN,
         CreateMessage(m, now)
  PROVE  MessagesInv'
  <1>1. /\ messages[m] = "none"
        /\ messages' = [messages EXCEPT ![m] = IF now THEN "published" ELSE "draft"]
        /\ muted' = IF now THEN muted \cup {m} ELSE muted
        /\ UNCHANGED <<audiences, staff, jobs, posting, rushed, late>>
    BY DEF CreateMessage
  <1>2. /\ messages'[m] = IF now THEN "published" ELSE "draft"
        /\ \A n \in Messages : n # m => messages'[n] = messages[n]
    BY <1>1 DEF MessagesInv, MessagesTyped
  <1>3. MessagesTyped'
    BY <1>1, <1>2 DEF MessagesInv, MessagesTyped
  <1>4. \A d \in Desks : ~ Publishing(d, m)
    BY <1>1 DEF MessagesInv, PostingHolds, Publishing
  <1>5. \A d \in Desks : PostingHolds(d)'
    BY <1>1, <1>2 DEF MessagesInv, PostingHolds, Postings
  <1>6. PublishedOnce'
    BY <1>1, <1>2 DEF MessagesInv, PublishedOnce, Publishing
  <1>7. \A n \in Messages : NotRushed(n)' /\ Covered(n)'
    BY <1>1 DEF MessagesInv, NotRushed, Covered, Counted,
                ResolveMessageAudience, Publishing
  <1> QED
    BY <1>3, <1>5, <1>6, <1>7 DEF MessagesInv

\* A message that counts on its audience is late once the audience grows; one
\* that does not has neither a publisher nor a job.
LEMMA AddAudiencesStep ==
  ASSUME MessagesInv, NEW m \in Messages, NEW rows \in SUBSET Targets,
         AddAudiences(m, rows)
  PROVE  MessagesInv'
  <1>1. /\ audiences' = [audiences EXCEPT ![m] = @ \cup rows]
        /\ late' = IF m \in Addressed THEN late \cup {m} ELSE late
        /\ UNCHANGED <<messages, staff, jobs, posting, rushed, muted>>
    BY DEF AddAudiences
  <1>2. \A n \in Messages : n # m => audiences'[n] = audiences[n]
    BY <1>1 DEF MessagesInv, MessagesTyped
  <1>3. MessagesTyped'
    BY <1>1 DEF MessagesInv, MessagesTyped
  <1>4. ASSUME NEW n \in Messages PROVE Covered(n)'
    <2>1. CASE n # m
      BY <1>1, <1>2, <2>1 DEF MessagesInv, Covered, Counted,
                              ResolveMessageAudience, Publishing
    <2>2. CASE n = m /\ m \in Addressed
      BY <1>1, <2>2 DEF Covered
    <2>3. CASE n = m /\ m \notin Addressed
      <3>1. jobs[m] = <<>> /\ \A d \in Desks : ~ Publishing(d, m)
        BY <2>3 DEF MessagesInv, PublishedOnce, Addressed
      <3> QED
        BY <1>1, <2>3, <3>1 DEF Covered, Publishing
    <2> QED
      BY <2>1, <2>2, <2>3
  <1>5. PublishedOnce' /\ \A d \in Desks : PostingHolds(d)'
    BY <1>1 DEF MessagesInv, PublishedOnce, PostingHolds, Publishing
  <1>6. \A n \in Messages : NotRushed(n)'
    BY <1>1 DEF MessagesInv, NotRushed, Publishing
  <1> QED
    BY <1>3, <1>4, <1>5, <1>6 DEF MessagesInv

LEMMA ChangeStaffStep ==
  ASSUME MessagesInv, NEW g \in Groups \cup ShiftCrews, NEW who \in SUBSET Members,
         ChangeStaff(g, who)
  PROVE  MessagesInv'
  <1>1. /\ staff' = [staff EXCEPT ![g] = who]
        /\ late' = late \cup {m \in Addressed : g \in audiences[m]}
        /\ UNCHANGED <<messages, audiences, jobs, posting, rushed, muted>>
    BY DEF ChangeStaff, messageVars
  <1>2. \A h \in Groups \cup ShiftCrews : h # g => staff'[h] = staff[h]
    BY <1>1 DEF MessagesInv, MessagesTyped
  <1>3. MessagesTyped'
    BY <1>1 DEF MessagesInv, MessagesTyped
  <1>4. ASSUME NEW n \in Messages PROVE Covered(n)'
    <2>1. CASE n \in Addressed /\ g \in audiences[n]
      BY <1>1, <2>1 DEF Covered
    <2>2. CASE n \notin Addressed
      <3>1. jobs[n] = <<>> /\ \A d \in Desks : ~ Publishing(d, n)
        BY <2>2 DEF MessagesInv, PublishedOnce, Addressed
      <3> QED
        BY <1>1, <3>1 DEF Covered, Publishing
    <2>3. CASE g \notin audiences[n]
      <3>1. Counted(n)' = Counted(n)
        BY <1>1, <1>2, <2>3 DEF Counted, ResolveMessageAudience
      <3> QED
        BY <1>1, <3>1 DEF MessagesInv, Covered, Publishing
    <2> QED
      BY <2>1, <2>2, <2>3
  <1>5. PublishedOnce' /\ \A d \in Desks : PostingHolds(d)'
    BY <1>1 DEF MessagesInv, PublishedOnce, PostingHolds, Publishing
  <1>6. \A n \in Messages : NotRushed(n)'
    BY <1>1 DEF MessagesInv, NotRushed, Publishing
  <1> QED
    BY <1>3, <1>4, <1>5, <1>6 DEF MessagesInv

LEMMA LoadMessageStep ==
  ASSUME MessagesInv, NEW d \in Desks, NEW m \in Messages, NEW window \in BOOLEAN,
         LoadMessage(d, m, window)
  PROVE  MessagesInv'
  <1> DEFINE r == [at |-> "audiences", message |-> m, window |-> window, to |-> {}]
  <1>1. /\ posting[d] = Vacant /\ messages[m] = "draft"
        /\ posting' = [posting EXCEPT ![d] = r]
        /\ rushed' = IF \E o \in Desks : Publishing(o, m) THEN rushed \cup {m}
                                                          ELSE rushed
        /\ UNCHANGED <<messages, audiences, staff, jobs, muted, late>>
    BY DEF LoadMessage, messageVars
  <1>2. /\ posting'[d] = r /\ DOMAIN posting' = Desks
        /\ \A c \in Desks : c # d => posting'[c] = posting[c]
    BY <1>1 DEF MessagesInv, MessagesTyped
  <1>3. MessagesTyped'
    BY <1>1, <1>2 DEF MessagesInv, MessagesTyped
  <1>4. \A c \in Desks : PostingHolds(c)'
    <2>1. r \in Postings
      BY DEF Postings
    <2> QED
      BY <1>1, <1>2, <2>1 DEF MessagesInv, PostingHolds
  <1>5. \A c \in Desks, n \in Messages :
          /\ c # d => (Publishing(c, n)' <=> Publishing(c, n))
          /\ Publishing(d, n)' => n = m
    BY <1>2 DEF Publishing
  <1>6. PublishedOnce'
    <2>1. ASSUME NEW n \in Messages, NEW c \in Desks, Publishing(c, n),
                 posting[c].at = "job"
          PROVE  Publishing(c, n)' /\ posting'[c].at = "job"
      BY <1>1, <1>2, <2>1 DEF Publishing
    <2> QED
      BY <1>1, <2>1 DEF MessagesInv, PublishedOnce
  <1>7. jobs[m] = <<>>
    BY <1>1 DEF MessagesInv, PublishedOnce
  <1>8. \A n \in Messages : NotRushed(n)'
    BY <1>1, <1>5, <1>7 DEF MessagesInv, NotRushed
  <1>9. ASSUME NEW n \in Messages PROVE Covered(n)'
    <2>1. Counted(n)' = Counted(n)
      BY <1>1 DEF Counted, ResolveMessageAudience
    <2> QED
      BY <1>1, <1>2, <1>5, <2>1 DEF MessagesInv, Covered
  <1> QED
    BY <1>3, <1>4, <1>6, <1>8, <1>9 DEF MessagesInv

\* A publisher goes on with the same message, or leaves, and writes nothing.
LEMMA PublisherMoves ==
  ASSUME MessagesInv, NEW d \in Desks, NEW r,
         posting[d] # Vacant, posting' = [posting EXCEPT ![d] = r],
         UNCHANGED <<messages, audiences, staff, jobs, rushed, late>>,
         muted' = IF posting[d].at = "job" THEN muted \cup {posting[d].message} ELSE muted,
         PostingHolds(d)',
         r # Vacant => r.message = posting[d].message,
         r # Vacant /\ posting[d].message \notin late =>
           /\ r.at = "context" => r.to = audiences[r.message]
           /\ r.at \in {"stamp", "job"} => Counted(r.message) \subseteq r.to
  PROVE  MessagesInv'
  <1>1. /\ posting'[d] = r /\ DOMAIN posting' = Desks
        /\ \A c \in Desks : c # d => posting'[c] = posting[c]
    BY DEF MessagesInv, MessagesTyped
  <1>2. \A c \in Desks : PostingHolds(c)'
    BY <1>1 DEF MessagesInv, PostingHolds
  <1>3. \A c \in Desks, n \in Messages :
          /\ c # d => (Publishing(c, n)' <=> Publishing(c, n))
          /\ Publishing(d, n)' => Publishing(d, n)
    BY <1>1 DEF Publishing
  <1>4. PublishedOnce'
    <2>1. ASSUME NEW n \in Messages, messages[n] = "published"
          PROVE  \/ n \in muted' \/ jobs[n] # <<>>
                 \/ \E c \in Desks : Publishing(c, n)' /\ posting'[c].at = "job"
      <3>1. ASSUME NEW c \in Desks, Publishing(c, n), posting[c].at = "job"
            PROVE  n \in muted' \/ (Publishing(c, n)' /\ posting'[c].at = "job")
        <4>1. CASE c = d
          BY <3>1, <4>1 DEF Publishing
        <4>2. CASE c # d
          BY <1>1, <1>3, <3>1, <4>2
        <4> QED
          BY <4>1, <4>2
      <3>2. muted \subseteq muted'
        OBVIOUS
      <3> QED
        BY <2>1, <3>1, <3>2 DEF MessagesInv, PublishedOnce
    <2> QED
      BY <2>1 DEF MessagesInv, PublishedOnce
  <1>5. \A n \in Messages : NotRushed(n)'
    BY <1>3 DEF MessagesInv, NotRushed
  <1>6. ASSUME NEW n \in Messages PROVE Covered(n)'
    <2>1. Counted(n)' = Counted(n)
      BY DEF Counted, ResolveMessageAudience
    <2>2. ASSUME n \notin late, Publishing(d, n)'
          PROVE  /\ r.at = "context" => r.to = audiences[n]
                 /\ r.at \in {"stamp", "job"} => Counted(n) \subseteq r.to
      BY <1>1, <2>2 DEF Publishing
    <2>3. ASSUME n \notin late, NEW c \in Desks, c # d, Publishing(c, n)'
          PROVE  /\ posting'[c].at = "context" => posting'[c].to = audiences[n]
                 /\ posting'[c].at \in {"stamp", "job"} =>
                      Counted(n) \subseteq posting'[c].to
      BY <1>1, <1>3, <2>3 DEF MessagesInv, Covered
    <2> QED
      BY <1>1, <2>1, <2>2, <2>3 DEF MessagesInv, Covered
  <1>7. MessagesTyped'
    BY <1>1 DEF MessagesInv, MessagesTyped
  <1> QED
    BY <1>2, <1>4, <1>5, <1>6, <1>7 DEF MessagesInv

LEMMA PublisherReadsStep ==
  ASSUME MessagesInv, NEW d \in Desks,
         \/ ReadAudiences(d) \/ LoadAudienceResolutionContext(d) \/ LeaveDesk(d)
  PROVE  MessagesInv'
  <1> DEFINE m == posting[d].message
  <1>1. CASE ReadAudiences(d)
    <2> DEFINE r == [posting[d] EXCEPT !.at = "context", !.to = audiences[m]]
    <2>1. /\ posting[d].at = "audiences" /\ posting' = [posting EXCEPT ![d] = r]
          /\ UNCHANGED <<messages, audiences, staff, jobs, rushed, late, muted>>
      BY <1>1 DEF ReadAudiences, Goes, messageVars
    <2>2. posting[d] # Vacant /\ posting[d] \in Postings /\ messages[m] # "none"
      BY <2>1 DEF MessagesInv, PostingHolds, Vacant
    <2>3. /\ r \in Postings /\ r.at = "context" /\ r.message = m
          /\ r.to = audiences[m] /\ posting'[d] = r
      BY <2>1, <2>2 DEF MessagesInv, MessagesTyped, Postings
    <2>4. PostingHolds(d)'
      BY <2>1, <2>2, <2>3 DEF PostingHolds
    <2> HIDE DEF r
    <2> QED
      BY <2>1, <2>2, <2>3, <2>4, PublisherMoves
  <1>2. CASE LoadAudienceResolutionContext(d)
    <2> DEFINE to == ResolveMessageAudience(posting[d].to, posting[d].window)
               r  == [posting[d] EXCEPT !.at = "stamp", !.to = to]
    <2>1. /\ posting[d].at = "context" /\ posting' = [posting EXCEPT ![d] = r]
          /\ UNCHANGED <<messages, audiences, staff, jobs, rushed, late, muted>>
      BY <1>2 DEF LoadAudienceResolutionContext, Goes, messageVars
    <2>2. posting[d] # Vacant /\ posting[d] \in Postings /\ messages[m] # "none"
      BY <2>1 DEF MessagesInv, PostingHolds, Vacant
    <2>3. /\ to \subseteq Members
          /\ ResolveMessageAudience(posting[d].to, FALSE) \subseteq to
      BY <2>2, ReportCountsFewer DEF MessagesInv, Postings
    <2>4. /\ r \in Postings /\ r.at = "stamp" /\ r.message = m
          /\ r.to = to /\ posting'[d] = r
      BY <2>1, <2>2, <2>3 DEF MessagesInv, MessagesTyped, Postings, Targets
    <2>5. PostingHolds(d)'
      BY <2>1, <2>2, <2>3, <2>4 DEF PostingHolds
    <2>6. m \notin late => Counted(m) \subseteq to
      <3>1. m \in Messages /\ Publishing(d, m)
        BY <2>2 DEF Postings, Publishing
      <3>2. m \notin late => posting[d].to = audiences[m]
        BY <2>1, <3>1 DEF MessagesInv, Covered
      <3> QED
        BY <2>3, <3>2 DEF Counted
    <2> HIDE DEF r, to
    <2> QED
      BY <2>1, <2>2, <2>4, <2>5, <2>6, PublisherMoves
  <1>3. CASE LeaveDesk(d)
    <2>1. /\ posting[d] # Vacant /\ posting' = [posting EXCEPT ![d] = Vacant]
          /\ UNCHANGED <<messages, audiences, staff, jobs, rushed, late>>
          /\ muted' = IF posting[d].at = "job" THEN muted \cup {m} ELSE muted
      BY <1>3 DEF LeaveDesk, Goes, messageVars
    <2>2. PostingHolds(d)'
      BY <2>1 DEF MessagesInv, MessagesTyped, PostingHolds
    <2> QED
      BY <2>1, <2>2, PublisherMoves
  <1> QED
    BY <1>1, <1>2, <1>3

\* The stamp is by id: it may repeat one that another publisher set.
LEMMA StampPublishedStep ==
  ASSUME MessagesInv, NEW d \in Desks, StampPublished(d)
  PROVE  MessagesInv'
  <1>0. PICK m : m = posting[d].message
    OBVIOUS
  <1> DEFINE r == [posting[d] EXCEPT !.at = "job"]
  <1>1. /\ posting[d].at = "stamp" /\ posting' = [posting EXCEPT ![d] = r]
        /\ messages' = [messages EXCEPT ![m] = "published"]
        /\ UNCHANGED <<audiences, staff, jobs, rushed, late, muted>>
    BY <1>0 DEF StampPublished, Goes
  <1>2. /\ posting[d] # Vacant /\ posting[d] \in Postings /\ m \in Messages
        /\ posting[d].to \subseteq Members
    BY <1>0, <1>1 DEF MessagesInv, PostingHolds, Vacant, Postings
  <1>3. /\ posting'[d] = r /\ DOMAIN posting' = Desks
        /\ \A c \in Desks : c # d => posting'[c] = posting[c]
        /\ messages'[m] = "published"
        /\ \A n \in Messages : n # m => messages'[n] = messages[n]
    BY <1>1, <1>2 DEF MessagesInv, MessagesTyped
  <1>4. /\ r \in Postings /\ r.at = "job" /\ r.message = m
        /\ r.to = posting[d].to /\ r # Vacant
    BY <1>0, <1>2 DEF Postings, Vacant
  <1>5. \A c \in Desks : PostingHolds(c)'
    BY <1>2, <1>3, <1>4 DEF MessagesInv, PostingHolds, Postings
  <1>6. \A c \in Desks, n \in Messages : Publishing(c, n)' <=> Publishing(c, n)
    <2> HIDE DEF r
    <2>1. ASSUME NEW n \in Messages PROVE Publishing(d, n)' <=> Publishing(d, n)
      BY <1>0, <1>2, <1>3, <1>4 DEF Publishing
    <2>2. ASSUME NEW c \in Desks, c # d, NEW n \in Messages
          PROVE  Publishing(c, n)' <=> Publishing(c, n)
      BY <1>3, <2>2 DEF Publishing
    <2> QED
      BY <2>1, <2>2
  <1>7. PublishedOnce'
    <2>1. Publishing(d, m)' /\ posting'[d].at = "job"
      BY <1>3, <1>4 DEF Publishing
    <2>2. ASSUME NEW n \in Messages, NEW c \in Desks, Publishing(c, n),
                 posting[c].at = "job"
          PROVE  Publishing(c, n)' /\ posting'[c].at = "job"
      BY <1>1, <1>3, <1>6, <2>2
    <2> QED
      BY <1>1, <1>3, <2>1, <2>2 DEF MessagesInv, PublishedOnce
  <1>8. \A n \in Messages : NotRushed(n)'
    BY <1>1, <1>6 DEF MessagesInv, NotRushed
  <1>9. ASSUME NEW n \in Messages PROVE Covered(n)'
    <2>1. Counted(n)' = Counted(n)
      BY <1>1 DEF Counted, ResolveMessageAudience
    <2> HIDE DEF r
    <2> QED
      BY <1>1, <1>3, <1>4, <1>6, <2>1 DEF MessagesInv, Covered
  <1>10. MessagesTyped'
    BY <1>1, <1>2, <1>3 DEF MessagesInv, MessagesTyped
  <1> QED
    BY <1>5, <1>7, <1>8, <1>9, <1>10 DEF MessagesInv

\* A second job takes a second publisher.
LEMMA InsertJobStep ==
  ASSUME MessagesInv, NEW d \in Desks, InsertJob(d)
  PROVE  MessagesInv'
  <1>0. PICK m, to : m = posting[d].message /\ to = posting[d].to
    OBVIOUS
  <1>1. /\ posting[d].at = "job" /\ posting' = [posting EXCEPT ![d] = Vacant]
        /\ jobs' = [jobs EXCEPT ![m] = Append(jobs[m], to)]
        /\ UNCHANGED <<messages, audiences, staff, rushed, late, muted>>
    BY <1>0 DEF InsertJob, Goes
  <1>2. /\ posting[d] # Vacant /\ m \in Messages /\ to \subseteq Members
        /\ messages[m] = "published" /\ jobs[m] \in Seq(SUBSET Members)
        /\ Publishing(d, m)
    BY <1>0, <1>1 DEF MessagesInv, MessagesTyped, PostingHolds, Vacant,
                      Postings, Publishing
  <1>3. /\ posting'[d] = Vacant /\ DOMAIN posting' = Desks
        /\ \A c \in Desks : c # d => posting'[c] = posting[c]
        /\ jobs'[m] = Append(jobs[m], to)
        /\ \A n \in Messages : n # m => jobs'[n] = jobs[n]
    BY <1>1, <1>2 DEF MessagesInv, MessagesTyped
  <1>4. /\ Append(jobs[m], to) \in Seq(SUBSET Members)
        /\ Append(jobs[m], to) # <<>>
        /\ Len(jobs[m]) \in Nat /\ Len(Append(jobs[m], to)) = Len(jobs[m]) + 1
        /\ DOMAIN Append(jobs[m], to) = 1 .. Len(jobs[m]) + 1
        /\ DOMAIN jobs[m] = 1 .. Len(jobs[m])
        /\ Append(jobs[m], to)[Len(jobs[m]) + 1] = to
        /\ \A i \in 1 .. Len(jobs[m]) : Append(jobs[m], to)[i] = jobs[m][i]
    BY <1>2
  <1>5. MessagesTyped'
    BY <1>1, <1>2, <1>3, <1>4 DEF MessagesInv, MessagesTyped
  <1>6. \A c \in Desks : PostingHolds(c)'
    BY <1>1, <1>3 DEF MessagesInv, PostingHolds
  <1>7. \A c \in Desks, n \in Messages :
          /\ c # d => (Publishing(c, n)' <=> Publishing(c, n))
          /\ ~ Publishing(d, n)'
    BY <1>3 DEF Publishing
  <1>8. PublishedOnce'
    <2>1. ASSUME NEW n \in Messages, n # m
          PROVE  /\ messages'[n] # "published" => jobs'[n] = <<>>
                 /\ messages'[n] = "published" =>
                      \/ n \in muted' \/ jobs'[n] # <<>>
                      \/ \E c \in Desks : Publishing(c, n)' /\ posting'[c].at = "job"
                 /\ Len(jobs'[n]) > 1 => n \in rushed'
      <3>1. ~ Publishing(d, n)
        BY <1>0, <2>1 DEF Publishing
      <3>2. \A c \in Desks : Publishing(c, n) /\ posting[c].at = "job" =>
              Publishing(c, n)' /\ posting'[c].at = "job"
        BY <1>3, <1>7, <3>1
      <3> QED
        BY <1>1, <1>3, <2>1, <3>2 DEF MessagesInv, PublishedOnce
    <2>2. Len(jobs'[m]) > 1 => m \in rushed
      <3>1. m \notin rushed => jobs[m] = <<>>
        BY <1>2 DEF MessagesInv, NotRushed
      <3> QED
        BY <1>3, <1>4, <3>1
    <2> QED
      BY <1>1, <1>2, <1>3, <1>4, <2>1, <2>2 DEF PublishedOnce
  <1>9. ASSUME NEW n \in Messages PROVE NotRushed(n)'
    <2>1. CASE n # m
      BY <1>1, <1>3, <1>7, <2>1 DEF MessagesInv, NotRushed
    <2>2. CASE n = m
      BY <1>1, <1>2, <1>7, <2>2 DEF MessagesInv, NotRushed
    <2> QED
      BY <2>1, <2>2
  <1>10. ASSUME NEW n \in Messages PROVE Covered(n)'
    <2>1. Counted(n)' = Counted(n)
      BY <1>1 DEF Counted, ResolveMessageAudience
    <2>2. n \notin late => \A c \in Desks : Publishing(c, n)' =>
            /\ posting'[c].at = "context" => posting'[c].to = audiences[n]
            /\ posting'[c].at \in {"stamp", "job"} => Counted(n) \subseteq posting'[c].to
      BY <1>3, <1>7 DEF MessagesInv, Covered
    <2>3. n \notin late => \A i \in DOMAIN jobs'[n] : Counted(n) \subseteq jobs'[n][i]
      <3>1. CASE n # m
        BY <1>3, <3>1 DEF MessagesInv, Covered
      <3>2. CASE n = m
        <4>1. m \notin late => Counted(m) \subseteq to
          BY <1>0, <1>1, <1>2 DEF MessagesInv, Covered
        <4>2. m \notin late => \A i \in 1 .. Len(jobs[m]) : Counted(m) \subseteq jobs[m][i]
          BY <1>2, <1>4 DEF MessagesInv, Covered
        <4> QED
          BY SMTT(30), <1>3, <1>4, <3>2, <4>1, <4>2
      <3> QED
        BY <3>1, <3>2
    <2> QED
      BY <1>1, <2>1, <2>2, <2>3 DEF Covered
  <1> QED
    BY <1>5, <1>6, <1>8, <1>9, <1>10 DEF MessagesInv

LEMMA MessagesInit == CommunicationsInit => MessagesInv
  <1> SUFFICES ASSUME CommunicationsInit PROVE MessagesInv
    OBVIOUS
  <1>1. \A d \in Desks : posting[d] = Vacant
    BY DEF CommunicationsInit
  <1>2. \A m \in Messages : jobs[m] = <<>> /\ Len(jobs[m]) = 0
    BY DEF CommunicationsInit
  <1>3. MessagesTyped
    BY DEF CommunicationsInit, MessagesTyped
  <1> QED
    BY <1>1, <1>2, <1>3 DEF CommunicationsInit, MessagesInv, PostingHolds,
                            PublishedOnce, NotRushed, Covered, Publishing

LEMMA MessagesStep == MessagesInv /\ [CommunicationsNext]_commVars => MessagesInv'
  <1> SUFFICES ASSUME MessagesInv, [CommunicationsNext]_commVars PROVE MessagesInv'
    OBVIOUS
  <1>1. ASSUME NEW m \in Messages, NEW e \in Members,
               \/ Acknowledge(m, e)
               \/ \E sent \in SUBSET Marks : SaveReceipt(m, e, sent)
        PROVE  MessagesInv'
    BY <1>1, MarksStep DEF Acknowledge, SaveReceipt
  <1>2. ASSUME NEW t \in Devices, NEW e \in Members,
               RegisterDevice(t, e) \/ RevokeDevice(t, e)
        PROVE  MessagesInv'
    BY <1>2, MarksStep DEF RegisterDevice, RevokeDevice, messageVars
  <1>3. CASE CommunicationsNext
    BY <1>1, <1>2, <1>3, CreateMessageStep, AddAudiencesStep, ChangeStaffStep,
       LoadMessageStep, PublisherReadsStep, StampPublishedStep, InsertJobStep
       DEF CommunicationsNext
  <1>4. CASE UNCHANGED commVars
    BY <1>4, MarksStep DEF commVars, messageVars
  <1> QED
    BY <1>3, <1>4

LEMMA MessagesOwed == MessagesInv => CommunicationsInv
  BY DEF MessagesInv, CommunicationsInv, PendingWereTold, Covered, Counted,
         SummarizeAckCompliance
-----------------------------------------------------------------------------
\* Training: what a completion has read, and the events of a certification.

EventRows == [kind : {"created", "revoked", "renewed"},
              before : CertRows \cup {NoCert}, after : CertRows]

TrainerStates ==
  {Seated}
    \cup [at : {"progress", "complete"}, assignment : Assignments]
    \cup [at : {"modules"}, assignment : Assignments, need : SUBSET Lessons,
          done : SUBSET Lessons, left : SUBSET {"need", "done"}]
    \cup [at : {"patch"}, cert : CertIds, before : CertRows]
    \cup [at : {"event"}, cert : CertIds, event : EventRows]

TrainingTyped ==
  /\ progress \in [Assignments -> [Lessons -> ProgressStates \cup {"none"}]]
  /\ completions \in [Assignments -> CompletionStates \cup {"none"}]
  /\ certs \in [CertIds -> CertRows \cup {NoCert}]
  /\ certHistory \in [CertIds -> Seq(CertRows)]
  /\ certEvents \in [CertIds -> Seq(EventRows)]
  /\ trainer \in [Trainers -> TrainerStates]
  /\ today \in Nat
  /\ mixed \in BOOLEAN /\ unlogged \in BOOLEAN

\* While no two requests have been under way together, one at most is.
OneTrainer ==
  mixed \/ \A r, o \in Trainers :
             trainer[r] # Seated /\ trainer[o] # Seated => r = o

\* ... and what a completion has read still holds.
ReadsHold ==
  mixed \/ \A r \in Trainers : LET t == trainer[r] IN
    t.at = "modules" =>
      /\ "need" \notin t.left =>
           t.need = {m \in Lessons : lessons[m] = "required"}
      /\ "done" \notin t.left =>
           t.done = {m \in Lessons : progress[t.assignment][m] = "completed"}

\* A change of a certification is of one that is there; while no two requests
\* have been under way together, of the row it has read.
PatchReadsHold ==
  \A r \in Trainers : trainer[r].at = "patch" =>
    /\ certs[trainer[r].cert] # NoCert
    /\ mixed \/ trainer[r].before = certs[trainer[r].cert]

\* A certification is the last of the rows it has been.
CertIsLast ==
  \A c \in CertIds :
    /\ certs[c] = NoCert => certHistory[c] = <<>>
    /\ certs[c] # NoCert =>
         /\ certHistory[c] # <<>>
         /\ certs[c] = certHistory[c][Len(certHistory[c])]

\* The parts of CertificationLog, by name.
Told(kind, p) == [kind |-> kind, before |-> p[1], after |-> p[2]]
Pairs(h)      == {<<h[i], h[i + 1]>> : i \in 1 .. Len(h) - 1}
Enters(p)     == p[1].status # "revoked" /\ p[2].status = "revoked"
Longer(p)     == /\ p[2].status # "revoked" /\ p[2].expires # Never
                 /\ p[1].expires = Never \/ p[2].expires > p[1].expires
Pending(c)    == {trainer[r].event : r \in {x \in Trainers :
                    trainer[x].at = "event" /\ trainer[x].cert = c}}
Logged(c)     == {certEvents[c][i] : i \in DOMAIN certEvents[c]}
Reported(c)   == {e \in Pending(c) \cup Logged(c) : e.kind # "created"}
Happened(h)   == {Told("revoked", p) : p \in {x \in Pairs(h) : Enters(x)}}
                   \cup {Told("renewed", p) : p \in {x \in Pairs(h) : Longer(x)}}

TrainingInv ==
  /\ TrainingTyped /\ OneTrainer /\ ReadsHold /\ PatchReadsHold /\ CertIsLast
  /\ mixed \/ unlogged \/ \A c \in CertIds : Reported(c) = Happened(certHistory[c])

LEMMA CertificationLogByName ==
  CertificationLog <=>
    mixed \/ unlogged \/ \A c \in CertIds : Reported(c) = Happened(certHistory[c])
  BY Zenon DEF CertificationLog, Reported, Happened, Pending, Logged, Told,
               Pairs, Enters, Longer

LEMMA PairsAppend ==
  ASSUME NEW h \in Seq(CertRows), h # <<>>, NEW row \in CertRows
  PROVE  Pairs(Append(h, row)) = Pairs(h) \cup {<<h[Len(h)], row>>}
  <1> DEFINE k == Append(h, row)
  <1>1. /\ Len(h) \in Nat \ {0}
        /\ Len(k) = Len(h) + 1
        /\ \A i \in 1 .. Len(h) : k[i] = h[i]
        /\ k[Len(h) + 1] = row
    OBVIOUS
  <1> HIDE DEF k
  <1>2. ASSUME NEW p \in Pairs(k) PROVE p \in Pairs(h) \cup {<<h[Len(h)], row>>}
    <2>1. PICK i \in 1 .. Len(k) - 1 : p = <<k[i], k[i + 1]>>
      BY DEF Pairs
    <2>2. CASE i = Len(h)
      BY <1>1, <2>1, <2>2
    <2>3. CASE i \in 1 .. Len(h) - 1
      <3>1. p = <<h[i], h[i + 1]>>
        BY <1>1, <2>1, <2>3
      <3> QED
        BY <2>3, <3>1 DEF Pairs
    <2> QED
      BY <1>1, <2>1, <2>2, <2>3
  <1>3. ASSUME NEW p \in Pairs(h) PROVE p \in Pairs(k)
    <2>1. PICK i \in 1 .. Len(h) - 1 : p = <<h[i], h[i + 1]>>
      BY DEF Pairs
    <2>2. p = <<k[i], k[i + 1]>> /\ i \in 1 .. Len(k) - 1
      BY <1>1, <2>1
    <2> QED
      BY <2>2 DEF Pairs
  <1>4. <<h[Len(h)], row>> \in Pairs(k)
    <2>1. <<h[Len(h)], row>> = <<k[Len(h)], k[Len(h) + 1]>>
          /\ Len(h) \in 1 .. Len(k) - 1
      BY <1>1
    <2> QED
      BY <2>1 DEF Pairs
  <1> QED
    BY <1>2, <1>3, <1>4 DEF k

\* A write adds to what happened what its event tells.
LEMMA HappenedAppend ==
  ASSUME NEW h \in Seq(CertRows), h # <<>>, NEW row \in CertRows
  PROVE  LET p    == <<h[Len(h)], row>>
             kind == CertificationEventFor(h[Len(h)], row)
         IN Happened(Append(h, row)) =
              Happened(h) \cup (IF kind = "none" THEN {} ELSE {Told(kind, p)})
  <1> DEFINE before == h[Len(h)]
             p      == <<before, row>>
             kind   == CertificationEventFor(before, row)
  <1>1. before \in CertRows /\ before # NoCert
    BY NoCertAssumption
  <1>2. /\ Enters(p) <=> kind = "revoked"
        /\ Longer(p) <=> kind = "renewed"
        /\ kind \in {"none", "revoked", "renewed"}
    BY <1>1 DEF CertificationEventFor, Enters, Longer
  <1> HIDE DEF p, kind
  <1>3. Pairs(Append(h, row)) = Pairs(h) \cup {p}
    BY PairsAppend DEF p
  <1>4. Happened(Append(h, row)) =
          Happened(h) \cup (IF kind = "none" THEN {} ELSE {Told(kind, p)})
    <2>1. CASE kind = "none"
      BY <1>2, <1>3, <2>1 DEF Happened
    <2>2. CASE kind = "revoked"
      BY <1>2, <1>3, <2>2 DEF Happened
    <2>3. CASE kind = "renewed"
      BY <1>2, <1>3, <2>3 DEF Happened
    <2> QED
      BY <1>2, <2>1, <2>2, <2>3
  <1> QED
    BY <1>4 DEF p, kind
\* Request r does a step; unless requests overlap, the others are not under way.
Turns(r, step) ==
  /\ trainer' = [trainer EXCEPT ![r] = step]
  /\ mixed' \in BOOLEAN /\ (mixed => mixed')
  /\ mixed' \/ \A o \in Trainers \ {r} : trainer[o] = Seated

LEMMA TrainTurns ==
  ASSUME TrainingInv, NEW r \in Trainers, NEW step, Train(r, step)
  PROVE  Turns(r, step) /\ trainer[r] = Seated /\ UNCHANGED <<today, unlogged>>
  BY DEF TrainingInv, TrainingTyped, Train, Turns

LEMMA GoOnTurns ==
  ASSUME TrainingInv, NEW r \in Trainers, NEW step, GoOn(r, step),
         trainer[r] # Seated
  PROVE  Turns(r, step) /\ UNCHANGED today
  BY DEF TrainingInv, TrainingTyped, OneTrainer, GoOn, Turns

\* What a request that is under way holds.
LEMMA TrainerHolds ==
  ASSUME TrainingInv, NEW r \in Trainers
  PROVE  /\ trainer[r].at \in {"progress", "complete", "modules"} =>
              trainer[r].assignment \in Assignments
         /\ trainer[r].at = "modules" =>
              trainer[r] \in [at : {"modules"}, assignment : Assignments,
                              need : SUBSET Lessons, done : SUBSET Lessons,
                              left : SUBSET {"need", "done"}]
         /\ trainer[r].at = "patch" =>
              trainer[r].cert \in CertIds /\ trainer[r].before \in CertRows
         /\ trainer[r].at = "event" =>
              trainer[r].cert \in CertIds /\ trainer[r].event \in EventRows
         /\ trainer[r].at # "seat" => trainer[r] # Seated
         /\ trainer[r] = Seated => trainer[r].at = "seat"
  <1>1. trainer[r] \in TrainerStates
    BY DEF TrainingInv, TrainingTyped
  <1> QED
    BY <1>1 DEF TrainerStates, Seated

\* What r holds after its step holds of the state after it.
StepHolds(step) ==
  /\ step.at = "patch" =>
       /\ certs[step.cert] # NoCert
       /\ mixed \/ step.before = certs[step.cert]
  /\ mixed \/ (step.at = "modules" =>
       /\ "need" \notin step.left =>
            step.need = {m \in Lessons : lessons[m] = "required"}
       /\ "done" \notin step.left =>
            step.done = {m \in Lessons : progress[step.assignment][m] = "completed"})

LEMMA TurnKeeps ==
  ASSUME TrainingInv, NEW r \in Trainers, NEW step \in TrainerStates,
         Turns(r, step), StepHolds(step)',
         \A c \in CertIds : certs[c] # NoCert => certs'[c] # NoCert
  PROVE  /\ trainer' \in [Trainers -> TrainerStates]
         /\ mixed' \in BOOLEAN
         /\ OneTrainer' /\ ReadsHold' /\ PatchReadsHold'
  <1>1. /\ trainer' \in [Trainers -> TrainerStates]
        /\ trainer'[r] = step
        /\ mixed' \/ \A o \in Trainers \ {r} : trainer'[o] = Seated
    BY DEF Turns, TrainingInv, TrainingTyped
  <1>2. Seated.at = "seat"
    BY DEF Seated
  <1>3. OneTrainer'
    BY <1>1 DEF OneTrainer
  <1>4. ReadsHold'
    BY <1>1, <1>2 DEF ReadsHold, StepHolds
  <1>5. ASSUME NEW o \in Trainers, trainer'[o].at = "patch"
        PROVE  /\ certs'[trainer'[o].cert] # NoCert
               /\ mixed' \/ trainer'[o].before = certs'[trainer'[o].cert]
    <2>1. CASE o = r
      BY <1>1, <1>5, <2>1 DEF StepHolds
    <2>2. CASE o # r
      <3>1. trainer'[o] = trainer[o] /\ trainer[o].cert \in CertIds
        BY <1>5, <2>2, TrainerHolds DEF Turns, TrainingInv, TrainingTyped
      <3>2. certs[trainer[o].cert] # NoCert
        BY <1>5, <3>1 DEF TrainingInv, PatchReadsHold
      <3> QED
        BY <1>1, <1>2, <1>5, <2>2, <3>1, <3>2
    <2> QED
      BY <2>1, <2>2
  <1> QED
    BY <1>1, <1>3, <1>4, <1>5 DEF Turns, PatchReadsHold

\* A step that neither ends nor begins the recording of an event, of a request
\* that touches no certification.
LEMMA PendingSame ==
  ASSUME TrainingInv, NEW r \in Trainers, NEW step, Turns(r, step),
         trainer[r].at # "event", step.at # "event", NEW c \in CertIds
  PROVE  Pending(c)' = Pending(c)
  <1>1. trainer'[r] = step /\ \A o \in Trainers : o # r => trainer'[o] = trainer[o]
    BY DEF Turns, TrainingInv, TrainingTyped
  <1> QED
    BY <1>1 DEF Pending

LEMMA CourseTurn ==
  ASSUME TrainingInv, NEW r \in Trainers, NEW step \in TrainerStates,
         Turns(r, step), StepHolds(step)',
         trainer[r].at # "event", step.at # "event",
         UNCHANGED <<certs, certHistory, certEvents, unlogged>>, today' \in Nat,
         progress' \in [Assignments -> [Lessons -> ProgressStates \cup {"none"}]],
         completions' \in [Assignments -> CompletionStates \cup {"none"}]
  PROVE  TrainingInv'
  <1>1. TrainingTyped' /\ OneTrainer' /\ ReadsHold' /\ PatchReadsHold'
    BY TurnKeeps DEF TrainingInv, TrainingTyped
  <1>2. CertIsLast'
    BY DEF TrainingInv, CertIsLast
  <1>3. \A c \in CertIds : Reported(c)' = Reported(c)
    BY PendingSame DEF Reported, Logged
  <1>4. mixed => mixed'
    BY DEF Turns
  <1> QED
    BY <1>1, <1>2, <1>3, <1>4 DEF TrainingInv

LEMMA DismissStep ==
  ASSUME TrainingInv, NEW r \in Trainers, Dismiss(r)
  PROVE  TrainingInv'
  <1>1. Turns(r, Seated) /\ UNCHANGED today
    BY GoOnTurns DEF Dismiss
  <1>2. Seated \in TrainerStates /\ StepHolds(Seated)' /\ Seated.at # "event"
    BY DEF TrainerStates, StepHolds, Seated
  <1>3. /\ UNCHANGED <<courseVars, certVars>>
        /\ unlogged' = (unlogged \/ trainer[r].at = "event")
    BY DEF Dismiss
  <1>4. CASE trainer[r].at = "event"
    <2>1. TrainingTyped' /\ OneTrainer' /\ ReadsHold' /\ PatchReadsHold'
      BY <1>1, <1>2, <1>3, TurnKeeps DEF TrainingInv, TrainingTyped,
                                         courseVars, certVars
    <2> QED
      BY <1>3, <1>4, <2>1 DEF TrainingInv, CertIsLast, certVars
  <1>5. CASE trainer[r].at # "event"
    <2>1. unlogged' = unlogged
      BY <1>3, <1>5 DEF TrainingInv, TrainingTyped
    <2> QED
      BY <1>1, <1>2, <1>3, <1>5, <2>1, CourseTurn
         DEF TrainingInv, TrainingTyped, courseVars, certVars
  <1> QED
    BY <1>4, <1>5

\* A request that ends in the step it begins, and touches neither the progress
\* nor a completion nor a certification.
LEMMA AtOnceStep ==
  ASSUME TrainingInv, NEW r \in Trainers, Train(r, Seated),
         UNCHANGED <<progress, completions, certs, certHistory, certEvents>>
  PROVE  TrainingInv'
  <1>1. Turns(r, Seated) /\ trainer[r] = Seated /\ UNCHANGED <<today, unlogged>>
    BY TrainTurns
  <1>2. Seated \in TrainerStates /\ StepHolds(Seated)' /\ Seated.at # "event"
    BY DEF TrainerStates, StepHolds, Seated
  <1> QED
    BY <1>1, <1>2, CourseTurn DEF TrainingInv, TrainingTyped

LEMMA LoadAssignmentStep ==
  ASSUME TrainingInv, NEW r \in Trainers, NEW op \in {"progress", "complete"},
         NEW a \in Assignments, LoadAssignment(r, op, a)
  PROVE  TrainingInv'
  <1> DEFINE step == [at |-> op, assignment |-> a]
  <1>1. /\ Turns(r, step) /\ trainer[r].at = "seat"
        /\ UNCHANGED <<today, unlogged, courseVars, certVars>>
    BY TrainTurns, TrainerHolds DEF LoadAssignment
  <1>2. step \in TrainerStates /\ StepHolds(step)' /\ step.at # "event"
    BY DEF TrainerStates, StepHolds
  <1> HIDE DEF step
  <1> QED
    BY <1>1, <1>2, CourseTurn DEF TrainingInv, TrainingTyped, courseVars,
                                  certVars

LEMMA RecordProgressStep ==
  ASSUME TrainingInv, NEW r \in Trainers, NEW m \in Lessons,
         NEW state \in ProgressStates, RecordProgress(r, m, state)
  PROVE  TrainingInv'
  <1>1. /\ trainer[r].at = "progress" /\ GoOn(r, Seated)
        /\ progress' = [progress EXCEPT ![trainer[r].assignment][m] = state]
        /\ UNCHANGED <<completions, certs, certHistory, certEvents, unlogged>>
    BY DEF RecordProgress, certVars
  <1>2. Turns(r, Seated) /\ UNCHANGED today /\ trainer[r].assignment \in Assignments
    BY <1>1, GoOnTurns, TrainerHolds
  <1>3. Seated \in TrainerStates /\ StepHolds(Seated)' /\ Seated.at # "event"
    BY DEF TrainerStates, StepHolds, Seated
  <1>4. progress' \in [Assignments -> [Lessons -> ProgressStates \cup {"none"}]]
    BY <1>1, <1>2 DEF TrainingInv, TrainingTyped
  <1> QED
    BY <1>1, <1>2, <1>3, <1>4, CourseTurn DEF TrainingInv, TrainingTyped

LEMMA ReadForCompletionStep ==
  ASSUME TrainingInv, NEW r \in Trainers, ReadForCompletion(r)
  PROVE  TrainingInv'
  <1> DEFINE step == [at |-> "modules", assignment |-> trainer[r].assignment,
                      need |-> {}, done |-> {}, left |-> {"need", "done"}]
  <1>1. PICK s : s = step
    OBVIOUS
  <1>2. /\ trainer[r].at = "complete" /\ GoOn(r, s)
        /\ UNCHANGED <<courseVars, certVars, unlogged>>
    BY <1>1 DEF ReadForCompletion
  <1>3. Turns(r, s) /\ UNCHANGED today /\ trainer[r].assignment \in Assignments
    BY <1>2, GoOnTurns, TrainerHolds
  <1>4. s \in TrainerStates /\ StepHolds(s)' /\ s.at # "event"
    BY <1>1, <1>3 DEF TrainerStates, StepHolds
  <1> HIDE DEF step
  <1> QED
    BY <1>2, <1>3, <1>4, CourseTurn DEF TrainingInv, TrainingTyped, courseVars,
                                        certVars

LEMMA SelectRowsStep ==
  ASSUME TrainingInv, NEW r \in Trainers, NEW part \in {"need", "done"},
         SelectRows(r, part)
  PROVE  TrainingInv'
  <1> DEFINE step == [trainer[r] EXCEPT
          !.left = @ \ {part},
          !.need = IF part = "need"
                     THEN {m \in Lessons : lessons[m] = "required"} ELSE @,
          !.done = IF part = "done"
                     THEN {m \in Lessons :
                             progress[trainer[r].assignment][m] = "completed"}
                     ELSE @]
  <1>1. PICK s : s = step
    OBVIOUS
  <1>2. /\ trainer[r].at = "modules" /\ GoOn(r, s)
        /\ UNCHANGED <<courseVars, certVars, unlogged>>
    BY <1>1 DEF SelectRows
  <1>3. Turns(r, s) /\ UNCHANGED today
    BY <1>2, GoOnTurns, TrainerHolds
  <1>4. trainer[r] \in [at : {"modules"}, assignment : Assignments,
                        need : SUBSET Lessons, done : SUBSET Lessons,
                        left : SUBSET {"need", "done"}]
    BY <1>2, TrainerHolds
  <1>5. /\ s \in [at : {"modules"}, assignment : Assignments,
                  need : SUBSET Lessons, done : SUBSET Lessons,
                  left : SUBSET {"need", "done"}]
        /\ s.assignment = trainer[r].assignment
        /\ s.left = trainer[r].left \ {part}
        /\ part = "need" => s.need = {m \in Lessons : lessons[m] = "required"}
        /\ part # "need" => s.need = trainer[r].need
        /\ part = "done" => s.done = {m \in Lessons :
                              progress[trainer[r].assignment][m] = "completed"}
        /\ part # "done" => s.done = trainer[r].done
    BY <1>1, <1>4
  <1> HIDE DEF step
  <1>6. s \in TrainerStates /\ s.at # "event"
    BY <1>5 DEF TrainerStates
  <1>7. UNCHANGED mixed /\ StepHolds(s)
    BY <1>2, <1>5 DEF GoOn, TrainingInv, ReadsHold, StepHolds
  <1>8. StepHolds(s)'
    BY <1>2, <1>7 DEF StepHolds, courseVars, certVars
  <1> QED
    BY <1>2, <1>3, <1>6, <1>8, CourseTurn
       DEF TrainingInv, TrainingTyped, courseVars, certVars

LEMMA InsertCompletionStep ==
  ASSUME TrainingInv, NEW r \in Trainers, NEW state \in CompletionStates,
         InsertCompletion(r, state)
  PROVE  TrainingInv'
  <1>1. /\ trainer[r].at \in {"modules", "complete"} /\ GoOn(r, Seated)
        /\ completions' = [completions EXCEPT ![trainer[r].assignment] = state]
        /\ UNCHANGED <<progress, certs, certHistory, certEvents, unlogged>>
    BY DEF InsertCompletion, certVars
  <1>2. Turns(r, Seated) /\ UNCHANGED today /\ trainer[r].assignment \in Assignments
    BY <1>1, GoOnTurns, TrainerHolds
  <1>3. Seated \in TrainerStates /\ StepHolds(Seated)' /\ Seated.at # "event"
    BY DEF TrainerStates, StepHolds, Seated
  <1>4. completions' \in [Assignments -> CompletionStates \cup {"none"}]
    BY <1>1, <1>2 DEF TrainingInv, TrainingTyped
  <1> QED
    BY <1>1, <1>2, <1>3, <1>4, CourseTurn DEF TrainingInv, TrainingTyped
LEMMA LoadCertificationStep ==
  ASSUME TrainingInv, NEW r \in Trainers, NEW c \in CertIds,
         LoadCertification(r, c)
  PROVE  TrainingInv'
  <1>1. PICK s : s = [at |-> "patch", cert |-> c, before |-> certs[c]]
    OBVIOUS
  <1>2. /\ Train(r, s) /\ certs[c] \in CertRows
        /\ UNCHANGED <<courseVars, certVars>>
    BY <1>1 DEF LoadCertification, TrainingInv, TrainingTyped
  <1>3. Turns(r, s) /\ trainer[r].at = "seat" /\ UNCHANGED <<today, unlogged>>
    BY <1>2, TrainTurns, TrainerHolds
  <1>4. s \in TrainerStates /\ s.at # "event"
    BY <1>1, <1>2 DEF TrainerStates
  <1>5. StepHolds(s)'
    BY <1>1, <1>2, NoCertAssumption DEF StepHolds, certVars
  <1> QED
    BY <1>2, <1>3, <1>4, <1>5, CourseTurn
       DEF TrainingInv, TrainingTyped, courseVars, certVars

\* Whether a write appends an event or not, what it leaves to record is that
\* event, and nothing of other certifications.
LEMMA PendingOfWrite ==
  ASSUME TrainingInv, NEW r \in Trainers, NEW c \in CertIds,
         NEW before \in CertRows \cup {NoCert}, NEW after \in CertRows,
         Turns(r, ThenEvent(r, c, before, after)), ~ mixed',
         trainer[r].at # "event"
  PROVE  LET kind == CertificationEventFor(before, after)
         IN /\ \A x \in CertIds \ {c} : Pending(x)' = Pending(x)
            /\ Pending(c) = {}
            /\ kind = "none" => Pending(c)' = {}
            /\ kind # "none" => Pending(c)' = {Told(kind, <<before, after>>)}
  <1> DEFINE step == ThenEvent(r, c, before, after)
             kind == CertificationEventFor(before, after)
  <1>1. /\ \A o \in Trainers \ {r} : trainer[o] = Seated /\ trainer'[o] = Seated
        /\ trainer'[r] = step
    BY DEF Turns, TrainingInv, TrainingTyped
  <1>2. Seated.at = "seat"
    BY DEF Seated
  <1>3. /\ kind = "none" => step = Seated
        /\ kind # "none" => step.at = "event" /\ step.cert = c
                            /\ step.event = Told(kind, <<before, after>>)
    BY DEF ThenEvent, Told
  <1> HIDE DEF step, kind
  <1>4. \A o \in Trainers : trainer[o].at # "event"
    BY <1>1, <1>2
  <1>5. \A x \in CertIds : Pending(x) = {}
    BY <1>4 DEF Pending
  <1>6. ASSUME NEW x \in CertIds \ {c} PROVE Pending(x)' = {}
    <2>1. \A o \in Trainers : ~ (trainer'[o].at = "event" /\ trainer'[o].cert = x)
      BY <1>1, <1>2, <1>3, <1>6
    <2> QED
      BY <2>1 DEF Pending
  <1>7. ASSUME kind = "none" PROVE Pending(c)' = {}
    BY <1>1, <1>2, <1>3, <1>7 DEF Pending
  <1>8. ASSUME kind # "none" PROVE Pending(c)' = {Told(kind, <<before, after>>)}
    BY <1>1, <1>2, <1>3, <1>8 DEF Pending
  <1> QED
    BY <1>5, <1>6, <1>7, <1>8 DEF kind

\* A certification is written by the only request under way, or by one of
\* several.
LEMMA WriteTyped ==
  ASSUME TrainingInv, NEW r \in Trainers, NEW c \in CertIds,
         NEW before \in CertRows \cup {NoCert}, NEW after \in CertRows,
         Turns(r, ThenEvent(r, c, before, after)), WriteCert(c, after),
         UNCHANGED <<courseVars, certEvents, today, unlogged>>
  PROVE  /\ TrainingTyped' /\ OneTrainer' /\ ReadsHold' /\ PatchReadsHold'
         /\ CertIsLast'
         /\ certHistory' = [certHistory EXCEPT ![c] = Append(@, after)]
         /\ certHistory[c] \in Seq(CertRows)
  <1>1. PICK s : s = ThenEvent(r, c, before, after)
    OBVIOUS
  <1>2. /\ s \in TrainerStates
        /\ s.at \in {"seat", "event"}
    <2>1. CASE CertificationEventFor(before, after) = "none"
      BY <1>1, <2>1 DEF ThenEvent, TrainerStates, Seated
    <2>2. CASE CertificationEventFor(before, after) # "none"
      <3>1. CertificationEventFor(before, after) \in {"created", "revoked", "renewed"}
        BY <2>2 DEF CertificationEventFor
      <3>2. PICK e : e = [kind |-> CertificationEventFor(before, after),
                          before |-> before, after |-> after]
        OBVIOUS
      <3>3. e \in EventRows
        BY <3>1, <3>2 DEF EventRows
      <3>4. s = [at |-> "event", cert |-> c, event |-> e]
        BY <1>1, <2>2, <3>2 DEF ThenEvent
      <3> QED
        BY <3>3, <3>4 DEF TrainerStates
    <2> QED
      BY <2>1, <2>2
  <1>3. StepHolds(s)'
    BY <1>2 DEF StepHolds
  <1>4. /\ trainer' \in [Trainers -> TrainerStates] /\ mixed' \in BOOLEAN
        /\ OneTrainer' /\ ReadsHold' /\ PatchReadsHold'
    <2>1. \A x \in CertIds : certs[x] # NoCert => certs'[x] # NoCert
      BY NoCertAssumption DEF WriteCert, TrainingInv, TrainingTyped
    <2> QED
      BY <1>1, <1>2, <1>3, <2>1, TurnKeeps
  <1>5. /\ certs' = [certs EXCEPT ![c] = after]
        /\ certHistory' = [certHistory EXCEPT ![c] = Append(@, after)]
    BY DEF WriteCert
  <1>6. TrainingTyped'
    BY <1>4, <1>5 DEF TrainingInv, TrainingTyped, courseVars
  <1>7. ASSUME NEW x \in CertIds
        PROVE  /\ certs'[x] = NoCert => certHistory'[x] = <<>>
               /\ certs'[x] # NoCert =>
                    /\ certHistory'[x] # <<>>
                    /\ certs'[x] = certHistory'[x][Len(certHistory'[x])]
    <2>1. CASE x = c
      <3>1. certs'[c] = after /\ certHistory'[c] = Append(certHistory[c], after)
        BY <1>5 DEF TrainingInv, TrainingTyped
      <3>2. certHistory[c] \in Seq(CertRows)
        BY DEF TrainingInv, TrainingTyped
      <3> QED
        BY <2>1, <3>1, <3>2, NoCertAssumption
    <2>2. CASE x # c
      BY <1>5, <2>2 DEF TrainingInv, TrainingTyped, CertIsLast
    <2> QED
      BY <2>1, <2>2
  <1> QED
    BY <1>4, <1>5, <1>6, <1>7 DEF CertIsLast, TrainingInv, TrainingTyped

LEMMA IssueCertStep ==
  ASSUME TrainingInv, NEW r \in Trainers, NEW c \in CertIds, NEW row \in CertRows,
         IssueCert(r, c, row)
  PROVE  TrainingInv'
  <1>1. /\ certs[c] = NoCert /\ WriteCert(c, row)
        /\ Train(r, ThenEvent(r, c, NoCert, row))
        /\ UNCHANGED <<courseVars, certEvents>>
    BY DEF IssueCert
  <1>2. /\ Turns(r, ThenEvent(r, c, NoCert, row)) /\ trainer[r].at = "seat"
        /\ UNCHANGED <<today, unlogged>>
    BY <1>1, TrainTurns, TrainerHolds
  <1>3. /\ TrainingTyped' /\ OneTrainer' /\ ReadsHold' /\ PatchReadsHold'
        /\ CertIsLast'
        /\ certHistory' = [certHistory EXCEPT ![c] = Append(@, row)]
    BY <1>1, <1>2, WriteTyped
  <1>4. ASSUME ~ mixed', ~ unlogged, NEW x \in CertIds
        PROVE  Reported(x)' = Happened(certHistory[x])'
    <2>1. Reported(x) = Happened(certHistory[x])
      BY <1>2, <1>4 DEF Turns, TrainingInv
    <2>2. CertificationEventFor(NoCert, row) = "created"
      BY DEF CertificationEventFor
    <2>3. /\ \A y \in CertIds \ {c} : Pending(y)' = Pending(y)
          /\ Pending(c) = {}
          /\ Pending(c)' = {Told("created", <<NoCert, row>>)}
      BY <1>2, <1>4, <2>2, PendingOfWrite
    <2>4. Logged(x)' = Logged(x)
      BY <1>1 DEF Logged
    <2>5. CASE x # c
      BY <1>3, <2>1, <2>3, <2>4, <2>5 DEF Reported, TrainingInv, TrainingTyped
    <2>6. CASE x = c
      <3>1. Told("created", <<NoCert, row>>).kind = "created"
        BY DEF Told
      <3>2. Reported(c)' = Reported(c)
        BY <2>3, <2>4, <2>6, <3>1 DEF Reported
      <3>3. certHistory[c] = <<>> /\ certHistory'[c] = <<row>>
        <4>1. certHistory[c] = <<>>
          BY <1>1 DEF TrainingInv, CertIsLast
        <4>2. certHistory'[c] = Append(certHistory[c], row)
          BY <1>3 DEF TrainingInv, TrainingTyped
        <4>3. Append(<<>>, row) = <<row>>
          OBVIOUS
        <4> QED
          BY <4>1, <4>2, <4>3
      <3>4. Pairs(<<row>>) = {} /\ Pairs(<<>>) = {}
        BY DEF Pairs
      <3>5. Happened(certHistory[c])' = Happened(certHistory[c])
        BY <3>3, <3>4 DEF Happened
      <3> QED
        BY <2>1, <2>6, <3>2, <3>5
    <2> QED
      BY <2>5, <2>6
  <1> QED
    BY <1>2, <1>3, <1>4 DEF TrainingInv

LEMMA PatchCertificationStep ==
  ASSUME TrainingInv, NEW r \in Trainers, NEW s \in CertStates \cup {"keep"},
         NEW e \in Expiries \cup {-1, Never}, PatchCertification(r, s, e)
  PROVE  TrainingInv'
  <1>1. PICK c, before, after :
          /\ c = trainer[r].cert /\ before = trainer[r].before
          /\ after = [status  |-> IF s = "keep" THEN certs[c].status ELSE s,
                      expires |-> IF e = -1 THEN certs[c].expires ELSE e]
    OBVIOUS
  <1>2. /\ trainer[r].at = "patch" /\ WriteCert(c, after)
        /\ GoOn(r, ThenEvent(r, c, before, after))
        /\ UNCHANGED <<courseVars, certEvents, unlogged>>
    BY <1>1 DEF PatchCertification
  <1>3. c \in CertIds /\ before \in CertRows
    BY <1>1, <1>2, TrainerHolds
  <1>4. Turns(r, ThenEvent(r, c, before, after)) /\ UNCHANGED today
    BY <1>2, GoOnTurns, TrainerHolds
  <1>5. /\ certs[c] \in CertRows
        /\ mixed \/ before = certs[c]
    BY <1>1, <1>2, <1>3 DEF TrainingInv, TrainingTyped, PatchReadsHold
  <1>6. after \in CertRows
    BY <1>1, <1>5 DEF CertRows, CertStates
  <1>7. /\ TrainingTyped' /\ OneTrainer' /\ ReadsHold' /\ PatchReadsHold'
        /\ CertIsLast'
        /\ certHistory' = [certHistory EXCEPT ![c] = Append(@, after)]
        /\ certHistory[c] \in Seq(CertRows)
    BY <1>2, <1>3, <1>4, <1>6, WriteTyped
  <1>8. ASSUME ~ mixed', ~ unlogged, NEW x \in CertIds
        PROVE  Reported(x)' = Happened(certHistory[x])'
    <2> DEFINE kind == CertificationEventFor(before, after)
    <2>1. ~ mixed /\ Reported(x) = Happened(certHistory[x])
      BY <1>4, <1>8 DEF Turns, TrainingInv
    <2>2. /\ \A y \in CertIds \ {c} : Pending(y)' = Pending(y)
          /\ Pending(c) = {}
          /\ kind = "none" => Pending(c)' = {}
          /\ kind # "none" => Pending(c)' = {Told(kind, <<before, after>>)}
      BY <1>2, <1>3, <1>4, <1>6, <1>8, PendingOfWrite
    <2>3. Logged(x)' = Logged(x)
      BY <1>2 DEF Logged
    <2>4. CASE x # c
      BY <1>7, <2>1, <2>2, <2>3, <2>4 DEF Reported, TrainingInv, TrainingTyped
    <2>5. CASE x = c
      <3>1. certHistory[c] # <<>> /\ before = certHistory[c][Len(certHistory[c])]
        BY <1>3, <1>5, <2>1, NoCertAssumption DEF TrainingInv, CertIsLast
      <3>2. certHistory'[c] = Append(certHistory[c], after)
        BY <1>3, <1>7 DEF TrainingInv, TrainingTyped
      <3>3. kind # "created" /\ Told(kind, <<before, after>>).kind = kind
        BY <1>3, NoCertAssumption DEF CertificationEventFor, Told
      <3>4. Happened(Append(certHistory[c], after)) = Happened(certHistory[c])
              \cup (IF kind = "none" THEN {} ELSE {Told(kind, <<before, after>>)})
        BY <1>6, <1>7, <3>1, HappenedAppend
      <3> HIDE DEF kind
      <3>5. Reported(c)' = Reported(c)
              \cup (IF kind = "none" THEN {} ELSE {Told(kind, <<before, after>>)})
        BY <2>2, <2>3, <2>5, <3>3 DEF Reported
      <3>6. Happened(certHistory[c])' = Happened(Append(certHistory[c], after))
        BY <3>2 DEF Happened
      <3> QED
        BY <2>1, <2>5, <3>4, <3>5, <3>6
    <2> QED
      BY <2>4, <2>5
  <1> QED
    BY <1>2, <1>7, <1>8 DEF TrainingInv

LEMMA InsertCertificationEventStep ==
  ASSUME TrainingInv, NEW r \in Trainers, InsertCertificationEvent(r)
  PROVE  TrainingInv'
  <1>1. PICK c, e : c = trainer[r].cert /\ e = trainer[r].event
    OBVIOUS
  <1>2. /\ trainer[r].at = "event" /\ GoOn(r, Seated)
        /\ certEvents' = [certEvents EXCEPT ![c] = Append(@, e)]
        /\ UNCHANGED <<courseVars, certs, certHistory, unlogged>>
    BY <1>1 DEF InsertCertificationEvent
  <1>3. c \in CertIds /\ e \in EventRows
    BY <1>1, <1>2, TrainerHolds
  <1>4. Turns(r, Seated) /\ UNCHANGED today
    BY <1>2, GoOnTurns, TrainerHolds
  <1>5. Seated \in TrainerStates /\ StepHolds(Seated)' /\ Seated.at = "seat"
    BY DEF TrainerStates, StepHolds, Seated
  <1>6. TrainingTyped' /\ OneTrainer' /\ ReadsHold' /\ PatchReadsHold'
    <2>1. certEvents' \in [CertIds -> Seq(EventRows)]
      BY <1>2, <1>3 DEF TrainingInv, TrainingTyped
    <2> QED
      BY <1>2, <1>4, <1>5, <2>1, TurnKeeps
         DEF TrainingInv, TrainingTyped, courseVars
  <1>7. CertIsLast'
    BY <1>2 DEF TrainingInv, CertIsLast
  <1>8. \A o \in Trainers : trainer'[o] = IF o = r THEN Seated ELSE trainer[o]
    BY <1>4 DEF Turns, TrainingInv, TrainingTyped
  <1>9. ASSUME NEW x \in CertIds PROVE Reported(x)' = Reported(x)
    <2>1. CASE x # c
      <3>1. certEvents'[x] = certEvents[x]
        BY <1>2, <2>1 DEF TrainingInv, TrainingTyped
      <3>2. Pending(x)' = Pending(x)
        BY <1>1, <1>5, <1>8, <2>1 DEF Pending
      <3> QED
        BY <3>1, <3>2 DEF Reported, Logged
    <2>2. CASE x = c
      <3>1. PICK s : s = certEvents[c]
        OBVIOUS
      <3>2. s \in Seq(EventRows) /\ certEvents'[c] = Append(s, e)
        BY <1>2, <1>3, <3>1 DEF TrainingInv, TrainingTyped
      <3>3. {Append(s, e)[i] : i \in DOMAIN Append(s, e)}
              = {s[i] : i \in DOMAIN s} \cup {e}
        <4>1. DOMAIN Append(s, e) = 1 .. Len(s) + 1 /\ DOMAIN s = 1 .. Len(s)
              /\ Len(s) \in Nat
          BY <1>3, <3>2
        <4>2. Append(s, e)[Len(s) + 1] = e
              /\ \A i \in 1 .. Len(s) : Append(s, e)[i] = s[i]
          BY <1>3, <3>2
        <4> QED
          BY <4>1, <4>2
      <3>4. Logged(c)' = Logged(c) \cup {e}
        BY <3>1, <3>2, <3>3 DEF Logged
      <3>5. Pending(c)' \cup {e} = Pending(c)
        <4>1. e \in Pending(c)
          BY <1>1, <1>2 DEF Pending
        <4>2. ASSUME NEW z \in Pending(c) PROVE z \in Pending(c)' \cup {e}
          BY <1>1, <1>8, <4>2 DEF Pending
        <4>3. ASSUME NEW z \in Pending(c)' PROVE z \in Pending(c)
          BY <1>5, <1>8, <4>3 DEF Pending
        <4> QED
          BY <4>1, <4>2, <4>3
      <3> QED
        BY <2>2, <3>4, <3>5 DEF Reported
    <2> QED
      BY <2>1, <2>2
  <1> QED
    BY <1>2, <1>4, <1>6, <1>7, <1>9 DEF TrainingInv, Turns
LEMMA TrainingStarts == TrainingInit => TrainingInv
  <1> SUFFICES ASSUME TrainingInit PROVE TrainingInv
    OBVIOUS
  <1>1. TrainingTyped
    <2>1. trainer \in [Trainers -> TrainerStates]
      BY DEF TrainingInit, TrainerStates
    <2>2. certHistory \in [CertIds -> Seq(CertRows)]
          /\ certEvents \in [CertIds -> Seq(EventRows)]
      BY DEF TrainingInit
    <2>3. progress \in [Assignments -> [Lessons -> ProgressStates \cup {"none"}]]
      BY DEF TrainingInit
    <2> QED
      BY <2>1, <2>2, <2>3 DEF TrainingInit, TrainingTyped
  <1>2. \A r \in Trainers : trainer[r] = Seated /\ trainer[r].at = "seat"
    BY DEF TrainingInit, Seated
  <1>3. OneTrainer /\ ReadsHold /\ PatchReadsHold /\ CertIsLast
    BY <1>2 DEF TrainingInit, OneTrainer, ReadsHold, PatchReadsHold, CertIsLast
  <1>4. ASSUME NEW c \in CertIds PROVE Reported(c) = Happened(certHistory[c])
    <2>1. certHistory[c] = <<>> /\ certEvents[c] = <<>>
      BY DEF TrainingInit
    <2>2. Pairs(<<>>) = {}
      BY DEF Pairs
    <2>3. Pending(c) = {}
      BY <1>2 DEF Pending
    <2>4. Logged(c) = {}
      BY <2>1 DEF Logged
    <2>5. Reported(c) = {}
      BY <2>3, <2>4 DEF Reported
    <2>6. Happened(<<>>) = {}
      BY <2>2 DEF Happened
    <2> QED
      BY <2>1, <2>5, <2>6
  <1> QED
    BY <1>1, <1>3, <1>4 DEF TrainingInv

\* Steps that touch nothing of this, the passing of a day among them.
LEMMA TrainingSame ==
  ASSUME TrainingInv, today' \in Nat,
         UNCHANGED <<courseVars, certs, certHistory, certEvents, trainer, mixed,
                     unlogged>>
  PROVE  TrainingInv'
  <1>1. TrainingTyped' /\ OneTrainer' /\ ReadsHold' /\ PatchReadsHold' /\ CertIsLast'
    BY DEF TrainingInv, TrainingTyped, OneTrainer, ReadsHold, PatchReadsHold,
           CertIsLast, courseVars
  <1>2. \A c \in CertIds : Reported(c)' = Reported(c)
    BY DEF Reported, Pending, Logged
  <1> QED
    BY <1>1, <1>2 DEF TrainingInv

LEMMA TrainingStep == TrainingInv /\ [TrainingNext]_trainingVars => TrainingInv'
  <1> SUFFICES ASSUME TrainingInv, [TrainingNext]_trainingVars PROVE TrainingInv'
    OBVIOUS
  <1>1. CASE UNCHANGED trainingVars
    BY <1>1, TrainingSame DEF trainingVars, certVars, TrainingInv,
                              TrainingTyped
  <1>2. CASE DayPasses
    BY <1>2, TrainingSame DEF DayPasses, certVars, TrainingInv, TrainingTyped
  <1>3. ASSUME NEW r \in Trainers, NEW m \in Lessons,
               NEW need \in {"required", "optional"}, SaveLesson(r, m, need)
        PROVE  TrainingInv'
    BY <1>3, AtOnceStep DEF SaveLesson, certVars
  <1>4. ASSUME NEW r \in Trainers, NEW a \in Assignments, Assign(r, a)
        PROVE  TrainingInv'
    BY <1>4, AtOnceStep DEF Assign, certVars
  <1>5. ASSUME NEW r \in Trainers, NEW type \in CertTypes, ChangeRequirement(r, type)
        PROVE  TrainingInv'
    BY <1>5, AtOnceStep DEF ChangeRequirement, courseVars
  <1>6. CASE TrainingNext
    BY <1>2, <1>3, <1>4, <1>5, <1>6, DismissStep, LoadAssignmentStep,
       RecordProgressStep, ReadForCompletionStep, SelectRowsStep,
       InsertCompletionStep, IssueCertStep, LoadCertificationStep,
       PatchCertificationStep, InsertCertificationEventStep
       DEF TrainingNext
  <1> QED
    BY <1>1, <1>6

\* The report and the wallet judge a row the same as to whether it is expired:
\* the windows only tell what is about to expire.
LEMMA GapsFollow == TrainingInv => GapsAreReported
  <1> SUFFICES ASSUME TrainingInv, NEW c \in CertIds, c[2] \in required,
                      \E t \in CertTypes : certs[<<c[1], t>>] # NoCert,
                      certs[c] = NoCert \/ WalletStatus(c) \in {"expired", "revoked"}
               PROVE  \E gap \in GapReport : gap[1] = c
    BY DEF GapsAreReported
  <1>1. GapStatus(c) # "active"
    <2>1. CASE certs[c] = NoCert
      BY <2>1 DEF GapStatus
    <2>2. CASE certs[c] # NoCert
      <3>1. certs[c] \in CertRows
        BY <2>2 DEF TrainingInv, TrainingTyped
      <3> QED
        BY <2>2, <3>1 DEF GapStatus, WalletStatus, CertificationStatus,
                          CertRows, CertStates
    <2> QED
      BY <2>1, <2>2
  <1>2. PICK gap : gap = <<c, GapStatus(c)>>
    OBVIOUS
  <1>3. gap \in GapReport
    BY <1>1, <1>2 DEF GapReport
  <1> QED
    BY <1>2, <1>3

LEMMA PassedStep ==
  ASSUME TrainingInv, [TrainingNext]_trainingVars, NEW a \in Assignments,
         completions[a] # completions'[a]
  PROVE  /\ completions[a] = "none"
         /\ mixed \/ completions'[a] # "passed"
                  \/ \A m \in Lessons : lessons[m] = "required" =>
                       progress[a][m] = "completed"
  <1>1. PICK r \in Trainers, s \in CompletionStates : InsertCompletion(r, s)
    BY DEF TrainingNext, DayPasses, Dismiss, SaveLesson, RecordProgress,
           Assign, LoadAssignment, ReadForCompletion, SelectRows, IssueCert,
           LoadCertification, PatchCertification, InsertCertificationEvent,
           ChangeRequirement, courseVars, trainingVars
  <1>2. /\ completions[trainer[r].assignment] = "none"
        /\ completions' = [completions EXCEPT ![trainer[r].assignment] = s]
        /\ s = "passed" => /\ trainer[r].at = "modules"
                           /\ trainer[r].left = {}
                           /\ trainer[r].need \subseteq trainer[r].done
    BY <1>1 DEF InsertCompletion, AssignmentReadyToComplete
  <1>3. trainer[r].assignment = a /\ completions'[a] = s
    BY <1>1, <1>2 DEF TrainingInv, TrainingTyped
  <1>4. CASE ~ mixed /\ s = "passed"
    <2>1. /\ trainer[r].need = {m \in Lessons : lessons[m] = "required"}
          /\ trainer[r].done = {m \in Lessons : progress[a][m] = "completed"}
      BY <1>2, <1>3, <1>4 DEF TrainingInv, ReadsHold
    <2> QED
      BY <1>2, <1>3, <1>4, <2>1
  <1> QED
    BY <1>2, <1>3, <1>4
-----------------------------------------------------------------------------
\* The schedule board: the one call that is waited for, and what is on the screen.

BoardShape ==
  [week : Weeks, periods : SUBSET PeriodIds, busy : BOOLEAN,
   ready : PeriodIds \cup {NoPeriod}, period : PeriodIds \cup {NoPeriod},
   shifts : SUBSET PeriodIds]

Acting == {"generate", "shift", "validate", "publish"}

CallTyped(c) ==
  \/ c.kind = "periods" /\ c.of \in Rinks
  \/ c.kind \in {"board", "create", "assign"} \cup Acting /\ c.of \in PeriodIds

BoardTyped ==
  /\ rink \in Rinks /\ onFile \subseteq PeriodIds /\ board \in BoardShape
  /\ screen \in PeriodIds \cup {NoPeriod, NoBoard} /\ boardCalls \in Nat
  /\ hasty \in BOOLEAN
  /\ \A c \in called : CallTyped(c)

Here == <<rink, board.week>>
AtHome == \A p \in board.periods : p[1] = rink

\* What is drawn, when no answer is to come but those about assignments.
Calm ==
  screen # NoBoard =>
    /\ AtHome /\ screen = board.period
    /\ screen \in PeriodIds =>
         /\ screen = Here /\ board.shifts \subseteq {screen}
         /\ board.ready \in {screen, NoPeriod}

\* What a call that is waited for finds when its answer comes.
Expected(c) ==
  /\ c.kind = "periods" => c.of = rink /\ screen = NoBoard /\ called = {c}
  /\ c.kind = "board" => /\ c.of = Here /\ board.period = Here
                         /\ board.ready = NoPeriod /\ AtHome
  /\ c.kind = "create" => c.of = Here /\ screen = NoPeriod /\ Calm
  /\ c.kind \in Acting => c.of = c.seen /\ c.of = screen /\ screen \in PeriodIds /\ Calm

Patient ==
  /\ \A c, d \in called : c.kind # "assign" /\ d.kind # "assign" => c = d
  /\ \A c \in called : Expected(c)
  /\ (\A c \in called : c.kind = "assign") => Calm
  /\ (\E c \in called : c.kind = "assign") => screen # NoBoard

PanelInv == BoardTyped /\ (hasty \/ Patient)

LEMMA PeriodsAreNotMarks ==
  /\ NoPeriod \notin PeriodIds /\ NoBoard \notin PeriodIds /\ NoPeriod # NoBoard
  /\ \A p \in PeriodIds : p = <<p[1], p[2]>> /\ p[1] \in Rinks /\ p[2] \in Weeks
  BY ScheduleBoardAssumption DEF PeriodIds

LEMMA PanelInit == ScheduleBoardInit => PanelInv
  <1> SUFFICES ASSUME ScheduleBoardInit PROVE PanelInv
    OBVIOUS
  <1>1. PICK week \in Weeks : board = Board(rink, week)
    BY DEF ScheduleBoardInit
  <1>2. /\ board \in BoardShape /\ board.week = week /\ board.periods = OnFile(rink)
        /\ board.ready = NoPeriod
        /\ board.period = IF Here \in onFile THEN Here ELSE NoPeriod
        /\ board.shifts = {Here} \cap onFile
    BY <1>1 DEF Board, BoardShape, OnFile, PeriodIds, ScheduleBoardInit, Here
  <1>3. /\ rink \in Rinks /\ onFile \subseteq PeriodIds /\ called = {}
        /\ boardCalls = 0 /\ hasty = FALSE /\ screen = board.period
    BY DEF ScheduleBoardInit
  <1>4. BoardTyped
    BY <1>2, <1>3 DEF BoardTyped
  <1>5. Calm
    BY <1>2, <1>3, PeriodsAreNotMarks DEF Calm, AtHome, OnFile
  <1> QED
    BY <1>3, <1>4, <1>5 DEF PanelInv, Patient

\* A week is looked up: its period is there and its shifts are asked for, or
\* nothing is drawn but that there is none.
LEMMA ReloadWeekEnds ==
  ASSUME BoardTyped, NEW b \in BoardShape, NEW rest, ReloadWeek(b, rest)
  PROVE  /\ board' \in BoardShape /\ boardCalls' \in Nat
         /\ board'.week = b.week /\ board'.periods = b.periods
         /\ board'.ready = NoPeriod
         /\ \/ /\ board'.period = NoPeriod /\ screen' = NoPeriod /\ called' = rest
               /\ ~ \E p \in b.periods : p[2] = b.week
            \/ \E p \in b.periods, n \in Nat :
                 /\ p[2] = b.week /\ board'.period = p /\ screen' = screen
                 /\ called' = rest \cup
                      {[id |-> n, kind |-> "board", of |-> p, seen |-> screen]}
  <1> DEFINE found == {p \in b.periods : p[2] = b.week}
             next  == [b EXCEPT !.ready = NoPeriod]
  <1>1. CASE found = {}
    <2>1. /\ board' = [next EXCEPT !.period = NoPeriod, !.shifts = {}]
          /\ screen' = board'.period /\ called' = rest /\ boardCalls' = boardCalls
      BY <1>1 DEF ReloadWeek, DrawBoard, BoardDrops
    <2>2. board' = [week |-> b.week, periods |-> b.periods, busy |-> b.busy,
                    ready |-> NoPeriod, period |-> NoPeriod, shifts |-> {}]
      BY <2>1 DEF BoardShape
    <2> QED
      BY <1>1, <2>1, <2>2 DEF BoardShape, BoardTyped
  <1>2. CASE found # {}
    <2>1. PICK p \in found : /\ KeepScreen([next EXCEPT !.period = p])
                             /\ BoardAsks(rest, "board", p)
      BY <1>2 DEF ReloadWeek
    <2>2. board' = [week |-> b.week, periods |-> b.periods, busy |-> b.busy,
                    ready |-> NoPeriod, period |-> p, shifts |-> b.shifts]
      BY <2>1 DEF BoardShape, KeepScreen
    <2>3. p \in PeriodIds /\ p \in b.periods /\ p[2] = b.week
      BY DEF BoardShape
    <2>4. /\ board' \in BoardShape /\ board'.week = b.week
          /\ board'.periods = b.periods /\ board'.ready = NoPeriod /\ board'.period = p
      BY <2>2, <2>3 DEF BoardShape
    <2> QED
      BY <2>1, <2>3, <2>4 DEF BoardTyped, BoardAsks, KeepScreen
  <1> QED
    BY <1>1, <1>2

\* The week's period, once looked up among a facility's, is the one there is.
LEMMA ReloadedIsPatient ==
  ASSUME BoardTyped, NEW b \in BoardShape, NEW rest, ReloadWeek(b, rest),
         \A p \in b.periods : p[1] = rink, rink' = rink,
         \A c \in rest : c.kind = "assign",
         rest # {} => screen # NoBoard
  PROVE  Patient'
  <1>1. /\ board'.week = b.week /\ board'.periods = b.periods
        /\ board'.ready = NoPeriod /\ AtHome' /\ Here' = <<rink, b.week>>
    BY ReloadWeekEnds DEF AtHome, Here
  <1>2. CASE /\ board'.period = NoPeriod /\ screen' = NoPeriod /\ called' = rest
             /\ ~ \E p \in b.periods : p[2] = b.week
    BY <1>1, <1>2, PeriodsAreNotMarks DEF Patient, Calm, Expected, Acting
  <1>3. ASSUME NEW p \in b.periods, NEW n \in Nat,
               p[2] = b.week, board'.period = p, screen' = screen,
               called' = rest \cup
                 {[id |-> n, kind |-> "board", of |-> p, seen |-> screen]}
        PROVE  Patient'
    <2>1. p = <<rink, b.week>>
      BY <1>3, PeriodsAreNotMarks DEF BoardShape
    <2> PICK new : new = [id |-> n, kind |-> "board", of |-> p, seen |-> screen]
      OBVIOUS
    <2>2. new.kind = "board" /\ new.of = p
      OBVIOUS
    <2>3. Expected(new)'
      BY <1>1, <1>3, <2>1, <2>2 DEF Expected, Acting
    <2>4. \A c \in called' : c.kind = "assign" \/ c = new
      BY <1>3
    <2>5. \A c \in called' : Expected(c)'
      BY <2>3, <2>4 DEF Expected, Acting
    <2>6. new \in called'
      BY <1>3
    <2>7. (\E c \in called' : c.kind = "assign") => screen' # NoBoard
      BY <1>3, <2>2, <2>4
    <2> QED
      BY <2>2, <2>4, <2>5, <2>6, <2>7 DEF Patient
  <1> QED
    BY <1>2, <1>3, ReloadWeekEnds

\* A look-up by a step that changes nothing else but, perhaps, the facility's periods.
LEMMA LookedUp ==
  ASSUME PanelInv, NEW b \in BoardShape, NEW rest \in SUBSET called, ReloadWeek(b, rest),
         UNCHANGED rink, onFile' \in SUBSET PeriodIds, hasty' \in BOOLEAN,
         hasty' \/ /\ \A p \in b.periods : p[1] = rink
                   /\ \A c \in rest : c.kind = "assign"
                   /\ rest # {} => screen # NoBoard
  PROVE  PanelInv'
  <1>1. BoardTyped
    BY DEF PanelInv
  <1>2. \A c \in called' : CallTyped(c)
    <2>1. \A c \in rest : CallTyped(c)
      BY <1>1 DEF BoardTyped
    <2>2. \A p \in b.periods : p \in PeriodIds
      BY DEF BoardShape
    <2>3. \A p \in b.periods, n \in Nat :
            CallTyped([id |-> n, kind |-> "board", of |-> p, seen |-> screen])
      BY <2>2 DEF CallTyped
    <2> QED
      BY <1>1, <2>1, <2>3, ReloadWeekEnds
  <1>3. BoardTyped'
    BY <1>1, <1>2, ReloadWeekEnds DEF BoardTyped, CallTyped
  <1>4. hasty' \/ Patient'
    BY <1>1, ReloadedIsPatient
  <1> QED
    BY <1>3, <1>4 DEF PanelInv

LEMMA PeriodsCameStep ==
  ASSUME PanelInv, NEW c \in called, PeriodsCame(c)
  PROVE  PanelInv'
  <1>1. BoardTyped /\ c.kind = "periods" /\ UNCHANGED <<rink, onFile, published, hasty>>
        /\ c.of \in Rinks
    BY DEF PanelInv, BoardTyped, PeriodsCame, CallTyped, Acting
  <1>2. ~ hasty => c.of = rink /\ called = {c}
    BY <1>1 DEF PanelInv, Patient, Expected
  <1>3. CASE ReloadWeek([board EXCEPT !.periods = OnFile(c.of)], called \ {c})
    <2> PICK b, rest : /\ b = [board EXCEPT !.periods = OnFile(c.of)]
                       /\ rest = called \ {c}
      OBVIOUS
    <2>1. /\ b \in BoardShape /\ b.periods = OnFile(c.of) /\ ReloadWeek(b, rest)
          /\ rest \in SUBSET called
      BY <1>1, <1>3 DEF BoardTyped, BoardShape, OnFile
    <2>2. \A p \in b.periods : p[1] = c.of
      BY <2>1 DEF OnFile
    <2> QED
      BY <1>1, <1>2, <2>1, <2>2, LookedUp DEF BoardTyped
  <1>4. CASE board' = board /\ screen' = NoBoard /\ BoardDrops(called \ {c})
    <2>1. BoardTyped'
      BY <1>1, <1>4 DEF BoardTyped, BoardDrops, CallTyped
    <2>2. ~ hasty => Patient'
      BY <1>1, <1>2, <1>4 DEF Patient, Calm, BoardDrops
    <2> QED
      BY <1>1, <2>1, <2>2 DEF PanelInv
  <1> QED
    BY <1>3, <1>4 DEF PeriodsCame

LEMMA ChangeWeekStep ==
  ASSUME PanelInv, NEW week \in Weeks, ChangeWeek(week)
  PROVE  PanelInv'
  <1> PICK b, rest : b = [board EXCEPT !.week = week] /\ rest = called
    OBVIOUS
  <1>1. /\ BoardTyped /\ screen # NoBoard /\ ReloadWeek(b, rest)
        /\ hasty' = (hasty \/ called # {}) /\ UNCHANGED <<rink, onFile, published>>
    BY DEF PanelInv, ChangeWeek, Hasty
  <1>2. b \in BoardShape /\ b.periods = board.periods /\ rest \in SUBSET called
    BY <1>1 DEF BoardTyped, BoardShape
  <1>3. ~ hasty' => AtHome /\ rest = {}
    BY <1>1 DEF PanelInv, Patient, Calm
  <1> QED
    BY <1>1, <1>2, <1>3, LookedUp DEF BoardTyped, AtHome

LEMMA PeriodCreatedStep ==
  ASSUME PanelInv, NEW c \in called, PeriodCreated(c)
  PROVE  PanelInv'
  <1> PICK b, rest : b = [board EXCEPT !.busy = FALSE] /\ rest = called \ {c}
    OBVIOUS
  <1>1. /\ BoardTyped /\ c.kind = "create" /\ UNCHANGED <<rink, published, hasty>>
        /\ c.of \in PeriodIds
    BY DEF PanelInv, BoardTyped, PeriodCreated, CallTyped, Acting
  <1>2. /\ b \in BoardShape /\ rest \in SUBSET called
        /\ b.periods = board.periods /\ b.week = board.week /\ b.ready = board.ready
        /\ b.period = board.period /\ b.shifts = board.shifts
    BY <1>1 DEF BoardTyped, BoardShape
  <1>3. ~ hasty => /\ c.of = Here /\ Calm /\ screen = NoPeriod /\ AtHome
                   /\ board.period = screen
                   /\ \A d \in rest : d.kind = "assign"
    BY <1>1, PeriodsAreNotMarks DEF PanelInv, Patient, Expected, Calm
  <1>4. CASE /\ onFile' = onFile \cup {c.of}
             /\ ReloadWeek([b EXCEPT !.periods = @ \cup {c.of}], rest)
    <2> PICK more : more = [b EXCEPT !.periods = b.periods \cup {c.of}]
      OBVIOUS
    <2>1. more \in BoardShape /\ more.periods = b.periods \cup {c.of}
      BY <1>1, <1>2 DEF BoardShape
    <2>2. ReloadWeek(more, rest)
      BY <1>4
    <2>3. ~ hasty => \A p \in more.periods : p[1] = rink
      BY <1>2, <1>3, <2>1 DEF AtHome, Here
    <2> QED
      BY <1>1, <1>2, <1>3, <1>4, <2>1, <2>2, <2>3, PeriodsAreNotMarks,
         LookedUp
         DEF BoardTyped
  <1>5. CASE UNCHANGED onFile /\ DrawBoard(b) /\ BoardDrops(rest)
    <2>1. board' = b /\ screen' = b.period /\ called' = rest /\ boardCalls' = boardCalls
      BY <1>5 DEF DrawBoard, BoardDrops
    <2>2. BoardTyped'
      BY <1>1, <1>2, <1>5, <2>1 DEF BoardTyped, BoardShape, CallTyped
    <2>3. ~ hasty => Patient'
      BY <1>1, <1>2, <1>3, <2>1, PeriodsAreNotMarks
         DEF Patient, Calm, Expected, AtHome, Acting
    <2> QED
      BY <1>1, <2>2, <2>3 DEF PanelInv
  <1> QED
    BY <1>4, <1>5 DEF PeriodCreated

LEMMA SelectRinkStep ==
  ASSUME PanelInv, NEW f \in Rinks, SelectRink(f)
  PROVE  PanelInv'
  <1> PICK new : new = [id |-> boardCalls + 1, kind |-> "periods", of |-> f, seen |-> screen]
    OBVIOUS
  <1>1. /\ BoardTyped /\ rink' = f /\ UNCHANGED <<onFile, published>>
        /\ board' = [board EXCEPT !.ready = NoPeriod] /\ screen' = NoBoard
        /\ called' = called \cup {new} /\ boardCalls' = boardCalls + 1
        /\ hasty' = (hasty \/ called # {})
    BY DEF PanelInv, SelectRink, BoardAsks, Hasty
  <1>2. BoardTyped'
    BY <1>1 DEF BoardTyped, BoardShape, CallTyped
  <1>3. ~ hasty' => called' = {new} /\ new.kind = "periods" /\ new.of = f
    BY <1>1
  <1>4. ~ hasty' => Patient'
    BY <1>1, <1>3 DEF Patient, Calm, Expected, Acting
  <1> QED
    BY <1>2, <1>4 DEF PanelInv

LEMMA BoardCameStep ==
  ASSUME PanelInv, NEW c \in called, BoardCame(c)
  PROVE  PanelInv'
  <1>1. /\ BoardTyped /\ c.kind = "board" /\ called' = called \ {c}
        /\ UNCHANGED <<rink, onFile, published, hasty, boardCalls>>
    BY DEF PanelInv, BoardCame, BoardDrops
  <1>2. PICK shifts \in {{c.of}, {}} :
          board' = [board EXCEPT !.shifts = shifts] /\ screen' = board'.period
    BY DEF BoardCame, DrawBoard
  <1>3. c.of \in PeriodIds
    BY <1>1 DEF BoardTyped, CallTyped, Acting
  <1>4. /\ board' \in BoardShape /\ board'.week = board.week /\ board'.shifts = shifts
        /\ board'.periods = board.periods /\ board'.ready = board.ready
        /\ board'.period = board.period
    BY <1>1, <1>2, <1>3 DEF BoardTyped, BoardShape
  <1>5. BoardTyped'
    BY <1>1, <1>2, <1>4 DEF BoardTyped, BoardShape, CallTyped
  <1>6. ASSUME ~ hasty PROVE Patient'
    <2>1. /\ c.of = Here /\ board.period = Here /\ board.ready = NoPeriod /\ AtHome
          /\ \A d \in called' : d.kind = "assign"
      BY <1>1, <1>6 DEF PanelInv, Patient, Expected
    <2>2. Calm' /\ screen' # NoBoard
      BY <1>1, <1>2, <1>3, <1>4, <2>1, PeriodsAreNotMarks
         DEF Calm, AtHome, Here
    <2> QED
      BY <2>1, <2>2 DEF Patient, Expected, Acting
  <1> QED
    BY <1>1, <1>5, <1>6 DEF PanelInv

\* A button is pressed: a call is made of what is drawn.
LEMMA PressStep ==
  ASSUME PanelInv, NEW kind \in Acting, Press(kind)
  PROVE  PanelInv'
  <1> PICK new : new = [id |-> boardCalls + 1, kind |-> kind, of |-> board.period,
                        seen |-> screen]
    OBVIOUS
  <1>1. /\ BoardTyped /\ screen \in PeriodIds /\ board.period # NoPeriod
        /\ called' = called \cup {new} /\ boardCalls' = boardCalls + 1
        /\ hasty' = (hasty \/ called # {})
        /\ UNCHANGED <<rink, onFile, published, board, screen>>
    BY DEF PanelInv, Press, BoardAsks, Hasty
  <1>2. /\ new.kind = kind /\ new.kind # "assign" /\ new.of \in PeriodIds
        /\ new.of = board.period /\ new.seen = screen
    BY <1>1 DEF BoardTyped, BoardShape, Acting
  <1>3. BoardTyped'
    BY <1>1, <1>2 DEF BoardTyped, CallTyped
  <1>4. ASSUME ~ hasty' PROVE Patient'
    <2>1. called' = {new} /\ Calm
      BY <1>1, <1>4 DEF PanelInv, Patient
    <2>2. Calm'
      BY <1>1, <2>1 DEF Calm, AtHome, Here
    <2>3. board.period = screen
      BY <1>1, <2>1, PeriodsAreNotMarks DEF Calm
    <2>4. Expected(new)'
      BY <1>1, <1>2, <2>2, <2>3 DEF Expected, Acting
    <2> QED
      BY <1>2, <2>1, <2>4 DEF Patient
  <1> QED
    BY <1>3, <1>4 DEF PanelInv

LEMMA MakePeriodStep ==
  ASSUME PanelInv, MakePeriod
  PROVE  PanelInv'
  <1>1. /\ BoardTyped /\ screen = NoPeriod
        /\ board' = [board EXCEPT !.busy = TRUE] /\ screen' = board'.period
        /\ boardCalls' = boardCalls + 1
        /\ hasty' = (hasty \/ called # {})
        /\ UNCHANGED <<rink, onFile, published>>
    BY DEF PanelInv, MakePeriod, BoardAsks, DrawBoard, Hasty
  <1> PICK made : made = [id |-> boardCalls + 1, kind |-> "create",
                          of |-> <<rink, board.week>>, seen |-> screen]
    OBVIOUS
  <1>2. called' = called \cup {made}
    BY DEF MakePeriod, BoardAsks
  <1>3. /\ board' \in BoardShape /\ board'.week = board.week
        /\ board'.periods = board.periods /\ board'.period = board.period
        /\ board'.ready = board.ready /\ board'.shifts = board.shifts
        /\ made.kind = "create" /\ made.of = Here /\ Here \in PeriodIds
    BY <1>1 DEF BoardTyped, BoardShape, Here, PeriodIds
  <1>4. BoardTyped'
    BY <1>1, <1>2, <1>3 DEF BoardTyped, BoardShape, CallTyped
  <1>5. ASSUME ~ hasty' PROVE Patient'
    <2>1. called' = {made} /\ Calm /\ board.period = NoPeriod /\ AtHome
      BY <1>1, <1>2, <1>5, PeriodsAreNotMarks DEF PanelInv, Patient, Calm
    <2>2. Calm' /\ screen' = NoPeriod /\ Here' = Here
      BY <1>1, <1>3, <2>1, PeriodsAreNotMarks DEF Calm, AtHome, Here
    <2>3. Expected(made)'
      BY <1>3, <2>2 DEF Expected, Acting
    <2> QED
      BY <1>3, <2>1, <2>3 DEF Patient
  <1> QED
    BY <1>4, <1>5 DEF PanelInv

\* An answer to a button: what it brings is of the period that is drawn.
LEMMA ActedStep ==
  ASSUME PanelInv, NEW c \in called, c.kind \in Acting,
         called' = called \ {c}, screen' = board'.period,
         board' \in BoardShape, board'.week = board.week, board'.periods = board.periods,
         board'.period \in {board.period, c.of},
         board'.ready \in {board.ready, c.of},
         board'.shifts \in {board.shifts, board.shifts \cup {c.of}},
         UNCHANGED <<rink, onFile, hasty, boardCalls>>
  PROVE  PanelInv'
  <1>1. BoardTyped /\ c.of \in PeriodIds
    BY DEF PanelInv, BoardTyped, CallTyped, Acting
  <1>2. BoardTyped'
    BY <1>1 DEF BoardTyped, BoardShape, CallTyped
  <1>3. ASSUME ~ hasty PROVE Patient'
    <2>1. /\ c.of = screen /\ screen \in PeriodIds /\ Calm
          /\ \A d \in called' : d.kind = "assign"
      BY <1>3 DEF PanelInv, Patient, Expected, Acting
    <2>2. Calm' /\ screen' # NoBoard
      BY <1>1, <2>1, PeriodsAreNotMarks DEF Calm, AtHome, Here
    <2> QED
      BY <2>1, <2>2 DEF Patient, Expected, Acting
  <1> QED
    BY <1>2, <1>3 DEF PanelInv

LEMMA AnswersStep ==
  ASSUME PanelInv, NEW c \in called, ShiftsCame(c) \/ ReadinessCame(c) \/ Published(c)
  PROVE  PanelInv'
  <1>1. /\ BoardTyped /\ c.kind \in Acting /\ called' = called \ {c}
        /\ UNCHANGED <<rink, onFile, hasty, boardCalls>>
    BY DEF PanelInv, ShiftsCame, ReadinessCame, Published, BoardDrops, Acting
  <1>2. c.of \in PeriodIds
    BY <1>1 DEF BoardTyped, CallTyped, Acting
  <1>3. /\ screen' = board'.period
        /\ \/ board' = board
           \/ board' = [board EXCEPT !.shifts = board.shifts \cup {c.of}]
           \/ board' = [board EXCEPT !.ready = c.of]
           \/ board' = [board EXCEPT !.period = c.of]
    BY DEF ShiftsCame, ReadinessCame, Published, DrawBoard
  <1>4. board \in BoardShape
    BY <1>1 DEF BoardTyped
  <1>5. CASE board' = board
    BY <1>1, <1>3, <1>4, <1>5, ActedStep
  <1>6. CASE board' = [board EXCEPT !.shifts = board.shifts \cup {c.of}]
    <2>1. /\ board' \in BoardShape /\ board'.week = board.week
          /\ board'.periods = board.periods /\ board'.period = board.period
          /\ board'.ready = board.ready /\ board'.shifts = board.shifts \cup {c.of}
      BY <1>2, <1>4, <1>6 DEF BoardShape
    <2> QED
      BY <1>1, <1>3, <2>1, ActedStep
  <1>7. CASE board' = [board EXCEPT !.ready = c.of]
    <2>1. /\ board' \in BoardShape /\ board'.week = board.week
          /\ board'.periods = board.periods /\ board'.period = board.period
          /\ board'.ready = c.of /\ board'.shifts = board.shifts
      BY <1>2, <1>4, <1>7 DEF BoardShape
    <2> QED
      BY <1>1, <1>3, <2>1, ActedStep
  <1>8. CASE board' = [board EXCEPT !.period = c.of]
    <2>1. /\ board' \in BoardShape /\ board'.week = board.week
          /\ board'.periods = board.periods /\ board'.period = c.of
          /\ board'.ready = board.ready /\ board'.shifts = board.shifts
      BY <1>2, <1>4, <1>8 DEF BoardShape
    <2> QED
      BY <1>1, <1>3, <2>1, ActedStep
  <1> QED
    BY <1>3, <1>5, <1>6, <1>7, <1>8

\* What is drawn is drawn again.
LEMMA RedrawnStep ==
  ASSUME PanelInv, board' = board, screen' = board.period,
         UNCHANGED <<rink, onFile, hasty, boardCalls>>,
         \/ called' = called /\ screen \in PeriodIds
         \/ \E c \in called : c.kind = "assign" /\ called' = called \ {c}
  PROVE  PanelInv'
  <1>1. BoardTyped
    BY DEF PanelInv
  <1>2. BoardTyped'
    BY <1>1 DEF BoardTyped, BoardShape, CallTyped
  <1>3. ASSUME ~ hasty PROVE Patient'
    <2>1. /\ screen # NoBoard
          /\ \A c \in called' : c \in called
          /\ (\A c \in called' : c.kind = "assign") => \A c \in called : c.kind = "assign"
      BY <1>3, PeriodsAreNotMarks DEF PanelInv, Patient
    <2>2. Calm => Calm'
      BY <2>1 DEF Calm, AtHome, Here
    <2>3. screen' # NoBoard
      BY <1>1, PeriodsAreNotMarks DEF BoardTyped, BoardShape
    <2>4. ASSUME NEW c \in called' PROVE Expected(c)'
      <3>1. Expected(c)
        BY <1>3, <2>1 DEF PanelInv, Patient
      <3>2. c.kind # "periods"
        BY <2>1, <3>1 DEF Expected
      <3>3. Calm => board.period = screen
        BY <2>1 DEF Calm
      <3> QED
        BY <2>2, <3>1, <3>2, <3>3 DEF Expected, Here, AtHome
    <2> QED
      BY <1>3, <2>1, <2>2, <2>3, <2>4 DEF PanelInv, Patient
  <1> QED
    BY <1>2, <1>3 DEF PanelInv

LEMMA AssignShiftStep ==
  ASSUME PanelInv, AssignShift
  PROVE  PanelInv'
  <1>1. PICK p \in board.shifts :
          /\ boardCalls' = boardCalls + 1
          /\ called' = called \cup {[id |-> boardCalls + 1, kind |-> "assign", of |-> p,
                                     seen |-> screen]}
    BY DEF AssignShift, BoardAsks
  <1>2. /\ BoardTyped /\ screen \in PeriodIds
        /\ UNCHANGED <<rink, onFile, published, board, screen, hasty>>
    BY DEF PanelInv, AssignShift
  <1>3. PICK new : new = [id |-> boardCalls + 1, kind |-> "assign", of |-> p,
                          seen |-> screen]
    OBVIOUS
  <1>4. called' = called \cup {new} /\ new.kind = "assign" /\ new.of \in PeriodIds
    BY <1>1, <1>2, <1>3 DEF BoardTyped, BoardShape
  <1>5. BoardTyped'
    BY <1>1, <1>2, <1>4 DEF BoardTyped, CallTyped
  <1>6. ASSUME ~ hasty PROVE Patient'
    <2>1. Calm => Calm'
      BY <1>2 DEF Calm, AtHome, Here
    <2>2. ASSUME NEW c \in called' PROVE Expected(c)'
      <3>1. CASE c = new
        BY <1>4, <3>1 DEF Expected, Acting
      <3>2. CASE c \in called
        <4>1. Expected(c)
          BY <1>6, <3>2 DEF PanelInv, Patient
        <4>2. c.kind # "periods"
          BY <1>2, <4>1, PeriodsAreNotMarks DEF Expected
        <4> QED
          BY <1>2, <2>1, <4>1, <4>2 DEF Expected, Here, AtHome
      <3> QED
        BY <1>4, <3>1, <3>2
    <2> QED
      BY <1>2, <1>4, <1>6, <2>1, <2>2, PeriodsAreNotMarks DEF PanelInv, Patient
  <1> QED
    BY <1>2, <1>5, <1>6 DEF PanelInv

LEMMA PanelStep == PanelInv /\ [ScheduleBoardNext]_boardVars => PanelInv'
  <1> SUFFICES ASSUME PanelInv, [ScheduleBoardNext]_boardVars PROVE PanelInv'
    OBVIOUS
  <1>1. CASE UNCHANGED boardVars
    BY <1>1 DEF PanelInv, BoardTyped, CallTyped, Patient, Calm, Expected,
                AtHome, Here, boardVars
  <1>2. ASSUME NEW kind \in Acting, Press(kind) PROVE PanelInv'
    BY <1>2, PressStep
  <1>3. CASE GenerateFromTemplates \/ CreateShift \/ RunValidate \/ RunPublish
    BY <1>2, <1>3 DEF GenerateFromTemplates, CreateShift, RunValidate,
                      RunPublish, Acting
  <1>4. CASE ToggleCreateShift
    BY <1>4, RedrawnStep DEF ToggleCreateShift, DrawBoard
  <1>5. ASSUME NEW c \in called, Assigned(c) PROVE PanelInv'
    BY <1>5, RedrawnStep DEF Assigned, DrawBoard, BoardDrops
  <1> QED
    BY <1>1, <1>3, <1>4, <1>5, SelectRinkStep, ChangeWeekStep, MakePeriodStep,
       AssignShiftStep, PeriodsCameStep, BoardCameStep, PeriodCreatedStep,
       AnswersStep
       DEF ScheduleBoardNext

LEMMA PanelShows == PanelInv => BoardInv
  <1> SUFFICES ASSUME PanelInv, ~ hasty PROVE PublishesShown /\ BoardSettles
    BY DEF BoardInv
  <1>1. PublishesShown
    BY DEF PanelInv, Patient, Expected, Acting, PublishesShown
  <1>2. BoardSettles
    BY PeriodsAreNotMarks DEF PanelInv, Patient, Calm, Here, BoardSettles
  <1> QED
    BY <1>1, <1>2
-----------------------------------------------------------------------------
\* The message board: the message that is being composed, and what is known of
\* those that are shown.

MessageShape == [site : Sites, to : SUBSET Addressees, meant : SUBSET Addressees,
                 published : BOOLEAN]

Steps == {"draft", "audience", "publish"}

RequestTyped(c) ==
  /\ c = [id |-> c.id, kind |-> c.kind, of |-> c.of, at |-> c.at, to |-> c.to,
          done |-> c.done]
  /\ c.at \in Sites /\ c.to \in SUBSET Addressees
  /\ c.done # "sent" => c.kind \in Steps \cup {"acknowledge"}

PaneTyped(p) ==
  /\ p = [held |-> p.held, acked |-> p.acked, checked |-> p.checked, rows |-> p.rows]
  /\ p.rows \in SUBSET Addressees

MailTyped ==
  /\ IsFiniteSet(MessageIds) /\ MessageIds = 1 .. Cardinality(MessageIds)
  /\ messageRows \in [MessageIds -> MessageShape]
  /\ site \in Sites /\ PaneTyped(pane)
  /\ \A c \in posted : RequestTyped(c)

\* The message a call names is addressed to whom it was meant for.
ToMeant(c) == \E m \in MessageIds : /\ c.of = {m}
                                    /\ messageRows[m].to = messageRows[m].meant

\* A message that has no audience yet is meant for the rows of the form.
ToNobody(c) == \E m \in MessageIds : /\ c.of = {m} /\ messageRows[m].to = {}
                                     /\ messageRows[m].meant = pane.rows

OnItsWay(c) ==
  /\ c.kind \in {"draft", "audience"} /\ c.done # "failed" => pane.rows # {}
  /\ c.kind = "draft" /\ c.done = "sent" => c.to = pane.rows
  /\ c.kind = "draft" /\ c.done = "done" => ToNobody(c)
  /\ c.kind = "audience" /\ c.done = "sent" => ToNobody(c) /\ c.to = pane.rows
  /\ c.kind = "audience" /\ c.done = "done" => ToMeant(c)
  /\ c.kind = "publish" /\ c.done = "sent" => ToMeant(c)

AddressedInv ==
  {"sent", "audience", "site"} \cap impatient = {} =>
    /\ \A c, d \in posted : c.kind \in Steps /\ d.kind \in Steps => c = d
    /\ \A c \in posted : OnItsWay(c)
    /\ \A m \in MessageIds :
         messageRows[m].published => messageRows[m].to = messageRows[m].meant

\* An answer will say of a message that it is acknowledged.
WillTell(c, m) ==
  /\ m \in c.of
  /\ c.kind = "acks" \/ (c.kind = "acknowledge" /\ c.done = "done")

\* The messages of a facility that was left, until the list comes.
Leftover == ~ drawn /\ \A c \in posted : c.kind = "list"

KnownInv ==
  {"acks", "site"} \cap impatient = {} =>
    /\ \A m \in pane.checked \cap ackRows :
         m \in pane.acked \/ \E c \in posted : WillTell(c, m)
    /\ drawn => pane.held \subseteq pane.checked
    /\ pane.held \subseteq MessagesOf(site) \/ Leftover
    /\ \A c \in posted : c.kind = "list" => c.at = site

MailInv == MailTyped /\ AddressedInv /\ KnownInv

LEMMA MailInit == MessageBoardInit => MailInv
  <1> SUFFICES ASSUME MessageBoardInit PROVE MailInv
    OBVIOUS
  <1>1. PICK f \in Sites : messageRows =
          [m \in {1} |-> [site |-> f, to |-> Addressees, meant |-> Addressees,
                          published |-> TRUE]]
    BY DEF MessageBoardInit
  <1>2. /\ MessageIds = {1} /\ messageRows \in [MessageIds -> MessageShape]
        /\ messageRows[1].to = messageRows[1].meant
    BY <1>1 DEF MessageIds, MessageShape
  <1>3. IsFiniteSet({1}) /\ Cardinality({1}) = 1
    BY FS_Singleton
  <1>4. MailTyped
    BY <1>2, <1>3 DEF MailTyped, PaneTyped, MessageBoardInit
  <1>5. AddressedInv
    BY <1>2 DEF AddressedInv, MessageBoardInit
  <1>6. KnownInv
    BY DEF KnownInv, MessageBoardInit
  <1> QED
    BY <1>4, <1>5, <1>6 DEF MailInv

\* The panel is drawn: what was not looked at is asked about.
LEMMA RenderAsks ==
  ASSUME NEW p, NEW rest, PaneTyped(p), site \in Sites, Render(p, rest)
  PROVE  /\ PaneTyped(pane') /\ pane'.held = p.held /\ pane'.acked = p.acked
         /\ pane'.rows = p.rows /\ pane'.checked = p.checked \cup p.held /\ drawn' = TRUE
         /\ rest \subseteq posted'
         /\ \A d \in posted' : \/ d \in rest
                               \/ d.kind = "acks" /\ d.done = "sent" /\ RequestTyped(d)
         /\ \A m \in p.held : \/ m \in p.checked
                              \/ \E d \in posted' : WillTell(d, m)
  <1>1. /\ pane' = [p EXCEPT !.checked = p.checked \cup p.held] /\ drawn' = TRUE
        /\ IF p.held \ p.checked = {} THEN posted' = rest
           ELSE Request(rest, "acks", p.held \ p.checked, {})
    BY DEF Render
  <1>2. pane' = [held |-> p.held, acked |-> p.acked, checked |-> p.checked \cup p.held,
                 rows |-> p.rows]
    BY <1>1 DEF PaneTyped
  <1>3. PICK new : new = [id |-> Unused(rest), kind |-> "acks", of |-> p.held \ p.checked,
                          at |-> site, to |-> {}, done |-> "sent"]
    OBVIOUS
  <1>4. RequestTyped(new)
    BY <1>3 DEF RequestTyped
  <1>5. CASE p.held \ p.checked = {}
    <2>1. posted' = rest /\ \A m \in p.held : m \in p.checked
      BY <1>1, <1>5
    <2> QED
      BY <1>1, <1>2, <2>1 DEF PaneTyped
  <1>6. CASE p.held \ p.checked # {}
    <2>1. posted' = rest \cup {new}
      BY <1>1, <1>3, <1>6 DEF Request, RequestAt
    <2>2. \A m \in p.held : m \in p.checked \/ WillTell(new, m)
      BY <1>3 DEF WillTell
    <2>3. /\ rest \subseteq posted' /\ new \in posted'
          /\ \A d \in posted' : d \in rest \/ d = new
      BY <2>1
    <2>4. new.kind = "acks" /\ new.done = "sent"
      BY <1>3
    <2>5. PaneTyped(pane')
      BY <1>2 DEF PaneTyped
    <2> HIDE DEF WillTell, RequestTyped, PaneTyped
    <2> QED
      BY <1>1, <1>2, <1>4, <2>2, <2>3, <2>4, <2>5
  <1> QED
    BY <1>5, <1>6

\* An answer after which the panel is drawn.
LEMMA DrawnStep ==
  ASSUME MailInv, NEW c \in posted, NEW p, PaneTyped(p),
         p.rows = pane.rows, p.checked = pane.checked,
         Render(p, posted \ {c}), UNCHANGED <<site, messageRows, ackRows>>,
         impatient \subseteq impatient',
         {"acks", "site"} \cap impatient' = {} =>
           /\ pane.acked \subseteq p.acked
           /\ \A m \in ackRows : WillTell(c, m) => m \in p.acked
           /\ p.held \subseteq MessagesOf(site)
  PROVE  MailInv'
  <1> PICK rest : rest = posted \ {c}
    OBVIOUS
  <1>0. Render(p, rest)
    BY DEF Render, Request, RequestAt, Unused
  <1>1. MailTyped
    BY DEF MailInv
  <1>2. /\ PaneTyped(pane') /\ pane'.held = p.held /\ pane'.acked = p.acked
        /\ pane'.rows = p.rows /\ pane'.checked = p.checked \cup p.held /\ drawn' = TRUE
    BY <1>0, <1>1, RenderAsks DEF MailTyped
  <1>3. rest \subseteq posted'
    BY <1>0, <1>1, RenderAsks DEF MailTyped
  <1>4. \A d \in posted' : \/ d \in rest
                           \/ d.kind = "acks" /\ d.done = "sent" /\ RequestTyped(d)
    BY <1>0, <1>1, RenderAsks DEF MailTyped
  <1>9. \A m \in p.held : m \in p.checked \/ \E d \in posted' : WillTell(d, m)
    BY <1>0, <1>1, RenderAsks DEF MailTyped
  <1>5. MessageIds' = MessageIds /\ MessagesOf(site)' = MessagesOf(site)
    BY DEF MessageIds, MessagesOf
  <1>6. MailTyped'
    BY <1>1, <1>2, <1>4, <1>5 DEF MailTyped, RequestTyped, PaneTyped
  <1>7. AddressedInv'
    <2> SUFFICES ASSUME {"sent", "audience", "site"} \cap impatient' = {}
                 PROVE  AddressedInv'
      BY DEF AddressedInv
    <2>1. /\ \A d, e \in posted : d.kind \in Steps /\ e.kind \in Steps => d = e
          /\ \A d \in posted : OnItsWay(d)
          /\ \A m \in MessageIds :
               messageRows[m].published => messageRows[m].to = messageRows[m].meant
      BY DEF MailInv, AddressedInv
    <2>2. \A d \in posted : OnItsWay(d)'
      BY <1>2, <1>5, <2>1 DEF OnItsWay, ToNobody, ToMeant
    <2>3. \A d \in posted' : OnItsWay(d)'
      BY <1>4, <2>2 DEF OnItsWay
    <2> QED
      BY <1>4, <1>5, <2>1, <2>3 DEF AddressedInv, Steps
  <1>8. KnownInv'
    <2> SUFFICES ASSUME {"acks", "site"} \cap impatient' = {}
                 PROVE  KnownInv'
      BY DEF KnownInv
    <2>1. /\ \A m \in pane.checked \cap ackRows :
               m \in pane.acked \/ \E d \in posted : WillTell(d, m)
          /\ \A d \in posted : d.kind = "list" => d.at = site
      BY DEF MailInv, KnownInv
    <2>2. ASSUME NEW m \in pane'.checked \cap ackRows
          PROVE  m \in pane'.acked \/ \E d \in posted' : WillTell(d, m)
      <3>1. CASE m \in p.checked
        BY <1>2, <1>3, <2>1, <3>1
      <3>2. CASE m \notin p.checked
        BY <1>2, <1>9, <2>2, <3>2
      <3> QED
        BY <3>1, <3>2
    <2>3. \A d \in posted' : d.kind = "list" => d.at = site
      BY <1>4, <2>1
    <2> QED
      BY <1>2, <1>5, <2>2, <2>3 DEF KnownInv, WillTell
  <1> QED
    BY <1>6, <1>7, <1>8 DEF MailInv

LEMMA RequestPosts ==
  ASSUME NEW f \in Sites, NEW rest, NEW kind, NEW of, NEW extra \in SUBSET Addressees,
         RequestAt(f, rest, kind, of, extra)
  PROVE  \E new : /\ posted' = rest \cup {new} /\ RequestTyped(new)
                  /\ new.kind = kind /\ new.of = of /\ new.at = f /\ new.to = extra
                  /\ new.done = "sent"
  <1>1. PICK new : new = [id |-> Unused(rest), kind |-> kind, of |-> of, at |-> f,
                          to |-> extra, done |-> "sent"]
    OBVIOUS
  <1>2. posted' = rest \cup {new}
    BY <1>1 DEF RequestAt
  <1> QED
    BY <1>1, <1>2 DEF RequestTyped

LEMMA SelectSiteStep ==
  ASSUME MailInv, NEW f \in Sites, SelectSite(f)
  PROVE  MailInv'
  <1>1. /\ site' = f /\ drawn' = FALSE /\ UNCHANGED <<messageRows, ackRows>>
        /\ pane' = [pane EXCEPT !.acked = {}, !.checked = {}, !.rows = {}]
        /\ RequestAt(f, posted, "list", {}, {})
        /\ impatient' = impatient \cup (IF posted # {} THEN {"site"} ELSE {})
    BY DEF SelectSite, CommsReset, Impatient
  <1>2. MailTyped
    BY DEF MailInv
  <1>3. PICK new : /\ posted' = posted \cup {new} /\ RequestTyped(new)
                   /\ new.kind = "list" /\ new.at = f
    BY <1>1, RequestPosts
  <1>4. /\ pane' = [held |-> pane.held, acked |-> {}, checked |-> {}, rows |-> {}]
        /\ pane'.checked = {} /\ pane'.rows = {}
    BY <1>1, <1>2 DEF MailTyped, PaneTyped
  <1>5. MessageIds' = MessageIds
    BY <1>1 DEF MessageIds
  <1>6. MailTyped'
    BY <1>1, <1>2, <1>3, <1>4, <1>5 DEF MailTyped, PaneTyped, RequestTyped
  <1>7. "site" \notin impatient' => posted' = {new} /\ impatient' = impatient
    BY <1>1, <1>3
  <1>8. AddressedInv'
    BY <1>1, <1>3, <1>5, <1>7 DEF AddressedInv, OnItsWay, Steps, MailInv
  <1>9. KnownInv'
    BY <1>1, <1>3, <1>4, <1>7 DEF KnownInv, Leftover
  <1> QED
    BY <1>6, <1>8, <1>9 DEF MailInv

\* A list that does not come.
LEMMA ListLostStep ==
  ASSUME MailInv, NEW c \in posted, c.kind = "list", drawn' = FALSE, posted' = posted \ {c},
         UNCHANGED <<site, messageRows, ackRows, pane, impatient>>
  PROVE  MailInv'
  <1>1. MessageIds' = MessageIds /\ MessagesOf(site)' = MessagesOf(site)
    BY DEF MessageIds, MessagesOf
  <1>2. MailTyped'
    BY <1>1 DEF MailInv, MailTyped, RequestTyped, PaneTyped
  <1>3. AddressedInv'
    BY <1>1 DEF MailInv, AddressedInv, OnItsWay, ToMeant, ToNobody
  <1>4. KnownInv'
    <2> SUFFICES ASSUME {"acks", "site"} \cap impatient = {}
                 PROVE  KnownInv'
      BY DEF KnownInv
    <2>1. \A m \in pane.checked \cap ackRows :
            m \in pane.acked \/ \E d \in posted : WillTell(d, m)
      BY DEF MailInv, KnownInv
    <2>2. ~ \E m : WillTell(c, m)
      BY DEF WillTell
    <2>3. \A m \in pane.checked \cap ackRows :
            m \in pane.acked \/ \E d \in posted' : WillTell(d, m)
      BY <2>1, <2>2
    <2> QED
      BY <1>1, <2>3 DEF MailInv, KnownInv, Leftover, WillTell
  <1> QED
    BY <1>2, <1>3, <1>4 DEF MailInv

LEMMA ListCameStep ==
  ASSUME MailInv, NEW c \in posted, ListCame(c)
  PROVE  MailInv'
  <1>1. CASE Render([pane EXCEPT !.held = MessagesOf(c.at)], posted \ {c})
    <2>1. PICK p : p = [pane EXCEPT !.held = MessagesOf(c.at)]
      OBVIOUS
    <2>2. Render(p, posted \ {c})
      BY <1>1, <2>1
    <2>3. MailTyped /\ c.kind = "list" /\ UNCHANGED <<site, messageRows, ackRows, impatient>>
      BY DEF MailInv, ListCame
    <2>4. /\ p = [held |-> MessagesOf(c.at), acked |-> pane.acked, checked |-> pane.checked,
                  rows |-> pane.rows]
          /\ PaneTyped(p)
      BY <2>1, <2>3 DEF MailTyped, PaneTyped
    <2>5. {"acks", "site"} \cap impatient' = {} =>
            /\ pane.acked \subseteq p.acked
            /\ \A m \in ackRows : WillTell(c, m) => m \in p.acked
            /\ p.held \subseteq MessagesOf(site)
      BY <2>3, <2>4 DEF MailInv, KnownInv, WillTell
    <2> QED
      BY <2>2, <2>3, <2>4, <2>5, DrawnStep
  <1>2. CASE drawn' = FALSE /\ Over(c) /\ UNCHANGED pane
    BY <1>2, ListLostStep DEF ListCame, Over
  <1> QED
    BY <1>1, <1>2 DEF ListCame

LEMMA AcksCameStep ==
  ASSUME MailInv, NEW c \in posted, AcksCame(c)
  PROVE  MailInv'
  <1>1. MailTyped /\ c.kind = "acks" /\ UNCHANGED <<site, messageRows, ackRows>>
    BY DEF MailInv, AcksCame
  <1>2. "site" \notin impatient /\ "acks" \notin impatient =>
          pane.held \subseteq MessagesOf(site)
    BY <1>1 DEF MailInv, KnownInv, Leftover
  <1>3. CASE Render([pane EXCEPT !.acked = @ \cup (c.of \cap ackRows)], posted \ {c})
             /\ UNCHANGED impatient
    <2>1. PICK p : p = [pane EXCEPT !.acked = @ \cup (c.of \cap ackRows)]
      OBVIOUS
    <2>2. Render(p, posted \ {c}) /\ UNCHANGED impatient
      BY <1>3, <2>1
    <2>3. /\ p = [held |-> pane.held, acked |-> pane.acked \cup (c.of \cap ackRows),
                  checked |-> pane.checked, rows |-> pane.rows]
          /\ PaneTyped(p)
      BY <1>1, <2>1 DEF MailTyped, PaneTyped
    <2>4. {"acks", "site"} \cap impatient' = {} =>
            /\ pane.acked \subseteq p.acked
            /\ \A m \in ackRows : WillTell(c, m) => m \in p.acked
            /\ p.held \subseteq MessagesOf(site)
      BY <1>2, <2>2, <2>3 DEF WillTell
    <2> QED
      BY <1>1, <2>2, <2>3, <2>4, DrawnStep
  <1>4. CASE Render(pane, posted \ {c}) /\ Impatient("acks", TRUE)
    <2>1. "acks" \in impatient' /\ impatient \subseteq impatient'
      BY <1>4 DEF Impatient
    <2>2. {"acks", "site"} \cap impatient' # {}
      BY <2>1
    <2> QED
      BY <1>1, <1>4, <2>1, <2>2, DrawnStep DEF MailTyped
  <1> QED
    BY <1>3, <1>4 DEF AcksCame

LEMMA AcknowledgeCameStep ==
  ASSUME MailInv, NEW c \in posted, AcknowledgeCame(c)
  PROVE  MailInv'
  <1>1. /\ MailTyped /\ c.kind = "acknowledge"
        /\ UNCHANGED <<site, messageRows, ackRows, impatient>>
    BY DEF MailInv, AcknowledgeCame
  <1>2. PICK p : p = [pane EXCEPT !.acked = @ \cup c.of]
    OBVIOUS
  <1>3. Render(p, posted \ {c})
    BY <1>2 DEF AcknowledgeCame
  <1>4. /\ p = [held |-> pane.held, acked |-> pane.acked \cup c.of,
                checked |-> pane.checked, rows |-> pane.rows]
        /\ PaneTyped(p)
    BY <1>1, <1>2 DEF MailTyped, PaneTyped
  <1>5. {"acks", "site"} \cap impatient' = {} =>
          /\ pane.acked \subseteq p.acked
          /\ \A m \in ackRows : WillTell(c, m) => m \in p.acked
          /\ p.held \subseteq MessagesOf(site)
    BY <1>1, <1>4 DEF WillTell, MailInv, KnownInv, Leftover
  <1> QED
    BY <1>1, <1>3, <1>4, <1>5, DrawnStep

LEMMA CallFailedStep ==
  ASSUME MailInv, NEW c \in posted, CallFailed(c)
  PROVE  MailInv'
  <1>1. /\ MailTyped /\ c.done = "failed" /\ Render(pane, posted \ {c})
        /\ UNCHANGED <<site, messageRows, ackRows, impatient>>
    BY DEF MailInv, CallFailed
  <1>2. c.kind \in Steps \cup {"acknowledge"}
    BY <1>1 DEF MailTyped, RequestTyped
  <1>3. {"acks", "site"} \cap impatient' = {} =>
          /\ \A m \in ackRows : WillTell(c, m) => m \in pane.acked
          /\ pane.held \subseteq MessagesOf(site)
    BY <1>1, <1>2 DEF WillTell, MailInv, KnownInv, Leftover, Steps
  <1> QED
    BY <1>1, <1>3, DrawnStep DEF MailTyped

\* A call more, and nothing else, on a panel that is drawn.
LEMMA PostedStep ==
  ASSUME MailInv, NEW new, RequestTyped(new), posted' = posted \cup {new}, drawn,
         new.kind # "list", new.done = "sent",
         new.kind \in Steps =>
           /\ new.kind = "draft" /\ new.to = pane.rows /\ pane.rows # {}
           /\ "sent" \in impatient' \/ \A d \in posted : d.kind \notin Steps,
         impatient \subseteq impatient',
         UNCHANGED <<site, messageRows, ackRows, pane, drawn>>
  PROVE  MailInv'
  <1>1. MessageIds' = MessageIds /\ MessagesOf(site)' = MessagesOf(site)
    BY DEF MessageIds, MessagesOf
  <1>2. MailTyped'
    BY <1>1 DEF MailInv, MailTyped, RequestTyped, PaneTyped
  <1>3. AddressedInv'
    <2> SUFFICES ASSUME {"sent", "audience", "site"} \cap impatient' = {}
                 PROVE  AddressedInv'
      BY DEF AddressedInv
    <2>1. /\ \A d, e \in posted : d.kind \in Steps /\ e.kind \in Steps => d = e
          /\ \A d \in posted : OnItsWay(d)
          /\ \A m \in MessageIds :
               messageRows[m].published => messageRows[m].to = messageRows[m].meant
      BY DEF MailInv, AddressedInv
    <2>2. \A d \in posted : OnItsWay(d)'
      BY <1>1, <2>1 DEF OnItsWay, ToNobody, ToMeant
    <2>3. OnItsWay(new)'
      BY DEF OnItsWay, Steps
    <2>4. \A d, e \in posted' : d.kind \in Steps /\ e.kind \in Steps => d = e
      BY <2>1
    <2> QED
      BY <1>1, <2>1, <2>2, <2>3, <2>4 DEF AddressedInv
  <1>4. KnownInv'
    BY <1>1 DEF MailInv, KnownInv, Leftover, WillTell
  <1> QED
    BY <1>2, <1>3, <1>4 DEF MailInv

LEMMA PressAcknowledgeStep ==
  ASSUME MailInv, NEW m, PressAcknowledge(m)
  PROVE  MailInv'
  <1>1. /\ drawn /\ RequestAt(site, posted, "acknowledge", {m}, {})
        /\ UNCHANGED <<site, messageRows, ackRows, pane, drawn, impatient>>
    BY DEF PressAcknowledge, Request
  <1>2. site \in Sites
    BY DEF MailInv, MailTyped
  <1>3. PICK new : /\ posted' = posted \cup {new} /\ RequestTyped(new)
                   /\ new.kind = "acknowledge" /\ new.done = "sent"
    BY <1>1, <1>2, RequestPosts
  <1> QED
    BY <1>1, <1>3, PostedStep DEF Steps

LEMMA ComposeAndPublishStep ==
  ASSUME MailInv, ComposeAndPublish
  PROVE  MailInv'
  <1>1. /\ drawn /\ pane.rows # {} /\ RequestAt(site, posted, "draft", {}, pane.rows)
        /\ impatient' = impatient \cup (IF Composing # {} THEN {"sent"} ELSE {})
        /\ UNCHANGED <<site, messageRows, ackRows, pane, drawn>>
    BY DEF ComposeAndPublish, Request, Impatient
  <1>2. site \in Sites /\ pane.rows \in SUBSET Addressees
    BY DEF MailInv, MailTyped, PaneTyped
  <1>3. PICK new : /\ posted' = posted \cup {new} /\ RequestTyped(new)
                   /\ new.kind = "draft" /\ new.done = "sent" /\ new.to = pane.rows
    BY <1>1, <1>2, RequestPosts
  <1>4. "sent" \in impatient' \/ \A d \in posted : d.kind \notin Steps
    BY <1>1 DEF Composing, Steps
  <1>5. new.kind # "list" /\ impatient \subseteq impatient'
    BY <1>1, <1>3
  <1> QED
    BY <1>1, <1>3, <1>4, <1>5, PostedStep

LEMMA EditAudienceStep ==
  ASSUME MailInv, NEW rows \in SUBSET Addressees, EditAudience(rows)
  PROVE  MailInv'
  <1>1. /\ pane' = [pane EXCEPT !.rows = rows]
        /\ impatient' = impatient \cup (IF Composing # {} THEN {"audience"} ELSE {})
        /\ UNCHANGED <<site, messageRows, ackRows, drawn, posted>>
    BY DEF EditAudience, Impatient
  <1>2. MailTyped
    BY DEF MailInv
  <1>3. /\ pane' = [held |-> pane.held, acked |-> pane.acked, checked |-> pane.checked,
                    rows |-> rows]
        /\ PaneTyped(pane') /\ pane'.held = pane.held /\ pane'.acked = pane.acked
        /\ pane'.checked = pane.checked
    BY <1>1, <1>2 DEF MailTyped, PaneTyped
  <1>4. MessageIds' = MessageIds /\ MessagesOf(site)' = MessagesOf(site)
    BY <1>1 DEF MessageIds, MessagesOf
  <1>5. MailTyped'
    BY <1>1, <1>2, <1>3, <1>4 DEF MailTyped, RequestTyped, PaneTyped
  <1>6. AddressedInv'
    <2> SUFFICES ASSUME {"sent", "audience", "site"} \cap impatient' = {}
                 PROVE  AddressedInv'
      BY DEF AddressedInv
    <2>1. \A d \in posted : d.kind \notin Steps
      BY <1>1 DEF Composing, Steps
    <2>2. \A d \in posted' : d.kind \notin {"draft", "audience", "publish"}
      BY <1>1, <2>1 DEF Steps
    <2>3. \A m \in MessageIds :
            messageRows[m].published => messageRows[m].to = messageRows[m].meant
      BY <1>1 DEF MailInv, AddressedInv
    <2> QED
      BY <1>1, <1>4, <2>1, <2>2, <2>3 DEF AddressedInv, OnItsWay
  <1>7. KnownInv'
    BY <1>1, <1>3, <1>4 DEF MailInv, KnownInv, Leftover, WillTell
  <1> QED
    BY <1>5, <1>6, <1>7 DEF MailInv

\* The message that is being sent: one call follows another.
LEMMA NextCallStep ==
  ASSUME MailInv, NEW c \in posted, c.kind \in Steps, NEW new, RequestTyped(new),
         posted' = (posted \ {c}) \cup {new}, new.kind \in Steps, new.done = "sent",
         "sent" \notin impatient /\ "audience" \notin impatient /\ "site" \notin impatient =>
           OnItsWay(new),
         UNCHANGED <<site, messageRows, ackRows, pane, drawn, impatient>>
  PROVE  MailInv'
  <1>1. MessageIds' = MessageIds /\ MessagesOf(site)' = MessagesOf(site)
    BY DEF MessageIds, MessagesOf
  <1>2. MailTyped'
    BY <1>1 DEF MailInv, MailTyped, RequestTyped, PaneTyped
  <1>3. AddressedInv'
    <2> SUFFICES ASSUME {"sent", "audience", "site"} \cap impatient' = {}
                 PROVE  AddressedInv'
      BY DEF AddressedInv
    <2>1. /\ \A d, e \in posted : d.kind \in Steps /\ e.kind \in Steps => d = e
          /\ \A d \in posted : OnItsWay(d)
          /\ \A m \in MessageIds :
               messageRows[m].published => messageRows[m].to = messageRows[m].meant
      BY DEF MailInv, AddressedInv
    <2>2. OnItsWay(new)
      OBVIOUS
    <2>3. \A d \in posted' : OnItsWay(d)'
      BY <1>1, <2>1, <2>2 DEF OnItsWay, ToNobody, ToMeant
    <2>4. \A d, e \in posted' : d.kind \in Steps /\ e.kind \in Steps => d = e
      BY <2>1
    <2> QED
      BY <1>1, <2>1, <2>3, <2>4 DEF AddressedInv
  <1>4. KnownInv'
    <2>1. ~ \E m : WillTell(c, m)
      BY DEF WillTell, Steps
    <2>2. Leftover => FALSE
      BY DEF Leftover, Steps
    <2>3. new.kind # "list"
      BY DEF Steps
    <2>4. \A m : (\E d \in posted : WillTell(d, m)) => \E d \in posted' : WillTell(d, m)
      BY <2>1
    <2> QED
      BY <1>1, <2>2, <2>3, <2>4 DEF MailInv, KnownInv, WillTell
  <1> QED
    BY <1>2, <1>3, <1>4 DEF MailInv

LEMMA DraftCameStep ==
  ASSUME MailInv, NEW c \in posted, DraftCame(c)
  PROVE  MailInv'
  <1>1. /\ c.kind = "draft" /\ c.done = "done"
        /\ UNCHANGED <<site, messageRows, ackRows, pane, drawn, impatient>>
    BY DEF DraftCame
  <1>2. site \in Sites /\ pane.rows \in SUBSET Addressees
    BY DEF MailInv, MailTyped, PaneTyped
  <1>3. "sent" \notin impatient /\ "audience" \notin impatient /\ "site" \notin impatient =>
          ToNobody(c) /\ pane.rows # {}
    BY <1>1 DEF MailInv, AddressedInv, OnItsWay
  <1>4. CASE pane.rows # {}
    <2>1. RequestAt(site, posted \ {c}, "audience", c.of, pane.rows)
      BY <1>4 DEF DraftCame, SendAudience, Request
    <2>2. PICK new : /\ posted' = (posted \ {c}) \cup {new} /\ RequestTyped(new)
                     /\ new.kind = "audience" /\ new.of = c.of /\ new.to = pane.rows
                     /\ new.done = "sent"
      BY <1>2, <2>1, RequestPosts
    <2>3. ToNobody(c) => OnItsWay(new)
      BY <1>4, <2>2 DEF OnItsWay, ToNobody
    <2> QED
      BY <1>1, <1>3, <2>2, <2>3, NextCallStep DEF Steps
  <1>5. CASE pane.rows = {}
    <2>1. RequestAt(site, posted \ {c}, "publish", c.of, {})
      BY <1>5 DEF DraftCame, SendPublish, Request
    <2>2. PICK new : /\ posted' = (posted \ {c}) \cup {new} /\ RequestTyped(new)
                     /\ new.kind = "publish" /\ new.done = "sent"
      BY <1>2, <2>1, RequestPosts
    <2> QED
      BY <1>1, <1>3, <1>5, <2>2, NextCallStep DEF Steps
  <1> QED
    BY <1>4, <1>5

LEMMA AudienceCameStep ==
  ASSUME MailInv, NEW c \in posted, AudienceCame(c)
  PROVE  MailInv'
  <1>1. /\ c.kind = "audience" /\ c.done = "done"
        /\ RequestAt(site, posted \ {c}, "publish", c.of, {})
        /\ UNCHANGED <<site, messageRows, ackRows, pane, drawn, impatient>>
    BY DEF AudienceCame, SendPublish, Request
  <1>2. site \in Sites
    BY DEF MailInv, MailTyped
  <1>3. "sent" \notin impatient /\ "audience" \notin impatient /\ "site" \notin impatient =>
          ToMeant(c)
    BY <1>1 DEF MailInv, AddressedInv, OnItsWay
  <1>4. PICK new : /\ posted' = (posted \ {c}) \cup {new} /\ RequestTyped(new)
                   /\ new.kind = "publish" /\ new.of = c.of /\ new.done = "sent"
    BY <1>1, <1>2, RequestPosts
  <1>5. ToMeant(c) => OnItsWay(new)
    BY <1>4 DEF OnItsWay, ToMeant
  <1> QED
    BY <1>1, <1>3, <1>4, <1>5, NextCallStep DEF Steps

LEMMA PublishCameStep ==
  ASSUME MailInv, NEW c \in posted, PublishCame(c)
  PROVE  MailInv'
  <1>1. /\ c.kind = "publish" /\ c.done = "done" /\ pane' = [pane EXCEPT !.rows = {}]
        /\ RequestAt(site, posted \ {c}, "list", {}, {})
        /\ UNCHANGED <<site, messageRows, ackRows, drawn, impatient>>
    BY DEF PublishCame, Request
  <1>2. MailTyped
    BY DEF MailInv
  <1>3. PICK new : /\ posted' = (posted \ {c}) \cup {new} /\ RequestTyped(new)
                   /\ new.kind = "list" /\ new.at = site
    BY <1>1, <1>2, RequestPosts DEF MailTyped
  <1>4. /\ pane' = [held |-> pane.held, acked |-> pane.acked, checked |-> pane.checked,
                    rows |-> {}]
        /\ PaneTyped(pane') /\ pane'.held = pane.held /\ pane'.acked = pane.acked
        /\ pane'.checked = pane.checked
    BY <1>1, <1>2 DEF MailTyped, PaneTyped
  <1>5. MessageIds' = MessageIds /\ MessagesOf(site)' = MessagesOf(site)
    BY <1>1 DEF MessageIds, MessagesOf
  <1>6. MailTyped'
    BY <1>1, <1>2, <1>3, <1>4, <1>5 DEF MailTyped, RequestTyped, PaneTyped
  <1>7. AddressedInv'
    <2> SUFFICES ASSUME {"sent", "audience", "site"} \cap impatient = {}
                 PROVE  AddressedInv'
      BY <1>1 DEF AddressedInv
    <2>1. \A d \in posted' : d.kind \notin {"draft", "audience", "publish"}
      BY <1>1, <1>3 DEF MailInv, AddressedInv, Steps
    <2>2. \A m \in MessageIds :
            messageRows[m].published => messageRows[m].to = messageRows[m].meant
      BY DEF MailInv, AddressedInv
    <2> QED
      BY <1>1, <1>5, <2>1, <2>2 DEF AddressedInv, OnItsWay, Steps
  <1>8. KnownInv'
    <2>1. ~ \E m : WillTell(c, m)
      BY <1>1 DEF WillTell
    <2>2. \A m : (\E d \in posted : WillTell(d, m)) => \E d \in posted' : WillTell(d, m)
      BY <1>3, <2>1
    <2>3. ~ Leftover
      BY <1>1 DEF Leftover
    <2> QED
      BY <1>1, <1>3, <1>4, <1>5, <2>2, <2>3 DEF MailInv, KnownInv, WillTell
  <1> QED
    BY <1>6, <1>7, <1>8 DEF MailInv

\* What the server does leaves the messages there are, with the site and the
\* audience each was meant for.
LEMMA DoesToRows ==
  ASSUME MailTyped, NEW c, RequestTyped(c), c.kind \in Steps \cup {"acknowledge"}, Does(c)
  PROVE  /\ IsFiniteSet(MessageIds)' /\ (MessageIds = 1 .. Cardinality(MessageIds))'
         /\ (messageRows \in [MessageIds -> MessageShape])'
         /\ MessageIds \subseteq MessageIds'
         /\ MessageIds' \subseteq MessageIds \cup {NextMessage}
         /\ \A m \in MessageIds : /\ messageRows'[m].site = messageRows[m].site
                                  /\ messageRows'[m].meant = messageRows[m].meant
         /\ c.kind = "draft" =>
              /\ NextMessage \in MessageIds' /\ NextMessage \notin MessageIds
              /\ messageRows'[NextMessage].to = {}
              /\ messageRows'[NextMessage].meant = c.to
              /\ ~ messageRows'[NextMessage].published
              /\ \A m \in MessageIds : messageRows'[m] = messageRows[m]
         /\ c.kind # "draft" => MessageIds' = MessageIds
         /\ c.kind = "audience" =>
              \A m \in MessageIds :
                /\ messageRows'[m].published = messageRows[m].published
                /\ messageRows'[m].to = messageRows[m].to \cup (IF m \in c.of THEN c.to ELSE {})
         /\ c.kind = "publish" =>
              \A m \in MessageIds :
                /\ messageRows'[m].to = messageRows[m].to
                /\ m \notin c.of => messageRows'[m].published = messageRows[m].published
         /\ c.kind = "acknowledge" => messageRows' = messageRows /\ ackRows' = ackRows \cup c.of
         /\ c.kind # "acknowledge" => ackRows' = ackRows
  <1> DEFINE Count == Cardinality(MessageIds)
  <1>1. /\ IsFiniteSet(MessageIds) /\ MessageIds = 1 .. Count /\ Count \in Nat
        /\ messageRows \in [MessageIds -> MessageShape]
    BY FS_CardinalityType DEF MailTyped
  <1>2. CASE c.kind = "draft"
    <2>1. /\ ackRows' = ackRows
          /\ messageRows' = [m \in MessageIds \cup {NextMessage} |->
               IF m \in MessageIds THEN messageRows[m] ELSE
               [site |-> c.at, to |-> {}, meant |-> c.to, published |-> FALSE]]
      BY <1>2 DEF Does
    <2>2. NextMessage = Count + 1 /\ NextMessage \notin MessageIds
      BY <1>1 DEF NextMessage
    <2>3. MessageIds' = MessageIds \cup {NextMessage}
      BY <2>1 DEF MessageIds
    <2>4. MessageIds' = 1 .. Count + 1
      BY <1>1, <2>2, <2>3
    <2>5. IsFiniteSet(MessageIds') /\ Cardinality(MessageIds') = Count + 1
      BY <1>1, <2>2, <2>3, FS_AddElement
    <2>6. [site |-> c.at, to |-> {}, meant |-> c.to, published |-> FALSE] \in MessageShape
      BY DEF RequestTyped, MessageShape
    <2>7. messageRows' \in [MessageIds' -> MessageShape]
      BY <1>1, <2>1, <2>3, <2>6
    <2>8. \A m \in MessageIds : messageRows'[m] = messageRows[m]
      BY <2>1
    <2>9. messageRows'[NextMessage] =
            [site |-> c.at, to |-> {}, meant |-> c.to, published |-> FALSE]
      BY <2>1, <2>2
    <2> QED
      BY <1>2, <2>1, <2>2, <2>3, <2>4, <2>5, <2>7, <2>8, <2>9
  <1>3. CASE c.kind = "audience"
    <2>1. /\ ackRows' = ackRows
          /\ messageRows' = [m \in MessageIds |->
               IF m \in c.of THEN [messageRows[m] EXCEPT !.to = @ \cup c.to]
                             ELSE messageRows[m]]
      BY <1>3 DEF Does, Changed
    <2>2. MessageIds' = MessageIds
      BY <2>1 DEF MessageIds
    <2>3. \A m \in MessageIds :
            /\ messageRows'[m] \in MessageShape
            /\ messageRows'[m].site = messageRows[m].site
            /\ messageRows'[m].meant = messageRows[m].meant
            /\ messageRows'[m].published = messageRows[m].published
            /\ messageRows'[m].to = messageRows[m].to \cup (IF m \in c.of THEN c.to ELSE {})
      BY <1>1, <2>1 DEF MessageShape, RequestTyped
    <2>4. messageRows' \in [MessageIds' -> MessageShape]
      BY <2>1, <2>2, <2>3
    <2> QED
      BY <1>1, <1>3, <2>1, <2>2, <2>3, <2>4
  <1>4. CASE c.kind = "publish"
    <2>1. /\ ackRows' = ackRows
          /\ messageRows' = [m \in MessageIds |->
               IF m \in c.of THEN [messageRows[m] EXCEPT !.published = TRUE]
                             ELSE messageRows[m]]
      BY <1>4 DEF Does, Changed
    <2>2. MessageIds' = MessageIds
      BY <2>1 DEF MessageIds
    <2>3. \A m \in MessageIds :
            /\ messageRows'[m] \in MessageShape
            /\ messageRows'[m].site = messageRows[m].site
            /\ messageRows'[m].meant = messageRows[m].meant
            /\ messageRows'[m].to = messageRows[m].to
            /\ m \notin c.of => messageRows'[m].published = messageRows[m].published
      BY <1>1, <2>1 DEF MessageShape
    <2>4. messageRows' \in [MessageIds' -> MessageShape]
      BY <2>1, <2>2, <2>3
    <2> QED
      BY <1>1, <1>4, <2>1, <2>2, <2>3, <2>4
  <1>5. CASE c.kind = "acknowledge"
    <2>1. messageRows' = messageRows /\ ackRows' = ackRows \cup c.of
      BY <1>5 DEF Does
    <2>2. MessageIds' = MessageIds
      BY <2>1 DEF MessageIds
    <2> QED
      BY <1>1, <1>5, <2>1, <2>2
  <1> QED
    BY <1>2, <1>3, <1>4, <1>5 DEF Steps

\* A call the server answers, of which the panel does not know yet.
LEMMA HandledKnown ==
  ASSUME MailInv, NEW c \in posted, c.kind \in Steps \cup {"acknowledge"}, c.done = "sent",
         NEW new, posted' = (posted \ {c}) \cup {new}, new.kind = c.kind,
         c.kind # "draft" => new.of = c.of,
         MessagesOf(site) \subseteq MessagesOf(site)',
         \/ ackRows' = ackRows
         \/ /\ c.kind = "acknowledge" /\ ackRows' = ackRows \cup c.of
            /\ new.done = "done" \/ "acks" \in impatient',
         impatient \subseteq impatient', UNCHANGED <<site, pane, drawn>>
  PROVE  KnownInv'
  <1> SUFFICES ASSUME {"acks", "site"} \cap impatient' = {}
               PROVE  KnownInv'
    BY DEF KnownInv
  <1>1. /\ \A m \in pane.checked \cap ackRows :
             m \in pane.acked \/ \E d \in posted : WillTell(d, m)
        /\ drawn => pane.held \subseteq pane.checked
        /\ pane.held \subseteq MessagesOf(site) \/ Leftover
        /\ \A d \in posted : d.kind = "list" => d.at = site
    BY DEF MailInv, KnownInv
  <1>2. ~ \E m : WillTell(c, m)
    BY DEF WillTell, Steps
  <1>3. ~ Leftover
    BY DEF Leftover, Steps
  <1>4. new.kind # "list"
    BY DEF Steps
  <1>5. ASSUME NEW m \in pane.checked \cap ackRows'
        PROVE  m \in pane.acked \/ \E d \in posted' : WillTell(d, m)
    <2>1. CASE m \in ackRows
      BY <1>1, <1>2, <1>5, <2>1
    <2>2. CASE m \notin ackRows
      <3>1. WillTell(new, m)
        BY <1>5, <2>2 DEF WillTell
      <3> QED
        BY <3>1
    <2> QED
      BY <2>1, <2>2
  <1>6. \A d \in posted' : d.kind = "list" => d.at = site
    BY <1>1, <1>4
  <1>7. pane.held \subseteq MessagesOf(site)'
    BY <1>1, <1>3
  <1> QED
    BY <1>1, <1>5, <1>6, <1>7 DEF KnownInv, WillTell

LEMMA HandledAddressed ==
  ASSUME MailInv, NEW c \in posted, c.kind \in Steps \cup {"acknowledge"}, c.done = "sent",
         NEW new, posted' = (posted \ {c}) \cup {new}, new.kind = c.kind,
         new.done \in {"done", "failed"},
         new.done = "done" => Does(c) /\ new.of = IF c.kind = "draft" THEN {NextMessage} ELSE c.of,
         Does(c) \/ UNCHANGED <<messageRows, ackRows>>,
         impatient \subseteq impatient', UNCHANGED <<site, pane, drawn>>
  PROVE  AddressedInv'
  <1> SUFFICES ASSUME {"sent", "audience", "site"} \cap impatient' = {}
               PROVE  AddressedInv'
    BY DEF AddressedInv
  <1>1. MailTyped /\ RequestTyped(c)
    BY DEF MailInv, MailTyped
  <1>2. /\ \A d, e \in posted : d.kind \in Steps /\ e.kind \in Steps => d = e
        /\ \A d \in posted : OnItsWay(d)
        /\ \A m \in MessageIds :
             messageRows[m].published => messageRows[m].to = messageRows[m].meant
    BY DEF MailInv, AddressedInv
  <1>3. \A d, e \in posted' : d.kind \in Steps /\ e.kind \in Steps => d = e
    BY <1>2
  <1>4. CASE UNCHANGED <<messageRows, ackRows>> /\ new.done = "failed"
    <2>1. MessageIds' = MessageIds
      BY <1>4 DEF MessageIds
    <2>2. \A d \in posted : OnItsWay(d)'
      BY <1>2, <1>4, <2>1 DEF OnItsWay, ToMeant, ToNobody
    <2>3. OnItsWay(new)'
      BY <1>4 DEF OnItsWay
    <2> QED
      BY <1>2, <1>3, <1>4, <2>1, <2>2, <2>3 DEF AddressedInv
  <1>5. CASE Does(c)
    <2>1. CASE c.kind = "acknowledge"
      <3>1. messageRows' = messageRows /\ MessageIds' = MessageIds
        BY <1>1, <1>5, <2>1, DoesToRows
      <3>2. \A d \in posted : OnItsWay(d)'
        BY <1>2, <3>1 DEF OnItsWay, ToMeant, ToNobody
      <3>3. OnItsWay(new)'
        BY <2>1 DEF OnItsWay
      <3> QED
        BY <1>2, <1>3, <3>1, <3>2, <3>3 DEF AddressedInv
    <2>2. CASE c.kind \in Steps
      <3>1. OnItsWay(c) /\ \A d \in posted' : d = new \/ d.kind \notin Steps
        BY <1>2, <2>2
      <3>2. \A d : d.kind \notin Steps => OnItsWay(d)'
        BY DEF OnItsWay, Steps
      <3>3. SUFFICES /\ OnItsWay(new)'
                     /\ \A m \in MessageIds' :
                          messageRows'[m].published => messageRows'[m].to = messageRows'[m].meant
        BY <1>3, <3>1, <3>2 DEF AddressedInv
      <3>4. CASE c.kind = "draft"
        <4>1. /\ NextMessage \in MessageIds' /\ messageRows'[NextMessage].to = {}
              /\ messageRows'[NextMessage].meant = c.to
              /\ ~ messageRows'[NextMessage].published
              /\ \A m \in MessageIds : messageRows'[m] = messageRows[m]
              /\ MessageIds' \subseteq MessageIds \cup {NextMessage}
          BY <1>1, <1>5, <3>4, DoesToRows
        <4>2. c.to = pane.rows /\ pane.rows # {}
          BY <3>1, <3>4 DEF OnItsWay
        <4>3. PICK next : next = NextMessage
          OBVIOUS
        <4>4. new.done = "done" => ToNobody(new)'
          BY <3>4, <4>1, <4>2, <4>3 DEF ToNobody
        <4>5. OnItsWay(new)'
          BY <3>4, <4>2, <4>4 DEF OnItsWay
        <4> QED
          BY <1>2, <4>1, <4>5
      <3>5. CASE c.kind = "audience"
        <4>1. /\ MessageIds' = MessageIds
              /\ \A m \in MessageIds :
                   /\ messageRows'[m].meant = messageRows[m].meant
                   /\ messageRows'[m].published = messageRows[m].published
                   /\ messageRows'[m].to = messageRows[m].to \cup (IF m \in c.of THEN c.to ELSE {})
          BY <1>1, <1>5, <3>5, DoesToRows
        <4>2. ToNobody(c) /\ c.to = pane.rows /\ pane.rows # {}
          BY <3>1, <3>5 DEF OnItsWay
        <4>3. PICK n \in MessageIds : /\ c.of = {n} /\ messageRows[n].to = {}
                                      /\ messageRows[n].meant = pane.rows
          BY <4>2 DEF ToNobody
        <4>4. messageRows'[n].to = messageRows'[n].meant
          BY <4>1, <4>2, <4>3
        <4>5. new.done = "done" => ToMeant(new)'
          BY <3>5, <4>1, <4>3, <4>4 DEF ToMeant
        <4>6. OnItsWay(new)'
          BY <3>5, <4>2, <4>5 DEF OnItsWay
        <4>7. ASSUME NEW m \in MessageIds, m # n
              PROVE  messageRows'[m].to = messageRows[m].to
          <5>1. m \notin c.of
            BY <4>3, <4>7
          <5>2. messageRows'[m].to = messageRows[m].to \cup {}
            BY <4>1, <5>1
          <5> QED
            BY <5>2
        <4> QED
          BY <1>2, <4>1, <4>4, <4>6, <4>7
      <3>6. CASE c.kind = "publish"
        <4>1. /\ MessageIds' = MessageIds
              /\ \A m \in MessageIds :
                   /\ messageRows'[m].meant = messageRows[m].meant
                   /\ messageRows'[m].to = messageRows[m].to
                   /\ m \notin c.of => messageRows'[m].published = messageRows[m].published
          BY <1>1, <1>5, <3>6, DoesToRows
        <4>2. PICK n \in MessageIds : c.of = {n} /\ messageRows[n].to = messageRows[n].meant
          BY <3>1, <3>6 DEF OnItsWay, ToMeant
        <4>3. OnItsWay(new)'
          BY <3>6 DEF OnItsWay
        <4> QED
          BY <1>2, <4>1, <4>2, <4>3
      <3> QED
        BY <2>2, <3>4, <3>5, <3>6 DEF Steps
    <2> QED
      BY <2>1, <2>2
  <1> QED
    BY <1>4, <1>5

LEMMA HandleStep ==
  ASSUME MailInv, NEW c \in posted, Handle(c)
  PROVE  MailInv'
  <1>1. /\ MailTyped /\ RequestTyped(c) /\ c.done = "sent"
        /\ c.kind \in Steps \cup {"acknowledge"}
        /\ UNCHANGED <<site, pane, drawn>>
    BY DEF MailInv, MailTyped, Handle, Steps
  <1>2. PICK new :
          /\ posted' = (posted \ {c}) \cup {new}
          /\ \/ /\ Does(c) /\ UNCHANGED impatient
                /\ new = [c EXCEPT !.done = "done",
                                   !.of = IF c.kind = "draft" THEN {NextMessage} ELSE @]
             \/ /\ Does(c) \/ UNCHANGED <<messageRows, ackRows>>
                /\ new = [c EXCEPT !.done = "failed"]
                /\ impatient' = impatient \cup (IF c.kind = "acknowledge" THEN {"acks"} ELSE {})
    BY DEF Handle, Handled, Impatient
  <1>3. c = [id |-> c.id, kind |-> c.kind, of |-> c.of, at |-> c.at, to |-> c.to,
             done |-> c.done]
    BY <1>1 DEF RequestTyped
  <1>4. /\ RequestTyped(new) /\ new.kind = c.kind /\ new.done \in {"done", "failed"}
        /\ c.kind # "draft" => new.of = c.of
        /\ impatient \subseteq impatient'
        /\ Does(c) \/ UNCHANGED <<messageRows, ackRows>>
        /\ new.done = "done" =>
             Does(c) /\ new.of = IF c.kind = "draft" THEN {NextMessage} ELSE c.of
        /\ new.done = "done" \/ c.kind # "acknowledge" \/ "acks" \in impatient'
    <2>1. CASE /\ Does(c) /\ UNCHANGED impatient
               /\ new = [c EXCEPT !.done = "done",
                                  !.of = IF c.kind = "draft" THEN {NextMessage} ELSE @]
      <3>1. new = [id |-> c.id, kind |-> c.kind,
                   of |-> IF c.kind = "draft" THEN {NextMessage} ELSE c.of,
                   at |-> c.at, to |-> c.to, done |-> "done"]
        BY <1>3, <2>1
      <3> QED
        BY <1>1, <2>1, <3>1 DEF RequestTyped
    <2>2. CASE /\ Does(c) \/ UNCHANGED <<messageRows, ackRows>>
               /\ new = [c EXCEPT !.done = "failed"]
               /\ impatient' = impatient \cup (IF c.kind = "acknowledge" THEN {"acks"} ELSE {})
      <3>1. new = [id |-> c.id, kind |-> c.kind, of |-> c.of, at |-> c.at, to |-> c.to,
                   done |-> "failed"]
        BY <1>3, <2>2
      <3> QED
        BY <1>1, <2>2, <3>1 DEF RequestTyped
    <2> QED
      BY <1>2, <2>1, <2>2
  <1>5. /\ IsFiniteSet(MessageIds)' /\ (MessageIds = 1 .. Cardinality(MessageIds))'
        /\ (messageRows \in [MessageIds -> MessageShape])'
        /\ MessagesOf(site) \subseteq MessagesOf(site)'
        /\ ackRows' = ackRows \/ (c.kind = "acknowledge" /\ ackRows' = ackRows \cup c.of)
    <2>1. CASE Does(c)
      <3>1. /\ MessageIds \subseteq MessageIds'
            /\ \A m \in MessageIds : messageRows'[m].site = messageRows[m].site
        BY <1>1, <2>1, DoesToRows
      <3>2. MessagesOf(site) \subseteq MessagesOf(site)'
        BY <1>1, <3>1 DEF MessagesOf
      <3> QED
        BY <1>1, <2>1, <3>2, DoesToRows
    <2>2. CASE UNCHANGED <<messageRows, ackRows>>
      <3>1. MessageIds' = MessageIds
        BY <2>2 DEF MessageIds
      <3> QED
        BY <1>1, <2>2, <3>1 DEF MailTyped, MessagesOf
    <2> QED
      BY <1>4, <2>1, <2>2
  <1>6. MailTyped'
    BY <1>1, <1>2, <1>4, <1>5 DEF MailTyped, RequestTyped, PaneTyped
  <1>7. AddressedInv'
    BY <1>1, <1>2, <1>4, HandledAddressed
  <1>8. KnownInv'
    BY <1>1, <1>2, <1>4, <1>5, HandledKnown
  <1> QED
    BY <1>6, <1>7, <1>8 DEF MailInv

LEMMA MailStep == MailInv /\ [MessageBoardNext]_messageBoardVars => MailInv'
  <1> SUFFICES ASSUME MailInv, [MessageBoardNext]_messageBoardVars
               PROVE  MailInv'
    OBVIOUS
  <1>1. CASE UNCHANGED messageBoardVars
    BY <1>1 DEF messageBoardVars, MailInv, MailTyped, AddressedInv, KnownInv,
                MessageIds, MessagesOf, RequestTyped, PaneTyped, OnItsWay,
                ToMeant, ToNobody, WillTell, Leftover
  <1>2. ASSUME NEW c \in posted,
               \/ ListCame(c) \/ AcksCame(c) \/ DraftCame(c) \/ AudienceCame(c)
               \/ PublishCame(c) \/ AcknowledgeCame(c) \/ CallFailed(c) \/ Handle(c)
        PROVE  MailInv'
    BY <1>2, ListCameStep, AcksCameStep, DraftCameStep, AudienceCameStep,
       PublishCameStep, AcknowledgeCameStep, CallFailedStep, HandleStep
  <1>3. CASE \E f \in Sites : SelectSite(f)
    BY <1>3, SelectSiteStep
  <1>4. CASE \E m \in MessageIds : PressAcknowledge(m)
    BY <1>4, PressAcknowledgeStep
  <1>5. CASE \E rows \in SUBSET Addressees : EditAudience(rows)
    BY <1>5, EditAudienceStep
  <1>6. CASE ComposeAndPublish
    BY <1>6, ComposeAndPublishStep
  <1> QED
    BY <1>1, <1>2, <1>3, <1>4, <1>5, <1>6 DEF MessageBoardNext

LEMMA MailIsRight == MailInv => MessageBoardInv
  <1> SUFFICES ASSUME MailInv PROVE MessageBoardInv
    OBVIOUS
  <1>1. SentAsAddressed
    BY DEF MailInv, AddressedInv, SentAsAddressed
  <1>2. ShownAsAcked
    <2> SUFFICES ASSUME posted = {}, drawn, {"acks", "site"} \cap impatient = {}
                 PROVE  /\ pane.held \cap ackRows \subseteq pane.acked
                        /\ pane.held \subseteq MessagesOf(site)
      BY DEF ShownAsAcked
    <2> QED
      BY DEF MailInv, KnownInv, Leftover
  <1> QED
    BY <1>1, <1>2 DEF MessageBoardInv

-----------------------------------------------------------------------------
\* The types of the variables: what the invariants above leave out.

IncidentsRest ==
  /\ requests <= MaxRequests /\ collided \in BOOLEAN
  /\ \A i \in Incidents : submitted[i] <= MaxRequests /\ wording[i] <= MaxRequests
  /\ hold \in [Incidents -> BOOLEAN]
  /\ escalation \in [Escalations -> [of : Incidents \cup {NoIncident},
        status : {"none", "pending", "acknowledged", "resolved"}]]
  /\ followUp \in [FollowUps -> [of : Incidents \cup {NoIncident},
        status : {"none", "completed", "waived"} \cup Unfinished]]
  /\ \A h \in Handlers : handler[h].at = "followup" => handler[h].of \in Incidents

LEMMA IncidentsRestInit == IncidentsInit => IncidentsRest
  <1> SUFFICES ASSUME IncidentsInit PROVE IncidentsRest
    OBVIOUS
  <1>1. PICK known : /\ number = [i \in Incidents |-> IF i \in known THEN 1 ELSE 0]
                     /\ submitted = number
    BY DEF IncidentsInit
  <1>2. requests = 1 /\ collided = FALSE /\ \A h \in Handlers : handler[h] = Idle
    BY DEF IncidentsInit
  <1>3. /\ hold = [i \in Incidents |-> FALSE] /\ wording = [i \in Incidents |-> 0]
        /\ escalation = [e \in Escalations |-> NoRow] /\ followUp = [f \in FollowUps |-> NoRow]
    BY DEF IncidentsInit
  <1>4. requests <= MaxRequests
        /\ \A i \in Incidents : submitted[i] <= MaxRequests /\ wording[i] <= MaxRequests
    BY <1>1, <1>2, <1>3, IncidentsAssumption
  <1>5. \A h \in Handlers : handler[h].at # "followup"
    BY <1>2 DEF Idle
  <1>6. /\ escalation \in [Escalations -> [of : Incidents \cup {NoIncident},
              status : {"none", "pending", "acknowledged", "resolved"}]]
        /\ followUp \in [FollowUps -> [of : Incidents \cup {NoIncident},
              status : {"none", "completed", "waived"} \cup Unfinished]]
    BY <1>3 DEF NoRow, Unfinished
  <1> QED
    BY <1>2, <1>3, <1>4, <1>5, <1>6 DEF IncidentsRest

\* A handler that writes no row of the facility.
LEMMA HandlerTurns ==
  ASSUME RecordInv, IncidentsRest, NEW h \in Handlers, NEW r,
         handler' = [handler EXCEPT ![h] = r],
         r.at = "followup" => r.of \in Incidents
  PROVE  \A g \in Handlers : handler'[g].at = "followup" => handler'[g].of \in Incidents
  BY DEF RecordInv, IncidentsRest

LEMMA HandlerReads ==
  ASSUME RecordInv, IncidentsRest, NEW h \in Handlers, NEW r,
         handler' = [handler EXCEPT ![h] = r],
         r.at = "followup" => r.of \in Incidents,
         UNCHANGED <<submitted, wording, hold, escalation, followUp>>,
         requests' <= MaxRequests, collided' \in BOOLEAN
  PROVE  IncidentsRest'
  <1>1. \A g \in Handlers : handler'[g].at = "followup" => handler'[g].of \in Incidents
    BY HandlerTurns
  <1> QED
    BY <1>1 DEF IncidentsRest

LEMMA ReadsRest ==
  ASSUME RecordInv, IncidentsRest, NEW h \in Handlers,
         \/ GiveUp(h) \/ WriteAuditEvent(h) \/ CreateRead(h) \/ CreateConflict(h)
         \/ \E i \in Incidents :
              \/ CreateInsert(h, i)
              \/ \E at \in {"submit", "status", "hold", "amend", "escalate",
                            "followup"} : LoadIncident(h, i, at)
         \/ \E to \in {"under_review", "escalated", "action_pending", "closed"},
               holder \in BOOLEAN : TransitionCheck(h, to, holder)
         \/ \E e \in Escalations :
              LoadEscalation(h, e, "acknowledge") \/ LoadEscalation(h, e, "resolve")
         \/ \E f \in FollowUps : LoadFollowUp(h, f)
  PROVE  IncidentsRest'
  <1>1. ASSUME NEW r, Become(h, r), r.at # "followup",
               UNCHANGED <<submitted, wording, hold, escalation, followUp>>
        PROVE  IncidentsRest'
    BY <1>1, HandlerReads DEF Become, IncidentsRest
  <1>2. ASSUME NEW r, Receive(h, r), r.at = "followup" => r.of \in Incidents,
               UNCHANGED <<submitted, wording, hold, escalation, followUp>>
        PROVE  IncidentsRest'
    <2>1. requests' <= MaxRequests /\ collided' \in BOOLEAN
      BY <1>2, IncidentsAssumption DEF Receive, RecordInv
    <2> QED
      BY <1>2, <2>1, HandlerReads DEF Receive
  <1>3. CASE GiveUp(h) \/ WriteAuditEvent(h)
    BY <1>1, <1>3 DEF GiveUp, WriteAuditEvent, Idle, reports, children, record
  <1>4. CASE CreateConflict(h)
    <2>1. PICK r : /\ Become(h, r)
                   /\ r = Idle \/ r = [at |-> "create", no |-> NextIncidentNo, attempt |-> 1]
      BY <1>4 DEF CreateConflict
    <2> QED
      BY <1>1, <1>4, <2>1 DEF CreateConflict, Idle, reports, children, record
  <1>5. CASE CreateRead(h)
    BY <1>2, <1>5 DEF CreateRead, reports, children, record
  <1>6. ASSUME NEW i \in Incidents, NEW at, LoadIncident(h, i, at)
        PROVE  IncidentsRest'
    BY <1>2, <1>6 DEF LoadIncident, reports, children, record
  <1>7. ASSUME NEW i \in Incidents, CreateInsert(h, i)
        PROVE  IncidentsRest'
    BY <1>1, <1>7 DEF CreateInsert, Idle, children, record
  <1>8. ASSUME NEW to, NEW holder, TransitionCheck(h, to, holder)
        PROVE  IncidentsRest'
    BY <1>1, <1>8 DEF TransitionCheck, reports, children, record
  <1>9. ASSUME NEW e, NEW at \in {"acknowledge", "resolve"}, LoadEscalation(h, e, at)
        PROVE  IncidentsRest'
    BY <1>2, <1>9 DEF LoadEscalation, reports, children, record
  <1>10. ASSUME NEW f, LoadFollowUp(h, f)
         PROVE  IncidentsRest'
    BY <1>2, <1>10 DEF LoadFollowUp, reports, children, record
  <1> QED
    BY <1>3, <1>4, <1>5, <1>6, <1>7, <1>8, <1>9, <1>10

LEMMA WritesRest ==
  ASSUME RecordInv, IncidentsRest, NEW h \in Handlers,
         \/ TransitionWrite(h) \/ SubmitWrite(h) \/ AmendWrite(h) \/ AdvanceEscalation(h)
         \/ \E x \in BOOLEAN : HoldWrite(h, x)
         \/ \E e \in Escalations : Escalate(h, e)
         \/ \E f \in FollowUps : CreateFollowUp(h, f)
         \/ \E to \in Unfinished \cup {"completed", "waived"} : PatchFollowUp(h, to)
  PROVE  IncidentsRest'
  <1>1. ASSUME NEW event, ToAudit(h, event)
        PROVE  /\ UNCHANGED <<requests, collided>>
               /\ \A g \in Handlers : handler'[g].at = "followup" => handler'[g].of \in Incidents
    <2>1. PICK r : r = [at |-> "audit", event |-> event]
      OBVIOUS
    <2>2. handler' = [handler EXCEPT ![h] = r] /\ UNCHANGED <<requests, collided>>
      BY <1>1, <2>1 DEF ToAudit, Become
    <2> QED
      BY <2>1, <2>2, HandlerTurns
  <1>2. CASE TransitionWrite(h)
    BY <1>1, <1>2 DEF TransitionWrite, children, record, IncidentsRest
  <1>3. CASE SubmitWrite(h)
    <2>1. /\ submitted' = [submitted EXCEPT ![handler[h].of] = requests]
          /\ UNCHANGED <<hold, wording, escalation, followUp>>
          /\ \E event : ToAudit(h, event)
      BY <1>3 DEF SubmitWrite, children
    <2>2. \A i \in Incidents : submitted'[i] \in {submitted[i], requests}
      BY <2>1 DEF RecordInv
    <2> QED
      BY <1>1, <2>1, <2>2 DEF IncidentsRest
  <1>4. CASE AmendWrite(h)
    <2>1. /\ wording' = [wording EXCEPT ![handler[h].of] = requests]
          /\ UNCHANGED <<hold, submitted, escalation, followUp>>
          /\ \E event : ToAudit(h, event)
      BY <1>4 DEF AmendWrite, children
    <2>2. \A i \in Incidents : wording'[i] \in {wording[i], requests}
      BY <2>1 DEF RecordInv
    <2> QED
      BY <1>1, <2>1, <2>2 DEF IncidentsRest
  <1>5. CASE AdvanceEscalation(h)
    <2>1. PICK to \in {"acknowledged", "resolved"} :
            escalation' = [escalation EXCEPT ![handler[h].row].status = to]
      BY <1>5 DEF AdvanceEscalation
    <2>2. escalation' \in [Escalations -> [of : Incidents \cup {NoIncident},
            status : {"none", "pending", "acknowledged", "resolved"}]]
      BY <2>1 DEF IncidentsRest
    <2> QED
      BY <1>1, <1>5, <2>2 DEF AdvanceEscalation, reports, record, IncidentsRest
  <1>6. ASSUME NEW x \in BOOLEAN, HoldWrite(h, x)
        PROVE  IncidentsRest'
    <2>1. hold' \in [Incidents -> BOOLEAN]
      BY <1>6 DEF HoldWrite, IncidentsRest
    <2> QED
      BY <1>1, <1>6, <2>1 DEF HoldWrite, children, record, IncidentsRest
  <1>7. ASSUME NEW e \in Escalations, Escalate(h, e)
        PROVE  IncidentsRest'
    <2>1. PICK row : row = [of |-> handler[h].of, status |-> "pending"]
      OBVIOUS
    <2>2. handler[h].of \in Incidents /\ escalation' = [escalation EXCEPT ![e] = row]
      BY <1>7, <2>1 DEF Escalate, RecordInv, HandlerIsBehind
    <2>3. escalation' \in [Escalations -> [of : Incidents \cup {NoIncident},
            status : {"none", "pending", "acknowledged", "resolved"}]]
      BY <2>1, <2>2 DEF IncidentsRest
    <2> QED
      BY <1>1, <1>7, <2>3 DEF Escalate, reports, record, IncidentsRest
  <1>8. ASSUME NEW f \in FollowUps, CreateFollowUp(h, f)
        PROVE  IncidentsRest'
    <2>1. PICK row : row = [of |-> handler[h].of, status |-> "open"]
      OBVIOUS
    <2>2. handler[h].of \in Incidents /\ followUp' = [followUp EXCEPT ![f] = row]
      BY <1>8, <2>1 DEF CreateFollowUp, IncidentsRest
    <2>3. followUp' \in [FollowUps -> [of : Incidents \cup {NoIncident},
            status : {"none", "completed", "waived"} \cup Unfinished]]
      BY <2>1, <2>2 DEF IncidentsRest, Unfinished
    <2> QED
      BY <1>1, <1>8, <2>3 DEF CreateFollowUp, reports, record, IncidentsRest
  <1>9. ASSUME NEW to \in Unfinished \cup {"completed", "waived"}, PatchFollowUp(h, to)
        PROVE  IncidentsRest'
    <2>1. followUp' = [followUp EXCEPT ![handler[h].row].status = to]
      BY <1>9 DEF PatchFollowUp
    <2>2. followUp' \in [FollowUps -> [of : Incidents \cup {NoIncident},
            status : {"none", "completed", "waived"} \cup Unfinished]]
      BY <1>9, <2>1 DEF IncidentsRest
    <2>3. (\E event : ToAudit(h, event)) \/ Become(h, Idle)
      BY <1>9 DEF PatchFollowUp
    <2>4. /\ UNCHANGED <<requests, collided>>
          /\ \A g \in Handlers : handler'[g].at = "followup" => handler'[g].of \in Incidents
      <3>1. Idle.at # "followup"
        BY DEF Idle
      <3> QED
        BY <1>1, <2>3, <3>1, HandlerTurns DEF Become
    <2> QED
      BY <1>9, <2>2, <2>4 DEF PatchFollowUp, reports, record, IncidentsRest
  <1> QED
    BY <1>2, <1>3, <1>4, <1>5, <1>6, <1>7, <1>8, <1>9

LEMMA IncidentsRestStep ==
  ASSUME RecordInv, IncidentsRest, [IncidentsNext]_incidentsVars
  PROVE  IncidentsRest'
  <1>1. CASE UNCHANGED incidentsVars
    BY <1>1 DEF incidentsVars, IncidentsRest
  <1>2. CASE IncidentsNext
    BY <1>2, ReadsRest, WritesRest DEF IncidentsNext
  <1> QED
    BY <1>1, <1>2

LEMMA IncidentsTypes == RecordInv /\ IncidentsRest => IncidentsTypeOK
  BY IncidentsAssumption DEF RecordInv, IncidentStates, IncidentsRest,
                             IncidentsTypeOK

\* Witness statements: each version and each event took a call, and the calls
\* under way have still theirs to write.

Adding  == {"state", "insert"}
Working == {"update", "remove", "sign", "stamp", "audit"} \cup Adding
Under(steps) == {c \in Clerks : clerk[c].at \in steps}

WitnessRest ==
  /\ people \in [People -> {"none", "present", "removed"}]
  /\ calls \in 0 .. MaxCalls /\ clashed \in BOOLEAN
  /\ \A p \in People : locked[p] <= MaxCalls
  /\ IsFiniteSet(Under(Working)) /\ IsFiniteSet(Under(Adding))
  /\ \A e \in Events : trail[e] + Cardinality(Under(Working)) <= calls
  /\ \A p \in People : Cardinality(statements[p]) + Cardinality(Under(Adding)) <= calls

LEMMA UnderMoves ==
  ASSUME DOMAIN clerk = Clerks, NEW c \in Clerks, NEW r, NEW steps,
         clerk' = [clerk EXCEPT ![c] = r], IsFiniteSet(Under(steps))
  PROVE  /\ IsFiniteSet(Under(steps)')
         /\ Cardinality(Under(steps)) \in Nat /\ Cardinality(Under(steps)') \in Nat
         /\ Cardinality(Under(steps)') + (IF clerk[c].at \in steps THEN 1 ELSE 0)
              = Cardinality(Under(steps)) + (IF r.at \in steps THEN 1 ELSE 0)
  <1> DEFINE rest == Under(steps) \ {c}
  <1>1. /\ IsFiniteSet(rest) /\ Cardinality(rest) \in Nat
        /\ Cardinality(Under(steps))
             = Cardinality(rest) + (IF clerk[c].at \in steps THEN 1 ELSE 0)
    <2>1. CASE clerk[c].at \in steps
      <3>1. c \in Under(steps)
        BY <2>1 DEF Under
      <3>2. /\ IsFiniteSet(rest)
            /\ Cardinality(rest) = Cardinality(Under(steps)) - 1
        BY <3>1, FS_RemoveElement
      <3> HIDE DEF rest
      <3>3. Cardinality(rest) \in Nat /\ Cardinality(Under(steps)) \in Nat
        BY <3>2, FS_CardinalityType
      <3> QED
        BY <2>1, <3>2, <3>3
    <2>2. CASE clerk[c].at \notin steps
      <3>1. rest = Under(steps)
        BY <2>2 DEF Under
      <3>2. Cardinality(Under(steps)) \in Nat
        BY FS_CardinalityType
      <3> HIDE DEF rest
      <3> QED
        BY <2>2, <3>1, <3>2
    <2> QED
      BY <2>1, <2>2
  <1>2. /\ IsFiniteSet(Under(steps)')
        /\ Cardinality(Under(steps)')
             = Cardinality(rest) + (IF r.at \in steps THEN 1 ELSE 0)
    <2>1. \A b \in Clerks : clerk'[b] = IF b = c THEN r ELSE clerk[b]
      OBVIOUS
    <2>2. CASE r.at \in steps
      <3>1. Under(steps)' = rest \cup {c}
        BY <2>1, <2>2 DEF Under
      <3>2. c \notin rest
        OBVIOUS
      <3> HIDE DEF rest
      <3> QED
        BY <1>1, <2>2, <3>1, <3>2, FS_AddElement
    <2>3. CASE r.at \notin steps
      <3>1. Under(steps)' = rest
        BY <2>1, <2>3 DEF Under
      <3> QED
        BY <1>1, <2>3, <3>1
    <2> QED
      BY <2>2, <2>3
  <1> HIDE DEF rest
  <1> QED
    BY <1>1, <1>2

\* A clerk works within a call, and counts an event or adds a version when it
\* has nothing more of the kind to do.
LEMMA CountsStep ==
  ASSUME StatementInv, StatementInv', WitnessRest, NEW c \in Clerks, NEW r,
         NEW more \in {0, 1},
         clerk' = [clerk EXCEPT ![c] = r], calls' = calls + more, calls' <= MaxCalls,
         r.at \in Working => more = 1 \/ clerk[c].at \in Working,
         r.at \in Adding => more = 1 \/ clerk[c].at \in Adding,
         \/ trail' = trail
         \/ /\ clerk[c].at \in Working /\ r.at \notin Working
            /\ \A e \in Events : trail'[e] \in {trail[e], trail[e] + 1},
         \/ \A p \in People : Cardinality(statements'[p]) = Cardinality(statements[p])
         \/ /\ clerk[c].at \in Adding /\ r.at \notin Adding
            /\ \A p \in People : Cardinality(statements'[p])
                 \in {Cardinality(statements[p]), Cardinality(statements[p]) + 1},
         \A p \in People : locked'[p] \in {locked[p], Cardinality(statements[p])},
         people' \in [People -> {"none", "present", "removed"}], clashed' \in BOOLEAN
  PROVE  WitnessRest'
  <1>1. \A steps : IsFiniteSet(Under(steps)) =>
          /\ IsFiniteSet(Under(steps)')
          /\ Cardinality(Under(steps)) \in Nat /\ Cardinality(Under(steps)') \in Nat
          /\ Cardinality(Under(steps)') + (IF clerk[c].at \in steps THEN 1 ELSE 0)
               = Cardinality(Under(steps)) + (IF r.at \in steps THEN 1 ELSE 0)
    BY UnderMoves DEF StatementInv
  <1>2. calls \in Nat /\ calls' \in 0 .. MaxCalls
    BY WitnessAssumption DEF WitnessRest
  <1>3. ASSUME NEW e \in Events PROVE trail'[e] + Cardinality(Under(Working)') <= calls'
    <2>1. trail[e] \in Nat /\ trail[e] + Cardinality(Under(Working)) <= calls
      BY DEF StatementInv, WitnessRest
    <2>2. \/ trail'[e] = trail[e]
          \/ clerk[c].at \in Working /\ r.at \notin Working /\ trail'[e] = trail[e] + 1
      OBVIOUS
    <2>3. /\ Cardinality(Under(Working)) \in Nat /\ Cardinality(Under(Working)') \in Nat
          /\ Cardinality(Under(Working)') + (IF clerk[c].at \in Working THEN 1 ELSE 0)
               = Cardinality(Under(Working)) + (IF r.at \in Working THEN 1 ELSE 0)
      BY <1>1 DEF WitnessRest
    <2> QED
      BY <1>2, <2>1, <2>2, <2>3
  <1>4. ASSUME NEW p \in People
        PROVE  Cardinality(statements'[p]) + Cardinality(Under(Adding)') <= calls'
    <2>1. /\ Cardinality(statements[p]) \in Nat
          /\ Cardinality(statements[p]) + Cardinality(Under(Adding)) <= calls
      BY VersionsCounted DEF WitnessRest
    <2>2. \/ Cardinality(statements'[p]) = Cardinality(statements[p])
          \/ /\ clerk[c].at \in Adding /\ r.at \notin Adding
             /\ Cardinality(statements'[p]) = Cardinality(statements[p]) + 1
      OBVIOUS
    <2>3. /\ Cardinality(Under(Adding)) \in Nat /\ Cardinality(Under(Adding)') \in Nat
          /\ Cardinality(Under(Adding)') + (IF clerk[c].at \in Adding THEN 1 ELSE 0)
               = Cardinality(Under(Adding)) + (IF r.at \in Adding THEN 1 ELSE 0)
      BY <1>1 DEF WitnessRest
    <2> QED
      BY <1>2, <2>1, <2>2, <2>3
  <1>5. ASSUME NEW p \in People PROVE locked'[p] <= MaxCalls
    <2>1. /\ Cardinality(statements[p]) \in Nat /\ Cardinality(Under(Adding)) \in Nat
          /\ Cardinality(statements[p]) + Cardinality(Under(Adding)) <= calls
      BY <1>1, VersionsCounted DEF WitnessRest
    <2>2. Cardinality(statements[p]) <= MaxCalls
      BY <2>1, WitnessAssumption DEF WitnessRest
    <2> QED
      BY <2>2 DEF WitnessRest
  <1>6. IsFiniteSet(Under(Working)') /\ IsFiniteSet(Under(Adding)')
    BY <1>1 DEF WitnessRest
  <1> QED
    BY <1>2, <1>3, <1>4, <1>5, <1>6 DEF WitnessRest

LEMMA WitnessRestStep ==
  ASSUME StatementInv, StatementInv', WitnessRest, NEW c \in Clerks,
         \/ Audit(c) \/ Hang(c) \/ UpdatePerson(c) \/ RemovePerson(c)
         \/ ReadVersions(c) \/ InsertVersion(c) \/ SignVersion(c)
         \/ \E p \in People : \/ AddPerson(c, p)
                              \/ \E op \in {"update", "remove", "state", "sign"} :
                                   ResolvePerson(c, op, p)
         \/ \E v \in 1 .. MaxCalls : LoadStatement(c, v)
  PROVE  WitnessRest'
  <1>1. ASSUME NEW r, Step(c, r), UNCHANGED <<statements, trail, locked>>,
               r.at \in Working => clerk[c].at \in Working,
               r.at \in Adding => clerk[c].at \in Adding,
               people' \in [People -> {"none", "present", "removed"}]
        PROVE  WitnessRest'
    <2>1. /\ clerk' = [clerk EXCEPT ![c] = r] /\ calls' = calls + 0 /\ calls' <= MaxCalls
          /\ clashed' \in BOOLEAN
      BY <1>1, WitnessAssumption DEF Step, WitnessRest
    <2> QED
      BY <1>1, <2>1, CountsStep
  <1>2. ASSUME NEW r, Call(c, r), UNCHANGED <<statements, trail, locked>>,
               people' \in [People -> {"none", "present", "removed"}]
        PROVE  WitnessRest'
    <2>1. /\ clerk' = [clerk EXCEPT ![c] = r] /\ calls' = calls + 1 /\ calls' <= MaxCalls
          /\ clashed' \in BOOLEAN
      BY <1>2, WitnessAssumption DEF Call, WitnessRest
    <2> QED
      BY <1>2, <2>1, CountsStep
  <1>3. CASE Hang(c)
    BY <1>1, <1>3 DEF Hang, AtRest, Working, Adding, WitnessRest
  <1>4. CASE UpdatePerson(c)
    <2>1. PICK event : Step(c, [at |-> "audit", event |-> event])
      BY <1>4 DEF UpdatePerson, ThenAudit
    <2> QED
      BY <1>1, <1>4, <2>1 DEF UpdatePerson, Working, Adding, WitnessRest
  <1>5. CASE RemovePerson(c)
    <2>1. PICK event : Step(c, [at |-> "audit", event |-> event])
      BY <1>5 DEF RemovePerson, ThenAudit
    <2>2. people' \in [People -> {"none", "present", "removed"}]
      BY <1>5 DEF RemovePerson, WitnessRest
    <2> QED
      BY <1>1, <1>5, <2>1, <2>2 DEF RemovePerson, Working, Adding
  <1>6. CASE ReadVersions(c)
    <2>1. PICK r : Step(c, r) /\ r.at = "insert"
      BY <1>6 DEF ReadVersions
    <2> QED
      BY <1>1, <1>6, <2>1 DEF ReadVersions, Working, Adding, WitnessRest
  <1>7. ASSUME NEW v, LoadStatement(c, v)
        PROVE  WitnessRest'
    <2>1. PICK r : Step(c, r) /\ r.at = "stamp"
      BY <1>7 DEF LoadStatement
    <2> QED
      BY <1>1, <1>7, <2>1 DEF LoadStatement, Working, Adding, WitnessRest
  <1>8. ASSUME NEW p \in People, AddPerson(c, p)
        PROVE  WitnessRest'
    <2>1. people' \in [People -> {"none", "present", "removed"}]
      BY <1>8 DEF AddPerson, WitnessRest
    <2> QED
      BY <1>2, <1>8, <2>1 DEF AddPerson
  <1>9. ASSUME NEW p \in People, NEW op, ResolvePerson(c, op, p)
        PROVE  WitnessRest'
    BY <1>2, <1>9 DEF ResolvePerson, WitnessRest
  <1>10. CASE Audit(c)
    <2>1. /\ clerk' = [clerk EXCEPT ![c] = AtRest] /\ UNCHANGED <<statements, locked, people>>
          /\ calls' = calls + 0 /\ calls' <= MaxCalls /\ clashed' \in BOOLEAN
          /\ clerk[c].at = "audit"
          /\ trail' = [trail EXCEPT ![clerk[c].event] = @ + 1]
      BY <1>10, WitnessAssumption DEF Audit, Step, WitnessRest
    <2>2. trail \in [Events -> Nat]
      BY DEF StatementInv
    <2>3. \A e \in Events : trail'[e] \in {trail[e], trail[e] + 1}
      BY <2>1, <2>2
    <2>4. AtRest.at \notin Working /\ AtRest.at \notin Adding /\ "audit" \in Working
      BY DEF AtRest, Working, Adding
    <2> QED
      BY <2>1, <2>3, <2>4, CountsStep DEF WitnessRest
  <1>11. CASE InsertVersion(c)
    <2>1. PICK p, v, new : /\ statements' = [statements EXCEPT ![p] = @ \cup {new}]
                           /\ Step(c, [at |-> "audit", event |-> v])
      BY <1>11 DEF InsertVersion, ThenAudit
    <2>2. PICK r : r = [at |-> "audit", event |-> v]
      OBVIOUS
    <2>3. /\ clerk' = [clerk EXCEPT ![c] = r] /\ UNCHANGED <<trail, locked, people>>
          /\ calls' = calls + 0 /\ calls' <= MaxCalls /\ clashed' \in BOOLEAN
          /\ clerk[c].at = "insert"
      BY <1>11, <2>1, <2>2, WitnessAssumption
         DEF InsertVersion, Step, WitnessRest
    <2>4. ASSUME NEW q \in People
          PROVE  Cardinality(statements'[q])
                   \in {Cardinality(statements[q]), Cardinality(statements[q]) + 1}
      <3>1. statements'[q] \in {statements[q], statements[q] \cup {new}}
        BY <2>1 DEF StatementInv
      <3>2. new \in statements[q] => statements[q] \cup {new} = statements[q]
        OBVIOUS
      <3> QED
        BY <3>1, <3>2, FS_AddElement DEF StatementInv
    <2>5. /\ r.at \in Working /\ r.at \notin Adding
          /\ "insert" \in Working /\ "insert" \in Adding
      BY <2>2 DEF Working, Adding
    <2> QED
      BY <2>3, <2>4, <2>5, CountsStep DEF WitnessRest
  <1>12. CASE SignVersion(c)
    <2>1. PICK p, v : /\ p = clerk[c].person /\ v = clerk[c].version
      OBVIOUS
    <2>2. PICK r : r = [at |-> "audit", event |-> <<"statement_signed", p, v>>]
      OBVIOUS
    <2>3. /\ clerk' = [clerk EXCEPT ![c] = r] /\ UNCHANGED <<trail, people>>
          /\ calls' = calls + 0 /\ calls' <= MaxCalls /\ clashed' \in BOOLEAN
          /\ clerk[c].at = "stamp"
      BY <1>12, <2>1, <2>2, WitnessAssumption
         DEF SignVersion, ThenAudit, Step, WitnessRest
    <2>4. \A q \in People : locked'[q] \in {locked[q], Cardinality(statements[q])}
      BY <1>12 DEF SignVersion, StatementInv
    <2>5. ASSUME NEW q \in People
          PROVE  Cardinality(statements'[q]) = Cardinality(statements[q])
      <3>1. \A x \in Numbers(q)' : x \in Numbers(q)
        <4>1. /\ statements' = [statements EXCEPT ![p] =
                   (@ \ {[version |-> v, signed |-> FALSE]})
                      \cup {[version |-> v, signed |-> TRUE]}]
              /\ v \in Numbers(p)
          BY <1>12, <2>1, <2>3 DEF SignVersion, StatementInv, ClerkIsBehind
        <4> QED
          BY <4>1 DEF StatementInv, Numbers
      <3>2. \A x \in Numbers(q) : x \in Numbers(q)'
        <4>1. PICK old : old = [version |-> v, signed |-> FALSE]
          OBVIOUS
        <4>2. PICK new : new = [version |-> v, signed |-> TRUE]
          OBVIOUS
        <4>3. statements' = [statements EXCEPT ![p] = (@ \ {old}) \cup {new}]
          BY <1>12, <2>1, <4>1, <4>2 DEF SignVersion
        <4>4. old.version = new.version
          BY <4>1, <4>2
        <4> QED
          BY <4>3, <4>4 DEF StatementInv, Numbers
      <3>3. /\ Numbers(q) = 1 .. Cardinality(statements[q])
            /\ Numbers(q)' = 1 .. Cardinality(statements'[q])
            /\ Cardinality(statements[q]) \in Nat /\ Cardinality(statements'[q]) \in Nat
        BY VersionsCounted, FS_CardinalityType
           DEF StatementInv, StatementHistory
      <3>4. 1 .. Cardinality(statements[q]) = 1 .. Cardinality(statements'[q])
        BY <3>1, <3>2, <3>3
      <3>5. PICK k \in Nat, n \in Nat : k = Cardinality(statements[q]) /\ n = Cardinality(statements'[q])
        BY <3>3
      <3>6. 1 .. k = 1 .. n => k = n
        <4>1. \A x : x \in 1 .. k <=> x \in Nat /\ 1 <= x /\ x <= k
          OBVIOUS
        <4>2. \A x : x \in 1 .. n <=> x \in Nat /\ 1 <= x /\ x <= n
          OBVIOUS
        <4> QED
          BY <4>1, <4>2
      <3> QED
        BY <3>4, <3>5, <3>6
    <2>6. r.at \in Working /\ r.at \notin Adding /\ "stamp" \in Working
      BY <2>2 DEF Working, Adding
    <2> QED
      BY <2>3, <2>4, <2>5, <2>6, CountsStep DEF WitnessRest
  <1> QED
    BY <1>3, <1>4, <1>5, <1>6, <1>7, <1>8, <1>9, <1>10, <1>11, <1>12

LEMMA WitnessRestInit == WitnessInit => WitnessRest
  <1> SUFFICES ASSUME WitnessInit PROVE WitnessRest
    OBVIOUS
  <1>1. Under(Working) = {} /\ Under(Adding) = {}
    BY DEF WitnessInit, AtRest, Under, Working, Adding
  <1>2. Cardinality({}) = 0 /\ IsFiniteSet({})
    BY FS_EmptySet
  <1>3. /\ \A e \in Events : trail[e] = 0
        /\ \A p \in People : statements[p] = {} /\ locked[p] = 0
        /\ calls = 0 /\ clashed = FALSE /\ people \in [People -> {"none", "present", "removed"}]
    BY DEF WitnessInit
  <1>4. /\ \A e \in Events : trail[e] + Cardinality(Under(Working)) <= calls
        /\ \A p \in People : Cardinality(statements[p]) + Cardinality(Under(Adding)) <= calls
    <2>1. ASSUME NEW p \in People
          PROVE  Cardinality(statements[p]) = 0
      BY <1>2, <1>3
    <2> QED
      BY <1>1, <1>2, <1>3, <2>1
  <1>5. calls \in 0 .. MaxCalls /\ \A p \in People : locked[p] <= MaxCalls
    BY <1>3, WitnessAssumption
  <1> QED
    BY <1>1, <1>2, <1>3, <1>4, <1>5 DEF WitnessRest

LEMMA WitnessRestKept ==
  ASSUME StatementInv, WitnessRest, [WitnessNext]_witnessVars
  PROVE  WitnessRest'
  <1>1. CASE UNCHANGED witnessVars
    <2>1. \A steps : Under(steps)' = Under(steps)
      BY <1>1 DEF witnessVars, Under
    <2> QED
      BY <1>1, <2>1 DEF witnessVars, WitnessRest
  <1>2. CASE WitnessNext
    <2>1. StatementInv'
      BY StatementStep
    <2> QED
      BY <1>2, <2>1, WitnessRestStep DEF WitnessNext
  <1> QED
    BY <1>1, <1>2

LEMMA WitnessTypes == StatementInv /\ WitnessRest => WitnessTypeOK
  <1> SUFFICES ASSUME StatementInv, WitnessRest PROVE WitnessTypeOK
    OBVIOUS
  <1>1. Cardinality(Under(Working)) \in Nat /\ Cardinality(Under(Adding)) \in Nat
    BY FS_CardinalityType DEF WitnessRest
  <1>2. trail \in [Events -> 0 .. MaxCalls]
    <2>1. ASSUME NEW e \in Events PROVE trail[e] \in 0 .. MaxCalls
      <3>1. trail[e] \in Nat
        BY DEF StatementInv
      <3> QED
        BY <1>1, <3>1, WitnessAssumption DEF WitnessRest
    <2> QED
      BY <2>1 DEF StatementInv
  <1>3. ASSUME NEW p \in People
        PROVE  statements[p] \in SUBSET [version : Versions, signed : BOOLEAN]
    <2>1. /\ Cardinality(statements[p]) \in Nat
          /\ Numbers(p) = 1 .. Cardinality(statements[p])
      BY VersionsCounted
    <2>2. Cardinality(statements[p]) <= MaxCalls
      BY <1>1, <2>1, WitnessAssumption DEF WitnessRest
    <2>3. Numbers(p) \subseteq Versions
      BY <2>1, <2>2, WitnessAssumption DEF Versions
    <2> QED
      BY <2>3 DEF StatementInv, Numbers
  <1>4. locked \in [People -> Versions]
    BY WitnessAssumption DEF StatementInv, WitnessRest, Versions
  <1> QED
    BY <1>2, <1>3, <1>4 DEF StatementInv, WitnessRest, WitnessTypeOK

\* Work orders: the dates of a row, and the bounds of the counters.

Dates(row) == /\ row.completed \in -1 .. MaxClock
              /\ row.due \in -1 .. (MaxClock + SlaUrgent + SlaRoutine)

OrdersRest ==
  /\ \A w \in Orders : orders[w] # NoOrder => Dates(orders[w])
  /\ \A w \in Orders : orders[w] = NoOrder <=> created[w] = NoOrder
  /\ orderCalls \in 0 .. MaxOrderCalls /\ clock \in 0 .. MaxClock
  /\ crowded \in BOOLEAN /\ unrecorded \in BOOLEAN

LEMMA InsertDates ==
  ASSUME OrdersInv, OrdersRest, NEW w \in Orders, NEW row \in OrderRows, Dates(row),
         InsertOrder(w, row)
  PROVE  OrdersRest'
  <1>1. /\ orders' = [orders EXCEPT ![w] = row] /\ created' = [created EXCEPT ![w] = row]
        /\ orderCalls' = orderCalls + 1 /\ orderCalls < MaxOrderCalls
        /\ UNCHANGED <<crowded, unrecorded, clock>>
    BY DEF InsertOrder
  <1>2. \A v \in Orders : /\ orders'[v] = IF v = w THEN row ELSE orders[v]
                          /\ created'[v] = IF v = w THEN row ELSE created[v]
    BY <1>1 DEF OrdersInv, OrdersTyped
  <1>3. orderCalls' \in 0 .. MaxOrderCalls
    BY <1>1, WorkOrdersAssumption DEF OrdersRest
  <1>4. row # NoOrder
    BY NoOrderAssumption
  <1>5. \A v \in Orders : orders'[v] # NoOrder => Dates(orders'[v])
    BY <1>2 DEF OrdersRest
  <1>6. \A v \in Orders : orders'[v] = NoOrder <=> created'[v] = NoOrder
    BY <1>2, <1>4 DEF OrdersRest
  <1> QED
    BY <1>1, <1>3, <1>5, <1>6 DEF OrdersRest, Dates

LEMMA CreateDates ==
  ASSUME OrdersInv, OrdersRest, NEW w \in Orders, NEW assignee \in Workers \cup Strangers \cup {Nobody},
         \/ \E priority \in {"low", "urgent"}, due \in {-1, 1} :
              CreateOrder(w, priority, assignee, due)
         \/ \E severity \in Severities : CreateFromIncident(w, severity, assignee)
  PROVE  OrdersRest'
  <1>1. PICK priority \in Priorities, due \in -1 .. (MaxClock + SlaUrgent + SlaRoutine) :
          /\ assignee \notin Strangers
          /\ InsertOrder(w, [status |-> "open", completed |-> -1, priority |-> priority,
                             assignee |-> assignee, due |-> due])
    <2>1. CASE \E priority \in {"low", "urgent"}, due \in {-1, 1} :
                 CreateOrder(w, priority, assignee, due)
      BY <2>1, WorkOrdersAssumption DEF CreateOrder, Priorities
    <2>2. CASE \E severity \in Severities : CreateFromIncident(w, severity, assignee)
      <3>1. PICK severity \in Severities : CreateFromIncident(w, severity, assignee)
        BY <2>2
      <3>2. PICK priority \in Priorities :
              priority = CASE severity = "critical" -> "urgent"
                           [] severity = "high"     -> "high"
                           [] OTHER                 -> "medium"
        BY DEF Priorities
      <3>3. PICK due \in -1 .. (MaxClock + SlaUrgent + SlaRoutine) :
              due = clock + SlaHours(priority)
        <4>1. clock + SlaHours(priority) \in -1 .. (MaxClock + SlaUrgent + SlaRoutine)
          BY WorkOrdersAssumption DEF OrdersRest, SlaHours
        <4> QED
          BY <4>1
      <3>4. /\ assignee \notin Strangers
            /\ InsertOrder(w, [status |-> "open", completed |-> -1, priority |-> priority,
                               assignee |-> assignee, due |-> due])
        BY <3>1, <3>2, <3>3 DEF CreateFromIncident
      <3> QED
        BY <3>4
    <2> QED
      BY <2>1, <2>2
  <1>2. PICK row : row = [status |-> "open", completed |-> -1, priority |-> priority,
                          assignee |-> assignee, due |-> due]
    OBVIOUS
  <1>3. row \in OrderRows /\ InsertOrder(w, row)
    BY <1>1, <1>2, WorkOrdersAssumption DEF OrderRows, Statuses
  <1>4. Dates(row)
    <2>1. row.completed = -1 /\ row.due = due
      BY <1>2
    <2> QED
      BY <2>1, WorkOrdersAssumption DEF Dates
  <1> QED
    BY <1>3, <1>4, InsertDates

LEMMA PatchedDates ==
  ASSUME NEW order \in OrderRows, NEW p, clock \in 0 .. MaxClock, Dates(order)
  PROVE  Dates(Patched(order, p))
  <1>1. PICK shifted : shifted = IF p.status = "same" THEN order
                                 ELSE ApplyStatusChange(order, p.status)
    OBVIOUS
  <1>2. shifted.due = order.due /\ shifted.completed \in {order.completed, clock, -1}
    <2>1. CASE p.status = "same"
      BY <1>1, <2>1
    <2>2. CASE p.status # "same"
      <3>1. PICK stamp \in {clock, -1} : stamp = IF p.status \in Completing THEN clock ELSE -1
        OBVIOUS
      <3>2. PICK half : half = [order EXCEPT !.status = p.status]
        OBVIOUS
      <3>3. shifted = [half EXCEPT !.completed = stamp]
        BY <1>1, <2>2, <3>1, <3>2 DEF ApplyStatusChange
      <3> QED
        BY <3>1, <3>2, <3>3 DEF OrderRows
    <2> QED
      BY <2>1, <2>2
  <1>3. PICK who, rank : Patched(order, p) = [shifted EXCEPT !.assignee = who, !.priority = rank]
    BY <1>1 DEF Patched
  <1>4. PICK half : half = [shifted EXCEPT !.assignee = who]
    OBVIOUS
  <1>5. Patched(order, p) = [half EXCEPT !.priority = rank]
    BY <1>3, <1>4
  <1>6. half.due = shifted.due /\ half.completed = shifted.completed
    BY <1>4
  <1>7. /\ Patched(order, p).due = half.due
        /\ Patched(order, p).completed = half.completed
    BY <1>5
  <1> QED
    BY <1>2, <1>6, <1>7, WorkOrdersAssumption DEF Dates

LEMMA PatchWriteDates ==
  ASSUME OrdersInv, OrdersRest, NEW c \in Crew, PatchWrite(c)
  PROVE  OrdersRest'
  <1>1. PICK w, p : w = crew[c].order /\ p = crew[c]
    OBVIOUS
  <1>2. /\ w \in Orders /\ orders[w] # NoOrder /\ orders[w] \in OrderRows
        /\ p.status \in Statuses \cup {"same"}
        /\ p.priority \in Priorities \cup {"same"} /\ p.assignee \in Workers \cup {Nobody, "same"}
        /\ clock \in Nat
    BY <1>1 DEF PatchWrite, OrdersInv, OrdersTyped, PatchKnows
  <1>3. PICK row : row = Patched(orders[w], p)
    OBVIOUS
  <1>4. row \in OrderRows /\ row # NoOrder
    BY <1>2, <1>3, PatchedRow, NoOrderAssumption
  <1>5. Dates(row)
    BY <1>2, <1>3, PatchedDates DEF OrdersRest
  <1>6. /\ orders' = [orders EXCEPT ![w] = row]
        /\ UNCHANGED <<created, orderCalls, crowded, unrecorded, clock>>
    BY <1>1, <1>3 DEF PatchWrite
  <1>7. \A v \in Orders : orders'[v] = IF v = w THEN row ELSE orders[v]
    BY <1>6 DEF OrdersInv, OrdersTyped
  <1>8. \A v \in Orders : orders'[v] # NoOrder => Dates(orders'[v])
    BY <1>5, <1>7 DEF OrdersRest
  <1>9. \A v \in Orders : orders'[v] = NoOrder <=> created[v] = NoOrder
    BY <1>2, <1>4, <1>7 DEF OrdersRest
  <1> QED
    BY <1>6, <1>8, <1>9 DEF OrdersRest, Dates

LEMMA OrdersRestInit == WorkOrdersInit => OrdersRest
  <1> SUFFICES ASSUME WorkOrdersInit PROVE OrdersRest
    OBVIOUS
  <1>1. /\ \A w \in Orders : orders[w] = NoOrder /\ created[w] = NoOrder
        /\ orderCalls = 0 /\ crowded = FALSE /\ unrecorded = FALSE /\ clock = 0
    BY DEF WorkOrdersInit
  <1>2. orderCalls \in 0 .. MaxOrderCalls /\ clock \in 0 .. MaxClock
    BY <1>1, WorkOrdersAssumption
  <1>3. crowded \in BOOLEAN /\ unrecorded \in BOOLEAN
    BY <1>1
  <1> QED
    BY <1>1, <1>2, <1>3 DEF OrdersRest

LEMMA OrdersRestStep ==
  ASSUME OrdersInv, OrdersRest, [WorkOrdersNext]_workOrderVars
  PROVE  OrdersRest'
  <1>1. CASE \E w \in Orders, assignee \in Workers \cup Strangers \cup {Nobody} :
               \/ \E priority \in {"low", "urgent"}, due \in {-1, 1} :
                    CreateOrder(w, priority, assignee, due)
               \/ \E severity \in Severities : CreateFromIncident(w, severity, assignee)
    BY <1>1, CreateDates
  <1>2. ASSUME NEW c \in Crew, NEW w, NEW to, NEW priority, NEW assignee,
               PatchLoad(c, w, to, priority, assignee)
        PROVE  OrdersRest'
    <2>1. orderCalls' \in 0 .. MaxOrderCalls /\ crowded' \in BOOLEAN
      BY <1>2, WorkOrdersAssumption DEF PatchLoad, OrdersRest
    <2> QED
      BY <1>2, <2>1 DEF PatchLoad, OrdersRest, Dates
  <1>3. ASSUME NEW c \in Crew, PatchWrite(c)
        PROVE  OrdersRest'
    BY <1>3, PatchWriteDates
  <1>4. ASSUME NEW c \in Crew, PatchHistory(c) \/ PatchDrop(c)
        PROVE  OrdersRest'
    BY <1>4 DEF PatchHistory, PatchDrop, OrdersRest, Dates
  <1>5. CASE Tick
    <2>1. clock' \in 0 .. MaxClock
      BY <1>5, WorkOrdersAssumption DEF Tick, OrdersRest
    <2> QED
      BY <1>5, <2>1 DEF Tick, OrdersRest, Dates
  <1>6. CASE UNCHANGED workOrderVars
    BY <1>6 DEF workOrderVars, OrdersRest, Dates
  <1> QED
    BY <1>1, <1>2, <1>3, <1>4, <1>5, <1>6 DEF WorkOrdersNext

LEMMA OrdersTypes == OrdersInv /\ OrdersRest => WorkOrdersTypeOK
  <1> SUFFICES ASSUME OrdersInv, OrdersRest PROVE WorkOrdersTypeOK
    OBVIOUS
  <1>1. ASSUME NEW w \in Orders, orders[w] # NoOrder
        PROVE  orders[w] \in [status : Statuses, completed : -1 .. MaxClock,
                              priority : Priorities, assignee : Workers \cup {Nobody},
                              due : -1 .. (MaxClock + SlaUrgent + SlaRoutine)]
    <2>1. orders[w] \in OrderRows /\ Dates(orders[w])
      BY <1>1 DEF OrdersInv, OrdersTyped, OrdersRest
    <2> QED
      BY <2>1 DEF OrderRows, Dates
  <1>2. \A w \in Orders : (orders[w] = NoOrder) = (created[w] = NoOrder)
    BY DEF OrdersRest
  <1> QED
    BY <1>1, <1>2 DEF OrdersRest, WorkOrdersTypeOK

RosterRest ==
  /\ rules \in [conflicts : BOOLEAN, approval : BOOLEAN, hardBlock : BOOLEAN]
  /\ certified \subseteq Employees
  /\ edits \in 0 .. MaxEdits /\ raced \in BOOLEAN /\ moved \in BOOLEAN

LEMMA RosterRestInit == SchedulingInit => RosterRest
  <1> SUFFICES ASSUME SchedulingInit PROVE RosterRest
    OBVIOUS
  <1>1. edits \in 0 .. MaxEdits
    BY SchedulingAssumption DEF SchedulingInit
  <1> QED
    BY <1>1 DEF SchedulingInit, RosterRest

LEMMA RosterRestStep ==
  ASSUME RosterRest, [SchedulingNext]_schedulingVars
  PROVE  RosterRest'
  <1> DEFINE settings == /\ UNCHANGED <<rules, certified>>
                         /\ Edit \/ UNCHANGED edits
                         /\ raced' \in BOOLEAN /\ moved' \in BOOLEAN
  <1>1. settings
    <2>1. CASE UNCHANGED schedulingVars
      BY <2>1 DEF schedulingVars, RosterRest
    <2>2. CASE CreatePeriod
      BY <2>2 DEF CreatePeriod, context, RosterRest
    <2>3. ASSUME NEW t, NEW x, SaveTemplate(t, x)
          PROVE  settings
      BY <2>3 DEF SaveTemplate, context, RosterRest
    <2>4. ASSUME NEW s, NEW x, AddShift(s, x) \/ MoveShift(s, x)
          PROVE  settings
      BY <2>4 DEF AddShift, MoveShift, context, RosterRest
    <2>5. ASSUME NEW m, DropEdit(m) \/ GenerateRead(m) \/ GenerateInsert(m)
          PROVE  settings
      BY <2>5 DEF DropEdit, GenerateRead, GenerateInsert, Close, Continue,
                  context, RosterRest
    <2>6. ASSUME NEW m, NEW op, LoadPeriod(m, op)
          PROVE  settings
      BY <2>6 DEF LoadPeriod, Open, context, RosterRest
    <2>7. ASSUME NEW m, NEW to, WritePeriod(m, to) \/ DecideWrite(m, to)
          PROVE  settings
      BY <2>7 DEF WritePeriod, DecideWrite, Close, Continue, context,
                  RosterRest
    <2>8. ASSUME NEW m, NEW row, AssignLoad(m, row) \/ DecideLoad(m, row)
          PROVE  settings
      BY <2>8 DEF AssignLoad, DecideLoad, Open, context, RosterRest
    <2>9. ASSUME NEW m, AssignCheck(m) \/ AssignInsert(m)
          PROVE  settings
      BY <2>9 DEF AssignCheck, AssignInsert, Close, Continue, context,
                  RosterRest
    <2>10. ASSUME NEW m, NEW override, PublishCheck(m, override)
           PROVE  settings
      BY <2>10 DEF PublishCheck, Close, Continue, context, RosterRest
    <2>11. ASSUME NEW m, PublishPrior(m) \/ PublishInsert(m) \/ PublishUpdate(m)
           PROVE  settings
      BY <2>11 DEF PublishPrior, PublishInsert, PublishUpdate, Close, Continue,
                   context, RosterRest
    <2> QED
      BY <2>1, <2>2, <2>3, <2>4, <2>5, <2>6, <2>7, <2>8, <2>9, <2>10, <2>11
         DEF SchedulingNext
  <1>2. edits' \in 0 .. MaxEdits
    BY <1>1, SchedulingAssumption DEF Edit, RosterRest
  <1> QED
    BY <1>1, <1>2 DEF RosterRest

LEMMA RosterTypes == ChainInv /\ RosterInv /\ RosterRest => SchedulingTypeOK
  BY DEF ChainInv, RosterInv, RosterTyped, RosterRest, SchedulingTypeOK

MessagesRest ==
  /\ receipts \in [Messages -> [Members -> SUBSET Marks]]
  /\ acks \in [Messages -> SUBSET Members]
  /\ devices \in [Devices -> [owner : Members \cup {NoOne}, live : BOOLEAN]]
  /\ posts \in 0 .. MaxPosts
  /\ rushed \subseteq Messages /\ muted \subseteq Messages /\ late \subseteq Messages

LEMMA MessagesRestInit == CommunicationsInit => MessagesRest
  <1> SUFFICES ASSUME CommunicationsInit PROVE MessagesRest
    OBVIOUS
  <1>1. posts \in 0 .. MaxPosts
    BY CommunicationsAssumption DEF CommunicationsInit
  <1> QED
    BY <1>1 DEF CommunicationsInit, MessagesRest

LEMMA MessagesRestStep ==
  ASSUME MessagesInv, MessagesRest, [CommunicationsNext]_commVars
  PROVE  MessagesRest'
  <1>1. Post => posts' \in 0 .. MaxPosts
    BY CommunicationsAssumption DEF Post, MessagesRest
  <1>2. ASSUME NEW m \in Messages,
               \/ \E now \in BOOLEAN : CreateMessage(m, now)
               \/ \E rows \in SUBSET Targets : AddAudiences(m, rows)
        PROVE  MessagesRest'
    BY <1>1, <1>2 DEF CreateMessage, AddAudiences, MessagesRest
  <1>3. ASSUME NEW m \in Messages, NEW e \in Members, Acknowledge(m, e)
        PROVE  MessagesRest'
    <2>1. acks' \in [Messages -> SUBSET Members]
      BY <1>3 DEF Acknowledge, MessagesRest
    <2> QED
      BY <1>1, <1>3, <2>1 DEF Acknowledge, MessagesRest
  <1>4. ASSUME NEW m \in Messages, NEW e \in Members, NEW sent \in SUBSET Marks,
               SaveReceipt(m, e, sent)
        PROVE  MessagesRest'
    <2>1. PICK marks : marks = [receipts[m] EXCEPT ![e] = @ \cup sent]
      OBVIOUS
    <2>2. marks \in [Members -> SUBSET Marks] /\ receipts' = [receipts EXCEPT ![m] = marks]
      BY <1>4, <2>1 DEF SaveReceipt, MessagesRest
    <2>3. receipts' \in [Messages -> [Members -> SUBSET Marks]]
      BY <2>2 DEF MessagesRest
    <2> QED
      BY <1>1, <1>4, <2>3 DEF SaveReceipt, MessagesRest
  <1>5. ASSUME NEW g, NEW who, ChangeStaff(g, who)
        PROVE  MessagesRest'
    <2>1. Addressed \subseteq Messages
      BY DEF Addressed
    <2> QED
      BY <1>1, <1>5, <2>1 DEF ChangeStaff, messageVars, MessagesRest
  <1>6. ASSUME NEW t \in Devices, NEW e \in Members, RegisterDevice(t, e) \/ RevokeDevice(t, e)
        PROVE  MessagesRest'
    <2>1. devices' \in [Devices -> [owner : Members \cup {NoOne}, live : BOOLEAN]]
      <3>1. PICK row : row = [owner |-> e, live |-> TRUE]
        OBVIOUS
      <3>2. row \in [owner : Members \cup {NoOne}, live : BOOLEAN]
        BY <3>1
      <3>3. \/ devices' = [devices EXCEPT ![t] = row]
            \/ devices' = [devices EXCEPT ![t].live = FALSE]
        BY <1>6, <3>1 DEF RegisterDevice, RevokeDevice
      <3> QED
        BY <3>2, <3>3 DEF MessagesRest
    <2> QED
      BY <1>1, <1>6, <2>1 DEF RegisterDevice, RevokeDevice, messageVars,
                              MessagesRest
  <1>7. ASSUME NEW d \in Desks, NEW m \in Messages, NEW window, LoadMessage(d, m, window)
        PROVE  MessagesRest'
    BY <1>1, <1>7 DEF LoadMessage, messageVars, MessagesRest
  <1>8. ASSUME NEW d \in Desks, ReadAudiences(d) \/ LoadAudienceResolutionContext(d)
        PROVE  MessagesRest'
    BY <1>8 DEF ReadAudiences, LoadAudienceResolutionContext, Goes,
                messageVars, MessagesRest
  <1>9. ASSUME NEW d \in Desks, StampPublished(d) \/ InsertJob(d)
        PROVE  MessagesRest'
    BY <1>9 DEF StampPublished, InsertJob, Goes, MessagesRest
  <1>10. ASSUME NEW d \in Desks, LeaveDesk(d)
         PROVE  MessagesRest'
    <2>1. posting[d].message \in Messages
      BY <1>10 DEF LeaveDesk, MessagesInv, PostingHolds, Postings
    <2> QED
      BY <1>10, <2>1 DEF LeaveDesk, Goes, messageVars, MessagesRest
  <1>11. CASE UNCHANGED commVars
    BY <1>11 DEF commVars, messageVars, MessagesRest
  <1> QED
    BY <1>2, <1>3, <1>4, <1>5, <1>6, <1>7, <1>8, <1>9, <1>10, <1>11
       DEF CommunicationsNext

LEMMA MessagesTypes == MessagesInv /\ MessagesRest => CommunicationsTypeOK
  BY DEF MessagesInv, MessagesTyped, MessagesRest, CommunicationsTypeOK

TrainingRest ==
  /\ lessons \in [Lessons -> {"absent", "required", "optional"}]
  /\ assigned \subseteq Assignments /\ required \subseteq CertTypes
  /\ today \in 0 .. MaxCalendar /\ trainings \in 0 .. MaxTrainings

LEMMA TrainingRestInit == TrainingInit => TrainingRest
  <1> SUFFICES ASSUME TrainingInit PROVE TrainingRest
    OBVIOUS
  <1>1. today \in 0 .. MaxCalendar /\ trainings \in 0 .. MaxTrainings
    BY TrainingAssumption DEF TrainingInit
  <1> QED
    BY <1>1, TrainingAssumption DEF TrainingInit, TrainingRest

LEMMA TrainingRestStep ==
  ASSUME TrainingRest, [TrainingNext]_trainingVars
  PROVE  TrainingRest'
  <1>1. ASSUME NEW r, NEW step, Train(r, step)
        PROVE  trainings' \in 0 .. MaxTrainings /\ today' = today
    BY <1>1, TrainingAssumption DEF Train, TrainingRest
  <1>2. ASSUME NEW r \in Trainers, NEW m \in Lessons, NEW need \in {"required", "optional"},
               SaveLesson(r, m, need)
        PROVE  TrainingRest'
    <2>1. lessons' \in [Lessons -> {"absent", "required", "optional"}]
      BY <1>2 DEF SaveLesson, TrainingRest
    <2> QED
      BY <1>1, <1>2, <2>1 DEF SaveLesson, certVars, TrainingRest
  <1>3. ASSUME NEW r \in Trainers, NEW a \in Assignments, Assign(r, a)
        PROVE  TrainingRest'
    BY <1>1, <1>3 DEF Assign, certVars, TrainingRest
  <1>4. ASSUME NEW r \in Trainers, NEW op, NEW a, LoadAssignment(r, op, a)
        PROVE  TrainingRest'
    BY <1>1, <1>4 DEF LoadAssignment, courseVars, certVars, TrainingRest
  <1>5. ASSUME NEW r \in Trainers,
               \/ Dismiss(r) \/ ReadForCompletion(r) \/ InsertCertificationEvent(r)
               \/ \E part \in {"need", "done"} : SelectRows(r, part)
        PROVE  TrainingRest'
    BY <1>5 DEF Dismiss, ReadForCompletion, InsertCertificationEvent,
                SelectRows, GoOn, courseVars, certVars, TrainingRest
  <1>6. ASSUME NEW r \in Trainers,
               \/ \E m \in Lessons, s \in ProgressStates : RecordProgress(r, m, s)
               \/ \E s \in CompletionStates : InsertCompletion(r, s)
        PROVE  TrainingRest'
    BY <1>6 DEF RecordProgress, InsertCompletion, GoOn, certVars, TrainingRest
  <1>7. ASSUME NEW r \in Trainers, NEW c, NEW row, IssueCert(r, c, row)
        PROVE  TrainingRest'
    BY <1>1, <1>7 DEF IssueCert, courseVars, TrainingRest
  <1>8. ASSUME NEW r \in Trainers, NEW c, LoadCertification(r, c)
        PROVE  TrainingRest'
    BY <1>1, <1>8 DEF LoadCertification, courseVars, certVars, TrainingRest
  <1>9. ASSUME NEW r \in Trainers, NEW s, NEW e, PatchCertification(r, s, e)
        PROVE  TrainingRest'
    BY <1>9 DEF PatchCertification, GoOn, courseVars, TrainingRest
  <1>10. ASSUME NEW r \in Trainers, NEW type \in CertTypes, ChangeRequirement(r, type)
         PROVE  TrainingRest'
    BY <1>1, <1>10 DEF ChangeRequirement, courseVars, TrainingRest
  <1>11. CASE DayPasses
    <2>1. today' \in 0 .. MaxCalendar
      BY <1>11, TrainingAssumption DEF DayPasses, TrainingRest
    <2> QED
      BY <1>11, <2>1 DEF DayPasses, courseVars, certVars, TrainingRest
  <1>12. CASE UNCHANGED trainingVars
    BY <1>12 DEF trainingVars, courseVars, certVars, TrainingRest
  <1> QED
    BY <1>2, <1>3, <1>4, <1>5, <1>6, <1>7, <1>8, <1>9, <1>10, <1>11, <1>12
       DEF TrainingNext

LEMMA TrainingTypes == TrainingInv /\ TrainingRest => TrainingTypeOK
  BY DEF TrainingInv, TrainingTyped, TrainingRest, TrainingTypeOK

\* The schedule board: every period it knows, draws or names in a call about one
\* is on file.

Filed == onFile \cup {NoPeriod, NoBoard}
Naming == {"board", "assign"} \cup Acting

BoardKnows(b) ==
  /\ b.periods \subseteq onFile /\ b.shifts \subseteq onFile
  /\ b.period \in Filed /\ b.ready \in Filed

BoardRest ==
  /\ published \subseteq onFile /\ screen \in Filed /\ BoardKnows(board)
  /\ \A c \in called : c.kind \in Naming => c.of \in onFile

\* What was on file stays there.
LEMMA KnowsStill ==
  ASSUME NEW b, BoardKnows(b), onFile \subseteq onFile'
  PROVE  BoardKnows(b)' /\ Filed \subseteq Filed'
  BY DEF BoardKnows, Filed

LEMMA BoardRestInit == ScheduleBoardInit => BoardRest
  <1> SUFFICES ASSUME ScheduleBoardInit PROVE BoardRest
    OBVIOUS
  <1>1. PICK week \in Weeks : board = Board(rink, week)
    BY DEF ScheduleBoardInit
  <1>2. PICK p : p = <<rink, week>>
    OBVIOUS
  <1>3. /\ board.periods = OnFile(rink) /\ board.shifts = {p} \cap onFile
        /\ board.period = IF p \in onFile THEN p ELSE NoPeriod
        /\ board.ready = NoPeriod
    BY <1>1, <1>2 DEF Board
  <1>4. BoardKnows(board)
    BY <1>3 DEF BoardKnows, Filed, OnFile
  <1> QED
    BY <1>3, <1>4 DEF ScheduleBoardInit, BoardRest, Filed

\* A call that names a period on file, or none.
LEMMA AskedOfFile ==
  ASSUME BoardRest, NEW rest \in SUBSET called, NEW kind, NEW of, BoardAsks(rest, kind, of),
         onFile \subseteq onFile', kind \in Naming => of \in onFile'
  PROVE  \A c \in called' : c.kind \in Naming => c.of \in onFile'
  <1>1. PICK new : new = [id |-> boardCalls + 1, kind |-> kind, of |-> of, seen |-> screen]
    OBVIOUS
  <1>2. called' = rest \cup {new} /\ new.kind = kind /\ new.of = of
    BY <1>1 DEF BoardAsks
  <1> QED
    BY <1>2 DEF BoardRest

LEMMA LooksUp ==
  ASSUME BoardRest, NEW b, b \in BoardShape, BoardKnows(b)', NEW rest \in SUBSET called,
         onFile \subseteq onFile', ReloadWeek(b, rest)
  PROVE  /\ BoardKnows(board)' /\ screen' \in Filed'
         /\ \A c \in called' : c.kind \in Naming => c.of \in onFile'
  <1>1. PICK next : next = [b EXCEPT !.ready = NoPeriod]
    OBVIOUS
  <1>2. /\ next.periods = b.periods /\ next.shifts = b.shifts /\ next.period = b.period
        /\ next.ready = NoPeriod /\ next \in BoardShape
    BY <1>1 DEF BoardShape
  <1>3. CASE {p \in b.periods : p[2] = b.week} = {}
    <2>1. /\ DrawBoard([next EXCEPT !.period = NoPeriod, !.shifts = {}])
          /\ BoardDrops(rest)
      BY <1>1, <1>3 DEF ReloadWeek
    <2>2. PICK drawing : drawing = [next EXCEPT !.period = NoPeriod, !.shifts = {}]
      OBVIOUS
    <2>3. /\ drawing.periods = b.periods /\ drawing.shifts = {}
          /\ drawing.period = NoPeriod /\ drawing.ready = NoPeriod
      BY <1>2, <2>2 DEF BoardShape
    <2>4. board' = drawing /\ screen' = NoPeriod /\ called' = rest
      BY <2>1, <2>2, <2>3 DEF DrawBoard, BoardDrops
    <2> QED
      BY <2>3, <2>4 DEF BoardKnows, Filed, BoardRest
  <1>4. CASE {p \in b.periods : p[2] = b.week} # {}
    <2>1. PICK p \in b.periods : KeepScreen([next EXCEPT !.period = p]) /\ BoardAsks(rest, "board", p)
      BY <1>1, <1>4 DEF ReloadWeek
    <2>2. PICK drawing : drawing = [next EXCEPT !.period = p]
      OBVIOUS
    <2>3. /\ drawing.periods = b.periods /\ drawing.shifts = b.shifts
          /\ drawing.period = p /\ drawing.ready = NoPeriod
      BY <1>2, <2>2 DEF BoardShape
    <2>4. board' = drawing /\ screen' = screen /\ p \in onFile'
      BY <2>1, <2>2 DEF KeepScreen, BoardKnows
    <2>5. BoardKnows(board)' /\ screen' \in Filed'
      BY <2>3, <2>4 DEF BoardKnows, Filed, BoardRest
    <2>6. \A c \in called' : c.kind \in Naming => c.of \in onFile'
      BY <2>1, <2>4, AskedOfFile
    <2> QED
      BY <2>5, <2>6
  <1> QED
    BY <1>3, <1>4

\* The board is drawn with one of its parts replaced.
LEMMA DrawsKnown ==
  ASSUME BoardRest, NEW b, BoardKnows(b)', DrawBoard(b), onFile \subseteq onFile'
  PROVE  BoardKnows(board)' /\ screen' \in Filed'
  BY DEF DrawBoard, BoardKnows

LEMMA BoardAnswers ==
  ASSUME PanelInv, BoardRest, NEW c \in called,
         \/ PeriodsCame(c) \/ BoardCame(c) \/ PeriodCreated(c) \/ ShiftsCame(c)
         \/ ReadinessCame(c) \/ Published(c) \/ Assigned(c)
  PROVE  BoardRest'
  <1>0. PICK same : same = board /\ BoardKnows(same)
    BY DEF BoardRest
  <1>1. /\ board \in BoardShape /\ BoardKnows(board) /\ CallTyped(c)
        /\ onFile \subseteq PeriodIds
        /\ c.kind \in Naming => c.of \in onFile
    BY DEF PanelInv, BoardTyped, BoardRest
  <1>2. ASSUME BoardDrops(called \ {c}), onFile' = onFile
        PROVE  \A d \in called' : d.kind \in Naming => d.of \in onFile'
    BY <1>2 DEF BoardDrops, BoardRest
  <1>3. CASE PeriodsCame(c)
    <2>1. UNCHANGED <<published, onFile>>
      BY <1>3 DEF PeriodsCame
    <2>2. PICK b : b = [board EXCEPT !.periods = OnFile(c.of)]
      OBVIOUS
    <2>3. b \in BoardShape /\ BoardKnows(b)'
      BY <1>1, <2>1, <2>2 DEF BoardShape, BoardKnows, OnFile, Filed
    <2>4. CASE ReloadWeek(b, called \ {c})
      BY <2>1, <2>3, <2>4, LooksUp DEF BoardRest
    <2>5. CASE board' = board /\ screen' = NoBoard /\ BoardDrops(called \ {c})
      BY <1>2, <2>1, <2>5 DEF BoardRest, BoardKnows, Filed
    <2> QED
      BY <1>3, <2>2, <2>4, <2>5 DEF PeriodsCame
  <1>4. CASE BoardCame(c)
    <2>1. PICK shifts \in {{c.of}, {}} : DrawBoard([board EXCEPT !.shifts = shifts])
      BY <1>4 DEF BoardCame
    <2>2. PICK b : b = [board EXCEPT !.shifts = shifts]
      OBVIOUS
    <2>3. UNCHANGED <<published, onFile>> /\ BoardDrops(called \ {c}) /\ c.of \in onFile
      BY <1>1, <1>4 DEF BoardCame, Naming
    <2>4. BoardKnows(b)'
      BY <1>1, <2>2, <2>3 DEF BoardShape, BoardKnows, Filed
    <2> QED
      BY <1>2, <2>1, <2>2, <2>3, <2>4, DrawsKnown DEF BoardRest
  <1>5. CASE PeriodCreated(c)
    <2>1. PICK b : b = [board EXCEPT !.busy = FALSE]
      OBVIOUS
    <2>2. /\ published' = published
          /\ b \in BoardShape /\ b.periods = board.periods /\ b.shifts = board.shifts
          /\ b.period = board.period /\ b.ready = board.ready
      BY <1>1, <1>5, <2>1 DEF PeriodCreated, BoardShape
    <2>3. BoardKnows(b)
      BY <1>1, <2>2 DEF BoardKnows
    <2>4. CASE /\ c.of \notin onFile /\ onFile' = onFile \cup {c.of}
               /\ ReloadWeek([b EXCEPT !.periods = @ \cup {c.of}], called \ {c})
      <3>1. PICK wider : wider = [b EXCEPT !.periods = @ \cup {c.of}]
        OBVIOUS
      <3>2. c.of \in PeriodIds
        BY <1>1, <1>5 DEF PeriodCreated, CallTyped
      <3>3. /\ wider \in BoardShape /\ wider.periods = b.periods \cup {c.of}
            /\ wider.shifts = b.shifts /\ wider.period = b.period /\ wider.ready = b.ready
        BY <2>2, <3>1, <3>2 DEF BoardShape
      <3>4. BoardKnows(wider)'
        BY <2>3, <2>4, <3>3 DEF BoardKnows, Filed
      <3>5. /\ BoardKnows(board)' /\ screen' \in Filed'
            /\ \A d \in called' : d.kind \in Naming => d.of \in onFile'
        BY <2>4, <3>1, <3>3, <3>4, LooksUp
      <3> QED
        BY <2>2, <2>4, <3>5 DEF BoardRest
    <2>5. CASE UNCHANGED onFile /\ DrawBoard(b) /\ BoardDrops(called \ {c})
      BY <1>2, <2>2, <2>3, <2>5, KnowsStill, DrawsKnown DEF BoardRest
    <2> QED
      BY <1>5, <2>1, <2>4, <2>5 DEF PeriodCreated
  <1>6. CASE ShiftsCame(c)
    <2>1. UNCHANGED <<published, onFile>> /\ BoardDrops(called \ {c}) /\ c.of \in onFile
      BY <1>1, <1>6 DEF ShiftsCame, Naming, Acting
    <2>2. PICK b : b = [board EXCEPT !.shifts = @ \cup {c.of}]
      OBVIOUS
    <2>3. BoardKnows(b)'
      BY <1>1, <2>1, <2>2 DEF BoardShape, BoardKnows, Filed
    <2>4. DrawBoard(b) \/ DrawBoard(same)
      BY <1>0, <1>6, <2>2 DEF ShiftsCame
    <2> QED
      BY <1>0, <1>2, <2>1, <2>3, <2>4, KnowsStill, DrawsKnown DEF BoardRest
  <1>7. CASE ReadinessCame(c)
    <2>1. UNCHANGED <<published, onFile>> /\ BoardDrops(called \ {c}) /\ c.of \in onFile
      BY <1>1, <1>7 DEF ReadinessCame, Naming, Acting
    <2>2. PICK b : b = [board EXCEPT !.ready = c.of]
      OBVIOUS
    <2>3. BoardKnows(b)'
      BY <1>1, <2>1, <2>2 DEF BoardShape, BoardKnows, Filed
    <2>4. DrawBoard(b) \/ DrawBoard(same)
      BY <1>0, <1>7, <2>2 DEF ReadinessCame
    <2> QED
      BY <1>0, <1>2, <2>1, <2>3, <2>4, KnowsStill, DrawsKnown DEF BoardRest
  <1>8. CASE Published(c)
    <2>1. UNCHANGED onFile /\ BoardDrops(called \ {c}) /\ c.of \in onFile
      BY <1>1, <1>8 DEF Published, Naming, Acting
    <2>2. PICK b : b = [board EXCEPT !.period = c.of]
      OBVIOUS
    <2>3. PICK refused : refused = [board EXCEPT !.ready = c.of]
      OBVIOUS
    <2>4. BoardKnows(b)' /\ BoardKnows(refused)'
      BY <1>1, <2>1, <2>2, <2>3 DEF BoardShape, BoardKnows, Filed
    <2>5. /\ DrawBoard(b) \/ DrawBoard(refused) \/ DrawBoard(same)
          /\ published' = published \/ published' = published \cup {c.of}
      BY <1>0, <1>8, <2>2, <2>3 DEF Published
    <2>6. published' \subseteq onFile'
      BY <2>1, <2>5 DEF BoardRest
    <2> QED
      BY <1>0, <1>2, <2>1, <2>4, <2>5, <2>6, KnowsStill, DrawsKnown
         DEF BoardRest
  <1>9. CASE Assigned(c)
    <2>1. /\ UNCHANGED <<published, onFile>> /\ BoardDrops(called \ {c})
          /\ DrawBoard(same)
      BY <1>0, <1>9 DEF Assigned
    <2> QED
      BY <1>0, <1>2, <2>1, KnowsStill, DrawsKnown DEF BoardRest
  <1> QED
    BY <1>3, <1>4, <1>5, <1>6, <1>7, <1>8, <1>9

LEMMA BoardRestStep ==
  ASSUME PanelInv, BoardRest, [ScheduleBoardNext]_boardVars
  PROVE  BoardRest'
  <1>0. PICK same : same = board /\ BoardKnows(same)
    BY DEF BoardRest
  <1>1. board \in BoardShape
    BY DEF PanelInv, BoardTyped
  <1>2. ASSUME NEW f \in Rinks, SelectRink(f)
        PROVE  BoardRest'
    <2>1. /\ UNCHANGED <<onFile, published>> /\ screen' = NoBoard
          /\ BoardAsks(called, "periods", f)
      BY <1>2 DEF SelectRink
    <2>2. PICK b : b = [board EXCEPT !.ready = NoPeriod]
      OBVIOUS
    <2>3. board' = b
      BY <1>2, <2>2 DEF SelectRink
    <2>4. BoardKnows(b)'
      BY <1>0, <1>1, <2>1, <2>2 DEF BoardShape, BoardKnows, Filed
    <2>5. \A c \in called' : c.kind \in Naming => c.of \in onFile'
      BY <2>1, AskedOfFile DEF Naming, Acting
    <2>6. BoardKnows(board)' /\ screen' \in Filed'
      BY <2>1, <2>3, <2>4 DEF BoardKnows, Filed
    <2> QED
      BY <2>1, <2>5, <2>6 DEF BoardRest
  <1>3. ASSUME NEW week \in Weeks, ChangeWeek(week)
        PROVE  BoardRest'
    <2>1. PICK b : b = [board EXCEPT !.week = week]
      OBVIOUS
    <2>2. UNCHANGED <<onFile, published>> /\ ReloadWeek(b, called)
      BY <1>3, <2>1 DEF ChangeWeek
    <2>3. b \in BoardShape /\ BoardKnows(b)'
      BY <1>0, <1>1, <2>1, <2>2 DEF BoardShape, BoardKnows, Filed
    <2> QED
      BY <2>2, <2>3, LooksUp DEF BoardRest
  <1>4. CASE MakePeriod
    <2>1. /\ UNCHANGED <<onFile, published>>
          /\ BoardAsks(called, "create", <<rink, board.week>>)
      BY <1>4 DEF MakePeriod
    <2>2. PICK b : b = [board EXCEPT !.busy = TRUE]
      OBVIOUS
    <2>3. DrawBoard(b)
      BY <1>4, <2>2 DEF MakePeriod
    <2>4. BoardKnows(b)'
      BY <1>0, <1>1, <2>1, <2>2 DEF BoardShape, BoardKnows, Filed
    <2>5. \A c \in called' : c.kind \in Naming => c.of \in onFile'
      BY <2>1, AskedOfFile DEF Naming, Acting
    <2> QED
      BY <2>1, <2>3, <2>4, <2>5, DrawsKnown DEF BoardRest
  <1>5. ASSUME NEW kind, Press(kind)
        PROVE  BoardRest'
    <2>1. /\ UNCHANGED <<onFile, published, screen, board>>
          /\ BoardAsks(called, kind, board.period)
          /\ board.period # NoPeriod /\ board.period \in PeriodIds \cup {NoPeriod}
      BY <1>1, <1>5 DEF Press, BoardShape
    <2>2. board.period \in onFile
      BY <1>0, <2>1, PeriodsAreNotMarks DEF BoardKnows, Filed
    <2>3. \A c \in called' : c.kind \in Naming => c.of \in onFile'
      BY <2>1, <2>2, AskedOfFile
    <2> QED
      BY <2>1, <2>3 DEF BoardRest, BoardKnows, Filed
  <1>6. CASE AssignShift
    <2>1. PICK p \in board.shifts : BoardAsks(called, "assign", p)
      BY <1>6 DEF AssignShift
    <2>2. UNCHANGED <<onFile, published, screen, board>> /\ p \in onFile
      BY <1>0, <1>6 DEF AssignShift, BoardKnows
    <2>3. \A c \in called' : c.kind \in Naming => c.of \in onFile'
      BY <2>1, <2>2, AskedOfFile
    <2> QED
      BY <2>2, <2>3 DEF BoardRest, BoardKnows, Filed
  <1>7. CASE ToggleCreateShift
    <2>1. UNCHANGED <<onFile, published, called>> /\ DrawBoard(same)
      BY <1>0, <1>7 DEF ToggleCreateShift
    <2> QED
      BY <1>0, <2>1, KnowsStill, DrawsKnown DEF BoardRest
  <1>8. CASE UNCHANGED boardVars
    BY <1>8 DEF boardVars, BoardRest, BoardKnows, Filed
  <1> QED
    BY <1>2, <1>3, <1>4, <1>5, <1>6, <1>7, <1>8, BoardAnswers
       DEF ScheduleBoardNext, GenerateFromTemplates, CreateShift, RunValidate,
           RunPublish

LEMMA BoardTypes == PanelInv /\ BoardRest => ScheduleBoardTypeOK
  <1> SUFFICES ASSUME PanelInv, BoardRest PROVE ScheduleBoardTypeOK
    OBVIOUS
  <1>1. /\ rink \in Rinks /\ onFile \subseteq PeriodIds /\ board.week \in Weeks
    BY DEF PanelInv, BoardTyped, BoardShape
  <1> QED
    BY <1>1 DEF BoardRest, BoardKnows, Filed, ScheduleBoardTypeOK

\* The message board: what is held or acknowledged is a message there is, and
\* what is shown as acknowledged is so at the server.

OfRows(c) ==
  c.kind = "acknowledge" =>
    c.of \subseteq MessageIds /\ (c.done = "done" => c.of \subseteq ackRows)

MailRest ==
  /\ ackRows \subseteq MessageIds /\ pane.held \subseteq MessageIds
  /\ pane.acked \subseteq ackRows
  /\ \A c \in posted : OfRows(c)

LEMMA MailRestInit == MessageBoardInit => MailRest
  <1> SUFFICES ASSUME MessageBoardInit PROVE MailRest
    OBVIOUS
  <1>1. ackRows = {} /\ posted = {} /\ pane.held = MessagesOf(site) /\ pane.acked = {}
    BY DEF MessageBoardInit
  <1> QED
    BY <1>1 DEF MailRest, MessagesOf

\* The panel is drawn.
LEMMA RenderRest ==
  ASSUME MailInv, MailRest, NEW p, PaneTyped(p), NEW rest \in SUBSET posted, Render(p, rest),
         UNCHANGED <<messageRows, ackRows>>,
         p.held \subseteq MessageIds, p.acked \subseteq ackRows
  PROVE  MailRest'
  <1>1. MessageIds' = MessageIds
    BY DEF MessageIds
  <1>2. site \in Sites
    BY DEF MailInv, MailTyped
  <1>3. pane'.held = p.held /\ pane'.acked = p.acked
    BY <1>2, RenderAsks
  <1>4. \A d \in posted' : d \in rest \/ d.kind = "acks"
    BY <1>2, RenderAsks
  <1>5. \A d \in posted' : OfRows(d)'
    BY <1>1, <1>4 DEF MailRest, OfRows
  <1> QED
    BY <1>1, <1>3, <1>5 DEF MailRest

\* A call is made, or one fewer is on its way.
LEMMA PostsRest ==
  ASSUME MailRest, UNCHANGED <<messageRows, ackRows>>,
         pane'.held = pane.held, pane'.acked \subseteq pane.acked,
         \A d \in posted' : \/ d \in posted
                            \/ /\ d.done = "sent"
                               /\ d.kind = "acknowledge" => d.of \subseteq MessageIds
  PROVE  MailRest'
  <1>1. MessageIds' = MessageIds
    BY DEF MessageIds
  <1>2. \A d \in posted' : OfRows(d)'
    BY <1>1 DEF MailRest, OfRows
  <1> QED
    BY <1>1, <1>2 DEF MailRest

LEMMA AnswersRest ==
  ASSUME MailInv, MailRest, NEW c \in posted,
         \/ ListCame(c) \/ AcksCame(c) \/ DraftCame(c) \/ AudienceCame(c)
         \/ PublishCame(c) \/ AcknowledgeCame(c) \/ CallFailed(c)
  PROVE  MailRest'
  <1>1. /\ site \in Sites /\ PaneTyped(pane) /\ pane.rows \in SUBSET Addressees
        /\ pane.held \subseteq MessageIds /\ pane.acked \subseteq ackRows /\ OfRows(c)
    BY DEF MailInv, MailTyped, PaneTyped, MailRest
  <1>2. /\ pane = [held |-> pane.held, acked |-> pane.acked, checked |-> pane.checked,
                   rows |-> pane.rows]
        /\ UNCHANGED <<messageRows, ackRows>>
    BY <1>1 DEF PaneTyped, ListCame, AcksCame, DraftCame, AudienceCame,
                PublishCame, AcknowledgeCame, CallFailed
  <1>3. CASE ListCame(c)
    <2>1. PICK p : p = [pane EXCEPT !.held = MessagesOf(c.at)]
      OBVIOUS
    <2>2. PaneTyped(p) /\ p.held \subseteq MessageIds /\ p.acked = pane.acked
      BY <1>1, <1>2, <2>1 DEF PaneTyped, MessagesOf
    <2>3. CASE Render(p, posted \ {c})
      BY <1>1, <1>2, <2>2, <2>3, RenderRest
    <2>4. CASE Over(c) /\ UNCHANGED pane
      BY <1>2, <2>4, PostsRest DEF Over
    <2> QED
      BY <1>3, <2>1, <2>3, <2>4 DEF ListCame
  <1>4. CASE AcksCame(c)
    <2>1. PICK p : p = [pane EXCEPT !.acked = @ \cup (c.of \cap ackRows)]
      OBVIOUS
    <2>2. PaneTyped(p) /\ p.held = pane.held /\ p.acked \subseteq ackRows
      BY <1>1, <1>2, <2>1 DEF PaneTyped
    <2>3. Render(p, posted \ {c}) \/ Render(pane, posted \ {c})
      BY <1>4, <2>1 DEF AcksCame
    <2> QED
      BY <1>1, <1>2, <2>2, <2>3, RenderRest
  <1>5. CASE DraftCame(c)
    <2>1. PICK kind \in {"audience", "publish"}, to \in SUBSET Addressees :
            RequestAt(site, posted \ {c}, kind, c.of, to)
      BY <1>1, <1>5 DEF DraftCame, SendAudience, SendPublish, Request
    <2>2. pane' = pane
      BY <1>5 DEF DraftCame
    <2>3. PICK new : /\ posted' = (posted \ {c}) \cup {new}
                     /\ new.kind = kind /\ new.done = "sent"
      BY <1>1, <2>1, RequestPosts
    <2> QED
      BY <1>2, <2>2, <2>3, PostsRest
  <1>6. CASE AudienceCame(c)
    <2>1. RequestAt(site, posted \ {c}, "publish", c.of, {}) /\ pane' = pane
      BY <1>6 DEF AudienceCame, SendPublish, Request
    <2>2. PICK new : /\ posted' = (posted \ {c}) \cup {new}
                     /\ new.kind = "publish" /\ new.done = "sent"
      BY <1>1, <2>1, RequestPosts
    <2> QED
      BY <1>2, <2>1, <2>2, PostsRest
  <1>7. CASE PublishCame(c)
    <2>1. /\ RequestAt(site, posted \ {c}, "list", {}, {})
          /\ pane' = [pane EXCEPT !.rows = {}]
      BY <1>7 DEF PublishCame, Request
    <2>2. PICK new : /\ posted' = (posted \ {c}) \cup {new}
                     /\ new.kind = "list" /\ new.done = "sent"
      BY <1>1, <2>1, RequestPosts
    <2>3. pane'.held = pane.held /\ pane'.acked = pane.acked
      BY <1>2, <2>1
    <2> QED
      BY <1>2, <2>2, <2>3, PostsRest
  <1>8. CASE AcknowledgeCame(c)
    <2>1. PICK p : p = [pane EXCEPT !.acked = @ \cup c.of]
      OBVIOUS
    <2>2. c.of \subseteq ackRows /\ Render(p, posted \ {c})
      BY <1>1, <1>8, <2>1 DEF AcknowledgeCame, OfRows
    <2>3. PaneTyped(p) /\ p.held = pane.held /\ p.acked \subseteq ackRows
      BY <1>1, <1>2, <2>1, <2>2 DEF PaneTyped
    <2> QED
      BY <1>1, <1>2, <2>2, <2>3, RenderRest
  <1>9. CASE CallFailed(c)
    BY <1>1, <1>2, <1>9, RenderRest DEF CallFailed
  <1> QED
    BY <1>3, <1>4, <1>5, <1>6, <1>7, <1>8, <1>9

\* The server adds messages and acknowledgements, and takes none away.
LEMMA HandleRest ==
  ASSUME MailInv, MailRest, NEW c \in posted, Handle(c)
  PROVE  MailRest'
  <1>1. /\ MailTyped /\ RequestTyped(c) /\ OfRows(c)
        /\ c.kind \in Steps \cup {"acknowledge"} /\ pane' = pane
    BY DEF MailInv, MailTyped, MailRest, Handle, Steps
  <1>2. c = [id |-> c.id, kind |-> c.kind, of |-> c.of, at |-> c.at, to |-> c.to,
             done |-> c.done]
    BY <1>1 DEF RequestTyped
  <1>3. PICK new :
          /\ posted' = (posted \ {c}) \cup {new}
          /\ \/ /\ Does(c)
                /\ new = [c EXCEPT !.done = "done",
                                   !.of = IF c.kind = "draft" THEN {NextMessage} ELSE @]
             \/ /\ Does(c) \/ UNCHANGED <<messageRows, ackRows>>
                /\ new = [c EXCEPT !.done = "failed"]
    BY DEF Handle, Handled
  <1>4. /\ new.kind = c.kind
        /\ c.kind # "draft" => new.of = c.of
        /\ Does(c) \/ (new.done = "failed" /\ UNCHANGED <<messageRows, ackRows>>)
    BY <1>2, <1>3
  <1>5. CASE Does(c)
    <2>1. /\ MessageIds \subseteq MessageIds' /\ ackRows \subseteq ackRows'
          /\ c.kind = "acknowledge" => ackRows' = ackRows \cup c.of
          /\ c.kind # "acknowledge" => ackRows' = ackRows
      BY <1>1, <1>5, DoesToRows
    <2>2. ackRows' \subseteq MessageIds'
      BY <1>1, <2>1 DEF MailRest, OfRows
    <2>3. OfRows(new)'
      BY <1>1, <1>4, <2>1 DEF OfRows
    <2>4. \A d \in posted : OfRows(d)'
      BY <2>1 DEF MailRest, OfRows
    <2> QED
      BY <1>1, <1>3, <2>1, <2>2, <2>3, <2>4 DEF MailRest
  <1>6. CASE new.done = "failed" /\ UNCHANGED <<messageRows, ackRows>>
    <2>1. MessageIds' = MessageIds
      BY <1>6 DEF MessageIds
    <2>2. OfRows(new)'
      BY <1>1, <1>4, <1>6, <2>1 DEF OfRows
    <2>3. \A d \in posted : OfRows(d)'
      BY <1>6, <2>1 DEF MailRest, OfRows
    <2> QED
      BY <1>1, <1>3, <1>6, <2>1, <2>2, <2>3 DEF MailRest
  <1> QED
    BY <1>4, <1>5, <1>6

LEMMA MailRestStep ==
  ASSUME MailInv, MailRest, [MessageBoardNext]_messageBoardVars
  PROVE  MailRest'
  <1>1. /\ site \in Sites /\ pane.rows \in SUBSET Addressees
        /\ pane = [held |-> pane.held, acked |-> pane.acked, checked |-> pane.checked,
                   rows |-> pane.rows]
    BY DEF MailInv, MailTyped, PaneTyped
  <1>2. ASSUME NEW f \in Sites, SelectSite(f)
        PROVE  MailRest'
    <2>1. /\ UNCHANGED <<messageRows, ackRows>> /\ RequestAt(f, posted, "list", {}, {})
          /\ pane' = [pane EXCEPT !.acked = {}, !.checked = {}, !.rows = {}]
      BY <1>2 DEF SelectSite, CommsReset
    <2>2. PICK new : posted' = posted \cup {new} /\ new.kind = "list" /\ new.done = "sent"
      BY <2>1, RequestPosts
    <2>3. pane'.held = pane.held /\ pane'.acked = {}
      BY <1>1, <2>1
    <2> QED
      BY <2>1, <2>2, <2>3, PostsRest
  <1>3. ASSUME NEW m \in MessageIds, PressAcknowledge(m)
        PROVE  MailRest'
    <2>1. UNCHANGED <<messageRows, ackRows, pane>> /\ RequestAt(site, posted, "acknowledge", {m}, {})
      BY <1>3 DEF PressAcknowledge, Request
    <2>2. PICK new : posted' = posted \cup {new} /\ new.of = {m} /\ new.done = "sent"
      BY <1>1, <2>1, RequestPosts
    <2> QED
      BY <2>1, <2>2, PostsRest
  <1>4. ASSUME NEW rows \in SUBSET Addressees, EditAudience(rows)
        PROVE  MailRest'
    <2>1. UNCHANGED <<messageRows, ackRows, posted>> /\ pane' = [pane EXCEPT !.rows = rows]
      BY <1>4 DEF EditAudience
    <2>2. pane'.held = pane.held /\ pane'.acked = pane.acked
      BY <1>1, <2>1
    <2> QED
      BY <2>1, <2>2, PostsRest
  <1>5. CASE ComposeAndPublish
    <2>1. /\ UNCHANGED <<messageRows, ackRows, pane>>
          /\ RequestAt(site, posted, "draft", {}, pane.rows)
      BY <1>5 DEF ComposeAndPublish, Request
    <2>2. PICK new : posted' = posted \cup {new} /\ new.kind = "draft" /\ new.done = "sent"
      BY <1>1, <2>1, RequestPosts
    <2> QED
      BY <2>1, <2>2, PostsRest
  <1>6. CASE UNCHANGED messageBoardVars
    BY <1>6, PostsRest DEF messageBoardVars
  <1> QED
    BY <1>2, <1>3, <1>4, <1>5, <1>6, AnswersRest, HandleRest
       DEF MessageBoardNext

LEMMA MailTypes == MailInv /\ MailRest => MessageBoardTypeOK
  BY DEF MailInv, MailTyped, PaneTyped, MailRest, MessageBoardTypeOK

-----------------------------------------------------------------------------
\* The components of a facility's work side by side: a step of it is a step of
\* one of them, and the others stay.

LEMMA ComponentsInit ==
  OperationsInit =>
    /\ SchedulingInit /\ IncidentsInit /\ WitnessInit /\ WorkOrdersInit
    /\ CommunicationsInit /\ TrainingInit /\ ScheduleBoardInit /\ MessageBoardInit
  BY DEF OperationsInit

LEMMA ComponentsStep ==
  [OperationsNext]_operationsVars =>
    /\ [SchedulingNext]_schedulingVars
    /\ [IncidentsNext]_incidentsVars
    /\ [WitnessNext]_witnessVars
    /\ [WorkOrdersNext]_workOrderVars
    /\ [CommunicationsNext]_commVars
    /\ [TrainingNext]_trainingVars
    /\ [ScheduleBoardNext]_boardVars
    /\ [MessageBoardNext]_messageBoardVars
  <1>1. CASE OperationsNext
    BY <1>1 DEF OperationsNext, Moves
  <1>2. CASE UNCHANGED operationsVars
    BY <1>2 DEF operationsVars
  <1> QED
    BY <1>1, <1>2

\* The publications of a schedule are numbered 1, 2, ... and each is based on
\* the one before, however many publishers overlap, fail or are cut off
\* (scheduling-routes.mjs, the publish handler).
THEOREM PublicationsChain == OperationsSpec => []PublicationChain
  <1>1. OperationsInit => ChainInv
    BY ComponentsInit, ChainInit
  <1>2. ChainInv /\ [OperationsNext]_operationsVars => ChainInv'
    BY ComponentsStep, ChainStep
  <1>3. ChainInv => PublicationChain
    BY DEF ChainInv
  <1> QED
    BY <1>1, <1>2, <1>3, PTL DEF OperationsSpec

\* The numbers of a year have no gap, the amendments of a report form a chain
\* up to its present wording, and a report says who submitted it from when it
\* leaves draft (incidents-routes.mjs, apply_incident_amendment and the
\* transition guard).
THEOREM IncidentRecordIsContinuous == OperationsSpec => []RecordIsContinuous
  <1>1. OperationsInit => RecordInv
    BY ComponentsInit, RecordInit
  <1>2. RecordInv /\ [OperationsNext]_operationsVars => RecordInv'
    BY ComponentsStep, RecordStep
  <1>3. RecordInv => RecordIsContinuous
    BY DEF RecordInv
  <1> QED
    BY <1>1, <1>2, <1>3, PTL DEF OperationsSpec

\* What only the incident routes check holds of every step before which no two
\* requests were under way together: no report is closed over an open
\* follow-up, and no escalation falls back.
THEOREM IncidentGatesHold == OperationsSpec => GatesHoldUnlessCollided
  <1>1. OperationsInit => RecordInv /\ FreshInv
    BY ComponentsInit, RecordInit, FreshInit
  <1>2. RecordInv /\ FreshInv /\ [OperationsNext]_operationsVars
          => RecordInv' /\ FreshInv'
    BY ComponentsStep, RecordStep, FreshStep
  <1>3. ASSUME RecordInv, FreshInv, [OperationsNext]_operationsVars
        PROVE  [collided' \/
                 /\ \A i \in Incidents :
                      status[i] # "closed" /\ status'[i] = "closed"
                        => OpenFollowUps(i) = {}
                 /\ \A e \in Escalations :
                      /\ escalation[e].status = "acknowledged"
                           => escalation'[e].status # "pending"
                      /\ escalation[e].status = "resolved"
                           => escalation'[e] = escalation[e]]_incidentsVars
    BY <1>3, ComponentsStep, GatesStep
  <1> QED
    BY <1>1, <1>2, <1>3, PTL DEF OperationsSpec, GatesHoldUnlessCollided

\* The versions of a witness statement are numbered 1, 2, ..., the audit
\* events count each version and each signature at most once, and no version
\* is added after the first signature as long as requests do not overlap
\* (incidents-people-routes.mjs).
THEOREM StatementsAreHistory == OperationsSpec => []StatementHistory
  <1>1. OperationsInit => StatementInv
    BY ComponentsInit, StatementInit
  <1>2. StatementInv /\ [OperationsNext]_operationsVars => StatementInv'
    BY ComponentsStep, StatementStep
  <1>3. StatementInv => StatementHistory
    BY DEF StatementInv
  <1> QED
    BY <1>1, <1>2, <1>3, PTL DEF OperationsSpec

\* As long as PATCHes do not overlap and none is cut off between its two
\* writes, the history of a work order leads from the row that was inserted to
\* the row that is there; the list of overdue orders and the dashboard are
\* about the same orders, and the overdue come first (work-orders-routes.mjs
\* and sortWorkOrdersForDashboard).
THEOREM OrdersAreExplained == OperationsSpec => []WorkOrdersInv
  <1>1. OperationsInit => OrdersInv
    BY ComponentsInit, OrdersInitially
  <1>2. OrdersInv /\ [OperationsNext]_operationsVars => OrdersInv'
    BY ComponentsStep, OrdersStep
  <1>3. OrdersInv => WorkOrdersInv
    BY ListsAgree
  <1> QED
    BY <1>1, <1>2, <1>3, PTL DEF OperationsSpec

LEMMA RosterBooks == RosterInv => BookedOnceUnlessRaced
  BY DEF RosterInv, RosterFresh, BookedOnce, FilledOnce, GeneratedFor,
         BookedOnceUnlessRaced

\* As long as requests do not overlap and no shift is moved afterwards, an
\* employee whose bookings are checked for conflicts has no two that overlap, and
\* a slot has no more generated shifts than there are templates, however often
\* requests are cut off and repeated (scheduling-routes.mjs: the check and the
\* insert are two calls).
THEOREM ScheduleBooksOnce == OperationsSpec => []BookedOnceUnlessRaced
  <1>1. OperationsInit => RosterInv
    BY ComponentsInit, RosterInit
  <1>2. RosterInv /\ [OperationsNext]_operationsVars => RosterInv'
    BY ComponentsStep, RosterStep
  <1> QED
    BY <1>1, <1>2, RosterBooks, PTL DEF OperationsSpec

\* A draft has no job and a published message one, which two publications that
\* overlap alone can double; and, until its audience or a roster it names changes,
\* whoever the compliance report counts as pending was a recipient of the job
\* (communications-routes.mjs: publish, and the acknowledgement summary).
THEOREM PendingMembersWereTold == OperationsSpec => []CommunicationsInv
  <1>1. OperationsInit => MessagesInv
    BY ComponentsInit, MessagesInit
  <1>2. MessagesInv /\ [OperationsNext]_operationsVars => MessagesInv'
    BY ComponentsStep, MessagesStep
  <1> QED
    BY <1>1, <1>2, MessagesOwed, PTL DEF OperationsSpec

\* The events of a certification tell each revocation and each renewal of it,
\* with the two rows, and nothing else; and what the wallet shows expired or
\* missing, the gap report lists (training-routes.mjs, cert-policy-routes.mjs).
THEOREM CertificationsAreTold == OperationsSpec => []CertificationsInv
  <1>1. OperationsInit => TrainingInv
    BY ComponentsInit, TrainingStarts
  <1>2. TrainingInv /\ [OperationsNext]_operationsVars => TrainingInv'
    BY ComponentsStep, TrainingStep
  <1>3. TrainingInv => CertificationsInv
    BY CertificationLogByName, GapsFollow DEF TrainingInv, CertificationsInv
  <1> QED
    BY <1>1, <1>2, <1>3, PTL DEF OperationsSpec

\* A completion is never replaced, and an assignment is passed only in a state
\* in which every lesson required then is completed for it, unless requests
\* overlapped (training-routes.mjs, the completion handler).
THEOREM PassedIsEarned == OperationsSpec => PassedWasEarned
  <1>1. OperationsInit => TrainingInv
    BY ComponentsInit, TrainingStarts
  <1>2. TrainingInv /\ [OperationsNext]_operationsVars => TrainingInv'
    BY ComponentsStep, TrainingStep
  <1>3. ASSUME TrainingInv, [OperationsNext]_operationsVars
        PROVE  [\A a \in Assignments :
                  completions[a] # completions[a]' =>
                    /\ completions[a] = "none"
                    /\ mixed \/ completions[a]' # "passed"
                             \/ \A m \in Lessons : lessons[m] = "required" =>
                                  progress[a][m] = "completed"]_trainingVars
    BY <1>3, ComponentsStep, PassedStep
  <1> QED
    BY <1>1, <1>2, <1>3, PTL DEF OperationsSpec, PassedWasEarned

\* A panel that is waited for acts on what it shows.  What is generated, added,
\* validated or published is the period that was on the screen, and at rest that
\* is the period of the week and the rink selected; a message that is published
\* is addressed as it was when it was sent, and what the caller acknowledged is
\* shown so: unless somebody went on while a call was on its way, or an
\* acknowledgement failed (app.js: the schedule builder and the communications
\* panel, whose handlers read their state again after each await).
THEOREM PanelsActOnWhatTheyShow == OperationsSpec => []BoardsInv
  <1>1. OperationsInit => PanelInv /\ MailInv
    BY ComponentsInit, PanelInit, MailInit
  <1>2. PanelInv /\ MailInv /\ [OperationsNext]_operationsVars => PanelInv' /\ MailInv'
    BY ComponentsStep, PanelStep, MailStep
  <1>3. PanelInv /\ MailInv => BoardsInv
    BY PanelShows, MailIsRight DEF BoardsInv
  <1> QED
    BY <1>1, <1>2, <1>3, PTL DEF OperationsSpec

\* Every component's invariant with what it leaves out of the types.
OperationsTyped ==
  /\ ChainInv /\ RosterInv /\ RosterRest
  /\ RecordInv /\ IncidentsRest
  /\ StatementInv /\ WitnessRest
  /\ OrdersInv /\ OrdersRest
  /\ MessagesInv /\ MessagesRest
  /\ TrainingInv /\ TrainingRest
  /\ PanelInv /\ BoardRest
  /\ MailInv /\ MailRest
  /\ focus \in {"scheduling", "incidents", "witnesses", "work orders", "communications",
               "training", "schedule board", "message board"}

LEMMA OperationsTypedInit == OperationsInit => OperationsTyped
  <1> SUFFICES ASSUME OperationsInit PROVE OperationsTyped
    OBVIOUS
  <1>1. ChainInv /\ RosterInv /\ RosterRest
    BY ComponentsInit, ChainInit, RosterInit, RosterRestInit
  <1>2. RecordInv /\ IncidentsRest /\ StatementInv /\ WitnessRest
    BY ComponentsInit, RecordInit, IncidentsRestInit, StatementInit,
       WitnessRestInit
  <1>3. OrdersInv /\ OrdersRest /\ MessagesInv /\ MessagesRest
    BY ComponentsInit, OrdersInitially, OrdersRestInit, MessagesInit,
       MessagesRestInit
  <1>4. TrainingInv /\ TrainingRest
    BY ComponentsInit, TrainingStarts, TrainingRestInit
  <1>5. PanelInv /\ BoardRest /\ MailInv /\ MailRest
    BY ComponentsInit, PanelInit, BoardRestInit, MailInit, MailRestInit
  <1> QED
    BY <1>1, <1>2, <1>3, <1>4, <1>5 DEF OperationsInit, OperationsTyped

LEMMA OperationsTypedStep ==
  OperationsTyped /\ [OperationsNext]_operationsVars => OperationsTyped'
  <1> SUFFICES ASSUME OperationsTyped, [OperationsNext]_operationsVars
               PROVE  OperationsTyped'
    OBVIOUS
  <1>1. /\ [SchedulingNext]_schedulingVars /\ [IncidentsNext]_incidentsVars
        /\ [WitnessNext]_witnessVars /\ [WorkOrdersNext]_workOrderVars
        /\ [CommunicationsNext]_commVars /\ [TrainingNext]_trainingVars
        /\ [ScheduleBoardNext]_boardVars /\ [MessageBoardNext]_messageBoardVars
    BY ComponentsStep
  <1>2. (ChainInv /\ RosterInv /\ RosterRest)'
    BY <1>1, ChainStep, RosterStep, RosterRestStep DEF OperationsTyped
  <1>3. (RecordInv /\ IncidentsRest)'
    BY <1>1, RecordStep, IncidentsRestStep DEF OperationsTyped
  <1>4. (StatementInv /\ WitnessRest)'
    BY <1>1, StatementStep, WitnessRestKept DEF OperationsTyped
  <1>5. (OrdersInv /\ OrdersRest)'
    BY <1>1, OrdersStep, OrdersRestStep DEF OperationsTyped
  <1>6. (MessagesInv /\ MessagesRest)'
    BY <1>1, MessagesStep, MessagesRestStep DEF OperationsTyped
  <1>7. (TrainingInv /\ TrainingRest)'
    BY <1>1, TrainingStep, TrainingRestStep DEF OperationsTyped
  <1>8. (PanelInv /\ BoardRest)'
    BY <1>1, PanelStep, BoardRestStep DEF OperationsTyped
  <1>9. (MailInv /\ MailRest)'
    BY <1>1, MailStep, MailRestStep DEF OperationsTyped
  <1>10. focus' = focus
    BY DEF OperationsNext, operationsVars
  <1> QED
    BY <1>2, <1>3, <1>4, <1>5, <1>6, <1>7, <1>8, <1>9, <1>10
       DEF OperationsTyped

\* Every table and every panel of a facility's work keeps its shape, whichever
\* component moves: what a panel shows, names in a call or counts is on file at
\* the server, no statement has more versions than calls were made, an order's
\* dates lie between the clock's start and its end plus what the SLA allows
\* (the route modules of scheduling, incidents, work orders, communications and
\* training, and the two panels of app.js).
THEOREM OperationsAreTyped == OperationsSpec => []OperationsTypeOK
  <1>1. OperationsTyped => OperationsTypeOK
    <2> SUFFICES ASSUME OperationsTyped PROVE OperationsTypeOK
      OBVIOUS
    <2>1. SchedulingTypeOK /\ IncidentsTypeOK /\ WitnessTypeOK /\ WorkOrdersTypeOK
      BY RosterTypes, IncidentsTypes, WitnessTypes, OrdersTypes
         DEF OperationsTyped
    <2>2. CommunicationsTypeOK /\ TrainingTypeOK /\ ScheduleBoardTypeOK /\ MessageBoardTypeOK
      BY MessagesTypes, TrainingTypes, BoardTypes, MailTypes
         DEF OperationsTyped
    <2> QED
      BY <2>1, <2>2 DEF OperationsTyped, OperationsTypeOK
  <1> QED
    BY <1>1, OperationsTypedInit, OperationsTypedStep, PTL DEF OperationsSpec
=============================================================================
