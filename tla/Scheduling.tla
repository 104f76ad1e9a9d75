------------------------------ MODULE Scheduling ------------------------------
(***************************************************************************)
(* http/scheduling-routes.mjs and scheduling.mjs: one schedule period, the *)
(* shifts and assignments of its facility, and the managers who edit them. *)
(*                                                                         *)
(* A route reads rows, decides on what it read, and writes by id: no write *)
(* repeats in its filter the status the decision was about.  A route that  *)
(* decides on a read is a request with a step per read or write; one whose *)
(* write does not depend on what it read is a single action.  Reads issued *)
(* together (Promise.all) are one step.                                    *)
(*                                                                         *)
(* A slot stands for a start and an end, an item of a template for the     *)
(* shift it expands to in the period's week.  Every shift requires one     *)
(* certification.                                                          *)
(***************************************************************************)
EXTENDS Naturals, FiniteSets, Functions, FiniteSetsExt

CONSTANTS
  Managers,     \* requests of managers that can overlap
  Shifts,       \* identifiers a schedule_shifts row can get
  Templates,    \* shift_templates rows
  Employees,
  Slots,        \* times a shift can have
  Overlapping,  \* pairs of slots that overlap
  MaxEdits,     \* bound: requests of several steps, templates saved, shifts moved
  NoSlot

ASSUME SchedulingAssumption ==
  /\ Overlapping \subseteq Slots \X Slots
  /\ \A x \in Slots : <<x, x>> \in Overlapping
  /\ \A x, y \in Slots : <<x, y>> \in Overlapping => <<y, x>> \in Overlapping
  /\ NoSlot \notin Slots
  /\ IsFiniteSet(Templates)
  /\ MaxEdits \in Nat

VARIABLES
  rules,          \* settings in force: conflictCheckEnabled,
                  \* requireApprovalBeforePublish, certEnforcementMode
  certified,      \* employees with an active certification
  periodStatus,   \* schedule_periods.status, "absent" before the insert
  publishVersion, \* schedule_periods.publish_version
  publications,   \* schedule_publications: the version, and the version of
                  \* the snapshot the change summary was computed against
  templates,      \* the slot of an active template, NoSlot of an inactive one
  slot,           \* schedule_shifts: starts_at and ends_at, NoSlot if no row
  generated,      \* shifts with source = 'template'
  booking,        \* shift_assignments.status by shift, employee and type
  desk,           \* what a manager's request has read
  edits,
  raced,          \* history: two requests were under way together
  moved           \* history: the time of a shift was edited

period  == <<periodStatus, publishVersion, publications>>
roster  == <<templates, slot, generated, booking>>
context == <<rules, certified>>
schedulingVars == <<rules, certified, periodStatus, publishVersion,
                    publications, templates, slot, generated, booking, desk,
                    edits, raced, moved>>

Types == {"primary", "cover"}
Rows  == Shifts \X Employees \X Types
Free  == [at |-> "free"]
Live  == {"pending", "approved"}

SchedulingInit ==
  /\ rules \in [conflicts : BOOLEAN, approval : BOOLEAN, hardBlock : BOOLEAN]
  /\ certified \in SUBSET Employees
  /\ ~rules.hardBlock => certified = {}   \* only the hard block looks at it
  /\ periodStatus = "absent" /\ publishVersion = 0 /\ publications = {}
  /\ templates = [t \in Templates |-> NoSlot]
  /\ slot      = [s \in Shifts |-> NoSlot]
  /\ generated = {}
  /\ booking   = [row \in Rows |-> "none"]
  /\ desk      = [m \in Managers |-> Free]
  /\ edits = 0 /\ raced = FALSE /\ moved = FALSE

-----------------------------------------------------------------------------
\* Requests.

Edit == edits < MaxEdits /\ edits' = edits + 1

Open(m, record) ==
  /\ desk[m] = Free
  /\ Edit
  /\ desk' = [desk EXCEPT ![m] = record]
  /\ raced' = (raced \/ \E other \in Managers \ {m} : desk[other] # Free)

Continue(m, record) ==
  /\ desk' = [desk EXCEPT ![m] = record]
  /\ UNCHANGED <<edits, raced>>

Close(m) == Continue(m, Free)

\* A request that is refused after a read, whose call fails, or whose function
\* is cut off leaves what it has written so far.
DropEdit(m) ==
  /\ desk[m] # Free
  /\ Close(m)
  /\ UNCHANGED <<context, period, roster, moved>>

-----------------------------------------------------------------------------
\* Single-write routes.

CreatePeriod ==
  /\ periodStatus = "absent"
  /\ periodStatus' = "draft" /\ publishVersion' = 0
  /\ UNCHANGED <<context, publications, roster, desk, edits, raced, moved>>

\* POST, PATCH and DELETE of a template: a delete sets active to false.
SaveTemplate(t, x) ==
  /\ templates' = [templates EXCEPT ![t] = x]
  /\ Edit
  /\ UNCHANGED <<context, period, slot, generated, booking, desk, raced, moved>>

AddShift(s, x) ==
  /\ periodStatus # "absent"
  /\ slot[s] = NoSlot
  /\ slot' = [slot EXCEPT ![s] = x]
  /\ UNCHANGED <<context, period, templates, generated, booking, desk, edits,
                 raced, moved>>

\* The period the route reads decides only whether a reason must be given.
MoveShift(s, x) ==
  /\ slot[s] \notin {NoSlot, x}
  /\ slot' = [slot EXCEPT ![s] = x]
  /\ moved' = TRUE
  /\ Edit
  /\ UNCHANGED <<context, period, templates, generated, booking, desk, raced>>

-----------------------------------------------------------------------------
\* PATCH schedule-periods/:periodId.

CanTransitionPeriod(from, to) ==
  <<from, to>> \in {<<"draft", "review">>, <<"draft", "published">>,
                    <<"review", "draft">>, <<"review", "published">>,
                    <<"published", "archived">>}

LoadPeriod(m, op) ==
  /\ periodStatus # "absent"
  /\ Open(m, [at |-> op, status |-> periodStatus, version |-> publishVersion])
  /\ UNCHANGED <<context, period, roster, moved>>

WritePeriod(m, to) ==
  /\ desk[m].at = "patch"
  /\ CanTransitionPeriod(desk[m].status, to)
  /\ periodStatus' = to
  /\ Close(m)
  /\ UNCHANGED <<context, publishVersion, publications, roster, moved>>

-----------------------------------------------------------------------------
\* POST schedule-periods/:periodId/generate.

\* The active templates for whose slot, the natural key of a shift, no
\* generated shift exists.  Two templates with one slot both count.
Expand ==
  {t \in Templates : templates[t] \notin {slot[s] : s \in generated} \cup {NoSlot}}

GenerateRead(m) ==
  /\ desk[m].at = "generate"
  /\ desk[m].status \in {"draft", "review"}
  /\ Expand # {}
  /\ Continue(m, [at |-> "insert", slots |-> [t \in Expand |-> templates[t]]])
  /\ UNCHANGED <<context, period, roster, moved>>

\* One insert for all rows, into unused identifiers.
GenerateInsert(m) ==
  /\ desk[m].at = "insert"
  /\ \E ids \in kSubset(Cardinality(DOMAIN desk[m].slots),
                         {s \in Shifts : slot[s] = NoSlot}) :
     \E f \in Bijection(ids, DOMAIN desk[m].slots) :
       /\ slot' = [s \in Shifts |-> IF s \in ids THEN desk[m].slots[f[s]]
                                    ELSE slot[s]]
       /\ generated' = generated \cup ids
  /\ Close(m)
  /\ UNCHANGED <<context, period, templates, booking, moved>>

-----------------------------------------------------------------------------
\* POST shifts/:shiftId/assignments.

AssignLoad(m, row) ==
  /\ slot[row[1]] # NoSlot
  /\ Open(m, [at |-> "assign", row |-> row, slot |-> slot[row[1]]])
  /\ UNCHANGED <<context, period, roster, moved>>

\* A variant: pending assignments do not count.
ConflictsApproved(row, x) ==
  {other \in Rows :
     /\ booking[other] = "approved"
     /\ other[2] = row[2] /\ other[1] # row[1]
     /\ <<slot[other[1]], x>> \in Overlapping}

\* Live assignments of the employee to other shifts that overlap this one.
Conflicts(row, x) ==
  {other \in Rows :
     /\ booking[other] \in Live
     /\ other[2] = row[2] /\ other[1] # row[1]
     /\ <<slot[other[1]], x>> \in Overlapping}

AssignCheck(m) ==
  /\ desk[m].at = "assign"
  /\ rules.conflicts => Conflicts(desk[m].row, desk[m].slot) = {}
  /\ Continue(m, [at |-> "book", row |-> desk[m].row])
  /\ UNCHANGED <<context, period, roster, moved>>

\* unique (shift_id, employee_id, assignment_type) counts cancelled rows.
AssignInsert(m) ==
  /\ desk[m].at = "book"
  /\ booking[desk[m].row] = "none"
  /\ booking' = [booking EXCEPT ![desk[m].row] = "pending"]
  /\ Close(m)
  /\ UNCHANGED <<context, period, templates, slot, generated, moved>>

\* PATCH shifts/:shiftId/assignments/:assignmentId.
CanTransitionAssignment(from, to) ==
  <<from, to>> \in {<<"pending", "approved">>, <<"pending", "declined">>,
                    <<"pending", "cancelled">>, <<"approved", "cancelled">>,
                    <<"declined", "cancelled">>}

DecideLoad(m, row) ==
  /\ booking[row] # "none"
  /\ Open(m, [at |-> "decide", row |-> row, status |-> booking[row]])
  /\ UNCHANGED <<context, period, roster, moved>>

DecideWrite(m, to) ==
  /\ desk[m].at = "decide"
  /\ CanTransitionAssignment(desk[m].status, to)
  /\ booking' = [booking EXCEPT ![desk[m].row] = to]
  /\ Close(m)
  /\ UNCHANGED <<context, period, templates, slot, generated, moved>>

-----------------------------------------------------------------------------
\* POST schedule-periods/:periodId/publish.

\* computeScheduleReadiness passes every assignment on, whatever its status,
\* and compares each with each, the two types on one shift included.
Booked == {row \in Rows : booking[row] # "none"}

DoubleBookings ==
  {pair \in Booked \X Booked :
     /\ pair[1] # pair[2] /\ pair[1][2] = pair[2][2]
     /\ <<slot[pair[1][1]], slot[pair[2][1]]>> \in Overlapping}

MissingCertifications == {row \in Booked : row[2] \notin certified}

CanPublish ==
  /\ rules.conflicts => DoubleBookings = {}
  /\ rules.hardBlock => MissingCertifications = {}

PublishCheck(m, override) ==
  /\ desk[m].at = "publish"
  /\ \/ desk[m].status = "published"
     \/ /\ CanTransitionPeriod(desk[m].status, "published")
        /\ rules.approval => desk[m].status = "review"
  /\ CanPublish \/ override
  /\ Continue(m, [desk[m] EXCEPT !.at = "prior"])
  /\ UNCHANGED <<context, period, roster, moved>>

Newest(chain) ==
  IF chain = {} THEN 0
  ELSE CHOOSE n \in {p.version : p \in chain} :
         \A p \in chain : p.version <= n

PublishPrior(m) ==
  /\ desk[m].at = "prior"
  /\ Continue(m, [at |-> "publication", status |-> desk[m].status,
                  version |-> desk[m].version + 1,
                  base |-> Newest(publications)])
  /\ UNCHANGED <<context, period, roster, moved>>

\* A variant without the unique key.
PublishInsertUnkeyed(m) ==
  /\ desk[m].at = "publication"
  /\ publications' = publications \cup
       {[version |-> desk[m].version, base |-> desk[m].base]}
  /\ Continue(m, [desk[m] EXCEPT !.at = "stamp"])
  /\ UNCHANGED <<context, periodStatus, publishVersion, roster, moved>>

\* unique (schedule_period_id, publish_version)
PublishInsert(m) ==
  /\ desk[m].at = "publication"
  /\ desk[m].version \notin {p.version : p \in publications}
  /\ publications' = publications \cup
       {[version |-> desk[m].version, base |-> desk[m].base]}
  /\ Continue(m, [desk[m] EXCEPT !.at = "stamp"])
  /\ UNCHANGED <<context, periodStatus, publishVersion, roster, moved>>

PublishUpdate(m) ==
  /\ desk[m].at = "stamp"
  /\ publishVersion' = desk[m].version
  /\ periodStatus' =
       IF desk[m].status = "published" THEN periodStatus ELSE "published"
  /\ Close(m)
  /\ UNCHANGED <<context, publications, roster, moved>>

-----------------------------------------------------------------------------
SchedulingNext ==
  \/ CreatePeriod
  \/ \E t \in Templates, x \in Slots \cup {NoSlot} : SaveTemplate(t, x)
  \/ \E s \in Shifts, x \in Slots : AddShift(s, x) \/ MoveShift(s, x)
  \/ \E m \in Managers :
       \/ DropEdit(m)
       \/ \E op \in {"patch", "generate", "publish"} : LoadPeriod(m, op)
       \/ \E to \in {"draft", "review", "published", "archived"} :
            WritePeriod(m, to)
       \/ GenerateRead(m) \/ GenerateInsert(m)
       \/ \E row \in Rows : AssignLoad(m, row) \/ DecideLoad(m, row)
       \/ AssignCheck(m) \/ AssignInsert(m)
       \/ \E to \in {"approved", "declined", "cancelled"} : DecideWrite(m, to)
       \/ \E override \in BOOLEAN : PublishCheck(m, override)
       \/ PublishPrior(m) \/ PublishInsert(m) \/ PublishUpdate(m)

SchedulingSpec == SchedulingInit /\ [][SchedulingNext]_schedulingVars

-----------------------------------------------------------------------------
SchedulingTypeOK ==
  /\ rules \in [conflicts : BOOLEAN, approval : BOOLEAN, hardBlock : BOOLEAN]
  /\ certified \subseteq Employees
  /\ periodStatus \in {"absent", "draft", "review", "published", "archived"}
  /\ publishVersion \in Nat
  /\ publications \subseteq [version : Nat, base : Nat]
  /\ templates \in [Templates -> Slots \cup {NoSlot}]
  /\ slot \in [Shifts -> Slots \cup {NoSlot}]
  /\ generated \subseteq {s \in Shifts : slot[s] # NoSlot}
  /\ booking \in [Rows -> {"none", "pending", "approved", "declined",
                           "cancelled"}]
  /\ edits \in 0 .. MaxEdits /\ raced \in BOOLEAN /\ moved \in BOOLEAN

\* The publications of a period are numbered 1, 2, ... without a gap or a
\* repetition, each is the difference to the one before it, and the period
\* names the newest or, while or after one fails half-way, the one before.
\* Publishers read the version, the snapshot and write both at four moments.
PublicationChain ==
  LET n == Cardinality(publications)
  IN /\ {p.version : p \in publications} = 1 .. n
     /\ \A p \in publications : p.base = p.version - 1
     /\ publishVersion \in {n, n - 1}

\* As long as requests do not overlap and no shift is moved afterwards, the
\* conflict check keeps an employee from two overlapping shifts, and generate
\* inserts no more shifts for a slot than there are templates, however often
\* requests are cut off and repeated.
BookedOnceUnlessRaced ==
  raced \/ moved \/
    /\ rules.conflicts =>
         \A a, b \in Rows :
           (a[1] # b[1] /\ a[2] = b[2]
              /\ booking[a] \in Live /\ booking[b] \in Live)
             => <<slot[a[1]], slot[b[1]]>> \notin Overlapping
    /\ \A x \in Slots : Cardinality({s \in generated : slot[s] = x})
                         <= Cardinality(Templates)
=============================================================================
