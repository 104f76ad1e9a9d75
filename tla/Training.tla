------------------------------- MODULE Training -------------------------------
(***************************************************************************)
(* http/training-routes.mjs, http/cert-policy-routes.mjs and the helpers   *)
(* they call: the modules of one course, its assignments with their        *)
(* progress and completion, and the certifications of employees with the   *)
(* events that record their life.                                          *)
(*                                                                         *)
(* A completion reads the modules and the progress in two selects that run *)
(* side by side, decides, and inserts.  A change of a certification reads  *)
(* the row, updates it by id, and appends an event derived from the row it *)
(* read and the row the update returned.                                   *)
(***************************************************************************)
EXTENDS Integers, Sequences, FiniteSets

CONSTANTS
  Trainers,      \* requests that can overlap
  Lessons,       \* identifiers a course_modules row can get
  Assignments,   \* identifiers a training_assignments row can get
  Curriculum,    \* the lessons there are to begin with
  Enrolled,      \* the assignments there are to begin with
  Holders,       \* employees
  CertTypes,     \* certification_types
  TypeWindow,    \* renewal_window_days of each type
  DefaultWindow, \* training.recertWindowDays
  MaxCalendar,   \* bound: days that pass
  MaxTrainings,  \* bound: requests that write
  NoCert

ASSUME TrainingAssumption ==
  /\ Curriculum \in [Lessons -> {"absent", "required", "optional"}]
  /\ Enrolled \subseteq Assignments
  /\ TypeWindow \in [CertTypes -> Nat] /\ DefaultWindow \in Nat
  /\ MaxCalendar \in Nat /\ MaxTrainings \in Nat

VARIABLES
  lessons,      \* course_modules: whether a lesson is required
  assigned,     \* training_assignments of the course
  progress,     \* training_progress.state of an assignment's lesson
  completions,  \* training_completions, unique per assignment
  certs,        \* employee_certifications, unique per employee and type
  certHistory,  \* history: the rows a certification has been
  certEvents,   \* certification_events
  required,     \* types an active certification_role_requirements row names
  trainer,      \* what a request has read or has to record
  today, trainings,
  mixed,        \* history: two requests were under way together
  unlogged      \* history: a request ended between its write and its event

courseVars   == <<lessons, assigned, progress, completions>>
certVars     == <<certs, certHistory, certEvents, required>>
trainingVars == <<courseVars, certVars, trainer, today, trainings, mixed,
                  unlogged>>

-----------------------------------------------------------------------------
ProgressStates   == {"not_started", "in_progress", "completed", "failed"}
CompletionStates == {"passed", "failed", "waived"}
CertStates       == {"active", "expired", "revoked"}
Never            == MaxCalendar + 2     \* no expires_at
Expiries         == 0 .. MaxCalendar + 1
CertIds          == Holders \X CertTypes
CertRows         == [status : CertStates, expires : Expiries \cup {Never}]

ASSUME NoCertAssumption == NoCert \notin CertRows

Seated == [at |-> "seat"]

TrainingInit ==
  /\ lessons     = Curriculum
  /\ assigned    = Enrolled
  /\ progress    = [a \in Assignments |-> [m \in Lessons |-> "none"]]
  /\ completions = [a \in Assignments |-> "none"]
  /\ certs       = [c \in CertIds |-> NoCert]
  /\ certHistory = [c \in CertIds |-> <<>>]
  /\ certEvents  = [c \in CertIds |-> <<>>]
  /\ required    = {}
  /\ trainer     = [r \in Trainers |-> Seated]
  /\ today = 0 /\ trainings = 0 /\ mixed = FALSE /\ unlogged = FALSE

\* A request that writes begins; it ends in one step when step is Seated.
Train(r, step) ==
  /\ trainer[r] = Seated /\ trainings < MaxTrainings
  /\ trainings' = trainings + 1
  /\ mixed' = (mixed \/ \E o \in Trainers \ {r} : trainer[o] # Seated)
  /\ trainer' = [trainer EXCEPT ![r] = step]
  /\ UNCHANGED <<today, unlogged>>

GoOn(r, step) ==
  /\ trainer' = [trainer EXCEPT ![r] = step]
  /\ UNCHANGED <<today, trainings, mixed>>

\* A request is refused after a read, or one of its calls fails.
Dismiss(r) ==
  /\ trainer[r] # Seated
  /\ unlogged' = (unlogged \/ trainer[r].at = "event")
  /\ GoOn(r, Seated)
  /\ UNCHANGED <<courseVars, certVars>>

DayPasses ==
  /\ today < MaxCalendar
  /\ today' = today + 1
  /\ UNCHANGED <<courseVars, certVars, trainer, trainings, mixed, unlogged>>

-----------------------------------------------------------------------------
(* The course and its assignments *)

\* Creating a module, or patching its required flag.
SaveLesson(r, m, need) ==
  /\ lessons[m] # need
  /\ lessons' = [lessons EXCEPT ![m] = need]
  /\ Train(r, Seated)
  /\ UNCHANGED <<assigned, progress, completions, certVars>>

\* The unique key (employee, course, source_type, source_ref_id) does not bind
\* a manual assignment, whose source_ref_id is null.
Assign(r, a) ==
  /\ a \notin assigned
  /\ assigned' = assigned \cup {a}
  /\ Train(r, Seated)
  /\ UNCHANGED <<lessons, progress, completions, certVars>>

LoadAssignment(r, op, a) ==
  /\ a \in assigned
  /\ Train(r, [at |-> op, assignment |-> a])
  /\ UNCHANGED <<courseVars, certVars>>

\* loadCourseModule, the ownership check, and the merging upsert.
RecordProgress(r, m, state) ==
  /\ trainer[r].at = "progress"
  /\ lessons[m] # "absent"
  /\ progress' = [progress EXCEPT ![trainer[r].assignment][m] = state]
  /\ GoOn(r, Seated)
  /\ UNCHANGED <<lessons, assigned, completions, certVars, unlogged>>

\* Only 'passed' reads what it claims; 'failed' and 'waived' insert at once.
ReadForCompletion(r) ==
  /\ trainer[r].at = "complete"
  /\ GoOn(r, [at |-> "modules", assignment |-> trainer[r].assignment,
              need |-> {}, done |-> {}, left |-> {"need", "done"}])
  /\ UNCHANGED <<courseVars, certVars, unlogged>>

\* Promise.all of loadModulesForCourse and loadProgressForAssignment.
SelectRows(r, part) ==
  LET t == trainer[r]
  IN /\ t.at = "modules" /\ part \in t.left
     /\ GoOn(r, [t EXCEPT
          !.left = @ \ {part},
          !.need = IF part = "need"
                     THEN {m \in Lessons : lessons[m] = "required"} ELSE @,
          !.done = IF part = "done"
                     THEN {m \in Lessons :
                             progress[t.assignment][m] = "completed"}
                     ELSE @])
     /\ UNCHANGED <<courseVars, certVars, unlogged>>

\* A variant that compares numbers.
EnoughCompleted(t) ==
  t.left = {} /\ Cardinality(t.done) >= Cardinality(t.need)

AssignmentReadyToComplete(t) == t.left = {} /\ t.need \subseteq t.done

InsertCompletion(r, status) ==
  LET t == trainer[r]
  IN /\ IF status = "passed" THEN t.at = "modules" /\ AssignmentReadyToComplete(t)
                             ELSE t.at = "complete"
     /\ completions[t.assignment] = "none"
     /\ completions' = [completions EXCEPT ![t.assignment] = status]
     /\ GoOn(r, Seated)
     /\ UNCHANGED <<lessons, assigned, progress, certVars, unlogged>>

-----------------------------------------------------------------------------
(* Certifications *)

CertificationStatus(row, window) ==
  IF row.status = "revoked" THEN "revoked"
  ELSE IF row.expires = Never THEN row.status
  ELSE IF row.expires < today THEN "expired"
  ELSE IF row.expires - window <= today THEN "expiring"
  ELSE "active"

\* A variant that calls a revocation of a longer certificate a renewal.
EventForRenewalFirst(before, after) ==
  CASE before = NoCert -> "created"
    [] before # NoCert /\ after.expires # Never
         /\ (before.expires = Never \/ after.expires > before.expires)
           -> "renewed"
    [] before # NoCert /\ after.status = "revoked"
                       /\ before.status # "revoked" -> "revoked"
    [] OTHER -> "none"

\* The kind of event a write appends, "none" when it appends none.
CertificationEventFor(before, after) ==
  CASE before = NoCert -> "created"
    [] before # NoCert /\ after.status = "revoked"
                       /\ before.status # "revoked" -> "revoked"
    [] before # NoCert /\ after.status # "revoked" /\ after.expires # Never
         /\ (before.expires = Never \/ after.expires > before.expires)
           -> "renewed"
    [] OTHER -> "none"

ThenEvent(r, c, before, after) ==
  LET kind == CertificationEventFor(before, after)
  IN IF kind = "none" THEN Seated
     ELSE [at |-> "event", cert |-> c,
           event |-> [kind |-> kind, before |-> before, after |-> after]]

WriteCert(c, row) ==
  /\ certs' = [certs EXCEPT ![c] = row]
  /\ certHistory' = [certHistory EXCEPT ![c] = Append(@, row)]

IssueCert(r, c, row) ==
  /\ certs[c] = NoCert
  /\ WriteCert(c, row)
  /\ Train(r, ThenEvent(r, c, NoCert, row))
  /\ UNCHANGED <<courseVars, certEvents, required>>

LoadCertification(r, c) ==
  /\ certs[c] # NoCert
  /\ Train(r, [at |-> "patch", cert |-> c, before |-> certs[c]])
  /\ UNCHANGED <<courseVars, certVars>>

\* The patch names the columns it changes; the others keep what they are now.
PatchCertification(r, status, expires) ==
  LET t     == trainer[r]
      after == [status  |-> IF status = "keep" THEN certs[t.cert].status
                                               ELSE status,
                expires |-> IF expires = -1 THEN certs[t.cert].expires
                                            ELSE expires]
  IN /\ t.at = "patch"
     /\ status # "keep" \/ expires # -1
     /\ WriteCert(t.cert, after)
     /\ GoOn(r, ThenEvent(r, t.cert, t.before, after))
     /\ UNCHANGED <<courseVars, certEvents, required, unlogged>>

InsertCertificationEvent(r) ==
  LET t == trainer[r]
  IN /\ t.at = "event"
     /\ certEvents' = [certEvents EXCEPT ![t.cert] = Append(@, t.event)]
     /\ GoOn(r, Seated)
     /\ UNCHANGED <<courseVars, certs, certHistory, required, unlogged>>

\* A requirement of the role is added, activated or deactivated.
ChangeRequirement(r, type) ==
  /\ required' = IF type \in required THEN required \ {type}
                                      ELSE required \cup {type}
  /\ Train(r, Seated)
  /\ UNCHANGED <<courseVars, certs, certHistory, certEvents>>

-----------------------------------------------------------------------------
(* What the routes answer *)

\* The wallet folds in the window of the certification's type.
WalletStatus(c) == CertificationStatus(certs[c], TypeWindow[c[2]])

\* The gap report selects neither the types nor the settings, and goes through
\* the employees who hold some certification.
GapStatus(c) ==
  IF certs[c] = NoCert THEN "missing"
  ELSE LET status == CertificationStatus(certs[c], DefaultWindow)
       IN IF status = "revoked" THEN "expired" ELSE status

GapReport ==
  {<<c, GapStatus(c)>> :
     c \in {x \in CertIds :
              /\ x[2] \in required
              /\ \E t \in CertTypes : certs[<<x[1], t>>] # NoCert
              /\ GapStatus(x) # "active"}}

-----------------------------------------------------------------------------
TrainingNext ==
  \/ DayPasses
  \/ \E r \in Trainers :
       \/ Dismiss(r)
       \/ \E m \in Lessons :
            \/ \E need \in {"required", "optional"} : SaveLesson(r, m, need)
            \/ \E s \in ProgressStates : RecordProgress(r, m, s)
       \/ \E a \in Assignments :
            \/ Assign(r, a)
            \/ \E op \in {"progress", "complete"} : LoadAssignment(r, op, a)
       \/ ReadForCompletion(r)
       \/ \E part \in {"need", "done"} : SelectRows(r, part)
       \/ \E s \in CompletionStates : InsertCompletion(r, s)
       \/ \E c \in CertIds :
            \/ \E row \in CertRows : IssueCert(r, c, row)
            \/ LoadCertification(r, c)
       \/ \E s \in CertStates \cup {"keep"}, e \in Expiries \cup {-1, Never} :
            PatchCertification(r, s, e)
       \/ InsertCertificationEvent(r)
       \/ \E type \in CertTypes : ChangeRequirement(r, type)

TrainingSpec == TrainingInit /\ [][TrainingNext]_trainingVars

-----------------------------------------------------------------------------
TrainingTypeOK ==
  /\ lessons \in [Lessons -> {"absent", "required", "optional"}]
  /\ assigned \subseteq Assignments
  /\ progress \in [Assignments -> [Lessons -> ProgressStates \cup {"none"}]]
  /\ completions \in [Assignments -> CompletionStates \cup {"none"}]
  /\ certs \in [CertIds -> CertRows \cup {NoCert}]
  /\ required \subseteq CertTypes
  /\ today \in 0 .. MaxCalendar /\ trainings \in 0 .. MaxTrainings
  /\ mixed \in BOOLEAN /\ unlogged \in BOOLEAN

\* A completion is never replaced, and, as long as requests do not overlap, an
\* assignment is marked passed only in a state where every lesson required
\* then has been completed for it.
PassedWasEarned ==
  [][\A a \in Assignments :
       completions[a] # completions[a]' =>
         /\ completions[a] = "none"
         /\ mixed \/ completions[a]' # "passed"
                  \/ \A m \in Lessons : lessons[m] = "required" =>
                       progress[a][m] = "completed"]_trainingVars

\* The events of a certification tell its life: unless requests overlapped or
\* one was cut off before its event, each time the row became revoked, and
\* each time an unrevoked row came to expire later, has an event of that kind
\* that carries the two rows, and no other event says so.
CertificationLog ==
  mixed \/ unlogged \/ \A c \in CertIds :
    LET h == certHistory[c]
        pending == {trainer[r].event : r \in {x \in Trainers :
                      trainer[x].at = "event" /\ trainer[x].cert = c}}
        logged == pending \cup {certEvents[c][i] : i \in DOMAIN certEvents[c]}
        Told(kind, p) == [kind |-> kind, before |-> p[1], after |-> p[2]]
        pairs == {<<h[i], h[i + 1]>> : i \in 1 .. Len(h) - 1}
        Enters(p) == p[1].status # "revoked" /\ p[2].status = "revoked"
        Longer(p) == /\ p[2].status # "revoked" /\ p[2].expires # Never
                     /\ p[1].expires = Never \/ p[2].expires > p[1].expires
    IN {e \in logged : e.kind # "created"} =
         {Told("revoked", p) : p \in {x \in pairs : Enters(x)}}
           \cup {Told("renewed", p) : p \in {x \in pairs : Longer(x)}}
\* A certification that is missing, or that its holder's wallet shows expired
\* or revoked, is a gap of whoever holds some certification and must have this
\* one, although report and wallet count with different windows.
GapsAreReported ==
  \A c \in CertIds :
    /\ c[2] \in required
    /\ \E t \in CertTypes : certs[<<c[1], t>>] # NoCert
    /\ certs[c] = NoCert \/ WalletStatus(c) \in {"expired", "revoked"}
    => \E gap \in GapReport : gap[1] = c

\* Both together: what is on record, and what is reported.
CertificationsInv == CertificationLog /\ GapsAreReported
=============================================================================
