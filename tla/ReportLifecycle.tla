--------------------------- MODULE ReportLifecycle ---------------------------
(***************************************************************************)
(* The life of a report submission: draft, submitted, locked, revised.     *)
(*                                                                         *)
(* Every route of reports-routes.mjs is a sequence of separate PostgREST   *)
(* calls: it loads the row, decides on what it loaded, and writes later.   *)
(* A session is one request in progress; its steps interleave with those   *)
(* of every other session, and it may stop between any two of them.  What  *)
(* a write does to the row is decided again by the database: the row-level *)
(* security policies and the transition trigger of 0033, 0052 and 0055.    *)
(* One PostgREST call (one SQL statement with its triggers) is one step.   *)
(***************************************************************************)
EXTENDS Naturals, FiniteSets

CONSTANTS
  Reports,            \* identifiers a report_submissions row can get
  Sessions,           \* requests that can be in progress at the same time
  Payloads,           \* the answers a form can hold (payload_json)
  Strip,              \* stripHiddenFields for the pinned schema
  Valid,              \* payloads validateReportSubmission finds no error in
  SignatureRoles,     \* signature_requirements.roles of the pinned version
  SignaturesRequired, \* signature_requirements.required
  SubmitPolicy,       \* validation_json.submit_policy
  NoReport, NoPayload

ASSUME LifecycleAssumption ==
  /\ NoReport \notin Reports
  /\ NoPayload \notin Payloads
  /\ Strip \in [Payloads -> Payloads]
  /\ Valid \subseteq Payloads
  /\ SignaturesRequired \in BOOLEAN
  /\ SubmitPolicy \in {"strict_block", "warn_and_submit"}

VARIABLES
  status,      \* report_submissions.status, "absent" before the insert
  payload,     \* report_submissions.payload_json
  revisionOf,  \* report_submissions.revision_of
  warned,      \* validation_results carries warnings and the caller's reason
  signatures,  \* report_submission_signatures rows of each report
  evaluated,   \* reports with an 'evaluate' row in report_workflow_events
  pc,          \* the next call of each session
  target,      \* the report a session works on
  seen         \* the payload_json a session loaded

rows == <<status, payload, revisionOf, warned, signatures, evaluated>>
session == <<pc, target, seen>>
vars == <<status, payload, revisionOf, warned, signatures, evaluated,
          pc, target, seen>>

Statuses == {"absent", "draft", "submitted", "locked", "revised"}
Final    == {"submitted", "locked", "revised"}
Steps    == {"idle", "patch", "sign", "submit_check", "submit_write",
             "enqueue", "lock", "revise_insert", "revise_flip"}

\* A signature keeps a hash of the payload its signer was shown; two payloads
\* are taken to hash alike only when they are equal.
Signature == [role : SignatureRoles, payload : Payloads]

RequiredRoles == IF SignaturesRequired THEN SignatureRoles ELSE {}

Init ==
  /\ status     = [r \in Reports |-> "absent"]
  /\ payload    = [r \in Reports |-> NoPayload]
  /\ revisionOf = [r \in Reports |-> NoReport]
  /\ warned     = [r \in Reports |-> FALSE]
  /\ signatures = [r \in Reports |-> {}]
  /\ evaluated  = {}
  /\ pc         = [s \in Sessions |-> "idle"]
  /\ target     = [s \in Sessions |-> NoReport]
  /\ seen       = [s \in Sessions |-> NoPayload]

-----------------------------------------------------------------------------
\* The database's own decisions.

\* Some UPDATE policy admits the row as it is and as it would become.  The
\* permissive policies are OR'ed, USING and WITH CHECK each on their own; the
\* caller is taken to hold reports.submit and reports.publish both.
PolicyAdmits(old, new) ==
  /\ old \in {"draft", "submitted", "locked"}
  /\ new \in {"draft", "submitted", "locked", "revised"}

\* Variant of GuardAdmits: a submitted row's content may still change.
GuardWithoutFreeze(old, new, sameContent) ==
  \/ old = "draft"     /\ new \in {"draft", "submitted"}
  \/ old # "draft"     /\ new = old
  \/ old = "locked"    /\ new = "revised"
  \/ old = "submitted" /\ new \in {"locked", "revised"}

\* fn_report_submission_transition_guard on UPDATE.
GuardAdmits(old, new, sameContent) ==
  \/ old = "draft"     /\ new \in {"draft", "submitted"}
  \/ old # "draft"     /\ new = old /\ sameContent
  \/ old = "locked"    /\ new = "revised" /\ sameContent
  \/ old = "submitted" /\ new \in {"locked", "revised"} /\ sameContent

Writable(r, new, sameContent) ==
  PolicyAdmits(status[r], new) /\ GuardAdmits(status[r], new, sameContent)

\* fn_report_submission_signature_guard on INSERT.
SignatureAdmitted(r) == status[r] = "draft"

-----------------------------------------------------------------------------
\* Bookkeeping of sessions.

Load(s, r, step) ==
  /\ pc[s] = "idle"
  /\ pc'     = [pc EXCEPT ![s] = step]
  /\ target' = [target EXCEPT ![s] = r]
  /\ seen'   = [seen EXCEPT ![s] = payload[r]]
  /\ UNCHANGED rows

Continue(s, from, to) ==
  /\ pc[s] = from
  /\ pc' = [pc EXCEPT ![s] = to]
  /\ UNCHANGED <<target, seen>>

EndSession(s) ==
  /\ pc'     = [pc EXCEPT ![s] = "idle"]
  /\ target' = [target EXCEPT ![s] = NoReport]
  /\ seen'   = [seen EXCEPT ![s] = NoPayload]

\* The row a statement inserts.
InsertRow(r, p, original) ==
  /\ status[r] = "absent"
  /\ status'     = [status EXCEPT ![r] = "draft"]
  /\ payload'    = [payload EXCEPT ![r] = p]
  /\ revisionOf' = [revisionOf EXCEPT ![r] = original]

-----------------------------------------------------------------------------
\* POST /facilities/:facilityId/reports

CreateDraft(r, p) ==
  /\ InsertRow(r, p, NoReport)
  /\ UNCHANGED <<warned, signatures, evaluated, session>>

\* PATCH /reports/:id
PatchLoad(s, r) == status[r] = "draft" /\ Load(s, r, "patch")

PatchWrite(s, p) ==
  LET r == target[s] IN
  /\ pc[s] = "patch"
  /\ IF Writable(r, status[r], p = payload[r])
     THEN payload' = [payload EXCEPT ![r] = p]
     ELSE UNCHANGED payload
  /\ EndSession(s)
  /\ UNCHANGED <<status, revisionOf, warned, signatures, evaluated>>

\* POST /facilities/:facilityId/reports/:id/signatures
SignLoad(s, r) == status[r] = "draft" /\ Load(s, r, "sign")

AddSignature(r, role, p) ==
  signatures' = [signatures EXCEPT
                   ![r] = @ \cup {[role |-> role, payload |-> p]}]

SignInsert(s, role) ==
  /\ pc[s] = "sign"
  /\ IF SignatureAdmitted(target[s])
     THEN AddSignature(target[s], role, seen[s])
     ELSE UNCHANGED signatures
  /\ EndSession(s)
  /\ UNCHANGED <<status, payload, revisionOf, warned, evaluated>>

-----------------------------------------------------------------------------
\* POST /reports/:id/submit: load, read the signatures, write, enqueue.

SubmitLoad(s, r) == status[r] = "draft" /\ Load(s, r, "submit_check")

NoStaleSignature(r, p) == \A g \in signatures[r] : g.payload = p

RolesSigned(r, p, roles) ==
  \A role \in roles : \E g \in signatures[r] : g.role = role /\ g.payload = p

\* The warn_and_submit caller is taken to send a reason; without one the
\* request ends like any other rejected one (Fail).
SubmitCheck(s) ==
  /\ pc[s] = "submit_check"
  /\ NoStaleSignature(target[s], seen[s])
  /\ RolesSigned(target[s], seen[s], RequiredRoles)
  /\ seen[s] \in Valid \/ SubmitPolicy = "warn_and_submit"
  /\ Continue(s, "submit_check", "submit_write")
  /\ UNCHANGED rows

\* Variant of SubmitWrite: the row's current payload is stripped and kept, so
\* that an edit made since the load is not lost.
SubmitWriteCurrent(s) ==
  LET r == target[s] IN
  /\ pc[s] = "submit_write"
  /\ IF Writable(r, "submitted", FALSE)
     THEN /\ status'  = [status EXCEPT ![r] = "submitted"]
          /\ payload' = [payload EXCEPT ![r] = Strip[payload[r]]]
          /\ warned'  = [warned EXCEPT ![r] = seen[s] \notin Valid]
     ELSE UNCHANGED <<status, payload, warned>>
  /\ Continue(s, "submit_write", "enqueue")
  /\ UNCHANGED <<revisionOf, signatures, evaluated>>

\* The update is by id alone and carries the payload that was loaded.  On a
\* row that is no longer a draft it matches nothing (and the route goes on to
\* enqueue) or the trigger raises (and the request ends).
SubmitWrite(s) ==
  LET r == target[s] IN
  \/ /\ pc[s] = "submit_write"
     /\ Writable(r, "submitted", FALSE)
     /\ status'  = [status EXCEPT ![r] = "submitted"]
     /\ payload' = [payload EXCEPT ![r] = Strip[seen[s]]]
     /\ warned'  = [warned EXCEPT ![r] = seen[s] \notin Valid]
     /\ Continue(s, "submit_write", "enqueue")
     /\ UNCHANGED <<revisionOf, signatures, evaluated>>
  \/ /\ pc[s] = "submit_write"
     /\ ~ Writable(r, "submitted", FALSE)
     /\ Continue(s, "submit_write", "enqueue")
     /\ UNCHANGED rows

\* enqueue_report_workflow: only for a row that is 'submitted' by then, and a
\* no-op when the evaluate event is already there.  Its errors are swallowed.
Enqueue(s) ==
  /\ pc[s] = "enqueue"
  /\ evaluated' = IF status[target[s]] = "submitted"
                  THEN evaluated \cup {target[s]} ELSE evaluated
  /\ EndSession(s)
  /\ UNCHANGED <<status, payload, revisionOf, warned, signatures>>

-----------------------------------------------------------------------------
\* POST .../lock and POST .../revise

LockLoad(s, r) == status[r] = "submitted" /\ Load(s, r, "lock")

LockWrite(s) ==
  LET r == target[s] IN
  /\ pc[s] = "lock"
  /\ IF Writable(r, "locked", TRUE)
     THEN status' = [status EXCEPT ![r] = "locked"]
     ELSE UNCHANGED status
  /\ EndSession(s)
  /\ UNCHANGED <<payload, revisionOf, warned, signatures, evaluated>>

\* Variant of ReviseLoad: the original is flipped before the insert.
ReviseFlipFirst(s, r) ==
  /\ status[r] \in {"submitted", "locked"}
  /\ pc[s] = "idle"
  /\ status' = [status EXCEPT ![r] = "revised"]
  /\ pc'     = [pc EXCEPT ![s] = "revise_insert"]
  /\ target' = [target EXCEPT ![s] = r]
  /\ seen'   = [seen EXCEPT ![s] = payload[r]]
  /\ UNCHANGED <<payload, revisionOf, warned, signatures, evaluated>>

ReviseLoad(s, r) ==
  status[r] \in {"submitted", "locked"} /\ Load(s, r, "revise_insert")

ReviseInsert(s, successor) ==
  /\ InsertRow(successor, seen[s], target[s])
  /\ Continue(s, "revise_insert", "revise_flip")
  /\ UNCHANGED <<warned, signatures, evaluated>>

ReviseFlip(s) ==
  LET r == target[s] IN
  /\ pc[s] = "revise_flip"
  /\ IF Writable(r, "revised", TRUE)
     THEN status' = [status EXCEPT ![r] = "revised"]
     ELSE UNCHANGED status
  /\ EndSession(s)
  /\ UNCHANGED <<payload, revisionOf, warned, signatures, evaluated>>

-----------------------------------------------------------------------------
\* A request that ends early: a 4xx of one of its checks, an error a call
\* raises, a lost connection, the serverless function being stopped.
Fail(s) ==
  /\ pc[s] # "idle"
  /\ EndSession(s)
  /\ UNCHANGED rows

Next ==
  \/ \E r \in Reports, p \in Payloads : CreateDraft(r, p)
  \/ \E s \in Sessions :
       \/ \E r \in Reports : \/ PatchLoad(s, r)  \/ SignLoad(s, r)
                             \/ SubmitLoad(s, r) \/ LockLoad(s, r)
                             \/ ReviseLoad(s, r) \/ ReviseInsert(s, r)
       \/ \E p \in Payloads : PatchWrite(s, p)
       \/ \E role \in SignatureRoles : SignInsert(s, role)
       \/ SubmitCheck(s) \/ SubmitWrite(s) \/ Enqueue(s)
       \/ LockWrite(s)   \/ ReviseFlip(s)
       \/ Fail(s)

Spec == Init /\ [][Next]_vars

-----------------------------------------------------------------------------
\* Types, and what the database keeps of every row whoever writes it.
TypeOK ==
  /\ status     \in [Reports -> Statuses]
  /\ payload    \in [Reports -> Payloads \cup {NoPayload}]
  /\ revisionOf \in [Reports -> Reports \cup {NoReport}]
  /\ warned     \in [Reports -> BOOLEAN]
  /\ signatures \in [Reports -> SUBSET Signature]
  /\ evaluated  \in SUBSET Reports
  /\ pc         \in [Sessions -> Steps]
  /\ target     \in [Sessions -> Reports \cup {NoReport}]
  /\ seen       \in [Sessions -> Payloads \cup {NoPayload}]

\* Whatever requests overlap, the content a report was submitted with is the
\* stripped form of one payload that every required role signed and that was
\* found valid, or was let through with its warnings recorded.  The submit
\* route decides this over three calls on a row others keep editing.
ContentApproved(r) ==
  \E p \in Payloads :
    /\ payload[r] = Strip[p]
    /\ RolesSigned(r, p, RequiredRoles)
    /\ p \in Valid \/ (SubmitPolicy = "warn_and_submit" /\ warned[r])

SubmittedContentApproved ==
  \A r \in Reports : status[r] \in Final => ContentApproved(r)

\* A failure between the two writes of a revision never leaves a revised
\* report with nothing to continue from (the ordering comment of the revise
\* route).
RevisedHasSuccessor ==
  \A r \in Reports :
    status[r] = "revised" => \E x \in Reports : revisionOf[x] = r

\* The routes, the policies and the triggers together implement the simple
\* record: no interleaving shows a report that changed after its submission.
Record == INSTANCE ReportRecord WITH
  Reports <- Reports, Payloads <- Payloads, Strip <- Strip, Valid <- Valid,
  SignatureRoles <- SignatureRoles, RequiredRoles <- RequiredRoles,
  SubmitPolicy <- SubmitPolicy, NoReport <- NoReport, NoPayload <- NoPayload,
  status <- status, payload <- payload, revisionOf <- revisionOf,
  warned <- warned, signatures <- signatures
ImplementsRecord == Record!Spec

-----------------------------------------------------------------------------
\* The inductive invariant behind the three properties above: what the rows
\* owe to the routes, and what a session may still rely on at its next call.

RowShape(r) ==
  /\ status[r] = "absent" <=> payload[r] = NoPayload
  /\ revisionOf[r] # NoReport =>
       status[r] # "absent" /\ status[revisionOf[r]] \in Final

SessionOnRow(s) ==
  pc[s] # "idle" => /\ target[s] \in Reports
                    /\ status[target[s]] # "absent"
                    /\ seen[s] \in Payloads

\* The checks of submit stay true up to the write: signatures are only added.
CheckedStaysTrue(s) ==
  pc[s] = "submit_write" =>
    /\ RolesSigned(target[s], seen[s], RequiredRoles)
    /\ seen[s] \in Valid \/ SubmitPolicy = "warn_and_submit"

\* What lock and revise loaded is no longer a draft and stays as it was.
LoadedFinalStays(s) ==
  pc[s] \in {"enqueue", "lock", "revise_insert", "revise_flip"} =>
    /\ status[target[s]] \in Final
    /\ pc[s] # "enqueue" => seen[s] = payload[target[s]]

InsertedBeforeFlip(s) ==
  pc[s] = "revise_flip" => \E x \in Reports : revisionOf[x] = target[s]

LifecycleInv ==
  /\ TypeOK
  /\ \A r \in Reports : RowShape(r)
  /\ \A s \in Sessions : /\ SessionOnRow(s)
                         /\ CheckedStaysTrue(s)
                         /\ LoadedFinalStays(s)
                         /\ InsertedBeforeFlip(s)
  /\ \A r \in evaluated : status[r] \in Final
  /\ SubmittedContentApproved
  /\ RevisedHasSuccessor

-----------------------------------------------------------------------------
\* Claims of the source's comments that the interleavings refute.

\* "a signature that attests to content the signer never saw" is what the
\* M-2 check of the submit route is there to exclude.
NoUnseenSignature ==
  \A r \in Reports : status[r] \in Final =>
    \A g \in signatures[r] : payload[r] = Strip[g.payload]

\* "revision_of is set exactly once, at the moment revise mints the
\* successor": the detail route reads one successor and links to it.
AtMostOneSuccessor ==
  \A x, y \in Reports :
    revisionOf[x] = revisionOf[y] /\ revisionOf[x] # NoReport => x = y
=============================================================================
