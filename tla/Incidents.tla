------------------------------- MODULE Incidents -------------------------------
(***************************************************************************)
(* http/incidents-routes.mjs and incidents.mjs: incident reports, their    *)
(* escalations, follow-ups and amendments.                                 *)
(*                                                                         *)
(* A handler loads the report, decides, writes by id, and then appends an  *)
(* event to incident_audit_events in a call of its own.  The trigger       *)
(* fn_incident_report_transition_guard sees every update of a report, and  *)
(* only updates of a report: escalations and follow-ups have no guard in   *)
(* the database.  The wording of a report is a version number, and a       *)
(* snapshot or a hash of it is that number with the columns it covers.     *)
(***************************************************************************)
EXTENDS Naturals, FiniteSets, Sequences

CONSTANTS
  Handlers,      \* requests that can overlap
  Incidents,     \* identifiers a report can get
  Escalations, FollowUps, \* identifiers their rows can get
  MaxRequests,   \* bound: requests
  NoIncident

ASSUME IncidentsAssumption ==
  /\ NoIncident \notin Incidents
  /\ MaxRequests \in Nat \ {0}

VARIABLES
  number,      \* incident_no within the year, 0 before the insert
  status,      \* incident_reports.status
  submitted,   \* submitted_by and submitted_at: the request that set them, or 0
  hold,        \* legal_hold
  wording,     \* the amendable columns
  escalation,  \* of a row: the report, and the status
  followUp,
  amendments,  \* incident_amendments of a report, oldest first
  ledger,      \* incident_audit_events
  handler,     \* what a request has read
  requests,
  collided     \* history: two requests were under way together

reports  == <<number, status, submitted, hold, wording>>
children == <<escalation, followUp>>
record   == <<amendments, ledger>>
incidentsVars == <<number, status, submitted, hold, wording, escalation,
                   followUp, amendments, ledger, handler, requests, collided>>

Idle   == [at |-> "idle"]
NoRow  == [of |-> NoIncident, status |-> "none"]
Unfinished == {"open", "in_progress"}
Report == {i \in Incidents : number[i] # 0}

\* An earlier request may have submitted a report, which is under review.
IncidentsInit ==
  /\ \E known \in {{}} \cup {{i} : i \in Incidents} :
       /\ number    = [i \in Incidents |-> IF i \in known THEN 1 ELSE 0]
       /\ status    = [i \in Incidents |-> IF i \in known THEN "under_review"
                                           ELSE "draft"]
       /\ submitted = number
  /\ hold       = [i \in Incidents |-> FALSE]
  /\ wording    = [i \in Incidents |-> 0]
  /\ escalation = [e \in Escalations |-> NoRow]
  /\ followUp   = [f \in FollowUps |-> NoRow]
  /\ amendments = [i \in Incidents |-> <<>>]
  /\ ledger     = {}
  /\ handler    = [h \in Handlers |-> Idle]
  /\ requests = 1 /\ collided = FALSE

-----------------------------------------------------------------------------
\* Requests and their audit events.

Receive(h, load) ==
  /\ handler[h] = Idle
  /\ requests < MaxRequests
  /\ requests' = requests + 1
  /\ collided' = (collided \/ \E other \in Handlers \ {h} : handler[other] # Idle)
  /\ handler' = [handler EXCEPT ![h] = load]

Become(h, next) ==
  /\ handler' = [handler EXCEPT ![h] = next]
  /\ UNCHANGED <<requests, collided>>

\* What follows a domain write: writeAuditEvent.
ToAudit(h, event) == Become(h, [at |-> "audit", event |-> event])

WriteAuditEvent(h) ==
  /\ handler[h].at = "audit"
  /\ ledger' = ledger \cup {handler[h].event}
  /\ Become(h, Idle)
  /\ UNCHANGED <<reports, children, amendments>>

\* A refusal, a failed call, a function that is cut off: what was written stays.
GiveUp(h) ==
  /\ handler[h] # Idle
  /\ Become(h, Idle)
  /\ UNCHANGED <<reports, children, record>>

-----------------------------------------------------------------------------
\* POST /facilities/:facilityId/incidents

NextIncidentNo ==
  1 + (IF Report = {} THEN 0
       ELSE CHOOSE n \in {number[i] : i \in Report} :
              \A i \in Report : number[i] <= n)

CreateRead(h) ==
  /\ Receive(h, [at |-> "create", no |-> NextIncidentNo, attempt |-> 0])
  /\ UNCHANGED <<reports, children, record>>

\* A variant without the unique key.
CreateInsertUnkeyed(h, i) ==
  /\ handler[h].at = "create"
  /\ number[i] = 0
  /\ number' = [number EXCEPT ![i] = handler[h].no]
  /\ Become(h, Idle)
  /\ UNCHANGED <<status, submitted, hold, wording, children, record>>

\* unique (facility_id, incident_no)
CreateInsert(h, i) ==
  /\ handler[h].at = "create"
  /\ number[i] = 0
  /\ handler[h].no \notin {number[j] : j \in Report}
  /\ number' = [number EXCEPT ![i] = handler[h].no]
  /\ Become(h, Idle)
  /\ UNCHANGED <<status, submitted, hold, wording, children, record>>

\* One retry, with the number computed again.
CreateConflict(h) ==
  /\ handler[h].at = "create"
  /\ handler[h].no \in {number[j] : j \in Report}
  /\ Become(h, IF handler[h].attempt = 0
               THEN [at |-> "create", no |-> NextIncidentNo, attempt |-> 1]
               ELSE Idle)
  /\ UNCHANGED <<reports, children, record>>

-----------------------------------------------------------------------------
\* POST /incidents/:id/submit and POST /incidents/:id/status

Transitions ==
  {<<"draft", "submitted">>, <<"submitted", "under_review">>,
   <<"under_review", "escalated">>, <<"under_review", "action_pending">>,
   <<"escalated", "action_pending">>, <<"escalated", "closed">>,
   <<"action_pending", "escalated">>, <<"action_pending", "closed">>}

LoadIncident(h, i, at) ==
  /\ i \in Report
  /\ Receive(h, [at |-> at, of |-> i, status |-> status[i], hold |-> hold[i],
                 wording |-> wording[i]])
  /\ UNCHANGED <<reports, children, record>>

OpenFollowUps(i) ==
  {f \in FollowUps : followUp[f].of = i /\ followUp[f].status \in Unfinished}

\* A variant that closes without a look at the follow-ups.
TransitionCheckAlone(h, to, holder) ==
  /\ handler[h].at = "status"
  /\ <<handler[h].status, to>> \in Transitions
  /\ to = "closed" => (handler[h].hold => holder)
  /\ Become(h, [at |-> "transition", of |-> handler[h].of,
                status |-> handler[h].status, to |-> to])
  /\ UNCHANGED <<reports, children, record>>

\* canTransitionIncident; closing reads the follow-ups after the report, and
\* a report on hold is closed by a holder of incidents.legal_hold.manage.
TransitionCheck(h, to, holder) ==
  /\ handler[h].at = "status"
  /\ <<handler[h].status, to>> \in Transitions
  /\ to = "closed" => /\ OpenFollowUps(handler[h].of) = {}
                      /\ handler[h].hold => holder
  /\ Become(h, [at |-> "transition", of |-> handler[h].of,
                status |-> handler[h].status, to |-> to])
  /\ UNCHANGED <<reports, children, record>>

\* Guard 2 of the trigger: an update to the same status passes it.
GuardAdmits(from, to) == from = to \/ <<from, to>> \in Transitions

TransitionWrite(h) ==
  LET i  == handler[h].of
      to == handler[h].to
  IN /\ handler[h].at = "transition"
     /\ GuardAdmits(status[i], to)
     /\ status' = [status EXCEPT ![i] = to]
     /\ ToAudit(h, [of |-> i, type |-> "status_changed",
                    from |-> handler[h].status, to |-> to])
     /\ UNCHANGED <<number, submitted, hold, wording, children, record>>

\* Guard 3 freezes submitted_by and submitted_at once the report left draft.
SubmitWrite(h) ==
  LET i == handler[h].of
  IN /\ handler[h].at = "submit"
     /\ <<handler[h].status, "submitted">> \in Transitions
     /\ status[i] = "draft"
     /\ status' = [status EXCEPT ![i] = "submitted"]
     /\ submitted' = [submitted EXCEPT ![i] = requests]
     /\ ToAudit(h, [of |-> i, type |-> "submitted",
                    from |-> handler[h].status, to |-> "submitted"])
     /\ UNCHANGED <<number, hold, wording, children, record>>

\* PATCH /incidents/:id/legal-hold
HoldWrite(h, x) ==
  LET i == handler[h].of
  IN /\ handler[h].at = "hold"
     /\ hold' = [hold EXCEPT ![i] = x]
     /\ ToAudit(h, [of |-> i, type |-> "legal_hold_changed",
                    held |-> handler[h].hold, holds |-> x])
     /\ UNCHANGED <<number, status, submitted, wording, children, record>>

-----------------------------------------------------------------------------
\* POST /incidents/:id/amendments

\* apply_incident_amendment locks the row, and takes both snapshots from it,
\* with all its columns; the audit event carries hashes of what the route had
\* loaded, the columns of INCIDENT_COLUMNS.
AmendWrite(h) ==
  LET i == handler[h].of
  IN /\ handler[h].at = "amend"
     /\ handler[h].status # "draft" /\ status[i] # "draft"
     /\ wording' = [wording EXCEPT ![i] = requests]
     /\ amendments' = [amendments EXCEPT ![i] =
          Append(@, [before |-> [columns |-> "all", wording |-> wording[i]],
                     after  |-> [columns |-> "all", wording |-> requests]])]
     /\ ToAudit(h, [of |-> i, type |-> "amended",
          before |-> [columns |-> "selected", wording |-> handler[h].wording],
          after  |-> [columns |-> "selected", wording |-> requests]])
     /\ UNCHANGED <<number, status, submitted, hold, children, ledger>>

-----------------------------------------------------------------------------
\* POST /incidents/:id/escalate, POST /escalations/:id/acknowledge and
\* /resolve: no load is needed for the insert but that of the report.

Escalate(h, e) ==
  /\ handler[h].at = "escalate"
  /\ escalation[e] = NoRow
  /\ escalation' = [escalation EXCEPT ![e] = [of |-> handler[h].of,
                                              status |-> "pending"]]
  /\ ToAudit(h, [of |-> handler[h].of, type |-> "escalated", from |-> e,
                 to |-> "pending"])
  /\ UNCHANGED <<reports, followUp, record>>

LoadEscalation(h, e, at) ==
  /\ escalation[e] # NoRow
  /\ Receive(h, [at |-> at, row |-> e, status |-> escalation[e].status])
  /\ UNCHANGED <<reports, children, record>>

AdvanceEscalation(h) ==
  LET e  == handler[h].row
      to == IF handler[h].at = "acknowledge" THEN "acknowledged" ELSE "resolved"
  IN /\ handler[h].at \in {"acknowledge", "resolve"}
     /\ <<handler[h].at, handler[h].status>> \in
          {<<"acknowledge", "pending">>, <<"resolve", "acknowledged">>}
     /\ escalation' = [escalation EXCEPT ![e].status = to]
     /\ ToAudit(h, [of |-> escalation[e].of, type |-> "escalation",
                    from |-> e, to |-> to])
     /\ UNCHANGED <<reports, followUp, record>>

\* POST /incidents/:id/followups: any report, a closed one included.
CreateFollowUp(h, f) ==
  /\ handler[h].at = "followup"
  /\ followUp[f] = NoRow
  /\ followUp' = [followUp EXCEPT ![f] = [of |-> handler[h].of,
                                          status |-> "open"]]
  /\ ToAudit(h, [of |-> handler[h].of, type |-> "followup_created",
                 from |-> f, to |-> "open"])
  /\ UNCHANGED <<reports, escalation, record>>

\* PATCH /followups/:id: any status to any other; only a completion is audited.
LoadFollowUp(h, f) ==
  /\ followUp[f] # NoRow
  /\ Receive(h, [at |-> "followup_patch", row |-> f,
                 status |-> followUp[f].status])
  /\ UNCHANGED <<reports, children, record>>

PatchFollowUp(h, to) ==
  LET f == handler[h].row
  IN /\ handler[h].at = "followup_patch"
     /\ followUp' = [followUp EXCEPT ![f].status = to]
     /\ IF to = "completed" /\ handler[h].status # "completed"
        THEN ToAudit(h, [of |-> followUp[f].of, type |-> "followup_completed",
                         from |-> f, to |-> to])
        ELSE Become(h, Idle)
     /\ UNCHANGED <<reports, escalation, record>>

-----------------------------------------------------------------------------
IncidentsNext ==
  \E h \in Handlers :
    \/ GiveUp(h) \/ WriteAuditEvent(h)
    \/ CreateRead(h) \/ CreateConflict(h)
    \/ \E i \in Incidents :
         \/ CreateInsert(h, i)
         \/ \E at \in {"submit", "status", "hold", "amend", "escalate",
                       "followup"} : LoadIncident(h, i, at)
    \/ \E to \in {"under_review", "escalated", "action_pending", "closed"},
          holder \in BOOLEAN : TransitionCheck(h, to, holder)
    \/ TransitionWrite(h) \/ SubmitWrite(h) \/ AmendWrite(h)
    \/ \E x \in BOOLEAN : HoldWrite(h, x)
    \/ \E e \in Escalations :
         \/ Escalate(h, e)
         \/ LoadEscalation(h, e, "acknowledge") \/ LoadEscalation(h, e, "resolve")
    \/ AdvanceEscalation(h)
    \/ \E f \in FollowUps : CreateFollowUp(h, f) \/ LoadFollowUp(h, f)
    \/ \E to \in Unfinished \cup {"completed", "waived"} : PatchFollowUp(h, to)

IncidentsSpec == IncidentsInit /\ [][IncidentsNext]_incidentsVars

-----------------------------------------------------------------------------
IncidentsTypeOK ==
  /\ number \in [Incidents -> Nat]
  /\ status \in [Incidents -> {"draft", "submitted", "under_review",
                               "escalated", "action_pending", "closed"}]
  /\ submitted \in [Incidents -> 0 .. MaxRequests]
  /\ hold \in [Incidents -> BOOLEAN]
  /\ wording \in [Incidents -> 0 .. MaxRequests]
  /\ escalation \in [Escalations -> [of : Incidents \cup {NoIncident},
        status : {"none", "pending", "acknowledged", "resolved"}]]
  /\ followUp \in [FollowUps -> [of : Incidents \cup {NoIncident},
        status : {"none", "completed", "waived"} \cup Unfinished]]
  /\ requests \in 0 .. MaxRequests /\ collided \in BOOLEAN

\* The numbers of a year are 1, 2, ... without a gap, and the amendments of a
\* report form a chain from its wording at submission to the present one, with
\* however many creators and amenders reading before they write; a report has
\* left draft exactly when it says who submitted it.
RecordIsContinuous ==
  /\ {number[i] : i \in Report} = 1 .. Cardinality(Report)
  /\ \A i \in Incidents :
       LET chain == amendments[i]
       IN /\ \A k \in 1 .. Len(chain) - 1 : chain[k].after = chain[k + 1].before
          /\ chain # <<>> => /\ chain[1].before.wording = 0
                             /\ chain[Len(chain)].after.wording = wording[i]
  /\ \A i \in Report : status[i] # "draft" <=> submitted[i] # 0

\* What only the routes check holds as long as requests do not overlap: a
\* report is closed without an open follow-up, and an escalation does not fall
\* back.
GatesHoldUnlessCollided ==
  [][collided' \/
       /\ \A i \in Incidents :
            status[i] # "closed" /\ status'[i] = "closed" => OpenFollowUps(i) = {}
       /\ \A e \in Escalations :
            /\ escalation[e].status = "acknowledged" => escalation'[e].status # "pending"
            /\ escalation[e].status = "resolved" => escalation'[e] = escalation[e]
    ]_incidentsVars
=============================================================================
