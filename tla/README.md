# TLA+ verification of Rec-Reports

Rec-Reports is a backend-for-frontend written in Node without dependencies
(`src/src/lib`, `src/scripts/server.mjs`) over Supabase: Postgres reached through
PostgREST, row-level security policies and triggers (`src/supabase/migrations`,
0001 to 0055), and Storage. A static frontend (`src/src/public`) calls the routes; a
scheduler calls `/internal/notifications/drain`, which drives every background
worker. No request runs in a transaction of its own: each route is a sequence of
PostgREST calls, and each call is one SQL statement (or one RPC) with its triggers.
That is where this system is hard: between two calls of one request anything else
can happen, and a request or a drain can stop there.

Paths below are relative to the repository.

## 1. Inventory

| Component | State | Operations | Interacts with |
|---|---|---|---|
| Report lifecycle (`lib/http/reports-routes.mjs`, `lib/report-schema.mjs`, 0002, 0033, 0052, 0055) | `report_submissions` (status, payload, revision_of, validation results), `report_submission_signatures` | create, patch, sign, submit, lock, revise | enqueues the workflow; its rows are read by every worker |
| Report workflow ledger (`lib/report-workflow-executor.mjs`, `lib/report-workflow.mjs`, 0053) | `report_workflow_events` (status, attempts, available_at), one `report.submitted` outbox row, minted incidents and work orders, notification jobs | enqueue RPC, claim, evaluate, mint, notify, queue_pdf, retry, dead-letter | lifecycle, incidents, work orders, notifications, PDF worker |
| PDF snapshot worker (`lib/report-pdf-worker.mjs`, `lib/report-pdf.mjs`) | `pdf_status`, `pdf_attempts`, `pdf_content_hash`, Storage objects | select queued, render, upload, record | lifecycle (status), Storage |
| Notification worker (`lib/notifications/*`) | `outbox_events`, `notification_jobs`, `notification_deliveries`, device tokens | route an event, claim and deliver a job, retry, quiet hours | every producer of events; mail and push providers |
| Report schema (`lib/report-schema.mjs`) | none of its own: decides on a template's `schema_json` and a payload | visibility rules, cycle check, partial and full validation, stripping | template routes, lifecycle, the client's form |
| Report distribution (`lib/report-distribution.mjs`, 0054) | `report_deliveries`, distribution lists and their members | resolve an event to legs, attach rows, send at once or in a digest, defer in quiet hours, finalize | the `report.submitted` outbox row, mail and in-app adapters |
| Cron drain (`lib/http/internal-routes.mjs`) | none (no lease) | one pass of every worker, by GET and by POST | all workers |
| Template governance (`lib/http/report-templates-routes.mjs`, `workflow-routes.mjs`, `forms-routes.mjs`, `lib/admin/change-requests.mjs`, 0014, 0028, 0055) | templates, numbered versions, change requests, form definitions | draft, edit, request, approve, publish, archive, promote a form | the version a report is pinned to |
| Incidents (`lib/http/incidents-routes.mjs`, `incidents-people-routes.mjs`, 0043, 0048, 0050) | incident status and wording, escalations, follow-ups, amendments, people, witness statements, `incident_audit_events` | number, submit, transition, amend, escalate, follow up, add and sign statements | work orders |
| Scheduling (`lib/http/scheduling-routes.mjs`, `lib/scheduling.mjs`, 0003, 0034) | periods, publications, shift templates, shifts, assignments | generate, assign, move, decide, publish with or without override | settings, certifications |
| Work orders (`lib/http/work-orders-routes.mjs`, 0005) | work orders, `work_order_updates` | create, patch with history, list, dashboard | incidents, workflow mint |
| Communications (`lib/http/communications-routes.mjs`, 0006) | messages, audiences, receipts, acknowledgements, device tokens | compose, address, publish, read, acknowledge, compliance report | notification jobs |
| Training, certifications (`lib/http/training-routes.mjs`, `cert-policy-routes.mjs`, 0007, 0039) | lessons, assignments, progress, completions, certifications and their events, requirements | assign, progress, complete, renew, revoke, gap report | attachments |
| Audit chain (`lib/audit.mjs`, 0010, 0013, 0019) | `audit_events` with hash links | append (trigger), verify | every table that is audited |
| Sessions, rate limits (`lib/http/auth.mjs`, `auth-routes.mjs`, `rate-limit.mjs`, `durable-rate-limit.mjs`, 0046) | cookies, in-memory lists of times, `auth_throttle`, the cached key set | sign in and out, refresh, throttle, sweep, verify a token | Supabase auth, every call of the client |
| Attachments (`lib/http/attachments-routes.mjs`, `lib/storage.mjs`) | bucket objects, attachment rows, `evidence_path` | upload, download | reports, incidents, work orders, certifications |
| Frontend (`public/js/app.js`, `core.mjs`) | the state of each panel, calls on their way, what is drawn | the report form with autosave, record panels with search, schedule board, message board, lists of a facility | every route |
| Permissions, tenancy (`lib/permissions.mjs`, 0022, 0023, 0042) | roles, memberships | has_permission, facility guards | every route and policy |
| Settings, entitlements, billing; search, export and admin routes; server and CI scripts | small or none | lookups, merges, single reads and writes | |

`PROJECT.json` lists the same components with their sources and status, and every
hazard with its line.

### What is hard, and what makes each component correct

* **Lifecycle.** Submit reads the row, then the signatures, decides, and only then
  writes what it read; drafts stay editable and signable meanwhile. Lock, revise and
  patch do the same with two calls, revise with three. Correct means: what is
  submitted was signed and valid, nothing of it changes after, and a revised report
  has a successor, whatever overlaps and wherever a request stops.
* **Ledger.** Overlapping drains race for rows; a call can take effect and look
  failed; a drain can stop. Correct means: no event is worked on twice at a time,
  retries mint nothing twice, `processed` never lies, attempts are bounded, and
  everything enqueued ends.
* **PDF worker.** No claim at all: overlapping drains act on outdated rows. Correct
  means: the recorded path exists, nothing is given up early, everything queued ends.
* **Notification worker.** Messages go out before their deliveries are recorded; the
  retry time of a row sits beside the time it first became due. Correct means: at
  most one message per attempt, bounded attempts, backoff respected.
* **Distribution.** One event fans out into legs, each with its own outcome, and
  bindings change between attempts. Correct means: a leg is tried once per attempt,
  processed means every leg has its end on record, and every event ends.
* **Governance.** Publishing takes two writes, approval up to four, and the draft stays
  editable between request and approval. Correct means: while approval is required a
  version is published only once somebody other than its author approved it, and the
  template points at a published version, the last one.
* **Schema.** Whether a field counts depends on other answers, which are dropped when
  they are hidden. Correct means: what is stored was checked, and stands alone.
* **Incidents, statements.** Numbers are the greatest read plus one; transitions and
  their audit events are calls apart. Correct means: numbers without gaps, amendments
  that chain, a statement history that a signature locks.
* **Scheduling.** Publication reads, decides, inserts and stamps. Correct means:
  versions 1, 2, ... each based on the one before, nobody booked twice.
* **Work orders, communications, training.** A history, a job or an event is derived
  from a row read before the write. Correct means: they explain the row, reach who is
  counted, and a pass was earned.
* **Audit.** Concurrent appends must form one chain, and verification must tell a
  broken one.
* **Sessions, throttle, keys.** Many calls meet an expired token together, two stores
  count failures, a key set may not be fetched. Correct means: refresh is silent, no
  lock-out that was not earned, outages forget nothing.
* **Attachments.** Bucket and database are two systems. Correct means: no row points at
  nothing.
* **Frontend.** Answers come late, in another order, or never. Correct means: edits are
  not lost, what is acted on is what is shown, what is shown is the facility's.

## 2. Modules

| Module | What it is |
|---|---|
| `ReportRecord` | abstract: a report as one atomic record, four statements long |
| `ReportLifecycle` | detailed: routes as sessions, policies and triggers; implements `ReportRecord` |
| `ReportLifecycleProofs` | its inductive invariant, three safety theorems, the refinement |
| `WorkflowLedger` | enqueue RPC, ledger and overlapping drains; implements `ClaimQueue` |
| `WorkflowLedgerProofs` | its inductive invariant, six safety theorems, the refinement |
| `PdfSnapshot` | the snapshot queue and its drains |
| `PdfSnapshotProofs` | its inductive invariant and two safety theorems |
| `ClaimQueue` | abstract: a table worked off by drains that claim its rows |
| `NotificationWorker` | outbox and notification jobs, two queues and one drain; implements `ClaimQueue` |
| `NotificationWorkerProofs` | its inductive invariant, its safety theorem, the refinement |
| `ReportDistribution` | events, legs and delivery rows worked off by overlapping drains; implements `ClaimQueue` |
| `ReportDistributionProofs` | its inductive invariant, its safety theorem, the refinement |
| `Scheduling`, `Incidents`, `WitnessStatements`, `WorkOrders`, `Communications`, `Training` | a route module each: requests that overlap over the tables they keep |
| `ScheduleBoard`, `MessageBoard` | the client's panels of the schedule and of the messages |
| `FacilityOperations` | composes those eight |
| `FacilityProofs` | a safety theorem of each of them, and the types of all |
| `Sessions`, `SignInThrottle`, `KeyCache` | the client's refresh and the auth service; the two limiters; the cached signing keys |
| `TemplateGovernance`, `ReportFields` | versions, requests and approvals; the rules of a report's fields |
| `AuditChain`, `Attachments` | the hash chain under overlapping transactions; uploads between bucket and database |
| `ReportForm`, `RecordPanels`, `FacilityLists` | the client's report form, its record panels with search, and its lists |
| `PlatformServices` | composes those ten |
| `ServicesProofs` | sessions, limiters, keys, governance, audit chain, attachments: a safety theorem of each |
| `ServicesClientProofs` | forms, panels and lists, a report's fields, and the types of all ten |
| `MC...` | small instances for TLC |

Some modules define a variant of an operator just before it (`SentToAll` before `SentTo`,
`ReloadWeekReady` before `ReloadWeek`): what a likely mistake in that code would make
of it. No specification uses one. `PROJECT.json` pairs each with the property that
catches it.

### ReportLifecycle

State: the columns the routes decide on, one function per column (`status`,
`payload`, `revisionOf`, `warned`), the signature rows, whether the evaluate event
exists; and for each session (a request in progress) its next call, the report it is
about and the payload it loaded. Every `...Load` action is the `pgSelect` a handler
starts with and the 4xx checks on what it returned; every `...Write`, `...Insert`,
`...Flip` is one statement, decided again by `PolicyAdmits` (the USING and WITH CHECK
of the UPDATE policies) and `GuardAdmits` (the trigger of 0055). `SubmitCheck` is the
signature read with the M-2 check, the role check and validation. `Fail` ends a
session anywhere.

`Strip` and `Valid` are constants: stripping hidden fields and validating are functions of
a payload and the pinned schema, and no property depends on what they compute. The
hash of a signature is taken to be injective.

`ReportRecord` says what this amounts to: a record is created, edited while a draft,
submitted with content that is stripped, then locked, then revised, and never
otherwise changes. `ImplementsRecord` is the refinement.

### WorkflowLedger

State: the ledger rows by key (`state`, `attempts`, `due`), the outbox rows, what the
actions brought about (`minted`, `jobs`, `pdfQueued`), and for each drain the rows it
selected, those it claimed, the one it works on and how far it got. `Select` and
`Claim` are the two halves of `claimDueReportWorkflowEvents`; `RunEvaluate`,
`InsertAction`, `RunMint`, `RunNotify`, `RunQueuePdf` are `executeAction`;
`MarkProcessed` and `MarkFailure` the bookkeeping. A call fails without effect
(`ExecFails`), or takes effect and looks failed (`Outcome`, second disjunct; also in
`MarkProcessed`). `MarkFails` is the case nobody catches: the update in the catch
block fails. `Crash` stops a drain.

Time is one bit per row, whether `available_at` has passed. The order of the select
and its limit of 25 are left open (any due row may be selected next). The `skipped`
outcome is not modelled: it needs a template or submission row that is gone, which
foreign keys exclude.

### PdfSnapshot

State: the queue columns of each submission, the objects in Storage, and for each drain
the rows it read, the row it works on, the document it rendered. `failures` is a
history variable: nothing in the code holds it; it counts recorded failures so that
`FailedAfterMaxAttempts`, a part of `SnapshotInv`, can say what the overwritten
`pdf_attempts` column cannot. Of the inputs of the hash only the report's status changes
in the model; the joined names can change too.

### NotificationWorker

State: status, attempts and `next_attempt_at` of outbox rows and jobs alike (both are
items; they share the columns and the bookkeeping), the messages providers accepted and
the deliveries recorded as sent, and for each drain its pass, the rows it selected and
claimed and the one it works on. `SelectEvents`, `SelectJobs`, `Claim` are the two claim
functions; `SkipEvent` and `RouteEvent` are `processOutboxEvent`; `Reschedule`,
`Resolve`, `SendTo`, `RecordDeliveries` are `processJob`; `MarkDone` and `MarkFailure` the
bookkeeping of both. `CallFails` enters the catch without an effect, `Outcome` and the
second disjunct of `MarkDone` after one. `Stop` ends a drain, also where an update outside
every try fails (`Reschedule`, the catch itself).

`scheduled_for` and `available_at` are not variables: no producer in the repository sets
them, so they hold the time of the insert and `ScheduledPassed` is true from then on. Which
route and which recipients an event or a job has is any choice, made when the worker looks;
in-app and SMS rows, written without a provider, are left out. Generic outbox events
have no producer in this repository yet; `ProduceEvent` is the table's insert. Reserved
`report.submitted` rows belong to the distribution worker.

`ClaimQueue` is what either table amounts to, and the workflow ledger and the distribution
events as well: none, pending, processing, then done,
pending again or dead, an attempt counted at each failure. Its `Fail` is enabled from
`done` too, since an update to `sent` whose response is lost ends in the catch.

### ReportDistribution

State: the outbox rows (`status`, `attempts`, `due`), what bindings and memberships
amount to (`audience`, a set of legs, a leg being a binding with one of its recipients),
the `report_deliveries` row of each event and leg, and for each drain where it stands.
`Start` is the select, `Claim` the update by id, `Defer` the quiet hours, `Resolve` the
expansion into legs, `Attach` the insert of missing rows, `Send` one call of an adapter
(one leg, or all legs of a digest), `RecordLeg` the update of its row, `Finalize` the end of
an event. `Throw` is an error inside the try block, `Stop` one outside of it or a crash.
`tried`, `accepted`, `lost` and `resolved` are history variables.

A provider answers, or it does not: `postWithTimeout` of `email.mjs` makes one code,
"timeout", of a refused connection and of an answer that never came, and the worker tries
again after both. The outcome `lost` is a message the provider has taken of which the drain
hears "retryable" (`Heard`). It costs no fault, and the property counts it on its own: what a
recipient gets beyond one message has a lost answer, an error or a stop to answer for it,
and there can be as many as there are attempts. The comment on digests that they "never
lose or duplicate a submission" (`report-distribution.mjs:552-553`) is true only while every
answer is heard.

### The components of FacilityOperations

All six route modules have the same shape: a request is a record of what it has read and
where it stands; each PostgREST call of a handler is a step, with the early returns of
the handler as guards, the trigger of a table as a conjunct of the write; reads issued
with `Promise.all` are one step where the code waits for all of them and only the union
matters, and one step each where they can see different states (`Training`,
`SelectRows`). A request may end after any call.

* `Scheduling`: `PublishCheck` is `computeScheduleReadiness` with the override, then the
  insert of the publication and the update of the period; `generate`, single shifts,
  assignments with the conflict check, and decisions on them. `generated` counts the rows
  `generate` inserts; a single shift whose body calls itself generated (`scheduling-routes.mjs:694`)
  is not one of them.
* `Incidents`: the number is drawn from the greatest read (a collision is retried, as in
  the route); submission, transitions, amendments, escalations and follow-ups; the
  transition trigger sees updates of a report only. `WitnessStatements`: versions and
  signatures with the guard of 0050, and the audit event of each in a call of its own.
* `WorkOrders`: the PATCH and its history; `Listed` and `Dashboards` are the two reads
  whose filter and order a property is about. The dashboard's last sort key, the time of
  creation, is left open: `Dashboards` is the set of orders it may come out in.
* `Communications`: publication in three calls; the roster of a group or a shift may change.
* `Training`: completions, and certifications with events derived from two rows;
  `GapReport` is `cert-policy`'s report.
* `ScheduleBoard`, `MessageBoard`: `app.js`, one tab. A call is a record of what it names
  and what was on the screen when its button was pressed; the server handles it and its
  answer comes at any later time, or it fails. What is drawn is a variable where the code
  changes state without drawing.

### The components of PlatformServices

* `Sessions`: several tabs, one cookie jar, rotating refresh tokens in the auth service
  (modelled from the calls of `auth-routes.mjs`), and per tab the shared promise
  that makes concurrent calls wait for one refresh. `POST /auth/refresh` has four ends:
  `Rotate`; `Reject`, of a token that was used or revoked; `AuthFails`, where the service is out
  of reach, throttles or errs, before or after it has rotated the token; and `Refuse`, by the
  route's own throttle (429) or for want of a cookie (400). The route answers a rejection and a
  failure alike, 401 with the cookie cleared, although its comment (`auth-routes.mjs:416-418`)
  speaks of a token that "was rejected": a user whose token is good is signed out by an outage of
  the auth service. A tab cannot tell the four apart, and leaves for the sign-in page on all but
  the first. Whether the throttle blocks is a choice: its counts are those of `SignInThrottle`,
  shared by everybody behind one address.
* `SignInThrottle`: the in-memory limiter of an instance, a set of failures with their
  times, and the durable one as read and write. `KeyCache`: `jwksCache` and `jwksPending` with both lifetimes.
* `TemplateGovernance`: one template; the direct, the approved and the promoting way to
  publish; the triggers of 0014, 0028 and 0055; the setting may change at any time.
* `AuditChain`: transactions draw a number, then link to the greatest smaller one they can
  see. A hash is the sequence of the texts it covers. Two serializers make these texts: the
  trigger's `event_payload::text` (`SqlText`, in `RowHash`) and the verifier's `jsonbText` over what
  `JSON.parse` left of the payload (`JsText`, in `ComputeDbRowHash`). They are two constants, any two
  functions, for they differ: 1e-7 is `0.0000001` to SQL and `1e-7` to JavaScript, 1.0 becomes
  `1`, and keys that look like integers are put first. The comment that the verifier mirrors
  the trigger's formula "exactly" (`audit.mjs:69-71`) does not hold of these, and a chain that holds
  one is reported as broken though nobody touched it. The run has the payloads 1 and 1.0.
* `Attachments`: every call of an upload may fail; the body is read between the count
  and the put.
* `ReportFields`: `EvaluateVisibility`, `Errors` and `StripHiddenFields` are the functions of
  `report-schema.mjs`, over numbers as answers; the operator `in`, whose value is a list,
  is left out. `FindVisibilityCycle` is its depth-first search,
  with the path as a stack, iterated inside the one action that publishes; `PublishedInOrder`
  compares it with a rank function.
* `ReportForm`: `createReportFormController`: the debounce timer, a save in flight with
  one pending, flush, submit, upload, revise, opening another report.
* `RecordPanels`, `FacilityLists`: list, detail and search of a panel; what is loaded when
  a facility is selected. `setLoading` clears a list when it is asked for, the inbox at its second
  step; the tiles stay until the new ones are drawn (`Cleared`).

### What a property excepts

Most of these components check before they write and hold nothing in between, so that
two overlapping requests can do together what neither may do alone. The code promises no
more, and neither do the properties: a history variable records that the situation the
code does not handle has occurred (`raced`, `moved`, `collided`, `clashed`, `crowded`,
`rushed`, `muted`, `late`, `mixed`, `unlogged`, `jammed`, `halved`, `crossed`, `jostled`,
`causes`; in the client `hasty`, `impatient`, `forgiven`, `excused`, `rash`), and a property
that fails in it says "unless" in its comment and names it. What holds in spite of every
overlap (`PublicationChain`, `RecordIsContinuous`, the versions in
`StatementHistory`, `TwoPersonRule`, the first half of `VerdictIsRight`) is stated without exception.
None is there for nothing: with any one of them taken away TLC finds the property
violated in the same instance.

## 3. Runs

| Run | Question | Result |
|---|---|---|
| `lifecycle_signed` | Two reports, two sessions, three payloads, a required signature: is what is submitted approved? Do the routes implement the record? Is the invariant of the proofs true? | holds |
| `unseen_signature` | Can a submitted report carry a signature of other content (M-2)? | violated |
| `two_successors` | Has a revised report one successor? | violated |
| `ledger_faults` | Two drains, a template that mints the same incident twice, all faults and crashes: mints, the invariant of the proofs, the queue it implements | holds |
| `ledger_progress` | A notification and a PDF, two drains, failing and lost calls: does everything settle? | holds |
| `ledger_stranded` | Is a claimed event always in some drain's hands? | violated |
| `pdf_drains` | Two drains, failing and lost calls, one stop, the report locked and revised meanwhile | holds |
| `notification_drains` | Two drains over one event and one job, lost responses, a stop, quiet hours: claims, messages, the queue, does everything end? | holds |
| `notification_backoff` | Does a retry wait for its `next_attempt_at`? | violated |
| `distribution_drains` | Two drains over two events with a digest leg and an in-app leg, one trouble of each kind: messages, records, the queue, does every event end? | holds |
| `facility_operations` | The eight components of `FacilityOperations`, two users each: do histories, publications, bookings, messages, passes and panels stay what they claim to be? | holds |
| `platform_services` | The ten components of `PlatformServices`: sessions, throttles, keys, approvals, the chain, evidence, the rules of fields, the client's form, panels and lists | holds |

The four violations are disagreements between a comment and the code; `findings` in
`PROJECT.json` quotes both.

* `unseen_signature`: load, read signatures, then another session edits the draft and
  signs the edit, then submit writes the older payload.
* `two_successors`: two revise requests load the same submitted report; both insert
  before either flips it. One request repeated after its flip failed does the same.
* `ledger_stranded`: `markFailure` throws inside the catch of
  `processReportWorkflowEvent`; every event claimed by that drain stays `processing`.
* `notification_backoff`: a job fails, goes back to `pending` with a `next_attempt_at` in
  the future, and the next drain claims it: the select's OR is true of `scheduled_for`.
  The distribution worker documents the same filter and moves both columns.

One observation has no run, for the code promises nothing about it: a snapshot that
another drain generated can be put back to `queued`, or to `failed` for good, by a late failure
that counted from an outdated row. `RecordedIsStored` still holds then (the path is kept),
but the route answers 404 because it looks at `pdf_status`. Another: an attempt that fails
after its upload, followed by a lock, uploads a second document under another path, for
the status is part of what is hashed (`report-pdf-worker.mjs:146`; the comment at lines
18-22 expects the same bytes of every retry). And a row queued again and again meets the
CHECK `pdf_attempts <= 10` (line 209): the update in the catch fails, and the drain ends.

### What else the models brought up

These have no violation run of their own; each is what one of the exceptions above stands for, and
dropping that exception gives the trace.

* Form (`forgiven`): a save that fails leaves `dirty` false, so Submit sends the older
  payload; a submission that waits for a flush posts the report that is open by then;
  opening a report anew forgets that a save is on its way, and a second overlaps it; a
  late upload adds its path to the form of another report.
* Panels (`excused`, `rash`): a detail that comes late shows one record while the buttons
  act on another; late lists of the old facility overwrite the new one's, against the
  comment at `app.js:368-371`; the templates of the old facility stay selectable until,
  and unless, the reload succeeds.
* Boards (`hasty`, `impatient`): after the week changes the old one stays drawn while the
  state is the new one, and Publish publishes the one that is not shown; pressing
  "Publish message" twice sends the second message to nobody.
* Submit drops hidden answers after it validated (`FieldsInv`): a report whose rules read a
  field that another rule hides may, as stored, show a required field that it lacks, and
  the signatures' hashes are of the payload before the drop.
* Overlapping requests (`raced`, `collided`, `rushed`, `mixed`, `jostled`): double bookings, an
  incident closed with an open follow-up, two notification jobs, a pass without a lesson
  that has become required, one photo over the limit.
* Audit (`crossed`): transactions that overlap can fork the chain, which verification then
  reports as tampering. So it does a payload that SQL and JavaScript write differently.
* Sessions (`causes`): two tabs that refresh at once, or an answer that is lost ("strayed"),
  leave a browser with a token that was used; a failing auth service costs it the cookie
  ("cookieless"); the refresh throttle, or a second 401, sends its user to the sign-in page
  with a good cookie ("turned away"). `RefreshIsSilent` holds while none of these has happened,
  `TurnedAwayKeepsCookie` in spite of the last, `CookieIsCurrent` in spite of the last two.
* Distribution (`lost`): a message whose answer is lost is sent again at every attempt.

### Bounds, and why they are enough

Two sessions or drains are the smallest number that interleaves; the races found need
two. Two reports suffice for submit (they do not interact), three for revisions: an
original, its successor and a second one (`two_successors`). Three payloads make a stripped form, a valid
and an invalid answer distinct. One submission with two actions per ledger run: events
of different submissions share nothing but the drain that claimed them, which two
events of one submission share too. Two attempts separate "retry" from "give up"
(three in `ledger_faults`). `MaxRequests` 2 lets a generated or failed report be
queued again; `MaxStops` 1 stops a drain once at any point. One event and one job in
`notification_drains` make both queues and the hand-over between them; a second job would
only add work to a drain (17 million states and more), for jobs share nothing. One night
is one drain in quiet hours that puts the job back, before or after another that does not.
One trouble of each kind, two events and one leg of either channel separate the legs of an event from the
events of a drain in `distribution_drains`.

`FacilityOperations` and `PlatformServices` follow one component at a time (`focus`,
`service`, an initial choice): no handler of one writes what another reads, so the
reachable states of a component are the same alone and in the product, and the union of
the components takes the place of their product. Where such a table does feed another
component (certifications in `Scheduling`, settings in `TemplateGovernance`), it is a choice
of that component. Their users are interchangeable, in all components alike: `MCSymmetry`
permutes the two users, and the two work orders, which nothing tells apart, and the run has no liveness property. The bounds count
requests: `MaxRequests` 4, `MaxCalls` 5 (a statement submitted twice by two clerks, and a
signature), `MaxPosts` 4, `MaxOrderCalls` 3, `MaxTrainings` 3, `MaxEdits` 3 (a template, a
generation repeated after it was cut off, a publication; two slots that do not
overlap, so that moving a shift can make it), `MaxPresses` 3 with `MaxWaiting` 2 (one
button twice, or two changes of facility, around the calls of one message),
`MaxOfficeCalls` 4 (create,
request, edit, approve), `MaxAuditRows` 3 with `VerifyLimit` 2 (a row beyond the limit),
`MaxFormCalls` 3 and `MaxPanelCalls` 4 and `MaxListCalls` 6 (every pair of calls in either
order, with the ones they need first). Time is bounded so that each lifetime expires:
`MaxTime` 4 over `ErrorTtl` 2 and `Ttl` 3, `MaxNow` 2 over a `Window` of 1. `ReportFields`
is checked over every schema of three fields with at most two rules on one and one on
the others, hence every visibility graph up to cycles of length three.

Deadlock checking is off where a bounded number of requests or events ends: in the
PDF, notification and distribution runs and the two compositions. The proofs remove
the bounds for the safety properties they cover.

### Fairness

`ledger_progress` assumes weak fairness of each drain's `Work` and of `Elapse`;
`pdf_drains` and `notification_drains` of each drain's `Work`; `distribution_drains` of
`Elapse` and of each drain's `Start` and `DrainStep`. The scheduler (`vercel.json`, GET; and POST)
calls the drain for as long as the service is deployed, a running function takes its
next step, and clocks advance. Nothing is assumed of faults: a call may fail every
time, and it is the attempt limit that ends the retries. The liveness run of the
ledger excludes crashes and failing bookkeeping, since
`ledger_stranded` shows that one of them is enough to lose an event; the PDF queue has
no such exclusion except that stops are finite. In `notification_drains` a stop may strand
what the drain had claimed (`Stranded`), which `PendingEnds` allows and nothing else; drains
in quiet hours are finite, that is, nights end. `EventEnds` allows a stopped drain the
same. The other passing runs assume no fairness, and have safety properties
only. `RetryElapse` needs no fairness, because no claim waits for it.

## 4. Proofs

All theorems hold for every value of the constants that satisfies the modules'
assumptions: any number of reports, sessions, drains, any payloads and workflows, any
attempt limit above zero.

* `ReportLifecycleProofs`. `LifecycleInv` strengthens the properties with what a
  session may rely on at its next call: the checks of submit stay true until its write
  because signatures are only added and the payload is the one it holds
  (`CheckedStaysTrue`); what lock and revise loaded is final
  (`LoadedFinalStays`); the successor exists before the flip. Without these parts
  `SubmittedContentApproved` and `RevisedHasSuccessor` are not inductive. Theorems:
  `Invariance`, `TypeCorrect`, `Approval`, `Succession`, and `Refinement`
  (`Spec => Record!Spec`: initial states map to initial states, each step to a step
  of the record or a stutter).
* `WorkflowLedgerProofs`. `LedgerInv` adds that a drain works on one event at a time,
  that what is about to be recorded as processed has happened, and that an event still
  to be run was notified at most once per counted failure. Theorems: `LedgerInvariance`,
  `LedgerTypeCorrect`, `Exclusion`, `MintOnce`, `OutboxOnce`, `ProcessedTruthful`,
  `NotificationBound`, and `LedgerImplementsQueue`: exclusive claims leave the bookkeeping
  updates, which are by id alone, only rows in work, or processed with the response lost.
* `PdfSnapshotProofs`. `SnapshotInv` says that an outdated row is still a sound bound:
  Storage and the history of failures only grow. Theorems: `SnapshotInvariance`,
  `SnapshotStored`, `SnapshotGivenUp`.

* `NotificationWorkerProofs`. `WorkerInv` is not inductive: it does not say who may still
  send. `UnsentIsPaid` does: a job that waits, that is claimed and not started, or whose
  recipient is still on a drain's list, has had no more messages than failed attempts, so
  the next one is paid for by the attempt under way, counted when the drain lets go.
  `HandFits` ties a drain's stage to what it holds, `LimitEnds` the status to the count.
  Theorems: `WorkerSafety`, `WorkerImplementsQueue` (the outbox and the jobs are both a
  `ClaimQueue`, each step a step of the queue or a stutter).
* `ReportDistributionProofs`. Three facts carry `DistributionInv`: a terminal delivery
  row stays terminal; a leg the current attempt has not tried was tried no more often than
  the event failed (`UntriedIsPaid`); an open row that no drain is about to record was sent
  no more often than answers were lost and errors and crashes struck (`OpenIsPaid`). Theorems:
  `DistributionSafety`, `DistributionImplementsQueue`.
* `FacilityProofs`, what is kept of record. `PublicationsChain`, `IncidentRecordIsContinuous` and
  `StatementsAreHistory` hold whatever overlaps, and by one argument: what a request
  has read lies behind what is there (`PublisherIsBehind`, `HandlerIsBehind`,
  `ClerkIsBehind`), so the number it computed is at most one too high, and the unique key
  refuses what is too low. `IncidentGatesHold` is an action property over `FreshInv`:
  with no overlap, what was checked still holds at the write.
  `OrdersAreExplained` rests on `OrdersInv`: between a PATCH's two writes the changes it
  has yet to record lead from what the history tells to the row (`LeadsTo`), and appending them
  makes the history tell the row (`ToldByChanges`).
* `FacilityProofs`, the daily work. Each invariant says what a request that read before it writes
  may rely on. `RosterInv` (`ScheduleBooksOnce`): one manager at a time, whose checks are
  fresh, unless `raced` or `moved`. `MessagesInv` (`PendingMembersWereTold`): the stages of
  a publication, each with the audience and the jobs it leaves, and that the report's audience
  is within the publication's. `TrainingInv` (`CertificationsAreTold`, and `PassedIsEarned`,
  an action property): what was read is still there, and the events told with those pending are
  those of the history. `PanelInv` and `MailInv` (`PanelsActOnWhatTheyShow`): which calls can
  still be on their way, for what is on the screen now.
* `FacilityProofs`, the types. `OperationsAreTyped` takes the invariants of all
  eight components, each with what it leaves out of its types (`IncidentsRest` to `MailRest`).
  Most of that is inductive by itself; three parts are not. A statement has no more versions,
  and an event no more records, than calls were made, because each call under way still owes
  one at most (`Under`). The period that is drawn, or named in a call, is on file (`BoardKnows`).
  What the panel shows as acknowledged the server has on record, for an answer of the server
  names nothing else (`OfRows`).
* `ServicesProofs` and `ServicesClientProofs`, a theorem of each component of `PlatformServices`:
  * `GovernanceIsKept` from `GovernedInv` (every governed version has its approved request;
    who publishes alone finds what he read).
  * `OutagesKeepKeys`, an action property, from `KeysInv` (who waits began while the
    fetch was under way; the cache is as young as the last fetch).
  * `RowsPointAtObjects` from `EvidenceInv` (the object comes first and its path is one
    upload's; a sealed report covers what was under way; the uploads past the count).
  * `SessionsSurviveExpiry` from `BrowserInv`, which goes by what has happened: nobody waits
    without somebody refreshing, whatever has; unless something strayed one refresh is on the
    wire and the token it brings is the newest (`OneByOne`); while tabs were at most turned away,
    the auth service is asked with the token it expects and the cookie is that token, or an
    answer on its way brings it (`CookieKept`); while nothing has, no refresh has failed (`Silent`).
  * `VerdictsAreRight` from `ChainInv` (a chain nobody touched links every row to all
    before it, in the texts of SQL; what the verifier computed so far is the hash of what it
    fetched, in those of JavaScript), for any two serializers.
  * `LimitersHold` from `LimitersInv` (a memory holds the window's failures; a row counts no
    more than happened since it began, with what each writer still owes).
  * `FormsKeepEdits` from `FormInv`: of each report not forgiven, where its edits are
    (`FormHolds`, `RowHolds`), that one save is on its way at most (`SavesOnce`), that a submit
    goes alone and whole (`SubmitsAlone`, `SubmittedInv`), and that an answer opens what the row
    says (`OpensAsIs`); writes are of the report that is open (`WritesTheOpen`).
  * `FieldsAreChecked`. The search of a schema is iterated by a recursive function
    (`SearchesExist` and `SearchSteps` show that its equation defines one). `SearchInv`: what
    is done is in an order, and every order goes down along the path; so a dependency met again
    on the path leaves no order, and since each step puts a field on the path or takes one off
    (`Covers`), twice as many steps as fields decide it (`SearchDecides`). `AnswersInv`: where no
    rule reads a hidden field, every rule compares in what is stored what it compared in what was
    filled in.
  * `ScreensShowWhatIsOpen` from `RecordsInv` (the calls on their way are of the record, the
    facility and the chip selected, `OpenInv`, `HereInv`, `ChipInv`) and `VenueInv` (of the
    lists, those drawn or on their way are of the facility selected).
  * `ServicesAreTyped` from `TypesInv`, which holds what the other invariants leave out: that
    times and counters stay within their bounds (a shared row counts no more failures than
    sign-ins have begun, since each still owes one at most, `Owing`), that a payload on its way
    holds what was typed, and that a panel shows records there are.

A step of a composition is a step of one component while the others stay (`ComponentsStep`,
`ServicesMove`), so each of these proofs is about one component. The exceptions of section 2
stand in the properties, and so in the theorems; nothing else is assumed than the `ASSUME`s
of the modules: that a null value is none of the values (`NoCert`, `NoOrder`, `NoCache`,
`NoPath`, `NoRow`, `Nothing`, `NoToken`), that the two serializers make a text of every payload
(`SqlText`, `JsText`), that a set the code enumerates is finite (`Templates`,
`Attempts`, `Fields`), `ErrorTtl <= Ttl` as in the source, that there is some report (`Drafts`),
a first request (`MaxRequests`) and a second day a work order can be due (`MaxClock`), that
rules compare by `eq`, `neq`, `gt` or `lt`, bounds that are numbers. Bounds on requests may
have any value, so the theorems hold of any number of them. The induction theorems of the
library take an operator as a parameter and cannot be used; `LeastNumber` takes their place,
from the well-foundedness of `<`.

Only model-checked:

* the liveness properties `EverythingSettles`, `QueuedSettles`, `PendingEnds` and
  `EventEnds`: fairness and ENABLED are out of the prover's reach;
* the four violations.

## 5. Abstractions that matter

* One PostgREST call is one atomic step. The signature guard of 0052 reads the
  report's status without locking the row, so inside Postgres a submit can still commit
  between that read and the insert; the model does not show that finer race.
* The caller holds the permissions a route asks for; permission checks are stateless.
* Soft deletion, the read, compliance and export routes, notifications about reports,
  and the texts of minted rows are left out.
* A workflow's actions are a constant per submission: a published version does not change
  (0055), and a submitted payload is final (`ImplementsRecord`).

* Notification jobs of the producers (`Communications`, the ledger) end at their insert; what
  becomes of a job is `NotificationWorker`, whose jobs start with that insert.
* In the client, a call names the records and the facility it is about; texts, elements
  and layout are left out. So is what is typed into a form and not yet sent: a comment or an
  amendment begun on one record is still in its form when another is opened. A page that is
  reloaded is not followed, but for the refresh with a legacy token that precedes its calls.
* The PDF worker renders without signatures when their read fails
  (`report-pdf-worker.mjs:55-66`, where the error is swallowed); the hash is then of that
  document. `Render` reads them always: no property depends on what the document shows.
* A change request can be opened for any version at any time (`workflow-routes.mjs:56-78`); `Ask`
  opens one where the publish route does, for a draft while approval is required.

### Not modelled

* Permissions and tenancy: decisions without state, one lookup each.
* Settings, entitlements, billing: lookups, a merge, single upserts. The settings that
  other components read are constants or choices of theirs. The workflow executor reads
  its sandbox flag at each evaluation (`report-workflow-executor.mjs:260`): toggled
  between two attempts, some actions of a report run and some do not, by design.
* Search, export and admin routes, the admin pages: reads, and single writes by id.
* That one call of the cron drain works its queues off in turn: each queue's drains overlap
  and stop at any step in its own module, and no worker reads another's rows in between.
* Server, build and CI scripts: wiring and checks of the source tree.

## 6. Plan

What is left is an abstract queue for `PdfSnapshot`: its rows are not claimed, a request puts
a finished one back, and two drains count the same failure, so it is no `ClaimQueue`.
