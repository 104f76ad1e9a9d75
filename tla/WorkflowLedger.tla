---------------------------- MODULE WorkflowLedger ----------------------------
(***************************************************************************)
(* report_workflow_events: what a submitted report sets in motion.         *)
(*                                                                         *)
(* enqueue_report_workflow (0053) records one 'evaluate' event and one     *)
(* report.submitted outbox row; drains of report-workflow-executor.mjs     *)
(* claim events, derive the actions of the template's workflow, and mint   *)
(* incidents, work orders, notification jobs and PDF requests.  Drains     *)
(* overlap (the scheduler calls the route by GET and by POST, and nothing  *)
(* holds a lease), a call may fail before or after it took effect, and a   *)
(* drain may stop between any two calls.                                   *)
(*                                                                         *)
(* The content of a report is final once its event exists (ReportLifecycle)*)
(* and a published version never changes, so the actions of a report are a *)
(* constant.  Time is only whether available_at has passed.                *)
(***************************************************************************)
EXTENDS Naturals, Sequences, FiniteSets

CONSTANTS
  Submissions,  \* submitted reports
  Actions,      \* evaluateWorkflow: the action types of each submission
  Drains,       \* runs of the drain that can overlap
  MaxAttempts,  \* DEFAULT_MAX_ATTEMPTS
  ExecFaults,   \* executing an action may fail
  MarkFaults,   \* the bookkeeping of a failure may itself fail
  Crashes,      \* a drain may stop anywhere
  NoEvent

MintTypes   == {"create_incident", "create_work_order"}
ActionTypes == MintTypes \cup {"notify", "queue_pdf"}

ASSUME LedgerAssumption ==
  /\ Actions \in [Submissions -> Seq(ActionTypes)]
  /\ MaxAttempts \in Nat \ {0}
  /\ ExecFaults \in BOOLEAN /\ MarkFaults \in BOOLEAN /\ Crashes \in BOOLEAN

\* The row keyed (submission_id, event_type): slot 0 is 'evaluate', slot i the
\* i-th action, whose event_type carries its type and index.
Events == UNION {{<<s, i>> : i \in 0..Len(Actions[s])} : s \in Submissions}

ASSUME NoEventAssumption == NoEvent \notin Events

Evaluate(s)  == <<s, 0>>
ActionsOf(s) == {e \in Events : e[1] = s /\ e[2] > 0}
Type(e)      == IF e[2] = 0 THEN "evaluate" ELSE Actions[e[1]][e[2]]

VARIABLES
  state,       \* report_workflow_events.status, "none" before the insert
  attempts,    \* report_workflow_events.attempts
  due,         \* available_at has passed
  sandboxed,   \* result.sandbox of a processed 'evaluate' event
  outbox,      \* report.submitted rows of each submission
  minted,      \* incident_reports and work_orders rows that carry the
               \* submission as source_submission_id
  jobs,        \* notification_jobs rows inserted for a notify event
  pdfQueued,   \* the submission was handed to the PDF worker
  candidates,  \* events a drain selected and has not tried to claim yet
  claimed,     \* events a drain claimed and has not started
  current,     \* the event a drain works on
  stage        \* what it does with it: run the action, record the outcome

ledger  == <<state, attempts, due, sandboxed>>
effects == <<minted, jobs, pdfQueued>>
drain   == <<candidates, claimed, current, stage>>
vars == <<state, attempts, due, sandboxed, outbox, minted, jobs, pdfQueued,
          candidates, claimed, current, stage>>

Init ==
  /\ state      = [e \in Events |-> "none"]
  /\ attempts   = [e \in Events |-> 0]
  /\ due        = [e \in Events |-> FALSE]
  /\ sandboxed  = [s \in Submissions |-> FALSE]
  /\ outbox     = [s \in Submissions |-> 0]
  /\ minted     = [m \in Submissions \X MintTypes |-> 0]
  /\ jobs       = [e \in Events |-> 0]
  /\ pdfQueued  = [s \in Submissions |-> FALSE]
  /\ candidates = [d \in Drains |-> {}]
  /\ claimed    = [d \in Drains |-> {}]
  /\ current    = [d \in Drains |-> NoEvent]
  /\ stage      = [d \in Drains |-> "idle"]

-----------------------------------------------------------------------------
\* The request side.

\* Variant of Enqueue: the outbox row is inserted on every call.
EnqueueAlways(s) ==
  /\ state'  = [state EXCEPT ![Evaluate(s)] = IF @ = "none" THEN "pending" ELSE @]
  /\ due'    = [due EXCEPT ![Evaluate(s)] = @ \/ state[Evaluate(s)] = "none"]
  /\ outbox[s] < 2
  /\ outbox' = [outbox EXCEPT ![s] = @ + 1]
  /\ UNCHANGED <<attempts, sandboxed, effects, drain>>

\* internal.enqueue_report_workflow, one transaction, which anybody who may
\* submit can call again at any time.  A call that meets the unique index does
\* nothing; one for a report that was locked or revised first is refused, and
\* no event ever exists.
Enqueue(s) ==
  LET inserted == state[Evaluate(s)] = "none" IN
  /\ state'  = [state EXCEPT ![Evaluate(s)] = IF inserted THEN "pending" ELSE @]
  /\ due'    = [due EXCEPT ![Evaluate(s)] = @ \/ inserted]
  /\ outbox' = [outbox EXCEPT ![s] = IF inserted THEN @ + 1 ELSE @]
  /\ UNCHANGED <<attempts, sandboxed, effects, drain>>

\* available_at passes.
Elapse(e) ==
  /\ state[e] = "pending" /\ ~ due[e]
  /\ due' = [due EXCEPT ![e] = TRUE]
  /\ UNCHANGED <<state, attempts, sandboxed, outbox, effects, drain>>

-----------------------------------------------------------------------------
\* claimDueReportWorkflowEvents: one select, then an update per candidate that
\* matches only while the row is still pending.

Idle(d) == candidates[d] = {} /\ claimed[d] = {} /\ current[d] = NoEvent

Select(d) ==
  /\ Idle(d)
  /\ \E e \in Events : state[e] = "pending" /\ due[e]
  /\ candidates' = [candidates EXCEPT
                      ![d] = {e \in Events : state[e] = "pending" /\ due[e]}]
  /\ UNCHANGED <<ledger, outbox, effects, claimed, current, stage>>

\* Variant of Claimable: the update is by id alone.
ClaimableById(e) == state[e] # "none"

Claimable(e) == state[e] = "pending"

Claim(d, e) ==
  /\ e \in candidates[d]
  /\ candidates' = [candidates EXCEPT ![d] = @ \ {e}]
  /\ IF Claimable(e)
     THEN /\ state'   = [state EXCEPT ![e] = "processing"]
          /\ claimed' = [claimed EXCEPT ![d] = @ \cup {e}]
     ELSE UNCHANGED <<state, claimed>>
  /\ UNCHANGED <<attempts, due, sandboxed, outbox, effects, current, stage>>

\* The loop of executeReportWorkflowEvents takes the next claimed event.
Begin(d, e) ==
  /\ candidates[d] = {} /\ current[d] = NoEvent
  /\ e \in claimed[d]
  /\ claimed' = [claimed EXCEPT ![d] = @ \ {e}]
  /\ current' = [current EXCEPT ![d] = e]
  /\ stage'   = [stage EXCEPT ![d] = "run"]
  /\ UNCHANGED <<ledger, outbox, effects, candidates>>

-----------------------------------------------------------------------------
\* executeAction.

Running(d, type) ==
  stage[d] = "run" /\ Type(current[d]) = type

\* The call returned; or it took effect and its response was lost, which the
\* executor cannot tell from a failure.
Outcome(d) ==
  \/ stage' = [stage EXCEPT ![d] = "record"]
  \/ ExecFaults /\ stage' = [stage EXCEPT ![d] = "retry"]

\* Variant of AllEnqueued: any error of an insert counts as "already there".
AllEnqueuedUnchecked(s) == TRUE

AllEnqueued(s) == \A e \in ActionsOf(s) : state[e] # "none"

\* executeEvaluate first reads the template's sandbox flag, which an author may
\* have changed since any earlier read: a sandboxed report yields no action.
RunEvaluate(d) ==
  /\ Running(d, "evaluate")
  /\ \E sandbox \in BOOLEAN :
       /\ sandboxed' = [sandboxed EXCEPT ![current[d][1]] = sandbox]
       /\ stage' = [stage EXCEPT ![d] = IF sandbox THEN "record" ELSE "insert"]
  /\ UNCHANGED <<state, attempts, due, outbox, effects,
                 candidates, claimed, current>>

\* Then it inserts the action events in order; one that an earlier pass
\* inserted answers 409 and is passed over.
InsertAction(d) ==
  LET s == current[d][1]
      missing == {e \in ActionsOf(s) : state[e] = "none"} IN
  /\ stage[d] = "insert"
  /\ IF AllEnqueued(s)
     THEN /\ stage' = [stage EXCEPT ![d] = "record"]
          /\ UNCHANGED <<state, due>>
     ELSE /\ \E e \in missing :
               /\ \A f \in missing : e[2] <= f[2]
               /\ state' = [state EXCEPT ![e] = "pending"]
               /\ due'   = [due EXCEPT ![e] = TRUE]
          /\ UNCHANGED stage
  /\ UNCHANGED <<attempts, sandboxed, outbox, effects,
                 candidates, claimed, current>>

\* Variant of Minted: the RPC inserts without looking.
MintedAgain(count) == count + 1

\* mint_workflow_incident and mint_workflow_work_order return the row a former
\* mint inserted, and the unique index refuses a second one.
Minted(count) == IF count = 0 THEN 1 ELSE count

RunMint(d) ==
  LET e == current[d] IN
  /\ stage[d] = "run" /\ Type(e) \in MintTypes
  /\ minted' = [minted EXCEPT ![<<e[1], Type(e)>>] = Minted(@)]
  /\ Outcome(d)
  /\ UNCHANGED <<ledger, outbox, jobs, pdfQueued, candidates, claimed, current>>

\* executeNotify is a plain insert: nothing keys the job to the event.
RunNotify(d) ==
  /\ Running(d, "notify")
  /\ jobs' = [jobs EXCEPT ![current[d]] = @ + 1]
  /\ Outcome(d)
  /\ UNCHANGED <<ledger, outbox, minted, pdfQueued, candidates, claimed, current>>

RunQueuePdf(d) ==
  /\ Running(d, "queue_pdf")
  /\ pdfQueued' = [pdfQueued EXCEPT ![current[d][1]] = TRUE]
  /\ Outcome(d)
  /\ UNCHANGED <<ledger, outbox, minted, jobs, candidates, claimed, current>>

\* A call fails without effect, in the action or in markProcessed.
ExecFails(d) ==
  /\ ExecFaults
  /\ stage[d] \in {"run", "insert", "record"}
  /\ stage' = [stage EXCEPT ![d] = "retry"]
  /\ UNCHANGED <<ledger, outbox, effects, candidates, claimed, current>>

-----------------------------------------------------------------------------
\* The bookkeeping of processReportWorkflowEvent.

Release(d) ==
  /\ current' = [current EXCEPT ![d] = NoEvent]
  /\ stage'   = [stage EXCEPT ![d] = "idle"]

\* The update may take effect and its response be lost: the catch then treats
\* an event that is already processed as a failure.
MarkProcessed(d) ==
  /\ stage[d] = "record"
  /\ state' = [state EXCEPT ![current[d]] = "processed"]
  /\ \/ Release(d)
     \/ /\ ExecFaults
        /\ stage' = [stage EXCEPT ![d] = "retry"]
        /\ UNCHANGED current
  /\ UNCHANGED <<attempts, due, sandboxed, outbox, effects, candidates, claimed>>

\* Variant of CountAttempt: a retry is not counted.
CountNothing(n) == n

CountAttempt(n) == n + 1

Exhausted(n) == n >= MaxAttempts

\* markFailure writes by id alone, whatever the row says by then.
MarkFailure(d) ==
  LET e == current[d]
      n == CountAttempt(attempts[e]) IN
  /\ stage[d] = "retry"
  /\ attempts' = [attempts EXCEPT ![e] = n]
  /\ IF Exhausted(n)
     THEN /\ state' = [state EXCEPT ![e] = "failed"]
          /\ UNCHANGED due
     ELSE /\ state' = [state EXCEPT ![e] = "pending"]
          /\ due'   = [due EXCEPT ![e] = FALSE]
  /\ Release(d)
  /\ UNCHANGED <<sandboxed, outbox, effects, candidates, claimed>>

\* The drain ends and forgets what it claimed.
Abandon(d) ==
  /\ candidates' = [candidates EXCEPT ![d] = {}]
  /\ claimed'    = [claimed EXCEPT ![d] = {}]
  /\ Release(d)
  /\ UNCHANGED <<ledger, outbox, effects>>

\* markFailure's own update throws: the error leaves the loop, and the other
\* events the drain claimed stay as they are.
MarkFails(d) == MarkFaults /\ stage[d] = "retry" /\ Abandon(d)

\* The function is stopped or times out.
Crash(d) == Crashes /\ ~ Idle(d) /\ Abandon(d)

-----------------------------------------------------------------------------

Work(d) ==
  \/ Select(d)
  \/ \E e \in Events : Claim(d, e) \/ Begin(d, e)
  \/ RunEvaluate(d) \/ InsertAction(d) \/ RunMint(d)
  \/ RunNotify(d) \/ RunQueuePdf(d)
  \/ MarkProcessed(d) \/ MarkFailure(d)

Next ==
  \/ \E s \in Submissions : Enqueue(s)
  \/ \E e \in Events : Elapse(e)
  \/ \E d \in Drains : Work(d) \/ ExecFails(d) \/ MarkFails(d) \/ Crash(d)

Spec == Init /\ [][Next]_vars

\* The scheduler keeps calling the drain, a drain that runs takes its steps,
\* and time passes.
Fairness ==
  /\ \A e \in Events : WF_vars(Elapse(e))
  /\ \A d \in Drains : WF_vars(Work(d))

FairSpec == Spec /\ Fairness

-----------------------------------------------------------------------------

States == {"none", "pending", "processing", "processed", "failed"}
Stages == {"idle", "run", "insert", "record", "retry"}

Held(d) == claimed[d] \cup ({current[d]} \ {NoEvent})

TypeOK ==
  /\ state      \in [Events -> States]
  /\ attempts   \in [Events -> 0..MaxAttempts]
  /\ due        \in [Events -> BOOLEAN]
  /\ sandboxed  \in [Submissions -> BOOLEAN]
  /\ outbox     \in [Submissions -> Nat]
  /\ minted     \in [Submissions \X MintTypes -> Nat]
  /\ jobs       \in [Events -> Nat]
  /\ pdfQueued  \in [Submissions -> BOOLEAN]
  /\ candidates \in [Drains -> SUBSET Events]
  /\ claimed    \in [Drains -> SUBSET Events]
  /\ current    \in [Drains -> Events \cup {NoEvent}]
  /\ stage      \in [Drains -> Stages]

\* However drains overlap, an event is in the hands of one drain at most, and
\* only while its row says so (the conditional update of the claim); the one
\* exception is an event whose "processed" was written and not acknowledged.
ExclusiveClaim ==
  /\ \A c, d \in Drains : c # d => Held(c) \cap Held(d) = {}
  /\ \A d \in Drains : \A e \in Held(d) :
       \/ state[e] = "processing"
       \/ state[e] = "processed" /\ e = current[d] /\ stage[d] = "retry"

\* "a concurrent or re-run drain can never duplicate either row" (0053).
MintedAtMostOnce == \A m \in Submissions \X MintTypes : minted[m] <= 1

\* Any number of enqueue calls leaves one evaluate event and one outbox row,
\* together (M-4 in 0053).
OneOutboxRow ==
  \A s \in Submissions :
    outbox[s] = IF state[Evaluate(s)] = "none" THEN 0 ELSE 1

\* What the ledger calls processed has happened: a retry after a failure in
\* the middle, or a lost response, never skips an action.
EffectOf(e) ==
  CASE Type(e) = "evaluate"  -> \/ sandboxed[e[1]]
                                \/ \A f \in ActionsOf(e[1]) : state[f] # "none"
    [] Type(e) \in MintTypes -> minted[<<e[1], Type(e)>>] > 0
    [] Type(e) = "notify"    -> jobs[e] > 0
    [] Type(e) = "queue_pdf" -> pdfQueued[e[1]]

ProcessedMeansDone ==
  \A e \in Events : state[e] = "processed" => EffectOf(e)

\* A notify action may be repeated, but never more often than it was tried.
NotifiedOncePerAttempt ==
  \A e \in Events : jobs[e] <= attempts[e] + 1

\* A row is dead-lettered exactly when its attempts are used up.
FailedAfterMaxAttempts ==
  \A e \in Events : state[e] = "failed" <=> attempts[e] = MaxAttempts

\* What ClaimQueue calls the states of a row.
QueueState(s) == CASE s = "processed" -> "done" [] s = "failed" -> "dead" [] OTHER -> s

\* The ledger is a queue, although the bookkeeping updates are by id alone and a
\* response may be lost: an event is claimed only while it is pending, and goes
\* back only as a counted failure, of which the last one is final.
Queue == INSTANCE ClaimQueue WITH
  Items <- Events, MaxAttempts <- MaxAttempts,
  state <- [e \in Events |-> QueueState(state[e])], attempts <- attempts
ImplementsQueue == Queue!Spec

\* An enqueued report is worked off: its evaluation and every action it
\* yields end processed or failed.
Settled(e) == state[e] \in {"processed", "failed"}

EverythingSettles ==
  \A e \in Events : state[e] = "pending" ~> Settled(e)

-----------------------------------------------------------------------------
\* The inductive invariant behind the safety properties.

\* A drain works on one event, apart from those it has not started.
OneAtATime(d) ==
  /\ current[d] = NoEvent <=> stage[d] = "idle"
  /\ current[d] \notin claimed[d]
  /\ stage[d] = "insert" => Type(current[d]) = "evaluate"

\* What is recorded as processed next has taken effect.
RecordsWhatHappened(d) == stage[d] = "record" => EffectOf(current[d])

\* An event that is still to be run was notified at most once per failure.
ToRun(e) ==
  \/ state[e] \in {"none", "pending"}
  \/ \E d \in Drains : e \in claimed[d] \/ (e = current[d] /\ stage[d] = "run")

LedgerInv ==
  /\ TypeOK
  /\ ExclusiveClaim
  /\ \A d \in Drains : OneAtATime(d) /\ RecordsWhatHappened(d)
  /\ \A e \in Events : ToRun(e) => jobs[e] <= attempts[e]
  /\ MintedAtMostOnce
  /\ OneOutboxRow
  /\ ProcessedMeansDone
  /\ NotifiedOncePerAttempt
  /\ FailedAfterMaxAttempts

-----------------------------------------------------------------------------
\* A claim of the source's comments that a failing call refutes.

\* "Never throws -- every outcome ... is reported back": a claimed event stays
\* with a drain that will report it.
NoStrandedClaim ==
  \A e \in Events : state[e] = "processing" => \E d \in Drains : e \in Held(d)
=============================================================================
