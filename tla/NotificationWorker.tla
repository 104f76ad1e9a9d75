-------------------------- MODULE NotificationWorker --------------------------
(***************************************************************************)
(* notifications/worker.mjs: outbox_events become notification_jobs, and   *)
(* notification_jobs become messages.                                      *)
(*                                                                         *)
(* A drain makes two passes, one over each queue.  A pass selects the due  *)
(* pending rows, claims each with an update that matches only while the    *)
(* row is pending, and works off what it got.  Rows of both queues are     *)
(* items here: they share the columns status, attempts and next_attempt_at *)
(* and the bookkeeping around them.                                        *)
(*                                                                         *)
(* An item is due when scheduled_for (available_at for an outbox row) has  *)
(* passed, or when next_attempt_at has.  No producer gives a time of its   *)
(* own: both columns default to the time of the insert.                    *)
(***************************************************************************)
EXTENDS Naturals, FiniteSets

CONSTANTS
  Events,       \* outbox_events rows
  Jobs,         \* identifiers a notification_jobs row can get
  Recipients,   \* employees, each by one channel (push or email)
  Drains,       \* runs of the drain that can overlap
  MaxAttempts,  \* DEFAULT_MAX_ATTEMPTS
  MaxFaults,    \* bound: calls that fail or look failed
  MaxStops,     \* bound: drains that stop in the middle
  MaxNights,    \* bound: drains that start within quiet hours
  NoItem

Items == Events \cup Jobs

ASSUME NotificationAssumption ==
  /\ Events \cap Jobs = {}
  /\ NoItem \notin Items
  /\ MaxAttempts \in Nat \ {0}
  /\ MaxFaults \in Nat /\ MaxStops \in Nat /\ MaxNights \in Nat

VARIABLES
  state,      \* status; "done" is 'sent' or 'processed', "dead" is
              \* 'dead_letter' or 'failed', "none" before the insert
  attempts,   \* attempts
  next,       \* next_attempt_at: "null", "future" or "past"
  urgent,     \* jobs whose payload carries quietHoursBypass
  accepted,   \* messages of a job a provider took for a recipient
  recorded,   \* 'sent' push and email rows in notification_deliveries
  pass,       \* the queue a drain looks at next
  night,      \* the drain's now lies within quiet hours
  candidates, \* items a drain selected and has not tried to claim yet
  claimed,    \* items a drain claimed and has not started
  current,    \* the item a drain works on
  stage,      \* what it does with it
  to,         \* recipients it has still to contact
  reached,    \* recipients a provider accepted the message for
  faults, stops, nights

ledger == <<state, attempts, next>>
mail   == <<urgent, accepted, recorded>>
drain  == <<pass, night, candidates, claimed, current, stage, to, reached>>
bounds == <<faults, stops, nights>>
vars == <<state, attempts, next, urgent, accepted, recorded, pass, night,
          candidates, claimed, current, stage, to, reached,
          faults, stops, nights>>

Init ==
  /\ state      = [x \in Items |-> "none"]
  /\ attempts   = [x \in Items |-> 0]
  /\ next       = [x \in Items |-> "null"]
  /\ urgent     = {}
  /\ accepted   = [m \in Jobs \X Recipients |-> 0]
  /\ recorded   = [m \in Jobs \X Recipients |-> 0]
  /\ pass       = [d \in Drains |-> "outbox"]
  /\ night      = [d \in Drains |-> FALSE]
  /\ candidates = [d \in Drains |-> {}]
  /\ claimed    = [d \in Drains |-> {}]
  /\ current    = [d \in Drains |-> NoItem]
  /\ stage      = [d \in Drains |-> "idle"]
  /\ to         = [d \in Drains |-> {}]
  /\ reached    = [d \in Drains |-> {}]
  /\ faults = 0 /\ stops = 0 /\ nights = 0

-----------------------------------------------------------------------------
\* Producers, and the clock.

Insert(x) == state[x] = "none" /\ state' = [state EXCEPT ![x] = "pending"]

\* Routes and triggers insert outbox rows, and jobs of their own; a published
\* message says whether it bypasses quiet hours.
ProduceEvent(e) ==
  /\ Insert(e)
  /\ UNCHANGED <<attempts, next, mail, drain, bounds>>

ProduceJob(j, bypass) ==
  /\ Insert(j)
  /\ urgent' = IF bypass THEN urgent \cup {j} ELSE urgent
  /\ UNCHANGED <<attempts, next, accepted, recorded, drain, bounds>>

RetryElapse(x) ==
  /\ next[x] = "future"
  /\ next' = [next EXCEPT ![x] = "past"]
  /\ UNCHANGED <<state, attempts, mail, drain, bounds>>

-----------------------------------------------------------------------------
\* claimDueOutboxEvents and claimDueJobs.

Idle(d) == candidates[d] = {} /\ claimed[d] = {} /\ current[d] = NoItem

\* The first half of it holds from the insert on.
ScheduledPassed(x) == state[x] # "none"

\* The or-filter of both selects.
Due(x) == ScheduledPassed(x) \/ next[x] = "past"

DueOf(queue) == {x \in queue : state[x] = "pending" /\ Due(x)}

\* handleDrain takes the time once, before its first pass.
SelectEvents(d) ==
  /\ Idle(d) /\ pass[d] = "outbox"
  /\ DueOf(Items) # {}
  /\ \E quiet \in BOOLEAN :
       /\ quiet => nights < MaxNights
       /\ nights' = IF quiet THEN nights + 1 ELSE nights
       /\ night'  = [night EXCEPT ![d] = quiet]
  /\ pass'       = [pass EXCEPT ![d] = "jobs"]
  /\ candidates' = [candidates EXCEPT ![d] = DueOf(Events)]
  /\ UNCHANGED <<ledger, mail, claimed, current, stage, to, reached, faults, stops>>

SelectJobs(d) ==
  /\ Idle(d) /\ pass[d] = "jobs"
  /\ pass'       = [pass EXCEPT ![d] = "outbox"]
  /\ candidates' = [candidates EXCEPT ![d] = DueOf(Jobs)]
  /\ UNCHANGED <<ledger, mail, night, claimed, current, stage, to, reached, bounds>>

\* Variant of Claimable: the update is by id alone.
ClaimableById(x) == state[x] # "none"

Claimable(x) == state[x] = "pending"

Claim(d, x) ==
  /\ x \in candidates[d]
  /\ candidates' = [candidates EXCEPT ![d] = @ \ {x}]
  /\ IF Claimable(x)
     THEN /\ state'   = [state EXCEPT ![x] = "processing"]
          /\ claimed' = [claimed EXCEPT ![d] = @ \cup {x}]
     ELSE UNCHANGED <<state, claimed>>
  /\ UNCHANGED <<attempts, next, mail, pass, night, current, stage,
                 to, reached, bounds>>

Begin(d, x) ==
  /\ candidates[d] = {} /\ current[d] = NoItem
  /\ x \in claimed[d]
  /\ claimed' = [claimed EXCEPT ![d] = @ \ {x}]
  /\ current' = [current EXCEPT ![d] = x]
  /\ stage'   = [stage EXCEPT ![d] = IF x \in Events THEN "route" ELSE "start"]
  /\ UNCHANGED <<ledger, mail, pass, night, candidates, to, reached, bounds>>

Goto(d, next_stage) == stage' = [stage EXCEPT ![d] = next_stage]

\* A call goes wrong; the catch of processJob and processOutboxEvent takes over.
Fault(d) ==
  /\ faults < MaxFaults
  /\ faults' = faults + 1
  /\ Goto(d, "retry")

\* The call returned, or it took effect and looks failed.
Outcome(d, next_stage) ==
  \/ Goto(d, next_stage) /\ UNCHANGED faults
  \/ Fault(d)

-----------------------------------------------------------------------------
\* processOutboxEvent: an event without an active route or without recipients
\* is processed and makes no job; routes and lists can change at any time.

SkipEvent(d) ==
  /\ stage[d] = "route"
  /\ Goto(d, "record")
  /\ UNCHANGED <<ledger, mail, pass, night, candidates, claimed, current, to,
                 reached, bounds>>

RouteEvent(d, j) ==
  /\ stage[d] = "route"
  /\ Insert(j)
  /\ Outcome(d, "record")
  /\ UNCHANGED <<attempts, next, urgent, accepted, recorded, pass, night, candidates,
                 claimed, current, to, reached, stops, nights>>

-----------------------------------------------------------------------------
\* processJob.

Quiet(d) == night[d] /\ current[d] \notin urgent

Release(d) ==
  /\ current' = [current EXCEPT ![d] = NoItem]
  /\ stage'   = [stage EXCEPT ![d] = "idle"]
  /\ to'      = [to EXCEPT ![d] = {}]
  /\ reached' = [reached EXCEPT ![d] = {}]

\* Within quiet hours the job is put back until they end.
Reschedule(d) ==
  /\ stage[d] = "start" /\ Quiet(d)
  /\ state' = [state EXCEPT ![current[d]] = "pending"]
  /\ next'  = [next EXCEPT ![current[d]] = "future"]
  /\ Release(d)
  /\ UNCHANGED <<attempts, mail, pass, night, candidates, claimed,
                 bounds>>

\* Recipients come from the payload or from the route's list as it is now.
\* No recipients is an error like any other.
Resolve(d, recipients) ==
  /\ stage[d] = "start" /\ ~ Quiet(d)
  /\ to' = [to EXCEPT ![d] = recipients]
  /\ Goto(d, IF recipients = {} THEN "retry" ELSE "send")
  /\ UNCHANGED <<ledger, mail, pass, night, candidates, claimed, current, reached,
                 bounds>>

Accept(d, r) ==
  accepted' = [accepted EXCEPT ![<<current[d], r>>] = @ + 1]

\* The provider accepts the message, or it accepts it and the answer does not
\* come in time, or it does not (rejected, unreachable, or the recipient ruled
\* out before).  The adapter returns a result in all three cases.
Contact(d, r) ==
  \/ /\ Accept(d, r)
     /\ reached' = [reached EXCEPT ![d] = @ \cup {r}]
     /\ UNCHANGED faults
  \/ /\ faults < MaxFaults
     /\ faults' = faults + 1
     /\ Accept(d, r)
     /\ UNCHANGED reached
  \/ UNCHANGED <<accepted, reached, faults>>

SendTo(d, r) ==
  /\ stage[d] = "send" /\ r \in to[d]
  /\ to' = [to EXCEPT ![d] = @ \ {r}]
  /\ Contact(d, r)
  /\ UNCHANGED <<ledger, urgent, recorded, pass, night, candidates, claimed,
                 current, stage, stops, nights>>

\* Variant of SentTo: every recipient contacted counts as reached.
SentToAll(d) == Recipients

SentTo(d) == reached[d]

\* One insert of all delivery rows, whatever each message came to.
RecordDeliveries(d) ==
  LET j == current[d] IN
  /\ stage[d] = "send" /\ to[d] = {}
  /\ recorded' = [m \in Jobs \X Recipients |->
                    IF m[1] = j /\ m[2] \in SentTo(d) THEN recorded[m] + 1
                    ELSE recorded[m]]
  /\ Outcome(d, "record")
  /\ UNCHANGED <<ledger, urgent, accepted, pass, night, candidates, claimed,
                 current, to, reached, stops, nights>>

\* Any of the calls above fails without effect.
CallFails(d) ==
  /\ stage[d] \in {"route", "start", "send", "record"}
  /\ stage[d] = "start" => ~ Quiet(d)
  /\ Fault(d)
  /\ UNCHANGED <<ledger, mail, pass, night, candidates, claimed, current, to,
                 reached, stops, nights>>

-----------------------------------------------------------------------------
\* The bookkeeping at the end: an update by id alone.

MarkDone(d) ==
  /\ stage[d] = "record"
  /\ state' = [state EXCEPT ![current[d]] = "done"]
  /\ \/ Release(d) /\ UNCHANGED faults
     \/ Fault(d) /\ UNCHANGED <<current, to, reached>>
  /\ UNCHANGED <<attempts, next, mail, pass, night, candidates,
                 claimed, stops, nights>>

\* Variant of CountAttempt: a retry is not counted.
CountNothing(n) == n

CountAttempt(n) == n + 1

\* Variant of Exhausted: one attempt too many.
ExhaustedLate(n) == n > MaxAttempts

Exhausted(n) == n >= MaxAttempts

MarkFailure(d) ==
  LET x == current[d]
      n == CountAttempt(attempts[x]) IN
  /\ stage[d] = "retry"
  /\ attempts' = [attempts EXCEPT ![x] = n]
  /\ state'    = [state EXCEPT ![x] = IF Exhausted(n) THEN "dead" ELSE "pending"]
  /\ next'     = [next EXCEPT ![x] = IF Exhausted(n) THEN "null" ELSE "future"]
  /\ Release(d)
  /\ UNCHANGED <<mail, pass, night, candidates, claimed, bounds>>

\* The function is stopped, or an update outside any try fails: the drain ends
\* with what it claimed.
Stop(d) ==
  /\ ~ Idle(d) /\ stops < MaxStops
  /\ stops' = stops + 1
  /\ candidates' = [candidates EXCEPT ![d] = {}]
  /\ claimed'    = [claimed EXCEPT ![d] = {}]
  /\ pass'       = [pass EXCEPT ![d] = "outbox"]
  /\ Release(d)
  /\ UNCHANGED <<ledger, mail, night, faults, nights>>

-----------------------------------------------------------------------------

Work(d) ==
  \/ SelectEvents(d) \/ SelectJobs(d)
  \/ \E x \in Items : Claim(d, x) \/ Begin(d, x)
  \/ SkipEvent(d) \/ \E j \in Jobs : RouteEvent(d, j)
  \/ Reschedule(d)
  \/ \E recipients \in SUBSET Recipients : Resolve(d, recipients)
  \/ \E r \in Recipients : SendTo(d, r)
  \/ RecordDeliveries(d) \/ MarkDone(d) \/ MarkFailure(d)

Next ==
  \/ \E e \in Events : ProduceEvent(e)
  \/ \E j \in Jobs, bypass \in BOOLEAN : ProduceJob(j, bypass)
  \/ \E x \in Items : RetryElapse(x)
  \/ \E d \in Drains : Work(d) \/ CallFails(d) \/ Stop(d)

Spec == Init /\ [][Next]_vars

\* The scheduler calls the drain every five minutes, and a drain that runs goes
\* on.
FairSpec ==
  /\ Spec
  /\ \A d \in Drains : WF_vars(Work(d))

-----------------------------------------------------------------------------

States == {"none", "pending", "processing", "done", "dead"}
Stages == {"idle", "route", "start", "send", "record", "retry"}

Held(d) == claimed[d] \cup ({current[d]} \ {NoItem})

TypeOK ==
  /\ state      \in [Items -> States]
  /\ attempts   \in [Items -> 0..MaxAttempts]
  /\ next       \in [Items -> {"null", "future", "past"}]
  /\ urgent     \subseteq Jobs
  /\ accepted   \in [Jobs \X Recipients -> Nat]
  /\ recorded   \in [Jobs \X Recipients -> Nat]
  /\ pass       \in [Drains -> {"outbox", "jobs"}]
  /\ night      \in [Drains -> BOOLEAN]
  /\ candidates \in [Drains -> SUBSET Items]
  /\ claimed    \in [Drains -> SUBSET Items]
  /\ current    \in [Drains -> Items \cup {NoItem}]
  /\ stage      \in [Drains -> Stages]
  /\ to         \in [Drains -> SUBSET Recipients]
  /\ reached    \in [Drains -> SUBSET Recipients]
  /\ faults \in Nat /\ stops \in Nat /\ nights \in Nat

\* "no double-claim, no double-send": an item is in one drain's hands at most,
\* and while no drain was stopped every claimed item is in somebody's.
ExclusiveClaim ==
  /\ \A c, d \in Drains : c # d => Held(c) \cap Held(d) = {}
  /\ \A d \in Drains : \A x \in Held(d) :
       \/ state[x] = "processing"
       \/ state[x] = "done" /\ x = current[d] /\ stage[d] = "retry"
  /\ stops = 0 => \A x \in Items :
       state[x] = "processing" => \E d \in Drains : x \in Held(d)

\* Messages go out before anything records it, so a retry repeats them; but a
\* recipient gets a job's message no more often than the job was tried, and no
\* delivery is recorded as sent that no provider accepted.
OneMessagePerAttempt ==
  \A j \in Jobs, r \in Recipients :
    /\ accepted[<<j, r>>] <= attempts[j] + 1
    /\ recorded[<<j, r>>] <= accepted[<<j, r>>]

\* Overlapping and stopping drains neither work on one item together nor send
\* more, or record more, than the attempts account for.
WorkerInv == TypeOK /\ ExclusiveClaim /\ OneMessagePerAttempt

\* Claims, retries and the limit make both tables queues, although every
\* bookkeeping update is by id alone and its response may be lost.
Queue == INSTANCE ClaimQueue WITH
  Items <- Items, MaxAttempts <- MaxAttempts, state <- state, attempts <- attempts
ImplementsQueue == Queue!Spec

\* Every pending item ends sent or dead; only a drain that stops between its
\* claim and its record leaves one behind.
Stranded(x) ==
  state[x] = "processing" /\ \A d \in Drains : x \notin Held(d)

PendingEnds ==
  \A x \in Items :
    state[x] = "pending" ~> state[x] \in {"done", "dead"} \/ Stranded(x)

-----------------------------------------------------------------------------
\* A claim of the source's comments that the select's filter refutes.

\* "schedules an exponential-backoff retry (status back to 'pending' so
\* claimDueJobs can reclaim it once next_attempt_at elapses)".
NoEarlyClaim ==
  \A x \in Items : state[x] = "processing" => next[x] # "future"
=============================================================================
