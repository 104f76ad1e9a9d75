-------------------------- MODULE ReportDistribution --------------------------
(***************************************************************************)
(* report-distribution.mjs: report.submitted events become messages to the *)
(* recipients that a facility's bindings resolve to.                       *)
(*                                                                         *)
(* A leg is a binding and one of its recipients; a report_deliveries row   *)
(* says what became of one leg of one event.  A drain claims due events    *)
(* one by one, resolves each to its legs, inserts the rows that are        *)
(* missing, sends what is outstanding, each message before the update that *)
(* records it, and ends every event as processed, pending or failed.  The  *)
(* mail provider may have taken a message whose answer does not arrive.    *)
(* Sending and recording stand in a try block: an error there leads to the *)
(* last step.  An error anywhere else ends the drain, as a crash does.     *)
(***************************************************************************)
EXTENDS Naturals, FiniteSets

CONSTANTS
  Events,        \* outbox_events rows of type report.submitted
  Bindings,      \* report_distribution_lists rows
  Channel,       \* of a binding: "app" (in_app, push), "email" or "digest"
  Recipients,    \* employees
  Addressless,   \* those without a linked e-mail address
  Drains,        \* runs of the drain that can overlap
  MaxAttempts,   \* DEFAULT_MAX_ATTEMPTS
  MaxTroubles    \* bound: errors inside the try block, drains that stop
                 \* outside of it, drains that find it is quiet hours, and
                 \* changes of bindings and memberships, taken together

ASSUME DistributionAssumption ==
  /\ Channel \in [Bindings -> {"app", "email", "digest"}]
  /\ Addressless \subseteq Recipients
  /\ MaxAttempts \in Nat \ {0}
  /\ MaxTroubles \in Nat

VARIABLES
  status,     \* outbox_events.status, "none" before the insert
  attempts,   \* outbox_events.attempts
  due,        \* whether available_at or next_attempt_at has passed
  audience,   \* the legs that bindings and memberships amount to
  delivery,   \* report_deliveries: status and attempts of a leg of an event
  drain,      \* what a drain is doing
  resolved,   \* history: the legs an event was last resolved to
  tried,      \* history: calls of the adapter, or job inserts, for a leg
  accepted,   \* history: those that got a message on its way
  lost,       \* history: of these, those of which the drain was told nothing
  spent       \* the troubles so far, of each kind

vars == <<status, attempts, due, audience, delivery, drain, resolved, tried,
          accepted, lost, spent>>

-----------------------------------------------------------------------------
Legs     == Bindings \X Recipients
Pairs    == Events \X Legs
Off      == [at |-> "off"]
NoRow    == [status |-> "none", attempts |-> 0]
Terminal == {"sent", "bounced", "skipped"}

Init ==
  /\ status   = [e \in Events |-> "none"]
  /\ attempts = [e \in Events |-> 0]
  /\ due      = [e \in Events |-> TRUE]
  /\ audience = Legs
  /\ delivery = [p \in Pairs |-> NoRow]
  /\ drain    = [d \in Drains |-> Off]
  /\ resolved = [e \in Events |-> {}]
  /\ tried    = [p \in Pairs |-> 0]
  /\ accepted = [p \in Pairs |-> 0]
  /\ lost     = [p \in Pairs |-> 0]
  /\ spent    = [faults |-> 0, stops |-> 0, nights |-> 0, changes |-> 0]

Trouble(kind) ==
  /\ spent.faults + spent.stops + spent.nights + spent.changes < MaxTroubles
  /\ spent' = [spent EXCEPT ![kind] = @ + 1]

Become(d, record) == drain' = [drain EXCEPT ![d] = record]

messages == <<tried, accepted, lost>>
event    == <<status, attempts, due>>

-----------------------------------------------------------------------------
\* The submit route inserts the event.
Submitted(e) ==
  /\ status[e] = "none"
  /\ status' = [status EXCEPT ![e] = "pending"]
  /\ UNCHANGED <<attempts, due, audience, delivery, drain, resolved, messages,
                 spent>>

\* The routes for bindings, and those for lists, employees and memberships.
ChangeAudience(legs) ==
  /\ legs # audience
  /\ audience' = legs
  /\ Trouble("changes")
  /\ UNCHANGED <<event, delivery, drain, resolved, messages>>

\* The backoff of a retried event elapses.
Elapse(e) ==
  /\ ~due[e]
  /\ due' = [due EXCEPT ![e] = TRUE]
  /\ UNCHANGED <<status, attempts, audience, delivery, drain, resolved,
                 messages, spent>>

-----------------------------------------------------------------------------
\* A variant that selects only events never tried.
StartUntried(d) ==
  LET found == {e \in Events : status[e] = "pending" /\ attempts[e] = 0}
  IN /\ drain[d] = Off /\ found # {}
     /\ Become(d, [at |-> "claim", todo |-> found, held |-> {}])
     /\ UNCHANGED <<event, audience, delivery, resolved, messages, spent>>

Start(d) ==
  LET found == {e \in Events : status[e] = "pending" /\ due[e]}
  IN /\ drain[d] = Off /\ found # {}
     /\ Become(d, [at |-> "claim", todo |-> found, held |-> {}])
     /\ UNCHANGED <<event, audience, delivery, resolved, messages, spent>>

\* A variant that claims by id alone.
ClaimById(d, e) ==
  /\ drain[d].at = "claim" /\ e \in drain[d].todo
  /\ status' = [status EXCEPT ![e] = "processing"]
  /\ Become(d, [drain[d] EXCEPT !.todo = @ \ {e}, !.held = @ \cup {e}])
  /\ UNCHANGED <<attempts, due, audience, delivery, resolved, messages, spent>>

\* One update per candidate, which matches while the row is pending.
Claim(d, e) ==
  /\ drain[d].at = "claim" /\ e \in drain[d].todo
  /\ status' = [status EXCEPT ![e] = IF @ = "pending" THEN "processing" ELSE @]
  /\ Become(d, [drain[d] EXCEPT !.todo = @ \ {e},
                 !.held = IF status[e] = "pending" THEN @ \cup {e} ELSE @])
  /\ UNCHANGED <<attempts, due, audience, delivery, resolved, messages, spent>>

Claimed(d, night) ==
  /\ drain[d].at = "claim" /\ drain[d].todo = {}
  /\ IF night THEN drain[d].held # {} /\ Trouble("nights") ELSE UNCHANGED spent
  /\ Become(d, IF drain[d].held = {} THEN Off
               ELSE IF night THEN [at |-> "defer", todo |-> drain[d].held]
               ELSE [at |-> "resolve", todo |-> drain[d].held, held |-> {}])
  /\ UNCHANGED <<event, audience, delivery, resolved, messages>>

\* Quiet hours: next_attempt_at moves, available_at does not, so that the row
\* stays due.
Defer(d, e) ==
  /\ drain[d].at = "defer" /\ e \in drain[d].todo
  /\ status' = [status EXCEPT ![e] = "pending"]
  /\ Become(d, IF drain[d].todo = {e} THEN Off
               ELSE [drain[d] EXCEPT !.todo = @ \ {e}])
  /\ UNCHANGED <<attempts, due, audience, delivery, resolved, messages, spent>>

\* An event that resolves to nobody is processed.
Resolve(d, e) ==
  LET held == IF audience = {} THEN drain[d].held ELSE drain[d].held \cup {e}
      todo == drain[d].todo \ {e}
  IN /\ drain[d].at = "resolve" /\ e \in drain[d].todo
     /\ status' = [status EXCEPT ![e] = IF audience = {} THEN "processed" ELSE @]
     /\ resolved' = [resolved EXCEPT ![e] = audience]
     /\ Become(d, IF todo # {} THEN [at |-> "resolve", todo |-> todo, held |-> held]
                  ELSE IF held = {} THEN Off
                  ELSE [at |-> "attach", held |-> held])
     /\ UNCHANGED <<attempts, due, audience, delivery, messages, spent>>

-----------------------------------------------------------------------------
Wanted(d) == {p \in Pairs : p[1] \in drain[d].held /\ p[2] \in resolved[p[1]]}

Done(row) ==
  row.status \in Terminal \/ (row.status = "failed" /\ row.attempts >= MaxAttempts)

Attach(d) ==
  LET todo == {p \in Wanted(d) : ~Done(delivery[p])}
  IN /\ drain[d].at = "attach"
     /\ delivery' = [p \in Pairs |->
          IF p \in Wanted(d) /\ delivery[p] = NoRow
          THEN [status |-> "queued", attempts |-> 0] ELSE delivery[p]]
     /\ Become(d, [at |-> "send", held |-> drain[d].held, todo |-> todo,
                   settled |-> Wanted(d) \ todo, group |-> {}, outcome |-> "none"])
     /\ UNCHANGED <<event, audience, resolved, messages, spent>>

\* What is sent next: legs of the apps, then e-mails, one by one, then one
\* digest for all legs of a recipient.
Of(todo, channel) == {p \in todo : Channel[p[2][1]] = channel}

NextGroups(todo) ==
  IF Of(todo, "app") # {} THEN {{p} : p \in Of(todo, "app")}
  ELSE IF Of(todo, "email") # {} THEN {{p} : p \in Of(todo, "email")}
  ELSE {{q \in Of(todo, "digest") : q[2][2] = p[2][2]} : p \in Of(todo, "digest")}

Outcomes(group) ==
  IF \A p \in group : Channel[p[2][1]] = "app" THEN {"handed"}
  ELSE IF \A p \in group : p[2][2] \in Addressless THEN {"skip"}
  ELSE {"sent", "permanent", "retryable", "lost"}

\* postWithTimeout: no answer in time, or none at all, is the code "timeout",
\* a retryable one, whether or not the provider has taken the message.
Heard(outcome) == IF outcome = "lost" THEN "retryable" ELSE outcome

Send(d, group, outcome) ==
  /\ drain[d].at = "send" /\ drain[d].group = {}
  /\ group \in NextGroups(drain[d].todo) /\ outcome \in Outcomes(group)
  /\ Become(d, [drain[d] EXCEPT !.group = group, !.outcome = Heard(outcome)])
  /\ tried' = [p \in Pairs |->
       tried[p] + (IF p \in group /\ outcome # "skip" THEN 1 ELSE 0)]
  /\ accepted' = [p \in Pairs |->
       accepted[p] + (IF p \in group /\ outcome \in {"sent", "handed", "lost"}
                      THEN 1 ELSE 0)]
  /\ lost' = [p \in Pairs |->
       lost[p] + (IF p \in group /\ outcome = "lost" THEN 1 ELSE 0)]
  /\ UNCHANGED <<event, audience, delivery, resolved, spent>>

\* applyOutcome, and the updates of handOffToNotificationJobs and
\* skipEmailLegsWithoutAddress, which spend no attempt.
ApplyOutcome(row, outcome) ==
  CASE outcome = "sent"      -> [status |-> "sent", attempts |-> row.attempts + 1]
    [] outcome = "permanent" -> [status |-> "bounced", attempts |-> row.attempts + 1]
    [] outcome = "retryable" ->
         [status |-> IF row.attempts + 1 >= MaxAttempts THEN "bounced" ELSE "failed",
          attempts |-> row.attempts + 1]
    [] outcome = "handed"    -> [row EXCEPT !.status = "sent"]
    [] outcome = "skip"      -> [row EXCEPT !.status = "skipped"]

RecordLeg(d, p) ==
  LET row == ApplyOutcome(delivery[p], drain[d].outcome)
  IN /\ drain[d].at = "send" /\ p \in drain[d].group
     /\ delivery' = [delivery EXCEPT ![p] = row]
     /\ Become(d, [drain[d] EXCEPT
          !.todo = @ \ {p}, !.group = @ \ {p},
          !.settled = IF row.status # "failed" THEN @ \cup {p} ELSE @])
     /\ UNCHANGED <<event, audience, resolved, messages, spent>>

Finish(d, settled) ==
  Become(d, [at |-> "finalize", todo |-> drain[d].held, settled |-> settled])

Sent(d) ==
  /\ drain[d].at = "send" /\ drain[d].todo = {}
  /\ Finish(d, drain[d].settled)
  /\ UNCHANGED <<event, audience, delivery, resolved, messages, spent>>

\* An error inside the try block; the update that was under way may have been
\* made.
Throw(d) ==
  /\ drain[d].at \in {"attach", "send"}
  /\ Trouble("faults")
  /\ IF drain[d].at = "attach" THEN Finish(d, {}) /\ UNCHANGED delivery
     ELSE /\ Finish(d, drain[d].settled)
          /\ \/ UNCHANGED delivery
             \/ \E p \in drain[d].group : delivery' =
                  [delivery EXCEPT ![p] = ApplyOutcome(@, drain[d].outcome)]
  /\ UNCHANGED <<event, audience, resolved, messages>>

\* finalizeEvent; a retry moves both columns that make an event due.
Finalize(d, e) ==
  LET all == \A p \in Pairs :
               p[1] = e /\ p[2] \in resolved[e] => p \in drain[d].settled
  IN /\ drain[d].at = "finalize" /\ e \in drain[d].todo
     /\ IF all
        THEN /\ status' = [status EXCEPT ![e] = "processed"]
             /\ UNCHANGED <<attempts, due>>
        ELSE /\ attempts' = [attempts EXCEPT ![e] = @ + 1]
             /\ IF attempts[e] + 1 >= MaxAttempts
                THEN /\ status' = [status EXCEPT ![e] = "failed"]
                     /\ UNCHANGED due
                ELSE /\ status' = [status EXCEPT ![e] = "pending"]
                     /\ due' = [due EXCEPT ![e] = FALSE]
     /\ Become(d, IF drain[d].todo = {e} THEN Off
                  ELSE [drain[d] EXCEPT !.todo = @ \ {e}])
     /\ UNCHANGED <<audience, delivery, resolved, messages, spent>>

\* A crash, or an error outside the try block.
Stop(d) ==
  /\ drain[d] # Off
  /\ Trouble("stops")
  /\ Become(d, Off)
  /\ UNCHANGED <<event, audience, delivery, resolved, messages>>

-----------------------------------------------------------------------------
DrainStep(d) ==
  \/ \E e \in Events : Claim(d, e) \/ Defer(d, e) \/ Resolve(d, e) \/ Finalize(d, e)
  \/ \E night \in BOOLEAN : Claimed(d, night)
  \/ Attach(d)
  \/ /\ drain[d].at = "send"
     /\ \E group \in NextGroups(drain[d].todo) :
          \E outcome \in Outcomes(group) : Send(d, group, outcome)
  \/ \E p \in Pairs : RecordLeg(d, p)
  \/ Sent(d)

Next ==
  \/ \E e \in Events : Submitted(e) \/ Elapse(e)
  \/ \E legs \in SUBSET Legs : ChangeAudience(legs)
  \/ \E d \in Drains : Start(d) \/ DrainStep(d) \/ Throw(d) \/ Stop(d)

Spec == Init /\ [][Next]_vars

\* The cron starts drains, a drain that is not stopped goes on, time passes.
FairSpec ==
  /\ Spec
  /\ \A e \in Events : WF_vars(Elapse(e))
  /\ \A d \in Drains : WF_vars(Start(d)) /\ WF_vars(DrainStep(d))

-----------------------------------------------------------------------------
TypeOK ==
  /\ status \in [Events -> {"none", "pending", "processing", "processed", "failed"}]
  /\ attempts \in [Events -> 0 .. MaxAttempts]
  /\ due \in [Events -> BOOLEAN]
  /\ audience \subseteq Legs
  /\ delivery \in [Pairs -> [status : {"none", "queued", "failed"} \cup Terminal,
                             attempts : 0 .. MaxAttempts]]
  /\ resolved \in [Events -> SUBSET Legs]

Holding(d) ==
  CASE drain[d].at \in {"attach", "send"}      -> drain[d].held
    [] drain[d].at \in {"claim", "resolve"}    ->
         drain[d].held \cup (IF drain[d].at = "resolve" THEN drain[d].todo ELSE {})
    [] drain[d].at \in {"defer", "finalize"}   -> drain[d].todo
    [] OTHER                                   -> {}

\* However drains overlap and bindings change under them, no two work on one
\* event, and a leg's message is tried at most once per attempt at the event:
\* the two counters, of the event and of the row, never let a recipient be
\* tried more than MaxAttempts times.
TriedOncePerAttempt ==
  /\ \A c, d \in Drains : c # d => Holding(c) \cap Holding(d) = {}
  /\ \A p \in Pairs :
       /\ tried[p] <= MaxAttempts
       /\ tried[p] <= attempts[p[1]] + 1

\* An event is processed only when every leg of its last resolution has its
\* end on record, a leg recorded as sent got a message that was answered for,
\* and whatever a leg gets beyond one message has an answer of the provider
\* that never came, or an error or a crash between a message and its record,
\* to answer for it: overlapping drains, retries, digests and changed bindings
\* alone repeat nothing.
ProcessedIsRecorded ==
  /\ \A e \in Events : status[e] = "processed" =>
       \A leg \in resolved[e] : delivery[<<e, leg>>].status \in Terminal
  /\ \A p \in Pairs :
       /\ delivery[p].status = "sent" => accepted[p] > lost[p]
       /\ accepted[p] <= 1 + lost[p] + spent.faults + spent.stops

\* All of it together.
DistributionInv == TypeOK /\ TriedOncePerAttempt /\ ProcessedIsRecorded

\* The events are worked off as a queue, although everything a drain writes
\* after its claim is by id alone.
Queue == INSTANCE ClaimQueue WITH
  Items       <- Events,
  MaxAttempts <- MaxAttempts,
  attempts    <- attempts,
  state       <- [e \in Events |-> CASE status[e] = "processed" -> "done"
                                     [] status[e] = "failed"    -> "dead"
                                     [] OTHER                   -> status[e]]

ImplementsQueue == Queue!Spec

\* A pending event is processed or given up after its last attempt, unless a
\* drain that had claimed it stopped: nothing takes a row out of 'processing'.
EventEnds ==
  \A e \in Events :
    status[e] = "pending" ~>
      \/ status[e] \in {"processed", "failed"}
      \/ status[e] = "processing" /\ \A d \in Drains : e \notin Holding(d)
=============================================================================
