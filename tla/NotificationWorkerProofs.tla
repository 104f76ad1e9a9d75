----------------------- MODULE NotificationWorkerProofs -----------------------
(***************************************************************************)
(* The safety properties of NotificationWorker, for any events, jobs,      *)
(* recipients and overlapping drains, and with failing calls and drains    *)
(* that stop; and the proof that both tables are queues (ClaimQueue).      *)
(*                                                                         *)
(* What makes the bound on messages inductive is who may still send: a job *)
(* that waits, that is claimed and not started, or whose recipient is      *)
(* still on the list, has had no more messages than failed attempts        *)
(* (Unsent).  The message that is sent next is paid for by the attempt the *)
(* drain is at, which is counted only when the drain lets the job go.      *)
(***************************************************************************)
EXTENDS NotificationWorker, TLAPS

USE NotificationAssumption DEF Items

\* What a drain holds fits what it does with it.
HandFits(d) ==
  /\ stage[d] = "idle" <=> current[d] = NoItem
  /\ stage[d] = "route" => current[d] \in Events
  /\ stage[d] \in {"start", "send"} => current[d] \in Jobs
  /\ current[d] \notin claimed[d]
  /\ stage[d] \in {"idle", "route", "start"} => reached[d] = {}

\* The attempt that may send j's message to r has not done so.
Unsent(j, r) ==
  \/ state[j] \in {"none", "pending"}
  \/ \E d \in Drains :
       \/ j \in claimed[d]
       \/ current[d] = j /\ stage[d] = "start"
       \/ current[d] = j /\ stage[d] = "send" /\ r \in to[d]

\* No message beyond the failed attempts yet.
UnsentIsPaid ==
  \A j \in Jobs, r \in Recipients :
    Unsent(j, r) => accepted[<<j, r>>] <= attempts[j]

\* What a drain is about to record was accepted and is not recorded.
ReachedIsUnrecorded ==
  \A d \in Drains : stage[d] = "send" =>
    \A r \in reached[d] : recorded[<<current[d], r>>] < accepted[<<current[d], r>>]

\* An item is given up with the attempt that reaches the limit.
LimitEnds == \A x \in Items : state[x] # "dead" => attempts[x] < MaxAttempts

IInv ==
  /\ WorkerInv
  /\ \A d \in Drains : HandFits(d)
  /\ LimitEnds
  /\ UnsentIsPaid
  /\ ReachedIsUnrecorded
LEMMA ProduceEventStep ==
  ASSUME IInv, NEW e \in Events, ProduceEvent(e)
  PROVE  IInv'
  <1>1. TypeOK'
    BY DEF IInv, WorkerInv, TypeOK, States, Stages, LimitEnds, ExclusiveClaim,
           Held, HandFits, ProduceEvent, Insert, mail, drain, bounds
  <1>2. ExclusiveClaim'
    BY DEF IInv, WorkerInv, TypeOK, Stages, ExclusiveClaim, Held, HandFits,
           ProduceEvent, Insert, mail, drain, bounds
  <1>3. OneMessagePerAttempt'
    BY DEF IInv, WorkerInv, TypeOK, ExclusiveClaim, Held, HandFits,
           OneMessagePerAttempt, UnsentIsPaid, Unsent, ReachedIsUnrecorded,
           ProduceEvent, Insert, mail, drain, bounds
  <1>4. \A c \in Drains : HandFits(c)'
    BY DEF IInv, WorkerInv, TypeOK, Stages, HandFits, ProduceEvent, Insert,
           mail, drain, bounds
  <1>5. LimitEnds'
    BY DEF IInv, WorkerInv, TypeOK, LimitEnds, ExclusiveClaim, Held, HandFits,
           ProduceEvent, Insert, mail, drain, bounds
  <1>6. UnsentIsPaid'
    BY DEF IInv, WorkerInv, TypeOK, OneMessagePerAttempt, UnsentIsPaid, Unsent,
           ExclusiveClaim, Held, HandFits, ProduceEvent, Insert, mail, drain,
           bounds
  <1>7. ReachedIsUnrecorded'
    BY DEF IInv, WorkerInv, TypeOK, ReachedIsUnrecorded, HandFits,
           ExclusiveClaim, Held, OneMessagePerAttempt, ProduceEvent, Insert,
           mail, drain, bounds
  <1> QED
    BY <1>1, <1>2, <1>3, <1>4, <1>5, <1>6, <1>7 DEF IInv, WorkerInv

LEMMA ProduceJobStep ==
  ASSUME IInv, NEW j \in Jobs, NEW bypass \in BOOLEAN, ProduceJob(j, bypass)
  PROVE  IInv'
  <1>1. TypeOK'
    BY DEF IInv, WorkerInv, TypeOK, States, Stages, LimitEnds, ExclusiveClaim,
           Held, HandFits, ProduceJob, Insert, drain, bounds
  <1>2. ExclusiveClaim'
    BY DEF IInv, WorkerInv, TypeOK, Stages, ExclusiveClaim, Held, HandFits,
           ProduceJob, Insert, drain, bounds
  <1>3. OneMessagePerAttempt'
    BY DEF IInv, WorkerInv, TypeOK, ExclusiveClaim, Held, HandFits,
           OneMessagePerAttempt, UnsentIsPaid, Unsent, ReachedIsUnrecorded,
           ProduceJob, Insert, drain, bounds
  <1>4. \A c \in Drains : HandFits(c)'
    BY DEF IInv, WorkerInv, TypeOK, Stages, HandFits, ProduceJob, Insert,
           drain, bounds
  <1>5. LimitEnds'
    BY DEF IInv, WorkerInv, TypeOK, LimitEnds, ExclusiveClaim, Held, HandFits,
           ProduceJob, Insert, drain, bounds
  <1>6. UnsentIsPaid'
    BY DEF IInv, WorkerInv, TypeOK, OneMessagePerAttempt, UnsentIsPaid, Unsent,
           ExclusiveClaim, Held, HandFits, ProduceJob, Insert, drain, bounds
  <1>7. ReachedIsUnrecorded'
    BY DEF IInv, WorkerInv, TypeOK, ReachedIsUnrecorded, HandFits,
           ExclusiveClaim, Held, OneMessagePerAttempt, ProduceJob, Insert,
           drain, bounds
  <1> QED
    BY <1>1, <1>2, <1>3, <1>4, <1>5, <1>6, <1>7 DEF IInv, WorkerInv

LEMMA RetryElapseStep ==
  ASSUME IInv, NEW x \in Items, RetryElapse(x)
  PROVE  IInv'
  <1>1. TypeOK'
    BY DEF IInv, WorkerInv, TypeOK, States, Stages, LimitEnds, ExclusiveClaim,
           Held, HandFits, RetryElapse, mail, drain, bounds
  <1>2. ExclusiveClaim'
    BY DEF IInv, WorkerInv, TypeOK, Stages, ExclusiveClaim, Held, HandFits,
           RetryElapse, mail, drain, bounds
  <1>3. OneMessagePerAttempt'
    BY DEF IInv, WorkerInv, TypeOK, ExclusiveClaim, Held, HandFits,
           OneMessagePerAttempt, UnsentIsPaid, Unsent, ReachedIsUnrecorded,
           RetryElapse, mail, drain, bounds
  <1>4. \A c \in Drains : HandFits(c)'
    BY DEF IInv, WorkerInv, TypeOK, Stages, HandFits, RetryElapse, mail, drain,
           bounds
  <1>5. LimitEnds'
    BY DEF IInv, WorkerInv, TypeOK, LimitEnds, ExclusiveClaim, Held, HandFits,
           RetryElapse, mail, drain, bounds
  <1>6. UnsentIsPaid'
    BY DEF IInv, WorkerInv, TypeOK, OneMessagePerAttempt, UnsentIsPaid, Unsent,
           ExclusiveClaim, Held, HandFits, RetryElapse, mail, drain, bounds
  <1>7. ReachedIsUnrecorded'
    BY DEF IInv, WorkerInv, TypeOK, ReachedIsUnrecorded, HandFits,
           ExclusiveClaim, Held, OneMessagePerAttempt, RetryElapse, mail,
           drain, bounds
  <1> QED
    BY <1>1, <1>2, <1>3, <1>4, <1>5, <1>6, <1>7 DEF IInv, WorkerInv

LEMMA SelectEventsStep ==
  ASSUME IInv, NEW d \in Drains, SelectEvents(d)
  PROVE  IInv'
  <1>1. TypeOK'
    BY DEF IInv, WorkerInv, TypeOK, States, Stages, LimitEnds, ExclusiveClaim,
           Held, HandFits, SelectEvents, Idle, DueOf, ledger, mail
  <1>2. ExclusiveClaim'
    BY DEF IInv, WorkerInv, TypeOK, Stages, ExclusiveClaim, Held, HandFits,
           SelectEvents, Idle, DueOf, ledger, mail
  <1>3. OneMessagePerAttempt'
    BY DEF IInv, WorkerInv, TypeOK, ExclusiveClaim, Held, HandFits,
           OneMessagePerAttempt, UnsentIsPaid, Unsent, ReachedIsUnrecorded,
           SelectEvents, Idle, DueOf, ledger, mail
  <1>4. \A c \in Drains : HandFits(c)'
    BY DEF IInv, WorkerInv, TypeOK, Stages, HandFits, SelectEvents, Idle,
           DueOf, ledger, mail
  <1>5. LimitEnds'
    BY DEF IInv, WorkerInv, TypeOK, LimitEnds, ExclusiveClaim, Held, HandFits,
           SelectEvents, Idle, DueOf, ledger, mail
  <1>6. UnsentIsPaid'
    BY DEF IInv, WorkerInv, TypeOK, OneMessagePerAttempt, UnsentIsPaid, Unsent,
           ExclusiveClaim, Held, HandFits, SelectEvents, Idle, DueOf, ledger,
           mail
  <1>7. ReachedIsUnrecorded'
    BY DEF IInv, WorkerInv, TypeOK, ReachedIsUnrecorded, HandFits,
           ExclusiveClaim, Held, OneMessagePerAttempt, SelectEvents, Idle,
           DueOf, ledger, mail
  <1> QED
    BY <1>1, <1>2, <1>3, <1>4, <1>5, <1>6, <1>7 DEF IInv, WorkerInv

LEMMA SelectJobsStep ==
  ASSUME IInv, NEW d \in Drains, SelectJobs(d)
  PROVE  IInv'
  <1>1. TypeOK'
    BY DEF IInv, WorkerInv, TypeOK, States, Stages, LimitEnds, ExclusiveClaim,
           Held, HandFits, SelectJobs, Idle, DueOf, ledger, mail, bounds
  <1>2. ExclusiveClaim'
    BY DEF IInv, WorkerInv, TypeOK, Stages, ExclusiveClaim, Held, HandFits,
           SelectJobs, Idle, DueOf, ledger, mail, bounds
  <1>3. OneMessagePerAttempt'
    BY DEF IInv, WorkerInv, TypeOK, ExclusiveClaim, Held, HandFits,
           OneMessagePerAttempt, UnsentIsPaid, Unsent, ReachedIsUnrecorded,
           SelectJobs, Idle, DueOf, ledger, mail, bounds
  <1>4. \A c \in Drains : HandFits(c)'
    BY DEF IInv, WorkerInv, TypeOK, Stages, HandFits, SelectJobs, Idle, DueOf,
           ledger, mail, bounds
  <1>5. LimitEnds'
    BY DEF IInv, WorkerInv, TypeOK, LimitEnds, ExclusiveClaim, Held, HandFits,
           SelectJobs, Idle, DueOf, ledger, mail, bounds
  <1>6. UnsentIsPaid'
    BY DEF IInv, WorkerInv, TypeOK, OneMessagePerAttempt, UnsentIsPaid, Unsent,
           ExclusiveClaim, Held, HandFits, SelectJobs, Idle, DueOf, ledger,
           mail, bounds
  <1>7. ReachedIsUnrecorded'
    BY DEF IInv, WorkerInv, TypeOK, ReachedIsUnrecorded, HandFits,
           ExclusiveClaim, Held, OneMessagePerAttempt, SelectJobs, Idle, DueOf,
           ledger, mail, bounds
  <1> QED
    BY <1>1, <1>2, <1>3, <1>4, <1>5, <1>6, <1>7 DEF IInv, WorkerInv

LEMMA ClaimStep ==
  ASSUME IInv, NEW d \in Drains, NEW x \in Items, Claim(d, x)
  PROVE  IInv'
  <1>1. TypeOK'
    <2>1. state' \in [Items -> States]
      BY DEF IInv, WorkerInv, TypeOK, Claim, States
    <2>2. /\ candidates' \in [Drains -> SUBSET Items]
          /\ claimed' \in [Drains -> SUBSET Items]
      BY DEF IInv, WorkerInv, TypeOK, Claim
    <2> QED
      BY <2>1, <2>2 DEF IInv, WorkerInv, TypeOK, Claim, mail, bounds
  <1>2. ExclusiveClaim'
    <2>1. CASE Claimable(x)
      <3>1. /\ state[x] = "pending"
            /\ state'   = [state EXCEPT ![x] = "processing"]
            /\ claimed' = [claimed EXCEPT ![d] = @ \cup {x}]
            /\ UNCHANGED <<current, stage, stops>>
        BY <2>1 DEF Claim, Claimable, bounds
      <3>2. \A c \in Drains : x \notin Held(c)
        BY <3>1 DEF IInv, WorkerInv, ExclusiveClaim
      <3>3. \A c \in Drains : Held(c)' = IF c = d THEN Held(c) \cup {x} ELSE Held(c)
        BY <3>1 DEF IInv, WorkerInv, TypeOK, Held
      <3>4. \A b, c \in Drains : b # c => Held(b)' \cap Held(c)' = {}
        BY <3>2, <3>3 DEF IInv, WorkerInv, ExclusiveClaim
      <3>5. ASSUME NEW c \in Drains, NEW y \in Held(c)'
            PROVE  \/ state'[y] = "processing"
                   \/ state'[y] = "done" /\ y = current[c] /\ stage[c] = "retry"
        BY <3>1, <3>2, <3>3 DEF IInv, WorkerInv, TypeOK, ExclusiveClaim
      <3>6. ASSUME stops = 0, NEW y \in Items, state'[y] = "processing"
            PROVE  \E c \in Drains : y \in Held(c)'
        BY <3>1, <3>3, <3>6 DEF IInv, WorkerInv, TypeOK, ExclusiveClaim
      <3> QED
        BY <3>1, <3>4, <3>5, <3>6 DEF ExclusiveClaim
    <2>2. CASE ~ Claimable(x)
      BY <2>2 DEF IInv, WorkerInv, ExclusiveClaim, Held, Claim, bounds
    <2> QED
      BY <2>1, <2>2
  <1>3. OneMessagePerAttempt'
    BY DEF IInv, WorkerInv, TypeOK, ExclusiveClaim, Held, HandFits,
           OneMessagePerAttempt, UnsentIsPaid, Unsent, ReachedIsUnrecorded,
           Claim, Claimable, mail, bounds
  <1>4. \A c \in Drains : HandFits(c)'
    BY DEF IInv, WorkerInv, TypeOK, ExclusiveClaim, Held, HandFits, Claim,
           Claimable
  <1>5. LimitEnds'
    BY DEF IInv, WorkerInv, TypeOK, LimitEnds, ExclusiveClaim, Held, HandFits,
           Claim, Claimable, mail, bounds
  <1>6. UnsentIsPaid'
    BY DEF IInv, WorkerInv, TypeOK, OneMessagePerAttempt, UnsentIsPaid, Unsent,
           ExclusiveClaim, Held, HandFits, Claim, Claimable, mail, bounds
  <1>7. ReachedIsUnrecorded'
    BY DEF IInv, WorkerInv, TypeOK, ReachedIsUnrecorded, HandFits,
           ExclusiveClaim, Held, OneMessagePerAttempt, Claim, Claimable, mail,
           bounds
  <1> QED
    BY <1>1, <1>2, <1>3, <1>4, <1>5, <1>6, <1>7 DEF IInv, WorkerInv

LEMMA BeginStep ==
  ASSUME IInv, NEW d \in Drains, NEW x \in Items, Begin(d, x)
  PROVE  IInv'
  <1>1. TypeOK'
    BY DEF IInv, WorkerInv, TypeOK, States, Stages, LimitEnds, ExclusiveClaim,
           Held, HandFits, Begin, ledger, mail, bounds
  <1>2. ExclusiveClaim'
    BY DEF IInv, WorkerInv, TypeOK, Stages, ExclusiveClaim, Held, HandFits,
           Begin, ledger, mail, bounds
  <1>3. OneMessagePerAttempt'
    BY DEF IInv, WorkerInv, TypeOK, ExclusiveClaim, Held, HandFits,
           OneMessagePerAttempt, UnsentIsPaid, Unsent, ReachedIsUnrecorded,
           Begin, ledger, mail, bounds
  <1>4. \A c \in Drains : HandFits(c)'
    BY DEF IInv, WorkerInv, TypeOK, Stages, HandFits, Begin, ledger, mail,
           bounds
  <1>5. LimitEnds'
    BY DEF IInv, WorkerInv, TypeOK, LimitEnds, ExclusiveClaim, Held, HandFits,
           Begin, ledger, mail, bounds
  <1>6. UnsentIsPaid'
    BY DEF IInv, WorkerInv, TypeOK, OneMessagePerAttempt, UnsentIsPaid, Unsent,
           ExclusiveClaim, Held, HandFits, Begin, ledger, mail, bounds
  <1>7. ReachedIsUnrecorded'
    BY DEF IInv, WorkerInv, TypeOK, ReachedIsUnrecorded, HandFits,
           ExclusiveClaim, Held, OneMessagePerAttempt, Begin, ledger, mail,
           bounds
  <1> QED
    BY <1>1, <1>2, <1>3, <1>4, <1>5, <1>6, <1>7 DEF IInv, WorkerInv

LEMMA SkipEventStep ==
  ASSUME IInv, NEW d \in Drains, SkipEvent(d)
  PROVE  IInv'
  <1>1. TypeOK'
    BY DEF IInv, WorkerInv, TypeOK, States, Stages, LimitEnds, ExclusiveClaim,
           Held, HandFits, SkipEvent, Goto, ledger, mail, bounds
  <1>2. ExclusiveClaim'
    BY DEF IInv, WorkerInv, TypeOK, Stages, ExclusiveClaim, Held, HandFits,
           SkipEvent, Goto, ledger, mail, bounds
  <1>3. OneMessagePerAttempt'
    BY DEF IInv, WorkerInv, TypeOK, ExclusiveClaim, Held, HandFits,
           OneMessagePerAttempt, UnsentIsPaid, Unsent, ReachedIsUnrecorded,
           SkipEvent, Goto, ledger, mail, bounds
  <1>4. \A c \in Drains : HandFits(c)'
    BY DEF IInv, WorkerInv, TypeOK, Stages, HandFits, SkipEvent, Goto, ledger,
           mail, bounds
  <1>5. LimitEnds'
    BY DEF IInv, WorkerInv, TypeOK, LimitEnds, ExclusiveClaim, Held, HandFits,
           SkipEvent, Goto, ledger, mail, bounds
  <1>6. UnsentIsPaid'
    BY DEF IInv, WorkerInv, TypeOK, OneMessagePerAttempt, UnsentIsPaid, Unsent,
           ExclusiveClaim, Held, HandFits, SkipEvent, Goto, ledger, mail,
           bounds
  <1>7. ReachedIsUnrecorded'
    BY DEF IInv, WorkerInv, TypeOK, ReachedIsUnrecorded, HandFits,
           ExclusiveClaim, Held, OneMessagePerAttempt, SkipEvent, Goto, ledger,
           mail, bounds
  <1> QED
    BY <1>1, <1>2, <1>3, <1>4, <1>5, <1>6, <1>7 DEF IInv, WorkerInv

LEMMA RouteEventStep ==
  ASSUME IInv, NEW d \in Drains, NEW j \in Jobs, RouteEvent(d, j)
  PROVE  IInv'
  <1>1. TypeOK'
    <2>1. /\ state' \in [Items -> States]
          /\ UNCHANGED <<attempts, next, urgent, accepted, recorded, pass, night,
                         candidates, claimed, current, to, reached, stops, nights>>
      BY DEF IInv, WorkerInv, TypeOK, RouteEvent, Insert, States
    <2>2. stage' \in [Drains -> Stages] /\ faults' \in Nat
      BY DEF IInv, WorkerInv, TypeOK, RouteEvent, Outcome, Goto, Fault, Stages
    <2> QED
      BY <2>1, <2>2 DEF IInv, WorkerInv, TypeOK
  <1>2. ExclusiveClaim'
    BY DEF IInv, WorkerInv, TypeOK, Stages, ExclusiveClaim, Held, HandFits,
           RouteEvent, Insert, Outcome, Goto, Fault
  <1>3. OneMessagePerAttempt'
    BY DEF IInv, WorkerInv, TypeOK, ExclusiveClaim, Held, HandFits,
           OneMessagePerAttempt, UnsentIsPaid, Unsent, ReachedIsUnrecorded,
           RouteEvent, Insert, Outcome, Goto, Fault
  <1>4. \A c \in Drains : HandFits(c)'
    BY DEF IInv, WorkerInv, TypeOK, Stages, HandFits, RouteEvent, Insert,
           Outcome, Goto, Fault
  <1>5. LimitEnds'
    BY DEF IInv, WorkerInv, TypeOK, LimitEnds, ExclusiveClaim, Held, HandFits,
           RouteEvent, Insert, Outcome, Goto, Fault
  <1>6. UnsentIsPaid'
    BY DEF IInv, WorkerInv, TypeOK, OneMessagePerAttempt, UnsentIsPaid, Unsent,
           ExclusiveClaim, Held, HandFits, RouteEvent, Insert, Outcome, Goto,
           Fault
  <1>7. ReachedIsUnrecorded'
    BY DEF IInv, WorkerInv, TypeOK, ReachedIsUnrecorded, HandFits,
           ExclusiveClaim, Held, OneMessagePerAttempt, RouteEvent, Insert,
           Outcome, Goto, Fault
  <1> QED
    BY <1>1, <1>2, <1>3, <1>4, <1>5, <1>6, <1>7 DEF IInv, WorkerInv

LEMMA RescheduleStep ==
  ASSUME IInv, NEW d \in Drains, Reschedule(d)
  PROVE  IInv'
  <1>1. TypeOK'
    BY DEF IInv, WorkerInv, TypeOK, States, Stages, LimitEnds, ExclusiveClaim,
           Held, HandFits, Reschedule, Quiet, Release, mail, bounds
  <1>2. ExclusiveClaim'
    BY DEF IInv, WorkerInv, TypeOK, Stages, ExclusiveClaim, Held, HandFits,
           Reschedule, Quiet, Release, mail, bounds
  <1>3. OneMessagePerAttempt'
    BY DEF IInv, WorkerInv, TypeOK, ExclusiveClaim, Held, HandFits,
           OneMessagePerAttempt, UnsentIsPaid, Unsent, ReachedIsUnrecorded,
           Reschedule, Quiet, Release, mail, bounds
  <1>4. \A c \in Drains : HandFits(c)'
    BY DEF IInv, WorkerInv, TypeOK, Stages, HandFits, Reschedule, Quiet,
           Release, mail, bounds
  <1>5. LimitEnds'
    BY DEF IInv, WorkerInv, TypeOK, LimitEnds, ExclusiveClaim, Held, HandFits,
           Reschedule, Quiet, Release, mail, bounds
  <1>6. UnsentIsPaid'
    BY DEF IInv, WorkerInv, TypeOK, OneMessagePerAttempt, UnsentIsPaid, Unsent,
           ExclusiveClaim, Held, HandFits, Reschedule, Quiet, Release, mail,
           bounds
  <1>7. ReachedIsUnrecorded'
    BY DEF IInv, WorkerInv, TypeOK, ReachedIsUnrecorded, HandFits,
           ExclusiveClaim, Held, OneMessagePerAttempt, Reschedule, Quiet,
           Release, mail, bounds
  <1> QED
    BY <1>1, <1>2, <1>3, <1>4, <1>5, <1>6, <1>7 DEF IInv, WorkerInv

LEMMA ResolveStep ==
  ASSUME IInv, NEW d \in Drains, NEW recipients \in SUBSET Recipients,
         Resolve(d, recipients)
  PROVE  IInv'
  <1>1. TypeOK'
    BY DEF IInv, WorkerInv, TypeOK, States, Stages, LimitEnds, ExclusiveClaim,
           Held, HandFits, Resolve, Quiet, Goto, ledger, mail, bounds
  <1>2. ExclusiveClaim'
    BY DEF IInv, WorkerInv, TypeOK, Stages, ExclusiveClaim, Held, HandFits,
           Resolve, Quiet, Goto, ledger, mail, bounds
  <1>3. OneMessagePerAttempt'
    BY DEF IInv, WorkerInv, TypeOK, ExclusiveClaim, Held, HandFits,
           OneMessagePerAttempt, UnsentIsPaid, Unsent, ReachedIsUnrecorded,
           Resolve, Quiet, Goto, ledger, mail, bounds
  <1>4. \A c \in Drains : HandFits(c)'
    BY DEF IInv, WorkerInv, TypeOK, Stages, HandFits, Resolve, Quiet, Goto,
           ledger, mail, bounds
  <1>5. LimitEnds'
    BY DEF IInv, WorkerInv, TypeOK, LimitEnds, ExclusiveClaim, Held, HandFits,
           Resolve, Quiet, Goto, ledger, mail, bounds
  <1>6. UnsentIsPaid'
    BY DEF IInv, WorkerInv, TypeOK, OneMessagePerAttempt, UnsentIsPaid, Unsent,
           ExclusiveClaim, Held, HandFits, Resolve, Quiet, Goto, ledger, mail,
           bounds
  <1>7. ReachedIsUnrecorded'
    BY DEF IInv, WorkerInv, TypeOK, ReachedIsUnrecorded, HandFits,
           ExclusiveClaim, Held, OneMessagePerAttempt, Resolve, Quiet, Goto,
           ledger, mail, bounds
  <1> QED
    BY <1>1, <1>2, <1>3, <1>4, <1>5, <1>6, <1>7 DEF IInv, WorkerInv

LEMMA SendToStep ==
  ASSUME IInv, NEW d \in Drains, NEW r \in Recipients, SendTo(d, r)
  PROVE  IInv'
  <1> DEFINE j == current[d]
  <1>1. /\ j \in Jobs /\ stage[d] = "send" /\ r \in to[d]
        /\ to' = [to EXCEPT ![d] = @ \ {r}]
        /\ UNCHANGED <<state, attempts, next, urgent, recorded, pass, night,
                       candidates, claimed, current, stage, stops, nights>>
    BY DEF SendTo, IInv, HandFits, ledger
  <1>2. /\ \/ accepted' = [accepted EXCEPT ![<<j, r>>] = @ + 1]
           \/ UNCHANGED accepted
        /\ \/ UNCHANGED reached
           \/ /\ reached' = [reached EXCEPT ![d] = @ \cup {r}]
              /\ accepted' = [accepted EXCEPT ![<<j, r>>] = @ + 1]
        /\ faults' \in Nat
    BY DEF SendTo, Contact, Accept, IInv, WorkerInv, TypeOK
  <1>3. accepted \in [Jobs \X Recipients -> Nat] /\ recorded \in [Jobs \X Recipients -> Nat]
        /\ attempts \in [Items -> Nat]
    BY DEF IInv, WorkerInv, TypeOK
  <1>4. accepted[<<j, r>>] <= attempts[j]
    BY <1>1 DEF IInv, UnsentIsPaid, Unsent
  <1>5. \A i \in Jobs, q \in Recipients :
          /\ accepted'[<<i, q>>] \in Nat
          /\ accepted[<<i, q>>] <= accepted'[<<i, q>>]
          /\ <<i, q>> # <<j, r>> => accepted'[<<i, q>>] = accepted[<<i, q>>]
          /\ <<i, q>> = <<j, r>> => accepted'[<<i, q>>] <= attempts[i] + 1
    BY <1>1, <1>2, <1>3, <1>4
  <1>6. TypeOK'
    <2>1. accepted' \in [Jobs \X Recipients -> Nat]
      BY <1>1, <1>2, <1>3
    <2>2. reached' \in [Drains -> SUBSET Recipients]
      BY <1>2 DEF IInv, WorkerInv, TypeOK
    <2>3. to' \in [Drains -> SUBSET Recipients]
      BY <1>1 DEF IInv, WorkerInv, TypeOK
    <2> QED
      BY <1>1, <1>2, <2>1, <2>2, <2>3 DEF IInv, WorkerInv, TypeOK
  <1>7. ExclusiveClaim'
    BY <1>1 DEF IInv, WorkerInv, ExclusiveClaim, Held
  <1>8. OneMessagePerAttempt'
    <2> SUFFICES ASSUME NEW i \in Jobs, NEW q \in Recipients
                 PROVE  /\ accepted'[<<i, q>>] <= attempts[i] + 1
                        /\ recorded[<<i, q>>] <= accepted'[<<i, q>>]
      BY <1>1 DEF OneMessagePerAttempt
    <2>1. /\ accepted[<<i, q>>] <= attempts[i] + 1
          /\ recorded[<<i, q>>] <= accepted[<<i, q>>]
      BY DEF IInv, WorkerInv, OneMessagePerAttempt
    <2>2. /\ accepted[<<i, q>>] \in Nat /\ recorded[<<i, q>>] \in Nat
          /\ accepted'[<<i, q>>] \in Nat
      BY <1>3, <1>5
    <2>3. accepted'[<<i, q>>] <= attempts[i] + 1
      BY <1>5, <2>1
    <2> QED
      BY <1>5, <2>1, <2>2, <2>3
  <1>9. \A c \in Drains : HandFits(c)'
    BY <1>1, <1>2 DEF IInv, WorkerInv, TypeOK, HandFits
  <1>10. LimitEnds'
    BY <1>1 DEF IInv, LimitEnds
  <1>11. UnsentIsPaid'
    <2> SUFFICES ASSUME NEW i \in Jobs, NEW q \in Recipients, Unsent(i, q)'
                 PROVE  accepted'[<<i, q>>] <= attempts[i]
      BY <1>1 DEF UnsentIsPaid
    <2>1. Unsent(i, q)
      BY <1>1 DEF Unsent, IInv, WorkerInv, TypeOK
    <2>2. <<i, q>> # <<j, r>>
      BY <1>1 DEF Unsent, IInv, WorkerInv, TypeOK, ExclusiveClaim, Held,
                  HandFits
    <2> QED
      BY <1>5, <2>1, <2>2 DEF IInv, UnsentIsPaid
  <1>12. ReachedIsUnrecorded'
    <2> SUFFICES ASSUME NEW c \in Drains, stage[c] = "send", NEW q \in reached'[c]
                 PROVE  recorded[<<current[c], q>>] < accepted'[<<current[c], q>>]
      BY <1>1 DEF ReachedIsUnrecorded
    <2>1. current[c] \in Jobs /\ q \in Recipients
      BY <1>6 DEF IInv, HandFits, TypeOK
    <2>2. /\ recorded[<<current[c], q>>] \in Nat
          /\ accepted[<<current[c], q>>] \in Nat
          /\ accepted'[<<current[c], q>>] \in Nat
          /\ recorded[<<current[c], q>>] <= accepted[<<current[c], q>>]
          /\ accepted[<<current[c], q>>] <= accepted'[<<current[c], q>>]
      BY <1>3, <1>5, <2>1 DEF IInv, WorkerInv, OneMessagePerAttempt
    <2>3. CASE q \in reached[c]
      <3>1. recorded[<<current[c], q>>] < accepted[<<current[c], q>>]
        BY <2>3 DEF IInv, ReachedIsUnrecorded
      <3> QED
        BY <2>2, <3>1
    <2>4. CASE q \notin reached[c]
      <3>1. c = d /\ q = r /\ accepted' = [accepted EXCEPT ![<<j, r>>] = @ + 1]
        BY <1>2, <2>4 DEF IInv, WorkerInv, TypeOK
      <3>2. accepted'[<<j, r>>] = accepted[<<j, r>>] + 1
        BY <1>1, <1>3, <3>1
      <3> QED
        BY <2>2, <3>1, <3>2
    <2> QED
      BY <2>3, <2>4
  <1> QED
    BY <1>6, <1>7, <1>8, <1>9, <1>10, <1>11, <1>12 DEF IInv, WorkerInv

LEMMA RecordDeliveriesStep ==
  ASSUME IInv, NEW d \in Drains, RecordDeliveries(d)
  PROVE  IInv'
  <1>1. TypeOK'
    <2>1. recorded' \in [Jobs \X Recipients -> Nat]
      BY DEF IInv, WorkerInv, TypeOK, RecordDeliveries
    <2>2. stage' \in [Drains -> Stages] /\ faults' \in Nat
      BY DEF IInv, WorkerInv, TypeOK, RecordDeliveries, Outcome, Goto, Fault,
             Stages
    <2> QED
      BY <2>1, <2>2 DEF IInv, WorkerInv, TypeOK, RecordDeliveries, ledger
  <1>2. ExclusiveClaim'
    BY DEF IInv, WorkerInv, TypeOK, Stages, ExclusiveClaim, Held, HandFits,
           RecordDeliveries, SentTo, Outcome, Goto, Fault, ledger
  <1>3. OneMessagePerAttempt'
    <2> SUFFICES ASSUME NEW i \in Jobs, NEW q \in Recipients
                 PROVE  /\ accepted[<<i, q>>] <= attempts[i] + 1
                        /\ recorded'[<<i, q>>] <= accepted[<<i, q>>]
      BY DEF OneMessagePerAttempt, RecordDeliveries, ledger
    <2>1. /\ accepted[<<i, q>>] <= attempts[i] + 1
          /\ recorded[<<i, q>>] <= accepted[<<i, q>>]
          /\ accepted[<<i, q>>] \in Nat /\ recorded[<<i, q>>] \in Nat
      BY DEF IInv, WorkerInv, TypeOK, OneMessagePerAttempt
    <2>2. CASE i = current[d] /\ q \in reached[d]
      <3>1. recorded'[<<i, q>>] = recorded[<<i, q>>] + 1
        BY <2>2 DEF RecordDeliveries, SentTo
      <3>2. recorded[<<i, q>>] < accepted[<<i, q>>]
        BY <2>2 DEF IInv, ReachedIsUnrecorded, RecordDeliveries
      <3> QED
        BY <2>1, <3>1, <3>2
    <2>3. CASE ~ (i = current[d] /\ q \in reached[d])
      <3>1. recorded'[<<i, q>>] = recorded[<<i, q>>]
        BY <2>3 DEF RecordDeliveries, SentTo
      <3> QED
        BY <2>1, <3>1
    <2> QED
      BY <2>2, <2>3
  <1>4. \A c \in Drains : HandFits(c)'
    BY DEF IInv, WorkerInv, TypeOK, Stages, HandFits, RecordDeliveries, SentTo,
           Outcome, Goto, Fault, ledger
  <1>5. LimitEnds'
    BY DEF IInv, WorkerInv, TypeOK, LimitEnds, ExclusiveClaim, Held, HandFits,
           RecordDeliveries, SentTo, Outcome, Goto, Fault, ledger
  <1>6. UnsentIsPaid'
    BY DEF IInv, WorkerInv, TypeOK, OneMessagePerAttempt, UnsentIsPaid, Unsent,
           ExclusiveClaim, Held, HandFits, RecordDeliveries, SentTo, Outcome,
           Goto, Fault, ledger
  <1>7. ReachedIsUnrecorded'
    BY DEF IInv, WorkerInv, TypeOK, ReachedIsUnrecorded, HandFits,
           ExclusiveClaim, Held, OneMessagePerAttempt, RecordDeliveries,
           SentTo, Outcome, Goto, Fault, ledger
  <1> QED
    BY <1>1, <1>2, <1>3, <1>4, <1>5, <1>6, <1>7 DEF IInv, WorkerInv

LEMMA CallFailsStep ==
  ASSUME IInv, NEW d \in Drains, CallFails(d)
  PROVE  IInv'
  <1>1. TypeOK'
    BY DEF IInv, WorkerInv, TypeOK, States, Stages, LimitEnds, ExclusiveClaim,
           Held, HandFits, CallFails, Quiet, Fault, Goto, ledger, mail
  <1>2. ExclusiveClaim'
    BY DEF IInv, WorkerInv, TypeOK, Stages, ExclusiveClaim, Held, HandFits,
           CallFails, Quiet, Fault, Goto, ledger, mail
  <1>3. OneMessagePerAttempt'
    BY DEF IInv, WorkerInv, TypeOK, ExclusiveClaim, Held, HandFits,
           OneMessagePerAttempt, UnsentIsPaid, Unsent, ReachedIsUnrecorded,
           CallFails, Quiet, Fault, Goto, ledger, mail
  <1>4. \A c \in Drains : HandFits(c)'
    BY DEF IInv, WorkerInv, TypeOK, Stages, HandFits, CallFails, Quiet, Fault,
           Goto, ledger, mail
  <1>5. LimitEnds'
    BY DEF IInv, WorkerInv, TypeOK, LimitEnds, ExclusiveClaim, Held, HandFits,
           CallFails, Quiet, Fault, Goto, ledger, mail
  <1>6. UnsentIsPaid'
    BY DEF IInv, WorkerInv, TypeOK, OneMessagePerAttempt, UnsentIsPaid, Unsent,
           ExclusiveClaim, Held, HandFits, CallFails, Quiet, Fault, Goto,
           ledger, mail
  <1>7. ReachedIsUnrecorded'
    BY DEF IInv, WorkerInv, TypeOK, ReachedIsUnrecorded, HandFits,
           ExclusiveClaim, Held, OneMessagePerAttempt, CallFails, Quiet, Fault,
           Goto, ledger, mail
  <1> QED
    BY <1>1, <1>2, <1>3, <1>4, <1>5, <1>6, <1>7 DEF IInv, WorkerInv

LEMMA MarkDoneStep ==
  ASSUME IInv, NEW d \in Drains, MarkDone(d)
  PROVE  IInv'
  <1>1. TypeOK'
    <2>1. state' \in [Items -> States]
      <3>1. state' = [state EXCEPT ![current[d]] = "done"]
        BY DEF MarkDone
      <3>2. state \in [Items -> States] /\ "done" \in States
        BY DEF IInv, WorkerInv, TypeOK, States
      <3> QED
        BY <3>1, <3>2
    <2>2. /\ stage' \in [Drains -> Stages] /\ faults' \in Nat
          /\ current' \in [Drains -> Items \cup {NoItem}]
          /\ to' \in [Drains -> SUBSET Recipients]
          /\ reached' \in [Drains -> SUBSET Recipients]
      <3>1. CASE Release(d) /\ UNCHANGED faults
        BY <3>1 DEF IInv, WorkerInv, TypeOK, Release, Stages
      <3>2. CASE Fault(d) /\ UNCHANGED <<current, to, reached>>
        BY <3>2 DEF IInv, WorkerInv, TypeOK, Fault, Goto, Stages
      <3> QED
        BY <3>1, <3>2 DEF MarkDone
    <2> QED
      BY <2>1, <2>2 DEF IInv, WorkerInv, TypeOK, MarkDone, mail
  <1>2. ExclusiveClaim'
    BY DEF IInv, WorkerInv, TypeOK, Stages, ExclusiveClaim, Held, HandFits,
           MarkDone, Release, Fault, Goto, mail
  <1>3. OneMessagePerAttempt'
    BY DEF IInv, WorkerInv, TypeOK, ExclusiveClaim, Held, HandFits,
           OneMessagePerAttempt, UnsentIsPaid, Unsent, ReachedIsUnrecorded,
           MarkDone, Release, Fault, Goto, mail
  <1>4. \A c \in Drains : HandFits(c)'
    BY DEF IInv, WorkerInv, TypeOK, Stages, HandFits, MarkDone, Release, Fault,
           Goto, mail
  <1>5. LimitEnds'
    BY DEF IInv, WorkerInv, TypeOK, LimitEnds, ExclusiveClaim, Held, HandFits,
           MarkDone, Release, Fault, Goto, mail
  <1>6. UnsentIsPaid'
    BY DEF IInv, WorkerInv, TypeOK, OneMessagePerAttempt, UnsentIsPaid, Unsent,
           ExclusiveClaim, Held, HandFits, MarkDone, Release, Fault, Goto,
           mail
  <1>7. ReachedIsUnrecorded'
    BY DEF IInv, WorkerInv, TypeOK, ReachedIsUnrecorded, HandFits,
           ExclusiveClaim, Held, OneMessagePerAttempt, MarkDone, Release,
           Fault, Goto, mail
  <1> QED
    BY <1>1, <1>2, <1>3, <1>4, <1>5, <1>6, <1>7 DEF IInv, WorkerInv

LEMMA MarkFailureStep ==
  ASSUME IInv, NEW d \in Drains, MarkFailure(d)
  PROVE  IInv'
  <1>1. TypeOK'
    BY DEF IInv, WorkerInv, TypeOK, States, Stages, LimitEnds, ExclusiveClaim,
           Held, HandFits, MarkFailure, CountAttempt, Exhausted, Release, mail,
           bounds
  <1>2. ExclusiveClaim'
    BY DEF IInv, WorkerInv, TypeOK, Stages, ExclusiveClaim, Held, HandFits,
           MarkFailure, CountAttempt, Exhausted, Release, mail, bounds
  <1>3. OneMessagePerAttempt'
    <2> SUFFICES ASSUME NEW i \in Jobs, NEW q \in Recipients
                 PROVE  /\ accepted[<<i, q>>] <= attempts'[i] + 1
                        /\ recorded[<<i, q>>] <= accepted[<<i, q>>]
      BY DEF OneMessagePerAttempt, MarkFailure, mail
    <2>1. /\ accepted[<<i, q>>] <= attempts[i] + 1
          /\ recorded[<<i, q>>] <= accepted[<<i, q>>]
          /\ accepted[<<i, q>>] \in Nat /\ attempts[i] \in Nat
      BY DEF IInv, WorkerInv, TypeOK, OneMessagePerAttempt
    <2>2. attempts'[i] \in {attempts[i], attempts[i] + 1}
      BY DEF IInv, WorkerInv, TypeOK, MarkFailure, CountAttempt
    <2> QED
      BY <2>1, <2>2
  <1>4. \A c \in Drains : HandFits(c)'
    BY DEF IInv, WorkerInv, TypeOK, Stages, HandFits, MarkFailure,
           CountAttempt, Exhausted, Release, mail, bounds
  <1>5. LimitEnds'
    BY DEF IInv, WorkerInv, TypeOK, LimitEnds, ExclusiveClaim, Held, HandFits,
           MarkFailure, CountAttempt, Exhausted, Release, mail, bounds
  <1>6. UnsentIsPaid'
    BY DEF IInv, WorkerInv, TypeOK, OneMessagePerAttempt, UnsentIsPaid, Unsent,
           ExclusiveClaim, Held, HandFits, MarkFailure, CountAttempt,
           Exhausted, Release, mail, bounds
  <1>7. ReachedIsUnrecorded'
    BY DEF IInv, WorkerInv, TypeOK, ReachedIsUnrecorded, HandFits,
           ExclusiveClaim, Held, OneMessagePerAttempt, MarkFailure,
           CountAttempt, Exhausted, Release, mail, bounds
  <1> QED
    BY <1>1, <1>2, <1>3, <1>4, <1>5, <1>6, <1>7 DEF IInv, WorkerInv

LEMMA StopStep ==
  ASSUME IInv, NEW d \in Drains, Stop(d)
  PROVE  IInv'
  <1>1. TypeOK'
    BY DEF IInv, WorkerInv, TypeOK, States, Stages, LimitEnds, ExclusiveClaim,
           Held, HandFits, Stop, Idle, Release, ledger, mail
  <1>2. ExclusiveClaim'
    BY DEF IInv, WorkerInv, TypeOK, Stages, ExclusiveClaim, Held, HandFits,
           Stop, Idle, Release, ledger, mail
  <1>3. OneMessagePerAttempt'
    BY DEF IInv, WorkerInv, TypeOK, ExclusiveClaim, Held, HandFits,
           OneMessagePerAttempt, UnsentIsPaid, Unsent, ReachedIsUnrecorded,
           Stop, Idle, Release, ledger, mail
  <1>4. \A c \in Drains : HandFits(c)'
    BY DEF IInv, WorkerInv, TypeOK, Stages, HandFits, Stop, Idle, Release,
           ledger, mail
  <1>5. LimitEnds'
    BY DEF IInv, WorkerInv, TypeOK, LimitEnds, ExclusiveClaim, Held, HandFits,
           Stop, Idle, Release, ledger, mail
  <1>6. UnsentIsPaid'
    BY DEF IInv, WorkerInv, TypeOK, OneMessagePerAttempt, UnsentIsPaid, Unsent,
           ExclusiveClaim, Held, HandFits, Stop, Idle, Release, ledger, mail
  <1>7. ReachedIsUnrecorded'
    BY DEF IInv, WorkerInv, TypeOK, ReachedIsUnrecorded, HandFits,
           ExclusiveClaim, Held, OneMessagePerAttempt, Stop, Idle, Release,
           ledger, mail
  <1> QED
    BY <1>1, <1>2, <1>3, <1>4, <1>5, <1>6, <1>7 DEF IInv, WorkerInv

-----------------------------------------------------------------------------

\* Nothing is inserted, selected or sent at first.
LEMMA InitIInv == Init => IInv
  <1> SUFFICES ASSUME Init PROVE IInv
    OBVIOUS
  <1>1. TypeOK
    BY DEF Init, TypeOK, States, Stages
  <1>2. ExclusiveClaim /\ OneMessagePerAttempt
    BY DEF Init, ExclusiveClaim, Held, OneMessagePerAttempt
  <1>3. (\A d \in Drains : HandFits(d)) /\ LimitEnds
    BY DEF Init, HandFits, LimitEnds
  <1>4. UnsentIsPaid /\ ReachedIsUnrecorded
    BY DEF Init, UnsentIsPaid, ReachedIsUnrecorded
  <1> QED
    BY <1>1, <1>2, <1>3, <1>4 DEF IInv, WorkerInv

LEMMA StepIInv == IInv /\ [Next]_vars => IInv'
  <1> SUFFICES ASSUME IInv, [Next]_vars PROVE IInv'
    OBVIOUS
  <1>1. ASSUME NEW e \in Events, ProduceEvent(e) PROVE IInv'
    BY <1>1, ProduceEventStep
  <1>2. ASSUME NEW j \in Jobs, NEW bypass \in BOOLEAN, ProduceJob(j, bypass)
        PROVE  IInv'
    BY <1>2, ProduceJobStep
  <1>3. ASSUME NEW x \in Items, RetryElapse(x) PROVE IInv'
    BY <1>3, RetryElapseStep
  <1>4. ASSUME NEW d \in Drains, Work(d) PROVE IInv'
    BY <1>4, SelectEventsStep, SelectJobsStep, ClaimStep, BeginStep,
       SkipEventStep, RouteEventStep, RescheduleStep, ResolveStep, SendToStep,
       RecordDeliveriesStep, MarkDoneStep, MarkFailureStep
       DEF Work
  <1>5. ASSUME NEW d \in Drains, CallFails(d) \/ Stop(d) PROVE IInv'
    BY <1>5, CallFailsStep, StopStep
  <1>6. CASE UNCHANGED vars
    BY <1>6 DEF IInv, WorkerInv, TypeOK, ExclusiveClaim, OneMessagePerAttempt,
                Held, HandFits, LimitEnds, UnsentIsPaid, Unsent,
                ReachedIsUnrecorded, vars
  <1> QED
    BY <1>1, <1>2, <1>3, <1>4, <1>5, <1>6 DEF Next

LEMMA Invariance == Spec => []IInv
  BY InitIInv, StepIInv, PTL DEF Spec

\* Drains of worker.mjs that overlap, stop and repeat never hold one row
\* together, never leave a claimed row to nobody unless one stopped, send a
\* recipient a job's message at most once per attempt and record no message as
\* sent that no provider took.
THEOREM WorkerSafety == Spec => []WorkerInv
  <1>1. IInv => WorkerInv
    BY DEF IInv
  <1> QED
    BY <1>1, Invariance, PTL

-----------------------------------------------------------------------------
\* The refinement of ClaimQueue: what each step does to an item.

LEMMA InsertMoves ==
  ASSUME NEW x \in Items, Insert(x), UNCHANGED attempts
  PROVE  Queue!Next
  BY DEF Insert, Queue!Next, Queue!Move

LEMMA ClaimMoves ==
  ASSUME NEW d \in Drains, NEW x \in Items, Claim(d, x)
  PROVE  [Queue!Next]_<<state, attempts>>
  <1>1. CASE Claimable(x)
    BY <1>1 DEF Claim, Claimable, Queue!Next, Queue!Move
  <1>2. CASE ~ Claimable(x)
    BY <1>2 DEF Claim
  <1> QED
    BY <1>1, <1>2

\* What a drain works on is processing, and not done, until a record failed.
LEMMA RescheduleMoves ==
  ASSUME IInv, NEW d \in Drains, Reschedule(d)
  PROVE  Queue!Next
  <1>1. current[d] \in Items /\ state[current[d]] = "processing"
    BY DEF IInv, HandFits, WorkerInv, ExclusiveClaim, Held, Reschedule
  <1> QED
    BY <1>1 DEF Reschedule, Queue!Next, Queue!Move

LEMMA MarkDoneMoves ==
  ASSUME IInv, NEW d \in Drains, MarkDone(d)
  PROVE  Queue!Next
  <1>1. current[d] \in Items /\ state[current[d]] = "processing"
    BY DEF IInv, HandFits, WorkerInv, TypeOK, ExclusiveClaim, Held, MarkDone
  <1> QED
    BY <1>1 DEF MarkDone, Queue!Next, Queue!Move

\* A failure is counted below the limit, and reaching it is what ends the item.
LEMMA MarkFailureMoves ==
  ASSUME IInv, NEW d \in Drains, MarkFailure(d)
  PROVE  Queue!Next
  <1> DEFINE x == current[d]
  <1>1. x \in Items /\ state[x] \in {"processing", "done"}
    BY DEF IInv, HandFits, WorkerInv, TypeOK, ExclusiveClaim, Held, MarkFailure
  <1>2. attempts[x] \in Nat /\ attempts[x] < MaxAttempts
    BY <1>1 DEF IInv, LimitEnds, WorkerInv, TypeOK
  <1>3. attempts[x] + 1 >= MaxAttempts <=> attempts[x] + 1 = MaxAttempts
    BY <1>2
  <1>4. Queue!Fail(x)
    BY <1>1, <1>2, <1>3 DEF MarkFailure, CountAttempt, Exhausted, Queue!Fail
  <1> QED
    BY <1>1, <1>4 DEF Queue!Next

LEMMA StepMoves == IInv /\ [Next]_vars => [Queue!Next]_<<state, attempts>>
  <1> SUFFICES ASSUME IInv, [Next]_vars PROVE [Queue!Next]_<<state, attempts>>
    OBVIOUS
  <1>1. ASSUME NEW e \in Events, ProduceEvent(e) PROVE Queue!Next
    BY <1>1, InsertMoves DEF ProduceEvent
  <1>2. ASSUME NEW j \in Jobs, NEW bypass \in BOOLEAN, ProduceJob(j, bypass)
        PROVE  Queue!Next
    BY <1>2, InsertMoves DEF ProduceJob
  <1>3. ASSUME NEW x \in Items, RetryElapse(x) PROVE UNCHANGED <<state, attempts>>
    BY <1>3 DEF RetryElapse
  <1>4. ASSUME NEW d \in Drains, Work(d) PROVE [Queue!Next]_<<state, attempts>>
    <2>1. ASSUME NEW x \in Items, Claim(d, x) PROVE [Queue!Next]_<<state, attempts>>
      BY <2>1, ClaimMoves
    <2>2. ASSUME NEW j \in Jobs, RouteEvent(d, j) PROVE Queue!Next
      BY <2>2, InsertMoves DEF RouteEvent
    <2>3. CASE \/ SelectEvents(d) \/ SelectJobs(d) \/ SkipEvent(d)
               \/ RecordDeliveries(d) \/ \E x \in Items : Begin(d, x)
               \/ \E recipients \in SUBSET Recipients : Resolve(d, recipients)
               \/ \E r \in Recipients : SendTo(d, r)
      BY <2>3 DEF SelectEvents, SelectJobs, SkipEvent, RecordDeliveries, Begin,
                  Resolve, SendTo, ledger
    <2> QED
      BY <1>4, <2>1, <2>2, <2>3, RescheduleMoves, MarkDoneMoves,
         MarkFailureMoves
         DEF Work
  <1>5. ASSUME NEW d \in Drains, CallFails(d) \/ Stop(d)
        PROVE  UNCHANGED <<state, attempts>>
    BY <1>5 DEF CallFails, Stop, ledger
  <1>6. CASE UNCHANGED vars
    BY <1>6 DEF vars
  <1> QED
    BY <1>1, <1>2, <1>3, <1>4, <1>5, <1>6 DEF Next

\* outbox_events and notification_jobs are worked off as queues: whatever
\* drains of worker.mjs do to a row, by claim or by id alone, is one of the
\* moves of ClaimQueue.
THEOREM WorkerImplementsQueue == Spec => ImplementsQueue
  <1>1. Init => Queue!Init
    BY DEF Init, Queue!Init
  <1> QED
    BY <1>1, StepMoves, Invariance, PTL DEF Spec, ImplementsQueue, Queue!Spec
=============================================================================
