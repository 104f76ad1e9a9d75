------------------------- MODULE WorkflowLedgerProofs -------------------------
(***************************************************************************)
(* Proofs about WorkflowLedger, for any number of submissions, workflows   *)
(* and drains, with every fault switched on or off.  LedgerInv is          *)
(* inductive; the safety properties are its conjuncts.                     *)
(***************************************************************************)
EXTENDS WorkflowLedger, TLAPS

USE LedgerAssumption, NoEventAssumption

\* The rows of a submission are told apart by their slot.
LEMMA EventFacts ==
  /\ \A s \in Submissions : Evaluate(s) \in Events /\ Type(Evaluate(s)) = "evaluate"
  /\ \A e \in Events : /\ e[1] \in Submissions
                       /\ Type(e) = "evaluate" => e = Evaluate(e[1])
                       /\ Type(e) \in {"evaluate"} \cup ActionTypes
  /\ \A s \in Submissions : \A e \in ActionsOf(s) : e \in Events
<1>1. \A s \in Submissions : Len(Actions[s]) \in Nat
  OBVIOUS
<1>2. \A s \in Submissions : Evaluate(s) \in Events /\ Type(Evaluate(s)) = "evaluate"
  <2> TAKE s \in Submissions
  <2>1. 0 \in 0..Len(Actions[s])
    BY <1>1
  <2>2. <<s, 0>> \in {<<s, i>> : i \in 0..Len(Actions[s])}
    BY <2>1
  <2> QED
    BY <2>2 DEF Events, Evaluate, Type
<1>3. ASSUME NEW e \in Events
      PROVE  /\ e[1] \in Submissions
             /\ Type(e) = "evaluate" => e = Evaluate(e[1])
             /\ Type(e) \in {"evaluate"} \cup ActionTypes
  <2> PICK s \in Submissions : e \in {<<s, i>> : i \in 0..Len(Actions[s])}
    BY DEF Events
  <2>1. PICK i \in 0..Len(Actions[s]) : e = <<s, i>>
    OBVIOUS
  <2>2. i # 0 => Actions[s][i] \in ActionTypes
    BY <1>1
  <2> QED
    BY <2>1, <2>2 DEF Type, Evaluate, ActionTypes, MintTypes
<1>4. \A s \in Submissions : \A e \in ActionsOf(s) : e \in Events
  BY DEF ActionsOf
<1> QED
  BY <1>2, <1>3, <1>4

LEMMA InitInv == Init => LedgerInv
<1> SUFFICES ASSUME Init PROVE LedgerInv
  OBVIOUS
<1>1. TypeOK
  BY DEF Init, TypeOK, States, Stages
<1>2. ExclusiveClaim
  BY DEF Init, ExclusiveClaim, Held
<1>3. \A d \in Drains : OneAtATime(d) /\ RecordsWhatHappened(d)
  BY DEF Init, OneAtATime, RecordsWhatHappened
<1>4. \A e \in Events : jobs[e] <= attempts[e]
  BY DEF Init
<1>5. MintedAtMostOnce /\ OneOutboxRow
  BY EventFacts DEF Init, MintedAtMostOnce, OneOutboxRow
<1>6. ProcessedMeansDone /\ NotifiedOncePerAttempt /\ FailedAfterMaxAttempts
  BY DEF Init, ProcessedMeansDone, NotifiedOncePerAttempt, FailedAfterMaxAttempts
<1> QED
  BY <1>1, <1>2, <1>3, <1>4, <1>5, <1>6 DEF LedgerInv

\* What has happened stays so: no step takes an effect or a row back, except
\* the sandbox answer, which only a new evaluation of the same report writes.
LEMMA EffectsStay ==
  ASSUME LedgerInv, NEW e \in Events, EffectOf(e),
         \A f \in Events : state[f] # "none" => state'[f] # "none",
         \A m \in Submissions \X MintTypes : minted[m] > 0 => minted'[m] > 0,
         \A f \in Events : jobs[f] > 0 => jobs'[f] > 0,
         \A s \in Submissions : pdfQueued[s] => pdfQueued'[s],
         Type(e) = "evaluate" => (sandboxed[e[1]] => sandboxed'[e[1]])
  PROVE  EffectOf(e)'
<1>1. e[1] \in Submissions
  BY EventFacts
<1>2. CASE Type(e) = "evaluate"
  BY <1>1, <1>2, EventFacts DEF EffectOf, MintTypes
<1>3. CASE Type(e) \in MintTypes
  <2>1. <<e[1], Type(e)>> \in Submissions \X MintTypes
    BY <1>1, <1>3
  <2> QED
    BY <2>1, <1>3 DEF EffectOf, MintTypes
<1>4. CASE Type(e) = "notify"
  BY <1>4 DEF EffectOf, MintTypes
<1>5. CASE Type(e) = "queue_pdf"
  BY <1>1, <1>5 DEF EffectOf, MintTypes
<1> QED
  BY <1>2, <1>3, <1>4, <1>5, EventFacts DEF ActionTypes

\* A step that keeps the ledger's rows and effects keeps what they owe to each
\* other; what is left to show of it is what it does to the drains.
LEMMA RowsKept ==
  ASSUME LedgerInv, UNCHANGED <<state, attempts, sandboxed, outbox, effects>>
  PROVE  /\ \A e \in Events : EffectOf(e) <=> EffectOf(e)'
         /\ MintedAtMostOnce' /\ OneOutboxRow' /\ ProcessedMeansDone'
         /\ NotifiedOncePerAttempt' /\ FailedAfterMaxAttempts'
<1>1. \A e \in Events : EffectOf(e) <=> EffectOf(e)'
  BY DEF effects, EffectOf
<1> QED
  BY <1>1 DEF LedgerInv, effects, MintedAtMostOnce, OneOutboxRow,
     ProcessedMeansDone, NotifiedOncePerAttempt, FailedAfterMaxAttempts

\* What a drain holds are events.
LEMMA HeldFacts ==
  ASSUME LedgerInv
  PROVE  \A d \in Drains : /\ Held(d) \subseteq Events
                           /\ NoEvent \notin Held(d)
                           /\ stage[d] # "idle" => current[d] \in Held(d)
BY DEF LedgerInv, TypeOK, Held, OneAtATime

-----------------------------------------------------------------------------
\* Selecting, claiming and starting.

LEMMA ElapseStep ==
  ASSUME LedgerInv, NEW e \in Events, Elapse(e)
  PROVE  LedgerInv'
<1> USE DEF Elapse, effects, drain
<1>1. TypeOK'
  BY DEF LedgerInv, TypeOK
<1>2. ExclusiveClaim' /\ \A d \in Drains : OneAtATime(d)'
  BY DEF LedgerInv, ExclusiveClaim, Held, OneAtATime
<1>3. \A f \in Events : ToRun(f)' => jobs'[f] <= attempts'[f]
  BY DEF LedgerInv, ToRun
<1>4. \A d \in Drains : RecordsWhatHappened(d)'
  BY DEF LedgerInv, RecordsWhatHappened, EffectOf
<1> QED
  BY <1>1, <1>2, <1>3, <1>4, RowsKept DEF LedgerInv

LEMMA SelectStep ==
  ASSUME LedgerInv, NEW d \in Drains, Select(d)
  PROVE  LedgerInv'
<1> USE DEF Select, ledger, effects
<1>1. TypeOK'
  BY DEF LedgerInv, TypeOK
<1>2. ExclusiveClaim' /\ \A c \in Drains : OneAtATime(c)'
  BY DEF LedgerInv, ExclusiveClaim, Held, OneAtATime
<1>3. \A f \in Events : ToRun(f)' => jobs'[f] <= attempts'[f]
  BY DEF LedgerInv, ToRun
<1>4. \A c \in Drains : RecordsWhatHappened(c)'
  BY DEF LedgerInv, RecordsWhatHappened, EffectOf
<1> QED
  BY <1>1, <1>2, <1>3, <1>4, RowsKept DEF LedgerInv

LEMMA ClaimStep ==
  ASSUME LedgerInv, NEW d \in Drains, NEW e \in Events, Claim(d, e)
  PROVE  LedgerInv'
<1>1. CASE ~ Claimable(e)
  <2> USE <1>1 DEF Claim, effects
  <2>1. TypeOK'
    BY DEF LedgerInv, TypeOK
  <2>2. ExclusiveClaim' /\ \A c \in Drains : OneAtATime(c)'
    BY DEF LedgerInv, ExclusiveClaim, Held, OneAtATime
  <2>3. \A f \in Events : ToRun(f)' => jobs'[f] <= attempts'[f]
    BY DEF LedgerInv, ToRun
  <2>4. \A c \in Drains : RecordsWhatHappened(c)'
    BY DEF LedgerInv, RecordsWhatHappened, EffectOf
  <2> QED
    BY <2>1, <2>2, <2>3, <2>4, RowsKept DEF LedgerInv
<1>2. CASE Claimable(e)
  <2>1. /\ state[e] = "pending"
        /\ state' = [state EXCEPT ![e] = "processing"]
        /\ claimed' = [claimed EXCEPT ![d] = @ \cup {e}]
        /\ candidates' = [candidates EXCEPT ![d] = @ \ {e}]
        /\ UNCHANGED <<attempts, due, sandboxed, outbox, minted, jobs,
                       pdfQueued, current, stage>>
    BY <1>2 DEF Claim, Claimable, effects
  <2> HIDE DEF Claim
  <2>2. TypeOK'
    BY <2>1 DEF LedgerInv, TypeOK, States
  <2>3. \A c \in Drains : e \notin Held(c)
    BY <2>1 DEF LedgerInv, ExclusiveClaim
  <2>4. /\ \A c \in Drains : c # d => Held(c)' = Held(c)
        /\ Held(d)' = Held(d) \cup {e}
    BY <2>1 DEF LedgerInv, TypeOK, Held
  <2>5. \A c \in Drains : \A f \in Held(c)' :
          state'[f] = "processing" \/ (state'[f] = state[f] /\ f \in Held(c))
    <3> TAKE c \in Drains
    <3> TAKE f \in Held(c)'
    <3>1. state'[e] = "processing"
      BY <2>1 DEF LedgerInv, TypeOK
    <3>2. f = e \/ f \in Held(c)
      BY <2>4
    <3>3. CASE f # e
      <4>1. f \in Events
        BY <3>2, <3>3, HeldFacts
      <4> QED
        BY <2>1, <3>2, <3>3, <4>1 DEF LedgerInv, TypeOK
    <3> QED
      BY <3>1, <3>3
  <2>6. ExclusiveClaim'
    <3>1. \A b, c \in Drains : b # c => Held(b)' \cap Held(c)' = {}
      BY <2>3, <2>4 DEF LedgerInv, ExclusiveClaim
    <3> QED
      BY <2>1, <2>5, <3>1 DEF LedgerInv, ExclusiveClaim
  <2>7. \A c \in Drains : OneAtATime(c)'
    BY <2>1, <2>3 DEF LedgerInv, TypeOK, OneAtATime, Held
  <2>8. \A f \in Events : ToRun(f)' => ToRun(f)
    BY <2>1 DEF LedgerInv, TypeOK, ToRun
  <2>9. \A f \in Events : EffectOf(f) => EffectOf(f)'
    BY <2>1, EffectsStay DEF LedgerInv, TypeOK
  <2>10. \A c \in Drains : RecordsWhatHappened(c)'
    BY <2>1, <2>9 DEF LedgerInv, TypeOK, RecordsWhatHappened, OneAtATime
  <2>11. MintedAtMostOnce' /\ OneOutboxRow'
    BY <2>1, EventFacts DEF LedgerInv, TypeOK, MintedAtMostOnce, OneOutboxRow
  <2>12. ProcessedMeansDone'
    BY <2>1, <2>9 DEF LedgerInv, TypeOK, ProcessedMeansDone
  <2>13. NotifiedOncePerAttempt' /\ FailedAfterMaxAttempts'
    BY <2>1 DEF LedgerInv, TypeOK, NotifiedOncePerAttempt, FailedAfterMaxAttempts
  <2> QED
    BY <2>1, <2>2, <2>6, <2>7, <2>8, <2>10, <2>11, <2>12, <2>13 DEF LedgerInv
<1> QED
  BY <1>1, <1>2

LEMMA BeginStep ==
  ASSUME LedgerInv, NEW d \in Drains, NEW e \in Events, Begin(d, e)
  PROVE  LedgerInv'
<1> USE DEF Begin, ledger, effects
<1>1. TypeOK'
  BY DEF LedgerInv, TypeOK, Stages
<1>2. \A c \in Drains : Held(c)' = Held(c)
  BY DEF LedgerInv, TypeOK, Held
<1>3. state[e] = "processing"
  BY DEF LedgerInv, ExclusiveClaim, Held, TypeOK, OneAtATime
<1>4. ExclusiveClaim'
  <2>1. \A f \in Held(d) : state[f] = "processing"
    BY HeldFacts DEF LedgerInv, ExclusiveClaim
  <2>2. \A c \in Drains : c # d => current'[c] = current[c] /\ stage'[c] = stage[c]
    BY DEF LedgerInv, TypeOK
  <2> QED
    BY <1>2, <2>1, <2>2 DEF LedgerInv, ExclusiveClaim
<1>5. \A c \in Drains : OneAtATime(c)'
  BY DEF LedgerInv, TypeOK, OneAtATime
<1>6. \A f \in Events : ToRun(f)' => jobs'[f] <= attempts'[f]
  BY DEF LedgerInv, TypeOK, ToRun
<1>7. \A c \in Drains : RecordsWhatHappened(c)'
  BY RowsKept DEF LedgerInv, TypeOK, RecordsWhatHappened, OneAtATime
<1> QED
  BY <1>1, <1>4, <1>5, <1>6, <1>7, RowsKept DEF LedgerInv

-----------------------------------------------------------------------------
\* Working on an event.

\* A drain that moves on with its event, and has not failed yet, still holds it
\* alone; nothing becomes an event to run.
LEMMA StageMoves ==
  ASSUME LedgerInv, NEW d \in Drains, stage[d] \in {"run", "insert", "record"},
         NEW x \in {"insert", "record", "retry"},
         stage' = [stage EXCEPT ![d] = x], UNCHANGED <<claimed, current>>,
         x = "insert" => Type(current[d]) = "evaluate"
  PROVE  /\ current[d] \in Events /\ state[current[d]] = "processing"
         /\ \A c \in Drains : Held(c)' = Held(c) /\ OneAtATime(c)'
         /\ UNCHANGED state =>
              /\ ExclusiveClaim'
              /\ \A e \in Events : ToRun(e)' => ToRun(e) /\ e # current[d]
<1>1. /\ current[d] \in Events /\ current[d] \in Held(d)
      /\ state[current[d]] = "processing"
  BY HeldFacts DEF LedgerInv, ExclusiveClaim
<1>2. \A c \in Drains : Held(c)' = Held(c)
  BY DEF Held
<1>3. \A c \in Drains : OneAtATime(c)'
  BY DEF LedgerInv, TypeOK, OneAtATime
<1>4. ASSUME UNCHANGED state
      PROVE  ExclusiveClaim'
  <2>1. \A f \in Held(d) : state[f] = "processing"
    BY DEF LedgerInv, ExclusiveClaim
  <2>2. \A c \in Drains : c # d => stage'[c] = stage[c]
    BY DEF LedgerInv, TypeOK
  <2> QED
    BY <1>2, <1>4, <2>1, <2>2 DEF LedgerInv, ExclusiveClaim
<1>5. ASSUME UNCHANGED state, NEW e \in Events, ToRun(e)'
      PROVE  ToRun(e) /\ e # current[d]
  <2>1. ToRun(e)
    BY <1>5 DEF LedgerInv, TypeOK, ToRun
  <2>2. ASSUME e = current[d] PROVE FALSE
    <3>1. \A c \in Drains : c # d => e \notin Held(c)
      BY <1>1, <2>2 DEF LedgerInv, ExclusiveClaim
    <3>2. \A c \in Drains : c # d => e \notin claimed[c] /\ e # current[c]
      BY <3>1 DEF Held, LedgerInv, TypeOK
    <3>3. e \notin claimed[d] /\ stage'[d] # "run"
      BY <2>2 DEF LedgerInv, TypeOK, OneAtATime
    <3> QED
      BY <1>1, <1>5, <2>2, <3>2, <3>3 DEF ToRun
  <2> QED
    BY <2>1, <2>2
<1> QED
  BY <1>1, <1>2, <1>3, <1>4, <1>5

LEMMA ExecFailsStep ==
  ASSUME LedgerInv, NEW d \in Drains, ExecFails(d)
  PROVE  LedgerInv'
<1> USE DEF ExecFails, ledger, effects
<1>1. TypeOK'
  BY DEF LedgerInv, TypeOK, Stages
<1>2. /\ ExclusiveClaim'
      /\ \A c \in Drains : OneAtATime(c)'
      /\ \A e \in Events : ToRun(e)' => jobs'[e] <= attempts'[e]
  BY StageMoves DEF LedgerInv
<1>3. \A c \in Drains : RecordsWhatHappened(c)'
  <2> TAKE c \in Drains
  <2>1. stage'[c] = "record" => stage[c] = "record"
    BY DEF LedgerInv, TypeOK
  <2>2. stage[c] = "record" => EffectOf(current[c]) /\ current[c] \in Events
    BY HeldFacts DEF LedgerInv, RecordsWhatHappened
  <2> QED
    BY <2>1, <2>2, RowsKept DEF RecordsWhatHappened
<1> QED
  BY <1>1, <1>2, <1>3, RowsKept DEF LedgerInv

\* executeEvaluate writes the sandbox answer of the report it holds, which is
\* neither recorded by another drain nor processed.
LEMMA RunEvaluateStep ==
  ASSUME LedgerInv, NEW d \in Drains, RunEvaluate(d)
  PROVE  LedgerInv'
<1>1. PICK sandbox \in BOOLEAN :
        /\ sandboxed' = [sandboxed EXCEPT ![current[d][1]] = sandbox]
        /\ stage' = [stage EXCEPT ![d] = IF sandbox THEN "record" ELSE "insert"]
  BY DEF RunEvaluate
<1>2. /\ stage[d] = "run" /\ Type(current[d]) = "evaluate"
      /\ UNCHANGED <<state, attempts, due, outbox, minted, jobs, pdfQueued,
                     candidates, claimed, current>>
  BY DEF RunEvaluate, Running, effects
<1>3. /\ current[d] \in Events /\ state[current[d]] = "processing"
      /\ ExclusiveClaim'
      /\ \A c \in Drains : Held(c)' = Held(c) /\ OneAtATime(c)'
      /\ \A e \in Events : ToRun(e)' => ToRun(e)
  <2>1. CASE sandbox
    BY <1>1, <1>2, <2>1, StageMoves
  <2>2. CASE ~ sandbox
    BY <1>1, <1>2, <2>2, StageMoves
  <2> QED
    BY <2>1, <2>2
<1>4. current[d] = Evaluate(current[d][1]) /\ current[d][1] \in Submissions
  BY <1>2, <1>3, EventFacts
<1>5. TypeOK'
  BY <1>1, <1>2, <1>4 DEF LedgerInv, TypeOK, Stages
<1>6. ASSUME NEW e \in Events, e # current[d], EffectOf(e)
      PROVE  EffectOf(e)'
  <2>1. Type(e) = "evaluate" => e[1] # current[d][1]
    BY <1>4, <1>6, EventFacts
  <2>2. Type(e) = "evaluate" => (sandboxed[e[1]] => sandboxed'[e[1]])
    BY <1>1, <1>4, <2>1 DEF LedgerInv, TypeOK
  <2> QED
    BY <1>2, <1>6, <2>2, EffectsStay
<1>7. \A c \in Drains : RecordsWhatHappened(c)'
  <2> TAKE c \in Drains
  <2> SUFFICES ASSUME stage'[c] = "record" PROVE EffectOf(current[c])'
    BY <1>2 DEF RecordsWhatHappened
  <2>1. CASE c = d
    <3>1. sandboxed'[current[d][1]]
      BY <1>1, <1>4, <2>1 DEF LedgerInv, TypeOK
    <3>2. current'[c] = current[d]
      BY <1>2, <2>1
    <3>3. Type(current'[c]) = "evaluate" /\ sandboxed'[current'[c][1]]
      BY <1>2, <3>1, <3>2
    <3> QED
      BY <3>3 DEF EffectOf, MintTypes
  <2>2. CASE c # d
    <3>1. stage[c] = "record" /\ EffectOf(current[c])
      BY <1>1, <2>2 DEF LedgerInv, TypeOK, RecordsWhatHappened
    <3>2. current[c] \in Held(c) /\ current[d] \in Held(d) /\ current[c] \in Events
      BY <1>2, <3>1, HeldFacts
    <3>3. current[c] # current[d]
      BY <2>2, <3>2 DEF LedgerInv, ExclusiveClaim
    <3> QED
      BY <1>2, <1>6, <3>1, <3>2, <3>3
  <2> QED
    BY <2>1, <2>2
<1>8. ProcessedMeansDone'
  BY <1>2, <1>3, <1>6 DEF LedgerInv, ProcessedMeansDone
<1>9. /\ \A e \in Events : ToRun(e)' => jobs'[e] <= attempts'[e]
      /\ MintedAtMostOnce' /\ OneOutboxRow'
      /\ NotifiedOncePerAttempt' /\ FailedAfterMaxAttempts'
  BY <1>2, <1>3 DEF LedgerInv, MintedAtMostOnce, OneOutboxRow,
     NotifiedOncePerAttempt, FailedAfterMaxAttempts
<1> QED
  BY <1>3, <1>5, <1>7, <1>8, <1>9 DEF LedgerInv

\* A drain that goes on to record needs the effect of its own event; the other
\* drains' events keep theirs.
LEMMA OthersRecord ==
  ASSUME LedgerInv, NEW d \in Drains, NEW x \in Stages,
         stage' = [stage EXCEPT ![d] = x], UNCHANGED current,
         \A e \in Events : EffectOf(e) => EffectOf(e)',
         x = "record" => EffectOf(current[d])'
  PROVE  \A c \in Drains : RecordsWhatHappened(c)'
<1> TAKE c \in Drains
<1> SUFFICES ASSUME stage'[c] = "record" PROVE EffectOf(current[c])'
  BY DEF RecordsWhatHappened
<1>1. CASE c = d
  BY <1>1 DEF LedgerInv, TypeOK
<1>2. CASE c # d
  <2>1. stage[c] = "record" /\ EffectOf(current[c])
    BY <1>2 DEF LedgerInv, TypeOK, RecordsWhatHappened
  <2>2. current[c] \in Events
    BY <2>1, HeldFacts
  <2> QED
    BY <2>1, <2>2
<1> QED
  BY <1>1, <1>2

LEMMA InsertActionStep ==
  ASSUME LedgerInv, NEW d \in Drains, InsertAction(d)
  PROVE  LedgerInv'
<1> DEFINE s == current[d][1]
           missing == {f \in ActionsOf(s) : state[f] = "none"}
<1>1. /\ stage[d] = "insert"
      /\ UNCHANGED <<attempts, sandboxed, outbox, minted, jobs, pdfQueued,
                     candidates, claimed, current>>
  BY DEF InsertAction, effects
<1>2. /\ Type(current[d]) = "evaluate" /\ current[d] \in Events
      /\ current[d] = Evaluate(s) /\ s \in Submissions
  BY <1>1, HeldFacts, EventFacts DEF LedgerInv, OneAtATime
<1>3. CASE AllEnqueued(s)
  <2>1. stage' = [stage EXCEPT ![d] = "record"] /\ UNCHANGED <<state, due>>
    BY <1>3 DEF InsertAction
  <2>2. TypeOK'
    BY <1>1, <2>1 DEF LedgerInv, TypeOK, Stages
  <2>3. /\ ExclusiveClaim'
        /\ \A c \in Drains : OneAtATime(c)'
        /\ \A e \in Events : ToRun(e)' => jobs'[e] <= attempts'[e]
    BY <1>1, <2>1, StageMoves DEF LedgerInv
  <2>4. EffectOf(current[d])
    BY <1>2, <1>3 DEF EffectOf, AllEnqueued, MintTypes
  <2>5. \A e \in Events : EffectOf(e) => EffectOf(e)'
    BY <1>1, <2>1, RowsKept DEF effects
  <2>6. EffectOf(current[d])'
    BY <1>1, <1>2, <2>4, <2>5
  <2>7. \A c \in Drains : RecordsWhatHappened(c)'
    BY <1>1, <2>1, <2>5, <2>6, OthersRecord DEF Stages
  <2> QED
    BY <1>1, <2>1, <2>2, <2>3, <2>7, RowsKept DEF LedgerInv, effects
<1>4. CASE ~ AllEnqueued(s)
  <2>1. PICK e \in missing :
          /\ state' = [state EXCEPT ![e] = "pending"]
          /\ due'   = [due EXCEPT ![e] = TRUE]
          /\ UNCHANGED stage
    BY <1>4 DEF InsertAction
  <2>2. e \in Events /\ state[e] = "none" /\ \A r \in Submissions : e # Evaluate(r)
    BY <1>2, EventFacts DEF ActionsOf, Evaluate
  <2> HIDE DEF missing, s
  <2>3. TypeOK'
    BY <1>1, <2>1, <2>2 DEF LedgerInv, TypeOK, States
  <2>4. \A c \in Drains : Held(c)' = Held(c) /\ OneAtATime(c)'
    BY <1>1, <2>1 DEF Held, LedgerInv, OneAtATime
  <2>5. \A f \in Events : state[f] # "none" => state'[f] = state[f]
    BY <2>1, <2>2 DEF LedgerInv, TypeOK
  <2>6. ExclusiveClaim'
    <3>1. \A c \in Drains : \A f \in Held(c) : state'[f] = state[f]
      BY <2>5, HeldFacts DEF LedgerInv, ExclusiveClaim
    <3> QED
      BY <1>1, <2>1, <2>4, <3>1 DEF LedgerInv, ExclusiveClaim
  <2>7. \A f \in Events : ToRun(f)' => ToRun(f)
    BY <1>1, <2>1, <2>2 DEF LedgerInv, TypeOK, ToRun
  <2>8. \A f \in Events : EffectOf(f) => EffectOf(f)'
    BY <1>1, <2>5, EffectsStay DEF LedgerInv, TypeOK
  <2>9. \A c \in Drains : RecordsWhatHappened(c)'
    BY <1>1, <2>1, <2>8, HeldFacts DEF LedgerInv, RecordsWhatHappened
  <2>10. MintedAtMostOnce' /\ OneOutboxRow'
    BY <1>1, <2>1, <2>2, EventFacts DEF LedgerInv, TypeOK, MintedAtMostOnce, OneOutboxRow
  <2>11. ProcessedMeansDone'
    BY <2>1, <2>2, <2>8 DEF LedgerInv, TypeOK, ProcessedMeansDone
  <2>12. NotifiedOncePerAttempt' /\ FailedAfterMaxAttempts'
    BY <1>1, <2>1, <2>2 DEF LedgerInv, TypeOK, NotifiedOncePerAttempt, FailedAfterMaxAttempts
  <2> QED
    BY <1>1, <2>3, <2>4, <2>6, <2>7, <2>9, <2>10, <2>11, <2>12 DEF LedgerInv
<1> QED
  BY <1>3, <1>4

LEMMA RunMintStep ==
  ASSUME LedgerInv, NEW d \in Drains, RunMint(d)
  PROVE  LedgerInv'
<1> DEFINE m == <<current[d][1], Type(current[d])>>
<1>1. /\ stage[d] = "run" /\ Type(current[d]) \in MintTypes
      /\ minted' = [minted EXCEPT ![m] = Minted(@)]
      /\ UNCHANGED <<state, attempts, due, sandboxed, outbox, jobs, pdfQueued,
                     candidates, claimed, current>>
  BY DEF RunMint, ledger
<1>2. PICK x \in {"record", "retry"} : stage' = [stage EXCEPT ![d] = x]
  BY DEF RunMint, Outcome
<1>3. /\ current[d] \in Events
      /\ ExclusiveClaim' /\ \A c \in Drains : OneAtATime(c)'
      /\ \A e \in Events : ToRun(e)' => ToRun(e)
  BY <1>1, <1>2, StageMoves
<1>4. m \in Submissions \X MintTypes
  BY <1>1, <1>3, EventFacts
<1> HIDE DEF m
<1>5. /\ \A n \in Submissions \X MintTypes : minted[n] > 0 => minted'[n] > 0
      /\ minted'[m] = 1 /\ MintedAtMostOnce'
      /\ minted' \in [Submissions \X MintTypes -> Nat]
  BY <1>1, <1>4 DEF LedgerInv, TypeOK, Minted, MintedAtMostOnce
<1>6. TypeOK'
  BY <1>1, <1>2, <1>5 DEF LedgerInv, TypeOK, Stages
<1>7. \A e \in Events : EffectOf(e) => EffectOf(e)'
  BY <1>1, <1>5, EffectsStay
<1>8. EffectOf(current[d])'
  <2>1. Type(current'[d]) \in MintTypes /\ minted'[<<current'[d][1], Type(current'[d])>>] > 0
    BY <1>1, <1>5 DEF m
  <2> QED
    BY <2>1 DEF EffectOf, MintTypes
<1>9. \A c \in Drains : RecordsWhatHappened(c)'
  BY <1>1, <1>2, <1>7, <1>8, OthersRecord DEF Stages
<1>10. ProcessedMeansDone'
  BY <1>1, <1>7 DEF LedgerInv, ProcessedMeansDone
<1>11. /\ \A e \in Events : ToRun(e)' => jobs'[e] <= attempts'[e]
       /\ OneOutboxRow' /\ NotifiedOncePerAttempt' /\ FailedAfterMaxAttempts'
  BY <1>1, <1>3 DEF LedgerInv, OneOutboxRow, NotifiedOncePerAttempt,
     FailedAfterMaxAttempts
<1> QED
  BY <1>3, <1>5, <1>6, <1>9, <1>10, <1>11 DEF LedgerInv

\* A notification is one more than the failures so far; its event is no longer
\* one to run.
LEMMA RunNotifyStep ==
  ASSUME LedgerInv, NEW d \in Drains, RunNotify(d)
  PROVE  LedgerInv'
<1>1. /\ stage[d] = "run" /\ Type(current[d]) = "notify"
      /\ jobs' = [jobs EXCEPT ![current[d]] = @ + 1]
      /\ UNCHANGED <<state, attempts, due, sandboxed, outbox, minted, pdfQueued,
                     candidates, claimed, current>>
  BY DEF RunNotify, Running, ledger
<1>2. PICK x \in {"record", "retry"} : stage' = [stage EXCEPT ![d] = x]
  BY DEF RunNotify, Outcome
<1>3. /\ current[d] \in Events
      /\ ExclusiveClaim' /\ \A c \in Drains : OneAtATime(c)'
      /\ \A e \in Events : ToRun(e)' => ToRun(e) /\ e # current[d]
  BY <1>1, <1>2, StageMoves
<1>4. TypeOK'
  BY <1>1, <1>2, <1>3 DEF LedgerInv, TypeOK, Stages
<1>5. \A e \in Events : jobs'[e] = IF e = current[d] THEN jobs[e] + 1 ELSE jobs[e]
  BY <1>1, <1>3 DEF LedgerInv, TypeOK
<1>6. \A e \in Events : jobs[e] \in Nat /\ attempts[e] \in Nat
  BY DEF LedgerInv, TypeOK
<1>7. jobs[current[d]] <= attempts[current[d]]
  BY <1>1, <1>3 DEF LedgerInv, ToRun
<1>8. NotifiedOncePerAttempt'
  BY <1>1, <1>5, <1>6, <1>7 DEF LedgerInv, NotifiedOncePerAttempt
<1>9. \A e \in Events : ToRun(e)' => jobs'[e] <= attempts'[e]
  BY <1>1, <1>3, <1>5 DEF LedgerInv
<1>10. \A e \in Events : EffectOf(e) => EffectOf(e)'
  <2>1. \A e \in Events : jobs[e] > 0 => jobs'[e] > 0
    BY <1>5, <1>6
  <2> QED
    BY <1>1, <2>1, EffectsStay
<1>11. EffectOf(current[d])'
  <2>1. Type(current'[d]) = "notify" /\ jobs'[current'[d]] > 0
    BY <1>1, <1>3, <1>5, <1>6
  <2> QED
    BY <2>1 DEF EffectOf, MintTypes
<1>12. \A c \in Drains : RecordsWhatHappened(c)'
  BY <1>1, <1>2, <1>10, <1>11, OthersRecord DEF Stages
<1>13. ProcessedMeansDone'
  BY <1>1, <1>10 DEF LedgerInv, ProcessedMeansDone
<1>14. MintedAtMostOnce' /\ OneOutboxRow' /\ FailedAfterMaxAttempts'
  BY <1>1 DEF LedgerInv, MintedAtMostOnce, OneOutboxRow, FailedAfterMaxAttempts
<1> QED
  BY <1>3, <1>4, <1>8, <1>9, <1>12, <1>13, <1>14 DEF LedgerInv

LEMMA RunQueuePdfStep ==
  ASSUME LedgerInv, NEW d \in Drains, RunQueuePdf(d)
  PROVE  LedgerInv'
<1>1. /\ stage[d] = "run" /\ Type(current[d]) = "queue_pdf"
      /\ pdfQueued' = [pdfQueued EXCEPT ![current[d][1]] = TRUE]
      /\ UNCHANGED <<state, attempts, due, sandboxed, outbox, minted, jobs,
                     candidates, claimed, current>>
  BY DEF RunQueuePdf, Running, ledger
<1>2. PICK x \in {"record", "retry"} : stage' = [stage EXCEPT ![d] = x]
  BY DEF RunQueuePdf, Outcome
<1>3. /\ current[d] \in Events
      /\ ExclusiveClaim' /\ \A c \in Drains : OneAtATime(c)'
      /\ \A e \in Events : ToRun(e)' => ToRun(e)
  BY <1>1, <1>2, StageMoves
<1>4. current[d][1] \in Submissions
  BY <1>3, EventFacts
<1>5. TypeOK'
  BY <1>1, <1>2, <1>4 DEF LedgerInv, TypeOK, Stages
<1>6. \A e \in Events : EffectOf(e) => EffectOf(e)'
  <2>1. \A s \in Submissions : pdfQueued[s] => pdfQueued'[s]
    BY <1>1, <1>4 DEF LedgerInv, TypeOK
  <2> QED
    BY <1>1, <2>1, EffectsStay
<1>7. EffectOf(current[d])'
  <2>1. Type(current'[d]) = "queue_pdf" /\ pdfQueued'[current'[d][1]]
    BY <1>1, <1>4 DEF LedgerInv, TypeOK
  <2> QED
    BY <2>1 DEF EffectOf, MintTypes
<1>8. \A c \in Drains : RecordsWhatHappened(c)'
  BY <1>1, <1>2, <1>6, <1>7, OthersRecord DEF Stages
<1>9. ProcessedMeansDone'
  BY <1>1, <1>6 DEF LedgerInv, ProcessedMeansDone
<1>10. /\ \A e \in Events : ToRun(e)' => jobs'[e] <= attempts'[e]
       /\ MintedAtMostOnce' /\ OneOutboxRow'
       /\ NotifiedOncePerAttempt' /\ FailedAfterMaxAttempts'
  BY <1>1, <1>3 DEF LedgerInv, MintedAtMostOnce, OneOutboxRow,
     NotifiedOncePerAttempt, FailedAfterMaxAttempts
<1> QED
  BY <1>3, <1>5, <1>8, <1>9, <1>10 DEF LedgerInv

-----------------------------------------------------------------------------
\* Recording the outcome.

\* A drain that lets go of its event, or of everything, leaves the others'
\* hold alone.
LEMMA LettingGo ==
  ASSUME LedgerInv, NEW d \in Drains, Release(d),
         \/ claimed' = claimed
         \/ claimed' = [claimed EXCEPT ![d] = {}]
  PROVE  /\ Held(d)' \subseteq Held(d) \ {current[d]}
         /\ \A c \in Drains : c # d => Held(c)' = Held(c)
         /\ \A c \in Drains : OneAtATime(c)'
         /\ current' \in [Drains -> Events \cup {NoEvent}]
         /\ stage' \in [Drains -> Stages]
         /\ claimed' \in [Drains -> SUBSET Events]
         /\ \A c \in Drains : claimed'[c] \subseteq claimed[c]
         /\ \A c \in Drains : stage'[c] # "idle" =>
               c # d /\ stage'[c] = stage[c] /\ current'[c] = current[c]
<1>1. /\ current'[d] = NoEvent /\ stage'[d] = "idle"
      /\ \A c \in Drains : c # d => /\ current'[c] = current[c]
                                   /\ stage'[c] = stage[c]
                                   /\ claimed'[c] = claimed[c]
      /\ claimed'[d] \subseteq claimed[d]
  BY DEF LedgerInv, TypeOK, Release
<1>2. Held(d)' \subseteq Held(d) \ {current[d]}
  BY <1>1 DEF Held, LedgerInv, OneAtATime
<1>3. \A c \in Drains : c # d => Held(c)' = Held(c)
  BY <1>1 DEF Held
<1>4. \A c \in Drains : OneAtATime(c)'
  BY <1>1 DEF LedgerInv, TypeOK, OneAtATime
<1>5. /\ current' \in [Drains -> Events \cup {NoEvent}]
      /\ stage' \in [Drains -> Stages]
      /\ claimed' \in [Drains -> SUBSET Events]
  BY DEF LedgerInv, TypeOK, Release, Stages
<1> QED
  BY <1>1, <1>2, <1>3, <1>4, <1>5

LEMMA AbandonStep ==
  ASSUME LedgerInv, NEW d \in Drains, Abandon(d)
  PROVE  LedgerInv'
<1>1. /\ candidates' = [candidates EXCEPT ![d] = {}]
      /\ claimed' = [claimed EXCEPT ![d] = {}]
      /\ Release(d)
      /\ UNCHANGED <<state, attempts, due, sandboxed, outbox, minted, jobs, pdfQueued>>
  BY DEF Abandon, ledger, effects
<1>2. /\ \A c \in Drains : Held(c)' \subseteq Held(c)
      /\ \A c \in Drains : OneAtATime(c)'
      /\ \A c \in Drains : stage'[c] # "idle" =>
            c # d /\ stage'[c] = stage[c] /\ current'[c] = current[c]
  BY <1>1, LettingGo
<1>3. TypeOK'
  BY <1>1, LettingGo DEF LedgerInv, TypeOK
<1>4. ExclusiveClaim'
  <2>1. \A b, c \in Drains : b # c => Held(b)' \cap Held(c)' = {}
    BY <1>2 DEF LedgerInv, ExclusiveClaim
  <2>2. ASSUME NEW c \in Drains, NEW f \in Held(c)'
        PROVE  \/ state'[f] = "processing"
               \/ state'[f] = "processed" /\ f = current'[c] /\ stage'[c] = "retry"
    <3>1. f \in Held(c)
      BY <1>2
    <3>2. c = d => f # current[d]
      BY <1>1, LettingGo
    <3>3. c # d => current'[c] = current[c] /\ stage'[c] = stage[c]
      BY <1>1 DEF Release, LedgerInv, TypeOK
    <3> QED
      BY <1>1, <3>1, <3>2, <3>3 DEF LedgerInv, ExclusiveClaim
  <2> QED
    BY <2>1, <2>2 DEF ExclusiveClaim
<1>5. \A e \in Events : ToRun(e)' => jobs'[e] <= attempts'[e]
  <2>1. \A c \in Drains : claimed'[c] \subseteq claimed[c]
    BY <1>1 DEF LedgerInv, TypeOK
  <2> QED
    BY <1>1, <1>2, <2>1 DEF LedgerInv, ToRun
<1>6. \A c \in Drains : RecordsWhatHappened(c)'
  BY <1>1, <1>2, RowsKept, HeldFacts DEF LedgerInv, RecordsWhatHappened, effects
<1> QED
  BY <1>1, <1>2, <1>3, <1>4, <1>5, <1>6, RowsKept DEF LedgerInv, effects

\* The row of the event a drain works on goes to a status in which nobody
\* holds it any more, or, acknowledged or not, to 'processed'.
LEMMA OwnRowMoves ==
  ASSUME LedgerInv, NEW d \in Drains, stage[d] \in {"record", "retry"},
         NEW x \in {"pending", "processed", "failed"},
         state' = [state EXCEPT ![current[d]] = x],
         UNCHANGED <<sandboxed, outbox, minted, jobs, pdfQueued, claimed>>,
         \/ Release(d)
         \/ /\ x = "processed" /\ UNCHANGED current
            /\ stage' = [stage EXCEPT ![d] = "retry"]
  PROVE  /\ current[d] \in Events
         /\ state[current[d]] \in {"processing", "processed"}
         /\ \A e \in Events : state'[e] = IF e = current[d] THEN x ELSE state[e]
         /\ ExclusiveClaim'
         /\ \A c \in Drains : OneAtATime(c)' /\ RecordsWhatHappened(c)'
         /\ MintedAtMostOnce' /\ OneOutboxRow'
         /\ \A e \in Events : EffectOf(e) => EffectOf(e)'
         /\ \A e \in Events : ToRun(e)' => e = current[d] \/ ToRun(e)
<1>1. /\ current[d] \in Held(d) /\ current[d] \in Events
      /\ state[current[d]] \in {"processing", "processed"}
  BY HeldFacts DEF LedgerInv, ExclusiveClaim
<1>2. \A e \in Events : state'[e] = IF e = current[d] THEN x ELSE state[e]
  BY <1>1 DEF LedgerInv, TypeOK
<1>3. \A c \in Drains : c # d => /\ Held(c)' = Held(c) /\ current[d] \notin Held(c)
                                 /\ stage'[c] = stage[c] /\ current'[c] = current[c]
  <2>1. \A c \in Drains : c # d => current[d] \notin Held(c)
    BY <1>1 DEF LedgerInv, ExclusiveClaim
  <2>2. \A c \in Drains : c # d => stage'[c] = stage[c] /\ current'[c] = current[c]
    BY DEF Release, LedgerInv, TypeOK
  <2> QED
    BY <2>1, <2>2 DEF Held
<1>4. /\ Held(d)' \subseteq Held(d)
      /\ \/ current[d] \notin Held(d)'
         \/ x = "processed" /\ current'[d] = current[d] /\ stage'[d] = "retry"
  <2>1. CASE Release(d)
    BY <2>1, LettingGo
  <2>2. CASE ~ Release(d)
    BY <2>2 DEF Held, LedgerInv, TypeOK
  <2> QED
    BY <2>1, <2>2
<1>5. ExclusiveClaim'
  <2>1. \A b, c \in Drains : b # c => Held(b)' \cap Held(c)' = {}
    BY <1>3, <1>4 DEF LedgerInv, ExclusiveClaim
  <2>2. ASSUME NEW c \in Drains, NEW f \in Held(c)'
        PROVE  \/ state'[f] = "processing"
               \/ state'[f] = "processed" /\ f = current'[c] /\ stage'[c] = "retry"
    <3>1. f \in Held(c) /\ f \in Events
      BY <1>3, <1>4, HeldFacts
    <3>2. CASE f = current[d]
      <4>1. c = d
        BY <1>3, <3>1, <3>2
      <4> QED
        BY <1>2, <1>4, <3>1, <3>2, <4>1
    <3>3. CASE f # current[d]
      <4>1. state'[f] = state[f]
        BY <1>2, <3>1, <3>3
      <4>2. \/ state[f] = "processing"
            \/ state[f] = "processed" /\ f = current[c] /\ stage[c] = "retry"
        BY <3>1 DEF LedgerInv, ExclusiveClaim
      <4> QED
        BY <1>3, <3>3, <4>1, <4>2
    <3> QED
      BY <3>2, <3>3
  <2> QED
    BY <2>1, <2>2 DEF ExclusiveClaim
<1>6. \A c \in Drains : OneAtATime(c)'
  <2>1. CASE Release(d)
    BY <2>1, LettingGo
  <2>2. CASE ~ Release(d)
    BY <2>2 DEF LedgerInv, TypeOK, OneAtATime
  <2> QED
    BY <2>1, <2>2
<1>7. \A e \in Events : EffectOf(e) => EffectOf(e)'
  BY <1>1, <1>2, EffectsStay
<1>8. \A c \in Drains : RecordsWhatHappened(c)'
  <2> TAKE c \in Drains
  <2> SUFFICES ASSUME stage'[c] = "record" PROVE EffectOf(current[c])'
    BY DEF RecordsWhatHappened
  <2>1. c # d
    BY DEF Release, LedgerInv, TypeOK
  <2>2. stage[c] = "record" /\ current'[c] = current[c]
    BY <1>3, <2>1
  <2> QED
    BY <1>7, <2>2, HeldFacts DEF LedgerInv, RecordsWhatHappened
<1>9. MintedAtMostOnce' /\ OneOutboxRow'
  <2>1. \A s \in Submissions : state'[Evaluate(s)] = "none" <=> state[Evaluate(s)] = "none"
    BY <1>1, <1>2, EventFacts
  <2> QED
    BY <2>1 DEF LedgerInv, MintedAtMostOnce, OneOutboxRow
<1>10. ASSUME NEW e \in Events, ToRun(e)', e # current[d] PROVE ToRun(e)
  <2>1. \A c \in Drains : stage'[c] = "run" => stage[c] = "run" /\ current'[c] = current[c]
    BY <1>3 DEF Release, LedgerInv, TypeOK
  <2> QED
    BY <1>2, <1>10, <2>1 DEF ToRun
<1> QED
  BY <1>1, <1>2, <1>5, <1>6, <1>7, <1>8, <1>9, <1>10

LEMMA MarkProcessedStep ==
  ASSUME LedgerInv, NEW d \in Drains, MarkProcessed(d)
  PROVE  LedgerInv'
<1>1. /\ stage[d] = "record"
      /\ state' = [state EXCEPT ![current[d]] = "processed"]
      /\ \/ Release(d)
         \/ UNCHANGED current /\ stage' = [stage EXCEPT ![d] = "retry"]
      /\ UNCHANGED <<attempts, due, sandboxed, outbox, minted, jobs, pdfQueued,
                     candidates, claimed>>
  BY DEF MarkProcessed, effects
<1>2. /\ current[d] \in Events
      /\ state[current[d]] \in {"processing", "processed"}
      /\ \A e \in Events : state'[e] = IF e = current[d] THEN "processed" ELSE state[e]
      /\ ExclusiveClaim'
      /\ \A c \in Drains : OneAtATime(c)' /\ RecordsWhatHappened(c)'
      /\ MintedAtMostOnce' /\ OneOutboxRow'
      /\ \A e \in Events : EffectOf(e) => EffectOf(e)'
      /\ \A e \in Events : ToRun(e)' => e = current[d] \/ ToRun(e)
  BY <1>1, OwnRowMoves
<1>3. TypeOK'
  BY <1>1, <1>2 DEF LedgerInv, TypeOK, States, Stages, Release
<1>4. ASSUME NEW e \in Events, e = current[d] PROVE ~ ToRun(e)'
  <2>1. state'[e] = "processed"
    BY <1>2, <1>4
  <2>2. ASSUME NEW c \in Drains
        PROVE  e \notin claimed'[c] /\ (e = current'[c] => stage'[c] # "run")
    <3>1. e \in Held(c)' => e = current'[c] /\ stage'[c] = "retry"
      BY <1>2, <2>1 DEF ExclusiveClaim
    <3>2. e \in claimed'[c] \/ e = current'[c] => e \in Held(c)'
      BY <1>4 DEF Held
    <3>3. current'[c] \notin claimed'[c]
      BY <1>2 DEF OneAtATime
    <3> QED
      BY <3>1, <3>2, <3>3
  <2> QED
    BY <2>1, <2>2 DEF ToRun
<1>5. \A e \in Events : ToRun(e)' => jobs'[e] <= attempts'[e]
  <2> TAKE e \in Events
  <2>1. ToRun(e)' => ToRun(e)
    BY <1>2, <1>4
  <2> QED
    BY <1>1, <2>1 DEF LedgerInv
<1>6. ProcessedMeansDone'
  <2>1. EffectOf(current[d])
    BY <1>1 DEF LedgerInv, RecordsWhatHappened
  <2> QED
    BY <1>2, <2>1 DEF LedgerInv, ProcessedMeansDone
<1>7. NotifiedOncePerAttempt' /\ FailedAfterMaxAttempts'
  BY <1>1, <1>2 DEF LedgerInv, NotifiedOncePerAttempt, FailedAfterMaxAttempts
<1> QED
  BY <1>2, <1>3, <1>5, <1>6, <1>7 DEF LedgerInv

LEMMA MarkFailureStep ==
  ASSUME LedgerInv, NEW d \in Drains, MarkFailure(d)
  PROVE  LedgerInv'
<1> DEFINE n == attempts[current[d]] + 1
           x == IF n >= MaxAttempts THEN "failed" ELSE "pending"
<1>0. x \in {"pending", "failed"}
  OBVIOUS
<1>1. /\ stage[d] = "retry" /\ Release(d)
      /\ attempts' = [attempts EXCEPT ![current[d]] = n]
      /\ state' = [state EXCEPT ![current[d]] = x]
      /\ due' = due \/ due' = [due EXCEPT ![current[d]] = FALSE]
      /\ UNCHANGED <<sandboxed, outbox, minted, jobs, pdfQueued, candidates, claimed>>
  BY DEF MarkFailure, CountAttempt, Exhausted, effects
<1> HIDE DEF x
<1>2. /\ current[d] \in Events
      /\ state[current[d]] \in {"processing", "processed"}
      /\ \A e \in Events : state'[e] = IF e = current[d] THEN x ELSE state[e]
      /\ ExclusiveClaim'
      /\ \A c \in Drains : OneAtATime(c)' /\ RecordsWhatHappened(c)'
      /\ MintedAtMostOnce' /\ OneOutboxRow'
      /\ \A e \in Events : EffectOf(e) => EffectOf(e)'
      /\ \A e \in Events : ToRun(e)' => e = current[d] \/ ToRun(e)
  <2>1. /\ stage[d] \in {"record", "retry"} /\ Release(d)
        /\ x \in {"pending", "processed", "failed"}
        /\ state' = [state EXCEPT ![current[d]] = x]
        /\ UNCHANGED <<sandboxed, outbox, minted, jobs, pdfQueued, claimed>>
    BY <1>0, <1>1
  <2> HIDE DEF n
  <2> QED
    BY <2>1, OwnRowMoves
<1>3. attempts[current[d]] \in 0..(MaxAttempts - 1)
  BY <1>2 DEF LedgerInv, TypeOK, FailedAfterMaxAttempts
<1>4. /\ n \in 0..MaxAttempts /\ n \in Nat
      /\ x = "failed" <=> n = MaxAttempts
  BY <1>3 DEF x
<1> HIDE DEF n
<1>5. \A e \in Events : attempts'[e] = IF e = current[d] THEN n ELSE attempts[e]
  BY <1>1, <1>2 DEF LedgerInv, TypeOK
<1>6. TypeOK'
  <2>1. attempts' \in [Events -> 0..MaxAttempts]
    BY <1>1, <1>4 DEF LedgerInv, TypeOK
  <2>2. state' \in [Events -> States] /\ due' \in [Events -> BOOLEAN]
    BY <1>0, <1>1 DEF LedgerInv, TypeOK, States
  <2>3. /\ current' \in [Drains -> Events \cup {NoEvent}]
        /\ stage' \in [Drains -> Stages]
    BY <1>1, LettingGo
  <2> QED
    BY <1>1, <2>1, <2>2, <2>3 DEF LedgerInv, TypeOK
<1>7. \A e \in Events : jobs[e] \in Nat /\ attempts[e] \in Nat
  BY DEF LedgerInv, TypeOK
<1>8. \A e \in Events : jobs[e] <= attempts[e] + 1
  BY DEF LedgerInv, NotifiedOncePerAttempt
<1>9. jobs[current[d]] <= n
  BY <1>2, <1>8 DEF n
<1>10. \A e \in Events : ToRun(e)' => jobs'[e] <= attempts'[e]
  <2> TAKE e \in Events
  <2>1. CASE e = current[d]
    BY <1>1, <1>5, <1>9, <2>1
  <2>2. CASE e # current[d]
    BY <1>1, <1>2, <1>5, <2>2 DEF LedgerInv
  <2> QED
    BY <2>1, <2>2
<1>11. ProcessedMeansDone'
  BY <1>0, <1>2 DEF LedgerInv, ProcessedMeansDone
<1>12. NotifiedOncePerAttempt'
  <2> SUFFICES ASSUME NEW e \in Events PROVE jobs'[e] <= attempts'[e] + 1
    BY DEF NotifiedOncePerAttempt
  <2>1. CASE e = current[d]
    BY <1>1, <1>4, <1>5, <1>7, <1>9, <2>1
  <2>2. CASE e # current[d]
    BY <1>1, <1>5, <1>8, <2>2
  <2> QED
    BY <2>1, <2>2
<1>13. FailedAfterMaxAttempts'
  BY <1>2, <1>4, <1>5 DEF LedgerInv, FailedAfterMaxAttempts
<1> QED
  BY <1>2, <1>6, <1>10, <1>11, <1>12, <1>13 DEF LedgerInv

-----------------------------------------------------------------------------

LEMMA EnqueueStep ==
  ASSUME LedgerInv, NEW s \in Submissions, Enqueue(s)
  PROVE  LedgerInv'
<1> DEFINE e == Evaluate(s)
           inserted == state[e] = "none"
<1>1. /\ state' = [state EXCEPT ![e] = IF inserted THEN "pending" ELSE @]
      /\ due' = [due EXCEPT ![e] = @ \/ inserted]
      /\ outbox' = [outbox EXCEPT ![s] = IF inserted THEN @ + 1 ELSE @]
      /\ UNCHANGED <<attempts, sandboxed, minted, jobs, pdfQueued,
                     candidates, claimed, current, stage>>
  BY DEF Enqueue, effects, drain
<1>2. e \in Events /\ e[1] = s
  BY EventFacts DEF Evaluate
<1>3. \A f \in Events : /\ state[f] # "none" => state'[f] = state[f]
                        /\ state'[f] = state[f]
                           \/ (f = e /\ state[f] = "none" /\ state'[f] = "pending")
  BY <1>1, <1>2 DEF LedgerInv, TypeOK
<1>4. TypeOK'
  BY <1>1, <1>2 DEF LedgerInv, TypeOK, States
<1>5. \A c \in Drains : Held(c)' = Held(c) /\ OneAtATime(c)'
  BY <1>1 DEF Held, LedgerInv, OneAtATime
<1>6. ExclusiveClaim'
  <2>1. \A c \in Drains : \A f \in Held(c) : state'[f] = state[f]
    BY <1>3, HeldFacts DEF LedgerInv, ExclusiveClaim
  <2> QED
    BY <1>1, <1>5, <2>1 DEF LedgerInv, ExclusiveClaim
<1>7. \A f \in Events : ToRun(f)' => ToRun(f)
  BY <1>1, <1>3 DEF ToRun
<1>8. \A f \in Events : EffectOf(f) => EffectOf(f)'
  BY <1>1, <1>3, EffectsStay
<1>9. \A c \in Drains : RecordsWhatHappened(c)'
  BY <1>1, <1>8, HeldFacts DEF LedgerInv, RecordsWhatHappened
<1>10. OneOutboxRow'
  <2>1. \A r \in Submissions : r # s => Evaluate(r) # e /\ outbox'[r] = outbox[r]
    BY <1>1 DEF Evaluate, LedgerInv, TypeOK
  <2>2. /\ state'[e] # "none"
        /\ outbox'[s] = 1
    BY <1>1, <1>2 DEF LedgerInv, TypeOK, OneOutboxRow
  <2>3. \A r \in Submissions : r # s => state'[Evaluate(r)] = state[Evaluate(r)]
    BY <1>3, <2>1, EventFacts
  <2> QED
    BY <2>1, <2>2, <2>3 DEF LedgerInv, OneOutboxRow
<1>11. ProcessedMeansDone'
  BY <1>3, <1>8 DEF LedgerInv, ProcessedMeansDone
<1>12. MintedAtMostOnce' /\ NotifiedOncePerAttempt' /\ FailedAfterMaxAttempts'
  BY <1>1, <1>3 DEF LedgerInv, MintedAtMostOnce, NotifiedOncePerAttempt,
     FailedAfterMaxAttempts
<1> QED
  BY <1>1, <1>4, <1>5, <1>6, <1>7, <1>9, <1>10, <1>11, <1>12 DEF LedgerInv

\* LedgerInv is an invariant: one case per action.
THEOREM LedgerInvariance == Spec => []LedgerInv
<1>1. LedgerInv /\ [Next]_vars => LedgerInv'
  <2> SUFFICES ASSUME LedgerInv, [Next]_vars PROVE LedgerInv'
    OBVIOUS
  <2>1. ASSUME NEW s \in Submissions, Enqueue(s) PROVE LedgerInv'
    BY <2>1, EnqueueStep
  <2>2. ASSUME NEW e \in Events, Elapse(e) PROVE LedgerInv'
    BY <2>2, ElapseStep
  <2>3. ASSUME NEW d \in Drains, Work(d) PROVE LedgerInv'
    BY <2>3, SelectStep, ClaimStep, BeginStep, RunEvaluateStep,
       InsertActionStep, RunMintStep, RunNotifyStep, RunQueuePdfStep,
       MarkProcessedStep, MarkFailureStep DEF Work
  <2>4. ASSUME NEW d \in Drains, ExecFails(d) \/ MarkFails(d) \/ Crash(d)
        PROVE  LedgerInv'
    BY <2>4, ExecFailsStep, AbandonStep DEF MarkFails, Crash
  <2>5. CASE UNCHANGED vars
    <3> USE <2>5 DEF vars
    <3>1. TypeOK'
      BY DEF LedgerInv, TypeOK
    <3>2. ExclusiveClaim' /\ \A d \in Drains : OneAtATime(d)'
      BY DEF LedgerInv, ExclusiveClaim, Held, OneAtATime
    <3>3. \A e \in Events : ToRun(e)' => jobs'[e] <= attempts'[e]
      BY DEF LedgerInv, ToRun
    <3>4. \A d \in Drains : RecordsWhatHappened(d)'
      BY DEF LedgerInv, RecordsWhatHappened, EffectOf
    <3> QED
      BY <3>1, <3>2, <3>3, <3>4, RowsKept DEF LedgerInv, effects
  <2> QED
    BY <2>1, <2>2, <2>3, <2>4, <2>5 DEF Next
<1> QED
  BY InitInv, <1>1, PTL DEF Spec

\* The variables keep their types; no attempt is counted past MaxAttempts.
THEOREM LedgerTypeCorrect == Spec => []TypeOK
BY LedgerInvariance, PTL DEF LedgerInv

\* However many drains overlap, fail or stop, the claim is exclusive.
THEOREM Exclusion == Spec => []ExclusiveClaim
BY LedgerInvariance, PTL DEF LedgerInv

\* A submission's workflow never mints a second incident or work order.
THEOREM MintOnce == Spec => []MintedAtMostOnce
BY LedgerInvariance, PTL DEF LedgerInv

\* The evaluate event and the outbox row are inserted together, once.
THEOREM OutboxOnce == Spec => []OneOutboxRow
BY LedgerInvariance, PTL DEF LedgerInv

\* 'processed' is never written for an action that did not happen.
THEOREM ProcessedTruthful == Spec => []ProcessedMeansDone
BY LedgerInvariance, PTL DEF LedgerInv

\* Notifications are bounded by attempts, and attempts by MaxAttempts.
THEOREM NotificationBound == Spec => [](NotifiedOncePerAttempt /\ FailedAfterMaxAttempts)
BY LedgerInvariance, PTL DEF LedgerInv

-----------------------------------------------------------------------------
\* The refinement of ClaimQueue: what each step does to a row.

QueueRows == [e \in Events |-> QueueState(state[e])]

LEMMA RowMoves ==
  ASSUME NEW e \in Events, NEW to, state \in [Events -> States],
         state' = [state EXCEPT ![e] = to]
  PROVE  QueueRows' = [QueueRows EXCEPT ![e] = QueueState(to)]
<1>1. \A f \in Events : state'[f] = IF f = e THEN to ELSE state[f]
  OBVIOUS
<1> QED
  BY <1>1 DEF QueueRows

\* The rows that a step of the executor inserts, claims and records.
LEMMA RowInserted ==
  ASSUME NEW e \in Events, state \in [Events -> States], state[e] = "none",
         state' = [state EXCEPT ![e] = "pending"], UNCHANGED attempts
  PROVE  Queue!Next
<1>1. QueueRows' = [QueueRows EXCEPT ![e] = "pending"] /\ QueueRows[e] = "none"
  BY RowMoves DEF QueueRows, QueueState
<1>2. Queue!Move(e, "none", "pending")
  BY <1>1 DEF Queue!Move, QueueRows
<1> QED
  BY <1>2 DEF Queue!Next

LEMMA RowClaimed ==
  ASSUME state \in [Events -> States], NEW d \in Drains, NEW e \in Events, Claim(d, e)
  PROVE  [Queue!Next]_<<QueueRows, attempts>>
<1>1. CASE Claimable(e)
  <2>1. /\ state[e] = "pending" /\ attempts' = attempts
        /\ state' = [state EXCEPT ![e] = "processing"]
    BY <1>1 DEF Claim, Claimable
  <2>2. QueueRows' = [QueueRows EXCEPT ![e] = "processing"] /\ QueueRows[e] = "pending"
    BY <2>1, RowMoves DEF QueueRows, QueueState
  <2>3. Queue!Move(e, "pending", "processing")
    BY <2>1, <2>2 DEF Queue!Move, QueueRows
  <2> QED
    BY <2>3 DEF Queue!Next
<1>2. CASE ~ Claimable(e)
  BY <1>2 DEF Claim, QueueRows
<1> QED
  BY <1>1, <1>2

LEMMA RowProcessed ==
  ASSUME LedgerInv, NEW d \in Drains, MarkProcessed(d)
  PROVE  Queue!Next
<1> DEFINE e == current[d]
<1>1. /\ e \in Events /\ state \in [Events -> States] /\ state[e] = "processing"
  BY DEF LedgerInv, TypeOK, OneAtATime, ExclusiveClaim, Held, MarkProcessed
<1>2. state' = [state EXCEPT ![e] = "processed"] /\ attempts' = attempts
  BY DEF MarkProcessed
<1>3. QueueRows' = [QueueRows EXCEPT ![e] = "done"] /\ QueueRows[e] = "processing"
  BY <1>1, <1>2, RowMoves DEF QueueRows, QueueState
<1>4. Queue!Move(e, "processing", "done")
  BY <1>2, <1>3 DEF Queue!Move, QueueRows
<1> QED
  BY <1>1, <1>4 DEF Queue!Next

\* The failure that is counted last is the one that is final.
LEMMA RowFailed ==
  ASSUME LedgerInv, NEW d \in Drains, MarkFailure(d)
  PROVE  Queue!Next
<1> DEFINE e == current[d]
<1>1. /\ e \in Events /\ state \in [Events -> States]
      /\ state[e] \in {"processing", "processed"}
  BY DEF LedgerInv, TypeOK, OneAtATime, ExclusiveClaim, Held, MarkFailure
<1>2. attempts[e] \in Nat /\ attempts[e] < MaxAttempts
  BY <1>1 DEF LedgerInv, TypeOK, FailedAfterMaxAttempts
<1>3. PICK to : /\ to = IF attempts[e] + 1 = MaxAttempts THEN "failed" ELSE "pending"
                /\ state' = [state EXCEPT ![e] = to]
                /\ attempts' = [attempts EXCEPT ![e] = attempts[e] + 1]
  BY <1>2 DEF MarkFailure, CountAttempt, Exhausted
<1>4. /\ QueueRows' = [QueueRows EXCEPT ![e] = QueueState(to)]
      /\ QueueRows[e] \in {"processing", "done"}
  BY <1>1, <1>3, RowMoves DEF QueueRows, QueueState
<1>5. QueueState(to) = IF attempts[e] + 1 = MaxAttempts THEN "dead" ELSE "pending"
  BY <1>3 DEF QueueState
<1>6. Queue!Fail(e)
  BY <1>2, <1>3, <1>4, <1>5 DEF Queue!Fail, QueueRows
<1> QED
  BY <1>1, <1>6 DEF Queue!Next

LEMMA LedgerMoves == LedgerInv /\ [Next]_vars => [Queue!Next]_<<QueueRows, attempts>>
<1> SUFFICES ASSUME LedgerInv, [Next]_vars PROVE [Queue!Next]_<<QueueRows, attempts>>
  OBVIOUS
<1>1. state \in [Events -> States]
  BY DEF LedgerInv, TypeOK
<1>2. state' = state /\ attempts' = attempts => UNCHANGED <<QueueRows, attempts>>
  BY DEF QueueRows
<1>3. ASSUME NEW s \in Submissions, Enqueue(s)
      PROVE  [Queue!Next]_<<QueueRows, attempts>>
  <2>1. Evaluate(s) \in Events /\ attempts' = attempts
    BY <1>3, EventFacts DEF Enqueue
  <2>2. CASE state[Evaluate(s)] = "none"
    <3>1. state' = [state EXCEPT ![Evaluate(s)] = "pending"]
      BY <1>3, <2>2 DEF Enqueue
    <3> QED
      BY <1>1, <2>1, <2>2, <3>1, RowInserted
  <2>3. CASE state[Evaluate(s)] # "none"
    <3>1. state' = state
      BY <1>1, <1>3, <2>3 DEF Enqueue
    <3> QED
      BY <1>2, <2>1, <3>1
  <2> QED
    BY <2>2, <2>3
<1>4. ASSUME NEW d \in Drains, InsertAction(d)
      PROVE  [Queue!Next]_<<QueueRows, attempts>>
  <2>1. CASE state' = state
    BY <1>2, <1>4, <2>1 DEF InsertAction
  <2>2. CASE state' # state
    <3>1. PICK e \in ActionsOf(current[d][1]) :
            state[e] = "none" /\ state' = [state EXCEPT ![e] = "pending"]
      BY <1>4, <2>2 DEF InsertAction
    <3>2. e \in Events
      BY DEF ActionsOf
    <3> QED
      BY <1>1, <1>4, <3>1, <3>2, RowInserted DEF InsertAction
  <2> QED
    BY <2>1, <2>2
<1>5. ASSUME NEW d \in Drains, NEW e \in Events, Claim(d, e)
      PROVE  [Queue!Next]_<<QueueRows, attempts>>
  BY <1>1, <1>5, RowClaimed
<1>6. ASSUME NEW d \in Drains, MarkProcessed(d) \/ MarkFailure(d)
      PROVE  [Queue!Next]_<<QueueRows, attempts>>
  BY <1>6, RowProcessed, RowFailed
<1>7. ASSUME NEW d \in Drains,
             \/ Select(d) \/ RunEvaluate(d) \/ RunMint(d) \/ RunNotify(d)
             \/ RunQueuePdf(d) \/ ExecFails(d) \/ MarkFails(d) \/ Crash(d)
             \/ \E e \in Events : Begin(d, e)
      PROVE  UNCHANGED <<QueueRows, attempts>>
  BY <1>2, <1>7 DEF Select, RunEvaluate, RunMint, RunNotify, RunQueuePdf, ExecFails,
                    MarkFails, Crash, Abandon, Begin, ledger
<1>8. ASSUME NEW e \in Events, Elapse(e)
      PROVE  UNCHANGED <<QueueRows, attempts>>
  BY <1>2, <1>8 DEF Elapse
<1>9. CASE UNCHANGED vars
  BY <1>2, <1>9 DEF vars
<1> QED
  BY <1>3, <1>4, <1>5, <1>6, <1>7, <1>8, <1>9 DEF Next, Work

\* The ledger implements ClaimQueue: with every fault, stop and overlap, an event
\* only makes the moves of a row that is claimed, retried and given up once
\* (report-workflow-executor.mjs, claimDueReportWorkflowEvents to markFailure).
THEOREM LedgerImplementsQueue == Spec => ImplementsQueue
<1>1. Init => Queue!Init
  BY DEF Init, Queue!Init, QueueState
<1>2. Spec => [][Queue!Next]_<<QueueRows, attempts>>
  BY LedgerInvariance, LedgerMoves, PTL DEF Spec
<1> QED
  BY <1>1, <1>2, PTL DEF Spec, ImplementsQueue, Queue!Spec, QueueRows
=============================================================================
