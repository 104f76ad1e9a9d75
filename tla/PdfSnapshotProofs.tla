--------------------------- MODULE PdfSnapshotProofs ---------------------------
(***************************************************************************)
(* The safety properties of PdfSnapshot, for any number of submissions and *)
(* drains, any bounds, and with failing calls.                             *)
(*                                                                         *)
(* The argument is one of monotony.  Objects are never removed from        *)
(* Storage and the history of failures only grows, so what a drain read of *)
(* either stays a sound, if outdated, lower bound (ReadIsSound) however    *)
(* long it acts on it.                                                     *)
(***************************************************************************)
EXTENDS PdfSnapshot, TLAPS

USE SnapshotAssumption, NoDocumentAssumption, NoRowAssumption

\* The initial state: nothing is queued, nothing is in anybody's hands.
LEMMA InitInv == Init => SnapshotInv
  <1> SUFFICES ASSUME Init PROVE SnapshotInv
    OBVIOUS
  <1>1. TypeOK
    BY DEF Init, TypeOK, PdfStatuses, Stages, Statuses
  <1>2. RecordedIsStored /\ FailedAfterMaxAttempts
    BY DEF Init, RecordedIsStored, FailedAfterMaxAttempts
  <1>3. \A s \in Submissions : attempts[s] <= failures[s]
    BY DEF Init
  <1>4. \A d \in Drains : InHand(d) /\ \A row \in Held(d) : ReadIsSound(row)
    BY DEF Init, InHand, Held
  <1> QED
    BY <1>1, <1>2, <1>3, <1>4 DEF SnapshotInv

-----------------------------------------------------------------------------
\* Each action keeps the invariant.

LEMMA TransitionStep ==
  ASSUME SnapshotInv, NEW s \in Submissions, Transition(s)
  PROVE  SnapshotInv'
  BY DEF SnapshotInv, TypeOK, RecordedIsStored, FailedAfterMaxAttempts, InHand,
         Held, ReadIsSound, Transition, queue, drain, Statuses

LEMMA QueueStep ==
  ASSUME SnapshotInv, NEW s \in Submissions, QueuePdf(s)
  PROVE  SnapshotInv'
  BY DEF SnapshotInv, TypeOK, RecordedIsStored, FailedAfterMaxAttempts, InHand,
         Held, ReadIsSound, QueuePdf, drain, PdfStatuses

\* What is read now is sound now.
LEMMA SelectStep ==
  ASSUME SnapshotInv, NEW d \in Drains, Select(d)
  PROVE  SnapshotInv'
  <1>1. \A s \in Submissions : Loaded(s) \in Row /\ ReadIsSound(Loaded(s))
    BY DEF SnapshotInv, TypeOK, RecordedIsStored, Loaded, Row, ReadIsSound
  <1>2. batch' = [batch EXCEPT ![d] = {Loaded(s) : s \in Queued}]
    BY DEF Select
  <1>3. UNCHANGED <<status, queue, stored, requests, current, rendered, stage,
                    stops>>
    BY DEF Select
  <1>4. Queued \subseteq Submissions
    BY DEF Queued
  <1>5. TypeOK'
    BY <1>1, <1>2, <1>3, <1>4 DEF SnapshotInv, TypeOK, queue
  <1>6. RecordedIsStored' /\ FailedAfterMaxAttempts'
    BY <1>3 DEF SnapshotInv, RecordedIsStored, FailedAfterMaxAttempts, queue
  <1>7. \A s \in Submissions : (attempts[s] <= failures[s])'
    BY <1>3 DEF SnapshotInv, queue
  <1>8. \A e \in Drains : InHand(e)'
    BY <1>3 DEF SnapshotInv, InHand
  <1>9. ASSUME NEW e \in Drains, NEW row \in Held(e)' PROVE ReadIsSound(row)'
    <2>1. row \in Held(e) \/ \E s \in Queued : row = Loaded(s)
      BY <1>2, <1>3 DEF Held, SnapshotInv, TypeOK
    <2>2. ReadIsSound(row)
      BY <1>1, <1>4, <2>1 DEF SnapshotInv
    <2> QED
      BY <1>3, <2>2 DEF ReadIsSound, queue
  <1> QED
    BY <1>5, <1>6, <1>7, <1>8, <1>9 DEF SnapshotInv

LEMMA BeginStep ==
  ASSUME SnapshotInv, NEW d \in Drains, NEW row \in batch[d], Begin(d, row)
  PROVE  SnapshotInv'
  <1>1. row \in Row /\ row # NoRow
    BY DEF SnapshotInv, TypeOK
  <1>2. TypeOK'
    BY <1>1 DEF SnapshotInv, TypeOK, Begin, queue, Stages
  <1>3. RecordedIsStored' /\ FailedAfterMaxAttempts'
    BY DEF SnapshotInv, RecordedIsStored, FailedAfterMaxAttempts, Begin, queue
  <1>4. \A s \in Submissions : (attempts[s] <= failures[s])'
    BY DEF SnapshotInv, Begin, queue
  <1>5. \A e \in Drains : InHand(e)'
    BY <1>1 DEF SnapshotInv, TypeOK, InHand, Begin
  <1>6. ASSUME NEW e \in Drains, NEW x \in Held(e)' PROVE ReadIsSound(x)'
    <2>1. x \in Held(e)
      BY DEF Begin, Held, SnapshotInv, TypeOK
    <2> QED
      BY <2>1 DEF SnapshotInv, ReadIsSound, Begin, queue
  <1> QED
    BY <1>2, <1>3, <1>4, <1>5, <1>6 DEF SnapshotInv

\* An upload that is skipped was made when the row was read.
LEMMA RenderStep ==
  ASSUME SnapshotInv, NEW d \in Drains, Render(d)
  PROVE  SnapshotInv'
  <1>1. current[d] \in Row /\ ReadIsSound(current[d])
    BY DEF SnapshotInv, TypeOK, InHand, Held, Render
  <1>2. TypeOK'
    BY <1>1 DEF SnapshotInv, TypeOK, Render, queue, Stages, Row, Document
  <1>3. RecordedIsStored' /\ FailedAfterMaxAttempts'
    BY DEF SnapshotInv, RecordedIsStored, FailedAfterMaxAttempts, Render, queue
  <1>4. \A s \in Submissions : (attempts[s] <= failures[s])'
    BY DEF SnapshotInv, Render, queue
  <1>5. \A e \in Drains : InHand(e)'
    BY <1>1 DEF SnapshotInv, TypeOK, InHand, Render, AlreadyStored, ReadIsSound,
                Row, Document
  <1>6. \A e \in Drains : \A x \in Held(e)' : ReadIsSound(x)'
    BY DEF SnapshotInv, Held, ReadIsSound, Render, queue
  <1> QED
    BY <1>2, <1>3, <1>4, <1>5, <1>6 DEF SnapshotInv

LEMMA UploadStep ==
  ASSUME SnapshotInv, NEW d \in Drains, Upload(d)
  PROVE  SnapshotInv'
  <1>1. current[d] \in Row /\ rendered[d] \in Document
    BY DEF SnapshotInv, TypeOK, InHand, Upload
  <1> DEFINE s == current[d].submission
  <1>2. s \in Submissions
    BY <1>1 DEF Row
  <1>3. \A x \in Submissions : stored[x] \subseteq stored'[x]
    BY <1>2 DEF SnapshotInv, TypeOK, Upload
  <1>4. rendered[d] \in stored'[s]
    BY <1>2 DEF SnapshotInv, TypeOK, Upload
  <1>5. stage' = [stage EXCEPT ![d] = "record"]
        \/ stage' = [stage EXCEPT ![d] = "fail"]
    BY DEF Upload, Outcome
  <1>6. UNCHANGED <<status, queue, requests, batch, current, rendered, stops>>
    BY DEF Upload
  <1>7. TypeOK'
    <2>1. stored' \in [Submissions -> SUBSET Document]
      BY <1>1, <1>2 DEF SnapshotInv, TypeOK, Upload
    <2>2. stage' \in [Drains -> Stages]
      BY <1>5 DEF SnapshotInv, TypeOK, Stages
    <2> QED
      BY <1>6, <2>1, <2>2 DEF SnapshotInv, TypeOK, queue
  <1>8. RecordedIsStored' /\ FailedAfterMaxAttempts'
    BY <1>3, <1>6 DEF SnapshotInv, RecordedIsStored, FailedAfterMaxAttempts, queue
  <1>9. \A x \in Submissions : (attempts[x] <= failures[x])'
    BY <1>6 DEF SnapshotInv, queue
  <1>10. ASSUME NEW e \in Drains PROVE InHand(e)'
    <2>1. CASE e = d
      BY <1>1, <1>4, <1>5, <1>6, <2>1 DEF SnapshotInv, TypeOK, InHand, Upload
    <2>2. CASE e # d
      <3>1. stage'[e] = stage[e]
        BY <1>5, <2>2 DEF SnapshotInv, TypeOK
      <3>2. stage[e] = "record" => current[e] \in Row
        BY DEF SnapshotInv, TypeOK, InHand
      <3>3. stage[e] = "record" => current[e].submission \in Submissions
        BY <3>2 DEF Row
      <3> QED
        BY <1>3, <1>6, <3>1, <3>3 DEF SnapshotInv, InHand
    <2> QED
      BY <2>1, <2>2
  <1>11. ASSUME NEW e \in Drains, NEW x \in Held(e)' PROVE ReadIsSound(x)'
    <2>1. x \in Held(e) /\ x.submission \in Submissions
      BY <1>6 DEF Held, SnapshotInv, TypeOK, Row
    <2> QED
      BY <1>3, <1>6, <2>1 DEF SnapshotInv, ReadIsSound, queue
  <1> QED
    BY <1>7, <1>8, <1>9, <1>10, <1>11 DEF SnapshotInv

LEMMA FailsStep ==
  ASSUME SnapshotInv, NEW d \in Drains, Fails(d)
  PROVE  SnapshotInv'
  BY DEF SnapshotInv, TypeOK, RecordedIsStored, FailedAfterMaxAttempts, InHand,
         Held, ReadIsSound, Fails, queue, Stages

LEMMA RecordGeneratedStep ==
  ASSUME SnapshotInv, NEW d \in Drains, RecordGenerated(d)
  PROVE  SnapshotInv'
  <1> DEFINE s == current[d].submission
  <1>1. current[d] \in Row /\ rendered[d] \in Document
        /\ rendered[d] \in stored[s]
    BY DEF SnapshotInv, TypeOK, InHand, RecordGenerated
  <1>2. s \in Submissions
    BY <1>1 DEF Row
  <1>3. /\ pdfStatus' = [pdfStatus EXCEPT ![s] = "generated"]
        /\ document'  = [document EXCEPT ![s] = rendered[d]]
        /\ UNCHANGED <<status, attempts, failures, stored, requests, batch, stops>>
    BY DEF RecordGenerated
  <1>4. /\ \A e \in Drains : Held(e)' \subseteq Held(e) /\ InHand(e)'
        /\ current' \in [Drains -> Row \cup {NoRow}]
        /\ rendered' \in [Drains -> Document \cup {NoDocument}]
        /\ stage' \in [Drains -> Stages]
    <2>1. CASE RowDone(d)
      BY <1>3, <2>1 DEF SnapshotInv, TypeOK, RowDone, InHand, Held, Stages
    <2>2. CASE /\ stage' = [stage EXCEPT ![d] = "fail"]
               /\ UNCHANGED <<current, rendered>>
      BY <1>1, <1>3, <2>2 DEF SnapshotInv, TypeOK, InHand, Held, Stages
    <2> QED
      BY <2>1, <2>2 DEF RecordGenerated
  <1>5. TypeOK'
    <2>1. document' \in [Submissions -> Document \cup {NoDocument}]
      BY <1>1, <1>2, <1>3 DEF SnapshotInv, TypeOK
    <2>2. pdfStatus' \in [Submissions -> PdfStatuses]
      BY <1>2, <1>3 DEF SnapshotInv, TypeOK, PdfStatuses
    <2> QED
      BY <1>3, <1>4, <2>1, <2>2 DEF SnapshotInv, TypeOK
  <1>6. RecordedIsStored' /\ FailedAfterMaxAttempts'
    BY <1>1, <1>2, <1>3 DEF SnapshotInv, TypeOK, RecordedIsStored,
                            FailedAfterMaxAttempts
  <1>7. \A x \in Submissions : (attempts[x] <= failures[x])'
    BY <1>3 DEF SnapshotInv
  <1>8. \A e \in Drains : \A x \in Held(e)' : ReadIsSound(x)'
    BY <1>3, <1>4 DEF SnapshotInv, ReadIsSound
  <1> QED
    BY <1>4, <1>5, <1>6, <1>7, <1>8 DEF SnapshotInv

\* The count written is the one read plus one, and so at most what failed.
LEMMA RecordFailureStep ==
  ASSUME SnapshotInv, NEW d \in Drains, RecordFailure(d)
  PROVE  SnapshotInv'
  <1> DEFINE s == current[d].submission
             n == current[d].attempts + 1
  <1>1. current[d] \in Row /\ ReadIsSound(current[d])
    BY DEF SnapshotInv, TypeOK, InHand, Held, RecordFailure
  <1>2. s \in Submissions /\ n \in Nat /\ n <= failures[s] + 1
    BY <1>1 DEF Row, ReadIsSound, SnapshotInv, TypeOK
  <1>3. /\ pdfStatus' = [pdfStatus EXCEPT ![s] = IF n >= MaxAttempts THEN "failed"
                                                 ELSE "queued"]
        /\ attempts' = [attempts EXCEPT ![s] = n]
        /\ failures' = [failures EXCEPT ![s] = @ + 1]
        /\ RowDone(d)
        /\ UNCHANGED <<status, document, stored, requests, batch, stops>>
    BY DEF RecordFailure, NextAttempt, Exhausted
  <1>4. /\ \A e \in Drains : Held(e)' \subseteq Held(e) /\ InHand(e)'
        /\ current' \in [Drains -> Row \cup {NoRow}]
        /\ rendered' \in [Drains -> Document \cup {NoDocument}]
        /\ stage' \in [Drains -> Stages]
    BY <1>3 DEF SnapshotInv, TypeOK, RowDone, InHand, Held, Stages
  <1>5. TypeOK'
    <2>1. pdfStatus' \in [Submissions -> PdfStatuses]
      BY <1>2, <1>3 DEF SnapshotInv, TypeOK, PdfStatuses
    <2>2. attempts' \in [Submissions -> Nat] /\ failures' \in [Submissions -> Nat]
      BY <1>2, <1>3 DEF SnapshotInv, TypeOK
    <2> QED
      BY <1>3, <1>4, <2>1, <2>2 DEF SnapshotInv, TypeOK
  <1>6. \A x \in Submissions : failures[x] <= failures'[x]
    BY <1>2, <1>3 DEF SnapshotInv, TypeOK
  <1>7. \A x \in Submissions : attempts'[x] <= failures'[x]
    BY <1>2, <1>3 DEF SnapshotInv, TypeOK
  <1>8. RecordedIsStored'
    BY <1>2, <1>3 DEF SnapshotInv, TypeOK, RecordedIsStored
  <1>9. FailedAfterMaxAttempts'
    <2> SUFFICES ASSUME NEW x \in Submissions, pdfStatus'[x] = "failed"
                 PROVE  failures'[x] >= MaxAttempts
      BY DEF FailedAfterMaxAttempts
    <2>1. CASE x = s
      BY <1>2, <1>3, <1>7, <2>1 DEF SnapshotInv, TypeOK
    <2>2. CASE x # s
      BY <1>3, <2>2 DEF SnapshotInv, TypeOK, FailedAfterMaxAttempts
    <2> QED
      BY <2>1, <2>2
  <1>10. ASSUME NEW e \in Drains, NEW x \in Held(e)' PROVE ReadIsSound(x)'
    <2>1. x \in Held(e) /\ x \in Row
      BY <1>4 DEF Held, SnapshotInv, TypeOK
    <2>2. x.submission \in Submissions /\ x.attempts \in Nat
      BY <2>1 DEF Row
    <2>3. failures[x.submission] \in Nat /\ failures'[x.submission] \in Nat
      BY <1>5, <2>2 DEF SnapshotInv, TypeOK
    <2> QED
      BY <1>3, <1>6, <2>1, <2>2, <2>3 DEF SnapshotInv, ReadIsSound
  <1> QED
    BY <1>4, <1>5, <1>7, <1>8, <1>9, <1>10 DEF SnapshotInv

LEMMA StopStep ==
  ASSUME SnapshotInv, NEW d \in Drains, Stop(d)
  PROVE  SnapshotInv'
  <1>1. /\ batch' = [batch EXCEPT ![d] = {}]
        /\ RowDone(d)
        /\ stops' = stops + 1
        /\ UNCHANGED <<status, queue, stored, requests>>
    BY DEF Stop
  <1>2. /\ \A e \in Drains : Held(e)' \subseteq Held(e) /\ InHand(e)'
        /\ current' \in [Drains -> Row \cup {NoRow}]
        /\ rendered' \in [Drains -> Document \cup {NoDocument}]
        /\ stage' \in [Drains -> Stages]
        /\ batch' \in [Drains -> SUBSET Row]
    BY <1>1 DEF SnapshotInv, TypeOK, RowDone, InHand, Held, Stages
  <1>3. TypeOK'
    BY <1>1, <1>2 DEF SnapshotInv, TypeOK, queue
  <1> QED
    BY <1>1, <1>2, <1>3 DEF SnapshotInv, RecordedIsStored, FailedAfterMaxAttempts,
                            ReadIsSound, queue

-----------------------------------------------------------------------------

LEMMA StepInv == SnapshotInv /\ [Next]_vars => SnapshotInv'
  <1> SUFFICES ASSUME SnapshotInv, [Next]_vars PROVE SnapshotInv'
    OBVIOUS
  <1>1. CASE \E s \in Submissions : Transition(s) \/ QueuePdf(s)
    BY <1>1, TransitionStep, QueueStep
  <1>2. ASSUME NEW d \in Drains, Work(d) PROVE SnapshotInv'
    BY <1>2, SelectStep, BeginStep, RenderStep, UploadStep, RecordGeneratedStep,
       RecordFailureStep DEF Work
  <1>3. CASE \E d \in Drains : Fails(d) \/ Stop(d)
    BY <1>3, FailsStep, StopStep
  <1>4. CASE UNCHANGED vars
    BY <1>4 DEF SnapshotInv, TypeOK, RecordedIsStored, FailedAfterMaxAttempts,
                InHand, Held, ReadIsSound, vars
  <1> QED
    BY <1>1, <1>2, <1>3, <1>4 DEF Next

\* The invariant of the snapshot worker: rows outdated in the hands of a drain
\* are still sound bounds of what Storage holds and of what has failed.
THEOREM SnapshotInvariance == Spec => []SnapshotInv
  BY InitInv, StepInv, PTL DEF Spec

\* The path recorded for a report always leads to a stored object, and a
\* report that counts as generated has one.
THEOREM SnapshotStored == Spec => []RecordedIsStored
  <1>1. SnapshotInv => RecordedIsStored
    BY DEF SnapshotInv
  <1> QED
    BY <1>1, SnapshotInvariance, PTL

\* No report is given up before it failed REPORT_PDF_MAX_ATTEMPTS times,
\* although overlapping drains overwrite each other's counts.
THEOREM SnapshotGivenUp == Spec => []FailedAfterMaxAttempts
  <1>1. SnapshotInv => FailedAfterMaxAttempts
    BY DEF SnapshotInv
  <1> QED
    BY <1>1, SnapshotInvariance, PTL
=============================================================================
