------------------------------ MODULE PdfSnapshot ------------------------------
(***************************************************************************)
(* The archived PDF of a submitted report: report-pdf-worker.mjs.          *)
(*                                                                         *)
(* report_submissions.pdf_status is the queue.  A drain reads every queued *)
(* row and works the rows off one after the other: it renders the row as   *)
(* it read it, uploads the document under a path made of its hash, and     *)
(* records it.  Unlike in the workflow ledger nothing is claimed, and      *)
(* every update is by id alone, so overlapping drains work on the same row *)
(* with what each of them read.                                            *)
(*                                                                         *)
(* The answers of a submitted report are final (ReportLifecycle).  Of what *)
(* the document shows, the model lets the report's status change; the      *)
(* names the worker joins to the row (facility, department, template,      *)
(* submitter) are taken as fixed.                                          *)
(***************************************************************************)
EXTENDS Naturals, FiniteSets

CONSTANTS
  Submissions,  \* submitted reports
  Drains,       \* runs of the drain that can overlap
  MaxAttempts,  \* REPORT_PDF_MAX_ATTEMPTS
  Faults,       \* a call of an attempt may fail
  MaxRequests,  \* bound: times a report is put on the queue
  MaxStops,     \* bound: drains that stop in the middle
  NoDocument, NoRow

ASSUME SnapshotAssumption ==
  /\ MaxAttempts \in Nat \ {0}
  /\ Faults \in BOOLEAN
  /\ MaxRequests \in Nat /\ MaxStops \in Nat

Statuses == {"submitted", "locked", "revised"}

\* A document is known by its hash (its path carries the first characters of
\* it), and the hash differs between two attempts just when the status does.
Document == Statuses

ASSUME NoDocumentAssumption == NoDocument \notin Document

\* A row as the select of a drain returns it.
Row == [submission : Submissions, status : Statuses,
        document : Document \cup {NoDocument}, attempts : Nat]

ASSUME NoRowAssumption == NoRow \notin Row

VARIABLES
  status,     \* report_submissions.status
  pdfStatus,  \* report_submissions.pdf_status
  document,   \* pdf_content_hash, and with it pdf_storage_path
  attempts,   \* pdf_attempts
  stored,     \* objects in Storage under the submission's prefix
  requests,   \* times executeQueuePdf ran for the submission
  failures,   \* history: failed attempts that were recorded
  batch,      \* rows a drain read and has not started
  current,    \* the row a drain works on
  rendered,   \* the document it made of it
  stage,      \* its next call
  stops       \* drains that stopped so far

queue  == <<pdfStatus, document, attempts, failures>>
drain  == <<batch, current, rendered, stage>>
vars == <<status, pdfStatus, document, attempts, stored, requests,
          failures, batch, current, rendered, stage, stops>>

Init ==
  /\ status    = [s \in Submissions |-> "submitted"]
  /\ pdfStatus = [s \in Submissions |-> "not_requested"]
  /\ document  = [s \in Submissions |-> NoDocument]
  /\ attempts  = [s \in Submissions |-> 0]
  /\ stored    = [s \in Submissions |-> {}]
  /\ requests  = [s \in Submissions |-> 0]
  /\ failures  = [s \in Submissions |-> 0]
  /\ batch     = [d \in Drains |-> {}]
  /\ current   = [d \in Drains |-> NoRow]
  /\ rendered  = [d \in Drains |-> NoDocument]
  /\ stage     = [d \in Drains |-> "idle"]
  /\ stops     = 0

-----------------------------------------------------------------------------
\* What goes on around the worker.

\* The lock and revise routes, which the transition guard keeps in this order.
Transition(s) ==
  /\ \/ status[s] = "submitted" /\ status' = [status EXCEPT ![s] = "locked"]
     \/ status[s] # "revised"   /\ status' = [status EXCEPT ![s] = "revised"]
  /\ UNCHANGED <<queue, stored, requests, drain, stops>>

\* executeQueuePdf, once for each queue_pdf action and each of its retries: it
\* looks at nothing and leaves the attempts as they are.
QueuePdf(s) ==
  /\ requests[s] < MaxRequests
  /\ requests'  = [requests EXCEPT ![s] = @ + 1]
  /\ pdfStatus' = [pdfStatus EXCEPT ![s] = "queued"]
  /\ UNCHANGED <<status, document, attempts, failures, stored, drain, stops>>

-----------------------------------------------------------------------------
\* processReportPdfJobs and processOne.

\* Variant of Queued: a report that failed once is not looked at again.
QueuedUntried == {s \in Submissions : pdfStatus[s] = "queued" /\ attempts[s] = 0}

Queued == {s \in Submissions : pdfStatus[s] = "queued"}

Loaded(s) == [submission |-> s, status |-> status[s],
              document |-> document[s], attempts |-> attempts[s]]

Idle(d) == batch[d] = {} /\ stage[d] = "idle"

Select(d) ==
  /\ Idle(d)
  /\ Queued # {}
  /\ batch' = [batch EXCEPT ![d] = {Loaded(s) : s \in Queued}]
  /\ UNCHANGED <<status, queue, stored, requests, current, rendered, stage, stops>>

Begin(d, row) ==
  /\ stage[d] = "idle" /\ row \in batch[d]
  /\ batch'   = [batch EXCEPT ![d] = @ \ {row}]
  /\ current' = [current EXCEPT ![d] = row]
  /\ stage'   = [stage EXCEPT ![d] = "render"]
  /\ UNCHANGED <<status, queue, stored, requests, rendered, stops>>

\* Variant of AlreadyStored: any earlier snapshot will do.
StoredBefore(row, doc) == row.document # NoDocument

\* The upload is skipped when the row names this very document.
AlreadyStored(row, doc) == row.document = doc

\* loadSnapshotInputs and buildReportSnapshotPdfPackage: the document shows
\* the status the select returned.
Render(d) ==
  LET doc == current[d].status IN
  /\ stage[d] = "render"
  /\ rendered' = [rendered EXCEPT ![d] = doc]
  /\ stage'    = [stage EXCEPT ![d] = IF AlreadyStored(current[d], doc)
                                      THEN "record" ELSE "upload"]
  /\ UNCHANGED <<status, queue, stored, requests, batch, current, stops>>

\* A call that took effect may still look failed to the worker.
Outcome(d, next) ==
  \/ stage' = [stage EXCEPT ![d] = next]
  \/ Faults /\ stage' = [stage EXCEPT ![d] = "fail"]

Upload(d) ==
  /\ stage[d] = "upload"
  /\ stored' = [stored EXCEPT ![current[d].submission] = @ \cup {rendered[d]}]
  /\ Outcome(d, "record")
  /\ UNCHANGED <<status, queue, requests, batch, current, rendered, stops>>

Fails(d) ==
  /\ Faults
  /\ stage[d] \in {"render", "upload", "record"}
  /\ stage' = [stage EXCEPT ![d] = "fail"]
  /\ UNCHANGED <<status, queue, stored, requests, batch, current, rendered, stops>>

RowDone(d) ==
  /\ current'  = [current EXCEPT ![d] = NoRow]
  /\ rendered' = [rendered EXCEPT ![d] = NoDocument]
  /\ stage'    = [stage EXCEPT ![d] = "idle"]

RecordGenerated(d) ==
  LET s == current[d].submission IN
  /\ stage[d] = "record"
  /\ pdfStatus' = [pdfStatus EXCEPT ![s] = "generated"]
  /\ document'  = [document EXCEPT ![s] = rendered[d]]
  /\ \/ RowDone(d)
     \/ /\ Faults
        /\ stage' = [stage EXCEPT ![d] = "fail"]
        /\ UNCHANGED <<current, rendered>>
  /\ UNCHANGED <<status, attempts, failures, stored, requests, batch, stops>>

NextAttempt(row) == row.attempts + 1

\* Variant of Exhausted: the last attempt is not made.
ExhaustedEarly(n) == n + 1 >= MaxAttempts

Exhausted(n) == n >= MaxAttempts

\* The attempts are counted from the row the drain read, whatever another
\* drain has made of it since.
RecordFailure(d) ==
  LET s == current[d].submission
      n == NextAttempt(current[d]) IN
  /\ stage[d] = "fail"
  /\ pdfStatus' = [pdfStatus EXCEPT ![s] = IF Exhausted(n) THEN "failed"
                                           ELSE "queued"]
  /\ attempts'  = [attempts EXCEPT ![s] = n]
  /\ failures'  = [failures EXCEPT ![s] = @ + 1]
  /\ RowDone(d)
  /\ UNCHANGED <<status, document, stored, requests, batch, stops>>

\* The function is stopped, or the update that records a failure fails and its
\* error leaves processReportPdfJobs.  The rows stay on the queue.
Stop(d) ==
  /\ stops < MaxStops /\ ~ Idle(d)
  /\ stops' = stops + 1
  /\ batch' = [batch EXCEPT ![d] = {}]
  /\ RowDone(d)
  /\ UNCHANGED <<status, queue, stored, requests>>

-----------------------------------------------------------------------------

Work(d) ==
  \/ Select(d)
  \/ \E row \in batch[d] : Begin(d, row)
  \/ Render(d) \/ Upload(d) \/ RecordGenerated(d) \/ RecordFailure(d)

Next ==
  \/ \E s \in Submissions : Transition(s) \/ QueuePdf(s)
  \/ \E d \in Drains : Work(d) \/ Fails(d) \/ Stop(d)

Spec == Init /\ [][Next]_vars

\* The scheduler keeps calling the drain, and a drain that runs goes on.
FairSpec == Spec /\ \A d \in Drains : WF_vars(Work(d))

-----------------------------------------------------------------------------

PdfStatuses == {"not_requested", "queued", "generated", "failed"}
Stages == {"idle", "render", "upload", "record", "fail"}

TypeOK ==
  /\ status    \in [Submissions -> Statuses]
  /\ pdfStatus \in [Submissions -> PdfStatuses]
  /\ document  \in [Submissions -> Document \cup {NoDocument}]
  /\ attempts  \in [Submissions -> Nat]
  /\ stored    \in [Submissions -> SUBSET Document]
  /\ requests  \in [Submissions -> Nat]
  /\ failures  \in [Submissions -> Nat]
  /\ batch     \in [Drains -> SUBSET Row]
  /\ current   \in [Drains -> Row \cup {NoRow}]
  /\ rendered  \in [Drains -> Document \cup {NoDocument}]
  /\ stage     \in [Drains -> Stages]
  /\ stops     \in Nat

\* Whatever order overlapping drains upload and record in, and although an
\* upload is skipped on the word of a row read earlier, the path a report
\* names leads to an object, and a generated report names one.
RecordedIsStored ==
  \A s \in Submissions :
    /\ document[s] # NoDocument => document[s] \in stored[s]
    /\ pdfStatus[s] = "generated" => document[s] # NoDocument

\* Drains count from what they read, so a count can be lost; it is never
\* invented: a report that was given up failed MaxAttempts times.
FailedAfterMaxAttempts ==
  \A s \in Submissions :
    pdfStatus[s] = "failed" => failures[s] >= MaxAttempts

\* Nothing is claimed, so nothing is lost: whichever drains stop, a queued
\* report ends generated or failed.
QueuedSettles ==
  \A s \in Submissions :
    pdfStatus[s] = "queued" ~> pdfStatus[s] \in {"generated", "failed"}

-----------------------------------------------------------------------------
\* The inductive invariant behind the safety properties.

Held(d) == batch[d] \cup ({current[d]} \ {NoRow})

\* What a drain read was true once, and stays true of Storage and of the count.
ReadIsSound(row) ==
  /\ row.attempts <= failures[row.submission]
  /\ row.document # NoDocument => row.document \in stored[row.submission]

InHand(d) ==
  /\ stage[d] = "idle" <=> current[d] = NoRow
  /\ stage[d] \in {"upload", "record"} => rendered[d] # NoDocument
  /\ stage[d] = "record" => rendered[d] \in stored[current[d].submission]

SnapshotInv ==
  /\ TypeOK
  /\ RecordedIsStored
  /\ FailedAfterMaxAttempts
  /\ \A s \in Submissions : attempts[s] <= failures[s]
  /\ \A d \in Drains : InHand(d) /\ \A row \in Held(d) : ReadIsSound(row)
=============================================================================
