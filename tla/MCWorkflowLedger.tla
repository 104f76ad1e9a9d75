--------------------------- MODULE MCWorkflowLedger ---------------------------
(***************************************************************************)
(* Small instances of WorkflowLedger.                                      *)
(***************************************************************************)
EXTENDS WorkflowLedger, TLC

CONSTANTS r1, r2, d1, d2

\* Two rules that create an incident: a template author's mistake that the
\* mint has to absorb.
TwoIncidents == r1 :> <<"create_incident", "create_incident">>
NotifyAndPdf == r1 :> <<"notify", "queue_pdf">>
IncidentAndNotify == r1 :> <<"create_incident", "notify">>

Symmetry == Permutations(Drains)
=============================================================================
