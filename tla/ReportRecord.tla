----------------------------- MODULE ReportRecord -----------------------------
(***************************************************************************)
(* What a report promises to whoever relies on it, with no requests, loads *)
(* or partial failures in sight: it is written freely while it is a draft, *)
(* is submitted once with content its required signers saw, and from then  *)
(* on nothing about it changes but its status, which only moves forward.   *)
(* A revised report has a successor, which began as a copy of the content. *)
(***************************************************************************)
CONSTANTS Reports, Payloads, Strip, Valid, SignatureRoles, RequiredRoles,
          SubmitPolicy, NoReport, NoPayload

VARIABLES status, payload, revisionOf, warned, signatures

vars == <<status, payload, revisionOf, warned, signatures>>

Init ==
  /\ status     = [r \in Reports |-> "absent"]
  /\ payload    = [r \in Reports |-> NoPayload]
  /\ revisionOf = [r \in Reports |-> NoReport]
  /\ warned     = [r \in Reports |-> FALSE]
  /\ signatures = [r \in Reports |-> {}]

SignedFor(r, p) ==
  \A role \in RequiredRoles :
    \E g \in signatures[r] : g.role = role /\ g.payload = p

Write(r, p) ==
  /\ status[r] = "absent"
  /\ status'     = [status EXCEPT ![r] = "draft"]
  /\ payload'    = [payload EXCEPT ![r] = p]
  /\ UNCHANGED <<revisionOf, warned, signatures>>

\* A successor is a copy of a report that can no longer change.
Succeed(r, original) ==
  /\ status[r] = "absent"
  /\ status[original] \in {"submitted", "locked", "revised"}
  /\ status'     = [status EXCEPT ![r] = "draft"]
  /\ payload'    = [payload EXCEPT ![r] = payload[original]]
  /\ revisionOf' = [revisionOf EXCEPT ![r] = original]
  /\ UNCHANGED <<warned, signatures>>

Edit(r, p) ==
  /\ status[r] = "draft"
  /\ payload' = [payload EXCEPT ![r] = p]
  /\ UNCHANGED <<status, revisionOf, warned, signatures>>

Sign(r, role, p) ==
  /\ status[r] = "draft"
  /\ signatures' = [signatures EXCEPT
                      ![r] = @ \cup {[role |-> role, payload |-> p]}]
  /\ UNCHANGED <<status, payload, revisionOf, warned>>

Submit(r, p) ==
  /\ status[r] = "draft"
  /\ SignedFor(r, p)
  /\ p \in Valid \/ SubmitPolicy = "warn_and_submit"
  /\ status'  = [status EXCEPT ![r] = "submitted"]
  /\ payload' = [payload EXCEPT ![r] = Strip[p]]
  /\ warned'  = [warned EXCEPT ![r] = p \notin Valid]
  /\ UNCHANGED <<revisionOf, signatures>>

Lock(r) ==
  /\ status[r] = "submitted"
  /\ status' = [status EXCEPT ![r] = "locked"]
  /\ UNCHANGED <<payload, revisionOf, warned, signatures>>

Revise(r) ==
  /\ status[r] \in {"submitted", "locked"}
  /\ \E successor \in Reports : revisionOf[successor] = r
  /\ status' = [status EXCEPT ![r] = "revised"]
  /\ UNCHANGED <<payload, revisionOf, warned, signatures>>

Next ==
  \E r \in Reports :
    \/ \E p \in Payloads : Write(r, p) \/ Edit(r, p) \/ Submit(r, p)
    \/ \E role \in SignatureRoles, p \in Payloads : Sign(r, role, p)
    \/ \E original \in Reports : Succeed(r, original)
    \/ Lock(r)
    \/ Revise(r)

Spec == Init /\ [][Next]_vars
=============================================================================
