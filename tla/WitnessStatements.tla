-------------------------- MODULE WitnessStatements ---------------------------
(***************************************************************************)
(* http/incidents-people-routes.mjs: the people of one incident, the       *)
(* versions of their witness statements, and the audit events of both.     *)
(*                                                                         *)
(* Every write follows reads it depends on, and every write is followed by *)
(* an audit event in a call of its own.  The trigger                       *)
(* fn_incident_witness_statement_guard (0050) refuses any change of a      *)
(* signed row.                                                             *)
(***************************************************************************)
EXTENDS Naturals, FiniteSets, FiniteSetsExt

CONSTANTS
  Clerks,    \* requests that can overlap
  People,    \* identifiers an incident_people row can get
  MaxCalls   \* bound: requests

ASSUME WitnessAssumption == MaxCalls \in Nat

VARIABLES
  people,      \* "none", "present" or "removed" (deleted_at)
  statements,  \* incident_witness_statements of a person: version_no, signed
  trail,       \* incident_audit_events: how many of a kind about a subject
  clerk,       \* what a request has read or has to record
  calls,
  locked,      \* history: the versions of a person at the first signature, or 0
  clashed      \* history: two requests were under way together

witnessVars == <<people, statements, trail, clerk, calls, locked, clashed>>

AtRest == [at |-> "rest"]

\* A subject is a person (version 0) or one version of a person's statement.
Versions == 0 .. MaxCalls
Events   == {"person_added", "person_updated", "person_removed",
             "statement_added", "statement_signed"} \X People \X Versions

WitnessInit ==
  /\ people     = [p \in People |-> "none"]
  /\ statements = [p \in People |-> {}]
  /\ trail      = [e \in Events |-> 0]
  /\ clerk      = [c \in Clerks |-> AtRest]
  /\ locked     = [p \in People |-> 0]
  /\ calls = 0 /\ clashed = FALSE

-----------------------------------------------------------------------------
Call(c, step) ==
  /\ clerk[c] = AtRest /\ calls < MaxCalls
  /\ calls' = calls + 1
  /\ clashed' = (clashed \/ \E other \in Clerks \ {c} : clerk[other] # AtRest)
  /\ clerk' = [clerk EXCEPT ![c] = step]

Step(c, step) ==
  /\ clerk' = [clerk EXCEPT ![c] = step]
  /\ UNCHANGED <<calls, clashed>>

\* writeAuditEvent is the last call of every route that writes.
ThenAudit(c, kind, p, v) == Step(c, [at |-> "audit", event |-> <<kind, p, v>>])

Audit(c) ==
  /\ clerk[c].at = "audit"
  /\ trail' = [trail EXCEPT ![clerk[c].event] = @ + 1]
  /\ Step(c, AtRest)
  /\ UNCHANGED <<people, statements, locked>>

\* A request is refused after a read, loses a call or is cut off; one that
\* stops before its audit event leaves its write without a record.
Hang(c) ==
  /\ clerk[c] # AtRest
  /\ Step(c, AtRest)
  /\ UNCHANGED <<people, statements, trail, locked>>

AddPerson(c, p) ==
  /\ people[p] = "none"
  /\ people' = [people EXCEPT ![p] = "present"]
  /\ Call(c, [at |-> "audit", event |-> <<"person_added", p, 0>>])
  /\ UNCHANGED <<statements, trail, locked>>

\* resolvePerson finds removed people too; all but signing then refuse them.
ResolvePerson(c, op, p) ==
  /\ people[p] # "none"
  /\ op = "sign" \/ people[p] = "present"
  /\ Call(c, [at |-> op, person |-> p])
  /\ UNCHANGED <<people, statements, trail, locked>>

UpdatePerson(c) ==
  /\ clerk[c].at = "update"
  /\ ThenAudit(c, "person_updated", clerk[c].person, 0)
  /\ UNCHANGED <<people, statements, trail, locked>>

RemovePerson(c) ==
  /\ clerk[c].at = "remove"
  /\ people' = [people EXCEPT ![clerk[c].person] = "removed"]
  /\ ThenAudit(c, "person_removed", clerk[c].person, 0)
  /\ UNCHANGED <<statements, trail, locked>>

-----------------------------------------------------------------------------
Numbers(p) == {s.version : s \in statements[p]}
Signed(p)  == {s.version : s \in {x \in statements[p] : x.signed}}

NextVersion(p) == Max(Numbers(p) \cup {0}) + 1

ReadVersions(c) ==
  /\ clerk[c].at = "state"
  /\ Signed(clerk[c].person) = {}
  /\ Step(c, [at |-> "insert", person |-> clerk[c].person,
              version |-> NextVersion(clerk[c].person)])
  /\ UNCHANGED <<people, statements, trail, locked>>

\* A variant without the unique key: the later row hides the earlier one.
InsertVersionUnkeyed(c) ==
  LET p == clerk[c].person
      v == clerk[c].version
  IN /\ clerk[c].at = "insert"
     /\ statements' = [statements EXCEPT
                         ![p] = @ \cup {[version |-> v, signed |-> FALSE]}]
     /\ ThenAudit(c, "statement_added", p, v)
     /\ UNCHANGED <<people, trail, locked>>

\* unique (person_id, version_no)
InsertVersion(c) ==
  LET p == clerk[c].person
      v == clerk[c].version
  IN /\ clerk[c].at = "insert"
     /\ v \notin Numbers(p)
     /\ statements' = [statements EXCEPT
                         ![p] = @ \cup {[version |-> v, signed |-> FALSE]}]
     /\ ThenAudit(c, "statement_added", p, v)
     /\ UNCHANGED <<people, trail, locked>>

LoadStatement(c, v) ==
  /\ clerk[c].at = "sign"
  /\ v \in Numbers(clerk[c].person) \ Signed(clerk[c].person)
  /\ Step(c, [at |-> "stamp", person |-> clerk[c].person, version |-> v])
  /\ UNCHANGED <<people, statements, trail, locked>>

\* The guard trigger: a row with signed_at accepts no update.
StatementGuard(p, v) == v \notin Signed(p)

SignVersion(c) ==
  LET p == clerk[c].person
      v == clerk[c].version
  IN /\ clerk[c].at = "stamp"
     /\ StatementGuard(p, v)
     /\ statements' = [statements EXCEPT
                         ![p] = (@ \ {[version |-> v, signed |-> FALSE]})
                                  \cup {[version |-> v, signed |-> TRUE]}]
     /\ locked' = [locked EXCEPT
          ![p] = IF Signed(p) = {} THEN Cardinality(statements[p]) ELSE @]
     /\ ThenAudit(c, "statement_signed", p, v)
     /\ UNCHANGED <<people, trail>>

WitnessNext ==
  \E c \in Clerks :
    \/ Audit(c) \/ Hang(c)
    \/ \E p \in People :
         \/ AddPerson(c, p)
         \/ \E op \in {"update", "remove", "state", "sign"} :
              ResolvePerson(c, op, p)
    \/ UpdatePerson(c) \/ RemovePerson(c)
    \/ ReadVersions(c) \/ InsertVersion(c)
    \/ \E v \in 1 .. MaxCalls : LoadStatement(c, v)
    \/ SignVersion(c)

WitnessSpec == WitnessInit /\ [][WitnessNext]_witnessVars

-----------------------------------------------------------------------------
WitnessTypeOK ==
  /\ people \in [People -> {"none", "present", "removed"}]
  /\ statements \in [People -> SUBSET [version : Versions, signed : BOOLEAN]]
  /\ trail \in [Events -> 0 .. MaxCalls]
  /\ locked \in [People -> Versions]
  /\ calls \in 0 .. MaxCalls /\ clashed \in BOOLEAN

\* The versions of a person are 1, 2, ... however many requests compute the
\* next number from the same read, and no audit event counts a version, or its
\* signature, that is not there, or counts it twice: the loser of two
\* submissions or of two signatures is refused before its event.  The first
\* signature locks the history, as long as requests do not overlap.
StatementHistory ==
  \A p \in People :
    /\ Numbers(p) = 1 .. Cardinality(statements[p])
    /\ \A v \in 1 .. MaxCalls :
         /\ trail[<<"statement_added", p, v>>]
              <= Cardinality({v} \cap Numbers(p))
         /\ trail[<<"statement_signed", p, v>>]
              <= Cardinality({v} \cap Signed(p))
    /\ clashed \/ locked[p] \in {0, Cardinality(statements[p])}
=============================================================================
