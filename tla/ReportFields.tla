------------------------------ MODULE ReportFields ------------------------------
(***************************************************************************)
(* The answers of a report and the rules of its fields: report-schema.mjs, *)
(* as the template routes and the create, edit, submit and revise routes   *)
(* of a report call it.  A field may be hidden by rules that read the      *)
(* answers of other fields; a hidden one is neither required nor checked,  *)
(* and its answer is dropped when the report is submitted.                 *)
(*                                                                         *)
(* Every field is a number with a least value, which stands for all that   *)
(* an answer can be wrong in; a payload is a function on the fields that   *)
(* are answered; the errors found are the fields they are about.           *)
(***************************************************************************)
EXTENDS Naturals, FiniteSets, Sequences, Functions

CONSTANTS
  Fields,     \* keys of a schema
  Numbers,    \* answers
  Ops,        \* of "eq", "neq", "gt" and "lt"
  Schemas     \* what authors write, see SchemaShape

Rules == [field : Fields, op : Ops, value : Numbers]
SchemaShape == [required : SUBSET Fields, min : [Fields -> Numbers],
                visibility : [Fields -> SUBSET Rules],
                policy : {"strict_block", "warn_and_submit"}]

ASSUME ReportFieldsAssumption ==
  /\ IsFiniteSet(Fields) /\ Numbers \subseteq Nat
  /\ Ops \subseteq {"eq", "neq", "gt", "lt"} /\ Schemas \subseteq SchemaShape

VARIABLES
  schema,     \* schema_json and submit_policy of a template version
  verdict,    \* "draft", "published" or "refused"
  answered    \* the report: [status, payload, warnings, hidden]

fieldVars == <<schema, verdict, answered>>

-----------------------------------------------------------------------------
NoAnswers == [f \in {} |-> 0]
Payload   == UNION {[S -> Numbers] : S \in SUBSET Fields}

ReportFieldsInit ==
  /\ schema \in Schemas /\ verdict = "draft"
  /\ answered = [status |-> "absent", payload |-> NoAnswers, warnings |-> {}, hidden |-> {}]

-----------------------------------------------------------------------------
(* validateReportTemplateSchema *)

\* The fields a field's visibility depends on.
Deps(f) == {rule.field : rule \in schema.visibility[f]}

\* The search of findVisibilityCycle: the path of the fields it is visiting,
\* the fields it is done with, and whether it met one of the path again.
SearchStart == [path |-> <<>>, done |-> {}, cycle |-> FALSE]

\* What it looks at next: of the dependencies of the field at the end of the
\* path, or of all fields, those that are not done.
Ahead(s) ==
  IF s.path = <<>> THEN Fields \ s.done
  ELSE LET top == s.path[Len(s.path)] IN Deps(top) \ (s.done \cup {top})

Explore(s) ==
  LET dep == CHOOSE f \in Ahead(s) : TRUE
  IN  CASE s.cycle \/ (s.path = <<>> /\ Ahead(s) = {}) -> s
        [] ~s.cycle /\ s.path # <<>> /\ Ahead(s) = {} ->
             [s EXCEPT !.path = SubSeq(@, 1, Len(@) - 1), !.done = @ \cup {s.path[Len(s.path)]}]
        [] ~s.cycle /\ Ahead(s) # {} /\ dep \in Range(s.path) -> [s EXCEPT !.cycle = TRUE]
        [] ~s.cycle /\ Ahead(s) # {} /\ dep \notin Range(s.path) ->
             [s EXCEPT !.path = Append(@, dep)]

Search[n \in Nat] == IF n = 0 THEN SearchStart ELSE Explore(Search[n - 1])

\* Every field is put on the path once and taken off it once.
FindVisibilityCycle == Search[2 * Cardinality(Fields)].cycle

ValidSchema == (\A f \in Fields : f \notin Deps(f)) /\ ~FindVisibilityCycle

PublishTemplate ==
  /\ verdict = "draft" /\ verdict' = IF ValidSchema THEN "published" ELSE "refused"
  /\ UNCHANGED <<schema, answered>>

-----------------------------------------------------------------------------
(* evaluateVisibility, stripHiddenFields, collectSubmissionErrors *)

\* What is not answered is undefined: equal to no value, and no number.
CompareVisibility(rule, payload) ==
  LET present == rule.field \in DOMAIN payload
  IN  CASE rule.op = "eq"  -> present /\ payload[rule.field] = rule.value
        [] rule.op = "neq" -> present => payload[rule.field] # rule.value
        [] rule.op = "gt"  -> present /\ payload[rule.field] > rule.value
        [] rule.op = "lt"  -> present /\ payload[rule.field] < rule.value

EvaluateVisibility(payload) ==
  {f \in Fields : \E rule \in schema.visibility[f] : ~CompareVisibility(rule, payload)}

Kept(payload, keys) == [f \in DOMAIN payload \cap keys |-> payload[f]]

\* A variant that keeps what is hidden.
StripNothing(payload) == payload

StripHiddenFields(payload) == Kept(payload, Fields \ EvaluateVisibility(payload))

FieldErrors(payload, f) ==
  IF f \in DOMAIN payload THEN payload[f] < schema.min[f] ELSE f \in schema.required

\* Of a draft, only what is answered is checked.
Errors(payload, partial) ==
  {f \in Fields \ EvaluateVisibility(payload) :
     (partial => f \in DOMAIN payload) /\ FieldErrors(payload, f)}

-----------------------------------------------------------------------------
(* The routes *)

StoreAnswers(status, payload, warnings, hidden) ==
  answered' = [status |-> status, payload |-> payload, warnings |-> warnings,
               hidden |-> hidden]

CreateReport(payload) ==
  /\ verdict = "published" /\ answered.status = "absent" /\ Errors(payload, TRUE) = {}
  /\ StoreAnswers("draft", payload, {}, {}) /\ UNCHANGED <<schema, verdict>>

PatchReport(payload) ==
  /\ answered.status = "draft" /\ Errors(payload, TRUE) = {}
  /\ StoreAnswers("draft", payload, {}, {}) /\ UNCHANGED <<schema, verdict>>

\* What is stored is stripped, and what was hidden is recorded.  Under
\* warn_and_submit a reason turns the errors into warnings.
SubmitAnswers ==
  LET payload == answered.payload
      errors  == Errors(payload, FALSE)
  IN  /\ answered.status = "draft"
      /\ errors = {} \/ schema.policy = "warn_and_submit"
      /\ StoreAnswers("submitted", StripHiddenFields(payload), errors, EvaluateVisibility(payload))
      /\ UNCHANGED <<schema, verdict>>

\* The successor begins with what its original holds.
ReviseAnswers ==
  /\ answered.status = "submitted" /\ StoreAnswers("draft", answered.payload, {}, {})
  /\ UNCHANGED <<schema, verdict>>

ReportFieldsNext ==
  \/ PublishTemplate \/ SubmitAnswers \/ ReviseAnswers
  \/ \E payload \in Payload : CreateReport(payload) \/ PatchReport(payload)

ReportFieldsSpec == ReportFieldsInit /\ [][ReportFieldsNext]_fieldVars

-----------------------------------------------------------------------------
ReportFieldsTypeOK ==
  /\ schema \in Schemas /\ verdict \in {"draft", "published", "refused"}
  /\ answered.status \in {"absent", "draft", "submitted"} /\ answered.payload \in Payload
  /\ answered.warnings \cup answered.hidden \subseteq Fields

\* The fields of a template that is published can be put in an order in which
\* each depends on earlier ones, and those of one that is refused cannot.
PublishedInOrder ==
  LET ordered == \E rank \in [Fields -> 1 .. Cardinality(Fields)] :
                   \A f \in Fields : \A dep \in Deps(f) : rank[dep] < rank[f]
  IN  verdict = "draft" \/ (verdict = "published" <=> ordered)

\* No answer is stored that its own rules refuse, and none that is required
\* is missing, unless a warning says so or the field was hidden.
StoredWasChecked ==
  answered.status = "submitted" =>
    \A f \in Fields \ answered.warnings :
      \/ ~FieldErrors(answered.payload, f)
      \/ f \in answered.hidden \ DOMAIN answered.payload

\* Where no rule reads a field that was hidden, what is stored shows and hides
\* the fields as what was filled in did, and could be submitted again.
StoredStandsAlone ==
  answered.status = "submitted"
    /\ (\A f \in Fields : Deps(f) \cap answered.hidden = {}) =>
    /\ EvaluateVisibility(answered.payload) = answered.hidden
    /\ Errors(answered.payload, FALSE) = answered.warnings

\* A schema is accepted unless its visibility is circular, and what a report
\* stores was checked and can be checked again; the latter is not so where a
\* rule reads a field that another hides, whose answer is dropped.
FieldsInv == PublishedInOrder /\ StoredWasChecked /\ StoredStandsAlone
=============================================================================
