------------------------------ MODULE ReportForm ------------------------------
(***************************************************************************)
(* The form a draft report is filled in with: createReportFormController   *)
(* of the client's app.js, in one tab, against the rows it reads and       *)
(* writes.  Typing is saved by a debounced timer, by the Save button and   *)
(* before a submission; each call is answered when it is, and other        *)
(* buttons work meanwhile.                                                 *)
(*                                                                         *)
(* An edit is a member of EditIds, made in the form of one report, and the *)
(* values of a form are the edits they hold.  What a call fails of is not  *)
(* modelled: the server may refuse any save or submission, naming fields   *)
(* or not, and any answer may be lost, its effect done or not.             *)
(***************************************************************************)
EXTENDS Naturals, FiniteSets

CONSTANTS
  Drafts,        \* reports
  MaxEdits,      \* bound: edits
  MaxFormCalls,  \* bound: calls
  Nothing

ASSUME ReportFormAssumption ==
  {MaxEdits, MaxFormCalls} \subseteq Nat /\ Drafts # {} /\ Nothing \notin Drafts

VARIABLES
  form,       \* the controller's state, and what its area shows
  draftRows,  \* report_submissions: [status, content]
  inFlight,   \* calls that are not answered yet
  numCalls,
  home,       \* history: the report an edit was made for, or Nothing
  forgiven    \* history: the reports an edit of which may be lost, see below

formVars == <<form, draftRows, inFlight, numCalls, home, forgiven>>

-----------------------------------------------------------------------------
EditIds  == 1 .. MaxEdits
Made     == {e \in EditIds : home[e] # Nothing}
EditsOf(r) == {e \in EditIds : home[e] = r}

Editing == /\ form.host = "form" /\ ~form.readOnly /\ form.report # Nothing
Saves(r) == {c \in inFlight : c.kind = "save" /\ c.report = r}

\* The form as open leaves it.
Opened(r, content, readOnly, timer) ==
  [report |-> r, host |-> "form", content |-> content, readOnly |-> readOnly,
   saving |-> FALSE, dirty |-> FALSE, pending |-> FALSE, timer |-> timer]

FirstDraft == CHOOSE r \in Drafts : TRUE

\* A draft has been opened; another may be there, or not yet.
ReportFormInit ==
  /\ draftRows \in [Drafts -> [status : {"absent", "draft"}, content : {{}}]]
  /\ draftRows[FirstDraft].status = "draft" /\ form = Opened(FirstDraft, {}, FALSE, FALSE)
  /\ inFlight = {} /\ numCalls = 0
  /\ home = [e \in EditIds |-> Nothing] /\ forgiven = {}

\* A call: pressed is the report whose Submit button began it, if one did.
Call(kind, r, content, pressed) ==
  [n |-> 0, kind |-> kind, report |-> r, content |-> content, pressed |-> pressed,
   at |-> "sent"]

\* Calls that are alike are told apart by a number.
Asks(rest, call) ==
  /\ numCalls < MaxFormCalls /\ numCalls' = numCalls + 1
  /\ LET Numbered(n) == [call EXCEPT !.n = n]
     IN  inFlight' = rest \cup {Numbered(CHOOSE n \in 1 .. MaxFormCalls :
                                        Numbered(n) \notin rest)}

\* Nothing is asked: what is left of the calls.
Rests(rest) == inFlight' = rest /\ UNCHANGED numCalls

Forgive(reports) == forgiven' = forgiven \cup (reports \cap Drafts)

-----------------------------------------------------------------------------
(* What is typed *)

ScheduleAutosave(f) == [f EXCEPT !.dirty = TRUE, !.timer = TRUE]

SetFieldValue(f, e) ==
  LET g == [f EXCEPT !.content = @ \cup {e}]
  IN  IF f.readOnly THEN g ELSE ScheduleAutosave(g)

NextEdit == CHOOSE e \in EditIds \ Made : \A d \in EditIds \ Made : e <= d

\* An edit made while a submission is under way may come too late for it.
Type ==
  /\ Editing /\ Made # EditIds
  /\ form' = SetFieldValue(form, NextEdit)
  /\ home' = [home EXCEPT ![NextEdit] = form.report]
  /\ Forgive({r \in {form.report} : \E c \in inFlight : c.pressed = r})
  /\ UNCHANGED <<draftRows, inFlight, numCalls>>

Upload ==
  /\ Editing /\ Made # EditIds
  /\ Asks(inFlight, Call("upload", form.report, {}, Nothing))
  /\ UNCHANGED <<form, draftRows, home, forgiven>>

-----------------------------------------------------------------------------
(* saveDraft and submitReport, up to the call *)

SavingForm(f) == [f EXCEPT !.saving = TRUE, !.dirty = FALSE]

\* A variant that skips the save when one is in flight.
RunAutosaveOnce(f) ==
  IF f.dirty /\ ~f.readOnly /\ ~f.saving /\ f.report # Nothing
    THEN /\ form' = SavingForm(f)
         /\ Asks(inFlight, Call("save", f.report, f.content, Nothing))
    ELSE form' = f /\ Rests(inFlight)

RunAutosave(f) ==
  CASE ~f.dirty \/ f.readOnly \/ (~f.saving /\ f.report = Nothing) ->
         form' = f /\ Rests(inFlight)
    [] f.dirty /\ ~f.readOnly /\ f.saving ->
         form' = [f EXCEPT !.pending = TRUE] /\ Rests(inFlight)
    [] OTHER ->
         /\ form' = SavingForm(f)
         /\ Asks(inFlight, Call("save", f.report, f.content, Nothing))

TimerFires ==
  /\ form.timer
  /\ RunAutosave([form EXCEPT !.timer = FALSE])
  /\ UNCHANGED <<draftRows, home, forgiven>>

\* A button does not wait for a call that is in flight.
Pressed == Forgive({r \in {form.report} : \E c \in inFlight : c.report = r /\ c.kind # "detail"})

PressSave ==
  /\ Editing
  /\ form' = SavingForm(form)
  /\ Asks(inFlight, Call("save", form.report, form.content, Nothing))
  /\ Pressed /\ UNCHANGED <<draftRows, home>>

\* What is dirty is saved first.
PressSubmit ==
  /\ Editing
  /\ form' = IF form.dirty THEN SavingForm(form) ELSE form
  /\ Asks(inFlight, Call(IF form.dirty THEN "save" ELSE "submit", form.report,
                      form.content, form.report))
  /\ Pressed /\ UNCHANGED <<draftRows, home>>

-----------------------------------------------------------------------------
(* open, close, startNewReport *)

\* What is dirty is dropped, the answers to come find another report, and one
\* that was read before a save comes after it.
Leaving(r, coming) ==
  Forgive({q \in {form.report} : form.dirty}
          \cup {q \in {form.report, r} :
                  \E c \in coming : c.kind \in {"save", "submit", "upload"}}
          \cup {q \in {r} : \E c \in coming : c.kind = "detail" /\ c.report = q})

Busy == [form EXCEPT !.timer = FALSE, !.host = "busy"]

Open(r) ==
  /\ draftRows[r].status # "absent"
  /\ form' = Busy
  /\ Asks(inFlight, Call("detail", r, {}, Nothing))
  /\ Leaving(r, inFlight) /\ UNCHANGED <<draftRows, home>>

\* Another facility is selected.
Close ==
  /\ form.report # Nothing \/ form.host # "hidden"
  /\ form' = [form EXCEPT !.timer = FALSE, !.host = "hidden", !.report = Nothing]
  /\ Leaving(form.report, inFlight) /\ UNCHANGED <<draftRows, inFlight, numCalls, home>>

\* The form waits in its old state, under "Creating draft...".
StartNew(r) ==
  /\ draftRows[r].status = "absent" /\ \A c \in inFlight : c.kind # "create"
  /\ form' = [form EXCEPT !.host = "busy"]
  /\ Asks(inFlight, Call("create", r, {}, Nothing))
  /\ UNCHANGED <<draftRows, home, forgiven>>

-----------------------------------------------------------------------------
(* The server *)

Becomes(c, at) == inFlight' = (inFlight \ {c}) \cup {[c EXCEPT !.at = at]}

Writes(c) ==
  CASE c.kind = "save"   -> [draftRows EXCEPT ![c.report].content = c.content]
    [] c.kind = "submit" -> [draftRows EXCEPT ![c.report].status = "submitted"]
    [] c.kind = "create" -> [draftRows EXCEPT ![c.report] = [status |-> "draft", content |-> {}]]
    [] OTHER             -> draftRows

\* Only a draft is saved, submitted or attached to.
Admits(c) == /\ c.report # Nothing
             /\ c.kind \in {"save", "submit", "upload"} => draftRows[c.report].status = "draft"

Serve(c) ==
  /\ c \in inFlight /\ c.at = "sent"
  /\ \/ /\ Admits(c) /\ draftRows' = Writes(c)
        /\ IF c.kind = "detail"
             THEN inFlight' = (inFlight \ {c}) \cup
                    {[c EXCEPT !.at = draftRows[c.report].status,
                               !.content = draftRows[c.report].content]}
             ELSE Becomes(c, "done")
        /\ UNCHANGED forgiven
     \/ /\ Admits(c) /\ draftRows' \in {draftRows, Writes(c)}
        /\ Becomes(c, "failed") /\ Forgive({c.report})
     \/ /\ c.kind \in {"save", "submit"} /\ Admits(c)
        /\ draftRows' = draftRows /\ Becomes(c, "fields") /\ Forgive({c.report})
     \/ /\ ~Admits(c) /\ draftRows' = draftRows /\ Becomes(c, "failed")
        /\ Forgive({c.report})
  /\ UNCHANGED <<form, numCalls, home>>

-----------------------------------------------------------------------------
(* The answers *)

Rescheduled(f) ==
  LET g == [f EXCEPT !.saving = FALSE, !.pending = FALSE]
  IN  IF f.pending THEN ScheduleAutosave(g) ELSE g

\* The submission that waited for its save is of the report open now.
SaveAnswered(c) ==
  /\ c.kind = "save" /\ form' = Rescheduled(form)
  /\ IF c.pressed # Nothing /\ c.at # "fields"
       THEN Asks(inFlight \ {c}, Call("submit", form.report, {}, c.pressed))
       ELSE Rests(inFlight \ {c})
  /\ UNCHANGED <<home, forgiven>>

SubmitAnswered(c) ==
  /\ c.kind = "submit" /\ Rests(inFlight \ {c})
  /\ form' = IF c.at = "done" THEN [form EXCEPT !.readOnly = TRUE] ELSE form
  /\ UNCHANGED <<home, forgiven>>

\* The path goes to the field of the report open now.
UploadAnswered(c) ==
  /\ c.kind = "upload" /\ Rests(inFlight \ {c})
  /\ IF c.at = "done" /\ Made # EditIds
       THEN /\ form' = SetFieldValue(form, NextEdit)
            /\ home' = [home EXCEPT ![NextEdit] = c.report]
            /\ Forgive({r \in {c.report} : form.readOnly \/ \E d \in inFlight : d.pressed = r})
       ELSE UNCHANGED <<form, home, forgiven>>

\* A hidden area stays hidden.
DetailAnswered(c) ==
  /\ c.kind = "detail" /\ Rests(inFlight \ {c}) /\ UNCHANGED home
  /\ IF c.at = "failed"
       THEN form' = [form EXCEPT !.host = IF @ = "hidden" THEN @ ELSE "busy"] /\ UNCHANGED forgiven
       ELSE /\ form' = [Opened(c.report, c.content, c.at # "draft", form.timer)
                        EXCEPT !.host = IF form.host = "hidden" THEN "hidden" ELSE "form"]
            /\ Leaving(c.report, inFlight \ {c})

CreateAnswered(c) ==
  /\ c.kind = "create" /\ UNCHANGED home
  /\ IF c.at = "done"
       THEN /\ form' = Busy
            /\ Asks(inFlight \ {c}, Call("detail", c.report, {}, Nothing))
            /\ Leaving(c.report, inFlight \ {c})
       ELSE Rests(inFlight \ {c}) /\ UNCHANGED <<form, forgiven>>

CallAnswered(c) ==
  /\ c \in inFlight /\ c.at # "sent" /\ UNCHANGED draftRows
  /\ \/ SaveAnswered(c) \/ SubmitAnswered(c) \/ UploadAnswered(c)
     \/ DetailAnswered(c) \/ CreateAnswered(c)

ReportFormNext ==
  \/ Type \/ Upload \/ TimerFires \/ PressSave \/ PressSubmit \/ Close
  \/ \E r \in Drafts : Open(r) \/ StartNew(r)
  \/ \E c \in inFlight : Serve(c) \/ CallAnswered(c)

ReportFormSpec == ReportFormInit /\ [][ReportFormNext]_formVars

-----------------------------------------------------------------------------
ReportFormTypeOK ==
  /\ form.report \in Drafts \cup {Nothing}
  /\ form.host \in {"hidden", "busy", "form"}
  /\ form.content \subseteq Made
  /\ \A r \in Drafts : /\ draftRows[r].status \in {"absent", "draft", "submitted"}
                       /\ draftRows[r].content \subseteq Made
  /\ forgiven \subseteq Drafts

\* An edit that is not on the row yet is in a save on its way, or in the form
\* with something to come that saves it.
EditsKept ==
  \A r \in Drafts \ forgiven : \A e \in EditsOf(r) :
     \/ e \in draftRows[r].content
     \/ \E c \in Saves(r) : c.at = "sent" /\ e \in c.content
     \/ /\ form.report = r /\ e \in form.content /\ form.dirty
        /\ form.timer \/ (form.saving /\ form.pending)

OneSaveAtATime == \A r \in Drafts \ forgiven : Cardinality(Saves(r)) <= 1

\* What is submitted was whole, is what Submit was pressed on, and holds
\* nothing that was meant for another report.
SubmittedWhole ==
  /\ \A r \in Drafts \ forgiven : draftRows[r].status = "submitted" =>
       EditsOf(r) \subseteq draftRows[r].content
  /\ \A c \in inFlight : c.kind = "submit" => c.report \in {c.pressed, Nothing} \cup forgiven
  /\ \A r \in Drafts \ forgiven : draftRows[r].content \subseteq EditsOf(r)

\* Edits are kept, saved by one call at a time and submitted whole, of every
\* report but those that were left while dirty or with a call in flight, had a
\* button pressed with a call in flight, were edited while being submitted, or
\* had a call fail: the comment on autosave promises it of all.
ReportFormInv == EditsKept /\ OneSaveAtATime /\ SubmittedWhole
=============================================================================
