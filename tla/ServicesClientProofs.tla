------------------------ MODULE ServicesClientProofs ------------------------
(***************************************************************************)
(* What PlatformServices promises of the client's forms, panels and lists, *)
(* which lose nothing and show what is open, and of a report's fields,     *)
(* which are checked before they are stored; and that every component of   *)
(* it keeps its types.                                                     *)
(***************************************************************************)
EXTENDS ServicesProofs

-----------------------------------------------------------------------------
\* The form: what was typed in it, and what a call holds of it.

WriteKinds == {"save", "submit", "upload"}

FormCall(c) ==
  /\ c = [n |-> c.n, kind |-> c.kind, report |-> c.report, content |-> c.content,
          pressed |-> c.pressed, at |-> c.at]
  /\ c.kind \in WriteKinds \cup {"detail", "create"}
  /\ c.report \in Drafts \cup {Nothing} /\ c.pressed \in Drafts \cup {Nothing}
  /\ c.content \subseteq EditIds
  /\ c.kind # "submit" => c.report # Nothing
  /\ c.kind = "save" => c.pressed \in {c.report, Nothing}
  /\ c.kind \notin {"save", "submit"} => c.pressed = Nothing
  /\ c.at \in {"failed", "fields"} => c.report \in forgiven \cup {Nothing}
  /\ c.kind # "detail" => c.at \in {"sent", "done", "failed", "fields"}

FormShape ==
  [report : Drafts \cup {Nothing}, host : {"hidden", "busy", "form"},
   content : SUBSET EditIds, readOnly : BOOLEAN, saving : BOOLEAN, dirty : BOOLEAN,
   pending : BOOLEAN, timer : BOOLEAN]

FormTyped ==
  /\ form \in FormShape
  /\ draftRows \in [Drafts -> [status : {"absent", "draft", "submitted"},
                               content : SUBSET EditIds]]
  /\ home \in [EditIds -> Drafts \cup {Nothing}]
  /\ forgiven \subseteq Drafts
  /\ \A c \in inFlight : FormCall(c)

\* A call that writes is of the report that is open, or of one that was left.
WritesTheOpen ==
  \A c \in inFlight : c.kind \in WriteKinds =>
    \/ c.report = form.report
    \/ {c.report, form.report} \subseteq forgiven \cup {Nothing}

\* A report is created once.
CreatesOne ==
  /\ \A c, d \in inFlight : c.kind = "create" /\ d.kind = "create" => c = d
  /\ \A c \in inFlight : c.kind = "create" /\ c.at = "sent" =>
       draftRows[c.report].status = "absent"

\* The form holds what was typed for its report, and what is dirty will be saved.
FormHolds(r) ==
  form.report = r =>
    /\ form.content = EditsOf(r)
    /\ form.dirty => ~ form.readOnly /\ (form.timer \/ (form.saving /\ form.pending))
    /\ form.pending => form.saving /\ form.dirty

\* The row holds what was typed but for what a save holds or the form will save.
RowHolds(r) ==
  /\ draftRows[r].content \subseteq EditsOf(r)
  /\ \/ form.report = r /\ form.dirty
     \/ \A e \in EditsOf(r) : \/ e \in draftRows[r].content
                             \/ \E c \in Saves(r) : c.at = "sent" /\ e \in c.content

\* One call saves, and it holds what the row does.
SavesOnce(r) ==
  /\ \A c, d \in Saves(r) : c = d
  /\ Saves(r) # {} <=> form.report = r /\ form.saving
  /\ \A c \in Saves(r) : c.at = "sent" =>
       draftRows[r].content \subseteq c.content /\ c.content \subseteq EditsOf(r)

\* From Submit to its answer nothing else writes the report.
SubmitsAlone(r) ==
  /\ \A c \in inFlight : c.pressed = r =>
       /\ c.report = r /\ form.report = r /\ ~ form.dirty
       /\ \A d \in inFlight : d.kind \in {"save", "submit"} /\ d.report = r => d = c
  /\ \A c \in inFlight : c.kind = "submit" /\ c.report = r => c.pressed = r

\* What is submitted is not written again.
SubmittedInv(r) ==
  draftRows[r].status = "submitted" =>
    /\ EditsOf(r) \subseteq draftRows[r].content
    /\ form.report = r => form.readOnly \/ \E c \in inFlight : c.pressed = r

AbsentInv(r) ==
  draftRows[r].status = "absent" =>
    /\ EditsOf(r) = {} /\ form.report # r
    /\ \A c \in inFlight : c.report = r => c.kind = "create" /\ c.at # "done"

\* A report that is being opened is not written, and is read as it is.
OpensAsIs(r) ==
  \A c \in inFlight : c.kind = "detail" /\ c.report = r =>
    /\ \A d \in inFlight : d.kind # "create" /\ d.report = r => d = c
    /\ form.report = r => form.host # "form" /\ ~ form.dirty
    /\ c.at \notin {"sent", "failed"} =>
         c.content = draftRows[r].content /\ c.at = draftRows[r].status

FormKeeps(r) ==
  /\ FormHolds(r) /\ RowHolds(r) /\ SavesOnce(r) /\ SubmitsAlone(r)
  /\ SubmittedInv(r) /\ AbsentInv(r) /\ OpensAsIs(r)

FormInv ==
  /\ FormTyped /\ WritesTheOpen /\ CreatesOne
  /\ \A r \in Drafts \ forgiven : FormKeeps(r)

LEMMA AsksOne ==
  ASSUME NEW others, NEW kind, NEW r, NEW content, NEW pressed,
         Asks(others, Call(kind, r, content, pressed))
  PROVE  \E new : /\ inFlight' = others \cup {new}
                  /\ new = [n |-> new.n, kind |-> kind, report |-> r, content |-> content,
                            pressed |-> pressed, at |-> "sent"]
  <1>1. PICK k : inFlight' = others \cup {[Call(kind, r, content, pressed) EXCEPT !.n = k]}
    BY DEF Asks
  <1>2. PICK new : new = [n |-> k, kind |-> kind, report |-> r, content |-> content,
                          pressed |-> pressed, at |-> "sent"]
    OBVIOUS
  <1>3. PICK body : body = [Call(kind, r, content, pressed) EXCEPT !.n = k]
    OBVIOUS
  <1>4. body = new
    BY <1>2, <1>3 DEF Call
  <1> QED
    BY <1>1, <1>2, <1>3, <1>4

\* The next edit is one that was not made.
LEMMA NextEditIsNew ==
  ASSUME FormTyped, Made # EditIds
  PROVE  NextEdit \in EditIds /\ home[NextEdit] = Nothing
  <1>1. EditIds \ Made \in SUBSET Nat /\ EditIds \ Made # {}
    BY DEF Made, EditIds
  <1>2. \E e \in EditIds \ Made : \A d \in EditIds \ Made : e <= d
    BY <1>1, LeastNumber
  <1>3. NextEdit \in EditIds \ Made
    BY <1>2 DEF NextEdit
  <1> QED
    BY <1>3 DEF Made

\* A report that no step is about stays as it was.
LEMMA Untouched ==
  ASSUME NEW r \in Drafts, FormKeeps(r), (\A c \in inFlight : FormCall(c)),
         \A c : c.report = r \/ c.pressed = r =>
           /\ c \in inFlight' => c \in inFlight
           /\ c \in inFlight /\ c.kind \in {"save", "submit"} => c \in inFlight',
         draftRows'[r] = draftRows[r], EditsOf(r)' = EditsOf(r),
         \/ form.report # r /\ form'.report # r
         \/ /\ form'.report = form.report /\ form'.content = form.content
            /\ form'.dirty = form.dirty /\ form'.saving = form.saving
            /\ form'.readOnly = form.readOnly
            /\ form'.host = form.host \/ form'.host # "form"
            /\ \/ form'.timer = form.timer /\ form'.pending = form.pending
               \/ FormHolds(r)'
  PROVE  FormKeeps(r)'
  <1>1. Saves(r)' = Saves(r)
    BY DEF Saves
  <1>2. FormHolds(r)'
    BY DEF FormKeeps, FormHolds
  <1>3. RowHolds(r)'
    BY <1>1 DEF FormKeeps, RowHolds
  <1>4. SavesOnce(r)'
    BY <1>1 DEF FormKeeps, SavesOnce
  <1>5. SubmitsAlone(r)'
    BY DEF FormKeeps, SubmitsAlone
  <1>6. SubmittedInv(r)'
    <2>1. \A c \in inFlight : c.pressed = r => c.kind \in {"save", "submit"}
      BY ReportFormAssumption DEF FormCall
    <2> QED
      BY <2>1 DEF FormKeeps, SubmittedInv
  <1>7. AbsentInv(r)'
    BY DEF FormKeeps, AbsentInv
  <1>8. OpensAsIs(r)'
    BY DEF FormKeeps, OpensAsIs
  <1> QED
    BY <1>2, <1>3, <1>4, <1>5, <1>6, <1>7, <1>8 DEF FormKeeps

LEMMA FormInitial == ReportFormInit => FormInv
  <1> SUFFICES ASSUME ReportFormInit PROVE FormInv
    OBVIOUS
  <1>1. /\ draftRows \in [Drafts -> [status : {"absent", "draft"}, content : {{}}]]
        /\ draftRows[FirstDraft].status = "draft" /\ inFlight = {} /\ forgiven = {}
        /\ home = [e \in EditIds |-> Nothing]
        /\ form = [report |-> FirstDraft, host |-> "form", content |-> {}, readOnly |-> FALSE,
                   saving |-> FALSE, dirty |-> FALSE, pending |-> FALSE, timer |-> FALSE]
    BY DEF ReportFormInit, Opened
  <1>2. \A r \in Drafts : EditsOf(r) = {}
    BY <1>1, ReportFormAssumption DEF EditsOf
  <1>3. FormTyped
    <2>1. FirstDraft \in Drafts
      BY ReportFormAssumption DEF FirstDraft
    <2> QED
      BY <1>1, <2>1 DEF FormTyped, FormShape
  <1> QED
    BY <1>1, <1>2, <1>3 DEF FormInv, WritesTheOpen, CreatesOne, FormKeeps,
                            FormHolds, RowHolds, SavesOnce, SubmitsAlone,
                            SubmittedInv, AbsentInv, OpensAsIs, Saves

LEMMA KeptInForm == FormInv => ReportFormInv
  <1> SUFFICES ASSUME FormInv PROVE ReportFormInv
    OBVIOUS
  <1>1. EditsKept
    <2> SUFFICES ASSUME NEW r \in Drafts \ forgiven, NEW e \in EditsOf(r)
                 PROVE  \/ e \in draftRows[r].content
                        \/ \E c \in Saves(r) : c.at = "sent" /\ e \in c.content
                        \/ /\ form.report = r /\ e \in form.content /\ form.dirty
                           /\ form.timer \/ (form.saving /\ form.pending)
      BY DEF EditsKept
    <2>1. FormHolds(r) /\ RowHolds(r)
      BY DEF FormInv, FormKeeps
    <2> QED
      BY <2>1 DEF FormHolds, RowHolds
  <1>2. OneSaveAtATime
    <2> SUFFICES ASSUME NEW r \in Drafts \ forgiven
                 PROVE  Cardinality(Saves(r)) <= 1
      BY DEF OneSaveAtATime
    <2>1. \A c, d \in Saves(r) : c = d
      BY DEF FormInv, FormKeeps, SavesOnce
    <2>2. CASE Saves(r) = {}
      BY <2>2, FS_EmptySet
    <2>3. CASE Saves(r) # {}
      <3>1. PICK c \in Saves(r) : Saves(r) = {c}
        BY <2>1, <2>3
      <3> QED
        BY <3>1, FS_Singleton
    <2> QED
      BY <2>2, <2>3
  <1>3. SubmittedWhole
    <2>1. ASSUME NEW r \in Drafts \ forgiven
          PROVE  /\ draftRows[r].status = "submitted" => EditsOf(r) \subseteq draftRows[r].content
                 /\ draftRows[r].content \subseteq EditsOf(r)
      BY DEF FormInv, FormKeeps, SubmittedInv, RowHolds
    <2>2. ASSUME NEW c \in inFlight, c.kind = "submit"
          PROVE  c.report \in {c.pressed, Nothing} \cup forgiven
      <3>1. c.report \in Drafts \cup {Nothing}
        BY DEF FormInv, FormTyped, FormCall
      <3> QED
        BY <2>2, <3>1 DEF FormInv, FormKeeps, SubmitsAlone
    <2> QED
      BY <2>1, <2>2 DEF SubmittedWhole
  <1> QED
    BY <1>1, <1>2, <1>3 DEF ReportFormInv

\* What was forgiven stays so, and a call with it.
LEMMA CallStays ==
  ASSUME NEW c, FormCall(c), forgiven \subseteq forgiven'
  PROVE  FormCall(c)'
  BY DEF FormCall

\* An edit of a report that is open and may be written, or of one that is forgiven.
LEMMA TypedStep ==
  ASSUME FormInv, NEW s \in Drafts, NEW gone \in SUBSET inFlight,
         \A c \in gone : c.kind = "upload", Made # EditIds,
         form' = SetFieldValue(form, NextEdit), home' = [home EXCEPT ![NextEdit] = s],
         inFlight' = inFlight \ gone, draftRows' = draftRows,
         forgiven \subseteq forgiven', forgiven' \subseteq Drafts,
         form.report # s => form.report \in forgiven' \cup {Nothing},
         s \notin forgiven' =>
           /\ form.report = s /\ ~ form.readOnly /\ draftRows[s].status = "draft"
           /\ \A c \in inFlight : c.pressed # s
           /\ \A c \in inFlight : c.report = s => c.kind # "detail"
  PROVE  FormInv'
  <1> PICK e : e = NextEdit
    OBVIOUS
  <1>1. FormTyped /\ e \in EditIds /\ home[e] = Nothing
    BY NextEditIsNew DEF FormInv
  <1>2. /\ form' \in FormShape /\ form'.report = form.report /\ form'.host = form.host
        /\ form'.content = form.content \cup {e} /\ form'.readOnly = form.readOnly
        /\ form'.saving = form.saving /\ form'.pending = form.pending
        /\ ~ form.readOnly => form'.dirty /\ form'.timer
    BY <1>1 DEF SetFieldValue, ScheduleAutosave, FormTyped, FormShape
  <1>3. FormTyped'
    <2>1. home' \in [EditIds -> Drafts \cup {Nothing}]
      BY <1>1 DEF FormTyped
    <2>2. \A c \in inFlight' : FormCall(c)'
      BY <1>1, CallStays DEF FormTyped
    <2> QED
      BY <1>1, <1>2, <2>1, <2>2 DEF FormTyped
  <1>4. WritesTheOpen'
    BY <1>2 DEF FormInv, WritesTheOpen
  <1>5. CreatesOne'
    BY DEF FormInv, CreatesOne
  <1>6. \A r \in Drafts : EditsOf(r)' = IF r = s THEN EditsOf(r) \cup {e} ELSE EditsOf(r)
    BY <1>1, ReportFormAssumption DEF EditsOf, FormTyped
  <1>7. ASSUME NEW r \in Drafts \ forgiven', r # s
        PROVE  FormKeeps(r)'
    <2>1. FormKeeps(r) /\ EditsOf(r)' = EditsOf(r)
      BY <1>6, <1>7 DEF FormInv
    <2>2. form.report # r /\ form'.report # r
      BY <1>2, <1>7, ReportFormAssumption
    <2>3. \A c \in inFlight : FormCall(c)
      BY <1>1 DEF FormTyped
    <2>4. \A c \in gone : c.kind \notin {"save", "submit"}
      OBVIOUS
    <2> QED
      BY <2>1, <2>2, <2>3, <2>4, Untouched
  <1>8. ASSUME s \notin forgiven'
        PROVE  FormKeeps(s)'
    <2>1. /\ FormKeeps(s) /\ form.report = s /\ ~ form.readOnly
          /\ draftRows[s].status = "draft"
          /\ \A c \in inFlight : c.pressed # s
          /\ \A c \in inFlight : c.report = s => c.kind # "detail"
      BY <1>8 DEF FormInv
    <2>2. EditsOf(s)' = EditsOf(s) \cup {e}
      BY <1>6
    <2>3. Saves(s)' = Saves(s)
      BY DEF Saves
    <2>4. FormHolds(s)'
      BY <1>2, <2>1, <2>2 DEF FormKeeps, FormHolds
    <2>5. RowHolds(s)'
      BY <1>2, <2>1, <2>2 DEF FormKeeps, RowHolds
    <2>6. SavesOnce(s)'
      BY <1>2, <2>1, <2>2, <2>3 DEF FormKeeps, SavesOnce
    <2>7. SubmitsAlone(s)'
      BY <2>1 DEF FormKeeps, SubmitsAlone
    <2>8. SubmittedInv(s)' /\ AbsentInv(s)'
      BY <2>1 DEF SubmittedInv, AbsentInv
    <2>9. OpensAsIs(s)'
      BY <2>1 DEF OpensAsIs
    <2> QED
      BY <2>4, <2>5, <2>6, <2>7, <2>8, <2>9 DEF FormKeeps
  <1> QED
    BY <1>3, <1>4, <1>5, <1>7, <1>8 DEF FormInv

\* A form that may be written is of a draft that nobody opens or submits.
LEMMA EditingIsDraft ==
  ASSUME FormInv, Editing
  PROVE  /\ form.report \in Drafts
         /\ form.report \notin forgiven =>
              /\ FormKeeps(form.report)
              /\ draftRows[form.report].status # "absent"
              /\ \A c \in inFlight : c.report = form.report => c.kind # "detail"
              /\ draftRows[form.report].status = "submitted" =>
                   \E c \in inFlight : c.pressed = form.report
  <1>1. form.report \in Drafts
    BY DEF Editing, FormInv, FormTyped, FormShape
  <1> QED
    BY <1>1 DEF Editing, FormInv, FormKeeps, SubmittedInv, AbsentInv, OpensAsIs

LEMMA TypeStep == FormInv /\ Type => FormInv'
  <1> SUFFICES ASSUME FormInv, Type PROVE FormInv'
    OBVIOUS
  <1> PICK s : s = form.report
    OBVIOUS
  <1>1. /\ Editing /\ Made # EditIds /\ form' = SetFieldValue(form, NextEdit)
        /\ home' = [home EXCEPT ![NextEdit] = s]
        /\ UNCHANGED <<draftRows, inFlight>>
        /\ forgiven' = forgiven \cup ({r \in {s} : \E c \in inFlight : c.pressed = r} \cap Drafts)
    BY DEF Type, Forgive
  <1>2. s \in Drafts /\ forgiven \subseteq Drafts
    BY <1>1, EditingIsDraft DEF FormInv, FormTyped
  <1>3. forgiven \subseteq forgiven' /\ forgiven' \subseteq Drafts
    BY <1>1, <1>2
  <1>4. ASSUME s \notin forgiven'
        PROVE  /\ ~ form.readOnly /\ draftRows[s].status = "draft"
               /\ \A c \in inFlight : c.pressed # s
               /\ \A c \in inFlight : c.report = s => c.kind # "detail"
    <2>1. s \notin forgiven /\ \A c \in inFlight : c.pressed # s
      BY <1>1, <1>2, <1>4
    <2>2. draftRows[s].status \in {"absent", "draft", "submitted"}
      BY <1>2 DEF FormInv, FormTyped
    <2> QED
      BY <1>1, <2>1, <2>2, EditingIsDraft DEF Editing
  <1>5. PICK gone \in SUBSET inFlight : gone = {}
    OBVIOUS
  <1>6. /\ \A c \in gone : c.kind = "upload"
        /\ inFlight' = inFlight \ gone /\ draftRows' = draftRows
    BY <1>1, <1>5
  <1>7. form.report # s => form.report \in forgiven' \cup {Nothing}
    OBVIOUS
  <1>8. s \notin forgiven' =>
          /\ form.report = s /\ ~ form.readOnly /\ draftRows[s].status = "draft"
          /\ \A c \in inFlight : c.pressed # s
          /\ \A c \in inFlight : c.report = s => c.kind # "detail"
    BY <1>4
  <1> QED
    BY <1>1, <1>2, <1>3, <1>6, <1>7, <1>8, TypedStep

\* What a write of the form finds that is neither forgiven nor waited for.
MayWrite(r) ==
  /\ ~ form.readOnly /\ draftRows[r].status = "draft"
  /\ \A c \in inFlight : c.pressed # r
  /\ \A c \in inFlight : c.report = r => c.kind \in {"upload", "create"}

\* The form is sent: its content with it, or what the row holds already.
LEMMA SentStep ==
  ASSUME FormInv, form.report \in Drafts, NEW kind \in {"save", "submit"},
         NEW pressed \in {form.report, Nothing}, kind = "submit" => pressed = form.report,
         Asks(inFlight, Call(kind, form.report, form.content, pressed)),
         UNCHANGED <<draftRows, home>>,
         forgiven \subseteq forgiven', forgiven' \subseteq Drafts,
         form' \in FormShape, form'.report = form.report, form'.content = form.content,
         form'.host = form.host, form'.readOnly = form.readOnly, form'.pending = form.pending,
         form'.dirty = FALSE,
         kind = "save" => form'.saving,
         kind = "submit" => ~ form.dirty /\ form'.saving = form.saving,
         form.report \notin forgiven' => MayWrite(form.report)
  PROVE  FormInv'
  <1> PICK s : s = form.report
    OBVIOUS
  <1>1. PICK new : /\ inFlight' = inFlight \cup {new}
                   /\ new = [n |-> new.n, kind |-> kind, report |-> s,
                             content |-> form.content, pressed |-> pressed, at |-> "sent"]
    BY AsksOne
  <1>2. /\ FormTyped /\ \A c \in inFlight : FormCall(c)
        /\ s \in Drafts /\ s # Nothing
    BY ReportFormAssumption DEF FormInv, FormTyped
  <1>3. FormTyped'
    <2>1. FormCall(new)'
      BY <1>1, <1>2 DEF FormCall, WriteKinds, FormTyped, FormShape
    <2>2. \A c \in inFlight' : FormCall(c)'
      BY <1>1, <1>2, <2>1, CallStays
    <2> QED
      BY <1>2, <2>2 DEF FormTyped
  <1>4. WritesTheOpen'
    BY <1>1 DEF FormInv, WritesTheOpen
  <1>5. CreatesOne'
    BY <1>1 DEF FormInv, CreatesOne
  <1>6. \A r \in Drafts : EditsOf(r)' = EditsOf(r)
    BY DEF EditsOf
  <1>7. ASSUME NEW r \in Drafts \ forgiven', r # s
        PROVE  FormKeeps(r)'
    <2>1. FormKeeps(r) /\ EditsOf(r)' = EditsOf(r) /\ draftRows'[r] = draftRows[r]
      BY <1>6 DEF FormInv
    <2>2. form.report # r /\ form'.report # r /\ new.report # r /\ new.pressed # r
      BY <1>1, <1>7, ReportFormAssumption
    <2> QED
      BY <1>1, <1>2, <2>1, <2>2, Untouched
  <1>8. ASSUME s \notin forgiven'
        PROVE  FormKeeps(s)'
    <2>1. FormKeeps(s) /\ MayWrite(s) /\ EditsOf(s)' = EditsOf(s)
      BY <1>2, <1>6, <1>8 DEF FormInv
    <2>2. /\ Saves(s) = {} /\ ~ form.saving
          /\ Saves(s)' = IF kind = "save" THEN {new} ELSE {}
      <3>1. Saves(s) = {}
        BY <2>1 DEF MayWrite, Saves
      <3>2. Saves(s)' = IF kind = "save" THEN {new} ELSE {}
        BY <1>1, <3>1 DEF Saves
      <3> QED
        BY <2>1, <3>1, <3>2 DEF FormKeeps, SavesOnce
    <2>3. /\ form.content = EditsOf(s) /\ ~ form.pending
          /\ draftRows[s].content \subseteq EditsOf(s)
      BY <2>1, <2>2 DEF FormKeeps, FormHolds, RowHolds
    <2>4. FormHolds(s)'
      BY <2>1, <2>3 DEF FormHolds
    <2>5. RowHolds(s)'
      <3>1. CASE kind = "save"
        BY <1>1, <2>1, <2>2, <2>3, <3>1 DEF RowHolds
      <3>2. CASE kind = "submit"
        BY <2>1, <2>2, <2>3, <3>2 DEF FormKeeps, RowHolds
      <3> QED
        BY <3>1, <3>2
    <2>6. SavesOnce(s)'
      BY <1>1, <2>1, <2>2, <2>3 DEF SavesOnce
    <2>7. SubmitsAlone(s)'
      <3>1. \A c \in inFlight' : c.pressed = s => c = new
        BY <1>1, <2>1 DEF MayWrite
      <3>2. \A c \in inFlight' : c.kind \in {"save", "submit"} /\ c.report = s => c = new
        BY <1>1, <2>1 DEF MayWrite
      <3> QED
        BY <1>1, <3>1, <3>2 DEF SubmitsAlone
    <2>8. SubmittedInv(s)' /\ AbsentInv(s)'
      BY <2>1 DEF SubmittedInv, AbsentInv, MayWrite
    <2>9. OpensAsIs(s)'
      BY <1>1, <2>1 DEF OpensAsIs, MayWrite
    <2> QED
      BY <2>4, <2>5, <2>6, <2>7, <2>8, <2>9 DEF FormKeeps
  <1> QED
    BY <1>3, <1>4, <1>5, <1>7, <1>8 DEF FormInv

\* Submit, or Save, pressed with no call of the report on its way.
LEMMA PressedAlone ==
  ASSUME FormInv, Editing, form.report \notin forgiven,
         \A c \in inFlight : c.report = form.report => c.kind = "detail"
  PROVE  MayWrite(form.report)
  <1>1. /\ form.report \in Drafts /\ FormKeeps(form.report)
        /\ draftRows[form.report].status # "absent"
        /\ \A c \in inFlight : c.report = form.report => c.kind # "detail"
        /\ draftRows[form.report].status = "submitted" =>
             \E c \in inFlight : c.pressed = form.report
    BY EditingIsDraft
  <1>2. \A c \in inFlight : c.report # form.report
    BY <1>1
  <1>3. \A c \in inFlight : c.pressed # form.report
    BY <1>1, <1>2 DEF FormKeeps, SubmitsAlone
  <1>4. draftRows[form.report].status \in {"absent", "draft", "submitted"}
    BY <1>1 DEF FormInv, FormTyped
  <1> QED
    BY <1>1, <1>2, <1>3, <1>4 DEF MayWrite, Editing

LEMMA PressFormStep ==
  ASSUME FormInv, PressSave \/ PressSubmit
  PROVE  FormInv'
  <1>1. /\ Editing /\ UNCHANGED <<draftRows, home>>
        /\ forgiven' = forgiven \cup
             ({r \in {form.report} : \E c \in inFlight : c.report = r /\ c.kind # "detail"}
                \cap Drafts)
    BY DEF PressSave, PressSubmit, Pressed, Forgive
  <1>2. /\ form.report \in Drafts /\ forgiven \subseteq forgiven' /\ forgiven' \subseteq Drafts
        /\ FormTyped
    BY <1>1, EditingIsDraft DEF FormInv, FormTyped
  <1>3. form.report \notin forgiven' => MayWrite(form.report)
    BY <1>1, <1>2, PressedAlone
  <1>4. ASSUME NEW pressed \in {form.report, Nothing}, form' = SavingForm(form),
               Asks(inFlight, Call("save", form.report, form.content, pressed))
        PROVE  FormInv'
    <2>1. /\ form' \in FormShape /\ form'.report = form.report /\ form'.content = form.content
          /\ form'.host = form.host /\ form'.readOnly = form.readOnly
          /\ form'.pending = form.pending /\ form'.dirty = FALSE /\ form'.saving
      BY <1>2, <1>4 DEF SavingForm, FormTyped, FormShape
    <2> QED
      BY <1>1, <1>2, <1>3, <1>4, <2>1, SentStep
  <1>5. CASE PressSave
    BY <1>4, <1>5 DEF PressSave
  <1>6. CASE PressSubmit /\ form.dirty
    BY <1>4, <1>6 DEF PressSubmit
  <1>7. CASE PressSubmit /\ ~ form.dirty
    <2>1. /\ form' = form
          /\ Asks(inFlight, Call("submit", form.report, form.content, form.report))
      BY <1>7 DEF PressSubmit
    <2>2. form' \in FormShape /\ form'.dirty = FALSE
      BY <1>2, <1>7, <2>1 DEF FormTyped, FormShape
    <2> QED
      BY <1>1, <1>2, <1>3, <1>7, <2>1, <2>2, SentStep
  <1> QED
    BY <1>5, <1>6, <1>7

LEMMA TimerFiresStep == FormInv /\ TimerFires => FormInv'
  <1> SUFFICES ASSUME FormInv, TimerFires PROVE FormInv'
    OBVIOUS
  <1> PICK f : f = [form EXCEPT !.timer = FALSE]
    OBVIOUS
  <1>1. RunAutosave(f) /\ UNCHANGED <<draftRows, home, forgiven>>
    BY DEF TimerFires
  <1>2. FormTyped /\ form \in FormShape
    BY DEF FormInv, FormTyped
  <1>3. /\ f \in FormShape /\ f.report = form.report /\ f.content = form.content
        /\ f.host = form.host /\ f.readOnly = form.readOnly /\ f.pending = form.pending
        /\ f.dirty = form.dirty /\ f.saving = form.saving
    BY <1>2 DEF FormShape
  <1>4. CASE form.dirty /\ ~ form.readOnly /\ ~ form.saving /\ form.report # Nothing
    <2>1. /\ form' = [f EXCEPT !.saving = TRUE, !.dirty = FALSE]
          /\ Asks(inFlight, Call("save", form.report, form.content, Nothing))
      BY <1>1, <1>3, <1>4 DEF RunAutosave, SavingForm
    <2>2. /\ form' \in FormShape /\ form'.report = form.report /\ form'.content = form.content
          /\ form'.host = form.host /\ form'.readOnly = form.readOnly
          /\ form'.pending = form.pending /\ form'.dirty = FALSE /\ form'.saving
      BY <1>3, <2>1 DEF FormShape
    <2>3. form.report \in Drafts /\ forgiven \subseteq Drafts
      BY <1>2, <1>4 DEF FormTyped, FormShape
    <2>4. form.report \notin forgiven => MayWrite(form.report)
      <3> SUFFICES ASSUME form.report \notin forgiven PROVE MayWrite(form.report)
        OBVIOUS
      <3>1. FormKeeps(form.report) /\ draftRows[form.report].status \in {"absent", "draft", "submitted"}
        BY <1>2, <2>3 DEF FormInv, FormTyped
      <3>2. Saves(form.report) = {} /\ \A c \in inFlight : c.pressed # form.report
        BY <1>4, <3>1 DEF FormKeeps, SavesOnce, SubmitsAlone
      <3>3. \A c \in inFlight : c.report = form.report => c.kind \in {"upload", "create"}
        <4>1. \A c \in inFlight : c.kind \in {"save", "submit", "upload", "detail", "create"}
          BY <1>2 DEF FormTyped, FormCall, WriteKinds
        <4> QED
          BY <1>4, <3>1, <3>2, <4>1 DEF FormKeeps, SubmitsAlone, OpensAsIs,
                                        Saves
      <3>4. draftRows[form.report].status = "draft"
        BY <1>4, <3>1, <3>2 DEF FormKeeps, SubmittedInv, AbsentInv
      <3> QED
        BY <1>4, <3>2, <3>3, <3>4 DEF MayWrite
    <2> QED
      BY <1>1, <2>1, <2>2, <2>3, <2>4, SentStep
  <1>5. CASE ~ (form.dirty /\ ~ form.readOnly /\ ~ form.saving /\ form.report # Nothing)
    <2>1. /\ inFlight' = inFlight
          /\ \/ form' = f /\ (~ form.dirty \/ form.readOnly \/ form.report = Nothing)
             \/ form' = [f EXCEPT !.pending = TRUE] /\ form.dirty /\ ~ form.readOnly /\ form.saving
      <3>1. CASE ~ form.dirty \/ form.readOnly \/ (~ form.saving /\ form.report = Nothing)
        BY <1>1, <1>3, <3>1 DEF RunAutosave, Rests
      <3>2. CASE form.dirty /\ ~ form.readOnly /\ form.saving
        BY <1>1, <1>3, <3>2 DEF RunAutosave, Rests
      <3> QED
        BY <1>5, <3>1, <3>2
    <2>2. /\ form' \in FormShape /\ form'.report = form.report /\ form'.content = form.content
          /\ form'.host = form.host /\ form'.readOnly = form.readOnly
          /\ form'.dirty = form.dirty /\ form'.saving = form.saving
          /\ \/ form'.pending = form.pending
                  /\ (~ form.dirty \/ form.readOnly \/ form.report = Nothing)
             \/ form'.pending /\ form.dirty /\ ~ form.readOnly /\ form.saving
      BY <1>3, <2>1 DEF FormShape
    <2>3. FormTyped'
      BY <1>1, <1>2, <2>1, <2>2 DEF FormTyped, FormCall
    <2>4. WritesTheOpen' /\ CreatesOne'
      BY <1>1, <2>1, <2>2 DEF FormInv, WritesTheOpen, CreatesOne
    <2>5. ASSUME NEW r \in Drafts \ forgiven' PROVE FormKeeps(r)'
      <3>1. FormKeeps(r) /\ EditsOf(r)' = EditsOf(r)
        BY <1>1 DEF FormInv, EditsOf
      <3>2. FormHolds(r)'
        BY <2>2, <3>1, ReportFormAssumption DEF FormKeeps, FormHolds
      <3>3. \A c \in inFlight : FormCall(c)
        BY <1>2 DEF FormTyped
      <3> QED
        BY <1>1, <2>1, <2>2, <3>1, <3>2, <3>3, Untouched
    <2> QED
      BY <2>3, <2>4, <2>5 DEF FormInv
  <1> QED
    BY <1>4, <1>5

\* The file is on its way: the form of a draft, which nobody opens.
LEMMA UploadStep == FormInv /\ Upload => FormInv'
  <1> SUFFICES ASSUME FormInv, Upload PROVE FormInv'
    OBVIOUS
  <1> PICK s : s = form.report
    OBVIOUS
  <1>1. /\ Editing /\ Asks(inFlight, Call("upload", s, {}, Nothing))
        /\ UNCHANGED <<form, draftRows, home, forgiven>>
    BY DEF Upload
  <1>2. PICK new : /\ inFlight' = inFlight \cup {new}
                   /\ new = [n |-> new.n, kind |-> "upload", report |-> s, content |-> {},
                             pressed |-> Nothing, at |-> "sent"]
    BY <1>1, AsksOne
  <1>3. s \in Drafts /\ s # Nothing /\ FormTyped
    BY <1>1, EditingIsDraft, ReportFormAssumption DEF FormInv
  <1>4. FormTyped'
    <2>1. FormCall(new)'
      BY <1>2, <1>3 DEF FormCall, WriteKinds
    <2>2. \A c \in inFlight' : FormCall(c)'
      BY <1>1, <1>2, <1>3, <2>1, CallStays DEF FormTyped
    <2> QED
      BY <1>1, <1>3, <2>2 DEF FormTyped
  <1>5. WritesTheOpen' /\ CreatesOne'
    BY <1>1, <1>2 DEF FormInv, WritesTheOpen, CreatesOne
  <1>6. ASSUME NEW r \in Drafts \ forgiven'
        PROVE  FormKeeps(r)'
    <2>1. FormKeeps(r) /\ EditsOf(r)' = EditsOf(r) /\ Saves(r)' = Saves(r)
      BY <1>1, <1>2 DEF FormInv, EditsOf, Saves
    <2>2. FormHolds(r)' /\ RowHolds(r)' /\ SavesOnce(r)'
      BY <1>1, <2>1 DEF FormKeeps, FormHolds, RowHolds, SavesOnce
    <2>3. SubmitsAlone(r)'
      BY <1>1, <1>2, <2>1, ReportFormAssumption DEF FormKeeps, SubmitsAlone
    <2>4. SubmittedInv(r)'
      BY <1>1, <1>2, <2>1 DEF FormKeeps, SubmittedInv
    <2>5. r = s => /\ draftRows[r].status # "absent"
                   /\ \A c \in inFlight : c.report = r => c.kind # "detail"
      BY <1>1, EditingIsDraft
    <2>6. AbsentInv(r)'
      BY <1>1, <1>2, <2>1, <2>5 DEF FormKeeps, AbsentInv
    <2>7. OpensAsIs(r)'
      BY <1>1, <1>2, <2>1, <2>5 DEF FormKeeps, OpensAsIs
    <2> QED
      BY <2>2, <2>3, <2>4, <2>6, <2>7 DEF FormKeeps
  <1> QED
    BY <1>4, <1>5, <1>6 DEF FormInv

\* A call is over, with no more to it; the form is as it was.
LEMMA CallOver ==
  ASSUME FormInv, NEW c \in inFlight,
         c.kind \in {"upload", "detail", "create"},
         inFlight' = inFlight \ {c},
         UNCHANGED <<draftRows, home, forgiven>>,
         \/ form' = form
         \/ form' = [form EXCEPT !.host = "busy"]
  PROVE  FormInv'
  <1>1. FormTyped /\ form \in FormShape
    BY DEF FormInv, FormTyped
  <1>2. /\ form' \in FormShape /\ form'.report = form.report /\ form'.content = form.content
        /\ form'.dirty = form.dirty /\ form'.saving = form.saving
        /\ form'.readOnly = form.readOnly /\ form'.timer = form.timer
        /\ form'.pending = form.pending
        /\ form'.host = form.host \/ form'.host # "form"
    BY <1>1 DEF FormShape
  <1>3. FormTyped'
    BY <1>1, <1>2, CallStays DEF FormTyped
  <1>4. WritesTheOpen' /\ CreatesOne'
    BY <1>2 DEF FormInv, WritesTheOpen, CreatesOne
  <1>5. ASSUME NEW r \in Drafts \ forgiven' PROVE FormKeeps(r)'
    <2>1. FormKeeps(r) /\ EditsOf(r)' = EditsOf(r)
      BY DEF FormInv, EditsOf
    <2>2. \A d \in inFlight : FormCall(d)
      BY <1>1 DEF FormTyped
    <2>3. c.kind \notin {"save", "submit"}
      OBVIOUS
    <2> QED
      BY <1>2, <2>1, <2>2, <2>3, Untouched
  <1> QED
    BY <1>3, <1>4, <1>5 DEF FormInv

LEMMA UploadAnsweredStep ==
  ASSUME FormInv, NEW c \in inFlight, UploadAnswered(c), UNCHANGED draftRows
  PROVE  FormInv'
  <1>1. c.kind = "upload" /\ inFlight' = inFlight \ {c} /\ FormTyped /\ FormCall(c)
    BY DEF UploadAnswered, Rests, FormInv, FormTyped
  <1>2. CASE UNCHANGED <<form, home, forgiven>>
    BY <1>1, <1>2, CallOver
  <1>3. CASE ~ UNCHANGED <<form, home, forgiven>>
    <2> PICK s : s = c.report
      OBVIOUS
    <2>1. /\ Made # EditIds /\ c.at = "done" /\ form' = SetFieldValue(form, NextEdit)
          /\ home' = [home EXCEPT ![NextEdit] = s]
          /\ forgiven' = forgiven \cup
               ({r \in {s} : form.readOnly \/ \E d \in inFlight : d.pressed = r} \cap Drafts)
      BY <1>3 DEF UploadAnswered, Forgive
    <2>2. s \in Drafts /\ s # Nothing /\ forgiven \subseteq Drafts
      BY <1>1, ReportFormAssumption DEF FormTyped, FormCall
    <2>3. forgiven \subseteq forgiven' /\ forgiven' \subseteq Drafts
      BY <2>1, <2>2
    <2>4. PICK gone \in SUBSET inFlight : gone = {c}
      OBVIOUS
    <2>5. /\ \A d \in gone : d.kind = "upload"
          /\ inFlight' = inFlight \ gone /\ draftRows' = draftRows
      BY <1>1, <2>4
    <2>6. s = form.report \/ {s, form.report} \subseteq forgiven \cup {Nothing}
      BY <1>1 DEF FormInv, WritesTheOpen, WriteKinds
    <2>7. form.report # s => form.report \in forgiven' \cup {Nothing}
      BY <2>3, <2>6
    <2>8. ASSUME s \notin forgiven'
          PROVE  /\ form.report = s /\ ~ form.readOnly /\ draftRows[s].status = "draft"
                 /\ \A d \in inFlight : d.pressed # s
                 /\ \A d \in inFlight : d.report = s => d.kind # "detail"
      <3>1. form.report = s /\ ~ form.readOnly /\ \A d \in inFlight : d.pressed # s
        BY <2>1, <2>2, <2>3, <2>6, <2>8
      <3>2. FormKeeps(s) /\ draftRows[s].status \in {"absent", "draft", "submitted"}
        BY <2>2, <2>3, <2>8, <1>1 DEF FormInv, FormTyped
      <3>3. draftRows[s].status = "draft"
        BY <3>1, <3>2 DEF FormKeeps, SubmittedInv, AbsentInv
      <3>4. \A d \in inFlight : d.kind = "detail" /\ d.report = s => c = d
        BY <1>1, <3>2 DEF FormKeeps, OpensAsIs
      <3> QED
        BY <1>1, <3>1, <3>3, <3>4
    <2> QED
      BY <2>1, <2>2, <2>3, <2>5, <2>7, <2>8, TypedStep
  <1> QED
    BY <1>2, <1>3

\* Who leaves a report, or comes to one, loses what may be lost.
LEMMA LeavingForgives ==
  ASSUME NEW r, NEW coming, Leaving(r, coming), forgiven \subseteq Drafts
  PROVE  /\ forgiven \subseteq forgiven' /\ forgiven' \subseteq Drafts
         /\ \A q \in Drafts \ forgiven' :
              /\ q = form.report => ~ form.dirty
              /\ q \in {form.report, r} => \A d \in coming : d.kind \notin WriteKinds
              /\ q = r => \A d \in coming : ~ (d.kind = "detail" /\ d.report = r)
  <1>1. forgiven' = forgiven \cup
          (({q \in {form.report} : form.dirty}
            \cup {q \in {form.report, r} :
                    \E c \in coming : c.kind \in {"save", "submit", "upload"}}
            \cup {q \in {r} : \E c \in coming : c.kind = "detail" /\ c.report = q})
           \cap Drafts)
    BY DEF Leaving, Forgive
  <1> QED
    BY <1>1 DEF WriteKinds

\* A report that is not open any more, and had nothing to lose.
LEMMA LeftBehind ==
  ASSUME NEW r \in Drafts, FormKeeps(r), (\A c \in inFlight : FormCall(c)),
         form.report = r =>
           ~ form.dirty /\ \A c \in inFlight : c.kind \notin WriteKinds,
         \A c : c.report = r \/ c.pressed = r =>
           /\ c \in inFlight' => c \in inFlight
           /\ c \in inFlight /\ c.kind \in {"save", "submit"} => c \in inFlight',
         draftRows'[r] = draftRows[r], EditsOf(r)' = EditsOf(r), form'.report # r
  PROVE  FormKeeps(r)'
  <1>1. Saves(r)' = Saves(r) /\ Saves(r) = {}
    BY DEF Saves, FormKeeps, SavesOnce, WriteKinds
  <1>2. \A c \in inFlight : c.pressed = r => c.kind \in {"save", "submit"}
    BY ReportFormAssumption DEF FormCall
  <1>3. \A c \in inFlight : c.pressed # r
    BY <1>2 DEF FormKeeps, SubmitsAlone, WriteKinds
  <1>4. FormHolds(r)' /\ RowHolds(r)' /\ SavesOnce(r)'
    BY <1>1 DEF FormKeeps, FormHolds, RowHolds, SavesOnce
  <1>5. SubmitsAlone(r)'
    BY <1>2, <1>3 DEF FormKeeps, SubmitsAlone
  <1>6. SubmittedInv(r)' /\ AbsentInv(r)' /\ OpensAsIs(r)'
    BY DEF FormKeeps, SubmittedInv, AbsentInv, OpensAsIs
  <1> QED
    BY <1>4, <1>5, <1>6 DEF FormKeeps

\* A draft is asked for: with nothing on its way that writes it or reads it.
LEMMA OpeningStep ==
  ASSUME FormInv, NEW s \in Drafts, NEW gone \in SUBSET inFlight,
         \A c \in gone : c.kind = "create", form' = Busy,
         Asks(inFlight \ gone, Call("detail", s, {}, Nothing)),
         Leaving(s, inFlight \ gone), UNCHANGED <<draftRows, home>>,
         s \notin forgiven' => draftRows[s].status # "absent"
  PROVE  FormInv'
  <1> PICK kept : kept = inFlight \ gone
    OBVIOUS
  <1>1. PICK new : /\ inFlight' = kept \cup {new}
                   /\ new = [n |-> new.n, kind |-> "detail", report |-> s, content |-> {},
                             pressed |-> Nothing, at |-> "sent"]
    BY AsksOne
  <1>2. FormTyped /\ form \in FormShape
    BY DEF FormInv, FormTyped
  <1>3. /\ forgiven \subseteq forgiven' /\ forgiven' \subseteq Drafts
        /\ \A q \in Drafts \ forgiven' :
             /\ q = form.report => ~ form.dirty
             /\ q = s => \A d \in kept : d.kind \notin WriteKinds
             /\ q = s => \A d \in kept : ~ (d.kind = "detail" /\ d.report = s)
    BY <1>2, LeavingForgives DEF FormTyped
  <1>4. /\ form' \in FormShape /\ form'.report = form.report /\ form'.content = form.content
        /\ form'.dirty = form.dirty /\ form'.saving = form.saving
        /\ form'.readOnly = form.readOnly /\ form'.pending = form.pending
        /\ form'.host = "busy"
    BY <1>2 DEF FormShape, Busy
  <1>5. FormTyped'
    <2>1. FormCall(new)'
      BY <1>1 , ReportFormAssumption DEF FormCall, WriteKinds
    <2>2. \A c \in inFlight' : FormCall(c)'
      BY <1>1, <1>2, <1>3, <2>1, CallStays DEF FormTyped
    <2> QED
      BY <1>2, <1>3, <1>4, <2>2 DEF FormTyped
  <1>6. WritesTheOpen' /\ CreatesOne'
    BY <1>1, <1>3, <1>4 DEF FormInv, WritesTheOpen, CreatesOne, WriteKinds
  <1>7. ASSUME NEW r \in Drafts \ forgiven' PROVE FormKeeps(r)'
    <2>1. FormKeeps(r) /\ EditsOf(r)' = EditsOf(r) /\ draftRows'[r] = draftRows[r]
      BY <1>3 DEF FormInv, EditsOf
    <2>2. FormHolds(r)'
      BY <1>3, <1>4, <2>1 DEF FormKeeps, FormHolds
    <2>3. \A c \in inFlight : FormCall(c)
      BY <1>2 DEF FormTyped
    <2>4. CASE r # s
      <3>1. new.report # r /\ new.pressed # r
        BY <1>1, <2>4, ReportFormAssumption
      <3>2. \A c : c.report = r \/ c.pressed = r =>
              /\ c \in inFlight' => c \in inFlight
              /\ c \in inFlight /\ c.kind \in {"save", "submit"} => c \in inFlight'
        BY <1>1, <3>1
      <3> QED
        BY <1>4, <2>1, <2>2, <2>3, <3>2, Untouched
    <2>5. CASE r = s
      <3>1. /\ \A d \in kept : d.kind \notin WriteKinds
            /\ \A d \in kept : ~ (d.kind = "detail" /\ d.report = r)
            /\ draftRows[r].status # "absent"
        BY <1>3, <2>5
      <3>2. Saves(r)' = {} /\ Saves(r) = {}
        BY <1>1, <3>1 DEF Saves, WriteKinds
      <3>3. RowHolds(r)' /\ SavesOnce(r)'
        BY <1>4, <2>1, <3>2 DEF FormKeeps, RowHolds, SavesOnce
      <3>4. \A c \in inFlight : c.pressed # r
        <4>1. \A c \in inFlight : c.pressed = r => c.kind \in {"save", "submit"}
          BY <2>3, ReportFormAssumption DEF FormCall
        <4> QED
          BY <3>1, <4>1 DEF WriteKinds
      <3>5. SubmitsAlone(r)'
        BY <1>1, <3>1, <3>4, ReportFormAssumption DEF SubmitsAlone, WriteKinds
      <3>6. SubmittedInv(r)' /\ AbsentInv(r)'
        BY <1>4, <2>1, <3>1, <3>4 DEF FormKeeps, SubmittedInv, AbsentInv
      <3>7. OpensAsIs(r)'
        <4>1. \A d \in inFlight' : d.kind # "create" /\ d.report = r => d = new
          BY <1>1, <1>2, <3>1 DEF FormTyped, FormCall
        <4>2. form'.report = r => form'.host # "form" /\ ~ form'.dirty
          BY <1>3, <1>4
        <4> QED
          BY <1>1, <4>1, <4>2 DEF OpensAsIs
      <3> QED
        BY <2>2, <3>3, <3>5, <3>6, <3>7 DEF FormKeeps
    <2> QED
      BY <2>4, <2>5
  <1> QED
    BY <1>5, <1>6, <1>7 DEF FormInv

LEMMA OpenStep == ASSUME FormInv, NEW s \in Drafts, Open(s) PROVE FormInv'
  <1>1. PICK gone \in SUBSET inFlight : gone = {}
    OBVIOUS
  <1>2. inFlight \ gone = inFlight /\ \A c \in gone : c.kind = "create"
    BY <1>1
  <1>3. /\ form' = Busy /\ Asks(inFlight \ gone, Call("detail", s, {}, Nothing))
        /\ Leaving(s, inFlight \ gone) /\ UNCHANGED <<draftRows, home>>
        /\ draftRows[s].status # "absent"
    BY <1>2 DEF Open
  <1> QED
    BY <1>2, <1>3, OpeningStep

LEMMA CreateAnsweredStep ==
  ASSUME FormInv, NEW c \in inFlight, CreateAnswered(c), UNCHANGED draftRows
  PROVE  FormInv'
  <1>1. c.kind = "create" /\ FormCall(c) /\ UNCHANGED <<draftRows, home>>
    BY DEF CreateAnswered, FormInv, FormTyped
  <1>2. CASE c.at # "done"
    <2>1. inFlight' = inFlight \ {c} /\ UNCHANGED <<form, forgiven>>
      BY <1>2 DEF CreateAnswered, Rests
    <2> QED
      BY <1>1, <2>1, CallOver
  <1>3. CASE c.at = "done"
    <2>1. PICK gone \in SUBSET inFlight : gone = {c}
      OBVIOUS
    <2>2. PICK s : s = c.report
      OBVIOUS
    <2>3. s \in Drafts /\ \A d \in gone : d.kind = "create"
      BY <1>1, <2>1, <2>2 DEF FormCall
    <2>4. /\ form' = Busy /\ Asks(inFlight \ gone, Call("detail", s, {}, Nothing))
          /\ Leaving(s, inFlight \ gone)
      BY <1>3, <2>1, <2>2 DEF CreateAnswered
    <2>5. forgiven \subseteq forgiven'
      BY <2>4, LeavingForgives DEF FormInv, FormTyped
    <2>6. s \notin forgiven' => draftRows[s].status # "absent"
      BY <1>3, <2>2, <2>3, <2>5 DEF FormInv, FormKeeps, AbsentInv
    <2> QED
      BY <1>1, <2>3, <2>4, <2>6, OpeningStep
  <1> QED
    BY <1>2, <1>3

LEMMA StartNewStep == ASSUME FormInv, NEW s \in Drafts, StartNew(s) PROVE FormInv'
  <1>1. /\ draftRows[s].status = "absent" /\ \A c \in inFlight : c.kind # "create"
        /\ form' = [form EXCEPT !.host = "busy"]
        /\ Asks(inFlight, Call("create", s, {}, Nothing))
        /\ UNCHANGED <<draftRows, home, forgiven>>
    BY DEF StartNew
  <1>2. PICK new : /\ inFlight' = inFlight \cup {new}
                   /\ new = [n |-> new.n, kind |-> "create", report |-> s, content |-> {},
                             pressed |-> Nothing, at |-> "sent"]
    BY <1>1, AsksOne
  <1>3. FormTyped /\ form \in FormShape /\ \A c \in inFlight : FormCall(c)
    BY DEF FormInv, FormTyped
  <1>4. /\ form' \in FormShape /\ form'.report = form.report /\ form'.content = form.content
        /\ form'.dirty = form.dirty /\ form'.saving = form.saving
        /\ form'.readOnly = form.readOnly /\ form'.pending = form.pending
        /\ form'.timer = form.timer /\ form'.host = "busy"
    BY <1>1, <1>3 DEF FormShape
  <1>5. FormTyped'
    <2>1. FormCall(new)'
      BY <1>2, ReportFormAssumption DEF FormCall, WriteKinds
    <2>2. \A c \in inFlight' : FormCall(c)'
      BY <1>1, <1>2, <1>3, <2>1, CallStays
    <2> QED
      BY <1>1, <1>3, <1>4, <2>2 DEF FormTyped
  <1>6. WritesTheOpen' /\ CreatesOne'
    BY <1>1, <1>2, <1>4 DEF FormInv, WritesTheOpen, CreatesOne, WriteKinds
  <1>7. ASSUME NEW r \in Drafts \ forgiven' PROVE FormKeeps(r)'
    <2>1. FormKeeps(r) /\ EditsOf(r)' = EditsOf(r) /\ draftRows'[r] = draftRows[r]
      BY <1>1 DEF FormInv, EditsOf
    <2>2. CASE r # s
      <3>1. new.report # r /\ new.pressed # r
        BY <1>2, <2>2, ReportFormAssumption
      <3>2. \A c : c.report = r \/ c.pressed = r =>
              /\ c \in inFlight' => c \in inFlight
              /\ c \in inFlight /\ c.kind \in {"save", "submit"} => c \in inFlight'
        BY <1>2, <3>1
      <3> QED
        BY <1>3, <1>4, <2>1, <3>2, Untouched
    <2>3. CASE r = s
      <3>1. /\ EditsOf(r) = {} /\ form.report # r /\ form'.report # r
            /\ \A c \in inFlight' : c.report = r => c.kind = "create" /\ c.at # "done"
        BY <1>1, <1>2, <1>4, <2>1, <2>3 DEF FormKeeps, AbsentInv
      <3>2. Saves(r)' = {} /\ Saves(r) = {}
        BY <1>2, <3>1 DEF Saves
      <3>3. FormHolds(r)' /\ RowHolds(r)' /\ SavesOnce(r)'
        BY <2>1, <3>1, <3>2 DEF FormKeeps, FormHolds, RowHolds, SavesOnce
      <3>4. SubmitsAlone(r)'
        BY <1>2, <2>1, <3>1, ReportFormAssumption DEF FormKeeps, SubmitsAlone
      <3>5. SubmittedInv(r)' /\ AbsentInv(r)' /\ OpensAsIs(r)'
        BY <1>1, <2>1, <2>3, <3>1 DEF SubmittedInv, AbsentInv, OpensAsIs
      <3> QED
        BY <3>3, <3>4, <3>5 DEF FormKeeps
    <2> QED
      BY <2>2, <2>3
  <1> QED
    BY <1>5, <1>6, <1>7 DEF FormInv

LEMMA CloseStep == FormInv /\ Close => FormInv'
  <1> SUFFICES ASSUME FormInv, Close PROVE FormInv'
    OBVIOUS
  <1>1. /\ form' = [form EXCEPT !.timer = FALSE, !.host = "hidden", !.report = Nothing]
        /\ Leaving(form.report, inFlight) /\ UNCHANGED <<draftRows, inFlight, numCalls, home>>
    BY DEF Close
  <1>2. FormTyped /\ form \in FormShape /\ \A c \in inFlight : FormCall(c)
    BY DEF FormInv, FormTyped
  <1>3. form' \in FormShape /\ form'.report = Nothing
    BY <1>1, <1>2 DEF FormShape
  <1>4. /\ forgiven \subseteq forgiven' /\ forgiven' \subseteq Drafts
        /\ \A q \in Drafts \ forgiven' : q = form.report =>
             ~ form.dirty /\ \A d \in inFlight : d.kind \notin WriteKinds
    BY <1>1, <1>2, LeavingForgives DEF FormTyped
  <1>5. FormTyped'
    BY <1>1, <1>2, <1>3, <1>4, CallStays DEF FormTyped
  <1>6. WritesTheOpen' /\ CreatesOne'
    <2>1. form.report \in Drafts \cup {Nothing}
      BY <1>2 DEF FormShape
    <2> QED
      BY <1>1, <1>3, <1>4, <2>1 DEF FormInv, WritesTheOpen, CreatesOne
  <1>7. ASSUME NEW r \in Drafts \ forgiven' PROVE FormKeeps(r)'
    <2>1. FormKeeps(r) /\ EditsOf(r)' = EditsOf(r) /\ draftRows'[r] = draftRows[r]
      BY <1>1, <1>4 DEF FormInv, EditsOf
    <2>2. form'.report # r
      BY <1>3, ReportFormAssumption
    <2> QED
      BY <1>1, <1>2, <1>4, <2>1, <2>2, LeftBehind
  <1> QED
    BY <1>5, <1>6, <1>7 DEF FormInv

LEMMA DetailAnsweredStep ==
  ASSUME FormInv, NEW c \in inFlight, DetailAnswered(c), c.at # "sent", UNCHANGED draftRows
  PROVE  FormInv'
  <1> PICK s : s = c.report
    OBVIOUS
  <1> PICK kept : kept = inFlight \ {c}
    OBVIOUS
  <1>1. c.kind = "detail" /\ inFlight' = kept /\ UNCHANGED <<draftRows, home>>
    BY DEF DetailAnswered, Rests
  <1>2. FormTyped /\ form \in FormShape /\ \A d \in inFlight : FormCall(d)
    BY DEF FormInv, FormTyped
  <1>3. s \in Drafts /\ s # Nothing
    BY <1>1, <1>2, ReportFormAssumption DEF FormCall
  <1>4. CASE c.at = "failed"
    <2>1. /\ form' = [form EXCEPT !.host = IF @ = "hidden" THEN @ ELSE "busy"]
          /\ UNCHANGED forgiven
      BY <1>4 DEF DetailAnswered
    <2>2. form' = form \/ form' = [form EXCEPT !.host = "busy"]
      BY <1>2, <2>1 DEF FormShape
    <2> QED
      BY <1>1, <2>1, <2>2, CallOver
  <1>5. CASE c.at # "failed"
    <2>1. /\ form' = [Opened(s, c.content, c.at # "draft", form.timer)
                      EXCEPT !.host = IF form.host = "hidden" THEN "hidden" ELSE "form"]
          /\ Leaving(s, kept)
      BY <1>5 DEF DetailAnswered
    <2>2. /\ form' \in FormShape /\ form'.report = s /\ form'.content = c.content
          /\ form'.readOnly = (c.at # "draft") /\ ~ form'.saving /\ ~ form'.dirty
          /\ ~ form'.pending
      <3>1. c.content \in SUBSET EditIds /\ form.timer \in BOOLEAN
        BY <1>1, <1>2 DEF FormShape, FormCall
      <3>2. PICK locked \in BOOLEAN : locked = (c.at # "draft")
        OBVIOUS
      <3>3. PICK open : open = Opened(s, c.content, locked, form.timer)
        OBVIOUS
      <3>4. /\ open \in FormShape /\ open.report = s /\ open.content = c.content
            /\ open.readOnly = locked /\ ~ open.saving /\ ~ open.dirty /\ ~ open.pending
        BY <1>3, <3>1, <3>3 DEF FormShape, Opened
      <3>5. PICK host \in {"hidden", "form"} :
              host = IF form.host = "hidden" THEN "hidden" ELSE "form"
        OBVIOUS
      <3>6. form' = [open EXCEPT !.host = host]
        BY <2>1, <3>2, <3>3, <3>5
      <3> QED
        BY <3>2, <3>4, <3>5, <3>6 DEF FormShape
    <2>3. /\ forgiven \subseteq forgiven' /\ forgiven' \subseteq Drafts
          /\ \A q \in Drafts \ forgiven' :
               /\ q = form.report => ~ form.dirty
               /\ q \in {form.report, s} => \A d \in kept : d.kind \notin WriteKinds
               /\ q = s => \A d \in kept : ~ (d.kind = "detail" /\ d.report = s)
      BY <1>2, <2>1, LeavingForgives DEF FormTyped
    <2>4. FormTyped'
      BY <1>1, <1>2, <2>2, <2>3, CallStays DEF FormTyped
    <2>5. WritesTheOpen' /\ CreatesOne'
      <3>1. form.report \in Drafts \cup {Nothing}
        BY <1>2 DEF FormShape
      <3>2. ASSUME NEW d \in kept, d.kind \in WriteKinds
            PROVE  {d.report, s} \subseteq forgiven' \cup {Nothing}
        <4>1. {form.report, s} \subseteq forgiven' \cup {Nothing}
          BY <1>3, <2>3, <3>1, <3>2
        <4>2. d.report = form.report \/ d.report \in forgiven \cup {Nothing}
          BY <3>2 DEF FormInv, WritesTheOpen
        <4> QED
          BY <2>3, <4>1, <4>2
      <3> QED
        BY <1>1, <2>2, <3>2 DEF FormInv, WritesTheOpen, CreatesOne
    <2>6. ASSUME NEW r \in Drafts \ forgiven' PROVE FormKeeps(r)'
      <3>1. FormKeeps(r) /\ EditsOf(r)' = EditsOf(r) /\ draftRows'[r] = draftRows[r]
        BY <1>1, <2>3 DEF FormInv, EditsOf
      <3>2. CASE r # s
        <4>1. form.report = r =>
                ~ form.dirty /\ \A d \in inFlight : d.kind \notin WriteKinds
          BY <1>1, <2>3 DEF WriteKinds
        <4>2. form'.report # r
          BY <2>2, <3>2
        <4> QED
          BY <1>1, <1>2, <3>1, <4>1, <4>2, LeftBehind
      <3>3. CASE r = s
        <4>1. /\ \A d \in kept : d.kind \notin WriteKinds
              /\ \A d \in kept : ~ (d.kind = "detail" /\ d.report = r)
          BY <2>3, <3>3
        <4>2. /\ c.content = draftRows[r].content /\ c.at = draftRows[r].status
              /\ form.report = r => ~ form.dirty
          BY <1>1, <1>5, <3>1, <3>3 DEF FormKeeps, OpensAsIs
        <4>3. Saves(r)' = {} /\ Saves(r) = {}
          BY <1>1, <4>1 DEF Saves, WriteKinds
        <4>4. draftRows[r].content = EditsOf(r)
          BY <3>1, <4>2, <4>3 DEF FormKeeps, RowHolds
        <4>5. FormHolds(r)' /\ RowHolds(r)' /\ SavesOnce(r)'
          BY <2>2, <3>1, <3>3, <4>2, <4>3, <4>4
             DEF FormHolds, RowHolds, SavesOnce
        <4>6. SubmitsAlone(r)'
          <5>1. \A d \in inFlight : d.pressed = r => d.kind \in {"save", "submit"}
            BY <1>2, ReportFormAssumption DEF FormCall
          <5> QED
            BY <1>1, <4>1, <5>1 DEF SubmitsAlone, WriteKinds
        <4>7. SubmittedInv(r)' /\ AbsentInv(r)' /\ OpensAsIs(r)'
          BY <1>1, <2>2, <3>1, <3>3, <4>1, <4>2, <4>4
             DEF FormKeeps, SubmittedInv, AbsentInv, OpensAsIs
        <4> QED
          BY <4>5, <4>6, <4>7 DEF FormKeeps
      <3> QED
        BY <3>2, <3>3
    <2> QED
      BY <2>4, <2>5, <2>6 DEF FormInv
  <1> QED
    BY <1>4, <1>5

\* The server answers: what it wrote, and whose report it is that nothing is left
\* to say of but for the answer.
LEMMA ServedTyped ==
  ASSUME FormInv, NEW c \in inFlight, c.at = "sent",
         NEW answer, NEW content \in SUBSET EditIds, NEW at,
         answer = [n |-> c.n, kind |-> c.kind, report |-> c.report, content |-> content,
                   pressed |-> c.pressed, at |-> at],
         inFlight' = (inFlight \ {c}) \cup {answer},
         at # "sent", c.kind # "detail" => at \in {"done", "failed", "fields"},
         at \in {"failed", "fields"} => c.report \in forgiven' \cup {Nothing},
         \/ draftRows' = draftRows
         \/ Admits(c) /\ draftRows' = Writes(c),
         forgiven \subseteq forgiven', forgiven' \subseteq Drafts, UNCHANGED <<form, home>>
  PROVE  /\ FormTyped' /\ WritesTheOpen' /\ CreatesOne'
         /\ \A r \in Drafts \ forgiven' : r # c.report => FormKeeps(r)'
  <1>1. FormTyped /\ FormCall(c) /\ \A d \in inFlight : FormCall(d)
    BY DEF FormInv, FormTyped
  <1>2. /\ draftRows' \in [Drafts -> [status : {"absent", "draft", "submitted"},
                                      content : SUBSET EditIds]]
        /\ \A r \in Drafts : draftRows'[r] # draftRows[r] => r = c.report
        /\ \A r \in Drafts : draftRows'[r].status # draftRows[r].status =>
             c.kind = "create" \/ draftRows[r].status = "draft"
    <2>1. CASE draftRows' = draftRows
      BY <1>1, <2>1 DEF FormTyped
    <2>2. CASE Admits(c) /\ draftRows' = Writes(c)
      <3>1. c.report \in Drafts /\ c.content \in SUBSET EditIds
        BY <1>1, <2>2 DEF Admits, FormCall
      <3>2. CASE c.kind = "save"
        <4>1. draftRows' = [draftRows EXCEPT ![c.report].content = c.content]
          BY <2>2, <3>2 DEF Writes
        <4> QED
          BY <1>1, <3>1, <4>1 DEF FormTyped
      <3>3. CASE c.kind = "submit"
        <4>1. /\ draftRows' = [draftRows EXCEPT ![c.report].status = "submitted"]
              /\ draftRows[c.report].status = "draft"
          BY <2>2, <3>3 DEF Writes, Admits
        <4> QED
          BY <1>1, <3>1, <4>1 DEF FormTyped
      <3>4. CASE c.kind = "create"
        <4>1. draftRows' = [draftRows EXCEPT ![c.report] = [status |-> "draft", content |-> {}]]
          BY <2>2, <3>4 DEF Writes
        <4> QED
          BY <1>1, <3>1, <3>4, <4>1 DEF FormTyped
      <3>5. CASE c.kind \notin {"save", "submit", "create"}
        BY <1>1, <2>2, <3>5 DEF Writes, FormTyped
      <3> QED
        BY <3>2, <3>3, <3>4, <3>5
    <2> QED
      BY <2>1, <2>2
  <1>3. FormTyped'
    <2>1. FormCall(answer)'
      BY <1>1 DEF FormCall
    <2>2. \A d \in inFlight' : FormCall(d)'
      BY <1>1, <2>1, CallStays
    <2> QED
      BY <1>1, <1>2, <2>2 DEF FormTyped
  <1>4. WritesTheOpen'
    BY DEF FormInv, WritesTheOpen
  <1>5. CreatesOne'
    <2>1. \A d, e \in inFlight : d.kind = "create" /\ e.kind = "create" => d = e
      BY DEF FormInv, CreatesOne
    <2>2. ASSUME NEW d \in inFlight \ {c}, d.kind = "create", d.at = "sent"
          PROVE  draftRows'[d.report].status = "absent"
      <3>1. c.kind # "create" /\ draftRows[d.report].status = "absent" /\ d.report \in Drafts
        BY <1>1, <2>1, <2>2 DEF FormInv, CreatesOne, FormCall
      <3> QED
        BY <1>2, <3>1
    <2> QED
      BY <2>1, <2>2 DEF CreatesOne
  <1>6. ASSUME NEW r \in Drafts \ forgiven', r # c.report PROVE FormKeeps(r)'
    <2>1. FormKeeps(r) /\ EditsOf(r)' = EditsOf(r) /\ draftRows'[r] = draftRows[r]
      BY <1>2, <1>6 DEF FormInv, EditsOf
    <2>2. c.pressed # r
      BY <1>6, <2>1 DEF FormKeeps, SubmitsAlone
    <2> QED
      BY <1>1, <1>6, <2>1, <2>2, Untouched
  <1> QED
    BY <1>3, <1>4, <1>5, <1>6

\* A save that is served: the row holds what the form does, or will save.
LEMMA SaveServed ==
  ASSUME NEW r \in Drafts, FormKeeps(r), (\A d \in inFlight : FormCall(d)),
         NEW c \in inFlight, c.kind = "save", c.report = r, c.at = "sent",
         draftRows[r].status = "draft",
         NEW answer,
         answer = [n |-> c.n, kind |-> c.kind, report |-> c.report, content |-> c.content,
                   pressed |-> c.pressed, at |-> "done"],
         inFlight' = (inFlight \ {c}) \cup {answer},
         draftRows'[r] = [status |-> "draft", content |-> c.content],
         UNCHANGED <<form, home>>
  PROVE  FormKeeps(r)'
  <1>1. EditsOf(r)' = EditsOf(r)
    BY DEF EditsOf
  <1>2. Saves(r)' = {answer} /\ Saves(r) = {c}
    BY DEF FormKeeps, SavesOnce, Saves
  <1>3. draftRows[r].content \subseteq c.content /\ c.content \subseteq EditsOf(r)
    BY <1>2 DEF FormKeeps, SavesOnce
  <1>4. FormHolds(r)'
    BY <1>1 DEF FormKeeps, FormHolds
  <1>5. RowHolds(r)'
    BY <1>1, <1>2, <1>3 DEF FormKeeps, RowHolds
  <1>6. SavesOnce(r)'
    BY <1>2 DEF FormKeeps, SavesOnce
  <1>7. SubmitsAlone(r)'
    BY DEF FormKeeps, SubmitsAlone
  <1>8. SubmittedInv(r)' /\ AbsentInv(r)'
    BY DEF SubmittedInv, AbsentInv
  <1>9. OpensAsIs(r)'
    BY DEF FormKeeps, OpensAsIs
  <1> QED
    BY <1>4, <1>5, <1>6, <1>7, <1>8, <1>9 DEF FormKeeps

\* A submission that is served: nothing else writes the report, and it is whole.
LEMMA SubmitServed ==
  ASSUME NEW r \in Drafts, FormKeeps(r), (\A d \in inFlight : FormCall(d)),
         NEW c \in inFlight, c.kind = "submit", c.report = r, c.at = "sent",
         NEW answer,
         answer = [n |-> c.n, kind |-> c.kind, report |-> c.report, content |-> c.content,
                   pressed |-> c.pressed, at |-> "done"],
         inFlight' = (inFlight \ {c}) \cup {answer},
         draftRows'[r] = [status |-> "submitted", content |-> draftRows[r].content],
         UNCHANGED <<form, home>>
  PROVE  FormKeeps(r)'
  <1>1. EditsOf(r)' = EditsOf(r)
    BY DEF EditsOf
  <1>2. /\ c.pressed = r /\ form.report = r /\ ~ form.dirty
        /\ \A d \in inFlight : d.kind \in {"save", "submit"} /\ d.report = r => d = c
    BY DEF FormKeeps, SubmitsAlone
  <1>3. Saves(r)' = {} /\ Saves(r) = {}
    BY <1>2 DEF Saves
  <1>4. draftRows[r].content = EditsOf(r)
    BY <1>2, <1>3 DEF FormKeeps, RowHolds
  <1>5. FormHolds(r)' /\ RowHolds(r)'
    BY <1>1, <1>4 DEF FormKeeps, FormHolds, RowHolds
  <1>6. SavesOnce(r)'
    BY <1>3 DEF FormKeeps, SavesOnce
  <1>7. SubmitsAlone(r)'
    BY <1>2 DEF FormKeeps, SubmitsAlone
  <1>8. SubmittedInv(r)' /\ AbsentInv(r)'
    BY <1>1, <1>2, <1>4 DEF SubmittedInv, AbsentInv
  <1>9. OpensAsIs(r)'
    BY DEF FormKeeps, OpensAsIs
  <1> QED
    BY <1>5, <1>6, <1>7, <1>8, <1>9 DEF FormKeeps

\* An upload, or a reading, that is served.
LEMMA ReadServed ==
  ASSUME NEW r \in Drafts, FormKeeps(r), (\A d \in inFlight : FormCall(d)),
         NEW c \in inFlight, c.kind \in {"upload", "detail"}, c.report = r, c.at = "sent",
         NEW answer, NEW content, NEW at,
         answer = [n |-> c.n, kind |-> c.kind, report |-> c.report, content |-> content,
                   pressed |-> c.pressed, at |-> at],
         inFlight' = (inFlight \ {c}) \cup {answer},
         c.kind = "detail" => content = draftRows[r].content /\ at = draftRows[r].status,
         draftRows'[r] = draftRows[r], UNCHANGED <<form, home>>
  PROVE  FormKeeps(r)'
  <1>1. EditsOf(r)' = EditsOf(r) /\ Saves(r)' = Saves(r)
    BY DEF EditsOf, Saves
  <1>2. c.pressed # r /\ draftRows[r].status # "absent"
    BY ReportFormAssumption DEF FormCall, FormKeeps, AbsentInv
  <1>3. FormHolds(r)' /\ RowHolds(r)' /\ SavesOnce(r)'
    BY <1>1 DEF FormKeeps, FormHolds, RowHolds, SavesOnce
  <1>4. SubmitsAlone(r)'
    BY <1>2 DEF FormKeeps, SubmitsAlone
  <1>5. SubmittedInv(r)' /\ AbsentInv(r)'
    BY <1>1, <1>2 DEF FormKeeps, SubmittedInv, AbsentInv
  <1>6. OpensAsIs(r)'
    BY DEF FormKeeps, OpensAsIs
  <1> QED
    BY <1>3, <1>4, <1>5, <1>6 DEF FormKeeps

\* A creation that is served: of a report nobody has seen.
LEMMA CreateServed ==
  ASSUME NEW r \in Drafts, FormKeeps(r), (\A d \in inFlight : FormCall(d)),
         NEW c \in inFlight, c.kind = "create", c.report = r, c.at = "sent",
         draftRows[r].status = "absent",
         NEW answer,
         answer = [n |-> c.n, kind |-> c.kind, report |-> c.report, content |-> c.content,
                   pressed |-> c.pressed, at |-> "done"],
         inFlight' = (inFlight \ {c}) \cup {answer},
         draftRows'[r] = [status |-> "draft", content |-> {}],
         UNCHANGED <<form, home>>
  PROVE  FormKeeps(r)'
  <1>1. /\ EditsOf(r)' = EditsOf(r) /\ EditsOf(r) = {} /\ form.report # r
        /\ \A d \in inFlight' : d.report = r => d.kind = "create"
    BY DEF EditsOf, FormKeeps, AbsentInv
  <1>2. Saves(r)' = {}
    BY <1>1 DEF Saves
  <1>3. \A d \in inFlight' : d.pressed # r
    <2>1. \A d \in inFlight : d.pressed # r
      BY <1>1 DEF FormKeeps, SubmitsAlone
    <2> QED
      BY <2>1
  <1>4. FormHolds(r)' /\ RowHolds(r)' /\ SavesOnce(r)'
    BY <1>1, <1>2 DEF FormHolds, RowHolds, SavesOnce
  <1>5. SubmitsAlone(r)' /\ SubmittedInv(r)' /\ AbsentInv(r)' /\ OpensAsIs(r)'
    BY <1>1, <1>3 DEF SubmitsAlone, SubmittedInv, AbsentInv, OpensAsIs
  <1> QED
    BY <1>4, <1>5 DEF FormKeeps

LEMMA ServeStep == ASSUME FormInv, NEW c \in inFlight, Serve(c) PROVE FormInv'
  <1>1. FormTyped /\ FormCall(c) /\ \A d \in inFlight : FormCall(d)
    BY DEF FormInv, FormTyped
  <1>2. c.at = "sent" /\ UNCHANGED <<form, home>>
    BY DEF Serve
  <1>3. ASSUME NEW at \in {"failed", "fields"}, Becomes(c, at), Forgive({c.report}),
               draftRows' = draftRows \/ (Admits(c) /\ draftRows' = Writes(c))
        PROVE  FormInv'
    <2>1. PICK answer : answer = [n |-> c.n, kind |-> c.kind, report |-> c.report,
                                  content |-> c.content, pressed |-> c.pressed, at |-> at]
      OBVIOUS
    <2>2. inFlight' = (inFlight \ {c}) \cup {answer} /\ c.content \in SUBSET EditIds
      <3>1. PICK body : body = [c EXCEPT !.at = at]
        OBVIOUS
      <3>2. body = answer
        BY <1>1, <2>1, <3>1 DEF FormCall
      <3> QED
        BY <1>1, <1>3, <3>1, <3>2 DEF Becomes, FormCall
    <2>3. /\ forgiven \subseteq forgiven' /\ forgiven' \subseteq Drafts
          /\ c.report \in forgiven' \cup {Nothing}
      BY <1>1, <1>3 DEF Forgive, FormTyped, FormCall
    <2>4. /\ FormTyped' /\ WritesTheOpen' /\ CreatesOne'
          /\ \A r \in Drafts \ forgiven' : r # c.report => FormKeeps(r)'
      BY <1>2, <1>3, <2>1, <2>2, <2>3, ServedTyped
    <2> QED
      BY <2>3, <2>4, ReportFormAssumption DEF FormInv
  <1>4. ASSUME Admits(c), draftRows' = Writes(c), UNCHANGED forgiven,
               IF c.kind = "detail"
                 THEN inFlight' = (inFlight \ {c}) \cup
                        {[c EXCEPT !.at = draftRows[c.report].status,
                                   !.content = draftRows[c.report].content]}
                 ELSE Becomes(c, "done")
        PROVE  FormInv'
    <2> PICK s : s = c.report
      OBVIOUS
    <2>1. PICK content, at :
            /\ content = IF c.kind = "detail" THEN draftRows[s].content ELSE c.content
            /\ at = IF c.kind = "detail" THEN draftRows[s].status ELSE "done"
      OBVIOUS
    <2>2. PICK answer : answer = [n |-> c.n, kind |-> c.kind, report |-> s,
                                  content |-> content, pressed |-> c.pressed, at |-> at]
      OBVIOUS
    <2>3. /\ s \in Drafts /\ forgiven' \subseteq Drafts
          /\ c.kind \in {"save", "submit", "upload"} => draftRows[s].status = "draft"
      BY <1>1, <1>4 DEF Admits, FormTyped, FormCall
    <2>4. /\ draftRows[s].status \in {"absent", "draft", "submitted"}
          /\ draftRows[s].content \in SUBSET EditIds
          /\ draftRows[s] = [status |-> draftRows[s].status, content |-> draftRows[s].content]
      BY <1>1, <2>3 DEF FormTyped
    <2>5. inFlight' = (inFlight \ {c}) \cup {answer}
      <3>1. CASE c.kind = "detail"
        <4>1. content = draftRows[c.report].content /\ at = draftRows[c.report].status
          BY <2>1, <3>1
        <4>2. PICK body : body = [c EXCEPT !.at = at, !.content = content]
          OBVIOUS
        <4>3. inFlight' = (inFlight \ {c}) \cup {body}
          BY <1>4, <3>1, <4>1, <4>2
        <4>4. body = answer
          <5>1. PICK n, kind, held, pressed, was :
                  c = [n |-> n, kind |-> kind, report |-> s, content |-> held,
                       pressed |-> pressed, at |-> was]
            BY <1>1 DEF FormCall
          <5>2. body = [n |-> n, kind |-> kind, report |-> s, content |-> content,
                        pressed |-> pressed, at |-> at]
            <6>1. PICK half : half = [c EXCEPT !.at = at]
              OBVIOUS
            <6>2. half = [n |-> n, kind |-> kind, report |-> s, content |-> held,
                          pressed |-> pressed, at |-> at]
              BY <5>1, <6>1
            <6>3. body = [half EXCEPT !.content = content]
              BY <4>2, <6>1
            <6> QED
              BY <6>2, <6>3
          <5> QED
            BY <2>2, <5>1, <5>2
        <4> QED
          BY <4>3, <4>4
      <3>2. CASE c.kind # "detail"
        <4>1. PICK body : body = [c EXCEPT !.at = "done"]
          OBVIOUS
        <4>2. body = answer
          BY <1>1, <2>1, <2>2, <3>2, <4>1 DEF FormCall
        <4> QED
          BY <1>4, <3>2, <4>1, <4>2 DEF Becomes
      <3> QED
        BY <3>1, <3>2
    <2>6. /\ content \in SUBSET EditIds /\ at # "sent" /\ at \notin {"failed", "fields"}
          /\ c.kind # "detail" => at = "done"
      BY <1>1, <2>1, <2>4 DEF FormCall
    <2>7. /\ FormTyped' /\ WritesTheOpen' /\ CreatesOne'
          /\ \A r \in Drafts \ forgiven' : r # s => FormKeeps(r)'
      BY <1>2, <1>4, <2>2, <2>3, <2>5, <2>6, ServedTyped
    <2>8. ASSUME s \notin forgiven' PROVE FormKeeps(s)'
      <3>1. FormKeeps(s)
        BY <1>4, <2>3, <2>8 DEF FormInv
      <3>2. CASE c.kind = "save"
        <4>1. draftRows' = [draftRows EXCEPT ![s].content = c.content]
          BY <1>4, <3>2 DEF Writes
        <4>2. draftRows'[s] = [status |-> "draft", content |-> c.content]
          BY <1>1, <2>3, <2>4, <3>2, <4>1 DEF FormTyped
        <4> QED
          BY <1>1, <1>2, <2>1, <2>2, <2>3, <2>5, <3>1, <3>2, <4>2, SaveServed
      <3>3. CASE c.kind = "submit"
        <4>1. draftRows' = [draftRows EXCEPT ![s].status = "submitted"]
          BY <1>4, <3>3 DEF Writes
        <4>2. draftRows'[s] = [status |-> "submitted", content |-> draftRows[s].content]
          BY <1>1, <2>3, <2>4, <4>1 DEF FormTyped
        <4> QED
          BY <1>1, <1>2, <2>1, <2>2, <2>3, <2>5, <3>1, <3>3, <4>2, SubmitServed
      <3>4. CASE c.kind = "create"
        <4>1. draftRows' = [draftRows EXCEPT ![s] = [status |-> "draft", content |-> {}]]
          BY <1>4, <3>4 DEF Writes
        <4>2. draftRows'[s] = [status |-> "draft", content |-> {}]
          BY <1>1, <2>3, <4>1 DEF FormTyped
        <4>3. draftRows[s].status = "absent"
          BY <1>2, <3>4 DEF FormInv, CreatesOne
        <4> QED
          BY <1>1, <1>2, <2>1, <2>2, <2>3, <2>5, <3>1, <3>4, <4>2, <4>3,
             CreateServed
      <3>5. CASE c.kind \in {"upload", "detail"}
        <4>1. draftRows'[s] = draftRows[s]
          BY <1>4, <3>5 DEF Writes
        <4> QED
          BY <1>1, <1>2, <2>1, <2>2, <2>3, <2>5, <3>1, <3>5, <4>1, ReadServed
      <3> QED
        BY <1>1, <3>2, <3>3, <3>4, <3>5 DEF FormCall, WriteKinds
    <2> QED
      BY <2>7, <2>8 DEF FormInv
  <1>5. CASE /\ Admits(c) /\ draftRows' \in {draftRows, Writes(c)}
             /\ Becomes(c, "failed") /\ Forgive({c.report})
    BY <1>3, <1>5
  <1>6. CASE /\ c.kind \in {"save", "submit"} /\ Admits(c)
             /\ draftRows' = draftRows /\ Becomes(c, "fields") /\ Forgive({c.report})
    BY <1>3, <1>6
  <1>7. CASE /\ ~Admits(c) /\ draftRows' = draftRows /\ Becomes(c, "failed")
             /\ Forgive({c.report})
    BY <1>3, <1>7
  <1> QED
    BY <1>4, <1>5, <1>6, <1>7 DEF Serve

\* A save is answered: what was typed meanwhile is to be saved by the timer, and
\* the submission that waited for it is sent.
LEMMA SaveAnsweredStep ==
  ASSUME FormInv, NEW c \in inFlight, SaveAnswered(c), c.at # "sent", UNCHANGED draftRows
  PROVE  FormInv'
  <1> PICK s : s = c.report
    OBVIOUS
  <1>1. FormTyped /\ form \in FormShape /\ FormCall(c) /\ \A d \in inFlight : FormCall(d)
    BY DEF FormInv, FormTyped
  <1>2. /\ c.kind = "save" /\ form' = Rescheduled(form)
        /\ UNCHANGED <<draftRows, home, forgiven>> /\ s \in Drafts /\ s # Nothing
        /\ c.pressed \in {s, Nothing}
    BY <1>1, ReportFormAssumption DEF SaveAnswered, FormCall
  <1>3. /\ form' \in FormShape /\ form'.report = form.report /\ form'.content = form.content
        /\ form'.host = form.host /\ form'.readOnly = form.readOnly
        /\ ~ form'.saving /\ ~ form'.pending
        /\ form.pending => form'.dirty /\ form'.timer
        /\ ~ form.pending => form'.dirty = form.dirty /\ form'.timer = form.timer
    BY <1>1, <1>2 DEF Rescheduled, ScheduleAutosave, FormShape
  <1>4. PICK fresh :
          /\ inFlight' = (inFlight \ {c}) \cup fresh
          /\ fresh # {} => c.pressed = s
          /\ c.at # "fields" /\ c.pressed = s => fresh # {}
          /\ \A d \in fresh :
               d = [n |-> d.n, kind |-> "submit", report |-> form.report, content |-> {},
                    pressed |-> s, at |-> "sent"]
          /\ \A d, e \in fresh : d = e
    <2>1. CASE c.pressed # Nothing /\ c.at # "fields"
      <3>1. Asks(inFlight \ {c}, Call("submit", form.report, {}, s)) /\ c.pressed = s
        BY <1>2, <2>1 DEF SaveAnswered
      <3>2. PICK new : /\ inFlight' = (inFlight \ {c}) \cup {new}
                       /\ new = [n |-> new.n, kind |-> "submit", report |-> form.report,
                                 content |-> {}, pressed |-> s, at |-> "sent"]
        BY <3>1, AsksOne
      <3> WITNESS {new}
      <3> QED
        BY <3>1, <3>2
    <2>2. CASE ~ (c.pressed # Nothing /\ c.at # "fields")
      <3>1. inFlight' = inFlight \ {c}
        BY <2>2 DEF SaveAnswered, Rests
      <3>2. PICK none : none = {}
        OBVIOUS
      <3> WITNESS none
      <3> QED
        BY <1>2, <2>2, <3>1, <3>2
    <2> QED
      BY <2>1, <2>2
  <1>5. FormTyped'
    <2>1. \A d \in fresh : FormCall(d)'
      BY <1>1, <1>2, <1>4 DEF FormCall, WriteKinds, FormShape
    <2>2. \A d \in inFlight' : FormCall(d)'
      BY <1>1, <1>2, <1>4, <2>1, CallStays
    <2> QED
      BY <1>1, <1>2, <1>3, <2>2 DEF FormTyped
  <1>6. WritesTheOpen' /\ CreatesOne'
    BY <1>2, <1>3, <1>4 DEF FormInv, WritesTheOpen, CreatesOne
  <1>7. s = form.report \/ {s, form.report} \subseteq forgiven \cup {Nothing}
    BY <1>2 DEF FormInv, WritesTheOpen, WriteKinds
  <1>8. ASSUME NEW r \in Drafts \ forgiven', r # s PROVE FormKeeps(r)'
    <2>1. FormKeeps(r) /\ EditsOf(r)' = EditsOf(r) /\ draftRows'[r] = draftRows[r]
      BY <1>2 DEF FormInv, EditsOf
    <2>2. form.report # r /\ form'.report # r
      BY <1>2, <1>3, <1>7, <1>8, ReportFormAssumption
    <2>3. c.report # r /\ c.pressed # r /\ \A d \in fresh : d.report # r /\ d.pressed # r
      BY <1>2, <1>4, <1>8, <2>2, ReportFormAssumption
    <2>4. \A d : d.report = r \/ d.pressed = r =>
            /\ d \in inFlight' => d \in inFlight
            /\ d \in inFlight /\ d.kind \in {"save", "submit"} => d \in inFlight'
      BY <1>4, <2>3
    <2> QED
      BY <1>1, <2>1, <2>2, <2>4, Untouched
  <1>9. ASSUME s \notin forgiven' PROVE FormKeeps(s)'
    <2>1. FormKeeps(s) /\ EditsOf(s)' = EditsOf(s) /\ draftRows'[s] = draftRows[s]
      BY <1>2, <1>9 DEF FormInv, EditsOf
    <2>2. /\ c \in Saves(s) /\ Saves(s) = {c} /\ form.report = s /\ form.saving
          /\ c.at = "done"
      <3>1. c \in Saves(s)
        BY <1>2 DEF Saves
      <3>2. c.at = "done"
        BY <1>1, <1>2, <1>9 DEF FormCall
      <3> QED
        BY <2>1, <3>1, <3>2 DEF FormKeeps, SavesOnce
    <2>3. Saves(s)' = {}
      BY <1>4, <2>2 DEF Saves
    <2>4. form.dirty => ~ form.readOnly /\ (form.timer \/ form.pending)
      BY <2>1, <2>2 DEF FormKeeps, FormHolds
    <2>5. form.pending => form.dirty
      BY <2>1, <2>2 DEF FormKeeps, FormHolds
    <2>6. FormHolds(s)'
      BY <1>3, <2>1, <2>2, <2>4, <2>5 DEF FormKeeps, FormHolds
    <2>7. RowHolds(s)'
      BY <1>3, <2>1, <2>2, <2>5 DEF FormKeeps, RowHolds
    <2>8. SavesOnce(s)'
      BY <1>3, <2>3 DEF SavesOnce
    <2>9. /\ \A d \in inFlight : d.pressed = s => d = c /\ ~ form.dirty
          /\ \A d \in inFlight : d.kind = "submit" /\ d.report = s => d.pressed = s
      BY <1>2, <2>1 DEF FormKeeps, SubmitsAlone
    <2>10. SubmitsAlone(s)'
      <3>1. \A d \in inFlight' : d.pressed = s => d \in fresh
        BY <1>4, <2>9
      <3>2. fresh # {} => /\ ~ form'.dirty
                          /\ \A d \in inFlight : d.kind \in {"save", "submit"} /\ d.report = s
                               => d = c
        BY <1>3, <1>4, <2>1, <2>5, <2>9 DEF FormKeeps, SubmitsAlone
      <3>3. \A d \in inFlight' : d.kind = "submit" /\ d.report = s => d \in fresh
        BY <1>2, <1>4, <2>9
      <3> QED
        BY <1>3, <1>4, <2>2, <3>1, <3>2, <3>3 DEF SubmitsAlone
    <2>11. SubmittedInv(s)'
      <3>1. ASSUME draftRows[s].status = "submitted"
            PROVE  form.readOnly \/ \E d \in inFlight' : d.pressed = s
        <4>1. form.readOnly \/ \E d \in inFlight : d.pressed = s
          BY <2>1, <2>2, <3>1 DEF FormKeeps, SubmittedInv
        <4>2. c.pressed = s => \E d \in fresh : d.pressed = s
          BY <1>4, <2>2
        <4> QED
          BY <1>4, <2>9, <4>1, <4>2
      <3> QED
        BY <1>3, <2>1, <3>1 DEF FormKeeps, SubmittedInv
    <2>12. AbsentInv(s)'
      BY <2>1, <2>2 DEF FormKeeps, AbsentInv
    <2>13. OpensAsIs(s)'
      <3>1. \A d \in inFlight : ~ (d.kind = "detail" /\ d.report = s)
        BY <1>2, <2>1 DEF FormKeeps, OpensAsIs
      <3> QED
        BY <1>4, <3>1 DEF OpensAsIs
    <2> QED
      BY <2>6, <2>7, <2>8, <2>10, <2>11, <2>12, <2>13 DEF FormKeeps
  <1> QED
    BY <1>5, <1>6, <1>8, <1>9 DEF FormInv

LEMMA SubmitAnsweredStep ==
  ASSUME FormInv, NEW c \in inFlight, SubmitAnswered(c), c.at # "sent", UNCHANGED draftRows
  PROVE  FormInv'
  <1>1. FormTyped /\ form \in FormShape /\ FormCall(c) /\ \A d \in inFlight : FormCall(d)
    BY DEF FormInv, FormTyped
  <1>2. /\ c.kind = "submit" /\ inFlight' = inFlight \ {c}
        /\ form' = IF c.at = "done" THEN [form EXCEPT !.readOnly = TRUE] ELSE form
        /\ UNCHANGED <<draftRows, home, forgiven>>
    BY DEF SubmitAnswered, Rests
  <1>3. /\ form' \in FormShape /\ form'.report = form.report /\ form'.content = form.content
        /\ form'.host = form.host /\ form'.saving = form.saving
        /\ form'.dirty = form.dirty /\ form'.pending = form.pending
        /\ form'.timer = form.timer
        /\ form'.readOnly = (form.readOnly \/ c.at = "done")
    BY <1>1, <1>2 DEF FormShape
  <1>4. FormTyped'
    BY <1>1, <1>2, <1>3, CallStays DEF FormTyped
  <1>5. WritesTheOpen' /\ CreatesOne'
    BY <1>2, <1>3 DEF FormInv, WritesTheOpen, CreatesOne
  <1>6. ASSUME NEW r \in Drafts \ forgiven' PROVE FormKeeps(r)'
    <2>1. FormKeeps(r) /\ EditsOf(r)' = EditsOf(r) /\ draftRows'[r] = draftRows[r]
      BY <1>2 DEF FormInv, EditsOf
    <2>2. c.report = r \/ c.pressed = r => c.report = r /\ c.pressed = r /\ form.report = r
      BY <1>2, <2>1 DEF FormKeeps, SubmitsAlone
    <2>3. CASE form.report # r
      BY <1>1, <1>2, <1>3, <2>1, <2>2, <2>3, Untouched
    <2>4. CASE form.report = r
      <3>1. c.report = r /\ c.pressed = r
        BY <1>2, <1>6, <2>2, <2>4, ReportFormAssumption
           DEF FormInv, WritesTheOpen, WriteKinds
      <3>2. c.at = "done"
        BY <1>1, <1>2, <1>6, <3>1, ReportFormAssumption DEF FormCall
      <3>3. /\ ~ form.dirty
            /\ \A d \in inFlight : d.kind \in {"save", "submit"} /\ d.report = r => d = c
        BY <2>1, <3>1 DEF FormKeeps, SubmitsAlone
      <3>4. Saves(r)' = Saves(r)
        BY <1>2 DEF Saves
      <3>5. FormHolds(r)' /\ RowHolds(r)' /\ SavesOnce(r)'
        BY <1>3, <2>1, <3>3, <3>4 DEF FormKeeps, FormHolds, RowHolds, SavesOnce
      <3>6. SubmitsAlone(r)'
        BY <1>2, <1>3, <2>1 DEF FormKeeps, SubmitsAlone
      <3>7. SubmittedInv(r)'
        BY <1>3, <2>1, <3>2 DEF FormKeeps, SubmittedInv
      <3>8. AbsentInv(r)' /\ OpensAsIs(r)'
        BY <1>2, <1>3, <2>1 DEF FormKeeps, AbsentInv, OpensAsIs
      <3> QED
        BY <3>5, <3>6, <3>7, <3>8 DEF FormKeeps
    <2> QED
      BY <2>3, <2>4
  <1> QED
    BY <1>4, <1>5, <1>6 DEF FormInv

LEMMA FormStep == FormInv /\ [ReportFormNext]_formVars => FormInv'
  <1> SUFFICES ASSUME FormInv, [ReportFormNext]_formVars PROVE FormInv'
    OBVIOUS
  <1>1. CASE UNCHANGED formVars
    <2>1. UNCHANGED <<form, draftRows, inFlight, home, forgiven>>
      BY <1>1 DEF formVars
    <2> QED
      BY <2>1 DEF FormInv, FormTyped, FormCall, WritesTheOpen, CreatesOne,
                  FormKeeps, FormHolds, RowHolds, SavesOnce, SubmitsAlone,
                  SubmittedInv, AbsentInv, OpensAsIs, Saves, EditsOf
  <1>2. ASSUME NEW c \in inFlight, CallAnswered(c) PROVE FormInv'
    BY <1>2, SaveAnsweredStep, SubmitAnsweredStep, UploadAnsweredStep,
       DetailAnsweredStep, CreateAnsweredStep
       DEF CallAnswered
  <1> QED
    BY <1>1, <1>2, TypeStep, UploadStep, TimerFiresStep, PressFormStep,
       CloseStep, OpenStep, StartNewStep, ServeStep
       DEF ReportFormNext

\* What is typed into a draft is on its row, in a save on its way, or in the form
\* with something to come that saves it; one save is on its way at a time; and
\* what is submitted is whole and nobody else's: of every report that no step has
\* forgiven (createReportFormController of app.js: the debounced autosave, Save,
\* Submit, uploads, open, close and "New report", with answers in any order).
THEOREM FormsKeepEdits == ServicesSpec => []ReportFormInv
  <1>1. ServicesInit => FormInv
    BY ServicesBegin, FormInitial
  <1>2. FormInv /\ [ServicesNext]_servicesVars => FormInv'
    BY ServicesMove, FormStep
  <1> QED
    BY <1>1, <1>2, KeptInForm, PTL DEF ServicesSpec

-----------------------------------------------------------------------------
\* The lists of a facility: what is asked for, and what is begun.

VenueCall(c) ==
  /\ c.kind \in {"first", "list", "start"}
  /\ c.of \in Venues /\ c.sofar \in SUBSET Venues

ListsTyped ==
  /\ venue \in Venues /\ shows \subseteq Venues
  /\ templates # {} /\ templates \subseteq Venues
  /\ \A c \in asking : VenueCall(c)

\* What is shown or comes is the facility's, and what is not will be replaced.
OfVenue ==
  "venue" \notin rash =>
    /\ \A c \in asking : c.of = venue /\ (c.kind = "list" => c.sofar \subseteq {venue})
    /\ shows \subseteq {venue} \/ Loads # {}

BegunOfVenue ==
  {"venue", "early", "failed"} \cap rash = {} /\ listed = "reports" =>
    /\ templates \subseteq {venue} \/ Loads # {}
    /\ \A c \in asking : c.kind = "start" => c.sofar = {c.of}

VenueInv == ListsTyped /\ OfVenue /\ BegunOfVenue


LEMMA AskListAsks ==
  ASSUME NEW others, NEW kind, NEW of, NEW sofar, AskList(others, kind, of, sofar)
  PROVE  \E new : /\ asking' = others \cup {new}
                  /\ new.kind = kind /\ new.of = of /\ new.sofar = sofar
  <1>1. PICK new : new = [id |-> asks + 1, kind |-> kind, of |-> of, sofar |-> sofar]
    OBVIOUS
  <1>2. asking' = others \cup {new}
    BY <1>1 DEF AskList
  <1> QED
    BY <1>1, <1>2

LEMMA VenueInit == FacilityListsInit => VenueInv
  BY DEF FacilityListsInit, VenueInv, ListsTyped, OfVenue, BegunOfVenue,
         VenueCall

LEMMA SelectVenueStep ==
  ASSUME VenueInv, NEW f \in Venues, SelectVenue(f)
  PROVE  VenueInv'
  <1>1. /\ venue' = f /\ UNCHANGED <<listed, templates>> /\ shows' \in {shows, {}}
        /\ rash' = rash \cup (IF asking # {} THEN {"venue"} ELSE {})
        /\ AskList(asking, FirstStep, f, {})
    BY DEF SelectVenue, Rash, Cleared
  <1>2. PICK new : /\ asking' = asking \cup {new}
                   /\ new.kind = FirstStep /\ new.of = f /\ new.sofar = {}
    BY <1>1, AskListAsks
  <1>3. new.kind \in {"first", "list"} /\ new \in Loads'
    BY <1>2 DEF FirstStep, Loads
  <1>4. ListsTyped'
    BY <1>1, <1>2, <1>3 DEF VenueInv, ListsTyped, VenueCall
  <1>5. OfVenue'
    BY <1>1, <1>2, <1>3 DEF OfVenue
  <1>6. BegunOfVenue'
    BY <1>1, <1>2, <1>3 DEF BegunOfVenue
  <1> QED
    BY <1>4, <1>5, <1>6 DEF VenueInv

LEMMA SecondStepStep ==
  ASSUME VenueInv, NEW c \in asking, SecondStep(c)
  PROVE  VenueInv'
  <1>1. /\ c.kind = "first" /\ UNCHANGED <<listed, venue, templates, rash>>
        /\ shows' \in {shows, {}}
        /\ AskList(asking \ {c}, "list", venue, IF listed = "tiles" THEN {c.of} ELSE {})
    BY DEF SecondStep, Cleared
  <1>2. PICK new : /\ asking' = (asking \ {c}) \cup {new} /\ new.kind = "list"
                   /\ new.of = venue /\ new.sofar \in {{c.of}, {}}
    BY <1>1, AskListAsks
  <1>3. new \in Loads'
    BY <1>2 DEF Loads
  <1>4. ListsTyped'
    BY <1>1, <1>2 DEF VenueInv, ListsTyped, VenueCall
  <1>5. OfVenue'
    BY <1>1, <1>2, <1>3 DEF VenueInv, OfVenue
  <1>6. BegunOfVenue'
    BY <1>1, <1>2, <1>3 DEF VenueInv, BegunOfVenue
  <1> QED
    BY <1>4, <1>5, <1>6 DEF VenueInv

LEMMA ComesStep ==
  ASSUME VenueInv, NEW c \in asking, Comes(c)
  PROVE  VenueInv'
  <1>1. /\ c.kind = "list" /\ asking' = asking \ {c} /\ UNCHANGED <<listed, venue>>
        /\ shows' \in {c.sofar \cup {c.of}, c.sofar, {c.of}, {}}
        /\ rash \subseteq rash'
        /\ "venue" \in rash' => "venue" \in rash
        /\ \/ listed # "reports" /\ templates' = templates
           \/ templates' = {c.of}
           \/ templates' = templates /\ "failed" \in rash'
    BY DEF Comes, Listed, ReportsCame, NoAsk, Rash
  <1>2. ListsTyped'
    BY <1>1 DEF VenueInv, ListsTyped, VenueCall
  <1>3. OfVenue'
    BY <1>1 DEF VenueInv, OfVenue
  <1>4. BegunOfVenue'
    <2> SUFFICES ASSUME {"venue", "early", "failed"} \cap rash' = {}, listed = "reports"
                 PROVE  BegunOfVenue'
      BY <1>1 DEF BegunOfVenue
    <2>1. templates' = {c.of} /\ c.of = venue
      BY <1>1 DEF VenueInv, OfVenue
    <2> QED
      BY <1>1, <2>1 DEF VenueInv, BegunOfVenue
  <1> QED
    BY <1>2, <1>3, <1>4 DEF VenueInv

LEMMA StartReportStep ==
  ASSUME VenueInv, NEW from, from \in {shows, templates}, StartReport(from)
  PROVE  VenueInv'
  <1>1. PICK f \in from : AskList(asking, "start", venue, {f})
    BY DEF StartReport
  <1>2. /\ listed = "reports" /\ UNCHANGED <<listed, venue, shows, templates>>
        /\ rash' = rash \cup (IF Loads # {} THEN {"early"} ELSE {})
    BY DEF StartReport, Rash
  <1>3. PICK new : /\ asking' = asking \cup {new}
                   /\ new.kind = "start" /\ new.of = venue /\ new.sofar = {f}
    BY <1>1, AskListAsks
  <1>4. Loads' = Loads
    BY <1>3 DEF Loads
  <1>5. ListsTyped'
    BY <1>2, <1>3 DEF VenueInv, ListsTyped, VenueCall
  <1>6. OfVenue'
    BY <1>2, <1>3, <1>4 DEF VenueInv, OfVenue
  <1>7. BegunOfVenue'
    <2> SUFFICES ASSUME {"venue", "early", "failed"} \cap rash' = {}
                 PROVE  BegunOfVenue'
      BY DEF BegunOfVenue
    <2>1. Loads = {} /\ shows \subseteq {venue} /\ templates \subseteq {venue}
      BY <1>2 DEF VenueInv, OfVenue, BegunOfVenue
    <2>2. new.sofar = {new.of}
      BY <1>3, <2>1
    <2> QED
      BY <1>2, <1>3, <2>1, <2>2 DEF VenueInv, BegunOfVenue
  <1> QED
    BY <1>5, <1>6, <1>7 DEF VenueInv

\* A call that leaves what is shown, or clears it, and begins no report.
LEMMA AskedStep ==
  ASSUME VenueInv, NEW others \in SUBSET asking, Loads \subseteq others,
         UNCHANGED <<listed, venue, templates, rash>>, shows' \in {shows, {}},
         \/ asking' = others
         \/ \E new : /\ asking' = others \cup {new} /\ new.of = venue /\ new.sofar = {}
                     /\ new.kind \in {"list", "start"}
                     /\ new.kind = "start" => listed # "reports"
  PROVE  VenueInv'
  <1>1. ListsTyped'
    BY DEF VenueInv, ListsTyped, VenueCall
  <1>2. Loads \subseteq Loads'
    BY DEF Loads
  <1>3. OfVenue'
    BY <1>2 DEF VenueInv, OfVenue
  <1>4. BegunOfVenue'
    BY <1>2 DEF VenueInv, BegunOfVenue
  <1> QED
    BY <1>1, <1>3, <1>4 DEF VenueInv

LEMMA VenueStep == VenueInv /\ [FacilityListsNext]_listsVars => VenueInv'
  <1> SUFFICES ASSUME VenueInv, [FacilityListsNext]_listsVars
               PROVE  VenueInv'
    OBVIOUS
  <1>1. CASE UNCHANGED listsVars
    BY <1>1 DEF listsVars, VenueInv, ListsTyped, OfVenue, BegunOfVenue,
                VenueCall, Loads
  <1>2. CASE \E f \in Venues : SelectVenue(f)
    BY <1>2, SelectVenueStep
  <1>3. CASE FillOut \/ QuickAction
    BY <1>3, StartReportStep DEF FillOut, QuickAction
  <1>4. CASE CompleteTraining \/ FilterInbox
    <2>1. PICK kind \in {"list", "start"} :
            /\ AskList(asking, kind, venue, {})
            /\ kind = "start" => listed # "reports"
            /\ UNCHANGED <<listed, venue, templates, rash>> /\ shows' \in {shows, {}}
      BY <1>4 DEF CompleteTraining, FilterInbox, Cleared
    <2>2. PICK new : /\ asking' = asking \cup {new}
                     /\ new.kind = kind /\ new.of = venue /\ new.sofar = {}
      BY <2>1, AskListAsks
    <2>3. Loads \subseteq asking
      BY DEF Loads
    <2> QED
      BY <2>1, <2>2, <2>3, AskedStep
  <1>5. ASSUME NEW c \in asking, Started(c)
        PROVE  VenueInv'
    <2>1. /\ c.kind = "start" /\ UNCHANGED <<listed, venue, templates, rash>>
          /\ shows' \in {shows, {}}
          /\ AskList(asking \ {c}, "list", venue, {}) \/ asking' = asking \ {c}
      BY <1>5 DEF Started, NoAsk, Cleared
    <2>2. Loads \subseteq asking \ {c} /\ asking \ {c} \in SUBSET asking
      BY <2>1 DEF Loads
    <2>3. CASE AskList(asking \ {c}, "list", venue, {})
      <3>1. PICK new : /\ asking' = (asking \ {c}) \cup {new}
                       /\ new.kind = "list" /\ new.of = venue /\ new.sofar = {}
        BY <2>3, AskListAsks
      <3> QED
        BY <2>1, <2>2, <3>1, AskedStep
    <2> QED
      BY <2>1, <2>2, <2>3, AskedStep
  <1>6. ASSUME NEW c \in asking, SecondStep(c) \/ Comes(c)
        PROVE  VenueInv'
    BY <1>6, SecondStepStep, ComesStep
  <1> QED
    BY <1>1, <1>2, <1>3, <1>4, <1>5, <1>6 DEF FacilityListsNext

LEMMA VenueShown == VenueInv => ListsInv
  BY DEF VenueInv, ListsTyped, OfVenue, BegunOfVenue, ListsInv, ShowsVenue,
         StartsHere, Loads

-----------------------------------------------------------------------------
\* The record panels: the record that is open, and the calls about it.

About(c) == c.kind \in {"detail", "notes", "people", "act", "amend", "note"}

StateTyped(s) ==
  s = [items |-> s.items, chip |-> s.chip, asked |-> s.asked, detailId |-> s.detailId,
       detail |-> s.detail, notes |-> s.notes]

\* One record is open, and what is on its way is about it.
OpenInv ==
  "detail" \notin excused =>
    /\ \A c \in waits : c.kind \in {"act", "amend", "note", "escalate"} => c.of = c.seen
    /\ state.detailId # Blank =>
         /\ \A c \in waits : About(c) => c.of = state.detailId
         /\ state.detail \in {Blank, state.detailId} /\ state.notes \subseteq {state.detailId}

\* What a call will bring is the facility's.
BringsHere(c) ==
  /\ c.kind \in {"list", "employees", "create"} => c.of = here
  /\ c.kind = "list" /\ c.then # Blank => PlaceOf[c.then] = here
  /\ c.kind = "search" => c.of[2] = here

HereInv ==
  "facility" \notin excused =>
    /\ \A c \in waits : BringsHere(c)
    /\ search.results # Blank => search.results[2] = here
    /\ \A r \in state.items : PlaceOf[r] = here
    /\ state.detailId # Blank => PlaceOf[state.detailId] = here

\* The last list to come is the one of the chip that is selected.
ChipInv ==
  "list" \notin excused /\ panel = "work orders" =>
    /\ \/ \E c \in waits : c.kind = "employees"
       \/ \A c \in waits : c.kind = "list" => c.chip = state.chip
    /\ Lists # {} \/ state.items = {} \/ state.asked = state.chip

RecordsInv ==
  /\ panel \in {"incidents", "work orders"}
  /\ StateTyped(state) /\ search = [input |-> search.input, results |-> search.results]
  /\ OpenInv /\ HereInv /\ ChipInv

LEMMA PanelAsksOne ==
  ASSUME NEW others, NEW kind, NEW of, NEW s, NEW then, PanelAsks(others, kind, of, s, then)
  PROVE  \E new : /\ waits' = others \cup {new}
                  /\ new.kind = kind /\ new.of = of /\ new.seen = s.detail
                  /\ new.chip = s.chip /\ new.then = then
  <1>1. PICK new : new = [id |-> sent + 1, kind |-> kind, of |-> of, seen |-> s.detail,
                          chip |-> s.chip, then |-> then]
    OBVIOUS
  <1>2. waits' = others \cup {new}
    BY <1>1 DEF PanelAsks
  <1> QED
    BY <1>1, <1>2

LEMMA RecordsInit == RecordPanelsInit => RecordsInv
  <1> SUFFICES ASSUME RecordPanelsInit PROVE RecordsInv
    OBVIOUS
  <1>1. state = [items |-> In(here), chip |-> "all", asked |-> "all", detailId |-> Blank,
                 detail |-> Blank, notes |-> {}]
    BY DEF RecordPanelsInit, Empty
  <1>2. /\ search = [input |-> Blank, results |-> Blank] /\ waits = {} /\ excused = {}
        /\ panel \in {"incidents", "work orders"}
    BY DEF RecordPanelsInit
  <1>3. StateTyped(state) /\ search = [input |-> search.input, results |-> search.results]
    BY <1>1, <1>2 DEF StateTyped
  <1>4. OpenInv
    BY <1>1, <1>2 DEF OpenInv
  <1>5. HereInv
    BY <1>1, <1>2 DEF HereInv, In
  <1>6. ChipInv
    BY <1>1, <1>2 DEF ChipInv
  <1> QED
    BY <1>2, <1>3, <1>4, <1>5, <1>6 DEF RecordsInv

LEMMA SelectFacilityStep ==
  ASSUME RecordsInv, NEW f \in Places, SelectFacility(f)
  PROVE  RecordsInv'
  <1>1. /\ here' = f /\ UNCHANGED <<panel, known, search>>
        /\ excused' = excused \cup (IF waits # {} \/ search.results # Blank
                                      THEN {"facility"} ELSE {})
    BY DEF SelectFacility, Excuse
  <1>2. /\ StateTyped(state') /\ state'.items = {} /\ state'.detailId = Blank
        /\ state'.chip = state'.asked \/ panel = "incidents"
    BY DEF SelectFacility, ResetIncidents, ResetWorkOrders, Empty, StateTyped
  <1>3. PICK kind \in {"list", "employees"} :
          /\ PanelAsks(waits, kind, f, state', Blank)
          /\ panel # "incidents" => kind = "employees"
    BY DEF SelectFacility
  <1>4. PICK new : /\ waits' = waits \cup {new} /\ new.kind = kind /\ new.of = f
                   /\ new.then = Blank
    BY <1>3, PanelAsksOne
  <1>5. OpenInv'
    BY <1>1, <1>2, <1>3, <1>4 DEF RecordsInv, OpenInv
  <1>6. HereInv'
    BY <1>1, <1>2, <1>3, <1>4 DEF HereInv, BringsHere
  <1>7. ChipInv'
    BY <1>1, <1>2, <1>3, <1>4 DEF ChipInv
  <1> QED
    BY <1>1, <1>2, <1>5, <1>6, <1>7 DEF RecordsInv

\* The list is asked for, once more or for the first time.
LEMMA LoadListStep ==
  ASSUME RecordsInv, NEW others \in SUBSET waits, NEW then, LoadList(others, state', then),
         UNCHANGED <<panel, here, search>>,
         state' = state \/ \E chip : state' = [state EXCEPT !.chip = chip],
         "facility" \notin excused /\ then # Blank => PlaceOf[then] = here
  PROVE  RecordsInv'
  <1>1. /\ PanelAsks(others, "list", here, state', then)
        /\ excused' = excused \cup (IF \E c \in others : c \in Lists THEN {"list"} ELSE {})
    BY DEF LoadList, Excuse
  <1>2. PICK new : /\ waits' = others \cup {new} /\ new.kind = "list" /\ new.of = here
                   /\ new.chip = state'.chip /\ new.then = then
    BY <1>1, PanelAsksOne
  <1>3. /\ StateTyped(state') /\ state'.items = state.items /\ state'.detail = state.detail
        /\ state'.detailId = state.detailId /\ state'.notes = state.notes
    BY DEF RecordsInv, StateTyped
  <1>4. OpenInv'
    BY <1>1, <1>2, <1>3 DEF RecordsInv, OpenInv, About
  <1>5. HereInv'
    BY <1>1, <1>2, <1>3 DEF RecordsInv, HereInv, BringsHere
  <1>6. ChipInv'
    <2> SUFFICES ASSUME "list" \notin excused', panel = "work orders"
                 PROVE  ChipInv'
      BY DEF ChipInv
    <2>1. \A c \in others : c \notin Lists
      BY <1>1
    <2>2. \A c \in waits' : c.kind = "list" => c = new
      BY <1>2, <2>1 DEF Lists
    <2>3. new \in Lists'
      BY <1>2 DEF Lists
    <2> QED
      BY <1>2, <2>2, <2>3 DEF ChipInv
  <1> QED
    BY <1>3, <1>4, <1>5, <1>6 DEF RecordsInv

\* A record is opened: what was held of another is dropped.
LEMMA OpensStep ==
  ASSUME RecordsInv, NEW others \in SUBSET waits, NEW r, NEW s, StateTyped(s),
         Opens(r, others, s), UNCHANGED <<panel, here>>,
         s.detailId = r, s.detail = Blank, s.notes = {},
         search' = search \/ search' = [search EXCEPT !.results = Blank],
         "facility" \notin excused =>
           PlaceOf[r] = here /\ \A q \in s.items : PlaceOf[q] = here
  PROVE  /\ OpenInv' /\ HereInv' /\ StateTyped(state')
         /\ search' = [input |-> search'.input, results |-> search'.results]
         /\ state' = s /\ excused \subseteq excused'
         /\ \E new : waits' = others \cup {new} /\ new.kind = "detail"
  <1>1. /\ state' = s /\ PanelAsks(others, "detail", r, s, Blank)
        /\ excused' = excused \cup (IF Others(r, others) # {} THEN {"detail"} ELSE {})
    BY DEF Opens, Excuse
  <1>2. PICK new : waits' = others \cup {new} /\ new.kind = "detail" /\ new.of = r
    BY <1>1, PanelAsksOne
  <1>3. /\ search' = [input |-> search'.input, results |-> search'.results]
        /\ search'.results \in {search.results, Blank}
    BY DEF RecordsInv
  <1>4. OpenInv'
    <2> SUFFICES ASSUME "detail" \notin excused' PROVE OpenInv'
      BY DEF OpenInv
    <2>1. "detail" \notin excused /\ Others(r, others) = {}
      BY <1>1
    <2>2. \A c \in waits' : About(c) => c.of = r
      BY <1>2, <2>1 DEF About, Others
    <2> QED
      BY <1>1, <1>2, <2>1, <2>2 DEF RecordsInv, OpenInv, About
  <1>5. HereInv'
    BY <1>1, <1>2, <1>3 DEF RecordsInv, HereInv, BringsHere
  <1> QED
    BY <1>1, <1>2, <1>3, <1>4, <1>5

LEMMA DetailedIsNew ==
  ASSUME NEW s, StateTyped(s), NEW r
  PROVE  /\ StateTyped(Detailed(s, r)) /\ Detailed(s, r).detailId = r
         /\ Detailed(s, r).detail = Blank /\ Detailed(s, r).notes = {}
         /\ Detailed(s, r).items = s.items /\ Detailed(s, r).chip = s.chip
         /\ Detailed(s, r).asked = s.asked
  <1>1. PICK x : x = Detailed(s, r)
    OBVIOUS
  <1>2. x = [s EXCEPT !.detailId = r, !.detail = Blank, !.notes = {}]
    BY <1>1 DEF Detailed
  <1>3. x = [items |-> s.items, chip |-> s.chip, asked |-> s.asked, detailId |-> r,
             detail |-> Blank, notes |-> {}]
    BY <1>2 DEF StateTyped
  <1>4. /\ StateTyped(x) /\ x.detailId = r /\ x.detail = Blank /\ x.notes = {}
        /\ x.items = s.items /\ x.chip = s.chip /\ x.asked = s.asked
    BY <1>3 DEF StateTyped
  <1> QED
    BY <1>1, <1>4

LEMMA OpenedStep ==
  ASSUME RecordsInv, NEW r, Opens(r, waits, Detailed(state, r)), UNCHANGED <<panel, here>>,
         search' = search \/ search' = [search EXCEPT !.results = Blank],
         "facility" \notin excused => PlaceOf[r] = here
  PROVE  RecordsInv'
  <1>0. StateTyped(state)
    BY DEF RecordsInv
  <1>1. PICK s : s = Detailed(state, r)
    OBVIOUS
  <1>2. /\ StateTyped(s) /\ s.detailId = r /\ s.detail = Blank /\ s.notes = {}
        /\ s.items = state.items /\ s.chip = state.chip /\ s.asked = state.asked
    BY <1>0, <1>1, DetailedIsNew
  <1>3. "facility" \notin excused => PlaceOf[r] = here /\ \A q \in s.items : PlaceOf[q] = here
    BY <1>2 DEF RecordsInv, HereInv
  <1>4. Opens(r, waits, s)
    BY <1>1
  <1>5. /\ OpenInv' /\ HereInv' /\ StateTyped(state')
        /\ search' = [input |-> search'.input, results |-> search'.results]
        /\ state' = s /\ excused \subseteq excused'
        /\ \E new : waits' = waits \cup {new} /\ new.kind = "detail"
    BY <1>2, <1>3, <1>4, OpensStep
  <1>6. ChipInv'
    BY <1>2, <1>5 DEF RecordsInv, ChipInv, Lists
  <1> QED
    BY <1>5, <1>6 DEF RecordsInv

LEMMA RecordListStep ==
  ASSUME RecordsInv, NEW c \in waits, ListCame(c)
  PROVE  RecordsInv'
  <1>0. PICK items \in {In(c.of), {}} :
          LET t == [state EXCEPT !.items = items, !.asked = c.chip]
          IN  IF c.then = Blank
                THEN state' = t /\ Drop(waits \ {c}) /\ UNCHANGED excused
                ELSE Opens(c.then, waits \ {c}, Detailed(t, c.then))
    BY DEF ListCame
  <1>8. PICK s : s = [state EXCEPT !.items = items, !.asked = c.chip]
    OBVIOUS
  <1>1. /\ s = [state EXCEPT !.items = items, !.asked = c.chip]
        /\ IF c.then = Blank
             THEN state' = s /\ Drop(waits \ {c}) /\ UNCHANGED excused
             ELSE Opens(c.then, waits \ {c}, Detailed(s, c.then))
    BY <1>0, <1>8
  <1>2. c.kind = "list" /\ UNCHANGED <<panel, here, known, search>>
    BY DEF ListCame
  <1>3. /\ StateTyped(s) /\ s.items = items /\ s.asked = c.chip /\ s.chip = state.chip
        /\ s.detailId = state.detailId /\ s.detail = state.detail /\ s.notes = state.notes
    BY <1>1 DEF RecordsInv, StateTyped
  <1>4. /\ "facility" \notin excused => \A q \in items : PlaceOf[q] = here
        /\ "facility" \notin excused /\ c.then # Blank => PlaceOf[c.then] = here
    BY <1>1, <1>2 DEF RecordsInv, HereInv, BringsHere, In
  <1>5. ASSUME state'.items = items, state'.asked = c.chip, state'.chip = state.chip,
               \A w \in waits \ {c} : w \in waits',
               \A w \in waits' : w \in waits \ {c} \/ w.kind = "detail",
               excused \subseteq excused'
        PROVE  ChipInv'
    <2> SUFFICES ASSUME "list" \notin excused', panel = "work orders"
                 PROVE  ChipInv'
      BY <1>2 DEF ChipInv
    <2>1. \/ \E w \in waits : w.kind = "employees"
          \/ \A w \in waits : w.kind = "list" => w.chip = state.chip
      BY <1>5 DEF RecordsInv, ChipInv
    <2>2. CASE \E w \in waits : w.kind = "employees"
      <3>1. PICK w \in waits : w.kind = "employees"
        BY <2>2
      <3>2. w \in waits'
        BY <1>2, <1>5, <3>1
      <3> QED
        BY <3>1, <3>2 DEF ChipInv, Lists
    <2>3. CASE \A w \in waits : w.kind = "list" => w.chip = state.chip
      <3>1. c.chip = state.chip
        BY <1>2, <2>3
      <3> QED
        BY <1>5, <2>3, <3>1 DEF ChipInv
    <2> QED
      BY <2>1, <2>2, <2>3
  <1>6. CASE c.then = Blank
    <2>1. state' = s /\ waits' = waits \ {c} /\ UNCHANGED excused
      BY <1>1, <1>6 DEF Drop
    <2>2. OpenInv'
      BY <1>3, <2>1 DEF RecordsInv, OpenInv
    <2>3. HereInv'
      BY <1>2, <1>3, <1>4, <2>1 DEF RecordsInv, HereInv, BringsHere
    <2>4. ChipInv'
      BY <1>3, <1>5, <2>1
    <2> QED
      BY <1>2, <1>3, <2>1, <2>2, <2>3, <2>4 DEF RecordsInv
  <1>7. CASE c.then # Blank
    <2>1. PICK t : t = Detailed(s, c.then)
      OBVIOUS
    <2>2. /\ StateTyped(t) /\ t.detailId = c.then /\ t.detail = Blank /\ t.notes = {}
          /\ t.items = items /\ t.chip = state.chip /\ t.asked = c.chip
      BY <1>3, <2>1, DetailedIsNew
    <2>3. Opens(c.then, waits \ {c}, t) /\ waits \ {c} \in SUBSET waits
      BY <1>1, <1>7, <2>1
    <2>4. /\ OpenInv' /\ HereInv' /\ StateTyped(state')
          /\ search' = [input |-> search'.input, results |-> search'.results]
          /\ state' = t /\ excused \subseteq excused'
          /\ \E new : waits' = (waits \ {c}) \cup {new} /\ new.kind = "detail"
      BY <1>2, <1>4, <1>7, <2>2, <2>3, OpensStep
    <2>5. ChipInv'
      BY <1>5, <2>2, <2>4
    <2> QED
      BY <1>2, <2>4, <2>5 DEF RecordsInv
  <1> QED
    BY <1>6, <1>7

LEMMA CaptureStep ==
  ASSUME RecordsInv, NEW c \in waits, SubmitCapture(c)
  PROVE  RecordsInv'
  <1>1. /\ c.kind = "create" /\ panel = "incidents" /\ UNCHANGED <<panel, here, search>>
    BY DEF SubmitCapture
  <1>2. PICK r, t :
          /\ r \in Created(c)
          /\ t = [Detailed(state, r) EXCEPT !.items = @ \cup {r}]
          /\ Opens(r, waits \ {c}, t)
    BY DEF SubmitCapture
  <1>3. PICK s : s = Detailed(state, r)
    OBVIOUS
  <1>0. StateTyped(state)
    BY DEF RecordsInv
  <1>4. /\ StateTyped(s) /\ s.detailId = r /\ s.detail = Blank /\ s.notes = {}
        /\ s.items = state.items
    BY <1>0, <1>3, DetailedIsNew
  <1>5. t = [s EXCEPT !.items = @ \cup {r}]
    BY <1>2, <1>3
  <1>6. /\ StateTyped(t) /\ t.detailId = r /\ t.detail = Blank /\ t.notes = {}
        /\ t.items = state.items \cup {r}
    BY <1>4, <1>5 DEF StateTyped
  <1>7. "facility" \notin excused =>
          PlaceOf[r] = here /\ \A q \in t.items : PlaceOf[q] = here
    BY <1>1, <1>2, <1>6 DEF RecordsInv, HereInv, BringsHere, Created
  <1>8. waits \ {c} \in SUBSET waits
    OBVIOUS
  <1>9. /\ OpenInv' /\ HereInv' /\ StateTyped(state')
        /\ search' = [input |-> search'.input, results |-> search'.results]
    BY <1>1, <1>2, <1>6, <1>7, <1>8, OpensStep
  <1>10. ChipInv'
    BY <1>1 DEF ChipInv
  <1> QED
    BY <1>1, <1>9, <1>10 DEF RecordsInv

\* Steps that neither list nor open anything: what comes is of what is on its way.
Follows(w) ==
  \/ w \in waits
  \/ /\ w.kind \notin {"list", "employees"} /\ BringsHere(w)
     /\ About(w) => \/ w.of = state.detailId
                    \/ \E c \in waits : About(c) /\ c.of = w.of
     /\ w.kind \in {"act", "amend", "note", "escalate"} =>
          /\ w.of = state.detailId /\ w.seen = state.detail
          /\ state.detailId # Blank /\ state.detail # Blank

LEMMA FollowsStep ==
  ASSUME RecordsInv, UNCHANGED <<panel, here, excused>>, StateTyped(state'),
         search' = [input |-> search'.input, results |-> search'.results],
         "facility" \notin excused /\ search'.results # Blank => search'.results[2] = here,
         state'.items = state.items, state'.chip = state.chip, state'.asked = state.asked,
         state'.detailId \in {state.detailId, Blank},
         \/ state'.detail \in {state.detail, Blank}
         \/ \E c \in waits : About(c) /\ state'.detail = c.of,
         \A q \in state'.notes : q \in state.notes \/ \E c \in waits : About(c) /\ q = c.of,
         Lists \subseteq waits', \A w \in waits' : Follows(w)
  PROVE  RecordsInv'
  <1>1. OpenInv'
    <2> SUFFICES ASSUME "detail" \notin excused PROVE OpenInv'
      BY DEF OpenInv
    <2>1. /\ \A c \in waits : c.kind \in {"act", "amend", "note", "escalate"} => c.of = c.seen
          /\ state.detailId # Blank =>
               /\ \A c \in waits : About(c) => c.of = state.detailId
               /\ state.detail \in {Blank, state.detailId}
               /\ state.notes \subseteq {state.detailId}
      BY DEF RecordsInv, OpenInv
    <2>2. \A c \in waits' : c.kind \in {"act", "amend", "note", "escalate"} => c.of = c.seen
      BY <2>1 DEF Follows
    <2>3. ASSUME state'.detailId # Blank
          PROVE  /\ \A c \in waits' : About(c) => c.of = state.detailId
                 /\ state'.detail \in {Blank, state.detailId}
                 /\ state'.notes \subseteq {state.detailId}
      <3>1. \A c \in waits : About(c) => c.of = state.detailId
        BY <2>1, <2>3
      <3> QED
        BY <2>1, <2>3, <3>1 DEF Follows
    <2> QED
      BY <2>2, <2>3 DEF OpenInv, About
  <1>2. HereInv'
    BY DEF RecordsInv, HereInv, Follows, BringsHere
  <1>3. ChipInv'
    <2>1. \A w \in waits' : w.kind \in {"list", "employees"} => w \in waits
      BY DEF Follows
    <2>2. Lists \subseteq Lists'
      BY DEF Lists
    <2> QED
      BY <2>1, <2>2 DEF RecordsInv, ChipInv, Lists
  <1> QED
    BY <1>1, <1>2, <1>3 DEF RecordsInv

LEMMA CloseDetailStep == RecordsInv /\ CloseDetail => RecordsInv'
  <1> SUFFICES ASSUME RecordsInv, CloseDetail PROVE RecordsInv'
    OBVIOUS
  <1>1. /\ state' = [state EXCEPT !.detailId = Blank, !.detail = Blank]
        /\ UNCHANGED <<panel, here, known, search, waits, excused>>
    BY DEF CloseDetail
  <1>2. /\ StateTyped(state') /\ state'.items = state.items /\ state'.chip = state.chip
        /\ state'.asked = state.asked /\ state'.detailId = Blank /\ state'.detail = Blank
        /\ state'.notes = state.notes
    BY <1>1 DEF RecordsInv, StateTyped
  <1>3. /\ search' = [input |-> search'.input, results |-> search'.results]
        /\ "facility" \notin excused /\ search'.results # Blank => search'.results[2] = here
    BY <1>1 DEF RecordsInv, HereInv
  <1>4. Lists \subseteq waits' /\ \A w \in waits' : Follows(w)
    BY <1>1 DEF Lists, Follows
  <1> QED
    BY <1>1, <1>2, <1>3, <1>4, FollowsStep

\* What comes about a record: its detail, its notes, what was done to it.
LEMMA AnsweredStep ==
  ASSUME RecordsInv, NEW c \in waits, About(c) \/ c.kind = "escalate",
         UNCHANGED <<panel, here, search, excused>>,
         \/ state' = state
         \/ state' = [state EXCEPT !.detail = c.of] /\ About(c)
         \/ \E notes \in {{c.of}, {}, state.notes \cup {c.of}} :
              state' = [state EXCEPT !.notes = notes] /\ About(c)
         \/ state' = [state EXCEPT !.detail = c.of, !.notes = @ \cup {c.of}] /\ About(c),
         \/ waits' = waits \ {c}
         \/ \E new : /\ waits' = (waits \ {c}) \cup {new}
                     /\ new.kind \in {"notes", "people"}
                     /\ new.of = state.detailId \/ (About(c) /\ new.of = c.of)
  PROVE  RecordsInv'
  <1>1. /\ StateTyped(state') /\ state'.items = state.items /\ state'.chip = state.chip
        /\ state'.asked = state.asked /\ state'.detailId = state.detailId
    BY DEF RecordsInv, StateTyped
  <1>2. state'.detail = state.detail \/ (About(c) /\ state'.detail = c.of)
    BY DEF RecordsInv, StateTyped
  <1>3. \A q \in state'.notes : q \in state.notes \/ (About(c) /\ q = c.of)
    <2>1. StateTyped(state)
      BY DEF RecordsInv
    <2>2. CASE state' = state
      BY <2>2
    <2>3. CASE state' = [state EXCEPT !.detail = c.of]
      <3>1. state'.notes = state.notes
        BY <2>1, <2>3 DEF StateTyped
      <3> QED
        BY <3>1
    <2>4. ASSUME NEW notes \in {{c.of}, {}, state.notes \cup {c.of}},
                 state' = [state EXCEPT !.notes = notes], About(c)
          PROVE  \A q \in state'.notes : q \in state.notes \/ (About(c) /\ q = c.of)
      <3>1. state'.notes = notes
        BY <2>1, <2>4 DEF StateTyped
      <3> QED
        BY <2>4, <3>1
    <2>5. CASE state' = [state EXCEPT !.detail = c.of, !.notes = @ \cup {c.of}] /\ About(c)
      <3>1. state'.notes = state.notes \cup {c.of}
        BY <2>1, <2>5 DEF StateTyped
      <3> QED
        BY <2>5, <3>1
    <2> QED
      BY <2>2, <2>3, <2>4, <2>5
  <1>4. /\ search' = [input |-> search'.input, results |-> search'.results]
        /\ "facility" \notin excused /\ search'.results # Blank => search'.results[2] = here
    BY DEF RecordsInv, HereInv
  <1>5. c.kind \notin {"list", "employees"}
    BY DEF About
  <1>6. Lists \subseteq waits'
    BY <1>5 DEF Lists
  <1>7. \A w \in waits' : Follows(w)
    BY DEF Follows, BringsHere
  <1> QED
    BY <1>1, <1>2, <1>3, <1>4, <1>6, <1>7, FollowsStep

LEMMA DetailCameStep ==
  ASSUME RecordsInv, NEW c \in waits, DetailCame(c)
  PROVE  RecordsInv'
  <1>1. c.kind = "detail" /\ About(c) /\ UNCHANGED <<panel, here, search, excused>>
    BY DEF DetailCame, About
  <1>2. CASE UNCHANGED state /\ Drop(waits \ {c})
    BY <1>1, <1>2, AnsweredStep DEF Drop
  <1>3. CASE /\ state' = [state EXCEPT !.detail = c.of]
             /\ PanelAsks(waits \ {c}, "notes", c.of, state, Blank)
    <2>1. PICK new : /\ waits' = (waits \ {c}) \cup {new}
                     /\ new.kind = "notes" /\ new.of = c.of
      BY <1>3, PanelAsksOne
    <2> QED
      BY <1>1, <1>3, <2>1, AnsweredStep
  <1> QED
    BY <1>2, <1>3 DEF DetailCame

LEMMA NotesCameStep ==
  ASSUME RecordsInv, NEW c \in waits, NotesCame(c)
  PROVE  RecordsInv'
  <1>1. c.kind = "notes" /\ About(c) /\ UNCHANGED <<panel, here, search, excused>>
    BY DEF NotesCame, About
  <1>2. \E notes \in {{c.of}, {}, state.notes \cup {c.of}} :
          state' = [state EXCEPT !.notes = notes] /\ About(c)
    BY <1>1 DEF NotesCame
  <1>3. \/ waits' = waits \ {c}
        \/ \E new : /\ waits' = (waits \ {c}) \cup {new} /\ new.kind = "people"
                    /\ new.of = state'.detailId
    <2>1. CASE PanelAsks(waits \ {c}, "people", state.detailId, state, Blank)
      <3>1. state'.detailId = state.detailId
        BY <1>2 DEF RecordsInv, StateTyped
      <3>2. PICK new : /\ waits' = (waits \ {c}) \cup {new} /\ new.kind = "people"
                       /\ new.of = state.detailId
        BY <2>1, PanelAsksOne
      <3> QED
        BY <3>1, <3>2
    <2>2. CASE Drop(waits \ {c})
      BY <2>2 DEF Drop
    <2> QED
      BY <2>1, <2>2 DEF NotesCame, LoadPeople
  <1>4. state'.detailId = state.detailId
    BY <1>2 DEF RecordsInv, StateTyped
  <1> QED
    BY <1>1, <1>2, <1>3, <1>4, AnsweredStep

LEMMA ActCameStep ==
  ASSUME RecordsInv, NEW c \in waits, ActCame(c)
  PROVE  RecordsInv'
  <1>1. /\ waits' = waits \ {c} /\ UNCHANGED <<panel, here, search, excused>>
        /\ About(c) \/ c.kind = "escalate"
    BY DEF ActCame, About, Drop
  <1>2. \/ state' = state
        \/ state' = [state EXCEPT !.detail = c.of] /\ About(c)
        \/ \E notes \in {{c.of}, {}, state.notes \cup {c.of}} :
             state' = [state EXCEPT !.notes = notes] /\ About(c)
        \/ state' = [state EXCEPT !.detail = c.of, !.notes = @ \cup {c.of}] /\ About(c)
    BY DEF ActCame, About
  <1> QED
    BY <1>1, <1>2, AnsweredStep

\* What leaves the panel: a call is made or dropped, or the search box changes.
LEMMA AroundStep ==
  ASSUME RecordsInv, UNCHANGED <<panel, here, state, excused>>,
         search' = [input |-> search'.input, results |-> search'.results],
         "facility" \notin excused /\ search'.results # Blank => search'.results[2] = here,
         Lists \subseteq waits', \A w \in waits' : Follows(w)
  PROVE  RecordsInv'
  <1>1. StateTyped(state')
    BY DEF RecordsInv
  <1> QED
    BY <1>1, FollowsStep

LEMMA ActsStep ==
  ASSUME RecordsInv, NEW kind \in {"act", "amend", "note", "escalate"}, Acts(kind)
  PROVE  RecordsInv'
  <1>1. /\ state.detailId # Blank /\ state.detail # Blank
        /\ PanelAsks(waits, kind, state.detailId, state, Blank)
        /\ UNCHANGED <<panel, here, state, search, excused>>
    BY DEF Acts
  <1>2. PICK new : /\ waits' = waits \cup {new} /\ new.kind = kind
                   /\ new.of = state.detailId /\ new.seen = state.detail
    BY <1>1, PanelAsksOne
  <1>3. Lists \subseteq waits' /\ \A w \in waits' : Follows(w)
    BY <1>1, <1>2 DEF Follows, BringsHere, Lists
  <1>4. /\ search' = [input |-> search'.input, results |-> search'.results]
        /\ "facility" \notin excused /\ search'.results # Blank => search'.results[2] = here
    BY <1>1 DEF RecordsInv, HereInv
  <1> QED
    BY <1>1, <1>3, <1>4, AroundStep

LEMMA BoxStep ==
  ASSUME RecordsInv,
         \/ Create \/ RunSearch \/ CloseResults
         \/ \E q \in Queries \cup {Blank} : TypeQuery(q)
         \/ \E c \in waits : SearchCame(c) \/ Fails(c)
  PROVE  RecordsInv'
  <1>1. UNCHANGED <<panel, here, state, excused>>
    BY DEF Create, RunSearch, CloseResults, TypeQuery, SearchCame, Fails
  <1>2. /\ search = [input |-> search.input, results |-> search.results]
        /\ "facility" \notin excused => /\ \A c \in waits : BringsHere(c)
                                        /\ search.results # Blank => search.results[2] = here
    BY DEF RecordsInv, HereInv
  <1>3. CASE Create
    <2>1. PanelAsks(waits, "create", here, state, Blank) /\ UNCHANGED search
      BY <1>3 DEF Create
    <2>2. PICK new : waits' = waits \cup {new} /\ new.kind = "create" /\ new.of = here
      BY <2>1, PanelAsksOne
    <2>3. Lists \subseteq waits' /\ \A w \in waits' : Follows(w)
      BY <2>2 DEF Follows, BringsHere, Lists, About
    <2> QED
      BY <1>1, <1>2, <2>1, <2>3, AroundStep
  <1>4. CASE RunSearch
    <2>1. /\ PanelAsks(waits, "search", <<search.input, here>>, state, Blank)
          /\ search' = [search EXCEPT !.results = Blank]
      BY <1>4 DEF RunSearch
    <2>2. PICK new : /\ waits' = waits \cup {new} /\ new.kind = "search"
                     /\ new.of = <<search.input, here>>
      BY <2>1, PanelAsksOne
    <2>3. Lists \subseteq waits' /\ \A w \in waits' : Follows(w)
      BY <2>2 DEF Follows, BringsHere, Lists, About
    <2>4. /\ search' = [input |-> search'.input, results |-> search'.results]
          /\ search'.results = Blank
      BY <1>2, <2>1
    <2> QED
      BY <1>1, <2>3, <2>4, AroundStep
  <1>5. CASE CloseResults \/ \E q \in Queries \cup {Blank} : TypeQuery(q)
    <2>1. /\ waits' = waits
          /\ \/ search' = [search EXCEPT !.results = Blank]
             \/ \E q : search' = [search EXCEPT !.input = q]
      BY <1>5 DEF CloseResults, TypeQuery
    <2>2. /\ search' = [input |-> search'.input, results |-> search'.results]
          /\ search'.results \in {search.results, Blank}
      BY <1>2, <2>1
    <2>3. Lists \subseteq waits' /\ \A w \in waits' : Follows(w)
      BY <2>1 DEF Follows, Lists
    <2> QED
      BY <1>1, <1>2, <2>2, <2>3, AroundStep
  <1>6. ASSUME NEW c \in waits, SearchCame(c) \/ Fails(c)
        PROVE  RecordsInv'
    <2>1. /\ waits' = waits \ {c} /\ c.kind \in {"create", "search"}
          /\ \/ search' = search
             \/ search' = [search EXCEPT !.results = c.of] /\ c.kind = "search"
      BY <1>6 DEF SearchCame, Fails, Drop
    <2>2. /\ search' = [input |-> search'.input, results |-> search'.results]
          /\ \/ search'.results = search.results
             \/ search'.results = c.of /\ c.kind = "search"
      BY <1>2, <2>1
    <2>3. Lists \subseteq waits' /\ \A w \in waits' : Follows(w)
      BY <2>1 DEF Follows, Lists
    <2>4. "facility" \notin excused /\ search'.results # Blank => search'.results[2] = here
      BY <1>2, <2>2 DEF BringsHere
    <2> QED
      BY <1>1, <2>2, <2>3, <2>4, AroundStep
  <1> QED
    BY <1>3, <1>4, <1>5, <1>6

LEMMA RecordsStep == RecordsInv /\ [RecordPanelsNext]_panelVars => RecordsInv'
  <1> SUFFICES ASSUME RecordsInv, [RecordPanelsNext]_panelVars
               PROVE  RecordsInv'
    OBVIOUS
  <1>1. CASE UNCHANGED panelVars
    BY <1>1 DEF panelVars, RecordsInv, StateTyped, OpenInv, HereInv, ChipInv,
                About, BringsHere, Lists
  <1>2. CASE \E f \in Places : SelectFacility(f)
    BY <1>2, SelectFacilityStep
  <1>3. CASE \E chip \in {"all", "mine"} : SetChip(chip)
    <2>1. PICK chip : /\ state' = [state EXCEPT !.chip = chip]
                      /\ LoadList(waits, state', Blank) /\ UNCHANGED <<panel, here, search>>
      BY <1>3 DEF SetChip
    <2> QED
      BY <2>1, LoadListStep
  <1>4. ASSUME NEW r \in known, OpenDetail(r) \/ OpenResult(r)
        PROVE  RecordsInv'
    <2>1. /\ Opens(r, waits, Detailed(state, r)) /\ UNCHANGED <<panel, here>>
          /\ search' = search \/ search' = [search EXCEPT !.results = Blank]
      BY <1>4 DEF OpenDetail, OpenResult
    <2>2. "facility" \notin excused => PlaceOf[r] = here
      BY <1>4 DEF OpenDetail, OpenResult, In, RecordsInv, HereInv
    <2> QED
      BY <2>1, <2>2, OpenedStep
  <1>5. CASE \/ \E q \in Queries \cup {Blank} : TypeQuery(q)
             \/ CloseDetail \/ Create \/ RunSearch \/ CloseResults
    BY <1>5, BoxStep, CloseDetailStep
  <1>6. CASE \/ ChangeIncident \/ AmendIncident \/ AddPerson \/ AddStatement \/ Escalate
             \/ AddFollowup \/ ChangeWorkOrder \/ PostComment
    BY <1>6, ActsStep DEF ChangeIncident, AmendIncident, AddPerson,
                          AddStatement, Escalate, AddFollowup, ChangeWorkOrder,
                          PostComment
  <1>7. ASSUME NEW c \in waits,
               \/ ListCame(c) \/ DetailCame(c) \/ NotesCame(c) \/ ActCame(c)
               \/ SubmitCapture(c) \/ SearchCame(c) \/ Fails(c)
        PROVE  RecordsInv'
    BY <1>7, RecordListStep, DetailCameStep, NotesCameStep, ActCameStep,
       CaptureStep, BoxStep
  <1>8. ASSUME NEW c \in waits, LoadWorkOrders(c)
        PROVE  RecordsInv'
    <2>1. /\ LoadList(waits \ {c}, state', Blank) /\ state' = state
          /\ UNCHANGED <<panel, here, search>>
      BY <1>8 DEF LoadWorkOrders, LoadList, PanelAsks
    <2>2. waits \ {c} \in SUBSET waits
      OBVIOUS
    <2> QED
      BY <2>1, <2>2, LoadListStep
  <1>9. ASSUME NEW c \in waits, CreateWorkOrder(c)
        PROVE  RecordsInv'
    <2>1. PICK r \in Created(c) : /\ LoadList(waits \ {c}, state', r) /\ state' = state
                                  /\ c.kind = "create" /\ UNCHANGED <<panel, here, search>>
      BY <1>9 DEF CreateWorkOrder, LoadList, PanelAsks
    <2>2. "facility" \notin excused => PlaceOf[r] = here
      BY <2>1 DEF RecordsInv, HereInv, BringsHere, Created
    <2>3. waits \ {c} \in SUBSET waits
      OBVIOUS
    <2> QED
      BY <2>1, <2>2, <2>3, LoadListStep
  <1> QED
    BY <1>1, <1>2, <1>3, <1>4, <1>5, <1>6, <1>7, <1>8, <1>9
       DEF RecordPanelsNext

LEMMA RecordsShown == RecordsInv => PanelsInv
  BY DEF RecordsInv, OpenInv, HereInv, ChipInv, PanelsInv, ActsOnShown,
         ShowsHere, ListIsAsked

\* The panels of incidents and of work orders show one record, of the facility and
\* by the filter selected, and act on the one they show; a list comes to be the
\* selected facility's, and a report is begun of a template of it: unless one of
\* the things PanelsInv and ListsInv name has happened (the panels and loaders of
\* app.js, with answers in any order).
THEOREM ScreensShowWhatIsOpen == ServicesSpec => []ScreensInv
  <1>1. ServicesInit => VenueInv /\ RecordsInv
    BY ServicesBegin, VenueInit, RecordsInit
  <1>2. VenueInv /\ RecordsInv /\ [ServicesNext]_servicesVars => VenueInv' /\ RecordsInv'
    BY ServicesMove, VenueStep, RecordsStep
  <1>3. VenueInv /\ RecordsInv => ScreensInv
    BY VenueShown, RecordsShown DEF ScreensInv
  <1> QED
    BY <1>1, <1>2, <1>3, PTL DEF ServicesSpec
-----------------------------------------------------------------------------
\* The answers of a report, as they were checked before they were stored.

AnswersInv ==
  /\ schema \in Schemas
  /\ answered.payload \in Payload
  /\ answered.status \in {"absent", "draft", "submitted"}
  /\ StoredWasChecked /\ StoredStandsAlone

LEMMA PayloadFacts ==
  ASSUME NEW p \in Payload
  PROVE  DOMAIN p \subseteq Fields /\ \A f \in DOMAIN p : p[f] \in Numbers
  <1>1. PICK S \in SUBSET Fields : p \in [S -> Numbers]
    BY DEF Payload
  <1> QED
    BY <1>1

\* What is kept of a payload.
LEMMA KeptFacts ==
  ASSUME NEW p \in Payload, NEW keys
  PROVE  /\ Kept(p, keys) \in Payload
         /\ DOMAIN Kept(p, keys) = DOMAIN p \cap keys
         /\ \A f \in DOMAIN p \cap keys : Kept(p, keys)[f] = p[f]
  <1>1. PICK S \in SUBSET Fields : S = DOMAIN p \cap keys
    BY PayloadFacts
  <1>2. Kept(p, keys) = [f \in S |-> p[f]]
    BY <1>1 DEF Kept
  <1>3. [f \in S |-> p[f]] \in [S -> Numbers]
    BY <1>1, PayloadFacts
  <1> QED
    BY <1>1, <1>2, <1>3 DEF Payload

\* What is submitted was checked, and shows the same fields again.
LEMMA SubmitAnswersStep == ASSUME AnswersInv, SubmitAnswers PROVE AnswersInv'
  <1>1. PICK p \in Payload : p = answered.payload
    BY DEF AnswersInv
  <1>2. PICK gone \in SUBSET Fields : gone = EvaluateVisibility(p)
    BY DEF EvaluateVisibility
  <1>3. PICK errors : errors = {f \in Fields \ gone : FieldErrors(p, f)}
    OBVIOUS
  <1>4. PICK q : q = Kept(p, Fields \ gone)
    OBVIOUS
  <1>5. /\ q \in Payload /\ DOMAIN q = DOMAIN p \ gone
        /\ \A f \in DOMAIN q : q[f] = p[f]
    <2>1. DOMAIN p \cap (Fields \ gone) = DOMAIN p \ gone
      BY PayloadFacts
    <2> QED
      BY <1>4, <2>1, KeptFacts
  <1>6. /\ answered'.status = "submitted" /\ answered'.payload = q
        /\ answered'.warnings = errors /\ answered'.hidden = gone /\ schema' = schema
    <2>1. errors = Errors(p, FALSE)
      BY <1>2, <1>3 DEF Errors
    <2> QED
      BY <1>1, <1>2, <1>4, <2>1 DEF SubmitAnswers, StoreAnswers,
                                    StripHiddenFields
  <1>7. ASSUME NEW f \in Fields \ gone PROVE FieldErrors(q, f) <=> FieldErrors(p, f)
    BY <1>5 DEF FieldErrors
  <1>8. StoredWasChecked'
    <2> SUFFICES ASSUME NEW f \in Fields \ errors
                 PROVE  \/ ~ FieldErrors(answered.payload, f)'
                        \/ f \in gone \ DOMAIN q
      BY <1>6 DEF StoredWasChecked
    <2>1. CASE f \in gone
      BY <1>5, <2>1
    <2>2. CASE f \notin gone
      <3>1. ~ FieldErrors(q, f)
        BY <1>3, <1>7, <2>2
      <3> QED
        BY <1>6, <3>1 DEF FieldErrors
    <2> QED
      BY <2>1, <2>2
  <1>9. StoredStandsAlone'
    <2> SUFFICES ASSUME \A f \in Fields : Deps(f) \cap gone = {}
                 PROVE  /\ EvaluateVisibility(q) = gone
                        /\ Errors(q, FALSE) = errors
      BY <1>6 DEF StoredStandsAlone, Deps, EvaluateVisibility, Errors,
                  FieldErrors
    <2>1. ASSUME NEW f \in Fields, NEW rule \in schema.visibility[f]
          PROVE  CompareVisibility(rule, q) <=> CompareVisibility(rule, p)
      <3>1. rule \in Rules /\ rule.op \in {"eq", "neq", "gt", "lt"}
        <4>1. schema.visibility \in [Fields -> SUBSET Rules]
          BY ReportFieldsAssumption DEF AnswersInv, SchemaShape
        <4>2. rule \in Rules
          BY <4>1
        <4>3. rule.op \in Ops
          BY <4>2 DEF Rules
        <4> QED
          BY <4>2, <4>3, ReportFieldsAssumption
      <3>2. rule.field \notin gone
        BY <2>1 DEF Deps
      <3>3. rule.field \in DOMAIN q <=> rule.field \in DOMAIN p
        BY <1>5, <3>2
      <3>4. rule.field \in DOMAIN q => q[rule.field] = p[rule.field]
        BY <1>5
      <3> QED
        BY <3>1, <3>3, <3>4 DEF CompareVisibility
    <2>2. EvaluateVisibility(q) = gone
      BY <1>2, <2>1 DEF EvaluateVisibility
    <2>3. Errors(q, FALSE) = errors
      BY <1>3, <1>7, <2>2 DEF Errors
    <2> QED
      BY <2>2, <2>3
  <1> QED
    BY <1>5, <1>6, <1>8, <1>9 DEF AnswersInv

LEMMA AnswersInit == ReportFieldsInit => AnswersInv
  <1> SUFFICES ASSUME ReportFieldsInit PROVE AnswersInv
    OBVIOUS
  <1>1. schema \in Schemas /\ answered.status = "absent" /\ answered.payload = NoAnswers
    BY DEF ReportFieldsInit
  <1>2. NoAnswers \in [{} -> Numbers]
    BY DEF NoAnswers
  <1>3. NoAnswers \in Payload
    BY <1>2 DEF Payload
  <1> QED
    BY <1>1, <1>3 DEF AnswersInv, StoredWasChecked, StoredStandsAlone

LEMMA AnswersStep == ASSUME AnswersInv, [ReportFieldsNext]_fieldVars PROVE AnswersInv'
  <1>1. CASE SubmitAnswers
    BY <1>1, SubmitAnswersStep
  <1>2. CASE \/ ReviseAnswers
             \/ \E payload \in Payload : CreateReport(payload) \/ PatchReport(payload)
    <2>1. /\ schema' = schema /\ answered'.status = "draft"
          /\ answered'.payload \in Payload
      <3>1. CASE ReviseAnswers
        BY <3>1 DEF AnswersInv, ReviseAnswers, StoreAnswers
      <3>2. CASE \E payload \in Payload : CreateReport(payload) \/ PatchReport(payload)
        <4>1. PICK p \in Payload : CreateReport(p) \/ PatchReport(p)
          BY <3>2
        <4>2. PICK r : r = [status |-> "draft", payload |-> p, warnings |-> {}, hidden |-> {}]
          OBVIOUS
        <4>3. answered' = r /\ schema' = schema
          BY Zenon, <4>1, <4>2 DEF CreateReport, PatchReport, StoreAnswers
        <4> QED
          BY <4>2, <4>3
      <3> QED
        BY <1>2, <3>1, <3>2
    <2> QED
      BY <2>1 DEF AnswersInv, StoredWasChecked, StoredStandsAlone
  <1>3. CASE PublishTemplate \/ UNCHANGED fieldVars
    <2>1. schema' = schema /\ answered' = answered
      BY <1>3 DEF PublishTemplate, fieldVars
    <2> QED
      BY <2>1 DEF AnswersInv, StoredWasChecked, StoredStandsAlone, FieldErrors,
                  EvaluateVisibility, Errors, Deps
  <1> QED
    BY <1>1, <1>2, <1>3 DEF ReportFieldsNext

-----------------------------------------------------------------------------
\* The search for a circular visibility, and the order it finds.

\* The first n steps of a search.
IsSearch(run, n) == /\ run[0] = SearchStart
                    /\ \A k \in 1 .. n : run[k] = Explore(run[k - 1])

LEMMA SearchesAgree ==
  ASSUME NEW f, NEW g, NEW m \in Nat, NEW n \in Nat, IsSearch(f, m), IsSearch(g, n),
         NEW k \in Nat, k <= m, k <= n
  PROVE  f[k] = g[k]
  <1> DEFINE S == {j \in 0 .. k : f[j] # g[j]}
  <1>1. SUFFICES S = {}
    OBVIOUS
  <1>2. SUFFICES ASSUME S # {} PROVE FALSE
    OBVIOUS
  <1>3. PICK j \in S : \A i \in S : j <= i
    <2>1. S \in SUBSET Nat
      OBVIOUS
    <2> QED
      BY <1>2, <2>1, LeastNumber
  <1>4. j # 0
    BY DEF IsSearch
  <1>5. j - 1 \in 0 .. k /\ ~ (j <= j - 1)
    BY <1>4
  <1>6. f[j - 1] = g[j - 1]
    BY <1>3, <1>5
  <1>7. j \in 1 .. m /\ j \in 1 .. n
    BY <1>4
  <1> QED
    BY <1>6, <1>7 DEF IsSearch

LEMMA SearchesExist ==
  ASSUME NEW n \in Nat
  PROVE  \E run : IsSearch(run, n)
  <1> DEFINE S == {j \in Nat : ~ \E run : IsSearch(run, j)}
  <1>1. SUFFICES ASSUME S # {} PROVE FALSE
    OBVIOUS
  <1>2. PICK j \in S : \A i \in S : j <= i
    BY <1>1, LeastNumber
  <1>3. CASE j = 0
    <2>1. IsSearch([k \in 0 .. 0 |-> SearchStart], 0)
      BY DEF IsSearch
    <2> QED
      BY <1>3, <2>1
  <1>4. CASE j # 0
    <2>1. j - 1 \in Nat /\ ~ (j <= j - 1)
      BY <1>4
    <2>2. PICK run : IsSearch(run, j - 1)
      BY <1>2, <2>1
    <2>3. PICK longer : longer = [k \in 0 .. j |-> IF k = j THEN Explore(run[j - 1]) ELSE run[k]]
      OBVIOUS
    <2>4. longer[0] = SearchStart
      BY <1>4, <2>2, <2>3 DEF IsSearch
    <2>5. ASSUME NEW k \in 1 .. j PROVE longer[k] = Explore(longer[k - 1])
      <3>1. longer[k - 1] = run[k - 1]
        BY <2>3
      <3>2. CASE k = j
        BY <2>3, <3>1, <3>2
      <3>3. CASE k # j
        <4>1. k \in 1 .. j - 1
          BY <3>3
        <4>2. longer[k] = run[k]
          BY <2>3, <3>3
        <4> QED
          BY <2>2, <3>1, <4>1, <4>2 DEF IsSearch
      <3> QED
        BY <3>2, <3>3
    <2> QED
      BY <2>4, <2>5 DEF IsSearch
  <1> QED
    BY <1>3, <1>4

\* The definition of Search by recursion does define it.
LEMMA SearchSteps ==
  /\ Search[0] = SearchStart
  /\ \A n \in Nat \ {0} : Search[n] = Explore(Search[n - 1])
  <1> DEFINE Run(n) == CHOOSE run : IsSearch(run, n)
             Defines(g) == g = [n \in Nat |-> IF n = 0 THEN SearchStart ELSE Explore(g[n - 1])]
             all == [n \in Nat |-> Run(n)[n]]
  <1>1. \A n \in Nat : IsSearch(Run(n), n)
    BY SearchesExist
  <1> HIDE DEF Run
  <1>2. all[0] = SearchStart
    BY <1>1 DEF IsSearch
  <1>3. ASSUME NEW n \in Nat, n # 0 PROVE all[n] = Explore(all[n - 1])
    <2>1. Run(n)[n] = Explore(Run(n)[n - 1])
      BY <1>1, <1>3 DEF IsSearch
    <2>2. n - 1 \in Nat /\ n - 1 <= n /\ n - 1 <= n - 1
      BY <1>3
    <2>3. Run(n)[n - 1] = Run(n - 1)[n - 1]
      BY <1>1, <2>2, SearchesAgree
    <2> QED
      BY <2>1, <2>2, <2>3
  <1>4. all = [n \in Nat |-> IF n = 0 THEN SearchStart ELSE Explore(all[n - 1])]
    <2>1. \A n \in Nat : all[n] = IF n = 0 THEN SearchStart ELSE Explore(all[n - 1])
      BY <1>2, <1>3
    <2> QED
      BY <2>1
  <1>5. Defines(all)
    BY <1>4
  <1> HIDE DEF all
  <1>6. Search = CHOOSE g : Defines(g)
    BY DEF Search
  <1>7. Defines(Search)
    BY <1>5, <1>6
  <1> QED
    BY <1>7

\* An order of the fields in which each comes after those it depends on.
Orders(rank) == \A f \in Fields : \A dep \in Deps(f) \ {f} : rank[dep] < rank[f]

\* The fields a search is visiting.
Visiting(s) == {s.path[i] : i \in 1 .. Len(s.path)}

\* What is done is in order ...
InOrder(done) ==
  \E rank \in [done -> 1 .. Cardinality(done)] :
    \A f \in done : \A dep \in Deps(f) \ {f} : dep \in done /\ rank[dep] < rank[f]

\* ... and every order goes down along the path, which is why a dependency that
\* is on it leaves no order.
GoDown(path) ==
  \A rank \in [Fields -> Nat] : Orders(rank) =>
    \A i, j \in 1 .. Len(path) : i < j => rank[path[j]] < rank[path[i]]

SearchInv(s) ==
  /\ s \in [path : Seq(Fields), done : SUBSET Fields, cycle : BOOLEAN]
  /\ \A i, j \in 1 .. Len(s.path) : s.path[i] = s.path[j] => i = j
  /\ Visiting(s) \cap s.done = {}
  /\ InOrder(s.done) /\ GoDown(s.path)
  /\ s.cycle => \A rank \in [Fields -> Nat] : ~ Orders(rank)

\* How far it is: every step but the last puts a field on the path or takes one off.
Covers(s) == 2 * Cardinality(s.done) + Len(s.path)

SearchOver(s) == s.cycle \/ s.done = Fields

LEMMA DepsAreFields ==
  ASSUME schema \in Schemas, NEW f \in Fields
  PROVE  Deps(f) \subseteq Fields
  <1>1. schema.visibility \in [Fields -> SUBSET Rules]
    BY ReportFieldsAssumption DEF SchemaShape
  <1>2. \A rule \in schema.visibility[f] : rule.field \in Fields
    BY <1>1 DEF Rules
  <1> QED
    BY <1>2 DEF Deps

LEMMA DoneIsFinite ==
  ASSUME NEW S \in SUBSET Fields
  PROVE  IsFiniteSet(S) /\ Cardinality(S) \in Nat /\ Cardinality(S) <= Cardinality(Fields)
         /\ Cardinality(Fields) \in Nat /\ (Cardinality(S) = Cardinality(Fields) => S = Fields)
  BY ReportFieldsAssumption, FS_Subset, FS_CardinalityType

\* No more fields are on the path than are not done.
LEMMA PathIsShort ==
  ASSUME NEW s, SearchInv(s)
  PROVE  Cardinality(s.done) + Len(s.path) <= Cardinality(Fields)
  <1> DEFINE undone == Fields \ s.done
  <1>1. PICK n \in Nat : n = Len(s.path)
    BY DEF SearchInv
  <1>2. s.path \in [1 .. n -> Fields] /\ s.done \subseteq Fields
    BY <1>1 DEF SearchInv
  <1>3. \A i \in 1 .. n : s.path[i] \notin s.done
    BY <1>1 DEF SearchInv, Visiting
  <1>4. s.path \in [1 .. n -> undone]
    BY <1>2, <1>3
  <1>5. s.path \in Injection(1 .. n, undone)
    BY <1>1, <1>4 DEF SearchInv, Injection, IsInjective
  <1>6. /\ IsFiniteSet(undone) /\ IsFiniteSet(s.done) /\ Cardinality(undone) \in Nat
        /\ Cardinality(s.done) \in Nat /\ Cardinality(Fields) \in Nat
    BY <1>2, DoneIsFinite
  <1>7. Cardinality(1 .. n) <= Cardinality(undone)
    BY <1>5, <1>6, FS_Injection
  <1>8. Cardinality(1 .. n) = n
    BY FS_Interval
  <1>9. Cardinality(undone) = Cardinality(Fields) - Cardinality(s.done)
    <2>1. Fields \cap s.done = s.done
      BY <1>2
    <2> QED
      BY <1>6, <2>1, FS_Difference, ReportFieldsAssumption
  <1> HIDE DEF undone
  <1> QED
    BY <1>1, <1>6, <1>7, <1>8, <1>9

\* A dependency of the last of the path that is on the path leaves no order.
LEMMA CycleFound ==
  ASSUME schema \in Schemas, NEW s, SearchInv(s), ~ s.cycle,
         NEW f \in Ahead(s), f \in Range(s.path),
         NEW t, t = [s EXCEPT !.cycle = TRUE]
  PROVE  SearchInv(t) /\ SearchOver(t)
  <1>1. PICK n \in Nat : n = Len(s.path)
    BY DEF SearchInv
  <1>2. s.path \in Seq(Fields) /\ DOMAIN s.path = 1 .. n
    BY <1>1 DEF SearchInv
  <1>3. PICK i \in 1 .. n : s.path[i] = f
    BY <1>2 DEF Range
  <1>4. s.path # <<>> /\ n \in 1 .. n
    BY <1>1, <1>2, <1>3
  <1>5. s.path[n] \in Fields /\ f \in Deps(s.path[n]) \ {s.path[n]}
    BY <1>1, <1>2, <1>4 DEF Ahead
  <1>6. i < n
    BY <1>1, <1>3, <1>5
  <1>7. ASSUME NEW rank \in [Fields -> Nat], Orders(rank) PROVE FALSE
    <2>1. rank[s.path[n]] < rank[f]
      BY <1>1, <1>3, <1>4, <1>6, <1>7 DEF SearchInv, GoDown
    <2>2. rank[f] < rank[s.path[n]]
      BY <1>5, <1>7 DEF Orders
    <2>3. f \in Fields
      BY <1>2, <1>3
    <2>4. rank[f] \in Nat /\ rank[s.path[n]] \in Nat
      BY <1>5, <2>3
    <2> QED
      BY <2>1, <2>2, <2>4
  <1>8. /\ t.path = s.path /\ t.done = s.done /\ t.cycle = TRUE
        /\ t \in [path : Seq(Fields), done : SUBSET Fields, cycle : BOOLEAN]
    BY DEF SearchInv
  <1>9. Visiting(t) = Visiting(s)
    BY <1>8 DEF Visiting
  <1> QED
    BY <1>7, <1>8, <1>9 DEF SearchInv, SearchOver

\* A field that is put on the path comes before the last of it in every order.
LEMMA FieldPushed ==
  ASSUME schema \in Schemas, NEW s, SearchInv(s), ~ s.cycle,
         NEW f \in Ahead(s), f \notin Range(s.path),
         NEW t, t = [s EXCEPT !.path = Append(@, f)]
  PROVE  SearchInv(t) /\ Covers(t) = Covers(s) + 1
  <1>1. PICK n \in Nat : n = Len(s.path)
    BY DEF SearchInv
  <1>2. s.path \in Seq(Fields) /\ DOMAIN s.path = 1 .. n
    BY <1>1 DEF SearchInv
  <1>3. \A i \in 1 .. n : s.path[i] # f /\ s.path[i] \in Fields
    BY <1>2 DEF Range
  <1>4. ASSUME n # 0
        PROVE  s.path[n] \in Fields /\ f \in Deps(s.path[n]) \ {s.path[n]} /\ f \notin s.done
    <2>1. s.path # <<>> /\ n \in 1 .. n
      BY <1>1, <1>4
    <2> QED
      BY <1>1, <1>3, <2>1 DEF Ahead
  <1>5. ASSUME n = 0 PROVE f \in Fields /\ f \notin s.done
    <2>1. s.path = <<>>
      BY <1>1, <1>2, <1>5, EmptySeq
    <2> QED
      BY <2>1 DEF Ahead
  <1>6. f \in Fields /\ f \notin s.done
    BY <1>4, <1>5, DepsAreFields
  <1>7. PICK p \in Seq(Fields) : p = Append(s.path, f)
    BY <1>2, <1>6, AppendProperties
  <1>8. Len(p) = n + 1 /\ p[n + 1] = f /\ \A i \in 1 .. n : p[i] = s.path[i]
    BY <1>1, <1>2, <1>7
  <1>9. /\ t.path = p /\ t.done = s.done /\ ~ t.cycle
        /\ t \in [path : Seq(Fields), done : SUBSET Fields, cycle : BOOLEAN]
    BY <1>7 DEF SearchInv
  <1>10. \A i \in 1 .. n + 1 : i \in 1 .. n \/ i = n + 1
    OBVIOUS
  <1>11. \A i, j \in 1 .. n + 1 : p[i] = p[j] => i = j
    <2>1. \A i, j \in 1 .. n : s.path[i] = s.path[j] => i = j
      BY <1>1 DEF SearchInv
    <2> QED
      BY <1>3, <1>8, <1>10, <2>1
  <1>12. Visiting(t) \cap s.done = {}
    <2>1. \A i \in 1 .. n + 1 : p[i] \notin s.done
      BY <1>1, <1>6, <1>8, <1>10 DEF SearchInv, Visiting
    <2> QED
      BY <1>8, <1>9, <2>1 DEF Visiting
  <1>13. ASSUME NEW rank \in [Fields -> Nat], Orders(rank),
                NEW i \in 1 .. n + 1, NEW j \in 1 .. n + 1, i < j
         PROVE  rank[p[j]] < rank[p[i]]
    <2>1. \A k, l \in 1 .. n : k < l => rank[s.path[l]] < rank[s.path[k]]
      BY <1>1, <1>13 DEF SearchInv, GoDown
    <2>2. i \in 1 .. n
      BY <1>13
    <2>3. CASE j \in 1 .. n
      BY <1>8, <1>13, <2>1, <2>2, <2>3
    <2>4. CASE j = n + 1
      <3>1. rank[f] < rank[s.path[n]] /\ s.path[n] \in Fields
        BY <1>4, <1>13, <2>2 DEF Orders
      <3>2. i = n \/ rank[s.path[n]] < rank[s.path[i]]
        BY <2>1, <2>2
      <3>3. rank[f] \in Nat /\ rank[s.path[n]] \in Nat /\ rank[s.path[i]] \in Nat
        BY <1>3, <1>6, <2>2, <3>1
      <3>4. rank[f] < rank[s.path[i]]
        BY <3>1, <3>2, <3>3
      <3> QED
        BY <1>8, <2>2, <2>4, <3>4
    <2> QED
      BY <1>10, <2>3, <2>4
  <1>14. SearchInv(t)
    <2>1. GoDown(p)
      BY <1>8, <1>13 DEF GoDown
    <2> QED
      <3>1. InOrder(t.done) /\ GoDown(t.path)
        BY Zenon, <1>9, <2>1 DEF SearchInv
      <3>2. \A i, j \in 1 .. Len(t.path) : t.path[i] = t.path[j] => i = j
        BY <1>8, <1>9, <1>11
      <3>3. Visiting(t) \cap t.done = {}
        BY Zenon, <1>9, <1>12
      <3> QED
        BY Zenon, <1>9, <3>1, <3>2, <3>3 DEF SearchInv
  <1>15. Cardinality(s.done) \in Nat
    BY DoneIsFinite DEF SearchInv
  <1> QED
    BY <1>1, <1>8, <1>9, <1>14, <1>15 DEF Covers

\* A field whose dependencies are done is the next in the order.
LEMMA FieldDone ==
  ASSUME schema \in Schemas, NEW s, SearchInv(s), ~ s.cycle, s.path # <<>>, Ahead(s) = {},
         NEW t, t = [s EXCEPT !.path = SubSeq(@, 1, Len(@) - 1),
                              !.done = @ \cup {s.path[Len(s.path)]}]
  PROVE  SearchInv(t) /\ Covers(t) = Covers(s) + 1
  <1>1. PICK n \in Nat : n = Len(s.path)
    BY DEF SearchInv
  <1>2. s.path \in Seq(Fields) /\ n # 0 /\ n \in 1 .. n
    BY <1>1 DEF SearchInv
  <1>3. PICK f \in Fields : f = s.path[n]
    BY <1>1, <1>2
  <1>4. Deps(f) \ {f} \subseteq s.done
    BY <1>1, <1>3 DEF Ahead
  <1>5. f \notin s.done
    BY <1>1, <1>2, <1>3 DEF SearchInv, Visiting
  <1>6. PICK p \in Seq(Fields) : p = SubSeq(s.path, 1, n - 1)
    <2>1. SubSeq(s.path, 1, n - 1) \in Seq(Fields)
      BY <1>1, <1>2, SubSeqProperties
    <2> QED
      BY <2>1
  <1>7. Len(p) = n - 1 /\ \A i \in 1 .. n - 1 : p[i] = s.path[i]
    BY <1>1, <1>2, <1>6
  <1>8. PICK done : done = s.done \cup {f}
    OBVIOUS
  <1>9. PICK u : u = [s EXCEPT !.path = p]
    OBVIOUS
  <1>10. t = [u EXCEPT !.done = done]
    BY <1>1, <1>3, <1>6, <1>8, <1>9 DEF SearchInv
  <1>11. /\ t.path = p /\ t.done = done /\ ~ t.cycle
         /\ t \in [path : Seq(Fields), done : SUBSET Fields, cycle : BOOLEAN]
    <2>1. s \in [path : Seq(Fields), done : SUBSET Fields, cycle : BOOLEAN]
      BY DEF SearchInv
    <2>2. /\ u.path = p /\ u.done = s.done /\ u.cycle = s.cycle
          /\ u \in [path : Seq(Fields), done : SUBSET Fields, cycle : BOOLEAN]
      BY <1>6, <1>9, <2>1
    <2>3. done \subseteq Fields
      BY <1>3, <1>8, <2>1
    <2> QED
      BY <1>10, <2>2, <2>3
  <1>12. \A i \in 1 .. n - 1 : i \in 1 .. n /\ i # n
    OBVIOUS
  <1>13. \A i, j \in 1 .. n : s.path[i] = s.path[j] => i = j
    BY <1>1 DEF SearchInv
  <1>14. \A i, j \in 1 .. n - 1 : p[i] = p[j] => i = j
    BY <1>7, <1>12, <1>13
  <1>15. Visiting(t) \cap done = {}
    <2>1. \A i \in 1 .. n - 1 : p[i] \notin s.done /\ p[i] # f
      BY <1>1, <1>2, <1>3, <1>7, <1>12, <1>13 DEF SearchInv, Visiting
    <2> QED
      BY <1>7, <1>8, <1>11, <2>1 DEF Visiting
  <1>16. Cardinality(done) = Cardinality(s.done) + 1 /\ Cardinality(s.done) \in Nat
    <2>1. IsFiniteSet(s.done) /\ Cardinality(s.done) \in Nat
      BY DoneIsFinite DEF SearchInv
    <2> QED
      BY <1>5, <1>8, <2>1, FS_AddElement
  <1>17. InOrder(done)
    <2>1. PICK old \in [s.done -> 1 .. Cardinality(s.done)] :
            \A g \in s.done : \A dep \in Deps(g) \ {g} : dep \in s.done /\ old[dep] < old[g]
      BY DEF SearchInv, InOrder
    <2>2. PICK rank : rank = [g \in done |-> IF g = f THEN Cardinality(done) ELSE old[g]]
      OBVIOUS
    <2>3. rank \in [done -> 1 .. Cardinality(done)]
      BY <1>8, <1>16, <2>2
    <2>4. rank[f] = Cardinality(done) /\ \A g \in s.done : rank[g] = old[g]
      BY <1>5, <1>8, <2>2
    <2>5. \A g \in s.done : old[g] < Cardinality(done)
      BY <1>16
    <2>6. ASSUME NEW g \in done, NEW dep \in Deps(g) \ {g}
          PROVE  dep \in done /\ rank[dep] < rank[g]
      <3>1. CASE g = f
        BY <1>4, <1>8, <2>4, <2>5, <2>6, <3>1
      <3>2. CASE g # f
        <4>1. g \in s.done /\ dep \in s.done /\ old[dep] < old[g]
          BY <1>8, <2>1, <2>6, <3>2
        <4> QED
          BY <1>8, <2>4, <4>1
      <3> QED
        BY <3>1, <3>2
    <2> QED
      BY <2>3, <2>6 DEF InOrder
  <1>18. ASSUME NEW rank \in [Fields -> Nat], Orders(rank),
                NEW i \in 1 .. n - 1, NEW j \in 1 .. n - 1, i < j
         PROVE  rank[p[j]] < rank[p[i]]
    BY <1>1, <1>7, <1>12, <1>18 DEF SearchInv, GoDown
  <1>19. SearchInv(t)
    <2>1. GoDown(p)
      BY <1>7, <1>18 DEF GoDown
    <2> QED
      <3>1. InOrder(t.done) /\ GoDown(t.path)
        BY Zenon, <1>11, <1>17, <2>1
      <3>2. \A i, j \in 1 .. Len(t.path) : t.path[i] = t.path[j] => i = j
        BY <1>7, <1>11, <1>14
      <3>3. Visiting(t) \cap t.done = {}
        BY Zenon, <1>11, <1>15
      <3> QED
        BY Zenon, <1>11, <3>1, <3>2, <3>3 DEF SearchInv
  <1>20. Len(t.path) = n - 1 /\ Cardinality(t.done) = Cardinality(s.done) + 1
    BY <1>7, <1>11, <1>16
  <1> QED
    BY <1>1, <1>16, <1>19, <1>20 DEF Covers

LEMMA OverStays ==
  ASSUME schema \in Schemas, NEW s, SearchInv(s), SearchOver(s)
  PROVE  SearchOver(Explore(s))
  <1>1. s.cycle \in BOOLEAN /\ s.done \subseteq Fields
    BY DEF SearchInv
  <1>2. CASE s.cycle
    <2>1. Explore(s) = s
      BY <1>2 DEF Explore
    <2> QED
      BY <2>1
  <1>3. CASE s.done = Fields
    <2>1. s.path = <<>>
      <3>1. SUFFICES ASSUME s.path # <<>> PROVE FALSE
        OBVIOUS
      <3>2. s.path \in Seq(Fields)
        BY DEF SearchInv
      <3>3. 1 \in 1 .. Len(s.path) /\ s.path[1] \in Fields
        BY <3>1, <3>2, EmptySeq
      <3> QED
        BY <1>3, <3>3 DEF SearchInv, Visiting
    <2>2. Ahead(s) = {}
      BY <1>3, <2>1 DEF Ahead
    <2>3. Explore(s) = s
      BY <2>1, <2>2 DEF Explore
    <2> QED
      BY <2>3
  <1> QED
    BY <1>2, <1>3 DEF SearchOver

LEMMA ExploreStep ==
  ASSUME schema \in Schemas, NEW s, SearchInv(s)
  PROVE  /\ SearchInv(Explore(s))
         /\ SearchOver(Explore(s)) \/ Covers(Explore(s)) = Covers(s) + 1
  <1>1. s.cycle \in BOOLEAN /\ s.done \subseteq Fields
    BY DEF SearchInv
  <1>2. PICK f : f = CHOOSE g \in Ahead(s) : TRUE
    OBVIOUS
  <1>3. Ahead(s) # {} => f \in Ahead(s)
    BY <1>2
  <1>4. CASE s.cycle \/ (s.path = <<>> /\ Ahead(s) = {})
    <2>1. Explore(s) = s
      BY <1>4 DEF Explore
    <2>2. SearchOver(s)
      BY <1>1, <1>4 DEF SearchOver, Ahead
    <2> QED
      BY Zenon, <2>1, <2>2
  <1>5. CASE ~ s.cycle /\ s.path # <<>> /\ Ahead(s) = {}
    <2>1. PICK t : t = [s EXCEPT !.path = SubSeq(@, 1, Len(@) - 1),
                                 !.done = @ \cup {s.path[Len(s.path)]}]
      OBVIOUS
    <2>2. Explore(s) = t
      BY <1>5, <2>1 DEF Explore
    <2> QED
      BY <1>5, <2>1, <2>2, FieldDone
  <1>6. CASE ~ s.cycle /\ Ahead(s) # {} /\ f \in Range(s.path)
    <2>1. PICK t : t = [s EXCEPT !.cycle = TRUE]
      OBVIOUS
    <2>2. Explore(s) = t
      BY <1>2, <1>6, <2>1 DEF Explore
    <2> QED
      BY <1>3, <1>6, <2>1, <2>2, CycleFound
  <1>7. CASE ~ s.cycle /\ Ahead(s) # {} /\ f \notin Range(s.path)
    <2>1. PICK t : t = [s EXCEPT !.path = Append(@, f)]
      OBVIOUS
    <2>2. Explore(s) = t
      BY <1>2, <1>7, <2>1 DEF Explore
    <2> QED
      BY <1>3, <1>7, <2>1, <2>2, FieldPushed
  <1> QED
    BY <1>4, <1>5, <1>6, <1>7

LEMMA SearchBegins == SearchInv(SearchStart) /\ Covers(SearchStart) = 0
  <1>1. PICK s : s = SearchStart
    OBVIOUS
  <1>2. /\ s.path = <<>> /\ s.done = {} /\ s.cycle = FALSE
        /\ s \in [path : Seq(Fields), done : SUBSET Fields, cycle : BOOLEAN]
    BY <1>1 DEF SearchStart
  <1>3. Len(s.path) = 0 /\ Cardinality(s.done) = 0
    BY <1>2, FS_EmptySet
  <1>4. InOrder({})
    <2>1. PICK rank : rank = [f \in {} |-> 1]
      OBVIOUS
    <2>2. rank \in [{} -> 1 .. Cardinality({})]
      BY <2>1
    <2> QED
      BY <2>2 DEF InOrder
  <1>5. GoDown(s.path)
    BY <1>3 DEF GoDown
  <1>6. \A i, j \in 1 .. Len(s.path) : s.path[i] = s.path[j] => i = j
    BY <1>3
  <1>7. Visiting(s) \cap s.done = {} /\ InOrder(s.done)
    BY Zenon, <1>2, <1>4
  <1>8. SearchInv(s)
    BY Zenon, <1>2, <1>5, <1>6, <1>7 DEF SearchInv
  <1> QED
    BY <1>1, <1>3, <1>8 DEF Covers

\* After n steps a search is over, or it has made n of them.
LEMMA SearchKeeps ==
  ASSUME schema \in Schemas, NEW n \in Nat
  PROVE  SearchInv(Search[n]) /\ (SearchOver(Search[n]) \/ Covers(Search[n]) = n)
  <1> DEFINE Goes(k) == /\ SearchInv(Search[k])
                        /\ SearchOver(Search[k]) \/ Covers(Search[k]) = k
             S == {k \in Nat : ~ Goes(k)}
  <1>1. SUFFICES ASSUME S # {} PROVE FALSE
    OBVIOUS
  <1>2. S \in SUBSET Nat
    OBVIOUS
  <1>3. PICK k \in S : \A l \in S : k <= l
    BY <1>1, <1>2, LeastNumber
  <1>4. CASE k = 0
    BY <1>4, SearchSteps, SearchBegins
  <1>5. CASE k # 0
    <2>1. k - 1 \in Nat /\ ~ (k <= k - 1)
      BY <1>5
    <2>2. Goes(k - 1)
      BY <1>3, <2>1
    <2>3. PICK s : s = Search[k - 1]
      OBVIOUS
    <2>4. Search[k] = Explore(s)
      BY <1>5, <2>3, SearchSteps
    <2>5. SearchInv(s) /\ (SearchOver(s) \/ Covers(s) = k - 1)
      BY <2>2, <2>3
    <2>6. /\ SearchInv(Explore(s))
          /\ SearchOver(Explore(s)) \/ Covers(Explore(s)) = Covers(s) + 1
      BY <2>5, ExploreStep
    <2>7. SearchOver(s) => SearchOver(Explore(s))
      BY <2>5, OverStays
    <2>8. SearchOver(Explore(s)) \/ Covers(Explore(s)) = k
      BY <2>5, <2>6, <2>7
    <2> QED
      BY <2>4, <2>6, <2>8
  <1> QED
    BY <1>4, <1>5

\* A search that may take so many steps finds a cycle exactly where no order is.
LEMMA SearchDecides ==
  ASSUME schema \in Schemas
  PROVE  /\ FindVisibilityCycle => \A rank \in [Fields -> Nat] : ~ Orders(rank)
         /\ ~ FindVisibilityCycle =>
              \E rank \in [Fields -> 1 .. Cardinality(Fields)] : Orders(rank)
  <1>1. PICK n \in Nat : n = Cardinality(Fields)
    BY DoneIsFinite
  <1>2. PICK s : s = Search[2 * n]
    OBVIOUS
  <1>3. SearchInv(s) /\ (SearchOver(s) \/ Covers(s) = 2 * n)
    BY <1>2, SearchKeeps
  <1>4. FindVisibilityCycle = s.cycle /\ s.cycle \in BOOLEAN
    BY <1>1, <1>2, <1>3 DEF FindVisibilityCycle, SearchInv
  <1>5. SearchOver(s)
    <2>1. SUFFICES ASSUME Covers(s) = 2 * n PROVE s.done = Fields
      BY <1>3 DEF SearchOver
    <2>2. s.done \subseteq Fields /\ Len(s.path) \in Nat
      BY <1>3 DEF SearchInv
    <2>3. Cardinality(s.done) \in Nat /\ Cardinality(s.done) <= n
      BY <1>1, <2>2, DoneIsFinite
    <2>4. Cardinality(s.done) + Len(s.path) <= n
      BY <1>1, <1>3, PathIsShort
    <2>5. Cardinality(s.done) = n
      BY <2>1, <2>2, <2>3, <2>4 DEF Covers
    <2> QED
      BY <1>1, <2>2, <2>5, DoneIsFinite
  <1>6. ASSUME s.done = Fields
        PROVE  \E rank \in [Fields -> 1 .. Cardinality(Fields)] : Orders(rank)
    BY <1>3, <1>6 DEF SearchInv, InOrder, Orders
  <1> QED
    BY <1>3, <1>4, <1>5, <1>6 DEF SearchInv, SearchOver

-----------------------------------------------------------------------------
\* The template routes publish by what the search says.

\* The order of PublishedInOrder.
Ordered == \E rank \in [Fields -> 1 .. Cardinality(Fields)] :
             \A f \in Fields : \A dep \in Deps(f) : rank[dep] < rank[f]

LEMMA ValidIsOrdered ==
  ASSUME schema \in Schemas
  PROVE  ValidSchema <=> Ordered
  <1>1. PICK n \in Nat : n = Cardinality(Fields)
    BY DoneIsFinite
  <1>2. ASSUME ValidSchema PROVE Ordered
    <2>1. ~ FindVisibilityCycle /\ \A f \in Fields : Deps(f) \ {f} = Deps(f)
      BY <1>2 DEF ValidSchema
    <2>2. PICK rank \in [Fields -> 1 .. Cardinality(Fields)] : Orders(rank)
      BY <2>1, SearchDecides
    <2> QED
      BY <2>1, <2>2 DEF Ordered, Orders
  <1>3. ASSUME Ordered PROVE ValidSchema
    <2>1. PICK rank \in [Fields -> 1 .. n] :
            \A f \in Fields : \A dep \in Deps(f) : rank[dep] < rank[f]
      BY <1>1, <1>3 DEF Ordered
    <2>2. ASSUME NEW f \in Fields, f \in Deps(f) PROVE FALSE
      <3>1. rank[f] \in 1 .. n /\ rank[f] < rank[f]
        BY <2>1, <2>2
      <3> QED
        BY <3>1
    <2>3. rank \in [Fields -> Nat] /\ Orders(rank)
      BY <2>1 DEF Orders
    <2>4. ~ FindVisibilityCycle
      BY <2>3, SearchDecides
    <2> QED
      BY <2>2, <2>4 DEF ValidSchema
  <1> QED
    BY <1>2, <1>3

SchemaInv ==
  /\ verdict \in {"draft", "published", "refused"}
  /\ answered.warnings \cup answered.hidden \subseteq Fields
  /\ verdict = "draft" \/ (verdict = "published" <=> Ordered)

LEMMA SchemaInit == ReportFieldsInit => SchemaInv
  BY DEF ReportFieldsInit, SchemaInv

LEMMA SchemaStep ==
  ASSUME AnswersInv, SchemaInv, [ReportFieldsNext]_fieldVars
  PROVE  SchemaInv'
  <1>1. CASE PublishTemplate
    <2>1. schema \in Schemas
      BY DEF AnswersInv
    <2>2. schema' = schema /\ answered' = answered
      BY <1>1 DEF PublishTemplate
    <2>3. Ordered' <=> Ordered
      BY <2>2 DEF Ordered, Deps
    <2>4. verdict' = IF ValidSchema THEN "published" ELSE "refused"
      BY <1>1 DEF PublishTemplate
    <2>5. /\ verdict' \in {"draft", "published", "refused"}
          /\ verdict' = "published" <=> Ordered
      BY <2>1, <2>4, ValidIsOrdered
    <2> QED
      BY <2>2, <2>3, <2>5 DEF SchemaInv
  <1>2. CASE SubmitAnswers \/ ReviseAnswers \/ UNCHANGED fieldVars
             \/ \E payload \in Payload : CreateReport(payload) \/ PatchReport(payload)
    <2>1. schema' = schema /\ verdict' = verdict
      BY <1>2 DEF SubmitAnswers, ReviseAnswers, CreateReport, PatchReport,
                  fieldVars
    <2>2. Ordered' <=> Ordered
      BY <2>1 DEF Ordered, Deps
    <2>3. answered'.warnings \cup answered'.hidden \subseteq Fields
      <3>1. CASE SubmitAnswers
        <4>1. answered'.warnings = Errors(answered.payload, FALSE)
              /\ answered'.hidden = EvaluateVisibility(answered.payload)
          BY <3>1 DEF SubmitAnswers, StoreAnswers
        <4>2. Errors(answered.payload, FALSE) \subseteq Fields
          BY DEF Errors
        <4>3. EvaluateVisibility(answered.payload) \subseteq Fields
          BY DEF EvaluateVisibility
        <4> QED
          BY <4>1, <4>2, <4>3
      <3>2. CASE ReviseAnswers
        BY <3>2 DEF ReviseAnswers, StoreAnswers
      <3>3. CASE \E payload \in Payload : CreateReport(payload) \/ PatchReport(payload)
        <4>1. PICK p \in Payload : CreateReport(p) \/ PatchReport(p)
          BY <3>3
        <4>2. PICK r : r = [status |-> "draft", payload |-> p, warnings |-> {}, hidden |-> {}]
          OBVIOUS
        <4>3. answered' = r
          BY Zenon, <4>1, <4>2 DEF CreateReport, PatchReport, StoreAnswers
        <4> QED
          BY <4>2, <4>3
      <3>4. CASE UNCHANGED fieldVars
        BY <3>4 DEF fieldVars, SchemaInv
      <3> QED
        BY <1>2, <3>1, <3>2, <3>3, <3>4
    <2> QED
      BY <2>1, <2>2, <2>3 DEF SchemaInv
  <1> QED
    BY <1>1, <1>2 DEF ReportFieldsNext

LEMMA FieldsFollow ==
  AnswersInv /\ SchemaInv => FieldsInv /\ ReportFieldsTypeOK
  <1> SUFFICES ASSUME AnswersInv, SchemaInv PROVE FieldsInv /\ ReportFieldsTypeOK
    OBVIOUS
  <1>1. PublishedInOrder
    BY Zenon DEF SchemaInv, PublishedInOrder, Ordered
  <1> QED
    BY <1>1 DEF AnswersInv, SchemaInv, FieldsInv, ReportFieldsTypeOK

\* A template is published exactly when its fields can be put in an order in
\* which each depends on earlier ones; of a report that is submitted, no answer
\* is stored that its rules refuse, and none that is required is missing, unless
\* a warning says so or its field was hidden; and where no rule reads a hidden
\* field, what is stored shows the same fields and could be submitted again
\* (report-schema.mjs, as the template and submit routes call it).
THEOREM FieldsAreChecked == ServicesSpec => []FieldsInv
  <1>1. ServicesInit => AnswersInv /\ SchemaInv
    BY ServicesBegin, AnswersInit, SchemaInit
  <1>2. AnswersInv /\ SchemaInv /\ [ServicesNext]_servicesVars => (AnswersInv /\ SchemaInv)'
    BY ServicesMove, AnswersStep, SchemaStep
  <1>3. AnswersInv /\ SchemaInv => FieldsInv
    BY FieldsFollow
  <1> QED
    BY <1>1, <1>2, <1>3, PTL DEF ServicesSpec
-----------------------------------------------------------------------------
\* The types of the variables: what the invariants above leave out.

SessionsRest ==
  /\ revoked \in BOOLEAN /\ bounced \in BOOLEAN /\ made \in 0 .. MaxCalls
  /\ page \in [Tabs -> {"app", "leaving", "signin"}]

LEMMA SessionsRestInit == SessionsInit => SessionsRest
  <1> SUFFICES ASSUME SessionsInit PROVE SessionsRest
    OBVIOUS
  <1>1. revoked \in BOOLEAN /\ bounced \in BOOLEAN /\ made = 0 /\ page = [t \in Tabs |-> "app"]
    BY DEF SessionsInit
  <1>2. 0 \in 0 .. MaxCalls
    BY SessionsAssumption
  <1> QED
    BY <1>1, <1>2 DEF SessionsRest

LEMMA PageTurns ==
  ASSUME SessionsRest, NEW t \in Tabs, NEW p \in {"app", "leaving", "signin"},
         page' = [page EXCEPT ![t] = p]
  PROVE  page' \in [Tabs -> {"app", "leaving", "signin"}]
  BY DEF SessionsRest

LEMMA SessionsRestStep ==
  ASSUME SessionsRest, [SessionsNext]_sessionVars
  PROVE  SessionsRest'
  <1>1. CASE UNCHANGED <<revoked, bounced, made, page>>
    BY <1>1 DEF SessionsRest
  <1>2. CASE AccessExpires \/ UNCHANGED sessionVars
    BY <1>1, <1>2 DEF AccessExpires, browserVars, sessionVars
  <1>3. ASSUME NEW t \in Tabs, NEW c \in Calls, Send(t, c)
        PROVE  SessionsRest'
    BY <1>3, SessionsAssumption DEF Send, SessionsRest
  <1>4. ASSUME NEW t \in Tabs, NEW c \in Calls,
               Answered(t, c) \/ Unauthorized(t, c) \/ Replay(t, c)
        PROVE  SessionsRest'
    BY <1>1, <1>4 DEF Answered, Unauthorized, Replay
  <1>5. ASSUME NEW t \in Tabs, NEW c \in Calls, Bounce(t, c)
        PROVE  SessionsRest'
    <2>1. /\ page' = [page EXCEPT ![t] = "signin"] /\ bounced' = TRUE
          /\ revoked' = revoked /\ made' = made
      BY <1>5 DEF Bounce, Leave
    <2> QED
      BY <2>1, PageTurns DEF SessionsRest
  <1>6. ASSUME NEW t \in Tabs,
               \/ Rotate(t) \/ Reject(t) \/ AuthFails(t) \/ Refuse(t)
               \/ RefreshAnswer(t) \/ RefreshLost(t) \/ MigrateLegacyRefreshToken(t)
        PROVE  SessionsRest'
    BY <1>1, <1>6 DEF Rotate, Reject, AuthFails, Refuse, Answers, RefreshAnswer,
                      RefreshLost, MigrateLegacyRefreshToken
  <1>7. ASSUME NEW t \in Tabs, SignOut(t) \/ SignIn(t)
        PROVE  SessionsRest'
    <2>1. /\ page' = [page EXCEPT ![t] = "leaving"] \/ page' = [page EXCEPT ![t] = "app"]
          /\ bounced' = bounced /\ made' = made
          /\ revoked' = revoked \/ revoked' = FALSE
      BY <1>7 DEF SignOut, SignIn
    <2>2. page' \in [Tabs -> {"app", "leaving", "signin"}]
      BY <2>1, PageTurns
    <2> QED
      BY <2>1, <2>2 DEF SessionsRest
  <1>8. ASSUME NEW t \in Tabs, NEW heard \in BOOLEAN, NEW revokes \in BOOLEAN,
               SignedOut(t, heard, revokes)
        PROVE  SessionsRest'
    <2>1. /\ page' = [page EXCEPT ![t] = "signin"]
          /\ bounced' = bounced /\ made' = made
          /\ revoked' = (revoked \/ revokes)
      BY <1>8 DEF SignedOut, Leave
    <2>2. revoked' \in BOOLEAN
      BY <2>1
    <2> QED
      BY <2>1, <2>2, PageTurns DEF SessionsRest
  <1> QED
    BY <1>2, <1>3, <1>4, <1>5, <1>6, <1>7, <1>8 DEF SessionsNext

LEMMA SessionsTypes == BrowserInv /\ SessionsRest => SessionsTypeOK
  BY DEF BrowserInv, SessionsTyped, SessionsRest, SessionsTypeOK

KeysRest ==
  /\ time <= MaxTime
  /\ \A v \in Verifications : verifies[v].at \in Ended \cup {"waiting"}

LEMMA KeysRestInit == KeyCacheInit => KeysRest
  BY KeyCacheAssumption DEF KeyCacheInit, KeysRest, Ended

LEMMA SettlesRests ==
  ASSUME KeysInv, KeysRest, NEW keys, NEW failed \in BOOLEAN, Settles(keys, failed)
  PROVE  KeysRest'
  <1>1. ASSUME NEW v \in Verifications PROVE verifies'[v].at \in Ended \cup {"waiting"}
    <2>1. CASE v \notin Waiting
      <3>1. verifies'[v] = verifies[v]
        BY <2>1 DEF Settles
      <3> QED
        BY <3>1 DEF KeysRest
    <2>2. CASE v \in Waiting
      <3>1. PICK at \in Ended :
              at = IF failed THEN "refused" ELSE Answer(keys, verifies[v].token)
        BY DEF Ended, Answer
      <3>2. verifies'[v] = [verifies[v] EXCEPT !.at = at]
        BY <2>2, <3>1 DEF Settles
      <3>3. verifies[v] \in Awaiting
        BY <2>2 DEF KeysInv
      <3>4. verifies'[v].at = at
        BY <3>2, <3>3 DEF Awaiting
      <3> QED
        BY <3>1, <3>4
    <2> QED
      BY <2>1, <2>2
  <1> QED
    BY <1>1 DEF Settles, KeysRest

LEMMA KeysRestStep ==
  ASSUME KeysInv, KeysRest, [KeyCacheNext]_keyVars
  PROVE  KeysRest'
  <1>1. CASE UNCHANGED <<time, verifies>>
    BY <1>1 DEF KeysRest
  <1>2. CASE Publish \/ Retire \/ UNCHANGED keyVars
    BY <1>1, <1>2 DEF Publish, Retire, keyVars
  <1>3. CASE Later
    BY <1>3, KeyCacheAssumption DEF Later, KeysRest, KeysInv
  <1>4. CASE FetchSucceeds \/ FetchFails
    BY <1>4, SettlesRests DEF FetchSucceeds, FetchFails
  <1>5. ASSUME NEW v \in Verifications, NEW token \in Tokens, Verify(v, token)
        PROVE  KeysRest'
    <2>1. PICK at \in Ended \cup {"waiting"} :
            at = IF Hit(token) THEN Answer(cache.keys, token)
                 ELSE IF TooSoon THEN "refused" ELSE "waiting"
      BY DEF Ended, Answer
    <2>2. PICK step : step = [token |-> token, began |-> time, at |-> at]
      OBVIOUS
    <2>3. verifies' = [verifies EXCEPT ![v] = step] /\ time' = time
      BY <1>5, <2>1, <2>2 DEF Verify
    <2>4. \A w \in Verifications : verifies'[w].at \in Ended \cup {"waiting"}
      BY <2>1, <2>2, <2>3 DEF KeysRest, KeysInv
    <2> QED
      BY <2>3, <2>4 DEF KeysRest
  <1> QED
    BY <1>2, <1>3, <1>4, <1>5 DEF KeyCacheNext

LEMMA KeysTypes == KeysInv /\ KeysRest => KeyCacheTypeOK
  <1> SUFFICES ASSUME KeysInv, KeysRest PROVE KeyCacheTypeOK
    OBVIOUS
  <1>1. time \in 0 .. MaxTime
    BY KeyCacheAssumption DEF KeysInv, KeysRest
  <1>2. cache = NoCache \/ cache \in [keys : SUBSET KeyIds, failed : BOOLEAN, at : 0 .. MaxTime]
    <2>1. SUFFICES ASSUME cache \in CachedKeys, cache.at <= time
                   PROVE  cache \in [keys : SUBSET KeyIds, failed : BOOLEAN, at : 0 .. MaxTime]
      BY DEF KeysInv
    <2>2. cache.at \in 0 .. MaxTime
      BY <1>1, <2>1, KeyCacheAssumption DEF CachedKeys
    <2> QED
      BY <2>1, <2>2 DEF CachedKeys
  <1>3. (fetching = NoCache) = (Waiting = {})
    BY DEF KeysInv
  <1> QED
    BY <1>1, <1>2, <1>3 DEF KeysInv, KeysRest, KeyCacheTypeOK

\* What a request carries into a version or a form is one of the contents.
Carries(d) ==
  d.at \in {"add", "form", "insert_template", "promote", "insert_version"} =>
    d.content \in Contents

VersionRows == [published : BOOLEAN, content : Contents \cup {"none"}]

TemplateRest ==
  /\ template.status \in {"none", "draft", "published", "archived"}
  /\ versions \in [VersionNumbers -> VersionRows]
  /\ lastPublished \in 0 .. MaxVersions

FormsRest ==
  \A f \in Forms : forms[f] # Absent =>
    forms[f].status \in {"draft", "published", "retired"} /\ forms[f].content \in Contents

OfficesRest ==
  officeCalls \in 0 .. MaxOfficeCalls /\ \A o \in Offices : Carries(office[o])

GovernanceRest == TemplateRest /\ FormsRest /\ OfficesRest

LEMMA GovernanceRestInit == GovernanceInit => GovernanceRest
  <1> SUFFICES ASSUME GovernanceInit PROVE GovernanceRest
    OBVIOUS
  <1>1. PICK n \in {0, 1}, x \in Contents :
          /\ template = [status |-> IF n = 0 THEN "none" ELSE "draft", active |-> 0]
          /\ versions = [v \in VersionNumbers |->
               IF v <= n THEN [published |-> FALSE, content |-> x] ELSE NoVersion]
    BY DEF GovernanceInit
  <1>2. versions \in [VersionNumbers -> VersionRows]
    BY <1>1 DEF NoVersion, VersionRows
  <1>3. template.status \in {"none", "draft"}
    BY <1>1
  <1>4. TemplateRest
    <2>1. lastPublished \in 0 .. MaxVersions
      BY GovernanceAssumption DEF GovernanceInit
    <2> QED
      BY <1>2, <1>3, <2>1 DEF TemplateRest
  <1>5. FormsRest
    BY DEF GovernanceInit, FormsRest
  <1>6. \A o \in Offices : Carries(office[o])
    BY DEF GovernanceInit, Closed, Carries
  <1>7. officeCalls \in 0 .. MaxOfficeCalls
    BY GovernanceAssumption DEF GovernanceInit
  <1> QED
    BY <1>4, <1>5, <1>6, <1>7 DEF GovernanceRest, OfficesRest

\* A request that moves carries what it may.
LEMMA OfficeCarries ==
  ASSUME GovernedInv, OfficesRest, NEW o \in Offices, NEW step,
         Admit(o, step) \/ Proceed(o, step), Carries(step)
  PROVE  OfficesRest'
  <1>1. office' = [office EXCEPT ![o] = step] /\ officeCalls' \in 0 .. MaxOfficeCalls
    BY GovernanceAssumption DEF Admit, Proceed, OfficesRest
  <1>2. \A p \in Offices : office'[p] = step \/ office'[p] = office[p]
    BY <1>1 DEF GovernedInv, GovernanceTyped
  <1>3. ASSUME NEW p \in Offices PROVE Carries(office'[p])
    BY <1>2 DEF OfficesRest
  <1> QED
    BY <1>1, <1>3 DEF OfficesRest, Carries

LEMMA ClosedCarries == Carries(Closed)
  BY DEF Carries, Closed

\* A version that is written gets one of the contents.
LEMMA VersionsRest ==
  ASSUME TemplateRest, NEW n \in VersionNumbers, NEW v,
         versions' = [versions EXCEPT ![n] = v], v \in VersionRows
  PROVE  versions' \in [VersionNumbers -> VersionRows]
  BY DEF TemplateRest

LEMMA FormWritten ==
  ASSUME GovernedInv, FormsRest, NEW f \in Forms, NEW row,
         forms' = [forms EXCEPT ![f] = row],
         row.status \in {"draft", "published", "retired"}, row.content \in Contents
  PROVE  FormsRest'
  BY DEF GovernedInv, GovernanceTyped, FormsRest

\* The steps that write no version and no form.
LEMMA RequestsRest ==
  ASSUME GovernedInv, GovernanceRest, NEW o \in Offices,
         \/ \E x \in Contents : AddVersionRead(o, x)
         \/ \E n \in VersionNumbers, u \in Authors :
              \/ \E op \in {"edit", "publish"} : LoadDraft(o, op, n, u)
              \/ LoadPending(o, n, u)
         \/ RequestRoutes(o)
         \/ \E f \in Forms :
              \/ \E x \in Contents : CreateFormRead(o, f, x)
              \/ \E op \in {"edit_form", "publish_form"} : LoadForm(o, f, op)
              \/ PromoteLoad(o, f)
  PROVE  GovernanceRest'
  <1>1. SUFFICES ASSUME UNCHANGED <<template, versions, forms, lastPublished>>,
                        \E step : (Admit(o, step) \/ Proceed(o, step)) /\ Carries(step)
                 PROVE  GovernanceRest'
    <2>1. ASSUME NEW x \in Contents, AddVersionRead(o, x) PROVE GovernanceRest'
      <3>1. Carries([at |-> "add", number |-> NextTemplateVersion, content |-> x])
        BY DEF Carries
      <3> QED
        BY <1>1, <2>1, <3>1 DEF AddVersionRead, rest
    <2>2. ASSUME NEW n, NEW u, NEW op, LoadDraft(o, op, n, u) PROVE GovernanceRest'
      <3>1. PICK at \in {"edit", "stage", "flip"} :
              at = IF op = "edit" THEN "edit"
                   ELSE IF requiresApproval THEN "stage" ELSE "flip"
        OBVIOUS
      <3>2. Carries([at |-> at, number |-> n, by |-> u, asked |-> 0])
        BY DEF Carries
      <3> QED
        BY <1>1, <2>2, <3>1, <3>2 DEF LoadDraft, rest
    <2>3. ASSUME NEW n, NEW u, LoadPending(o, n, u) PROVE GovernanceRest'
      <3>1. PICK step : /\ Admit(o, step) /\ step.at = "approve"
                        /\ UNCHANGED <<template, versions, forms, lastPublished>>
        BY <2>3 DEF LoadPending, rest
      <3>2. Carries(step)
        BY <3>1 DEF Carries
      <3> QED
        BY <1>1, <3>1, <3>2
    <2>4. ASSUME NEW f, NEW x \in Contents, CreateFormRead(o, f, x) PROVE GovernanceRest'
      <3>1. Carries([at |-> "form", form |-> f, content |-> x,
                     number |-> Max(FormNumbers \cup {0}) + 1])
        BY DEF Carries
      <3> QED
        BY <1>1, <2>4, <3>1 DEF CreateFormRead, rest
    <2>5. ASSUME NEW f, NEW op \in {"edit_form", "publish_form"}, LoadForm(o, f, op)
          PROVE  GovernanceRest'
      <3>1. Carries([at |-> op, form |-> f,
                     others |-> {g \in Forms : forms[g].status = "published"}])
        BY DEF Carries
      <3> QED
        BY <1>1, <2>5, <3>1 DEF LoadForm, rest
    <2>6. ASSUME NEW f \in Forms, PromoteLoad(o, f) PROVE GovernanceRest'
      <3>1. forms[f].content \in Contents
        <4>1. forms[f] # Absent
          BY <2>6 DEF PromoteLoad, Absent
        <4> QED
          BY <4>1 DEF GovernanceRest, FormsRest
      <3>2. PICK step : /\ Admit(o, step) /\ step.content = forms[f].content
                        /\ UNCHANGED <<template, versions, forms, lastPublished>>
        BY <2>6 DEF PromoteLoad, rest
      <3>3. Carries(step)
        BY <3>1, <3>2 DEF Carries
      <3> QED
        BY <1>1, <3>2, <3>3
    <2>7. CASE RequestRoutes(o)
      <3>1. CASE SubmitAsked(o) \/ StampAsked(o) \/ AdvanceAsked(o)
        BY <1>1, <3>1, ClosedCarries DEF SubmitAsked, StampAsked, AdvanceAsked,
                                         rest
      <3>2. CASE Ask(o)
        <4>1. PICK r, half, step : /\ half = [office[o] EXCEPT !.at = "submit"]
                                   /\ step = [half EXCEPT !.asked = r]
                                   /\ Proceed(o, step)
                                   /\ UNCHANGED <<template, versions, forms, lastPublished>>
          BY <3>2 DEF Ask, rest
        <4>2. office[o].at = "stage" /\ WorkHolds(office[o])
          BY <3>2 DEF Ask, GovernedInv
        <4>3. office[o] \in Drafting
          BY <4>2 DEF WorkHolds, IsWork, Closed, Approving, Advancing, Forming
        <4>4. half.at = "submit" /\ step.at = half.at
          BY <4>1, <4>3 DEF Drafting
        <4>5. Carries(step)
          BY <4>4 DEF Carries
        <4> QED
          BY <1>1, <4>1, <4>5
      <3>3. CASE ApproveAsked(o)
        <4>1. PICK step : /\ step = IF office[o].published THEN Closed
                                    ELSE [office[o] EXCEPT !.at = "flip"]
                          /\ Proceed(o, step)
                          /\ UNCHANGED <<template, versions, forms, lastPublished>>
          BY <3>3 DEF ApproveAsked, rest
        <4>2. office[o].at = "approve" /\ WorkHolds(office[o])
          BY <3>3 DEF ApproveAsked, GovernedInv
        <4>3. office[o] \in Approving
          BY <4>2 DEF WorkHolds, IsWork, Closed, Drafting, Advancing, Forming
        <4>4. step = Closed \/ step.at = "flip"
          BY <4>1, <4>3 DEF Approving
        <4>5. Carries(step)
          BY <4>4, ClosedCarries DEF Carries
        <4> QED
          BY <1>1, <4>1, <4>5
      <3>4. ASSUME NEW r, NEW u, NEW to, LoadAsked(o, r, to, u) PROVE GovernanceRest'
        <4>1. Carries([at |-> "advance", asked |-> r, to |-> to, by |-> u])
          BY DEF Carries
        <4> QED
          BY <1>1, <3>4, <4>1 DEF LoadAsked, rest
      <3> QED
        BY <2>7, <3>1, <3>2, <3>3, <3>4 DEF RequestRoutes
    <2> QED
      BY <2>1, <2>2, <2>3, <2>4, <2>5, <2>6, <2>7
  <1>2. OfficesRest'
    BY <1>1, OfficeCarries DEF GovernanceRest
  <1> QED
    BY <1>1, <1>2 DEF GovernanceRest, TemplateRest, FormsRest

\* The steps that write a version or the template.
LEMMA VersionWritesRest ==
  ASSUME GovernedInv, GovernanceRest, NEW o \in Offices,
         \/ AddVersionInsert(o) \/ FlipVersion(o) \/ MoveTemplate(o)
         \/ PromoteTemplate(o) \/ PromoteVersion(o)
         \/ \E x \in Contents : EditVersion(o, x)
  PROVE  GovernanceRest'
  <1>1. PICK n, d : n = office[o].number /\ d = office[o]
    OBVIOUS
  <1>2. WorkHolds(d) /\ Carries(d)
    BY <1>1 DEF GovernedInv, GovernanceRest, OfficesRest
  <1>3. /\ \A v \in VersionNumbers : v \in Nat /\ v \in 0 .. MaxVersions
        /\ \A v \in VersionNumbers : versions[v] \in VersionRows
    BY GovernanceAssumption DEF VersionNumbers, GovernanceRest, TemplateRest
  <1>4. CASE AddVersionInsert(o)
    <2>1. PICK v : v = [published |-> FALSE, content |-> d.content]
      OBVIOUS
    <2>2. /\ d.at = "add" /\ n \in VersionNumbers /\ versions' = [versions EXCEPT ![n] = v]
          /\ Proceed(o, Closed) /\ UNCHANGED <<template, forms, lastPublished>>
      BY <1>1, <1>4, <2>1 DEF AddVersionInsert, rest
    <2>3. v \in VersionRows
      BY <1>2, <2>1, <2>2 DEF Carries, VersionRows
    <2>4. versions' \in [VersionNumbers -> VersionRows]
      BY <2>2, <2>3, VersionsRest DEF GovernanceRest
    <2> QED
      BY <2>2, <2>4, OfficeCarries, ClosedCarries
         DEF GovernanceRest, TemplateRest, FormsRest
  <1>5. ASSUME NEW x \in Contents, EditVersion(o, x) PROVE GovernanceRest'
    <2>1. PICK v : v = [versions[n] EXCEPT !.content = x]
      OBVIOUS
    <2>2. /\ d.at = "edit" /\ versions' = [versions EXCEPT ![n] = v]
          /\ Proceed(o, Closed) /\ UNCHANGED <<template, forms, lastPublished>>
      BY <1>1, <1>5, <2>1 DEF EditVersion, rest
    <2>3. n \in VersionNumbers
      BY <1>1, <1>2, <2>2 DEF WorkHolds, IsWork, Closed, Drafting, Approving,
                              Advancing, Forming
    <2>4. v \in VersionRows
      BY <1>3, <2>1, <2>3 DEF VersionRows
    <2>5. versions' \in [VersionNumbers -> VersionRows]
      BY <2>2, <2>3, <2>4, VersionsRest DEF GovernanceRest
    <2> QED
      BY <2>2, <2>5, OfficeCarries, ClosedCarries
         DEF GovernanceRest, TemplateRest, FormsRest
  <1>6. CASE FlipVersion(o)
    <2>1. PICK v, step : /\ v = [versions[n] EXCEPT !.published = TRUE]
                         /\ step = [d EXCEPT !.at = "move"]
      OBVIOUS
    <2>2. /\ d.at = "flip" /\ versions' = [versions EXCEPT ![n] = v]
          /\ Proceed(o, step) /\ lastPublished' = n /\ UNCHANGED <<template, forms>>
      BY <1>1, <1>6, <2>1 DEF FlipVersion, Publishes
    <2>3. d \in Drafting \cup Approving
      BY <1>2, <2>2 DEF WorkHolds, IsWork, Closed, Advancing, Forming
    <2>4. n \in VersionNumbers /\ step.at = "move"
      BY <1>1, <2>1, <2>3 DEF Drafting, Approving
    <2>5. v \in VersionRows
      BY <1>3, <2>1, <2>4 DEF VersionRows
    <2>6. versions' \in [VersionNumbers -> VersionRows]
      BY <1>3, <2>2, <2>4, <2>5, VersionsRest DEF GovernanceRest
    <2>7. OfficesRest'
      BY <2>2, <2>4, OfficeCarries DEF GovernanceRest, Carries
    <2> QED
      BY <1>3, <2>2, <2>4, <2>6, <2>7 DEF GovernanceRest, TemplateRest,
                                          FormsRest
  <1>7. CASE MoveTemplate(o)
    <2>1. PICK step : step = IF d.asked = 0 THEN Closed ELSE [d EXCEPT !.at = "stamp"]
      OBVIOUS
    <2>2. /\ d.at = "move" /\ template' = [status |-> "published", active |-> n]
          /\ Proceed(o, step) /\ UNCHANGED <<versions, forms, lastPublished>>
      BY <1>1, <1>7, <2>1 DEF MoveTemplate, rest
    <2>3. d \in Drafting \cup Approving \/ d.asked = 0
      BY <1>2, <2>2 DEF WorkHolds, IsWork, Closed, Advancing, Forming
    <2>4. step = Closed \/ step.at = "stamp"
      BY <2>1, <2>3 DEF Drafting, Approving
    <2>5. OfficesRest'
      BY <2>2, <2>4, OfficeCarries, ClosedCarries DEF GovernanceRest, Carries
    <2> QED
      BY <2>2, <2>5 DEF GovernanceRest, TemplateRest, FormsRest
  <1>8. CASE PromoteTemplate(o)
    <2>1. PICK step : step = [d EXCEPT !.at = "insert_version"]
      OBVIOUS
    <2>2. /\ d.at = "insert_template" /\ template' = [template EXCEPT !.status = "draft"]
          /\ Proceed(o, step) /\ UNCHANGED <<versions, forms, lastPublished>>
      BY <1>1, <1>8, <2>1 DEF PromoteTemplate, rest
    <2>3. d = [at |-> d.at, number |-> d.number, content |-> d.content, asked |-> 0]
      BY <1>2, <2>2 DEF WorkHolds, IsWork, Closed, Drafting, Approving,
                        Advancing, Forming
    <2>4. step.content = d.content
      BY <2>1, <2>3
    <2>5. Carries(step)
      BY <1>2, <2>2, <2>4 DEF Carries
    <2>6. template'.status = "draft"
      BY <2>2 DEF GovernedInv, GovernanceTyped
    <2>7. OfficesRest'
      BY <2>2, <2>5, OfficeCarries DEF GovernanceRest
    <2> QED
      BY <2>2, <2>6, <2>7 DEF GovernanceRest, TemplateRest, FormsRest
  <1>9. CASE PromoteVersion(o)
    <2>1. PICK v, step : /\ v = [published |-> TRUE, content |-> d.content]
                         /\ step = [d EXCEPT !.at = "move"]
      OBVIOUS
    <2>2. /\ d.at \in {"promote", "insert_version"} /\ n \in VersionNumbers
          /\ versions' = [versions EXCEPT ![n] = v]
          /\ Proceed(o, step) /\ lastPublished' = n /\ UNCHANGED <<template, forms>>
      BY <1>1, <1>9, <2>1 DEF PromoteVersion, Publishes
    <2>3. d = [at |-> d.at, number |-> d.number, content |-> d.content, asked |-> 0]
      BY <1>2, <2>2 DEF WorkHolds, IsWork, Closed, Drafting, Approving,
                        Advancing, Forming
    <2>4. step.at = "move"
      BY <2>1, <2>3
    <2>5. v \in VersionRows
      BY <1>2, <2>1, <2>2 DEF Carries, VersionRows
    <2>6. versions' \in [VersionNumbers -> VersionRows]
      BY <2>2, <2>5, VersionsRest DEF GovernanceRest
    <2>7. OfficesRest'
      BY <2>2, <2>4, OfficeCarries DEF GovernanceRest, Carries
    <2> QED
      BY <1>3, <2>2, <2>6, <2>7 DEF GovernanceRest, TemplateRest, FormsRest
  <1> QED
    BY <1>4, <1>5, <1>6, <1>7, <1>8, <1>9

\* The steps that write a form.
LEMMA FormWritesRest ==
  ASSUME GovernedInv, GovernanceRest, NEW o \in Offices,
         \/ CreateFormInsert(o) \/ PublishForm(o)
         \/ \E f \in Forms : RetireOther(o, f)
         \/ \E x \in Contents : EditForm(o, x)
  PROVE  GovernanceRest'
  <1>1. PICK d : d = office[o]
    OBVIOUS
  <1>2. WorkHolds(d) /\ Carries(d)
    BY <1>1 DEF GovernedInv, GovernanceRest, OfficesRest
  <1>3. ASSUME NEW f \in Forms, forms[f] # Absent
        PROVE  /\ forms[f].status \in {"draft", "published", "retired"}
               /\ forms[f].content \in Contents /\ IsForm(forms[f])
    BY <1>3 DEF GovernanceRest, FormsRest, GovernedInv, GovernanceTyped
  <1>4. SUFFICES ASSUME UNCHANGED <<template, versions, lastPublished>>,
                        NEW f \in Forms, NEW row, NEW step,
                        forms' = [forms EXCEPT ![f] = row], Proceed(o, step), Carries(step),
                        row.status \in {"draft", "published", "retired"},
                        row.content \in Contents
                 PROVE  GovernanceRest'
    <2>1. CASE CreateFormInsert(o)
      <3>1. PICK row : row = [status |-> "draft", number |-> d.number, content |-> d.content]
        OBVIOUS
      <3>2. /\ d.at = "form" /\ forms' = [forms EXCEPT ![d.form] = row]
            /\ Proceed(o, Closed) /\ UNCHANGED <<template, versions, lastPublished>>
        BY <1>1, <2>1, <3>1 DEF CreateFormInsert, rest
      <3>3. d.form \in Forms
        BY <1>2, <3>2 DEF WorkHolds, IsWork, Closed, Drafting, Approving,
                          Advancing, Forming
      <3>4. row.content \in Contents /\ row.status = "draft"
        BY <1>2, <3>1, <3>2 DEF Carries
      <3> QED
        BY <1>4, <3>2, <3>3, <3>4, ClosedCarries
    <2>2. CASE PublishForm(o)
      <3>1. PICK row : row = [forms[d.form] EXCEPT !.status = "published"]
        OBVIOUS
      <3>2. /\ d.at \in {"publish_form", "supersede"} /\ forms' = [forms EXCEPT ![d.form] = row]
            /\ Proceed(o, Closed) /\ UNCHANGED <<template, versions, lastPublished>>
        BY <1>1, <2>2, <3>1 DEF PublishForm, rest
      <3>3. d.form \in Forms /\ forms[d.form] # Absent
        BY <1>1, <3>2, FormingHolds DEF Forming
      <3>4. row.status = "published" /\ row.content \in Contents
        <4>1. IsForm(forms[d.form]) /\ forms[d.form].content \in Contents
          BY <1>3, <3>3
        <4> QED
          BY <3>1, <4>1 DEF IsForm
      <3> QED
        BY <1>4, <3>2, <3>3, <3>4, ClosedCarries
    <2>3. ASSUME NEW f \in Forms, RetireOther(o, f) PROVE GovernanceRest'
      <3>1. PICK row, half, step : /\ row = [forms[f] EXCEPT !.status = "retired"]
                                   /\ half = [d EXCEPT !.at = "supersede"]
                                   /\ step = [half EXCEPT !.others = @ \ {f}]
        OBVIOUS
      <3>2. /\ d.at \in {"publish_form", "supersede"} /\ f \in d.others
            /\ forms' = [forms EXCEPT ![f] = row]
            /\ Proceed(o, step) /\ UNCHANGED <<template, versions, lastPublished>>
        BY <1>1, <2>3, <3>1 DEF RetireOther, rest
      <3>3. d \in Forming /\ forms[f] # Absent
        BY <1>1, <3>2, FormingHolds
      <3>4. row.status = "retired" /\ row.content \in Contents
        <4>1. IsForm(forms[f]) /\ forms[f].content \in Contents
          BY <1>3, <3>3
        <4> QED
          BY <3>1, <4>1 DEF IsForm
      <3>5. step.at = "supersede"
        BY <3>1, <3>3 DEF Forming
      <3>6. Carries(step)
        BY <3>5 DEF Carries
      <3> QED
        BY <1>4, <3>2, <3>4, <3>6
    <2>4. ASSUME NEW x \in Contents, EditForm(o, x) PROVE GovernanceRest'
      <3>1. PICK row : row = [forms[d.form] EXCEPT !.content = x]
        OBVIOUS
      <3>2. /\ d.at = "edit_form" /\ forms' = [forms EXCEPT ![d.form] = row]
            /\ Proceed(o, Closed) /\ UNCHANGED <<template, versions, lastPublished>>
        BY <1>1, <2>4, <3>1 DEF EditForm, rest
      <3>3. d.form \in Forms /\ forms[d.form] # Absent
        BY <1>1, <3>2, FormingHolds DEF Forming
      <3>4. row.status = forms[d.form].status /\ row.content = x
        BY <1>3, <3>1, <3>3 DEF IsForm
      <3>5. row.status \in {"draft", "published", "retired"}
        BY <1>3, <3>3, <3>4
      <3> QED
        BY <1>4, <3>2, <3>3, <3>4, <3>5, ClosedCarries
    <2> QED
      BY <2>1, <2>2, <2>3, <2>4
  <1>5. FormsRest' /\ OfficesRest'
    BY <1>4, FormWritten, OfficeCarries DEF GovernanceRest
  <1> QED
    BY <1>4, <1>5 DEF GovernanceRest, TemplateRest

LEMMA GovernanceRestStep ==
  ASSUME GovernedInv, GovernanceRest, [GovernanceNext]_governanceVars
  PROVE  GovernanceRest'
  <1>1. CASE UNCHANGED governanceVars
    BY <1>1 DEF governanceVars, GovernanceRest, TemplateRest, FormsRest,
                OfficesRest, Carries
  <1>2. ASSUME NEW s, template'.status = s, s \in {"none", "draft", "published", "archived"},
               officeCalls' \in 0 .. MaxOfficeCalls,
               UNCHANGED <<versions, forms, office, lastPublished>>
        PROVE  GovernanceRest'
    BY <1>2 DEF GovernanceRest, TemplateRest, FormsRest, OfficesRest, Carries
  <1>3. officeCalls < MaxOfficeCalls => officeCalls + 1 \in 0 .. MaxOfficeCalls
    BY GovernanceAssumption DEF GovernanceRest, OfficesRest
  <1>4. CASE ToggleSetting
    BY <1>2, <1>3, <1>4 DEF ToggleSetting, rest, GovernanceRest, TemplateRest
  <1>5. CASE CreateOrArchive
    <2>1. template'.status \in {"draft", "archived"}
      BY <1>5 DEF CreateOrArchive, GovernedInv, GovernanceTyped
    <2> QED
      BY <1>2, <1>3, <1>5, <2>1 DEF CreateOrArchive, rest
  <1>6. ASSUME NEW o \in Offices, GiveUp(o) PROVE GovernanceRest'
    <2>1. /\ office' = [office EXCEPT ![o] = Closed]
          /\ UNCHANGED <<template, versions, forms, lastPublished, officeCalls>>
      BY <1>6 DEF GiveUp
    <2>2. \A p \in Offices : office'[p] = Closed \/ office'[p] = office[p]
      BY <2>1 DEF GovernedInv, GovernanceTyped
    <2>3. \A p \in Offices : Carries(office'[p])
      BY <2>2, ClosedCarries DEF GovernanceRest, OfficesRest
    <2> QED
      BY <2>1, <2>3 DEF GovernanceRest, TemplateRest, FormsRest, OfficesRest,
                        Carries
  <1>7. ASSUME NEW o \in Offices, VersionRoutes(o) \/ RequestRoutes(o) \/ FormRoutes(o)
        PROVE  GovernanceRest'
    BY <1>7, RequestsRest, VersionWritesRest, FormWritesRest
       DEF VersionRoutes, FormRoutes
  <1> QED
    BY <1>1, <1>4, <1>5, <1>6, <1>7 DEF GovernanceNext

LEMMA GovernanceTypes == GovernedInv /\ GovernanceRest => GovernanceTypeOK
  <1> SUFFICES ASSUME GovernedInv, GovernanceRest PROVE GovernanceTypeOK
    OBVIOUS
  <1>1. template \in [status : {"none", "draft", "published", "archived"},
                      active : 0 .. MaxVersions]
    BY DEF GovernedInv, GovernanceTyped, GovernanceRest, TemplateRest
  <1>2. versions \in [VersionNumbers -> [published : BOOLEAN, content : Contents \cup {"none"}]]
    BY DEF GovernanceRest, TemplateRest, VersionRows
  <1>3. \A r \in 1 .. MaxAsked : asked[r].status \in
          {"none", "draft", "pending_review", "approved", "rejected", "published"}
    BY DEF GovernedInv, GovernanceTyped, AskedRows, Absent
  <1>4. \A f \in Forms : forms[f].status \in {"none", "draft", "published", "retired"}
    BY DEF GovernanceRest, FormsRest, Absent
  <1> QED
    BY <1>1, <1>2, <1>3, <1>4 DEF GovernedInv, GovernanceTyped, GovernanceRest,
                                  TemplateRest, OfficesRest, GovernanceTypeOK

AuditRest == tampered \subseteq 1 .. MaxAuditRows /\ crossed \in BOOLEAN

LEMMA AuditRestInit == AuditChainInit => AuditRest
  BY DEF AuditChainInit, AuditRest

LEMMA AuditRestStep ==
  ASSUME ChainInv, AuditRest, [AuditChainNext]_auditChainVars
  PROVE  AuditRest'
  <1>1. CASE UNCHANGED <<tampered, crossed>>
    BY <1>1 DEF AuditRest
  <1>2. ASSUME NEW w \in Writers, Draw(w) PROVE AuditRest'
    BY <1>2 DEF Draw, AuditRest
  <1>3. ASSUME NEW w \in Writers, Commit(w) \/ Abort(w) \/ \E x \in Payloads : Link(w, x)
        PROVE  AuditRest'
    BY <1>1, <1>3 DEF Commit, Abort, Link
  <1>4. ASSUME NEW row \in rows, Erase(row) \/ \E x \in Payloads : Tamper(row, x)
        PROVE  AuditRest'
    <2>1. row.seq \in 1 .. MaxAuditRows
      BY DEF ChainInv, ChainTyped, IsAuditRow
    <2>2. tampered' = tampered \cup {row.seq} /\ crossed' = crossed
      BY <1>4 DEF Erase, Tamper
    <2> QED
      BY <2>1, <2>2 DEF AuditRest
  <1> QED
    BY <1>1, <1>2, <1>3, <1>4 DEF AuditChainNext, auditChainVars

LEMMA AuditTypes == ChainInv /\ AuditRest => AuditChainTypeOK
  BY DEF ChainInv, ChainTyped, IsAuditRow, AuditRest, AuditChainTypeOK

LEMMA ListsTypes == VenueInv => FacilityListsTypeOK
  BY DEF VenueInv, ListsTyped, FacilityListsTypeOK

AttachmentsRest == bucket \subseteq Uploads

LEMMA AttachmentsRestStep ==
  ASSUME AttachmentsRest, [AttachmentsNext]_attachmentVars
  PROVE  AttachmentsRest'
  <1>1. CASE UNCHANGED bucket
    BY <1>1 DEF AttachmentsRest
  <1>2. CASE UNCHANGED attachmentVars
    BY <1>1, <1>2 DEF attachmentVars
  <1>3. ASSUME NEW u \in Uploads, UploadObject(u)
        PROVE  AttachmentsRest'
    BY <1>3 DEF UploadObject, AttachmentsRest
  <1>4. ASSUME NEW u \in Uploads,
               \/ \E p \in Parents, mime \in MimeTypes, size \in Sizes,
                     declared \in BOOLEAN : LoadParent(u, p, mime, size, declared)
               \/ ResolvePhotoConstraints(u) \/ InsertRow(u)
               \/ SaveEvidencePath(u) \/ InsertEvidenceEvent(u) \/ Fail(u)
        PROVE  AttachmentsRest'
    BY <1>1, <1>4 DEF LoadParent, ResolvePhotoConstraints, InsertRow,
                      SaveEvidencePath, InsertEvidenceEvent, Fail
  <1>5. ASSUME NEW p \in Reports, SubmitReport(p)
        PROVE  AttachmentsRest'
    BY <1>1, <1>5 DEF SubmitReport
  <1> QED
    BY <1>2, <1>3, <1>4, <1>5 DEF AttachmentsNext

LEMMA AttachmentsTypes == EvidenceInv /\ AttachmentsRest => AttachmentsTypeOK
  BY DEF EvidenceInv, AttachmentsTyped, AttachmentsRest, AttachmentsTypeOK

\* What a panel shows is known, and what its calls are about.
ShownKnown(s) ==
  s.items \cup s.notes \subseteq known /\ {s.detailId, s.detail} \subseteq known \cup {Blank}

CallKnown(c) ==
  /\ c.then \in known \cup {Blank}
  /\ c.kind \in {"detail", "notes", "people", "act", "amend", "note", "escalate"} => c.of \in known

PanelsRest ==
  /\ here \in Places /\ known \subseteq DOMAIN PlaceOf
  /\ search.input \in Queries \cup {Blank}
  /\ ShownKnown(state) /\ \A c \in waits : CallKnown(c)

LEMMA PanelsRestInit ==
  ASSUME RecordPanelsInit
  PROVE  PanelsRest
  <1>1. state = [items |-> In(here), chip |-> "all", asked |-> "all", detailId |-> Blank,
                 detail |-> Blank, notes |-> {}]
    BY DEF RecordPanelsInit, Empty
  <1>2. ShownKnown(state)
    BY <1>1 DEF ShownKnown, In
  <1> QED
    BY <1>2 DEF RecordPanelsInit, PanelsRest

\* A step that shows what is known, and asks about it.
LEMMA KnownStays ==
  ASSUME PanelsRest, NEW others \in SUBSET waits, here' \in Places,
         known \subseteq known', known' \subseteq DOMAIN PlaceOf,
         search'.input \in Queries \cup {Blank}, ShownKnown(state)' \/ UNCHANGED state,
         \/ waits' = others
         \/ \E kind, of, s, then :
              /\ PanelAsks(others, kind, of, s, then) /\ then \in known' \cup {Blank}
              /\ kind \in {"detail", "notes", "people", "act", "amend", "note", "escalate"}
                   => of \in known'
  PROVE  PanelsRest'
  <1>1. \A c \in others : CallKnown(c)'
    BY DEF PanelsRest, CallKnown
  <1>2. ShownKnown(state)'
    BY DEF PanelsRest, ShownKnown
  <1>3. CASE waits' = others
    BY <1>1, <1>2, <1>3 DEF PanelsRest
  <1>4. ASSUME NEW kind, NEW of, NEW s, NEW then, PanelAsks(others, kind, of, s, then),
               then \in known' \cup {Blank},
               kind \in {"detail", "notes", "people", "act", "amend", "note", "escalate"}
                 => of \in known'
        PROVE  PanelsRest'
    <2>1. PICK new : /\ waits' = others \cup {new}
                     /\ new.kind = kind /\ new.of = of /\ new.then = then
      BY <1>4, PanelAsksOne
    <2>2. CallKnown(new)'
      BY <1>4, <2>1 DEF CallKnown
    <2> QED
      BY <1>1, <1>2, <2>1, <2>2 DEF PanelsRest
  <1> QED
    BY <1>3, <1>4

LEMMA DetailedKnown ==
  ASSUME NEW s, StateTyped(s), NEW r \in known, ShownKnown(s)
  PROVE  ShownKnown(Detailed(s, r))
  <1>1. PICK x : x = Detailed(s, r)
    OBVIOUS
  <1>2. /\ x.detailId = r /\ x.detail = Blank /\ x.notes = {} /\ x.items = s.items
    BY <1>1, DetailedIsNew
  <1>3. ShownKnown(x)
    BY <1>2 DEF ShownKnown
  <1> QED
    BY <1>1, <1>3

\* A record that is known is opened.
LEMMA OpensKnown ==
  ASSUME PanelsRest, StateTyped(state), NEW r \in known, NEW s, StateTyped(s), ShownKnown(s),
         NEW others \in SUBSET waits, Opens(r, others, Detailed(s, r)),
         search'.input = search.input, UNCHANGED <<here, known>>
  PROVE  PanelsRest'
  <1>1. ShownKnown(Detailed(s, r))
    BY DetailedKnown
  <1>2. state' = Detailed(s, r) /\ PanelAsks(others, "detail", r, Detailed(s, r), Blank)
    BY DEF Opens
  <1>3. ShownKnown(state)'
    BY <1>1, <1>2 DEF ShownKnown
  <1> QED
    BY <1>2, <1>3, KnownStays DEF PanelsRest

\* A facility is selected, or the chip of the list.
LEMMA ListsKnown ==
  ASSUME RecordsInv, PanelsRest
  PROVE  /\ \A f \in Places : SelectFacility(f) => PanelsRest'
         /\ \A chip \in {"all", "mine"} : SetChip(chip) => PanelsRest'
         /\ \A c \in waits : LoadWorkOrders(c) => PanelsRest'
  <1>0. Blank \in known \cup {Blank} /\ waits \in SUBSET waits
    OBVIOUS
  <1>1. ASSUME NEW f \in Places, SelectFacility(f)
        PROVE  PanelsRest'
    <2>1. /\ here' = f /\ UNCHANGED <<known, search>>
          /\ \E kind \in {"list", "employees"} : PanelAsks(waits, kind, f, state', Blank)
          /\ state' = ResetIncidents \/ state' = ResetWorkOrders
      BY <1>1 DEF SelectFacility
    <2>2. PICK chip, notes : /\ notes \in {{}, state.notes}
                             /\ state' = [items |-> {}, chip |-> chip, asked |-> "all",
                                  detailId |-> Blank, detail |-> Blank, notes |-> notes]
      BY <2>1 DEF ResetIncidents, ResetWorkOrders, Empty
    <2>3. ShownKnown(state)'
      BY <2>1, <2>2 DEF ShownKnown, PanelsRest
    <2> QED
      BY <1>0, <2>1, <2>3, KnownStays DEF PanelsRest
  <1>2. ASSUME NEW chip \in {"all", "mine"}, SetChip(chip)
        PROVE  PanelsRest'
    <2>1. /\ state' = [state EXCEPT !.chip = chip] /\ UNCHANGED <<here, known, search>>
          /\ PanelAsks(waits, "list", here, state', Blank)
      BY <1>2 DEF SetChip, LoadList
    <2>2. ShownKnown(state)'
      BY <2>1 DEF RecordsInv, StateTyped, PanelsRest, ShownKnown
    <2> QED
      BY <1>0, <2>1, <2>2, KnownStays DEF PanelsRest
  <1>3. ASSUME NEW c \in waits, LoadWorkOrders(c)
        PROVE  PanelsRest'
    <2>1. /\ UNCHANGED <<here, known, state, search>>
          /\ PanelAsks(waits \ {c}, "list", here, state, Blank)
      BY <1>3 DEF LoadWorkOrders, LoadList
    <2>2. /\ waits \ {c} \in SUBSET waits /\ here \in Places /\ known \subseteq DOMAIN PlaceOf
          /\ search.input \in Queries \cup {Blank}
      BY DEF PanelsRest
    <2> QED
      BY <1>0, <2>1, <2>2, KnownStays
  <1> QED
    BY <1>1, <1>2, <1>3

\* What is answered is shown, or asked for more.
LEMMA AnswersKnown ==
  ASSUME RecordsInv, PanelsRest, NEW c \in waits
  PROVE  /\ ListCame(c) => PanelsRest'
         /\ DetailCame(c) => PanelsRest'
         /\ NotesCame(c) => PanelsRest'
         /\ ActCame(c) => PanelsRest'
  <1>0. /\ StateTyped(state) /\ waits \ {c} \in SUBSET waits /\ CallKnown(c)
        /\ ShownKnown(state) /\ here \in Places /\ search.input \in Queries \cup {Blank}
        /\ known \subseteq DOMAIN PlaceOf
    BY DEF RecordsInv, PanelsRest
  <1>1. ASSUME ListCame(c) PROVE PanelsRest'
    <2>1. PICK items \in {In(c.of), {}} :
            LET s == [state EXCEPT !.items = items, !.asked = c.chip]
            IN  IF c.then = Blank
                  THEN state' = s /\ Drop(waits \ {c}) /\ UNCHANGED excused
                  ELSE Opens(c.then, waits \ {c}, Detailed(s, c.then))
      BY <1>1 DEF ListCame
    <2>2. PICK s : s = [state EXCEPT !.items = items, !.asked = c.chip]
      OBVIOUS
    <2>3. s = [items |-> items, chip |-> state.chip, asked |-> c.chip,
               detailId |-> state.detailId, detail |-> state.detail, notes |-> state.notes]
      BY <1>0, <2>2 DEF StateTyped
    <2>4. StateTyped(s) /\ ShownKnown(s)
      BY <1>0, <2>3 DEF StateTyped, ShownKnown, In
    <2>5. UNCHANGED <<here, known, search>>
      BY <1>1 DEF ListCame
    <2>6. CASE c.then = Blank
      <3>1. state' = s /\ waits' = waits \ {c}
        BY <2>1, <2>2, <2>6 DEF Drop
      <3>2. ShownKnown(state)'
        BY <2>4, <2>5, <3>1 DEF ShownKnown
      <3> QED
        BY <1>0, <2>5, <3>1, <3>2, KnownStays
    <2>7. CASE c.then # Blank
      <3>1. Opens(c.then, waits \ {c}, Detailed(s, c.then)) /\ c.then \in known
        BY <1>0, <2>1, <2>2, <2>7 DEF CallKnown
      <3> QED
        BY <1>0, <2>4, <2>5, <3>1, OpensKnown
    <2> QED
      BY <2>6, <2>7
  <1>2. ASSUME DetailCame(c) PROVE PanelsRest'
    <2>1. UNCHANGED <<here, known, search>> /\ c.of \in known
      BY <1>0, <1>2 DEF DetailCame, CallKnown
    <2>2. CASE state' = [state EXCEPT !.detail = c.of]
               /\ PanelAsks(waits \ {c}, "notes", c.of, state, Blank)
      <3>1. ShownKnown(state)'
        BY <1>0, <2>1, <2>2 DEF StateTyped, ShownKnown
      <3> QED
        BY <1>0, <2>1, <2>2, <3>1, KnownStays
    <2>3. CASE UNCHANGED state /\ waits' = waits \ {c}
      BY <1>0, <2>1, <2>3, KnownStays
    <2> QED
      BY <1>2, <2>2, <2>3 DEF DetailCame, Drop
  <1>3. ASSUME NotesCame(c) PROVE PanelsRest'
    <2>1. /\ UNCHANGED <<here, known, search>> /\ c.of \in known /\ LoadPeople(waits \ {c})
          /\ state' \in {[state EXCEPT !.notes = {c.of}], [state EXCEPT !.notes = {}]}
      BY <1>0, <1>3 DEF NotesCame, CallKnown
    <2>2. ShownKnown(state)'
      BY <1>0, <2>1 DEF StateTyped, ShownKnown
    <2>3. CASE waits' = waits \ {c}
      BY <1>0, <2>1, <2>2, <2>3, KnownStays
    <2>4. CASE /\ PanelAsks(waits \ {c}, "people", state.detailId, state, Blank)
               /\ state.detailId # Blank
      <3>1. state.detailId \in known
        BY <1>0, <2>4 DEF ShownKnown
      <3> QED
        BY <1>0, <2>1, <2>2, <2>4, <3>1, KnownStays
    <2> QED
      BY <2>1, <2>3, <2>4 DEF LoadPeople, Drop
  <1>4. ASSUME ActCame(c) PROVE PanelsRest'
    <2>1. UNCHANGED <<here, known, search>> /\ waits' = waits \ {c}
      BY <1>4 DEF ActCame, Drop
    <2>2. CASE UNCHANGED state
      BY <1>0, <2>1, <2>2, KnownStays
    <2>3. CASE c.of \in known /\ (state' = [state EXCEPT !.detail = c.of]
                                    \/ state' = [state EXCEPT !.notes = @ \cup {c.of}]
                                    \/ state' = [state EXCEPT !.detail = c.of,
                                                              !.notes = @ \cup {c.of}])
      <3>0. /\ UNCHANGED known /\ state'.items = state.items
            /\ state'.detailId = state.detailId
            /\ state'.detail \in {state.detail, c.of}
            /\ state'.notes \subseteq state.notes \cup {c.of}
        BY <1>0, <2>1, <2>3 DEF StateTyped
      <3>1. ShownKnown(state)'
        BY <1>0, <2>3, <3>0 DEF ShownKnown
      <3> QED
        BY <1>0, <2>1, <3>1, KnownStays
    <2> QED
      BY <1>0, <1>4, <2>2, <2>3 DEF ActCame, CallKnown
  <1> QED
    BY <1>1, <1>2, <1>3, <1>4

\* A record that is created is known.
LEMMA CreatedKnown ==
  ASSUME RecordsInv, PanelsRest, NEW c \in waits, SubmitCapture(c) \/ CreateWorkOrder(c)
  PROVE  PanelsRest'
  <1>0. /\ StateTyped(state) /\ waits \ {c} \in SUBSET waits
        /\ ShownKnown(state) /\ here \in Places /\ search.input \in Queries \cup {Blank}
        /\ known \subseteq DOMAIN PlaceOf
    BY DEF RecordsInv, PanelsRest
  <1>1. PICK r \in DOMAIN PlaceOf :
          /\ known' = known \cup {r} /\ UNCHANGED <<here, search>>
          /\ \/ Opens(r, waits \ {c}, [Detailed(state, r) EXCEPT !.items = @ \cup {r}])
             \/ state' = state /\ LoadList(waits \ {c}, state, r)
    BY DEF SubmitCapture, CreateWorkOrder, Created
  <1>2. CASE state' = state /\ LoadList(waits \ {c}, state, r)
    <2>1. PanelAsks(waits \ {c}, "list", here, state, r) /\ r \in known'
      BY <1>1, <1>2 DEF LoadList
    <2> QED
      BY <1>0, <1>1, <1>2, <2>1, KnownStays
  <1>3. CASE Opens(r, waits \ {c}, [Detailed(state, r) EXCEPT !.items = @ \cup {r}])
    <2>1. PICK d : d = Detailed(state, r)
      OBVIOUS
    <2>2. /\ StateTyped(d) /\ d.detailId = r /\ d.detail = Blank /\ d.notes = {}
          /\ d.items = state.items
      BY <1>0, <2>1, DetailedIsNew
    <2>3. PICK s : s = [d EXCEPT !.items = @ \cup {r}]
      OBVIOUS
    <2>4. s.items = state.items \cup {r} /\ s.detailId = r /\ s.detail = Blank /\ s.notes = {}
      BY <2>2, <2>3 DEF StateTyped
    <2>5. Opens(r, waits \ {c}, s)
      BY <1>3, <2>1, <2>3
    <2>6. state' = s /\ PanelAsks(waits \ {c}, "detail", r, s, Blank)
      BY <2>5 DEF Opens
    <2>7. ShownKnown(state)'
      BY <1>0, <1>1, <2>4, <2>6 DEF ShownKnown
    <2>8. r \in known' /\ known \subseteq known' /\ known' \subseteq DOMAIN PlaceOf
          /\ here' \in Places /\ search'.input \in Queries \cup {Blank}
      BY <1>0, <1>1
    <2> QED
      BY <1>0, <2>6, <2>7, <2>8, KnownStays
  <1> QED
    BY <1>1, <1>2, <1>3

LEMMA PanelsRestStep ==
  ASSUME RecordsInv, PanelsRest, [RecordPanelsNext]_panelVars
  PROVE  PanelsRest'
  <1>0. /\ StateTyped(state) /\ waits \in SUBSET waits
        /\ ShownKnown(state) /\ here \in Places /\ search.input \in Queries \cup {Blank}
        /\ known \subseteq DOMAIN PlaceOf
        /\ search = [input |-> search.input, results |-> search.results]
    BY DEF RecordsInv, PanelsRest
  <1>1. CASE UNCHANGED panelVars
    BY <1>0, <1>1, KnownStays DEF panelVars
  <1>2. ASSUME NEW r \in known, OpenDetail(r) \/ OpenResult(r)
        PROVE  PanelsRest'
    <2>1. /\ Opens(r, waits, Detailed(state, r)) /\ UNCHANGED <<here, known>>
          /\ search' = search \/ search' = [search EXCEPT !.results = Blank]
      BY <1>2 DEF OpenDetail, OpenResult
    <2>2. search'.input = search.input
      BY <1>0, <2>1
    <2> QED
      BY <1>0, <2>1, <2>2, OpensKnown
  <1>3. ASSUME NEW q \in Queries \cup {Blank}, TypeQuery(q)
        PROVE  PanelsRest'
    <2>1. search'.input = q /\ UNCHANGED <<here, known, state, waits>>
      BY <1>0, <1>3 DEF TypeQuery
    <2> QED
      BY <1>0, <2>1, KnownStays
  <1>4. CASE CloseDetail
    <2>1. /\ state' = [state EXCEPT !.detailId = Blank, !.detail = Blank]
          /\ UNCHANGED <<here, known, search, waits>>
      BY <1>4 DEF CloseDetail
    <2>2. state' = [items |-> state.items, chip |-> state.chip, asked |-> state.asked,
                    detailId |-> Blank, detail |-> Blank, notes |-> state.notes]
      BY <1>0, <2>1 DEF StateTyped
    <2>3. ShownKnown(state)'
      BY <1>0, <2>1, <2>2 DEF ShownKnown
    <2> QED
      BY <1>0, <2>1, <2>3, KnownStays
  <1>5. CASE Create
    <2>1. PanelAsks(waits, "create", here, state, Blank) /\ UNCHANGED <<here, known, state, search>>
      BY <1>5 DEF Create
    <2> QED
      BY <1>0, <2>1, KnownStays
  <1>6. CASE RunSearch
    <2>1. /\ PanelAsks(waits, "search", <<search.input, here>>, state, Blank)
          /\ search' = [search EXCEPT !.results = Blank] /\ UNCHANGED <<here, known, state>>
      BY <1>6 DEF RunSearch
    <2>2. search'.input = search.input
      BY <1>0, <2>1
    <2> QED
      BY <1>0, <2>1, <2>2, KnownStays
  <1>7. CASE CloseResults
    <2>1. search'.input = search.input /\ UNCHANGED <<here, known, state, waits>>
      BY <1>0, <1>7 DEF CloseResults
    <2> QED
      BY <1>0, <2>1, KnownStays
  <1>8. ASSUME NEW kind \in {"act", "amend", "note", "escalate"}, Acts(kind)
        PROVE  PanelsRest'
    <2>1. /\ PanelAsks(waits, kind, state.detailId, state, Blank) /\ state.detailId # Blank
          /\ UNCHANGED <<here, known, state, search>>
      BY <1>8 DEF Acts
    <2>2. state.detailId \in known
      BY <1>0, <2>1 DEF ShownKnown
    <2> QED
      BY <1>0, <2>1, <2>2, KnownStays
  <1>9. ASSUME NEW c \in waits, SearchCame(c) \/ Fails(c)
        PROVE  PanelsRest'
    <2>1. /\ waits' = waits \ {c} /\ UNCHANGED <<here, known, state>>
          /\ search' = search \/ search' = [search EXCEPT !.results = c.of]
      BY <1>9 DEF SearchCame, Fails, Drop
    <2>2. search'.input = search.input /\ waits \ {c} \in SUBSET waits
      BY <1>0, <2>1
    <2> QED
      BY <1>0, <2>1, <2>2, KnownStays
  <1> QED
    BY <1>1, <1>2, <1>3, <1>4, <1>5, <1>6, <1>7, <1>8, <1>9, ListsKnown,
       AnswersKnown, CreatedKnown
       DEF RecordPanelsNext, ChangeIncident, AmendIncident, AddPerson,
           AddStatement, Escalate, AddFollowup, ChangeWorkOrder, PostComment

LEMMA PanelsTypes == PanelsRest => RecordPanelsTypeOK
  BY DEF PanelsRest, ShownKnown, RecordPanelsTypeOK

\* What the form, the rows and the calls hold was typed.
FormRest ==
  /\ form.content \subseteq Made
  /\ \A r \in Drafts : draftRows[r].content \subseteq Made
  /\ \A c \in inFlight : c.content \subseteq Made

LEMMA FormRestInit == ReportFormInit => FormRest
  <1> SUFFICES ASSUME ReportFormInit PROVE FormRest
    OBVIOUS
  <1>1. form = [report |-> FirstDraft, host |-> "form", content |-> {}, readOnly |-> FALSE,
                saving |-> FALSE, dirty |-> FALSE, pending |-> FALSE, timer |-> FALSE]
    BY DEF ReportFormInit, Opened
  <1>2. /\ \A r \in Drafts : draftRows[r].content = {}
        /\ inFlight = {}
    BY DEF ReportFormInit
  <1>3. form.content = {}
    BY <1>1
  <1> QED
    BY <1>2, <1>3 DEF FormRest

LEMMA AsksMade ==
  ASSUME FormRest, NEW others \in SUBSET inFlight, NEW kind, NEW r, NEW pressed,
         NEW content \in SUBSET Made, Asks(others, Call(kind, r, content, pressed))
  PROVE  \A c \in inFlight' : c.content \subseteq Made
  <1>1. PICK new : /\ inFlight' = others \cup {new}
                   /\ new = [n |-> new.n, kind |-> kind, report |-> r, content |-> content,
                             pressed |-> pressed, at |-> "sent"]
    BY AsksOne
  <1>2. new.content = content
    BY <1>1
  <1> QED
    BY <1>1, <1>2 DEF FormRest

\* A step that types nothing.
LEMMA NothingTyped ==
  ASSUME FormRest, home' = home, form'.content \in {form.content, {}},
         draftRows' = draftRows,
         \/ inFlight' \subseteq inFlight
         \/ \E others \in SUBSET inFlight, content \in SUBSET Made : \E kind, r, pressed :
              Asks(others, Call(kind, r, content, pressed))
  PROVE  FormRest'
  <1>1. Made' = Made
    BY DEF Made
  <1>2. \A c \in inFlight' : c.content \subseteq Made
    BY AsksMade DEF FormRest
  <1> QED
    BY <1>1, <1>2 DEF FormRest

LEMMA ServedMade ==
  ASSUME FormInv, FormRest, NEW c \in inFlight, Serve(c)
  PROVE  FormRest'
  <1>1. FormTyped /\ FormCall(c) /\ c.content \subseteq Made /\ Made' = Made /\ form' = form
    BY DEF FormInv, FormTyped, FormRest, Serve, Made
  <1>2. \A r \in Drafts : draftRows'[r].content \subseteq Made
    <2>1. draftRows' \in {draftRows, Writes(c)}
      BY DEF Serve
    <2>2. ASSUME NEW r \in Drafts
          PROVE  Writes(c)[r].content \subseteq Made
      <3>1. CASE c.kind = "save"
        BY <1>1, <3>1 DEF Writes, FormTyped, FormRest
      <3>2. CASE c.kind = "submit"
        BY <1>1, <3>2 DEF Writes, FormTyped, FormRest
      <3>3. CASE c.kind = "create"
        <4>1. PICK row : row = [status |-> "draft", content |-> {}]
          OBVIOUS
        <4>2. Writes(c) = [draftRows EXCEPT ![c.report] = row]
          BY <3>3, <4>1 DEF Writes
        <4>3. Writes(c)[r] = row \/ Writes(c)[r] = draftRows[r]
          BY <1>1, <4>2 DEF FormTyped
        <4> QED
          BY <4>1, <4>3 DEF FormRest
      <3>4. CASE c.kind \notin {"save", "submit", "create"}
        BY <3>4 DEF Writes, FormRest
      <3> QED
        BY <3>1, <3>2, <3>3, <3>4
    <2> QED
      BY <2>1, <2>2 DEF FormRest
  <1>3. \A d \in inFlight' : d.content \subseteq Made
    <2>1. \/ inFlight' = (inFlight \ {c}) \cup {[c EXCEPT !.at = "done"]}
          \/ inFlight' = (inFlight \ {c}) \cup {[c EXCEPT !.at = "failed"]}
          \/ inFlight' = (inFlight \ {c}) \cup {[c EXCEPT !.at = "fields"]}
          \/ /\ c.report # Nothing
             /\ inFlight' = (inFlight \ {c}) \cup
                              {[c EXCEPT !.at = draftRows[c.report].status,
                                         !.content = draftRows[c.report].content]}
      BY DEF Serve, Becomes, Admits
    <2>2. ASSUME NEW at, NEW content \in SUBSET Made,
                 inFlight' = (inFlight \ {c}) \cup {[c EXCEPT !.at = at, !.content = content]}
          PROVE  \A d \in inFlight' : d.content \subseteq Made
      <3>1. PICK d : d = [c EXCEPT !.at = at, !.content = content]
        OBVIOUS
      <3>2. d.content = content
        BY <1>1, <3>1 DEF FormCall
      <3> QED
        BY <2>2, <3>1, <3>2 DEF FormRest
    <2>3. ASSUME NEW at, inFlight' = (inFlight \ {c}) \cup {[c EXCEPT !.at = at]}
          PROVE  \A d \in inFlight' : d.content \subseteq Made
      <3>1. PICK d : d = [c EXCEPT !.at = at]
        OBVIOUS
      <3>2. d.content = c.content
        BY <1>1, <3>1 DEF FormCall
      <3> QED
        BY <1>1, <2>3, <3>1, <3>2 DEF FormRest
    <2>4. c.report # Nothing => draftRows[c.report].content \in SUBSET Made
      BY <1>1 DEF FormCall, FormRest
    <2> QED
      BY <2>1, <2>2, <2>3, <2>4
  <1> QED
    BY <1>1, <1>2, <1>3 DEF FormRest

LEMMA TypedMade ==
  ASSUME FormInv, FormRest, Made # EditIds, NEW r \in Drafts,
         home' = [home EXCEPT ![NextEdit] = r], form' = SetFieldValue(form, NextEdit),
         draftRows' = draftRows, inFlight' \subseteq inFlight
  PROVE  FormRest'
  <1>1. FormTyped /\ NextEdit \in EditIds /\ home[NextEdit] = Nothing /\ r # Nothing
    BY NextEditIsNew, ReportFormAssumption DEF FormInv
  <1>2. Made' = Made \cup {NextEdit}
    BY <1>1 DEF FormTyped, Made
  <1>3. form'.content = form.content \cup {NextEdit}
    BY <1>1 DEF FormTyped, FormShape, SetFieldValue, ScheduleAutosave
  <1> QED
    BY <1>2, <1>3 DEF FormRest

LEMMA AnsweredMade ==
  ASSUME FormInv, FormRest, NEW c \in inFlight, CallAnswered(c)
  PROVE  FormRest'
  <1>1. /\ FormTyped /\ FormCall(c) /\ c.content \in SUBSET Made /\ draftRows' = draftRows
        /\ inFlight \ {c} \in SUBSET inFlight /\ {} \in SUBSET Made
    BY DEF FormInv, FormTyped, FormRest, CallAnswered
  <1>2. CASE SaveAnswered(c)
    <2>1. form'.content = form.content
      BY <1>1, <1>2 DEF SaveAnswered, Rescheduled, ScheduleAutosave, FormTyped,
                        FormShape
    <2> QED
      BY <1>1, <1>2, <2>1, NothingTyped DEF SaveAnswered, Rests
  <1>3. CASE SubmitAnswered(c)
    <2>1. form'.content = form.content
      BY <1>1, <1>3 DEF SubmitAnswered, FormTyped, FormShape
    <2> QED
      BY <1>1, <1>3, <2>1, NothingTyped DEF SubmitAnswered, Rests
  <1>4. CASE UploadAnswered(c)
    <2>1. CASE c.at = "done" /\ Made # EditIds
      BY <1>1, <1>4, <2>1, TypedMade DEF UploadAnswered, Rests, FormCall
    <2>2. CASE ~ (c.at = "done" /\ Made # EditIds)
      BY <1>1, <1>4, <2>2, NothingTyped DEF UploadAnswered, Rests
    <2> QED
      BY <2>1, <2>2
  <1>5. CASE DetailAnswered(c)
    <2>1. CASE c.at = "failed"
      <3>1. form'.content = form.content
        BY <1>1, <1>5, <2>1 DEF DetailAnswered, FormTyped, FormShape
      <3> QED
        BY <1>1, <1>5, <3>1, NothingTyped DEF DetailAnswered, Rests
    <2>2. CASE c.at # "failed"
      <3>1. PICK host : form' = [Opened(c.report, c.content, c.at # "draft", form.timer)
                                 EXCEPT !.host = host]
        BY <1>5, <2>2 DEF DetailAnswered
      <3>2. form'.content = c.content
        BY <3>1 DEF Opened
      <3>3. home' = home /\ inFlight' = inFlight \ {c} /\ Made' = Made
        BY <1>5 DEF DetailAnswered, Rests, Made
      <3> QED
        BY <1>1, <3>2, <3>3 DEF FormRest
    <2> QED
      BY <2>1, <2>2
  <1>6. CASE CreateAnswered(c)
    <2>1. form'.content = form.content
      BY <1>1, <1>6 DEF CreateAnswered, Busy, FormTyped, FormShape
    <2> QED
      BY <1>1, <1>6, <2>1, NothingTyped DEF CreateAnswered, Rests
  <1> QED
    BY <1>2, <1>3, <1>4, <1>5, <1>6 DEF CallAnswered

LEMMA FormRestStep ==
  ASSUME FormInv, FormRest, [ReportFormNext]_formVars
  PROVE  FormRest'
  <1>0. /\ FormTyped /\ inFlight \in SUBSET inFlight /\ {} \in SUBSET Made
        /\ form.content \in SUBSET Made
    BY DEF FormInv, FormRest
  <1>1. CASE UNCHANGED formVars
    BY <1>1, NothingTyped DEF formVars
  <1>2. CASE Type
    <2>1. form.report \in Drafts
      BY <1>0, <1>2 DEF Type, Editing, FormTyped, FormShape
    <2> QED
      BY <1>2, <2>1, TypedMade DEF Type
  <1>3. CASE Upload
    BY <1>0, <1>3, NothingTyped DEF Upload
  <1>4. CASE TimerFires
    <2>1. PICK f : f = [form EXCEPT !.timer = FALSE]
      OBVIOUS
    <2>2. f.content = form.content /\ f \in FormShape
      BY <1>0, <2>1 DEF FormTyped, FormShape
    <2>3. RunAutosave(f) /\ UNCHANGED <<draftRows, home>>
      BY <1>4, <2>1 DEF TimerFires
    <2>4. CASE form' = f /\ inFlight' = inFlight
      BY <2>2, <2>3, <2>4, NothingTyped
    <2>5. CASE form' = [f EXCEPT !.pending = TRUE] /\ inFlight' = inFlight
      <3>1. form'.content = form.content
        BY <2>2, <2>5 DEF FormShape
      <3> QED
        BY <2>3, <2>5, <3>1, NothingTyped
    <2>6. CASE form' = SavingForm(f) /\ Asks(inFlight, Call("save", f.report, f.content, Nothing))
      <3>1. form'.content = form.content
        BY <2>2, <2>6 DEF FormShape, SavingForm
      <3> QED
        BY <1>0, <2>2, <2>3, <2>6, <3>1, NothingTyped
    <2> QED
      BY <2>3, <2>4, <2>5, <2>6 DEF RunAutosave, Rests
  <1>5. CASE PressSave \/ PressSubmit
    <2>1. form'.content = form.content
      BY <1>0, <1>5 DEF PressSave, PressSubmit, SavingForm, FormTyped,
                        FormShape
    <2> QED
      BY <1>0, <1>5, <2>1, NothingTyped DEF PressSave, PressSubmit
  <1>6. CASE Close
    <2>1. form'.content = form.content
      BY <1>0, <1>6 DEF Close, FormTyped, FormShape
    <2> QED
      BY <1>6, <2>1, NothingTyped DEF Close
  <1>7. ASSUME NEW r \in Drafts, Open(r) \/ StartNew(r)
        PROVE  FormRest'
    <2>1. form'.content = form.content
      BY <1>0, <1>7 DEF Open, StartNew, Busy, FormTyped, FormShape
    <2> QED
      BY <1>0, <1>7, <2>1, NothingTyped DEF Open, StartNew
  <1> QED
    BY <1>1, <1>2, <1>3, <1>4, <1>5, <1>6, <1>7, ServedMade, AnsweredMade
       DEF ReportFormNext

LEMMA FormTypes == FormInv /\ FormRest => ReportFormTypeOK
  BY DEF FormInv, FormTyped, FormShape, FormRest, ReportFormTypeOK

\* The limiters: an attempt counts once against a row, so that no row counts
\* more failures than attempts have begun.
Owes(x, k) == \/ x.at \in {"checking", "asking"}
              \/ x.at = "recording" /\ x.todo[k].do \in {"read", "upsert"}

HoldsRow(x, k) == x.at = "recording" /\ x.todo[k].do = "upsert" /\ x.todo[k].row # NoRow

Owing(k) == {a \in Attempts : Owes(attempt[a], k)}

RowWithin(k, row) ==
  /\ row.failures >= 1 /\ row.failures + Cardinality(Owing(k)) <= begun
  /\ row.touched <= now

ThrottleRest ==
  /\ now <= MaxNow /\ begun <= MaxAttempts
  /\ \A i \in Instances, k \in Keys :
       /\ Cardinality(memory[i][k]) <= MemoryMax(k)
       /\ \A w \in memory[i][k] : 1 <= w[1] /\ w[1] <= begun /\ w[3] <= now
  /\ \A k \in Keys :
       /\ Cardinality(Owing(k)) <= begun
       /\ throttle[k] # NoRow => RowWithin(k, throttle[k])
       /\ \A a \in Attempts : HoldsRow(attempt[a], k) => RowWithin(k, attempt[a].todo[k].row)

LEMMA OwingFinite ==
  \A k \in Keys : IsFiniteSet(Owing(k)) /\ Cardinality(Owing(k)) \in Nat
  <1> TAKE k \in Keys
  <1>1. Owing(k) \in SUBSET Attempts
    BY DEF Owing
  <1> QED
    BY <1>1, ThrottleConstants, FS_Subset, FS_CardinalityType

LEMMA ThrottleRestInit == ThrottleInit => ThrottleRest
  <1> SUFFICES ASSUME ThrottleInit PROVE ThrottleRest
    OBVIOUS
  <1>1. /\ now = 0 /\ begun = 0 /\ throttle = [k \in Keys |-> NoRow]
        /\ \A a \in Attempts : attempt[a] = AtLeisure
        /\ \A i \in Instances, k \in Keys : memory[i][k] = {}
    BY DEF ThrottleInit
  <1>2. \A a \in Attempts, k \in Keys : ~ Owes(attempt[a], k) /\ ~ HoldsRow(attempt[a], k)
    BY <1>1 DEF AtLeisure, Owes, HoldsRow
  <1>3. \A k \in Keys : Cardinality(Owing(k)) = 0
    BY <1>2, FS_EmptySet DEF Owing
  <1>4. now <= MaxNow /\ begun <= MaxAttempts
    BY <1>1, ThrottleAssumption
  <1>5. ASSUME NEW i \in Instances, NEW k \in Keys
        PROVE  memory[i][k] = {} /\ Cardinality(memory[i][k]) <= MemoryMax(k)
    <2>1. memory[i][k] = {} /\ Cardinality(memory[i][k]) = 0
      BY <1>1, FS_EmptySet
    <2> QED
      BY <2>1, ThrottleConstants
  <1>6. \A k \in Keys : Cardinality(Owing(k)) <= begun /\ throttle[k] = NoRow
    BY <1>1, <1>3
  <1> QED
    BY <1>2, <1>4, <1>5, <1>6 DEF ThrottleRest

\* The rows a step leaves, forgets or reads.
LEMMA RowsRest ==
  ASSUME ThrottleTyped, ThrottleRest, attempt' \in [Attempts -> AttemptSteps],
         begun' = begun, now' \in Nat, now <= now',
         \A b \in Attempts, k \in Keys : Owes(attempt'[b], k) => Owes(attempt[b], k),
         \A b \in Attempts, k \in Keys : HoldsRow(attempt'[b], k) =>
           \/ attempt'[b].todo[k].row = throttle[k]
           \/ HoldsRow(attempt[b], k) /\ attempt'[b].todo[k].row = attempt[b].todo[k].row,
         NEW k \in Keys, throttle'[k] \in {throttle[k], NoRow}
  PROVE  /\ Cardinality(Owing(k))' <= begun'
         /\ throttle'[k] # NoRow => RowWithin(k, throttle[k])'
         /\ \A a \in Attempts : HoldsRow(attempt'[a], k) =>
              RowWithin(k, attempt[a].todo[k].row)'
  <1>1. Owing(k)' \in SUBSET Owing(k)
    BY DEF Owing, Owes
  <1>2. /\ Cardinality(Owing(k)') <= Cardinality(Owing(k))
        /\ Cardinality(Owing(k)) \in Nat /\ Cardinality(Owing(k)') \in Nat
    BY <1>1, OwingFinite, FS_Subset, FS_CardinalityType
  <1>3. begun \in Nat /\ now \in Nat /\ throttle[k] \in ThrottleRows \cup {NoRow}
    BY DEF ThrottleTyped
  <1>4. ASSUME NEW row \in ThrottleRows, RowWithin(k, row)
        PROVE  /\ row.failures >= 1 /\ row.failures + Cardinality(Owing(k)') <= begun'
               /\ row.touched <= now'
    BY <1>2, <1>3, <1>4 DEF RowWithin, ThrottleRows
  <1>5. throttle[k] # NoRow => RowWithin(k, throttle[k])
    BY DEF ThrottleRest
  <1>6. throttle'[k] # NoRow => RowWithin(k, throttle[k])'
    BY <1>3, <1>4, <1>5 DEF RowWithin
  <1>7. ASSUME NEW a \in Attempts, HoldsRow(attempt'[a], k)
        PROVE  RowWithin(k, attempt[a].todo[k].row)'
    <2>1. attempt'[a].todo[k].row \in ThrottleRows
      BY <1>7, ThrottleConstants, AttemptsByStep
         DEF HoldsRow, Recording, RowWrites
    <2>2. RowWithin(k, attempt'[a].todo[k].row)
      <3>1. HoldsRow(attempt[a], k) => RowWithin(k, attempt[a].todo[k].row)
        BY DEF ThrottleRest
      <3>2. attempt'[a].todo[k].row # NoRow
        BY <1>7 DEF HoldsRow
      <3> QED
        BY <1>5, <1>7, <3>1, <3>2
    <2> QED
      BY <1>4, <2>1, <2>2 DEF RowWithin
  <1> QED
    BY <1>2, <1>3, <1>6, <1>7 DEF ThrottleRest

\* The failures a step leaves in the memory of the instances.
LEMMA MemoryRest ==
  ASSUME ThrottleTyped, ThrottleRest, begun' \in Nat, begun <= begun', now' \in Nat, now <= now',
         NEW i \in Instances, NEW k \in Keys, memory'[i][k] \in SUBSET memory[i][k]
  PROVE  /\ Cardinality(memory'[i][k]) <= MemoryMax(k)
         /\ \A w \in memory'[i][k] : 1 <= w[1] /\ w[1] <= begun' /\ w[3] <= now'
  <1>1. /\ IsFiniteSet(memory[i][k]) /\ memory[i][k] \subseteq Failures
        /\ begun \in Nat /\ now \in Nat
    BY DEF ThrottleTyped
  <1>2. /\ Cardinality(memory'[i][k]) <= Cardinality(memory[i][k])
        /\ Cardinality(memory'[i][k]) \in Nat /\ Cardinality(memory[i][k]) \in Nat
    BY <1>1, FS_Subset, FS_CardinalityType
  <1>3. MemoryMax(k) \in Nat /\ Cardinality(memory[i][k]) <= MemoryMax(k)
    BY ThrottleConstants DEF ThrottleRest
  <1>4. \A w \in memory[i][k] : /\ 1 <= w[1] /\ w[1] <= begun /\ w[3] <= now
                                /\ w[1] \in Nat /\ w[3] \in Nat
    BY <1>1 DEF ThrottleRest, Failures
  <1> QED
    BY <1>1, <1>2, <1>3, <1>4

\* A step of one attempt, or of none, that forgets or reads.
LEMMA Forgets ==
  ASSUME LimitersInv, ThrottleRest, attempt' \in [Attempts -> AttemptSteps],
         begun' = begun, now' \in Nat, now <= now', now' <= MaxNow,
         \A b \in Attempts, k \in Keys : Owes(attempt'[b], k) => Owes(attempt[b], k),
         \A b \in Attempts, k \in Keys : HoldsRow(attempt'[b], k) =>
           \/ attempt'[b].todo[k].row = throttle[k]
           \/ HoldsRow(attempt[b], k) /\ attempt'[b].todo[k].row = attempt[b].todo[k].row,
         \A k \in Keys : throttle'[k] \in {throttle[k], NoRow},
         \A i \in Instances, k \in Keys : memory'[i][k] \in SUBSET memory[i][k]
  PROVE  ThrottleRest'
  <1>1. ThrottleTyped /\ begun \in Nat /\ begun <= begun' /\ begun' \in Nat
    BY DEF LimitersInv, ThrottleTyped
  <1>2. \A i \in Instances, k \in Keys :
          /\ Cardinality(memory'[i][k]) <= MemoryMax(k)
          /\ \A w \in memory'[i][k] : 1 <= w[1] /\ w[1] <= begun' /\ w[3] <= now'
    BY <1>1, MemoryRest
  <1>3. \A k \in Keys :
          /\ Cardinality(Owing(k))' <= begun'
          /\ throttle'[k] # NoRow => RowWithin(k, throttle[k])'
          /\ \A a \in Attempts : HoldsRow(attempt'[a], k) =>
               RowWithin(k, attempt[a].todo[k].row)'
    BY <1>1, RowsRest
  <1>4. \A a \in Attempts, k \in Keys : HoldsRow(attempt[a], k)' <=> HoldsRow(attempt'[a], k)
    BY DEF HoldsRow
  <1> QED
    BY <1>2, <1>3, <1>4 DEF ThrottleRest, MemoryMax

\* An attempt moves to a step that owes no more, and holds no other row.
LEMMA MovesOn ==
  ASSUME LimitersInv, ThrottleRest, NEW a \in Attempts, NEW x \in AttemptSteps,
         attempt' = [attempt EXCEPT ![a] = x], UNCHANGED <<now, begun>>,
         \A k \in Keys : Owes(x, k) => Owes(attempt[a], k),
         \A k \in Keys : HoldsRow(x, k) =>
           \/ x.todo[k].row = throttle[k]
           \/ HoldsRow(attempt[a], k) /\ x.todo[k].row = attempt[a].todo[k].row,
         \A k \in Keys : throttle'[k] \in {throttle[k], NoRow},
         \A i \in Instances, k \in Keys : memory'[i][k] \in SUBSET memory[i][k]
  PROVE  ThrottleRest'
  <1>1. /\ attempt' \in [Attempts -> AttemptSteps] /\ attempt'[a] = x
        /\ \A b \in Attempts \ {a} : attempt'[b] = attempt[b]
    BY AttemptMoves DEF LimitersInv
  <1>2. now' \in Nat /\ now <= now' /\ now' <= MaxNow
    BY DEF LimitersInv, ThrottleTyped, ThrottleRest
  <1>3. \A b \in Attempts, k \in Keys : Owes(attempt'[b], k) => Owes(attempt[b], k)
    BY <1>1
  <1>4. \A b \in Attempts, k \in Keys : HoldsRow(attempt'[b], k) =>
           \/ attempt'[b].todo[k].row = throttle[k]
           \/ HoldsRow(attempt[b], k) /\ attempt'[b].todo[k].row = attempt[b].todo[k].row
    BY <1>1
  <1> QED
    BY <1>1, <1>2, <1>3, <1>4, Forgets

\* A write that is done, or that will not be.
LEMMA WriteDone ==
  ASSUME LimitersInv, NEW a \in Attempts, NEW k \in Keys, attempt[a].at = "recording",
         attempt[a].todo[k].do # "done", NEW next \in RowWrites,
         Finished(a, [attempt[a].todo EXCEPT ![k] = next]),
         next.do = "upsert" => attempt[a].todo[k].do = "read" /\ next.row = throttle[k],
         next.do # "read"
  PROVE  \E x \in AttemptSteps :
           /\ attempt' = [attempt EXCEPT ![a] = x]
           /\ next.do = "done" => ~ Owes(x, k)
           /\ \A q \in Keys : Owes(x, q) => Owes(attempt[a], q)
           /\ \A q \in Keys : HoldsRow(x, q) =>
                \/ x.todo[q].row = throttle[q]
                \/ HoldsRow(attempt[a], q) /\ x.todo[q].row = attempt[a].todo[q].row
  <1>1. PICK x \in AttemptSteps :
           /\ attempt' = [attempt EXCEPT ![a] = x]
           /\ x.at \in {"rest", "recording"}
           /\ x.at = "recording" =>
                /\ x.time = attempt[a].time
                /\ x.todo[k] = next
                /\ \A q \in Keys \ {k} : x.todo[q] = attempt[a].todo[q]
    BY FinishedMoves DEF LimitersInv
  <1>2. next.do = "done" => ~ Owes(x, k)
    BY <1>1 DEF Owes
  <1>3. ASSUME NEW q \in Keys
        PROVE  /\ Owes(x, q) => Owes(attempt[a], q)
               /\ HoldsRow(x, q) =>
                    \/ x.todo[q].row = throttle[q]
                    \/ HoldsRow(attempt[a], q) /\ x.todo[q].row = attempt[a].todo[q].row
    <2>1. CASE q = k
      BY <1>1, <2>1 DEF Owes, HoldsRow
    <2>2. CASE q # k
      BY <1>1, <2>2 DEF Owes, HoldsRow
    <2> QED
      BY <2>1, <2>2
  <1> QED
    BY <1>1, <1>2, <1>3

LEMMA HourRest == LimitersInv /\ ThrottleRest /\ Hour => ThrottleRest'
  <1> SUFFICES ASSUME LimitersInv, ThrottleRest, Hour PROVE ThrottleRest'
    OBVIOUS
  <1>1. /\ now < MaxNow /\ now' = now + 1 /\ UNCHANGED <<memory, throttle, attempt, begun>>
        /\ now \in Nat /\ attempt \in [Attempts -> AttemptSteps]
    BY DEF Hour, LimitersInv, ThrottleTyped
  <1>2. now' \in Nat /\ now <= now' /\ now' <= MaxNow
    BY <1>1, ThrottleAssumption
  <1> QED
    BY <1>1, <1>2, Forgets

LEMMA ArriveRest ==
  ASSUME LimitersInv, ThrottleRest, NEW a \in Attempts, NEW i \in Instances, Arrive(a, i)
  PROVE  ThrottleRest'
  <1> DEFINE blocked == \E k \in Keys : MemoryBlocks(i, k)
             passes  == [at |-> "checking", on |-> i, todo |-> Unread]
             x == IF blocked THEN AtLeisure ELSE passes
  <1>1. /\ begun < MaxAttempts /\ begun' = begun + 1 /\ attempt' = [attempt EXCEPT ![a] = x]
        /\ UNCHANGED <<now, memory, throttle>>
    BY DEF Arrive
  <1>2. passes \in Checking /\ passes.at = "checking"
    BY DEF Checking, Unread
  <1> HIDE DEF passes
  <1>3. x \in AttemptSteps /\ x.at \in {"rest", "checking"}
    BY <1>2 DEF AttemptSteps, AtLeisure
  <1> HIDE DEF x
  <1>4. /\ attempt'[a] = x /\ \A b \in Attempts \ {a} : attempt'[b] = attempt[b]
        /\ ThrottleTyped /\ begun \in Nat /\ begun' \in Nat /\ begun <= begun' /\ now \in Nat
    BY <1>1, <1>3, AttemptMoves DEF LimitersInv, ThrottleTyped
  <1>5. \A j \in Instances, k \in Keys :
          /\ Cardinality(memory'[j][k]) <= MemoryMax(k)
          /\ \A w \in memory'[j][k] : 1 <= w[1] /\ w[1] <= begun' /\ w[3] <= now'
    <2>1. now' \in Nat /\ now <= now' /\ UNCHANGED memory
      BY <1>1, <1>4
    <2> QED
      BY <1>4, <2>1, MemoryRest
  <1>6. begun' <= MaxAttempts /\ now' <= MaxNow
    BY <1>1, <1>4, ThrottleAssumption DEF ThrottleRest
  <1>7. ASSUME NEW k \in Keys
        PROVE  Cardinality(Owing(k)') <= Cardinality(Owing(k)) + 1
    <2>1. Owing(k)' \in SUBSET (Owing(k) \cup {a})
      BY <1>4 DEF Owing, Owes
    <2>2. IsFiniteSet(Owing(k)) /\ Cardinality(Owing(k)) \in Nat
      BY OwingFinite
    <2>3. /\ IsFiniteSet(Owing(k) \cup {a})
          /\ \/ Cardinality(Owing(k) \cup {a}) = Cardinality(Owing(k))
             \/ Cardinality(Owing(k) \cup {a}) = Cardinality(Owing(k)) + 1
      BY <2>2, FS_AddElement
    <2>4. /\ Cardinality(Owing(k)') <= Cardinality(Owing(k) \cup {a})
          /\ Cardinality(Owing(k)') \in Nat
      BY <2>1, <2>3, FS_Subset, FS_CardinalityType
    <2> QED
      BY <2>2, <2>3, <2>4
  <1>8. \A k \in Keys : Cardinality(Owing(k)) \in Nat /\ Cardinality(Owing(k)') \in Nat
    <2>1. \A k \in Keys : Owing(k)' \in SUBSET Attempts
      BY DEF Owing
    <2> QED
      BY <2>1, OwingFinite, ThrottleConstants, FS_Subset, FS_CardinalityType
  <1>9. ASSUME NEW k \in Keys, NEW row \in ThrottleRows, RowWithin(k, row)
        PROVE  RowWithin(k, row)'
    BY <1>1, <1>4, <1>7, <1>8, <1>9 DEF RowWithin, ThrottleRows
  <1>10. ASSUME NEW k \in Keys
         PROVE  /\ Cardinality(Owing(k)') <= begun'
                /\ throttle'[k] # NoRow => RowWithin(k, throttle[k])'
                /\ \A b \in Attempts : HoldsRow(attempt'[b], k) =>
                     RowWithin(k, attempt[b].todo[k].row)'
    <2>1. Cardinality(Owing(k)') <= begun'
      BY <1>1, <1>4, <1>7, <1>8 DEF ThrottleRest
    <2>2. throttle'[k] # NoRow => RowWithin(k, throttle[k])'
      <3>1. throttle[k] \in ThrottleRows \cup {NoRow}
        BY <1>4 DEF ThrottleTyped
      <3>2. throttle[k] # NoRow => RowWithin(k, throttle[k])
        BY DEF ThrottleRest
      <3>3. PICK row : row = throttle[k]
        OBVIOUS
      <3>4. row # NoRow => RowWithin(k, row)'
        BY <1>9, <3>1, <3>2, <3>3
      <3> QED
        BY <1>1, <3>3, <3>4 DEF RowWithin
    <2>3. ASSUME NEW b \in Attempts, HoldsRow(attempt'[b], k)
          PROVE  RowWithin(k, attempt[b].todo[k].row)'
      <3>1. b # a /\ attempt'[b] = attempt[b]
        BY <1>3, <1>4, <2>3 DEF HoldsRow
      <3>2. attempt[b] \in AttemptSteps /\ HoldsRow(attempt[b], k)
        BY <1>4, <2>3, <3>1 DEF ThrottleTyped
      <3>3. RowWithin(k, attempt[b].todo[k].row) /\ attempt[b].todo[k].row \in ThrottleRows
        BY <3>2, AttemptsByStep, ThrottleConstants
           DEF ThrottleRest, HoldsRow, Recording, RowWrites
      <3>4. PICK row : row = attempt[b].todo[k].row
        OBVIOUS
      <3>5. RowWithin(k, row)'
        BY <1>9, <3>3, <3>4
      <3> QED
        BY <3>1, <3>4, <3>5 DEF RowWithin
    <2> QED
      BY <2>1, <2>2, <2>3
  <1>11. \A b \in Attempts, k \in Keys : HoldsRow(attempt[b], k)' <=> HoldsRow(attempt'[b], k)
    BY DEF HoldsRow
  <1> QED
    BY <1>5, <1>6, <1>10, <1>11 DEF ThrottleRest, MemoryMax

LEMMA CheckDurableRest ==
  ASSUME LimitersInv, ThrottleRest, NEW a \in Attempts, NEW k \in Keys, NEW heard \in BOOLEAN,
         CheckDurable(a, k, heard)
  PROVE  ThrottleRest'
  <1> PICK y : y = attempt[a]
    OBVIOUS
  <1> DEFINE done == [y.todo EXCEPT ![k] =
                       [do |-> IF heard /\ Blocks(throttle[k]) THEN "refuse"
                                                               ELSE "pass"]]
             x == IF \E q \in Keys : done[q].do = "check"
                    THEN [y EXCEPT !.todo = done]
                  ELSE IF \E q \in Keys : done[q].do = "refuse" THEN AtLeisure
                  ELSE [y EXCEPT !.at = "asking"]
  <1>1. /\ y.at = "checking" /\ attempt' = [attempt EXCEPT ![a] = x]
        /\ UNCHANGED <<now, memory, throttle, begun>>
    BY DEF CheckDurable
  <1>2. y \in Checking
    BY <1>1, AttemptsByStep DEF LimitersInv, ThrottleTyped
  <1>3. done \in [Keys -> [do : {"check", "pass", "refuse"}]]
    BY <1>2 DEF Checking
  <1> HIDE DEF done
  <1>4. [y EXCEPT !.todo = done] \in Checking /\ [y EXCEPT !.at = "asking"] \in Checking
    BY <1>2, <1>3 DEF Checking
  <1>5. x \in Checking \/ x = AtLeisure
    BY <1>4
  <1> HIDE DEF x
  <1>6. x \in AttemptSteps /\ \A q \in Keys : ~ HoldsRow(x, q)
    BY <1>5 DEF AttemptSteps, Checking, AtLeisure, HoldsRow
  <1>7. \A q \in Keys : Owes(attempt[a], q)
    BY <1>1 DEF Owes
  <1> QED
    BY <1>1, <1>6, <1>7, MovesOn

LEMMA AcceptedRest ==
  ASSUME LimitersInv, ThrottleRest, NEW a \in Attempts, Accepted(a)
  PROVE  ThrottleRest'
  <1> PICK i : i = attempt[a].on
    OBVIOUS
  <1> PICK x : x = [at |-> "resetting", on |-> i, time |-> now,
                    todo |-> [k \in Keys |-> [do |-> IF k = "email" THEN "delete"
                                                                   ELSE "done"]]]
    OBVIOUS
  <1>1. /\ attempt[a].at = "asking" /\ memory' = [memory EXCEPT ![i]["email"] = {}]
        /\ attempt' = [attempt EXCEPT ![a] = x] /\ UNCHANGED <<now, throttle, begun>>
    BY DEF Accepted
  <1>2. ThrottleTyped /\ now \in Nat
    BY DEF LimitersInv, ThrottleTyped
  <1>3. i \in Instances
    <2>1. attempt[a] \in Checking
      BY <1>1, <1>2, AttemptsByStep DEF ThrottleTyped
    <2> QED
      BY <2>1 DEF Checking
  <1>4. x \in AttemptSteps /\ x.at = "resetting"
    BY <1>2, <1>3 DEF AttemptSteps, Resetting
  <1>5. \A k \in Keys : ~ HoldsRow(x, k) /\ ~ Owes(x, k)
    BY <1>4 DEF HoldsRow, Owes
  <1>6. \A j \in Instances, k \in Keys : memory'[j][k] \in SUBSET memory[j][k]
    BY <1>1, <1>2, <1>3 DEF ThrottleTyped
  <1> QED
    BY <1>1, <1>4, <1>5, <1>6, MovesOn

LEMMA RejectedRest ==
  ASSUME LimitersInv, ThrottleRest, NEW a \in Attempts, Rejected(a)
  PROVE  ThrottleRest'
  <1> PICK i : i = attempt[a].on
    OBVIOUS
  <1> PICK new : new = <<begun, a, now>>
    OBVIOUS
  <1> PICK x : x = [at |-> "recording", on |-> i, time |-> now,
                    todo |-> [k \in Keys |-> [do |-> "read"]]]
    OBVIOUS
  <1>1. /\ attempt[a].at = "asking"
        /\ memory' = [memory EXCEPT
             ![i] = [k \in Keys |-> Recorded(memory[i][k], k, new)]]
        /\ attempt' = [attempt EXCEPT ![a] = x]
        /\ UNCHANGED <<now, throttle, begun>>
    BY DEF Rejected
  <1>2. ThrottleTyped /\ now \in Nat /\ begun \in Nat
    BY DEF LimitersInv, ThrottleTyped
  <1>3. i \in Instances
    <2>1. attempt[a] \in Checking
      BY <1>1, <1>2, AttemptsByStep DEF ThrottleTyped
    <2> QED
      BY <2>1 DEF Checking
  <1>4. /\ new \in Failures /\ new[1] = begun /\ new[3] = now
    BY <1>2 DEF Failures
  <1>5. /\ x \in Recording /\ x.at = "recording"
        /\ \A k \in Keys : x.todo[k].do = "read"
    BY <1>2, <1>3 DEF Recording, RowWrites
  <1>6. /\ attempt' \in [Attempts -> AttemptSteps]
        /\ attempt'[a] = x
        /\ \A b \in Attempts \ {a} : attempt'[b] = attempt[b]
    BY <1>1, <1>2, <1>5, AttemptMoves DEF AttemptSteps
  <1>7. begun >= 1
    <2>1. a \in Owing("email") /\ "email" \in Keys
      BY <1>1, ThrottleConstants DEF Owing, Owes
    <2>2. Cardinality(Owing("email")) # 0 /\ Cardinality(Owing("email")) \in Nat
      BY <2>1, OwingFinite, FS_EmptySet
    <2> QED
      BY <1>2, <2>1, <2>2 DEF ThrottleRest
  <1>8. ASSUME NEW j \in Instances, NEW k \in Keys
        PROVE  /\ Cardinality(memory'[j][k]) <= MemoryMax(k)
               /\ \A w \in memory'[j][k] : 1 <= w[1] /\ w[1] <= begun /\ w[3] <= now
    <2>1. CASE j # i
      <3>1. memory'[j][k] = memory[j][k]
        BY <1>1, <1>2, <2>1 DEF ThrottleTyped
      <3> QED
        BY <3>1 DEF ThrottleRest
    <2>2. CASE j = i
      <3>1. memory'[i][k] = Recorded(memory[i][k], k, new)
        BY <1>1, <1>2, <1>3 DEF ThrottleTyped
      <3>2. memory[i][k] \in SUBSET Failures /\ IsFiniteSet(memory[i][k])
        BY <1>2, <1>3 DEF ThrottleTyped
      <3>3. Cardinality(memory[i][k]) <= MemoryMax(k)
        BY <1>3 DEF ThrottleRest
      <3>4. /\ Cardinality(memory'[i][k]) <= MemoryMax(k)
            /\ memory'[i][k] \subseteq memory[i][k] \cup {new}
        BY <1>2, <1>4, <3>1, <3>2, <3>3, RecordedRemembers
      <3>5. \A w \in memory[i][k] : 1 <= w[1] /\ w[1] <= begun /\ w[3] <= now
        BY <1>3 DEF ThrottleRest
      <3>6. 1 <= new[1] /\ new[1] <= begun /\ new[3] <= now
        BY <1>2, <1>4, <1>7
      <3> QED
        BY <2>2, <3>4, <3>5, <3>6
    <2> QED
      BY <2>1, <2>2
  <1>9. /\ \A b \in Attempts, k \in Keys : Owes(attempt'[b], k) => Owes(attempt[b], k)
        /\ \A b \in Attempts, k \in Keys : HoldsRow(attempt'[b], k) =>
             HoldsRow(attempt[b], k) /\ attempt'[b].todo[k].row = attempt[b].todo[k].row
    BY <1>1, <1>5, <1>6 DEF Owes, HoldsRow
  <1>10. \A k \in Keys :
          /\ Cardinality(Owing(k))' <= begun'
          /\ throttle'[k] # NoRow => RowWithin(k, throttle[k])'
          /\ \A b \in Attempts : HoldsRow(attempt'[b], k) =>
               RowWithin(k, attempt[b].todo[k].row)'
    <2>1. now' \in Nat /\ now <= now' /\ begun' = begun
          /\ \A k \in Keys : throttle'[k] \in {throttle[k], NoRow}
      BY <1>1, <1>2
    <2> QED
      BY <1>2, <1>6, <1>9, <2>1, RowsRest
  <1>11. \A b \in Attempts, k \in Keys : HoldsRow(attempt[b], k)' <=> HoldsRow(attempt'[b], k)
    BY DEF HoldsRow
  <1> QED
    BY <1>1, <1>8, <1>10, <1>11 DEF ThrottleRest, MemoryMax

LEMMA ReadRowRest ==
  ASSUME LimitersInv, ThrottleRest, NEW a \in Attempts, NEW k \in Keys, ReadRow(a, k)
  PROVE  ThrottleRest'
  <1> PICK next : next = [do |-> "upsert", row |-> throttle[k]]
    OBVIOUS
  <1>1. /\ attempt[a].at = "recording" /\ attempt[a].todo[k].do = "read"
        /\ Finished(a, [attempt[a].todo EXCEPT ![k] = next])
        /\ UNCHANGED <<now, memory, throttle, begun>>
    BY DEF ReadRow
  <1>2. throttle \in [Keys -> ThrottleRows \cup {NoRow}]
    BY DEF LimitersInv, ThrottleTyped
  <1>3. next \in RowWrites /\ next.do = "upsert" /\ next.row = throttle[k]
    BY <1>2 DEF RowWrites
  <1>4. PICK x \in AttemptSteps :
           /\ attempt' = [attempt EXCEPT ![a] = x]
           /\ \A q \in Keys : Owes(x, q) => Owes(attempt[a], q)
           /\ \A q \in Keys : HoldsRow(x, q) =>
                \/ x.todo[q].row = throttle[q]
                \/ HoldsRow(attempt[a], q) /\ x.todo[q].row = attempt[a].todo[q].row
    BY <1>1, <1>3, WriteDone
  <1> QED
    BY <1>1, <1>4, MovesOn

LEMMA StoreFailsRest ==
  ASSUME LimitersInv, ThrottleRest, NEW a \in Attempts, NEW k \in Keys, StoreFails(a, k)
  PROVE  ThrottleRest'
  <1>1. /\ attempt[a].at \in {"recording", "resetting"} /\ attempt[a].todo[k].do # "done"
        /\ Through(a, k) /\ UNCHANGED <<now, memory, throttle, begun>>
    BY DEF StoreFails
  <1>2. CASE attempt[a].at = "recording"
    <2> PICK next : next = [do |-> "done"]
      OBVIOUS
    <2>1. /\ next \in RowWrites /\ next.do = "done"
          /\ Finished(a, [attempt[a].todo EXCEPT ![k] = next])
      BY <1>1 DEF RowWrites, Through
    <2>2. PICK x \in AttemptSteps :
             /\ attempt' = [attempt EXCEPT ![a] = x]
             /\ \A q \in Keys : Owes(x, q) => Owes(attempt[a], q)
             /\ \A q \in Keys : HoldsRow(x, q) =>
                  \/ x.todo[q].row = throttle[q]
                  \/ HoldsRow(attempt[a], q) /\ x.todo[q].row = attempt[a].todo[q].row
      BY <1>1, <1>2, <2>1, WriteDone
    <2> QED
      BY <1>1, <2>2, MovesOn
  <1>3. CASE attempt[a].at = "resetting"
    <2> PICK y : y = attempt[a]
      OBVIOUS
    <2>0. y \in Resetting
      BY <1>3, AttemptsByStep DEF LimitersInv, ThrottleTyped
    <2>1. y.todo = [q \in Keys |-> [do |-> IF q = "email" THEN "delete" ELSE "done"]]
      BY <2>0 DEF Resetting
    <2>2. k = "email"
      BY <1>1, <2>1
    <2>3. attempt' = [attempt EXCEPT ![a] = AtLeisure]
      BY <1>1, <1>3, <2>2, ResettingEnds DEF LimitersInv
    <2>4. /\ AtLeisure \in AttemptSteps
          /\ \A q \in Keys : ~ Owes(AtLeisure, q) /\ ~ HoldsRow(AtLeisure, q)
      BY DEF AttemptSteps, AtLeisure, Owes, HoldsRow
    <2> QED
      BY <1>1, <2>3, <2>4, MovesOn
  <1> QED
    BY <1>1, <1>2, <1>3

LEMMA DeleteRowRest ==
  ASSUME LimitersInv, ThrottleRest, NEW a \in Attempts, DeleteRow(a)
  PROVE  ThrottleRest'
  <1>1. /\ attempt[a].at = "resetting" /\ Through(a, "email")
        /\ throttle' = [throttle EXCEPT !["email"] = NoRow] /\ UNCHANGED <<now, memory, begun>>
    BY DEF DeleteRow
  <1>2. attempt' = [attempt EXCEPT ![a] = AtLeisure]
    BY <1>1, ResettingEnds DEF LimitersInv
  <1>3. /\ AtLeisure \in AttemptSteps
        /\ \A q \in Keys : ~ Owes(AtLeisure, q) /\ ~ HoldsRow(AtLeisure, q)
    BY DEF AttemptSteps, AtLeisure, Owes, HoldsRow
  <1>4. \A k \in Keys : throttle'[k] \in {throttle[k], NoRow}
    BY <1>1 DEF LimitersInv, ThrottleTyped
  <1> QED
    BY <1>1, <1>2, <1>3, <1>4, MovesOn

\* Who owes less leaves room for the failure that is counted.
LEMMA UpsertRowRest ==
  ASSUME LimitersInv, ThrottleRest, NEW a \in Attempts, NEW k \in Keys, UpsertRow(a, k)
  PROVE  ThrottleRest'
  <1> PICK next, row, t : /\ next = [do |-> "done"]
                          /\ row = attempt[a].todo[k].row
                          /\ t = attempt[a].time
    OBVIOUS
  <1>1. /\ attempt[a].at = "recording" /\ attempt[a].todo[k].do = "upsert"
        /\ throttle' = [throttle EXCEPT ![k] = NextRow(row, t)]
        /\ Finished(a, [attempt[a].todo EXCEPT ![k] = next])
        /\ UNCHANGED <<now, memory, begun>>
    BY DEF UpsertRow, Through
  <1>2. throttle \in [Keys -> ThrottleRows \cup {NoRow}] /\ ThrottleTyped
        /\ now \in Nat /\ begun \in Nat
    BY DEF LimitersInv, ThrottleTyped
  <1>3. next \in RowWrites /\ next.do = "done"
    BY DEF RowWrites
  <1>4. row \in ThrottleRows \cup {NoRow} /\ t \in Nat /\ t <= now
    BY <1>1, <1>2, AttemptsByStep DEF LimitersInv, TimesPast, ThrottleTyped,
                                      Recording, RowWrites
  <1>5. row # NoRow => RowWithin(k, row)
    BY <1>1 DEF ThrottleRest, HoldsRow
  <1>6. PICK x \in AttemptSteps :
           /\ attempt' = [attempt EXCEPT ![a] = x] /\ ~ Owes(x, k)
           /\ \A q \in Keys : Owes(x, q) => Owes(attempt[a], q)
           /\ \A q \in Keys : HoldsRow(x, q) =>
                \/ x.todo[q].row = throttle[q]
                \/ HoldsRow(attempt[a], q) /\ x.todo[q].row = attempt[a].todo[q].row
    BY <1>1, <1>3, WriteDone
  <1>7. /\ attempt' \in [Attempts -> AttemptSteps] /\ attempt'[a] = x
        /\ \A b \in Attempts \ {a} : attempt'[b] = attempt[b]
    BY <1>2, <1>6, AttemptMoves
  <1>8. Cardinality(Owing(k)') <= Cardinality(Owing(k)) - 1 /\ Cardinality(Owing(k)') \in Nat
    <2>1. a \in Owing(k) /\ Owing(k)' \in SUBSET (Owing(k) \ {a})
      BY <1>1, <1>6, <1>7 DEF Owing, Owes
    <2>2. IsFiniteSet(Owing(k)) /\ Cardinality(Owing(k)) \in Nat
      BY OwingFinite
    <2>3. IsFiniteSet(Owing(k) \ {a}) /\ Cardinality(Owing(k) \ {a}) = Cardinality(Owing(k)) - 1
      BY <2>1, <2>2, FS_RemoveElement
    <2>4. /\ Cardinality(Owing(k)') <= Cardinality(Owing(k) \ {a})
          /\ Cardinality(Owing(k)') \in Nat
      BY <2>1, <2>3, FS_Subset, FS_CardinalityType
    <2> QED
      BY <2>2, <2>3, <2>4
  <1> PICK new : new = NextRow(row, t)
    OBVIOUS
  <1>9. /\ new.failures >= 1 /\ new.failures + Cardinality(Owing(k)') <= begun
        /\ new.touched <= now
    <2>1. Cardinality(Owing(k)) \in Nat /\ Cardinality(Owing(k)) <= begun
      BY OwingFinite DEF ThrottleRest
    <2>2. CASE row = NoRow \/ row.since + Window <= t
      <3>1. new.failures = 1 /\ new.touched = t
        BY <2>2 DEF NextRow
      <3> QED
        BY <1>2, <1>4, <1>8, <2>1, <3>1
    <2>3. CASE ~ (row = NoRow \/ row.since + Window <= t)
      <3>1. row \in ThrottleRows /\ RowWithin(k, row)
        BY <1>4, <1>5, <2>3
      <3>2. new = [row EXCEPT !.failures = row.failures + 1, !.touched = t]
        BY <2>3, <3>1 DEF NextRow, ThrottleRows
      <3>3. new.failures = row.failures + 1 /\ new.touched = t /\ row.failures \in Nat
        BY <3>1, <3>2 DEF ThrottleRows
      <3> QED
        BY <1>2, <1>4, <1>8, <2>1, <3>1, <3>3 DEF RowWithin
    <2> QED
      BY <2>2, <2>3
  <1>10. \A b \in Attempts, q \in Keys : Owes(attempt'[b], q) => Owes(attempt[b], q)
    BY <1>6, <1>7
  <1>11. \A b \in Attempts, q \in Keys : HoldsRow(attempt'[b], q) =>
           \/ attempt'[b].todo[q].row = throttle[q]
           \/ HoldsRow(attempt[b], q) /\ attempt'[b].todo[q].row = attempt[b].todo[q].row
    BY <1>6, <1>7
  <1>12. now' \in Nat /\ now <= now' /\ begun' = begun
    BY <1>1, <1>2
  <1>13. ASSUME NEW q \in Keys
         PROVE  /\ Cardinality(Owing(q))' <= begun'
                /\ throttle'[q] # NoRow => RowWithin(q, throttle[q])'
                /\ \A b \in Attempts : HoldsRow(attempt'[b], q) =>
                     RowWithin(q, attempt[b].todo[q].row)'
    <2>1. CASE q # k
      <3>1. throttle'[q] \in {throttle[q], NoRow}
        BY <1>1, <1>2, <2>1
      <3> QED
        BY <1>2, <1>7, <1>10, <1>11, <1>12, <3>1, RowsRest
    <2>2. CASE q = k
      <3>1. throttle'[k] = new
        BY <1>1, <1>2
      <3>2. RowWithin(k, throttle[k])'
        BY <1>9, <1>12, <1>1, <3>1 DEF RowWithin
      <3>3. Cardinality(Owing(k))' <= begun'
        <4>1. Cardinality(Owing(k)) \in Nat /\ Cardinality(Owing(k)) <= begun
          BY OwingFinite DEF ThrottleRest
        <4> QED
          BY <1>2, <1>8, <1>12, <4>1
      <3>4. ASSUME NEW b \in Attempts, HoldsRow(attempt'[b], k)
            PROVE  RowWithin(k, attempt[b].todo[k].row)'
        <4>1. b # a /\ attempt'[b] = attempt[b]
          BY <1>6, <1>7, <3>4 DEF HoldsRow, Owes
        <4>2. attempt[b] \in AttemptSteps /\ HoldsRow(attempt[b], k)
          BY <1>2, <3>4, <4>1 DEF ThrottleTyped
        <4>3. RowWithin(k, attempt[b].todo[k].row) /\ attempt[b].todo[k].row \in ThrottleRows
          BY <4>2, AttemptsByStep, ThrottleConstants
             DEF ThrottleRest, HoldsRow, Recording, RowWrites
        <4>4. PICK held : held = attempt[b].todo[k].row
          OBVIOUS
        <4>5. /\ held.failures >= 1 /\ held.failures + Cardinality(Owing(k)') <= begun
              /\ held.touched <= now
          <5>1. Cardinality(Owing(k)) \in Nat
            BY OwingFinite
          <5> QED
            BY <1>2, <1>8, <4>3, <4>4, <5>1 DEF RowWithin, ThrottleRows
        <4> QED
          BY <1>1, <4>1, <4>4, <4>5 DEF RowWithin
      <3> QED
        BY <2>2, <3>2, <3>3, <3>4
    <2> QED
      BY <2>1, <2>2
  <1>14. \A j \in Instances, q \in Keys :
          /\ Cardinality(memory'[j][q]) <= MemoryMax(q)
          /\ \A w \in memory'[j][q] : 1 <= w[1] /\ w[1] <= begun' /\ w[3] <= now'
    BY <1>1 DEF ThrottleRest
  <1>15. \A b \in Attempts, q \in Keys : HoldsRow(attempt[b], q)' <=> HoldsRow(attempt'[b], q)
    BY DEF HoldsRow
  <1>16. now' <= MaxNow /\ begun' <= MaxAttempts
    BY <1>1 DEF ThrottleRest
  <1> QED
    BY <1>13, <1>14, <1>15, <1>16 DEF ThrottleRest, MemoryMax

LEMMA SweepsRest ==
  ASSUME LimitersInv, ThrottleRest,
         SweepStale \/ SweepExcess \/ (\E i \in Instances : SweepStore(i)) \/ UNCHANGED throttleVars
  PROVE  ThrottleRest'
  <1>1. ThrottleTyped
    BY DEF LimitersInv
  <1>2. UNCHANGED <<now, attempt, begun>>
    BY DEF SweepStale, SweepExcess, SweepStore, throttleVars
  <1>3. \A k \in Keys : throttle'[k] \in {throttle[k], NoRow}
    <2>1. CASE SweepStale \/ SweepExcess
      BY <2>1 DEF SweepStale, SweepExcess
    <2>2. CASE ~ (SweepStale \/ SweepExcess)
      BY <2>2 DEF SweepStore, throttleVars
    <2> QED
      BY <2>1, <2>2
  <1>4. \A i \in Instances, k \in Keys : memory'[i][k] \in SUBSET memory[i][k]
    <2>1. CASE UNCHANGED memory
      BY <2>1
    <2>2. ASSUME NEW i \in Instances, SweepStore(i)
          PROVE  \A j \in Instances, k \in Keys : memory'[j][k] \in SUBSET memory[j][k]
      BY <1>1, <2>2 DEF SweepStore, ThrottleTyped, Recent
    <2> QED
      BY <2>1, <2>2 DEF SweepStale, SweepExcess, throttleVars
  <1>5. /\ attempt' \in [Attempts -> AttemptSteps] /\ now' \in Nat /\ now <= now'
        /\ now' <= MaxNow
    BY <1>1, <1>2 DEF ThrottleTyped, ThrottleRest
  <1> QED
    BY <1>2, <1>3, <1>4, <1>5, Forgets

LEMMA ThrottleRestStep ==
  ASSUME LimitersInv, ThrottleRest, [ThrottleNext]_throttleVars
  PROVE  ThrottleRest'
  BY HourRest, SweepsRest, ArriveRest, RejectedRest, AcceptedRest,
     DeleteRowRest, ReadRowRest, UpsertRowRest, StoreFailsRest,
     CheckDurableRest
     DEF ThrottleNext

LEMMA ThrottleTypes == LimitersInv /\ ThrottleRest => ThrottleTypeOK
  <1> SUFFICES ASSUME LimitersInv, ThrottleRest PROVE ThrottleTypeOK
    OBVIOUS
  <1>1. ThrottleTyped /\ MaxNow \in Nat /\ MaxAttempts \in Nat
    BY ThrottleAssumption DEF LimitersInv
  <1>2. now \in 0 .. MaxNow /\ begun \in 0 .. MaxAttempts /\ raced \in BOOLEAN
    BY <1>1 DEF ThrottleTyped, ThrottleRest
  <1>3. ASSUME NEW i \in Instances, NEW k \in Keys
        PROVE  /\ memory[i][k] \subseteq (1 .. MaxAttempts) \X Attempts \X (0 .. MaxNow)
               /\ Cardinality(memory[i][k]) <= MemoryMax(k)
    <2>1. ASSUME NEW w \in memory[i][k]
          PROVE  w \in (1 .. MaxAttempts) \X Attempts \X (0 .. MaxNow)
      <3>1. w \in Failures
        BY <1>1 DEF ThrottleTyped
      <3>2. 1 <= w[1] /\ w[1] <= begun /\ w[3] <= now
        BY DEF ThrottleRest
      <3> QED
        BY <1>1, <1>2, <3>1, <3>2 DEF Failures
    <2> QED
      BY <2>1 DEF ThrottleRest
  <1>4. ASSUME NEW k \in Keys, throttle[k] # NoRow
        PROVE  throttle[k] \in [since : 0 .. MaxNow, failures : 1 .. MaxAttempts,
                                touched : 0 .. MaxNow]
    <2>1. throttle[k] \in ThrottleRows /\ RowWithin(k, throttle[k])
      BY <1>1, <1>4 DEF ThrottleTyped, ThrottleRest
    <2>2. throttle[k].since <= now
      BY <1>4 DEF LimitersInv, TimesPast
    <2>3. Cardinality(Owing(k)) \in Nat
      BY OwingFinite
    <2> QED
      BY <1>1, <1>2, <2>1, <2>2, <2>3 DEF ThrottleRows, RowWithin
  <1> QED
    BY <1>2, <1>3, <1>4 DEF ThrottleTypeOK

\* The invariants of the components together, and what they leave out.
TypesInv ==
  /\ BrowserInv /\ SessionsRest
  /\ LimitersInv /\ ThrottleRest
  /\ KeysInv /\ KeysRest
  /\ GovernedInv /\ GovernanceRest
  /\ ChainInv /\ AuditRest
  /\ EvidenceInv /\ AttachmentsRest
  /\ AnswersInv /\ SchemaInv
  /\ FormInv /\ FormRest
  /\ RecordsInv /\ PanelsRest
  /\ VenueInv
  /\ service \in {"sessions", "throttle", "keys", "governance", "audit",
                  "attachments", "fields", "form", "panels", "lists"}

LEMMA TypesInit == ServicesInit => TypesInv
  <1> SUFFICES ASSUME ServicesInit PROVE TypesInv
    OBVIOUS
  <1>1. /\ BrowserInv /\ SessionsRest /\ LimitersInv /\ ThrottleRest /\ KeysInv /\ KeysRest
    BY ServicesBegin, BrowserInit, SessionsRestInit, LimitersInit,
       ThrottleRestInit, KeysInit, KeysRestInit
  <1>2. GovernedInv /\ GovernanceRest /\ ChainInv /\ AuditRest
    BY ServicesBegin, GovernedInit, GovernanceRestInit, ChainInit,
       AuditRestInit
  <1>3. EvidenceInv /\ AttachmentsRest /\ AnswersInv /\ SchemaInv
    BY ServicesBegin, EvidenceInit, AnswersInit, SchemaInit
       DEF AttachmentsInit, AttachmentsRest
  <1>4. FormInv /\ FormRest /\ RecordsInv /\ PanelsRest /\ VenueInv
    BY ServicesBegin, FormInitial, FormRestInit, RecordsInit, PanelsRestInit,
       VenueInit
  <1>5. service \in {"sessions", "throttle", "keys", "governance", "audit",
                     "attachments", "fields", "form", "panels", "lists"}
    BY DEF ServicesInit
  <1> QED
    BY <1>1, <1>2, <1>3, <1>4, <1>5 DEF TypesInv

LEMMA TypesStep == TypesInv /\ [ServicesNext]_servicesVars => TypesInv'
  <1> SUFFICES ASSUME TypesInv, [ServicesNext]_servicesVars PROVE TypesInv'
    OBVIOUS
  <1>1. BrowserInv' /\ SessionsRest' /\ LimitersInv' /\ ThrottleRest' /\ KeysInv' /\ KeysRest'
    BY ServicesMove, BrowserStep, SessionsRestStep, LimitersStep,
       ThrottleRestStep, KeysStep, KeysRestStep
       DEF TypesInv
  <1>2. GovernedInv' /\ GovernanceRest' /\ ChainInv' /\ AuditRest'
    BY ServicesMove, GovernedStep, GovernanceRestStep, ChainStep,
       AuditRestStep
       DEF TypesInv
  <1>3. EvidenceInv' /\ AttachmentsRest' /\ AnswersInv' /\ SchemaInv'
    BY ServicesMove, EvidenceStep, AttachmentsRestStep, AnswersStep,
       SchemaStep
       DEF TypesInv
  <1>4. FormInv' /\ FormRest' /\ RecordsInv' /\ PanelsRest' /\ VenueInv'
    BY ServicesMove, FormStep, FormRestStep, RecordsStep, PanelsRestStep,
       VenueStep
       DEF TypesInv
  <1>5. UNCHANGED service
    BY DEF ServicesNext, servicesVars
  <1> QED
    BY <1>1, <1>2, <1>3, <1>4, <1>5 DEF TypesInv

LEMMA TypesFollow == TypesInv => ServicesTypeOK
  BY SessionsTypes, ThrottleTypes, KeysTypes, GovernanceTypes, AuditTypes,
     AttachmentsTypes, FieldsFollow, FormTypes, PanelsTypes, ListsTypes
     DEF TypesInv, ServicesTypeOK

\* Whichever service moves, its variables keep their types and their bounds: no
\* memory of the sign-in limiter is longer than its limit, no row of it counts
\* more failures than sign-ins have begun, a form and a report's row hold nothing
\* that was not typed, and a panel shows nothing that is not there
\* (rate-limit.mjs, durable-rate-limit.mjs, app.js, and the other sources of the
\* services).
THEOREM ServicesAreTyped == ServicesSpec => []ServicesTypeOK
  BY TypesInit, TypesStep, TypesFollow, PTL DEF ServicesSpec
=============================================================================
