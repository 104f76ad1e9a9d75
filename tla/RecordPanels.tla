----------------------------- MODULE RecordPanels -----------------------------
(***************************************************************************)
(* The incidents panel and the work order panel of the client's app.js: a  *)
(* list of the facility's records, the detail of one, what is done to it,  *)
(* and the search box, which opens records too.  Which of the two panels   *)
(* is followed is an initial choice: they share the facility that is       *)
(* selected and the search box, and nothing else.                          *)
(*                                                                         *)
(* A call is answered when it is, in any order, and may fail.  Of a record *)
(* its identity and its facility matter, and not what it says; its notes   *)
(* are the followups, amendments, people and comments shown with it.       *)
(***************************************************************************)
EXTENDS Naturals, FiniteSets

CONSTANTS
  Places,         \* facilities
  PlaceOf,        \* a function: the facility of a record
  Queries,        \* what can be typed in the search box
  MaxPanelCalls,  \* bound: calls
  Blank

ASSUME RecordPanelsAssumption ==
  /\ MaxPanelCalls \in Nat /\ \A r \in DOMAIN PlaceOf : PlaceOf[r] \in Places
  /\ Blank \notin Places \cup Queries \cup DOMAIN PlaceOf

VARIABLES
  panel,    \* "incidents" or "work orders"
  here,     \* currentFacility
  known,    \* the records there are
  state,    \* the panel's state, and the chip its list was asked for
  search,   \* the search box: its input, and its results with their facility
  waits,    \* calls that are not answered yet
  sent,     \* calls made
  excused   \* history: what somebody was too fast for, see PanelsInv

panelVars == <<panel, here, known, state, search, waits, sent, excused>>

-----------------------------------------------------------------------------
In(f) == {r \in known : PlaceOf[r] = f}
Empty == [items |-> {}, chip |-> "all", asked |-> "all",
          detailId |-> Blank, detail |-> Blank, notes |-> {}]

\* The facility's list has been loaded; a record may be yet to be created.
RecordPanelsInit ==
  /\ panel \in {"incidents", "work orders"}
  /\ here \in Places /\ known \in SUBSET (DOMAIN PlaceOf)
  /\ Cardinality(DOMAIN PlaceOf \ known) <= 1
  /\ state = [Empty EXCEPT !.items = In(here)]
  /\ search = [input |-> Blank, results |-> Blank]
  /\ waits = {} /\ sent = 0 /\ excused = {}

\* A call about a record, a facility or a query, made in a state of the panel,
\* and the record to open once it is answered.
PanelAsks(rest, kind, of, s, then) ==
  /\ sent < MaxPanelCalls /\ sent' = sent + 1
  /\ waits' = rest \cup {[id |-> sent + 1, kind |-> kind, of |-> of,
                          seen |-> s.detail, chip |-> s.chip, then |-> then]}
Drop(rest) == waits' = rest /\ UNCHANGED sent

Excuse(what, condition) == excused' = excused \cup (IF condition THEN {what} ELSE {})

Lists   == {c \in waits : c.kind \in {"list", "employees"}}
\* The calls about another record, whose answer puts it on the screen.
Others(r, calls) ==
  {c \in calls : /\ c.kind \in {"detail", "notes", "people", "act", "amend", "note"}
                 /\ c.of # r}

-----------------------------------------------------------------------------
(* The list *)

\* The comments of a work order stay, to be dropped as the next is opened.
ResetIncidents  == [Empty EXCEPT !.chip = state.chip]
ResetWorkOrders == [Empty EXCEPT !.notes = state.notes]

\* The panel is reset, and loaded for the facility that is selected now.
SelectFacility(f) ==
  /\ f # here /\ here' = f
  /\ IF panel = "incidents"
       THEN state' = ResetIncidents /\ PanelAsks(waits, "list", f, state', Blank)
       ELSE state' = ResetWorkOrders /\ PanelAsks(waits, "employees", f, state', Blank)
  /\ Excuse("facility", waits # {} \/ search.results # Blank)
  /\ UNCHANGED <<panel, known, search>>

\* A list call asked for with another on its way may be answered first.
LoadList(rest, s, then) ==
  /\ PanelAsks(rest, "list", here, s, then)
  /\ Excuse("list", \E c \in rest : c \in Lists)

\* The list of work orders comes after the employees, and is that of the
\* facility selected by then.
LoadWorkOrders(c) ==
  /\ c.kind = "employees" /\ LoadList(waits \ {c}, state, Blank)
  /\ UNCHANGED <<panel, here, known, state, search>>

\* setChip, setPriority and changePage ask at once.
SetChip(chip) ==
  /\ panel = "work orders" /\ chip # state.chip
  /\ state' = [state EXCEPT !.chip = chip] /\ LoadList(waits, state', Blank)
  /\ UNCHANGED <<panel, here, known, search>>

-----------------------------------------------------------------------------
(* A record is opened *)

\* A variant that shows the old detail until the new one comes.
DetailedLater(s, r) == [s EXCEPT !.detailId = r, !.notes = {}]

\* What was held of another record is dropped at once.
Detailed(s, r) == [s EXCEPT !.detailId = r, !.detail = Blank, !.notes = {}]

Opens(r, rest, s) ==
  /\ state' = s /\ PanelAsks(rest, "detail", r, s, Blank)
  /\ Excuse("detail", Others(r, rest) # {})

OpenDetail(r) ==
  /\ r \in state.items /\ Opens(r, waits, Detailed(state, r))
  /\ UNCHANGED <<panel, here, known, search>>

CloseDetail ==
  /\ state.detailId # Blank
  /\ state' = [state EXCEPT !.detailId = Blank, !.detail = Blank]
  /\ UNCHANGED <<panel, here, known, search, waits, sent, excused>>

\* The list answers, whatever the facility and the chip are by then.  A work
\* order that was created is opened once its list has come.
ListCame(c) ==
  /\ c.kind = "list"
  /\ \E items \in {In(c.of), {}} :
       LET s == [state EXCEPT !.items = items, !.asked = c.chip]
       IN  IF c.then = Blank
             THEN state' = s /\ Drop(waits \ {c}) /\ UNCHANGED excused
             ELSE Opens(c.then, waits \ {c}, Detailed(s, c.then))
  /\ UNCHANGED <<panel, here, known, search>>

DetailCame(c) ==
  /\ c.kind = "detail"
  /\ \/ /\ state' = [state EXCEPT !.detail = c.of]
        /\ PanelAsks(waits \ {c}, "notes", c.of, state, Blank)
     \/ UNCHANGED state /\ Drop(waits \ {c})
  /\ UNCHANGED <<panel, here, known, search, excused>>

\* loadPeople goes by the detailId of then, in the facility of then: an
\* incident of another is not found.
LoadPeople(rest) ==
  IF /\ panel = "incidents" /\ state.detailId # Blank
     /\ PlaceOf[state.detailId] = here
    THEN PanelAsks(rest, "people", state.detailId, state, Blank)
    ELSE Drop(rest)

NotesCame(c) ==
  /\ c.kind = "notes" /\ state' \in {[state EXCEPT !.notes = {c.of}],
                                     [state EXCEPT !.notes = {}]}
  /\ LoadPeople(waits \ {c})
  /\ UNCHANGED <<panel, here, known, search, excused>>

-----------------------------------------------------------------------------
(* What is done to a record: what is on the screen is detail, what the call *)
(* names is detailId                                                        *)

Acts(kind) ==
  /\ state.detailId # Blank /\ state.detail # Blank
  /\ PanelAsks(waits, kind, state.detailId, state, Blank)
  /\ UNCHANGED <<panel, here, known, state, search, excused>>

ChangeIncident   == panel = "incidents" /\ Acts("act")     \* its status
AmendIncident    == panel = "incidents" /\ Acts("amend")
AddPerson        == panel = "incidents" /\ Acts("note")
AddStatement     == panel = "incidents" /\ Acts("note")
Escalate         == panel = "incidents" /\ Acts("escalate")
AddFollowup      == panel = "incidents" /\ Acts("note")
ChangeWorkOrder  == panel = "work orders" /\ Acts("act")
PostComment      == panel = "work orders" /\ Acts("note")

\* The answer is shown, whichever record is open by then.
ActCame(c) ==
  /\ \/ c.kind = "act" /\ state' \in {state, [state EXCEPT !.detail = c.of]}
     \* The amendment joins the ones shown.
     \/ c.kind = "amend" /\ state' \in
          {state, [state EXCEPT !.detail = c.of, !.notes = @ \cup {c.of}]}
     \* The escalations are read again, and filtered by the detailId of then.
     \/ c.kind = "escalate" /\ UNCHANGED state
     \/ c.kind \in {"note", "people"} /\ state' \in {state, [state EXCEPT !.notes = @ \cup {c.of}]}
  /\ Drop(waits \ {c})
  /\ UNCHANGED <<panel, here, known, search, excused>>

-----------------------------------------------------------------------------
(* A record is created, and opened *)

Create ==
  /\ \E r \in DOMAIN PlaceOf \ known : PlaceOf[r] = here
  /\ {c \in waits : c.kind = "create"} = {} /\ PanelAsks(waits, "create", here, state, Blank)
  /\ UNCHANGED <<panel, here, known, state, search, excused>>

Created(c) == {r \in DOMAIN PlaceOf \ known : PlaceOf[r] = c.of}

SubmitCapture(c) ==
  /\ c.kind = "create" /\ panel = "incidents"
  /\ \E r \in Created(c) :
       /\ known' = known \cup {r}
       /\ Opens(r, waits \ {c}, [Detailed(state, r) EXCEPT !.items = @ \cup {r}])
  /\ UNCHANGED <<panel, here, search>>

CreateWorkOrder(c) ==
  /\ c.kind = "create" /\ panel = "work orders"
  /\ \E r \in Created(c) : known' = known \cup {r} /\ LoadList(waits \ {c}, state, r)
  /\ UNCHANGED <<panel, here, state, search>>

\* A call that only reports its failure.
Fails(c) ==
  /\ c.kind \in {"create", "search"} /\ Drop(waits \ {c})
  /\ UNCHANGED <<panel, here, known, state, search, excused>>

-----------------------------------------------------------------------------
(* The search box *)

\* Debounced: the call is made, or the box emptied, some time after the typing.
TypeQuery(q) ==
  /\ q # search.input /\ search' = [search EXCEPT !.input = q]
  /\ UNCHANGED <<panel, here, known, state, waits, sent, excused>>

RunSearch ==
  /\ search.input # Blank /\ PanelAsks(waits, "search", <<search.input, here>>, state, Blank)
  /\ search' = [search EXCEPT !.results = Blank]
  /\ UNCHANGED <<panel, here, known, state, excused>>

CloseResults ==
  /\ search.results # Blank /\ search' = [search EXCEPT !.results = Blank]
  /\ UNCHANGED <<panel, here, known, state, waits, sent, excused>>

\* An answer to a query that is no longer typed is dropped.
StaleSearch(c) == c.of[1] # search.input

SearchCame(c) ==
  /\ c.kind = "search" /\ Drop(waits \ {c})
  /\ search' = IF StaleSearch(c) THEN search ELSE [search EXCEPT !.results = c.of]
  /\ UNCHANGED <<panel, here, known, state, excused>>

OpenResult(r) ==
  /\ search.results # Blank /\ r \in In(search.results[2])
  /\ search' = [search EXCEPT !.results = Blank]
  /\ Opens(r, waits, Detailed(state, r))
  /\ UNCHANGED <<panel, here, known>>

-----------------------------------------------------------------------------
RecordPanelsNext ==
  \/ \E f \in Places : SelectFacility(f)
  \/ \E chip \in {"all", "mine"} : SetChip(chip)
  \/ \E r \in known : OpenDetail(r) \/ OpenResult(r)
  \/ \E q \in Queries \cup {Blank} : TypeQuery(q)
  \/ CloseDetail \/ Create \/ RunSearch \/ CloseResults
  \/ ChangeIncident \/ AmendIncident \/ AddPerson \/ AddStatement \/ Escalate
  \/ AddFollowup \/ ChangeWorkOrder \/ PostComment
  \/ \E c \in waits : \/ ListCame(c) \/ LoadWorkOrders(c) \/ DetailCame(c)
                      \/ NotesCame(c) \/ ActCame(c) \/ SubmitCapture(c)
                      \/ CreateWorkOrder(c) \/ SearchCame(c) \/ Fails(c)

RecordPanelsSpec == RecordPanelsInit /\ [][RecordPanelsNext]_panelVars

-----------------------------------------------------------------------------
RecordPanelsTypeOK ==
  /\ here \in Places /\ known \subseteq DOMAIN PlaceOf
  /\ state.items \cup state.notes \subseteq known
  /\ {state.detailId, state.detail} \subseteq known \cup {Blank}
  /\ search.input \in Queries \cup {Blank}

\* What is done to a record is done to the one on the screen, whose notes are
\* shown with it.
ActsOnShown ==
  "detail" \in excused
    \/ /\ \A c \in waits : c.kind \in {"act", "amend", "note", "escalate"} => c.of = c.seen
       /\ state.detailId # Blank =>
            state.detail \in {Blank, state.detailId} /\ state.notes \subseteq {state.detailId}

\* Nothing of another facility is shown, or opened.
ShowsHere ==
  "facility" \in excused
    \/ \A r \in state.items \cup ({state.detailId} \ {Blank}) : PlaceOf[r] = here

\* A list that is shown is the one of the chip that is selected.
ListIsAsked ==
  \/ "list" \in excused
  \/ Lists # {} \/ state.items = {} \/ panel = "incidents" \/ state.asked = state.chip

\* The panel shows one record, of the facility and by the filter selected, and
\* acts on the one it shows, unless a record was opened with a call about
\* another on its way, a facility selected with any call on its way or with
\* results shown, or a list asked for with a list on its way: the comment in
\* loadAllModules promises the facility of all.
PanelsInv == ActsOnShown /\ ShowsHere /\ ListIsAsked
=============================================================================
