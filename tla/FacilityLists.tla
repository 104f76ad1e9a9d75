----------------------------- MODULE FacilityLists -----------------------------
(***************************************************************************)
(* What the client's app.js loads for the facility that is selected and    *)
(* only lists: the tiles of the dashboard, the reports with the templates  *)
(* a new one is filled from, the inbox of submitted reports, training and  *)
(* certifications.  They are loaded together and share the facility alone, *)
(* so that which one is followed is an initial choice.                     *)
(*                                                                         *)
(* Of what is listed only the facilities it is of matter.  A call may      *)
(* fail, and is answered when it is.                                       *)
(***************************************************************************)
EXTENDS Naturals, FiniteSets

CONSTANTS
  Venues,        \* facilities
  MaxListCalls   \* bound: calls

ASSUME FacilityListsAssumption == MaxListCalls \in Nat

VARIABLES
  listed,     \* the list that is followed
  venue,      \* currentFacility
  shows,      \* the facilities of what is drawn
  templates,  \* publishedReportTemplates: the facilities they are of
  asking,     \* calls that are not answered yet
  asks,       \* calls made
  rash        \* history: what was not waited for, or failed, see ListsInv

listsVars == <<listed, venue, shows, templates, asking, asks, rash>>

-----------------------------------------------------------------------------
FacilityListsInit ==
  /\ listed \in {"tiles", "reports", "inbox", "training", "certifications"}
  /\ venue \in Venues /\ shows = {venue} /\ templates = {venue}
  /\ asking = {} /\ asks = 0 /\ rash = {}

\* A call, and what has come of the list before it.
AskList(rest, kind, of, sofar) ==
  /\ asks < MaxListCalls /\ asks' = asks + 1
  /\ asking' = rest \cup {[id |-> asks + 1, kind |-> kind, of |-> of, sofar |-> sofar]}
NoAsk(rest) == asking' = rest /\ UNCHANGED asks

Rash(what, condition) == rash' = rash \cup (IF condition THEN {what} ELSE {})

Loads == {c \in asking : c.kind # "start"}

\* Where a load begins: the tiles and the inbox take two steps.
FirstStep == IF listed \in {"tiles", "inbox"} THEN "first" ELSE "list"

\* setLoading clears a list when it is asked for; the tiles stay until the
\* new ones are drawn.
Cleared == IF listed = "tiles" THEN shows ELSE {}

\* loadAllModules: the inbox stays while the choices of its filter are loaded,
\* the templates of the quick action until others come.
SelectVenue(f) ==
  /\ f # venue /\ venue' = f /\ AskList(asking, FirstStep, f, {})
  /\ shows' = IF listed = "inbox" THEN shows ELSE Cleared
  /\ Rash("venue", asking # {})
  /\ UNCHANGED <<listed, templates>>

\* What comes second is asked for of the facility selected by then: the
\* shifts and acknowledgements of the tiles, the list of the inbox.
SecondStep(c) ==
  /\ c.kind = "first" /\ AskList(asking \ {c}, "list", venue,
       IF listed = "tiles" THEN {c.of} ELSE {})
  /\ shows' = Cleared
  /\ UNCHANGED <<listed, venue, templates, rash>>

\* A tile that fails is drawn as unavailable, a list that fails as its error.
Listed(c) ==
  /\ c.kind = "list" /\ NoAsk(asking \ {c})
  /\ shows' \in {c.sofar \cup {c.of}, c.sofar}
  /\ UNCHANGED <<listed, venue, templates, rash>>

\* A variant that sets the templates of the quick action aside.
ReportsCameDrawn(c) ==
  /\ c.kind = "list" /\ NoAsk(asking \ {c}) /\ shows' = {c.of}
  /\ UNCHANGED <<listed, venue, templates, rash>>

\* The templates that came are those of the quick action; of a load that fails
\* the ones before stay.
ReportsCame(c) ==
  /\ c.kind = "list" /\ NoAsk(asking \ {c})
  /\ \/ shows' = {c.of} /\ templates' = {c.of} /\ UNCHANGED rash
     \/ shows' = {} /\ UNCHANGED templates /\ Rash("failed", TRUE)
  /\ UNCHANGED <<listed, venue>>

Comes(c) == IF listed = "reports" THEN ReportsCame(c) ELSE Listed(c)

-----------------------------------------------------------------------------
(* A report is begun, from the list or by the quick action of the dashboard *)

StartReport(from) ==
  /\ listed = "reports" /\ \E f \in from : AskList(asking, "start", venue, {f})
  /\ Rash("early", Loads # {})
  /\ UNCHANGED <<listed, venue, shows, templates>>

FillOut     == StartReport(shows)
QuickAction == StartReport(templates)

\* The reports are loaded again, after a draft was created.
Started(c) ==
  /\ c.kind = "start"
  /\ \/ AskList(asking \ {c}, "list", venue, {}) /\ shows' = Cleared
     \/ NoAsk(asking \ {c}) /\ UNCHANGED shows
  /\ UNCHANGED <<listed, venue, templates, rash>>

\* Mark complete reloads the training; the filter of the inbox reloads it.
CompleteTraining ==
  /\ listed = "training" /\ shows # {} /\ AskList(asking, "start", venue, {})
  /\ UNCHANGED <<listed, venue, shows, templates, rash>>

FilterInbox ==
  /\ listed = "inbox" /\ AskList(asking, "list", venue, {}) /\ shows' = Cleared
  /\ UNCHANGED <<listed, venue, templates, rash>>

FacilityListsNext ==
  \/ \E f \in Venues : SelectVenue(f)
  \/ FillOut \/ QuickAction \/ CompleteTraining \/ FilterInbox
  \/ \E c \in asking : SecondStep(c) \/ Comes(c) \/ Started(c)

FacilityListsSpec == FacilityListsInit /\ [][FacilityListsNext]_listsVars

-----------------------------------------------------------------------------
FacilityListsTypeOK ==
  /\ venue \in Venues /\ shows \subseteq Venues
  /\ templates # {} /\ templates \subseteq Venues

\* When every answer has come, what is listed is the selected facility's.
ShowsVenue == "venue" \in rash \/ asking # {} \/ shows \subseteq {venue}

\* A report is begun from a template of the facility it is begun in.
StartsHere ==
  \/ {"venue", "early", "failed"} \cap rash # {}
  \/ \A c \in asking : c.kind = "start" /\ listed = "reports" => c.sofar = {c.of}

\* A list comes to be the selected facility's, and a report is begun of a
\* template of it, unless the facility changed with a call on its way or, for
\* the report, the list had not come or failed to.
ListsInv == ShowsVenue /\ StartsHere
=============================================================================
