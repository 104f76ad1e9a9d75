-------------------------- MODULE TemplateGovernance --------------------------
(***************************************************************************)
(* http/report-templates-routes.mjs, http/workflow-routes.mjs and          *)
(* http/forms-routes.mjs with report-templates.mjs, change-requests.mjs    *)
(* and forms.mjs: one report template, its versions, the requests to       *)
(* publish them, and the form definitions that can be promoted to it.      *)
(*                                                                         *)
(* A request decides on rows it loaded and then writes one row at a time,  *)
(* by id.  What the database adds are three triggers: a published version  *)
(* never changes (0028), a change request moves along its graph and not by *)
(* its author's approval (0014), and under the setting                     *)
(* templatePublishRequiresApproval a version is published only with an     *)
(* approved request (0055).                                                *)
(***************************************************************************)
EXTENDS Naturals, FiniteSets, FiniteSetsExt

CONSTANTS
  Offices,         \* requests that can overlap
  Authors,         \* users that hold every permission the routes ask for
  Contents,        \* schemas of versions and forms
  MaxVersions,     \* bound: version numbers of the template
  Forms,           \* identifiers a form_definitions row of the code can get
  MaxAsked,        \* bound: change requests
  MaxOfficeCalls   \* bound: requests

ASSUME GovernanceAssumption ==
  MaxVersions \in Nat \ {0} /\ MaxAsked \in Nat /\ MaxOfficeCalls \in Nat

VARIABLES
  requiresApproval, \* the setting templatePublishRequiresApproval
  template,         \* report_templates: status, active_version (0: null)
  versions,         \* report_template_versions by version_number
  asked,            \* admin_change_requests by order of creation
  forms,            \* form_definitions: version_no, status, schema
  office,           \* what a request has loaded and has still to write
  governed,         \* history: versions published while the setting was on
  lastPublished,    \* history: the version published last
  officeCalls,
  jammed,           \* history: two requests were under way together
  halved            \* history: a request ended between its writes

governanceVars == <<requiresApproval, template, versions, asked, forms, office,
                    governed, lastPublished, officeCalls, jammed, halved>>

-----------------------------------------------------------------------------
VersionNumbers == 1 .. MaxVersions
Absent    == [status |-> "none"]
Closed    == [at |-> "closed"]
NoVersion == [published |-> FALSE, content |-> "none"]
Existing  == {n \in VersionNumbers : versions[n] # NoVersion}

GovernanceInit ==
  /\ requiresApproval \in BOOLEAN
  /\ \E n \in {0, 1}, x \in Contents :
       /\ template = [status |-> IF n = 0 THEN "none" ELSE "draft", active |-> 0]
       /\ versions = [v \in VersionNumbers |->
            IF v <= n THEN [published |-> FALSE, content |-> x] ELSE NoVersion]
  /\ asked  = [r \in 1 .. MaxAsked |-> Absent]
  /\ forms  = [f \in Forms |-> Absent]
  /\ office = [o \in Offices |-> Closed]
  /\ governed = {} /\ lastPublished = 0
  /\ officeCalls = 0 /\ jammed = FALSE /\ halved = FALSE

Admit(o, step) ==
  /\ office[o] = Closed /\ officeCalls < MaxOfficeCalls
  /\ officeCalls' = officeCalls + 1
  /\ jammed' = (jammed \/ \E other \in Offices \ {o} : office[other] # Closed)
  /\ office' = [office EXCEPT ![o] = step]
  /\ UNCHANGED halved

Proceed(o, step) ==
  /\ office' = [office EXCEPT ![o] = step]
  /\ UNCHANGED <<officeCalls, jammed, halved>>

\* A trigger or a check refuses the request, a call fails, or the function is
\* cut off; the step says whether it had written something by then.
GiveUp(o) ==
  /\ office[o] # Closed
  /\ office' = [office EXCEPT ![o] = Closed]
  /\ halved' = (halved \/ office[o].at \in {"move", "submit", "stamp", "supersede",
                                            "insert_version"})
  /\ UNCHANGED <<requiresApproval, template, versions, asked, forms, governed,
                 lastPublished, officeCalls, jammed>>

rest == <<governed, lastPublished>>

\* PATCH of the module's settings.
ToggleSetting ==
  /\ officeCalls < MaxOfficeCalls
  /\ officeCalls' = officeCalls + 1
  /\ requiresApproval' = ~requiresApproval
  /\ UNCHANGED <<template, versions, asked, forms, office, rest, jammed, halved>>

CreateOrArchive ==
  /\ officeCalls < MaxOfficeCalls
  /\ officeCalls' = officeCalls + 1
  /\ template' = IF template.status = "none" THEN [template EXCEPT !.status = "draft"]
                 ELSE [template EXCEPT !.status = "archived"]
  /\ UNCHANGED <<requiresApproval, versions, asked, forms, office, rest, jammed,
                 halved>>

-----------------------------------------------------------------------------
\* Versions.

NextTemplateVersion == Max(Existing \cup {0}) + 1

AddVersionRead(o, x) ==
  /\ template.status # "none"
  /\ Admit(o, [at |-> "add", number |-> NextTemplateVersion, content |-> x])
  /\ UNCHANGED <<requiresApproval, template, versions, asked, forms, rest>>

\* unique (template_id, version_number)
AddVersionInsert(o) ==
  /\ office[o].at = "add" /\ office[o].number \in VersionNumbers \ Existing
  /\ versions' = [versions EXCEPT ![office[o].number] =
                    [published |-> FALSE, content |-> office[o].content]]
  /\ Proceed(o, Closed)
  /\ UNCHANGED <<requiresApproval, template, asked, forms, rest>>

LoadDraft(o, op, n, by) ==
  /\ n \in Existing /\ ~versions[n].published
  /\ Admit(o, [at |-> IF op = "edit" THEN "edit"
                      ELSE IF requiresApproval THEN "stage" ELSE "flip",
               number |-> n, by |-> by, asked |-> 0])
  /\ UNCHANGED <<requiresApproval, template, versions, asked, forms, rest>>

Immutable(n) == versions[n].published

EditVersion(o, x) ==
  /\ office[o].at = "edit" /\ ~Immutable(office[o].number)
  /\ versions' = [versions EXCEPT ![office[o].number].content = x]
  /\ Proceed(o, Closed)
  /\ UNCHANGED <<requiresApproval, template, asked, forms, rest>>

\* A variant that takes a request for an approval.
PublishGuardOnRequest(n) ==
  requiresApproval =>
    \E r \in 1 .. MaxAsked :
      /\ asked[r].status \in {"pending_review", "approved", "published"}
      /\ asked[r].number = n /\ asked[r].reviewer # asked[r].by

\* fn_report_template_version_publish_guard
PublishGuard(n) ==
  requiresApproval =>
    \E r \in 1 .. MaxAsked :
      /\ asked[r].status \in {"approved", "published"}
      /\ asked[r].number = n /\ asked[r].reviewer # asked[r].by

Publishes(n) ==
  /\ governed' = IF requiresApproval THEN governed \cup {n} ELSE governed
  /\ lastPublished' = n

FlipVersion(o) ==
  LET n == office[o].number
  IN /\ office[o].at = "flip"
     /\ ~Immutable(n) /\ PublishGuard(n)
     /\ versions' = [versions EXCEPT ![n].published = TRUE]
     /\ Publishes(n)
     /\ Proceed(o, [office[o] EXCEPT !.at = "move"])
     /\ UNCHANGED <<requiresApproval, template, asked, forms>>

\* The trigger on report_templates holds: the version is published by then.
MoveTemplate(o) ==
  /\ office[o].at = "move"
  /\ versions[office[o].number].published
  /\ template' = [status |-> "published", active |-> office[o].number]
  /\ Proceed(o, IF office[o].asked = 0 THEN Closed
                ELSE [office[o] EXCEPT !.at = "stamp"])
  /\ UNCHANGED <<requiresApproval, versions, asked, forms, rest>>

-----------------------------------------------------------------------------
\* Change requests.

Ask(o) ==
  /\ office[o].at = "stage"
  /\ \E r \in 1 .. MaxAsked :
       /\ asked[r] = Absent
       /\ \A q \in 1 .. MaxAsked : q < r => asked[q] # Absent
       /\ asked' = [asked EXCEPT ![r] =
            [status |-> "draft", number |-> office[o].number,
             by |-> office[o].by, reviewer |-> "nobody"]]
       /\ Proceed(o, [office[o] EXCEPT !.at = "submit", !.asked = r])
  /\ UNCHANGED <<requiresApproval, template, versions, forms, rest>>

Advances(from, to) ==
  <<from, to>> \in {<<"draft", "pending_review">>, <<"pending_review", "approved">>,
                    <<"pending_review", "rejected">>, <<"approved", "published">>}

\* advanceChangeRequest: what the routes check on the row they loaded.
CanAdvance(request, to, actor) ==
  /\ Advances(request.status, to)
  /\ to = "approved" => actor # request.by

\* fn_enforce_change_request_transition, which lets an update pass that leaves
\* the status as it is.
TransitionGuard(row, to, reviewer) ==
  \/ to = row.status
  \/ Advances(row.status, to) /\ (to = "approved" => reviewer # row.by)

Advance(r, to, actor) ==
  LET reviewer == IF to \in {"approved", "rejected"} THEN actor
                  ELSE asked[r].reviewer
  IN /\ TransitionGuard(asked[r], to, reviewer)
     /\ asked' = [asked EXCEPT ![r].status = to, ![r].reviewer = reviewer]

SubmitAsked(o) ==
  /\ office[o].at = "submit"
  /\ Advance(office[o].asked, "pending_review", office[o].by)
  /\ Proceed(o, Closed)
  /\ UNCHANGED <<requiresApproval, template, versions, forms, rest>>

\* POST change-requests/:id/submit, approve, reject and publish.
LoadAsked(o, r, to, actor) ==
  /\ asked[r] # Absent /\ CanAdvance(asked[r], to, actor)
  /\ Admit(o, [at |-> "advance", asked |-> r, to |-> to, by |-> actor])
  /\ UNCHANGED <<requiresApproval, template, versions, asked, forms, rest>>

AdvanceAsked(o) ==
  /\ office[o].at = "advance"
  /\ Advance(office[o].asked, office[o].to, office[o].by)
  /\ Proceed(o, Closed)
  /\ UNCHANGED <<requiresApproval, template, versions, forms, rest>>

\* POST report-template-versions/:id/publish/approve.
Pending(n) == {r \in 1 .. MaxAsked :
                 asked[r].status = "pending_review" /\ asked[r].number = n}

LoadPending(o, n, actor) ==
  /\ Pending(n) # {}
  /\ CanAdvance(asked[Max(Pending(n))], "approved", actor)
  /\ Admit(o, [at |-> "approve", number |-> n, by |-> actor,
               asked |-> Max(Pending(n)), published |-> versions[n].published])
  /\ UNCHANGED <<requiresApproval, template, versions, asked, forms, rest>>

\* The version is checked after the request is approved.
ApproveAsked(o) ==
  /\ office[o].at = "approve"
  /\ Advance(office[o].asked, "approved", office[o].by)
  /\ Proceed(o, IF office[o].published THEN Closed
                ELSE [office[o] EXCEPT !.at = "flip"])
  /\ UNCHANGED <<requiresApproval, template, versions, forms, rest>>

StampAsked(o) ==
  /\ office[o].at = "stamp"
  /\ Advance(office[o].asked, "published", office[o].by)
  /\ Proceed(o, Closed)
  /\ UNCHANGED <<requiresApproval, template, versions, forms, rest>>

-----------------------------------------------------------------------------
\* Form definitions.

FormNumbers == {forms[f].number : f \in {g \in Forms : forms[g] # Absent}}

CreateFormRead(o, f, x) ==
  /\ forms[f] = Absent
  /\ Admit(o, [at |-> "form", form |-> f, content |-> x,
               number |-> Max(FormNumbers \cup {0}) + 1])
  /\ UNCHANGED <<requiresApproval, template, versions, asked, forms, rest>>

\* unique (facility_id, form_code, version_no)
CreateFormInsert(o) ==
  /\ office[o].at = "form"
  /\ forms[office[o].form] = Absent /\ office[o].number \notin FormNumbers
  /\ forms' = [forms EXCEPT ![office[o].form] =
       [status |-> "draft", number |-> office[o].number,
        content |-> office[o].content]]
  /\ Proceed(o, Closed)
  /\ UNCHANGED <<requiresApproval, template, versions, asked, rest>>

LoadForm(o, f, op) ==
  /\ forms[f].status = "draft"
  /\ Admit(o, [at |-> op, form |-> f,
               others |-> {g \in Forms : forms[g].status = "published"}])
  /\ UNCHANGED <<requiresApproval, template, versions, asked, forms, rest>>

EditForm(o, x) ==
  /\ office[o].at = "edit_form"
  /\ forms' = [forms EXCEPT ![office[o].form].content = x]
  /\ Proceed(o, Closed)
  /\ UNCHANGED <<requiresApproval, template, versions, asked, rest>>

RetireOther(o, g) ==
  /\ office[o].at \in {"publish_form", "supersede"} /\ g \in office[o].others
  /\ forms' = [forms EXCEPT ![g].status = "retired"]
  /\ Proceed(o, [office[o] EXCEPT !.at = "supersede", !.others = @ \ {g}])
  /\ UNCHANGED <<requiresApproval, template, versions, asked, rest>>

PublishForm(o) ==
  /\ office[o].at \in {"publish_form", "supersede"} /\ office[o].others = {}
  /\ forms' = [forms EXCEPT ![office[o].form].status = "published"]
  /\ Proceed(o, Closed)
  /\ UNCHANGED <<requiresApproval, template, versions, asked, rest>>

\* POST forms/:id/promote; the version is inserted as published.
PromoteLoad(o, f) ==
  /\ forms[f].status = "published"
  /\ Admit(o, [at |-> IF template.status = "none" THEN "insert_template"
                      ELSE "promote",
               number |-> NextTemplateVersion, content |-> forms[f].content,
               asked |-> 0])
  /\ UNCHANGED <<requiresApproval, template, versions, asked, forms, rest>>

\* unique (facility_id, code)
PromoteTemplate(o) ==
  /\ office[o].at = "insert_template" /\ template.status = "none"
  /\ template' = [template EXCEPT !.status = "draft"]
  /\ Proceed(o, [office[o] EXCEPT !.at = "insert_version"])
  /\ UNCHANGED <<requiresApproval, versions, asked, forms, rest>>

PromoteVersion(o) ==
  LET n == office[o].number
  IN /\ office[o].at \in {"promote", "insert_version"}
     /\ n \in VersionNumbers \ Existing
     /\ PublishGuard(n)
     /\ versions' = [versions EXCEPT ![n] =
          [published |-> TRUE, content |-> office[o].content]]
     /\ Publishes(n)
     /\ Proceed(o, [office[o] EXCEPT !.at = "move"])
     /\ UNCHANGED <<requiresApproval, template, asked, forms>>

-----------------------------------------------------------------------------
VersionRoutes(o) ==
  \/ \E x \in Contents : AddVersionRead(o, x) \/ EditVersion(o, x)
  \/ \E n \in VersionNumbers, u \in Authors :
       \/ \E op \in {"edit", "publish"} : LoadDraft(o, op, n, u)
       \/ LoadPending(o, n, u)
  \/ AddVersionInsert(o) \/ FlipVersion(o) \/ MoveTemplate(o)

RequestRoutes(o) ==
  \/ Ask(o) \/ SubmitAsked(o) \/ ApproveAsked(o) \/ StampAsked(o)
  \/ \E r \in 1 .. MaxAsked, u \in Authors,
        to \in {"pending_review", "approved", "rejected", "published"} :
       LoadAsked(o, r, to, u)
  \/ AdvanceAsked(o)

FormRoutes(o) ==
  \/ \E f \in Forms :
       \/ \E x \in Contents : CreateFormRead(o, f, x)
       \/ \E op \in {"edit_form", "publish_form"} : LoadForm(o, f, op)
       \/ PromoteLoad(o, f) \/ RetireOther(o, f)
  \/ \E x \in Contents : EditForm(o, x)
  \/ CreateFormInsert(o) \/ PublishForm(o)
  \/ PromoteTemplate(o) \/ PromoteVersion(o)

GovernanceNext ==
  \/ ToggleSetting \/ CreateOrArchive
  \/ \E o \in Offices :
       VersionRoutes(o) \/ RequestRoutes(o) \/ FormRoutes(o) \/ GiveUp(o)

GovernanceSpec == GovernanceInit /\ [][GovernanceNext]_governanceVars

-----------------------------------------------------------------------------
GovernanceTypeOK ==
  /\ template \in [status : {"none", "draft", "published", "archived"},
                   active : 0 .. MaxVersions]
  /\ versions \in [VersionNumbers -> [published : BOOLEAN,
                                      content : Contents \cup {"none"}]]
  /\ \A r \in 1 .. MaxAsked : asked[r].status \in
       {"none", "draft", "pending_review", "approved", "rejected", "published"}
  /\ \A f \in Forms : forms[f].status \in {"none", "draft", "published", "retired"}
  /\ governed \subseteq VersionNumbers /\ lastPublished \in 0 .. MaxVersions
  /\ officeCalls \in 0 .. MaxOfficeCalls /\ jammed \in BOOLEAN /\ halved \in BOOLEAN

\* Whatever route publishes a version, directly, by approval or by promotion
\* of a form, and whenever the setting is changed in between: one that was
\* published while approval was required has a request that somebody else than
\* its author approved.  The template points at a published version.
TwoPersonRule ==
  /\ \A n \in governed :
       \E r \in 1 .. MaxAsked :
         /\ asked[r].status \in {"approved", "published"}
         /\ asked[r].number = n /\ asked[r].reviewer # asked[r].by
  /\ template.active # 0 => versions[template.active].published

\* As long as requests do not overlap and none ends between its writes, the
\* template points at the version that was published last, and at most one
\* definition of a form is published.
PublishedIsActive ==
  jammed \/ halved \/
    /\ (\A o \in Offices : office[o].at # "move") => template.active = lastPublished
    /\ Cardinality({f \in Forms : forms[f].status = "published"}) <= 1

\* Both together: what a published version owes to those who govern it.
GovernanceInv == TwoPersonRule /\ PublishedIsActive
=============================================================================
