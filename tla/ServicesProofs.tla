--------------------------- MODULE ServicesProofs ---------------------------
(***************************************************************************)
(* What PlatformServices promises of the parts the route modules share:    *)
(* nobody publishes a version alone where two are asked for, an outage of  *)
(* the auth service leaves the cached keys alone, a row never points at an *)
(* object that is not there, an expired token costs nobody his session, a  *)
(* verdict on the audit chain is right, and nobody is locked out for less  *)
(* than he did.                                                            *)
(***************************************************************************)
EXTENDS PlatformServices, FiniteSetTheorems, SequenceTheorems, WellFoundedInduction,
        TLAPS

-----------------------------------------------------------------------------
\* Numbers: a set of them has a least element, and a bounded one a greatest.

LEMMA LeastNumber ==
  ASSUME NEW S \in SUBSET Nat, S # {}
  PROVE  \E x \in S : \A y \in S : x <= y
  <1> DEFINE R == {p \in Nat \X Nat : p[1] < p[2]}
  <1>1. IsWellFoundedOn(R, Nat)
    BY NatLessThanWellFounded DEF OpToRel
  <1> HIDE DEF R
  <1>2. PICK x \in S : \A y \in S : ~ (<<y, x>> \in R)
    BY <1>1, WFMin
  <1>3. \A y \in Nat, z \in Nat : y < z => <<y, z>> \in R
    BY DEF R
  <1>4. ASSUME NEW y \in S PROVE x <= y
    <2>1. ~ (y < x)
      BY <1>2, <1>3
    <2> QED
      BY <2>1
  <1> QED
    BY <1>4

LEMMA GreatestNumber ==
  ASSUME NEW n \in Nat, NEW S \in SUBSET (0 .. n), S # {}
  PROVE  Max(S) \in S /\ \A y \in S : Max(S) >= y
  <1> DEFINE T == {n - x : x \in S}
  <1>1. T \in SUBSET Nat /\ T # {}
    <2>1. \A x \in S : n - x \in Nat
      OBVIOUS
    <2> QED
      BY <2>1
  <1>2. PICK t \in T : \A y \in T : t <= y
    BY <1>1, LeastNumber
  <1>3. PICK x \in S : t = n - x
    BY <1>2
  <1>4. \A y \in S : x >= y
    <2> TAKE y \in S
    <2>1. n - y \in T
      OBVIOUS
    <2>2. x \in 0 .. n /\ y \in 0 .. n
      OBVIOUS
    <2> HIDE DEF T
    <2>3. n - x <= n - y
      BY <1>2, <1>3, <2>1
    <2> QED
      BY <2>2, <2>3
  <1> HIDE DEF T
  <1> QED
    BY <1>4 DEF Max

-----------------------------------------------------------------------------
\* Template governance: versions, the requests to publish them, and forms.

AskedRows == [status : {"draft", "pending_review", "approved", "rejected",
                        "published"},
              number : VersionNumbers, by : Authors,
              reviewer : Authors \cup {"nobody"}]

IsVersion(v) == /\ v = [published |-> v.published, content |-> v.content]
                /\ v.published \in BOOLEAN

IsForm(f) == f = [status |-> f.status, number |-> f.number, content |-> f.content]

\* What a request may have in hand.
Drafting  == [at : {"edit", "stage", "flip", "move", "submit", "stamp"},
              number : VersionNumbers, by : Authors, asked : 0 .. MaxAsked]
Approving == [at : {"approve", "flip", "move", "stamp"}, number : VersionNumbers,
              by : Authors, asked : 1 .. MaxAsked, published : BOOLEAN]
Advancing == [at : {"advance"}, asked : 1 .. MaxAsked,
              to : {"pending_review", "approved", "rejected", "published"},
              by : Authors]
Forming   == [at : {"edit_form", "publish_form", "supersede"}, form : Forms,
              others : SUBSET Forms]

IsWork(d) ==
  \/ d = Closed
  \/ d \in Drafting \/ d \in Approving \/ d \in Advancing \/ d \in Forming
  \/ d = [at |-> "add", number |-> d.number, content |-> d.content]
  \/ /\ d = [at |-> "form", form |-> d.form, content |-> d.content,
             number |-> d.number]
     /\ d.form \in Forms
  \/ /\ d = [at |-> d.at, number |-> d.number, content |-> d.content, asked |-> 0]
     /\ d.at \in {"insert_template", "promote", "insert_version", "move"}
     /\ d.at = "move" => d.number \in VersionNumbers

GovernanceTyped ==
  /\ requiresApproval \in BOOLEAN
  /\ template = [status |-> template.status, active |-> template.active]
  /\ template.active \in 0 .. MaxVersions
  /\ DOMAIN versions = VersionNumbers
  /\ \A n \in VersionNumbers : IsVersion(versions[n])
  /\ asked \in [1 .. MaxAsked -> AskedRows \cup {Absent}]
  /\ DOMAIN forms = Forms
  /\ \A f \in Forms : forms[f] = Absent \/ IsForm(forms[f])
  /\ DOMAIN office = Offices
  /\ governed \subseteq VersionNumbers
  /\ jammed \in BOOLEAN /\ halved \in BOOLEAN

\* The rows a request works on are there, and nobody is about to approve what
\* he asked for.
WorkHolds(d) ==
  /\ IsWork(d)
  /\ d.at \in {"submit", "stamp", "advance", "approve"} =>
       d.asked \in 1 .. MaxAsked /\ asked[d.asked] # Absent
  /\ d.at \in {"flip", "move"} /\ d.asked # 0 =>
       d.asked \in 1 .. MaxAsked /\ asked[d.asked] # Absent
  /\ d.at = "approve" \/ (d.at = "advance" /\ d.to = "approved") =>
       d.by # asked[d.asked].by
  /\ d.at \in {"edit_form", "publish_form", "supersede"} =>
       forms[d.form] # Absent /\ \A g \in d.others : forms[g] # Absent

Approved(n) ==
  \E r \in 1 .. MaxAsked :
    /\ asked[r].status \in {"approved", "published"}
    /\ asked[r].number = n /\ asked[r].reviewer # asked[r].by

PublishedForms == {f \in Forms : forms[f].status = "published"}

\* While requests have not overlapped and none has ended between its writes:
\* one at most is under way, the version it published is the last one, and the
\* forms it is to retire are those that are published.
WorkIsFresh(d) ==
  /\ d.at = "move" => d.number = lastPublished
  /\ d.at \in {"publish_form", "supersede"} => d.others = PublishedForms

OneOffice == \A o, p \in Offices : office[o] # Closed /\ office[p] # Closed => o = p

GovernanceFresh ==
  /\ OneOffice
  /\ \A o \in Offices : WorkIsFresh(office[o])
  /\ (\A o \in Offices : office[o].at # "move") => template.active = lastPublished
  /\ \A f, g \in PublishedForms : f = g

GovernedInv ==
  /\ GovernanceTyped
  /\ \A o \in Offices : WorkHolds(office[o])
  /\ \A n \in governed : Approved(n)
  /\ template.active # 0 => versions[template.active].published
  /\ jammed \/ halved \/ GovernanceFresh

\* Request o does a step; unless requests overlap, no other is under way.
OfficeTurns(o, step) ==
  /\ office' = [office EXCEPT ![o] = step]
  /\ jammed' \in BOOLEAN /\ (jammed => jammed')
  /\ jammed' \/ halved \/ \A p \in Offices \ {o} : office[p] = Closed

LEMMA AdmitTurns ==
  ASSUME GovernedInv, NEW o \in Offices, NEW step, Admit(o, step)
  PROVE  OfficeTurns(o, step) /\ office[o] = Closed /\ UNCHANGED halved
  BY DEF GovernedInv, GovernanceTyped, Admit, OfficeTurns

LEMMA ProceedTurns ==
  ASSUME GovernedInv, NEW o \in Offices, NEW step, Proceed(o, step),
         office[o].at # "closed"
  PROVE  OfficeTurns(o, step) /\ UNCHANGED <<jammed, halved>>
  <1>1. office[o] # Closed
    BY DEF Closed
  <1> QED
    BY <1>1 DEF GovernedInv, GovernanceTyped, GovernanceFresh, OneOffice,
                Proceed, OfficeTurns

\* Requests and forms, once there, stay; a request keeps its author.
RowsStay ==
  /\ \A r \in 1 .. MaxAsked : asked[r] # Absent =>
       asked'[r] # Absent /\ asked'[r].by = asked[r].by
  /\ \A f \in Forms : forms[f] # Absent => forms'[f] # Absent

LEMMA OfficeKeeps ==
  ASSUME GovernedInv, NEW o \in Offices, NEW step, OfficeTurns(o, step),
         WorkHolds(step)', RowsStay,
         jammed' \/ halved' \/ WorkIsFresh(step)', halved => halved'
  PROVE  /\ DOMAIN office' = Offices
         /\ \A p \in Offices : WorkHolds(office[p])'
         /\ jammed' \/ halved' \/ (OneOffice /\ \A p \in Offices : WorkIsFresh(office[p]))'
         /\ office'[o] = step
  <1>1. /\ DOMAIN office' = Offices
        /\ office'[o] = step
        /\ \A p \in Offices : p # o => office'[p] = office[p]
    BY DEF GovernedInv, GovernanceTyped, OfficeTurns
  <1>2. ASSUME NEW p \in Offices PROVE WorkHolds(office[p])'
    <2>1. CASE p = o
      BY <1>1, <2>1 DEF WorkHolds
    <2>2. CASE p # o
      <3>1. PICK d : d = office[p]
        OBVIOUS
      <3>2. WorkHolds(d)
        BY <3>1 DEF GovernedInv
      <3>3. /\ d.at \in {"submit", "stamp", "advance", "approve"} =>
                 d.asked \in 1 .. MaxAsked
            /\ d.at \in {"edit_form", "publish_form", "supersede"} =>
                 d.form \in Forms /\ d.others \subseteq Forms
        BY <3>2 DEF WorkHolds, IsWork, Closed, Drafting, Approving, Advancing,
                    Forming
      <3>4. WorkHolds(d)'
        BY <3>2, <3>3 DEF WorkHolds, RowsStay
      <3> QED
        BY <1>1, <2>2, <3>1, <3>4
    <2> QED
      BY <2>1, <2>2
  <1>3. CASE ~ jammed' /\ ~ halved'
    <2>1. \A p \in Offices : p # o => office'[p] = Closed
      BY <1>1, <1>3 DEF OfficeTurns
    <2>2. Closed.at = "closed"
      BY DEF Closed
    <2> QED
      BY <1>1, <1>2, <1>3, <2>1, <2>2 DEF OneOffice, WorkIsFresh
  <1> QED
    BY <1>1, <1>2, <1>3

\* A step that leaves the tables and the histories alone.
LEMMA OfficeOnly ==
  ASSUME GovernedInv, NEW o \in Offices, NEW step, OfficeTurns(o, step),
         WorkHolds(step), halved => halved', halved' \in BOOLEAN,
         UNCHANGED <<requiresApproval, template, versions, asked, forms, governed,
                     lastPublished>>,
         jammed' \/ halved' \/ (/\ WorkIsFresh(step)
                               /\ office[o].at # "move" /\ step.at # "move")
  PROVE  GovernedInv'
  <1>1. WorkHolds(step)' /\ RowsStay
    BY DEF WorkHolds, RowsStay
  <1>2. jammed' \/ halved' \/ WorkIsFresh(step)'
    BY DEF WorkIsFresh, PublishedForms
  <1>3. /\ DOMAIN office' = Offices
        /\ \A p \in Offices : WorkHolds(office[p])'
        /\ jammed' \/ halved' \/ (OneOffice /\ \A p \in Offices : WorkIsFresh(office[p]))'
        /\ office'[o] = step
    BY <1>1, <1>2, OfficeKeeps
  <1>4. GovernanceTyped'
    BY <1>3 DEF GovernedInv, GovernanceTyped, OfficeTurns
  <1>5. (\A n \in governed : Approved(n))'
    BY DEF GovernedInv, Approved
  <1>6. jammed' \/ halved' \/ GovernanceFresh'
    <2>1. ASSUME ~ jammed', ~ halved',
                 \A p \in Offices : office'[p].at # "move"
          PROVE  template.active = lastPublished
      <3>1. \A p \in Offices : office[p].at # "move"
        BY <2>1 DEF OfficeTurns, GovernedInv, GovernanceTyped
      <3> QED
        BY <2>1, <3>1 DEF GovernedInv, GovernanceFresh, OfficeTurns
    <2> QED
      BY <1>3, <2>1 DEF GovernedInv, GovernanceFresh, PublishedForms,
                        OfficeTurns
  <1> QED
    BY <1>3, <1>4, <1>5, <1>6 DEF GovernedInv

\* A step that goes on writing the same tables: what it leaves alone of them.
LEMMA GovernedNext ==
  ASSUME GovernedInv, NEW o \in Offices, NEW step, OfficeTurns(o, step),
         GovernanceTyped', WorkHolds(step)', RowsStay,
         \A n \in governed' : Approved(n)',
         template.active' # 0 => versions'[template.active'].published,
         jammed' \/ halved' \/
           /\ WorkIsFresh(step)'
           /\ (step.at # "move") => template.active' = lastPublished'
           /\ \A f, g \in PublishedForms' : f = g,
         halved => halved'
  PROVE  GovernedInv'
  <1>1. /\ DOMAIN office' = Offices
        /\ \A p \in Offices : WorkHolds(office[p])'
        /\ jammed' \/ halved' \/ (OneOffice /\ \A p \in Offices : WorkIsFresh(office[p]))'
        /\ office'[o] = step
    BY OfficeKeeps
  <1>2. jammed' \/ halved' \/ GovernanceFresh'
    BY <1>1 DEF GovernanceFresh
  <1> QED
    BY <1>1, <1>2 DEF GovernedInv

LEMMA AddVersionReadStep ==
  ASSUME GovernedInv, NEW o \in Offices, NEW x \in Contents, AddVersionRead(o, x)
  PROVE  GovernedInv'
  <1>1. PICK step : step = [at |-> "add", number |-> NextTemplateVersion, content |-> x]
    OBVIOUS
  <1>2. /\ Admit(o, step)
        /\ UNCHANGED <<requiresApproval, template, versions, asked, forms, rest>>
    BY <1>1 DEF AddVersionRead
  <1>3. WorkHolds(step) /\ WorkIsFresh(step) /\ step.at = "add"
    BY <1>1 DEF WorkHolds, WorkIsFresh, IsWork
  <1> QED
    BY <1>2, <1>3, AdmitTurns, OfficeOnly
       DEF rest, Closed, GovernedInv, GovernanceTyped

LEMMA AddVersionInsertStep ==
  ASSUME GovernedInv, NEW o \in Offices, AddVersionInsert(o)
  PROVE  GovernedInv'
  <1>1. PICK n, v : n = office[o].number
                    /\ v = [published |-> FALSE, content |-> office[o].content]
    OBVIOUS
  <1>2. /\ office[o].at = "add" /\ n \in VersionNumbers \ Existing
        /\ versions' = [versions EXCEPT ![n] = v]
        /\ Proceed(o, Closed)
        /\ UNCHANGED <<requiresApproval, template, asked, forms, governed, lastPublished>>
    BY <1>1 DEF AddVersionInsert, rest
  <1>3. OfficeTurns(o, Closed) /\ UNCHANGED <<jammed, halved>>
    BY <1>2, ProceedTurns
  <1>4. /\ versions'[n] = v
        /\ \A m \in VersionNumbers : m # n => versions'[m] = versions[m]
        /\ versions[n].published = FALSE
    BY <1>2 DEF GovernedInv, GovernanceTyped, Existing, NoVersion
  <1>5. GovernanceTyped'
    BY <1>1, <1>2, <1>3, <1>4 DEF GovernedInv, GovernanceTyped, OfficeTurns,
                                  IsVersion
  <1>6. WorkHolds(Closed)' /\ WorkIsFresh(Closed)' /\ RowsStay
    BY <1>2 DEF WorkHolds, WorkIsFresh, IsWork, Closed, RowsStay
  <1>7. \A m \in governed' : Approved(m)'
    BY <1>2 DEF GovernedInv, Approved
  <1>8. template.active' # 0 => versions'[template.active'].published
    BY <1>2, <1>4 DEF GovernedInv, GovernanceTyped, VersionNumbers
  <1>9. jammed' \/ halved' \/
          /\ template.active' = lastPublished'
          /\ \A f, g \in PublishedForms' : f = g
    <2>1. jammed \/ halved \/ \A p \in Offices : office[p].at # "move"
      BY <1>2, <1>3 DEF OfficeTurns, Closed
    <2> QED
      BY <1>2, <1>3, <2>1 DEF GovernedInv, GovernanceFresh, PublishedForms
  <1> QED
    BY <1>3, <1>5, <1>6, <1>7, <1>8, <1>9, GovernedNext
\* Before the step of a request that has no published version in hand, the
\* template points at the last one.
LEMMA ActiveIsLast ==
  ASSUME GovernedInv, NEW o \in Offices, NEW step, OfficeTurns(o, step),
         office[o].at # "move"
  PROVE  jammed' \/ halved \/ template.active = lastPublished
  BY DEF OfficeTurns, Closed, GovernedInv, GovernanceFresh

LEMMA GiveUpStep ==
  ASSUME GovernedInv, NEW o \in Offices, GiveUp(o)
  PROVE  GovernedInv'
  <1>1. OfficeTurns(o, Closed)
    BY DEF GiveUp, OfficeTurns, GovernedInv, GovernanceTyped, GovernanceFresh,
           OneOffice
  <1>2. WorkHolds(Closed) /\ WorkIsFresh(Closed) /\ Closed.at # "move"
    BY DEF WorkHolds, WorkIsFresh, IsWork, Closed
  <1>3. /\ halved => halved' /\ halved' \in BOOLEAN
        /\ office[o].at = "move" => halved'
        /\ UNCHANGED <<requiresApproval, template, versions, asked, forms, governed,
                       lastPublished>>
    BY DEF GiveUp, GovernedInv, GovernanceTyped
  <1>4. jammed' \/ halved' \/ (/\ WorkIsFresh(Closed)
                              /\ office[o].at # "move" /\ Closed.at # "move")
    BY <1>2, <1>3
  <1>5. halved' \in BOOLEAN /\ (halved => halved')
    BY DEF GiveUp, GovernedInv, GovernanceTyped
  <1> QED
    BY <1>1, <1>2, <1>3, <1>4, <1>5, OfficeOnly

LEMMA ToggleSettingStep ==
  ASSUME GovernedInv, ToggleSetting
  PROVE  GovernedInv'
  <1>1. /\ requiresApproval' \in BOOLEAN
        /\ UNCHANGED <<template, versions, asked, forms, office, governed,
                       lastPublished, jammed, halved>>
    BY DEF ToggleSetting, rest, GovernedInv, GovernanceTyped
  <1> QED
    BY <1>1 DEF GovernedInv, GovernanceTyped, WorkHolds, Approved,
                GovernanceFresh, OneOffice, WorkIsFresh, PublishedForms

LEMMA CreateOrArchiveStep ==
  ASSUME GovernedInv, CreateOrArchive
  PROVE  GovernedInv'
  <1>1. /\ template' = [status |-> template'.status, active |-> template'.active]
        /\ template'.active = template.active
        /\ UNCHANGED <<requiresApproval, versions, asked, forms, office, governed,
                       lastPublished, jammed, halved>>
    BY DEF CreateOrArchive, rest, GovernedInv, GovernanceTyped
  <1> QED
    BY <1>1 DEF GovernedInv, GovernanceTyped, WorkHolds, Approved,
                GovernanceFresh, OneOffice, WorkIsFresh, PublishedForms

LEMMA LoadDraftStep ==
  ASSUME GovernedInv, NEW o \in Offices, NEW n \in VersionNumbers, NEW u \in Authors,
         NEW op \in {"edit", "publish"}, LoadDraft(o, op, n, u)
  PROVE  GovernedInv'
  <1>1. PICK step : step = [at |-> IF op = "edit" THEN "edit"
                                   ELSE IF requiresApproval THEN "stage" ELSE "flip",
                            number |-> n, by |-> u, asked |-> 0]
    OBVIOUS
  <1>2. /\ Admit(o, step)
        /\ UNCHANGED <<requiresApproval, template, versions, asked, forms, rest>>
    BY <1>1 DEF LoadDraft
  <1>3. step \in Drafting /\ step.at \in {"edit", "stage", "flip"} /\ step.asked = 0
    BY <1>1, GovernanceAssumption DEF Drafting
  <1>4. WorkHolds(step) /\ WorkIsFresh(step)
    BY <1>3 DEF WorkHolds, WorkIsFresh, IsWork
  <1> QED
    BY <1>2, <1>3, <1>4, AdmitTurns, OfficeOnly
       DEF rest, Closed, GovernedInv, GovernanceTyped

\* A step that ends a request, or goes on, with a change of the versions that
\* takes back no publication.
LEMMA EditVersionStep ==
  ASSUME GovernedInv, NEW o \in Offices, NEW x \in Contents, EditVersion(o, x)
  PROVE  GovernedInv'
  <1>1. PICK n : n = office[o].number
    OBVIOUS
  <1>2. /\ office[o].at = "edit"
        /\ versions' = [versions EXCEPT ![n].content = x]
        /\ Proceed(o, Closed)
        /\ UNCHANGED <<requiresApproval, template, asked, forms, governed, lastPublished>>
    BY <1>1 DEF EditVersion, rest
  <1>3. OfficeTurns(o, Closed) /\ UNCHANGED <<jammed, halved>>
    BY <1>2, ProceedTurns
  <1>4. \A m \in VersionNumbers : /\ IsVersion(versions'[m])
                                  /\ versions'[m].published = versions[m].published
    <2> TAKE m \in VersionNumbers
    <2>1. IsVersion(versions[m])
      BY DEF GovernedInv, GovernanceTyped
    <2>2. CASE m = n
      <3>1. versions'[m] = [versions[m] EXCEPT !.content = x]
        BY <1>2, <2>2 DEF GovernedInv, GovernanceTyped
      <3> QED
        BY <2>1, <3>1 DEF IsVersion
    <2>3. CASE m # n
      BY <1>2, <2>1, <2>3 DEF GovernedInv, GovernanceTyped
    <2> QED
      BY <2>2, <2>3
  <1>5. GovernanceTyped'
    BY <1>2, <1>3, <1>4 DEF GovernedInv, GovernanceTyped, OfficeTurns
  <1>6. WorkHolds(Closed)' /\ WorkIsFresh(Closed)' /\ RowsStay
    BY <1>2 DEF WorkHolds, WorkIsFresh, IsWork, Closed, RowsStay
  <1>7. \A m \in governed' : Approved(m)'
    BY <1>2 DEF GovernedInv, Approved
  <1>8. template.active' # 0 => versions'[template.active'].published
    BY <1>2, <1>4 DEF GovernedInv, GovernanceTyped, VersionNumbers
  <1>9. jammed' \/ halved' \/
          /\ template.active' = lastPublished'
          /\ \A f, g \in PublishedForms' : f = g
    BY <1>2, <1>3, ActiveIsLast DEF GovernedInv, GovernanceFresh,
                                    PublishedForms
  <1> QED
    BY <1>3, <1>5, <1>6, <1>7, <1>8, <1>9, GovernedNext

\* A version that a request publishes: either of the two ways to do it.
LEMMA PublishStep ==
  ASSUME GovernedInv, NEW o \in Offices, NEW step, NEW n \in VersionNumbers,
         OfficeTurns(o, step), UNCHANGED <<jammed, halved>>,
         step.at = "move", step.number = n, WorkHolds(step),
         DOMAIN versions' = VersionNumbers,
         \A m \in VersionNumbers : IsVersion(versions'[m]),
         versions'[n].published,
         \A m \in VersionNumbers : m # n => versions'[m] = versions[m],
         PublishGuard(n), Publishes(n),
         UNCHANGED <<requiresApproval, template, asked, forms>>
  PROVE  GovernedInv'
  <1>1. /\ governed' = IF requiresApproval THEN governed \cup {n} ELSE governed
        /\ lastPublished' = n
    BY DEF Publishes
  <1>2. GovernanceTyped'
    BY <1>1 DEF GovernedInv, GovernanceTyped, OfficeTurns
  <1>3. WorkHolds(step)' /\ WorkIsFresh(step)' /\ RowsStay
    BY <1>1 DEF WorkHolds, WorkIsFresh, RowsStay
  <1>4. \A m \in governed' : Approved(m)'
    BY <1>1 DEF GovernedInv, Approved, PublishGuard
  <1>5. template.active' # 0 => versions'[template.active'].published
    BY DEF GovernedInv, GovernanceTyped, VersionNumbers
  <1>6. jammed' \/ halved' \/ \A f, g \in PublishedForms' : f = g
    BY DEF GovernedInv, GovernanceFresh, PublishedForms
  <1> QED
    BY <1>2, <1>3, <1>4, <1>5, <1>6, GovernedNext

LEMMA FlipVersionStep ==
  ASSUME GovernedInv, NEW o \in Offices, FlipVersion(o)
  PROVE  GovernedInv'
  <1>1. PICK n, step : n = office[o].number /\ step = [office[o] EXCEPT !.at = "move"]
    OBVIOUS
  <1>2. /\ office[o].at = "flip" /\ PublishGuard(n) /\ Publishes(n)
        /\ versions' = [versions EXCEPT ![n].published = TRUE]
        /\ Proceed(o, step)
        /\ UNCHANGED <<requiresApproval, template, asked, forms>>
    BY <1>1 DEF FlipVersion
  <1>3. OfficeTurns(o, step) /\ UNCHANGED <<jammed, halved>>
    BY <1>2, ProceedTurns
  <1>4. WorkHolds(office[o])
    BY DEF GovernedInv
  <1>5. office[o] \in Drafting \cup Approving
    BY <1>2, <1>4 DEF WorkHolds, IsWork, Closed, Advancing, Forming
  <1>6. /\ n \in VersionNumbers
        /\ step \in Drafting \cup Approving
        /\ step.at = "move" /\ step.number = n /\ step.asked = office[o].asked
    BY <1>1, <1>5 DEF Drafting, Approving
  <1>7. WorkHolds(step)
    BY <1>2, <1>4, <1>6 DEF WorkHolds, IsWork
  <1>8. /\ DOMAIN versions' = VersionNumbers
        /\ \A m \in VersionNumbers : m # n => versions'[m] = versions[m]
        /\ versions'[n] = [versions[n] EXCEPT !.published = TRUE]
        /\ IsVersion(versions[n])
    BY <1>2, <1>6 DEF GovernedInv, GovernanceTyped
  <1>9. IsVersion(versions'[n]) /\ versions'[n].published
    BY <1>8 DEF IsVersion
  <1>10. \A m \in VersionNumbers : IsVersion(versions'[m])
    BY <1>8, <1>9 DEF GovernedInv, GovernanceTyped
  <1> QED
    BY <1>2, <1>3, <1>6, <1>7, <1>8, <1>9, <1>10, PublishStep

LEMMA PromoteVersionStep ==
  ASSUME GovernedInv, NEW o \in Offices, PromoteVersion(o)
  PROVE  GovernedInv'
  <1>1. PICK n, v, step : /\ n = office[o].number
                          /\ v = [published |-> TRUE, content |-> office[o].content]
                          /\ step = [office[o] EXCEPT !.at = "move"]
    OBVIOUS
  <1>2. /\ office[o].at \in {"promote", "insert_version"}
        /\ n \in VersionNumbers \ Existing /\ PublishGuard(n) /\ Publishes(n)
        /\ versions' = [versions EXCEPT ![n] = v]
        /\ Proceed(o, step)
        /\ UNCHANGED <<requiresApproval, template, asked, forms>>
    BY <1>1 DEF PromoteVersion
  <1>3. OfficeTurns(o, step) /\ UNCHANGED <<jammed, halved>>
    BY <1>2, ProceedTurns
  <1>4. WorkHolds(office[o])
    BY DEF GovernedInv
  <1>5. office[o] = [at |-> office[o].at, number |-> office[o].number,
                     content |-> office[o].content, asked |-> 0]
    BY <1>2, <1>4 DEF WorkHolds, IsWork, Closed, Drafting, Approving,
                      Advancing, Forming
  <1>6. step = [at |-> "move", number |-> n, content |-> office[o].content, asked |-> 0]
    BY <1>1, <1>5
  <1>7. WorkHolds(step)
    BY <1>2, <1>6 DEF WorkHolds, IsWork
  <1>8. /\ DOMAIN versions' = VersionNumbers
        /\ \A m \in VersionNumbers : m # n => versions'[m] = versions[m]
        /\ versions'[n] = v
    BY <1>2 DEF GovernedInv, GovernanceTyped
  <1>9. IsVersion(versions'[n]) /\ versions'[n].published
    BY <1>1, <1>8 DEF IsVersion
  <1>10. \A m \in VersionNumbers : IsVersion(versions'[m])
    BY <1>8, <1>9 DEF GovernedInv, GovernanceTyped
  <1> QED
    BY <1>2, <1>3, <1>6, <1>7, <1>8, <1>9, <1>10, PublishStep
LEMMA MoveTemplateStep ==
  ASSUME GovernedInv, NEW o \in Offices, MoveTemplate(o)
  PROVE  GovernedInv'
  <1>1. PICK n, step : /\ n = office[o].number
                       /\ step = IF office[o].asked = 0 THEN Closed
                                 ELSE [office[o] EXCEPT !.at = "stamp"]
    OBVIOUS
  <1>2. /\ office[o].at = "move" /\ versions[n].published
        /\ template' = [status |-> "published", active |-> n]
        /\ Proceed(o, step)
        /\ UNCHANGED <<requiresApproval, versions, asked, forms, governed,
                       lastPublished>>
    BY <1>1 DEF MoveTemplate, rest
  <1>3. OfficeTurns(o, step) /\ UNCHANGED <<jammed, halved>>
    BY <1>2, ProceedTurns
  <1>4. WorkHolds(office[o])
    BY DEF GovernedInv
  <1>5. n \in VersionNumbers
    BY <1>1, <1>2, <1>4 DEF WorkHolds, IsWork, Closed, Drafting, Approving,
                            Advancing, Forming
  <1>6. WorkHolds(step) /\ step.at \in {"closed", "stamp"}
    <2>1. CASE office[o].asked = 0
      BY <1>1, <2>1 DEF WorkHolds, IsWork, Closed
    <2>2. CASE office[o].asked # 0
      <3>1. office[o] \in Drafting \cup Approving
        BY <1>2, <1>4, <2>2 DEF WorkHolds, IsWork, Closed, Advancing, Forming
      <3>2. /\ step \in Drafting \cup Approving
            /\ step.at = "stamp" /\ step.asked = office[o].asked
        BY <1>1, <2>2, <3>1 DEF Drafting, Approving
      <3> QED
        BY <1>2, <1>4, <2>2, <3>2 DEF WorkHolds, IsWork
    <2> QED
      BY <2>1, <2>2
  <1>7. GovernanceTyped'
    BY <1>2, <1>3, <1>5 DEF GovernedInv, GovernanceTyped, OfficeTurns,
                            VersionNumbers
  <1>8. WorkHolds(step)' /\ WorkIsFresh(step)' /\ RowsStay
    BY <1>2, <1>6 DEF WorkHolds, WorkIsFresh, RowsStay
  <1>9. \A m \in governed' : Approved(m)'
    BY <1>2 DEF GovernedInv, Approved
  <1>10. template.active' # 0 => versions'[template.active'].published
    BY <1>2
  <1>11. jammed' \/ halved' \/
           /\ template.active' = lastPublished'
           /\ \A f, g \in PublishedForms' : f = g
    BY <1>1, <1>2, <1>3 DEF GovernedInv, GovernanceFresh, WorkIsFresh,
                            PublishedForms
  <1> QED
    BY <1>3, <1>7, <1>8, <1>9, <1>10, <1>11, GovernedNext

LEMMA AskStep ==
  ASSUME GovernedInv, NEW o \in Offices, Ask(o)
  PROVE  GovernedInv'
  <1>1. PICK r \in 1 .. MaxAsked :
          /\ asked[r] = Absent
          /\ asked' = [asked EXCEPT ![r] =
               [status |-> "draft", number |-> office[o].number,
                by |-> office[o].by, reviewer |-> "nobody"]]
          /\ Proceed(o, [office[o] EXCEPT !.at = "submit", !.asked = r])
    BY DEF Ask
  <1>2. PICK step : step = [office[o] EXCEPT !.at = "submit", !.asked = r]
    OBVIOUS
  <1>3. /\ office[o].at = "stage"
        /\ UNCHANGED <<requiresApproval, template, versions, forms, governed,
                       lastPublished>>
    BY DEF Ask, rest
  <1>4. OfficeTurns(o, step) /\ UNCHANGED <<jammed, halved>>
    BY <1>1, <1>2, <1>3, ProceedTurns
  <1>5. office[o] \in Drafting
    <2>1. WorkHolds(office[o])
      BY DEF GovernedInv
    <2> QED
      BY <1>3, <2>1 DEF WorkHolds, IsWork, Closed, Approving, Advancing,
                        Forming
  <1>6. step \in Drafting /\ step.at = "submit" /\ step.asked = r
    <2>1. step = [at |-> "submit", number |-> office[o].number, by |-> office[o].by,
                  asked |-> r]
      BY <1>2, <1>5 DEF Drafting
    <2> QED
      BY <1>5, <2>1, GovernanceAssumption DEF Drafting
  <1>7. PICK row : row = [status |-> "draft", number |-> office[o].number,
                          by |-> office[o].by, reviewer |-> "nobody"]
    OBVIOUS
  <1>8. row \in AskedRows /\ row # Absent /\ row.status = "draft"
    BY <1>5, <1>7 DEF AskedRows, Drafting, Absent
  <1>9. /\ asked' \in [1 .. MaxAsked -> AskedRows \cup {Absent}]
        /\ asked'[r] = row
        /\ \A q \in 1 .. MaxAsked : q # r => asked'[q] = asked[q]
    BY <1>1, <1>7, <1>8 DEF GovernedInv, GovernanceTyped
  <1>10. GovernanceTyped'
    BY <1>3, <1>4, <1>9 DEF GovernedInv, GovernanceTyped, OfficeTurns
  <1>11. WorkHolds(step)' /\ WorkIsFresh(step)' /\ RowsStay
    BY <1>1, <1>3, <1>6, <1>8, <1>9 DEF WorkHolds, WorkIsFresh, IsWork,
                                        RowsStay
  <1>12. \A m \in governed' : Approved(m)'
    BY <1>1, <1>3, <1>9 DEF GovernedInv, Approved, Absent
  <1>13. jammed' \/ halved' \/
           /\ template.active' = lastPublished'
           /\ \A f, g \in PublishedForms' : f = g
    BY <1>3, <1>4, ActiveIsLast DEF GovernedInv, GovernanceFresh,
                                    PublishedForms
  <1> QED
    BY <1>3, <1>4, <1>10, <1>11, <1>12, <1>13, GovernedNext DEF GovernedInv

\* A request moves along its graph; its author never becomes its reviewer.
LEMMA AdvanceKeeps ==
  ASSUME GovernedInv, NEW r \in 1 .. MaxAsked, asked[r] # Absent,
         NEW to \in {"pending_review", "approved", "rejected", "published"},
         NEW actor \in Authors, Advance(r, to, actor),
         to = "approved" => actor # asked[r].by
  PROVE  /\ asked' \in [1 .. MaxAsked -> AskedRows \cup {Absent}]
         /\ \A q \in 1 .. MaxAsked : asked[q] # Absent =>
              asked'[q] # Absent /\ asked'[q].by = asked[q].by
         /\ \A n \in VersionNumbers : Approved(n) => Approved(n)'
  <1>1. PICK reviewer : reviewer = IF to \in {"approved", "rejected"} THEN actor
                                   ELSE asked[r].reviewer
    OBVIOUS
  <1>2. PICK row : row = [asked[r] EXCEPT !.status = to, !.reviewer = reviewer]
    OBVIOUS
  <1>3. asked[r] \in AskedRows
    BY DEF GovernedInv, GovernanceTyped
  <1>4. /\ row \in AskedRows
        /\ row.status = to /\ row.reviewer = reviewer
        /\ row.by = asked[r].by /\ row.number = asked[r].number
    BY <1>1, <1>2, <1>3 DEF AskedRows
  <1>5. row # Absent
    BY <1>4 DEF Absent
  <1>6. asked' = [asked EXCEPT ![r] = row]
    BY <1>1, <1>2 DEF Advance, GovernedInv, GovernanceTyped
  <1>7. /\ asked' \in [1 .. MaxAsked -> AskedRows \cup {Absent}]
        /\ asked'[r] = row
        /\ \A q \in 1 .. MaxAsked : q # r => asked'[q] = asked[q]
    BY <1>4, <1>6 DEF GovernedInv, GovernanceTyped
  <1>8. TransitionGuard(asked[r], to, reviewer)
    BY <1>1 DEF Advance
  <1>9. asked[r].status \in {"approved", "published"} /\ asked[r].reviewer # asked[r].by
          => row.status \in {"approved", "published"} /\ row.reviewer # row.by
    BY <1>1, <1>4, <1>8 DEF TransitionGuard, Advances
  <1>10. ASSUME NEW n \in VersionNumbers, Approved(n) PROVE Approved(n)'
    <2>1. PICK q \in 1 .. MaxAsked :
            /\ asked[q].status \in {"approved", "published"}
            /\ asked[q].number = n /\ asked[q].reviewer # asked[q].by
      BY <1>10 DEF Approved
    <2>2. /\ asked'[q].status \in {"approved", "published"}
          /\ asked'[q].number = n /\ asked'[q].reviewer # asked'[q].by
      BY <1>4, <1>7, <1>9, <2>1
    <2> QED
      BY <2>2 DEF Approved
  <1> QED
    BY <1>4, <1>5, <1>7, <1>10

\* A request that moves a change request on.
LEMMA AdvancingStep ==
  ASSUME GovernedInv, NEW o \in Offices, NEW step, NEW r \in 1 .. MaxAsked,
         asked[r] # Absent,
         NEW to \in {"pending_review", "approved", "rejected", "published"},
         NEW actor \in Authors, Advance(r, to, actor),
         to = "approved" => actor # asked[r].by,
         office[o].at \notin {"move", "closed"}, Proceed(o, step),
         step = Closed \/ (step.at = "flip" /\ WorkHolds(step)),
         UNCHANGED <<requiresApproval, template, versions, forms, governed,
                     lastPublished>>
  PROVE  GovernedInv'
  <1>1. OfficeTurns(o, step) /\ UNCHANGED <<jammed, halved>>
    BY ProceedTurns
  <1>2. /\ asked' \in [1 .. MaxAsked -> AskedRows \cup {Absent}]
        /\ \A q \in 1 .. MaxAsked : asked[q] # Absent =>
             asked'[q] # Absent /\ asked'[q].by = asked[q].by
        /\ \A n \in VersionNumbers : Approved(n) => Approved(n)'
    BY AdvanceKeeps
  <1>3. GovernanceTyped'
    BY <1>1, <1>2 DEF GovernedInv, GovernanceTyped, OfficeTurns
  <1>4. WorkHolds(step)' /\ WorkIsFresh(step)' /\ RowsStay
    <2>1. WorkHolds(Closed)' /\ Closed.at = "closed"
      BY DEF WorkHolds, IsWork, Closed
    <2>2. step.at = "flip" /\ WorkHolds(step) => WorkHolds(step)'
      BY <1>2 DEF WorkHolds
    <2> QED
      BY <1>2, <2>1, <2>2 DEF WorkIsFresh, RowsStay
  <1>5. \A n \in governed' : Approved(n)'
    BY <1>2 DEF GovernedInv, GovernanceTyped
  <1>6. jammed' \/ halved' \/
          /\ template.active' = lastPublished'
          /\ \A f, g \in PublishedForms' : f = g
    BY <1>1, ActiveIsLast DEF GovernedInv, GovernanceFresh, PublishedForms
  <1> QED
    BY <1>1, <1>3, <1>4, <1>5, <1>6, GovernedNext DEF GovernedInv

LEMMA SubmitAskedStep ==
  ASSUME GovernedInv, NEW o \in Offices, SubmitAsked(o)
  PROVE  GovernedInv'
  <1>1. WorkHolds(office[o]) /\ office[o].at = "submit"
    BY DEF GovernedInv, SubmitAsked
  <1>2. office[o] \in Drafting
    BY <1>1 DEF WorkHolds, IsWork, Closed, Approving, Advancing, Forming
  <1>3. office[o].by \in Authors
    BY <1>2 DEF Drafting
  <1> QED
    BY <1>1, <1>3, AdvancingStep DEF SubmitAsked, WorkHolds, rest

LEMMA LoadAskedStep ==
  ASSUME GovernedInv, NEW o \in Offices, NEW r \in 1 .. MaxAsked, NEW actor \in Authors,
         NEW to \in {"pending_review", "approved", "rejected", "published"},
         LoadAsked(o, r, to, actor)
  PROVE  GovernedInv'
  <1>1. PICK step : step = [at |-> "advance", asked |-> r, to |-> to, by |-> actor]
    OBVIOUS
  <1>2. /\ asked[r] # Absent /\ CanAdvance(asked[r], to, actor) /\ Admit(o, step)
        /\ UNCHANGED <<requiresApproval, template, versions, asked, forms, rest>>
    BY <1>1 DEF LoadAsked
  <1>3. /\ WorkHolds(step) /\ WorkIsFresh(step) /\ step.at = "advance"
    BY <1>1, <1>2 DEF WorkHolds, WorkIsFresh, IsWork, Advancing, CanAdvance
  <1> QED
    BY <1>2, <1>3, AdmitTurns, OfficeOnly
       DEF rest, Closed, GovernedInv, GovernanceTyped

LEMMA AdvanceAskedStep ==
  ASSUME GovernedInv, NEW o \in Offices, AdvanceAsked(o)
  PROVE  GovernedInv'
  <1>1. WorkHolds(office[o]) /\ office[o].at = "advance"
    BY DEF GovernedInv, AdvanceAsked
  <1>2. office[o] \in Advancing
    BY <1>1 DEF WorkHolds, IsWork, Closed, Drafting, Approving, Forming
  <1>3. office[o].by \in Authors /\ office[o].to \in
          {"pending_review", "approved", "rejected", "published"}
    BY <1>2 DEF Advancing
  <1> QED
    BY <1>1, <1>3, AdvancingStep DEF AdvanceAsked, WorkHolds, rest

LEMMA LoadPendingStep ==
  ASSUME GovernedInv, NEW o \in Offices, NEW n \in VersionNumbers,
         NEW actor \in Authors, LoadPending(o, n, actor)
  PROVE  GovernedInv'
  <1>1. PICK r : r = Max(Pending(n))
    OBVIOUS
  <1>2. PICK step : step = [at |-> "approve", number |-> n, by |-> actor,
                            asked |-> r, published |-> versions[n].published]
    OBVIOUS
  <1>3. /\ Pending(n) # {} /\ CanAdvance(asked[r], "approved", actor)
        /\ Admit(o, step)
        /\ UNCHANGED <<requiresApproval, template, versions, asked, forms, rest>>
    BY <1>1, <1>2 DEF LoadPending
  <1>4. r \in Pending(n)
    <2>1. Pending(n) \in SUBSET (0 .. MaxAsked)
      BY GovernanceAssumption DEF Pending
    <2> QED
      BY <1>1, <1>3, <2>1, GovernanceAssumption, GreatestNumber
  <1>5. r \in 1 .. MaxAsked /\ asked[r] # Absent
    BY <1>4 DEF Pending, Absent
  <1>6. versions[n].published \in BOOLEAN
    BY DEF GovernedInv, GovernanceTyped, IsVersion
  <1>7. WorkHolds(step) /\ WorkIsFresh(step) /\ step.at = "approve"
    BY <1>2, <1>3, <1>5, <1>6 DEF WorkHolds, WorkIsFresh, IsWork, Approving,
                                  CanAdvance
  <1> QED
    BY <1>3, <1>7, AdmitTurns, OfficeOnly
       DEF rest, Closed, GovernedInv, GovernanceTyped

LEMMA ApproveAskedStep ==
  ASSUME GovernedInv, NEW o \in Offices, ApproveAsked(o)
  PROVE  GovernedInv'
  <1>1. WorkHolds(office[o]) /\ office[o].at = "approve"
    BY DEF GovernedInv, ApproveAsked
  <1>2. office[o] \in Approving
    BY <1>1 DEF WorkHolds, IsWork, Closed, Drafting, Advancing, Forming
  <1>3. PICK step : step = IF office[o].published THEN Closed
                           ELSE [office[o] EXCEPT !.at = "flip"]
    OBVIOUS
  <1>4. step = Closed \/ (step.at = "flip" /\ WorkHolds(step))
    <2>1. CASE ~ office[o].published
      <3>1. step \in Approving /\ step.at = "flip" /\ step.asked = office[o].asked
        BY <1>2, <1>3, <2>1 DEF Approving
      <3> QED
        BY <1>1, <3>1 DEF WorkHolds, IsWork
    <2> QED
      BY <1>3, <2>1
  <1>5. office[o].by \in Authors
    BY <1>2 DEF Approving
  <1> QED
    BY <1>1, <1>3, <1>4, <1>5, AdvancingStep DEF ApproveAsked, WorkHolds, rest

LEMMA StampAskedStep ==
  ASSUME GovernedInv, NEW o \in Offices, StampAsked(o)
  PROVE  GovernedInv'
  <1>1. WorkHolds(office[o]) /\ office[o].at = "stamp"
    BY DEF GovernedInv, StampAsked
  <1>2. office[o].by \in Authors
    BY <1>1 DEF WorkHolds, IsWork, Closed, Drafting, Approving, Advancing,
                Forming
  <1> QED
    BY <1>1, <1>2, AdvancingStep DEF StampAsked, WorkHolds, rest
LEMMA CreateFormReadStep ==
  ASSUME GovernedInv, NEW o \in Offices, NEW f \in Forms, NEW x \in Contents,
         CreateFormRead(o, f, x)
  PROVE  GovernedInv'
  <1>1. PICK step : step = [at |-> "form", form |-> f, content |-> x,
                            number |-> Max(FormNumbers \cup {0}) + 1]
    OBVIOUS
  <1>2. /\ Admit(o, step)
        /\ UNCHANGED <<requiresApproval, template, versions, asked, forms, rest>>
    BY <1>1 DEF CreateFormRead
  <1>3. WorkHolds(step) /\ WorkIsFresh(step) /\ step.at = "form"
    BY <1>1 DEF WorkHolds, WorkIsFresh, IsWork
  <1> QED
    BY <1>2, <1>3, AdmitTurns, OfficeOnly
       DEF rest, Closed, GovernedInv, GovernanceTyped

LEMMA LoadFormStep ==
  ASSUME GovernedInv, NEW o \in Offices, NEW f \in Forms,
         NEW op \in {"edit_form", "publish_form"}, LoadForm(o, f, op)
  PROVE  GovernedInv'
  <1>1. PICK step : step = [at |-> op, form |-> f, others |-> PublishedForms]
    OBVIOUS
  <1>2. /\ forms[f].status = "draft" /\ Admit(o, step)
        /\ UNCHANGED <<requiresApproval, template, versions, asked, forms, rest>>
    BY <1>1 DEF LoadForm, PublishedForms
  <1>3. step \in Forming /\ step.at = op /\ step.others = PublishedForms
    BY <1>1 DEF Forming, PublishedForms
  <1>4. forms[f] # Absent /\ \A g \in PublishedForms : forms[g] # Absent
    BY <1>2 DEF Absent, PublishedForms
  <1>5. WorkHolds(step) /\ WorkIsFresh(step)
    BY <1>1, <1>3, <1>4 DEF WorkHolds, WorkIsFresh, IsWork
  <1> QED
    BY <1>2, <1>3, <1>5, AdmitTurns, OfficeOnly
       DEF rest, Closed, GovernedInv, GovernanceTyped

LEMMA PromoteLoadStep ==
  ASSUME GovernedInv, NEW o \in Offices, NEW f \in Forms, PromoteLoad(o, f)
  PROVE  GovernedInv'
  <1>1. PICK step : step = [at |-> IF template.status = "none" THEN "insert_template"
                                   ELSE "promote",
                            number |-> NextTemplateVersion,
                            content |-> forms[f].content, asked |-> 0]
    OBVIOUS
  <1>2. /\ Admit(o, step)
        /\ UNCHANGED <<requiresApproval, template, versions, asked, forms, rest>>
    BY <1>1 DEF PromoteLoad
  <1>3. /\ step = [at |-> step.at, number |-> step.number, content |-> step.content,
                   asked |-> 0]
        /\ step.at \in {"insert_template", "promote"}
    BY <1>1
  <1>4. WorkHolds(step) /\ WorkIsFresh(step)
    BY <1>3 DEF WorkHolds, WorkIsFresh, IsWork
  <1> QED
    BY <1>2, <1>3, <1>4, AdmitTurns, OfficeOnly
       DEF rest, Closed, GovernedInv, GovernanceTyped

LEMMA PromoteTemplateStep ==
  ASSUME GovernedInv, NEW o \in Offices, PromoteTemplate(o)
  PROVE  GovernedInv'
  <1>1. PICK step : step = [office[o] EXCEPT !.at = "insert_version"]
    OBVIOUS
  <1>2. /\ office[o].at = "insert_template"
        /\ template' = [template EXCEPT !.status = "draft"]
        /\ Proceed(o, step)
        /\ UNCHANGED <<requiresApproval, versions, asked, forms, governed,
                       lastPublished>>
    BY <1>1 DEF PromoteTemplate, rest
  <1>3. OfficeTurns(o, step) /\ UNCHANGED <<jammed, halved>>
    BY <1>2, ProceedTurns
  <1>4. WorkHolds(office[o])
    BY DEF GovernedInv
  <1>5. office[o] = [at |-> "insert_template", number |-> office[o].number,
                     content |-> office[o].content, asked |-> 0]
    BY <1>2, <1>4 DEF WorkHolds, IsWork, Closed, Drafting, Approving,
                      Advancing, Forming
  <1>6. step = [at |-> "insert_version", number |-> step.number,
                content |-> step.content, asked |-> 0]
    BY <1>1, <1>5
  <1>7. WorkHolds(step)' /\ WorkIsFresh(step)' /\ RowsStay
    BY <1>2, <1>6 DEF WorkHolds, WorkIsFresh, IsWork, RowsStay
  <1>8. /\ template' = [status |-> template'.status, active |-> template'.active]
        /\ template'.active = template.active
    BY <1>2 DEF GovernedInv, GovernanceTyped
  <1>9. GovernanceTyped'
    BY <1>2, <1>3, <1>8 DEF GovernedInv, GovernanceTyped, OfficeTurns
  <1>10. \A m \in governed' : Approved(m)'
    BY <1>2 DEF GovernedInv, Approved
  <1>11. jammed' \/ halved' \/
           /\ template.active' = lastPublished'
           /\ \A f, g \in PublishedForms' : f = g
    BY <1>2, <1>3, <1>8, ActiveIsLast DEF GovernedInv, GovernanceFresh,
                                          PublishedForms
  <1> QED
    BY <1>2, <1>3, <1>7, <1>8, <1>9, <1>10, <1>11, GovernedNext DEF GovernedInv

\* A request that writes one form, and ends or goes on with others to retire.
LEMMA FormWriteStep ==
  ASSUME GovernedInv, NEW o \in Offices, NEW step, Proceed(o, step),
         office[o].at \in {"form", "edit_form", "publish_form", "supersede"},
         step.at \in {"closed", "supersede"}, WorkHolds(step)',
         DOMAIN forms' = Forms, \A f \in Forms : forms'[f] = Absent \/ IsForm(forms'[f]),
         \A f \in Forms : forms[f] # Absent => forms'[f] # Absent,
         jammed \/ halved \/
           /\ step.at = "supersede" => step.others = PublishedForms'
           /\ \A f, g \in PublishedForms' : f = g,
         UNCHANGED <<requiresApproval, template, versions, asked, governed,
                     lastPublished>>
  PROVE  GovernedInv'
  <1>1. OfficeTurns(o, step) /\ UNCHANGED <<jammed, halved>>
    BY ProceedTurns
  <1>2. GovernanceTyped'
    BY <1>1 DEF GovernedInv, GovernanceTyped, OfficeTurns
  <1>3. RowsStay
    BY DEF RowsStay
  <1>4. \A m \in governed' : Approved(m)'
    BY DEF GovernedInv, Approved
  <1>5. jammed' \/ halved' \/
          /\ WorkIsFresh(step)'
          /\ template.active' = lastPublished'
          /\ \A f, g \in PublishedForms' : f = g
    BY <1>1, ActiveIsLast DEF WorkIsFresh
  <1> QED
    BY <1>1, <1>2, <1>3, <1>4, <1>5, GovernedNext DEF GovernedInv

LEMMA ClosedHolds == WorkHolds(Closed)' /\ Closed.at = "closed"
  BY DEF WorkHolds, IsWork, Closed

LEMMA CreateFormInsertStep ==
  ASSUME GovernedInv, NEW o \in Offices, CreateFormInsert(o)
  PROVE  GovernedInv'
  <1>1. PICK f, row : /\ f = office[o].form
                      /\ row = [status |-> "draft", number |-> office[o].number,
                                content |-> office[o].content]
    OBVIOUS
  <1>2. /\ office[o].at = "form" /\ forms[f] = Absent
        /\ forms' = [forms EXCEPT ![f] = row]
        /\ Proceed(o, Closed)
        /\ UNCHANGED <<requiresApproval, template, versions, asked, governed,
                       lastPublished>>
    BY <1>1 DEF CreateFormInsert, rest
  <1>3. f \in Forms
    <2>1. WorkHolds(office[o])
      BY DEF GovernedInv
    <2> QED
      BY <1>1, <1>2, <2>1 DEF WorkHolds, IsWork, Closed, Drafting, Approving,
                              Advancing, Forming
  <1>4. /\ DOMAIN forms' = Forms
        /\ forms'[f] = row /\ \A g \in Forms : g # f => forms'[g] = forms[g]
    BY <1>2, <1>3 DEF GovernedInv, GovernanceTyped
  <1>5. IsForm(row) /\ row.status = "draft" /\ row # Absent
    BY <1>1 DEF IsForm, Absent
  <1>6. \A g \in Forms : forms'[g] = Absent \/ IsForm(forms'[g])
    BY <1>4, <1>5 DEF GovernedInv, GovernanceTyped
  <1>7. PublishedForms' = PublishedForms
    BY <1>2, <1>4, <1>5 DEF PublishedForms, Absent
  <1> QED
    BY <1>2, <1>4, <1>5, <1>6, <1>7, ClosedHolds, FormWriteStep
       DEF GovernedInv, GovernanceFresh

\* A form whose content, or whose status, is written.
LEMMA FormColumns ==
  ASSUME GovernedInv, NEW f \in Forms, forms[f] # Absent, NEW row,
         forms' = [forms EXCEPT ![f] = row],
         \/ \E x : row = [forms[f] EXCEPT !.content = x]
         \/ \E s : s # "none" /\ row = [forms[f] EXCEPT !.status = s]
  PROVE  /\ DOMAIN forms' = Forms
         /\ \A g \in Forms : forms'[g] = Absent \/ IsForm(forms'[g])
         /\ \A g \in Forms : forms[g] # Absent => forms'[g] # Absent
         /\ forms'[f] = row /\ \A g \in Forms : g # f => forms'[g] = forms[g]
  <1>1. IsForm(forms[f])
    BY DEF GovernedInv, GovernanceTyped
  <1>2. IsForm(row)
    BY <1>1 DEF IsForm
  <1>3. row # Absent
    <2>1. DOMAIN row = {"status", "number", "content"}
      BY <1>2 DEF IsForm
    <2>2. DOMAIN Absent = {"status"}
      BY DEF Absent
    <2> QED
      BY <2>1, <2>2
  <1> QED
    BY <1>2, <1>3 DEF GovernedInv, GovernanceTyped

\* What a request that works on a form holds.
LEMMA FormingHolds ==
  ASSUME GovernedInv, NEW o \in Offices,
         office[o].at \in {"edit_form", "publish_form", "supersede"}
  PROVE  /\ office[o] \in Forming
         /\ forms[office[o].form] # Absent
         /\ \A g \in office[o].others : forms[g] # Absent
  <1>1. WorkHolds(office[o])
    BY DEF GovernedInv
  <1> QED
    BY <1>1 DEF WorkHolds, IsWork, Closed, Drafting, Approving, Advancing

LEMMA EditFormStep ==
  ASSUME GovernedInv, NEW o \in Offices, NEW x \in Contents, EditForm(o, x)
  PROVE  GovernedInv'
  <1>1. PICK f, row : f = office[o].form /\ row = [forms[f] EXCEPT !.content = x]
    OBVIOUS
  <1>2. /\ office[o].at = "edit_form"
        /\ forms' = [forms EXCEPT ![f] = row]
        /\ Proceed(o, Closed)
        /\ UNCHANGED <<requiresApproval, template, versions, asked, governed,
                       lastPublished>>
    BY <1>1 DEF EditForm, rest
  <1>3. f \in Forms /\ forms[f] # Absent
    BY <1>1, <1>2, FormingHolds DEF Forming
  <1>4. /\ DOMAIN forms' = Forms
        /\ \A g \in Forms : forms'[g] = Absent \/ IsForm(forms'[g])
        /\ \A g \in Forms : forms[g] # Absent => forms'[g] # Absent
        /\ forms'[f] = row /\ \A g \in Forms : g # f => forms'[g] = forms[g]
    BY <1>1, <1>2, <1>3, FormColumns
  <1>5. row.status = forms[f].status
    BY <1>1, <1>3 DEF GovernedInv, GovernanceTyped, IsForm
  <1>6. PublishedForms' = PublishedForms
    BY <1>4, <1>5 DEF PublishedForms
  <1> QED
    BY <1>2, <1>4, <1>6, ClosedHolds, FormWriteStep
       DEF GovernedInv, GovernanceFresh

LEMMA RetireOtherStep ==
  ASSUME GovernedInv, NEW o \in Offices, NEW f \in Forms, RetireOther(o, f)
  PROVE  GovernedInv'
  <1>1. PICK row, step :
          /\ row = [forms[f] EXCEPT !.status = "retired"]
          /\ step = [office[o] EXCEPT !.at = "supersede", !.others = @ \ {f}]
    OBVIOUS
  <1>2. /\ office[o].at \in {"publish_form", "supersede"} /\ f \in office[o].others
        /\ forms' = [forms EXCEPT ![f] = row]
        /\ Proceed(o, step)
        /\ UNCHANGED <<requiresApproval, template, versions, asked, governed,
                       lastPublished>>
    BY <1>1 DEF RetireOther, rest
  <1>3. /\ office[o] \in Forming
        /\ forms[office[o].form] # Absent
        /\ \A g \in office[o].others : forms[g] # Absent
    BY <1>2, FormingHolds
  <1>4. /\ DOMAIN forms' = Forms
        /\ \A g \in Forms : forms'[g] = Absent \/ IsForm(forms'[g])
        /\ \A g \in Forms : forms[g] # Absent => forms'[g] # Absent
        /\ forms'[f] = row /\ \A g \in Forms : g # f => forms'[g] = forms[g]
    BY <1>1, <1>2, <1>3, FormColumns
  <1>5. /\ step \in Forming /\ step.at = "supersede"
        /\ step.others = office[o].others \ {f} /\ step.form = office[o].form
    <2>1. step = [at |-> "supersede", form |-> office[o].form,
                  others |-> office[o].others \ {f}]
      BY <1>1, <1>3 DEF Forming
    <2> QED
      BY <1>3, <2>1 DEF Forming
  <1>6. WorkHolds(step)'
    BY <1>3, <1>4, <1>5 DEF WorkHolds, IsWork, Forming
  <1>7. row.status = "retired"
    BY <1>1, <1>2, <1>3 DEF GovernedInv, GovernanceTyped, IsForm
  <1>8. PublishedForms' = PublishedForms \ {f}
    BY <1>4, <1>7 DEF PublishedForms
  <1>9. jammed \/ halved \/ office[o].others = PublishedForms
    BY <1>2 DEF GovernedInv, GovernanceFresh, WorkIsFresh
  <1> QED
    BY <1>2, <1>4, <1>5, <1>6, <1>8, <1>9, FormWriteStep
       DEF GovernedInv, GovernanceFresh

LEMMA PublishFormStep ==
  ASSUME GovernedInv, NEW o \in Offices, PublishForm(o)
  PROVE  GovernedInv'
  <1>1. PICK f, row : /\ f = office[o].form
                      /\ row = [forms[f] EXCEPT !.status = "published"]
    OBVIOUS
  <1>2. /\ office[o].at \in {"publish_form", "supersede"} /\ office[o].others = {}
        /\ forms' = [forms EXCEPT ![f] = row]
        /\ Proceed(o, Closed)
        /\ UNCHANGED <<requiresApproval, template, versions, asked, governed,
                       lastPublished>>
    BY <1>1 DEF PublishForm, rest
  <1>3. f \in Forms /\ forms[f] # Absent
    BY <1>1, <1>2, FormingHolds DEF Forming
  <1>4. /\ DOMAIN forms' = Forms
        /\ \A g \in Forms : forms'[g] = Absent \/ IsForm(forms'[g])
        /\ \A g \in Forms : forms[g] # Absent => forms'[g] # Absent
        /\ forms'[f] = row /\ \A g \in Forms : g # f => forms'[g] = forms[g]
    BY <1>1, <1>2, <1>3, FormColumns
  <1>5. jammed \/ halved \/ PublishedForms = {}
    BY <1>2 DEF GovernedInv, GovernanceFresh, WorkIsFresh
  <1>6. jammed \/ halved \/ \A g, h \in PublishedForms' : g = h
    BY <1>4, <1>5 DEF PublishedForms
  <1> QED
    BY <1>2, <1>4, <1>6, ClosedHolds, FormWriteStep
LEMMA GovernedInit == GovernanceInit => GovernedInv
  <1> SUFFICES ASSUME GovernanceInit PROVE GovernedInv
    OBVIOUS
  <1>1. PICK n \in {0, 1}, x \in Contents :
          /\ template = [status |-> IF n = 0 THEN "none" ELSE "draft", active |-> 0]
          /\ versions = [v \in VersionNumbers |->
               IF v <= n THEN [published |-> FALSE, content |-> x] ELSE NoVersion]
    BY DEF GovernanceInit
  <1>2. \A v \in VersionNumbers : IsVersion(versions[v])
    BY <1>1 DEF IsVersion, NoVersion
  <1>3. \A o \in Offices : office[o] = Closed
    BY DEF GovernanceInit
  <1>4. WorkHolds(Closed) /\ Closed.at = "closed"
    BY DEF WorkHolds, IsWork, Closed
  <1>5. template.active = 0
        /\ template = [status |-> template.status, active |-> template.active]
    BY <1>1
  <1>6. 0 \in 0 .. MaxVersions
    BY GovernanceAssumption
  <1>7. GovernanceTyped
    BY <1>1, <1>2, <1>5, <1>6 DEF GovernanceInit, GovernanceTyped
  <1>8. PublishedForms = {}
    BY DEF GovernanceInit, PublishedForms, Absent
  <1>9. GovernanceFresh
    BY <1>3, <1>4, <1>5, <1>8 DEF GovernanceInit, GovernanceFresh, OneOffice,
                                  WorkIsFresh
  <1> QED
    BY <1>3, <1>4, <1>5, <1>7, <1>9 DEF GovernanceInit, GovernedInv

LEMMA GovernedStep == GovernedInv /\ [GovernanceNext]_governanceVars => GovernedInv'
  <1> SUFFICES ASSUME GovernedInv, [GovernanceNext]_governanceVars PROVE GovernedInv'
    OBVIOUS
  <1>1. ASSUME NEW o \in Offices, VersionRoutes(o) PROVE GovernedInv'
    BY <1>1, AddVersionReadStep, EditVersionStep, LoadDraftStep,
       LoadPendingStep, AddVersionInsertStep, FlipVersionStep,
       MoveTemplateStep
       DEF VersionRoutes
  <1>2. ASSUME NEW o \in Offices, RequestRoutes(o) PROVE GovernedInv'
    BY <1>2, AskStep, SubmitAskedStep, ApproveAskedStep, StampAskedStep,
       LoadAskedStep, AdvanceAskedStep
       DEF RequestRoutes
  <1>3. ASSUME NEW o \in Offices, FormRoutes(o) PROVE GovernedInv'
    BY <1>3, CreateFormReadStep, LoadFormStep, PromoteLoadStep,
       RetireOtherStep, EditFormStep, CreateFormInsertStep, PublishFormStep,
       PromoteTemplateStep, PromoteVersionStep
       DEF FormRoutes
  <1>4. CASE UNCHANGED governanceVars
    BY <1>4 DEF governanceVars, GovernedInv, GovernanceTyped, WorkHolds,
                Approved, GovernanceFresh, OneOffice, WorkIsFresh,
                PublishedForms
  <1> QED
    BY <1>1, <1>2, <1>3, <1>4, ToggleSettingStep, CreateOrArchiveStep,
       GiveUpStep
       DEF GovernanceNext

LEMMA GovernedIsRight == GovernedInv => GovernanceInv
  <1> SUFFICES ASSUME GovernedInv PROVE GovernanceInv
    OBVIOUS
  <1>1. TwoPersonRule
    BY DEF GovernedInv, TwoPersonRule, Approved
  <1>2. PublishedIsActive
    <2>1. CASE jammed \/ halved
      BY <2>1 DEF PublishedIsActive
    <2>2. CASE GovernanceFresh
      <3>1. Cardinality(PublishedForms) \in {0, 1}
        <4>1. CASE PublishedForms = {}
          BY <4>1, FS_EmptySet
        <4>2. CASE PublishedForms # {}
          <5>1. PICK f \in PublishedForms : TRUE
            BY <4>2
          <5>2. \A g \in PublishedForms : g = f
            BY <2>2, <5>1 DEF GovernanceFresh
          <5>3. PublishedForms = {f}
            BY <5>1, <5>2
          <5> QED
            BY <5>3, FS_Singleton
        <4> QED
          BY <4>1, <4>2
      <3> QED
        BY <2>2, <3>1 DEF GovernanceFresh, PublishedIsActive, PublishedForms
    <2> QED
      BY <2>1, <2>2 DEF GovernedInv
  <1> QED
    BY <1>1, <1>2 DEF GovernanceInv
-----------------------------------------------------------------------------
\* Of the moves of the services, those of one component.

LEMMA ServicesBegin ==
  ServicesInit => /\ SessionsInit /\ ThrottleInit /\ KeyCacheInit /\ GovernanceInit
                  /\ AuditChainInit /\ AttachmentsInit /\ ReportFieldsInit
                  /\ ReportFormInit /\ RecordPanelsInit /\ FacilityListsInit
  BY DEF ServicesInit

LEMMA ServicesMove ==
  [ServicesNext]_servicesVars =>
    /\ [SessionsNext]_sessionVars
    /\ [ThrottleNext]_throttleVars
    /\ [KeyCacheNext]_keyVars
    /\ [GovernanceNext]_governanceVars
    /\ [AuditChainNext]_auditChainVars
    /\ [AttachmentsNext]_attachmentVars
    /\ [ReportFieldsNext]_fieldVars
    /\ [ReportFormNext]_formVars
    /\ [RecordPanelsNext]_panelVars
    /\ [FacilityListsNext]_listsVars
  BY DEF ServicesNext, Serves, servicesVars

-----------------------------------------------------------------------------
\* Where two persons are asked for, no version is published but those a second
\* one approved; and the template that is active, and the form that is
\* published, are the last ones, unless requests have overlapped or one has
\* ended between its writes (report-templates-routes.mjs, workflow-routes.mjs,
\* forms-routes.mjs and change-requests.mjs, over three tables).
THEOREM GovernanceIsKept == ServicesSpec => []GovernanceInv
  <1>1. ServicesInit => GovernedInv
    BY ServicesBegin, GovernedInit
  <1>2. GovernedInv /\ [ServicesNext]_servicesVars => GovernedInv'
    BY ServicesMove, GovernedStep
  <1> QED
    BY <1>1, <1>2, GovernedIsRight, PTL DEF ServicesSpec
-----------------------------------------------------------------------------
\* The cache of signing keys.

CachedKeys == [keys : SUBSET KeyIds, failed : BOOLEAN, at : Nat]
Awaiting   == [token : Tokens, began : Nat, at : {"waiting"}]

\* Whoever waits began while the fetch he waits for was under way; the cache is
\* as young as the last fetch.
KeysInv ==
  /\ time \in Nat
  /\ publishes \subseteq KeyIds
  /\ cache = NoCache \/ (cache \in CachedKeys /\ cache.at <= time)
  /\ DOMAIN verifies = Verifications
  /\ \A v \in Waiting : verifies[v] \in Awaiting /\ verifies[v].began <= time
  /\ fetching = NoCache => Waiting = {}
  /\ fetching # NoCache =>
       /\ fetching = lastFetch /\ lastFetch \in Nat /\ lastFetch <= time
       /\ Waiting # {}
       /\ \A v \in Waiting : verifies[v].began >= lastFetch
  /\ fetching = NoCache /\ lastFetch # NoCache =>
       lastFetch \in Nat /\ cache # NoCache /\ cache.at >= lastFetch

LEMMA NoCacheIsNeither == NoCache \notin Nat /\ NoCache \notin CachedKeys
  BY KeyCacheAssumption DEF CachedKeys, KeyIds

LEMMA KeysInit == KeyCacheInit => KeysInv
  <1> SUFFICES ASSUME KeyCacheInit PROVE KeysInv
    OBVIOUS
  <1>1. Waiting = {}
    BY DEF KeyCacheInit, Waiting
  <1> QED
    BY <1>1, KeyCacheAssumption DEF KeyCacheInit, KeysInv, KeyIds

\* The last of those who wait came after the fetch began.
LEMMA LastToCome ==
  ASSUME KeysInv, Waiting # {},
         NEW t, t = CHOOSE u \in {verifies[v].began : v \in Waiting} :
                      \A v \in Waiting : u >= verifies[v].began
  PROVE  t \in {verifies[v].began : v \in Waiting}
  <1> DEFINE S == {verifies[v].began : v \in Waiting}
  <1>1. S \in SUBSET (0 .. time) /\ S # {} /\ time \in Nat
    BY DEF KeysInv, Awaiting
  <1>2. Max(S) \in S /\ \A y \in S : Max(S) >= y
    BY <1>1, GreatestNumber
  <1>3. \E u \in S : \A v \in Waiting : u >= verifies[v].began
    <2> HIDE DEF S
    <2>1. \A v \in Waiting : verifies[v].began \in S
      BY DEF S
    <2> QED
      BY <1>2, <2>1
  <1> QED
    BY <1>3

LEMMA SettlesStep ==
  ASSUME KeysInv, NEW keys \in SUBSET KeyIds, NEW failed \in BOOLEAN,
         Settles(keys, failed)
  PROVE  KeysInv' /\ cache' \in CachedKeys /\ cache'.keys = keys
  <1>1. Waiting # {} /\ fetching # NoCache
    BY DEF KeysInv, Settles
  <1> DEFINE t == CHOOSE u \in {verifies[v].began : v \in Waiting} :
                    \A v \in Waiting : u >= verifies[v].began
  <1>2. t \in {verifies[v].began : v \in Waiting}
    BY <1>1, LastToCome
  <1>3. cache' = [keys |-> keys, failed |-> failed, at |-> t]
    BY DEF Settles
  <1> HIDE DEF t
  <1>4. t \in Nat /\ t <= time /\ lastFetch \in Nat /\ t >= lastFetch
    BY <1>1, <1>2 DEF KeysInv, Awaiting
  <1>5. cache' \in CachedKeys /\ cache'.at = t /\ cache'.keys = keys
    BY <1>3, <1>4 DEF CachedKeys
  <1>6. Waiting' = {}
    <2>1. verifies' = [v \in Verifications |->
             IF v \notin Waiting THEN verifies[v]
             ELSE [verifies[v] EXCEPT !.at = IF failed THEN "refused"
                                    ELSE Answer(keys, verifies[v].token)]]
      BY DEF Settles
    <2>2. ASSUME NEW v \in Verifications PROVE verifies'[v].at # "waiting"
      <3>1. CASE v \notin Waiting
        BY <2>1, <3>1 DEF Waiting
      <3>2. CASE v \in Waiting
        <4>1. PICK step : step = verifies[v]
          OBVIOUS
        <4>2. step \in Awaiting
          BY <3>2, <4>1 DEF KeysInv
        <4>3. verifies'[v] = [step EXCEPT !.at = IF failed THEN "refused"
                                    ELSE Answer(keys, step.token)]
          BY <2>1, <3>2, <4>1
        <4>4. verifies'[v].at = IF failed THEN "refused"
                                    ELSE Answer(keys, step.token)
          BY <4>2, <4>3 DEF Awaiting
        <4> QED
          BY <4>4 DEF Answer
      <3> QED
        BY <3>1, <3>2
    <2> QED
      BY <2>2 DEF Waiting
  <1>7. DOMAIN verifies' = Verifications
    BY DEF Settles
  <1>8. /\ fetching' = NoCache
        /\ UNCHANGED <<time, publishes, lastFetch>>
    BY DEF Settles
  <1> QED
    BY <1>4, <1>5, <1>6, <1>7, <1>8, NoCacheIsNeither DEF KeysInv

\* A fetch begins when the cache is neither good for the token nor young.
LEMMA VerifyStep ==
  ASSUME KeysInv, NEW v \in Verifications, NEW token \in Tokens, Verify(v, token)
  PROVE  /\ KeysInv'
         /\ fetching = NoCache /\ fetching' # NoCache /\ lastFetch # NoCache
              => time - lastFetch >= ErrorTtl
  <1> DEFINE at == IF Hit(token) THEN Answer(cache.keys, token)
                   ELSE IF TooSoon THEN "refused" ELSE "waiting"
             begins == ~ (Hit(token) \/ TooSoon \/ fetching # NoCache)
  <1>1. verifies' = [verifies EXCEPT ![v] =
                       [token |-> token, began |-> time, at |-> at]]
    BY DEF Verify
  <1>2. /\ UNCHANGED <<time, publishes, cache>>
        /\ v \notin Waiting
        /\ IF begins THEN fetching' = time /\ lastFetch' = time
                     ELSE UNCHANGED <<fetching, lastFetch>>
    BY DEF Verify, Ended, Waiting
  <1>3. at = "waiting" <=> ~ Hit(token) /\ ~ TooSoon
    BY DEF Answer
  <1> HIDE DEF at
  <1>4. DOMAIN verifies' = Verifications
    BY <1>1 DEF KeysInv
  <1>5. verifies'[v] = [token |-> token, began |-> time, at |-> at]
    BY <1>1 DEF KeysInv
  <1>6. \A w \in Verifications \ {v} : verifies'[w] = verifies[w]
    BY <1>1 DEF KeysInv
  <1>7. Waiting' = IF at = "waiting" THEN Waiting \cup {v} ELSE Waiting
    BY <1>2, <1>5, <1>6 DEF Waiting
  <1>8. at = "waiting" => verifies'[v] \in Awaiting
    BY <1>5 DEF Awaiting, KeysInv
  <1>9. ~ TooSoon /\ cache # NoCache => time - cache.at >= ErrorTtl
    BY KeyCacheAssumption DEF TooSoon, KeysInv, CachedKeys
  <1>10. \A w \in Waiting' : /\ verifies'[w] \in Awaiting
                             /\ verifies'[w].began <= time'
    BY <1>2, <1>5, <1>6, <1>7, <1>8 DEF KeysInv, Waiting
  <1>11. CASE begins
    <2>1. at = "waiting" /\ fetching = NoCache /\ Waiting = {}
      BY <1>3, <1>11 DEF KeysInv
    <2>2. Waiting' = {v}
      BY <1>7, <2>1
    <2>3. fetching' = time /\ lastFetch' = time /\ time \in Nat
      BY <1>2, <1>11 DEF KeysInv
    <2>4. lastFetch # NoCache => time - lastFetch >= ErrorTtl
      BY <1>9, <1>11, KeyCacheAssumption DEF KeysInv, CachedKeys
    <2> QED
      BY <1>2, <1>4, <1>5, <1>10, <2>2, <2>3, <2>4, NoCacheIsNeither
         DEF KeysInv
  <1>12. CASE ~ begins
    <2>1. UNCHANGED <<fetching, lastFetch>>
      BY <1>2, <1>12
    <2>2. at = "waiting" => fetching # NoCache
      BY <1>3, <1>12
    <2>3. fetching = NoCache => Waiting' = {}
      BY <1>7, <2>2 DEF KeysInv
    <2>4. fetching # NoCache =>
            Waiting' # {} /\ \A w \in Waiting' : verifies'[w].began >= lastFetch
      BY <1>2, <1>5, <1>6, <1>7 DEF KeysInv, Waiting
    <2> QED
      BY <1>2, <1>4, <1>10, <2>1, <2>3, <2>4 DEF KeysInv
  <1> QED
    BY <1>11, <1>12

LEMMA KeysStep ==
  ASSUME KeysInv, [KeyCacheNext]_keyVars
  PROVE  /\ KeysInv'
         /\ cache # NoCache => /\ cache' # NoCache
                               /\ cache.keys \cap publishes \subseteq cache'.keys
         /\ fetching = NoCache /\ fetching' # NoCache /\ lastFetch # NoCache
              => time - lastFetch >= ErrorTtl
  <1>1. CASE UNCHANGED keyVars
    BY <1>1 DEF keyVars, KeysInv, Waiting
  <1>2. CASE Later
    <2>1. /\ time \in Nat /\ time' = time + 1
          /\ UNCHANGED <<publishes, cache, fetching, verifies, lastFetch>>
      BY <1>2 DEF Later, KeysInv
    <2>2. Waiting' = Waiting
      BY <2>1 DEF Waiting
    <2>3. \A v \in Waiting : verifies[v] \in Awaiting /\ verifies[v].began <= time'
      BY <2>1 DEF KeysInv, Awaiting
    <2>4. cache = NoCache \/ (cache \in CachedKeys /\ cache.at <= time')
      BY <2>1 DEF KeysInv, CachedKeys
    <2>5. fetching # NoCache => lastFetch <= time'
      BY <2>1 DEF KeysInv
    <2> QED
      BY <2>1, <2>2, <2>3, <2>4, <2>5 DEF KeysInv
  <1>3. CASE Publish
    BY <1>3 DEF Publish, Newer, KeysInv, Waiting
  <1>4. CASE Retire
    BY <1>4 DEF Retire, KeysInv, Waiting
  <1>5. CASE FetchSucceeds
    <2>1. /\ KeysInv' /\ cache' \in CachedKeys /\ cache'.keys = publishes
          /\ fetching' = NoCache
      BY <1>5, SettlesStep DEF FetchSucceeds, Settles, KeysInv
    <2> QED
      BY <2>1, NoCacheIsNeither
  <1>6. CASE FetchFails
    <2> DEFINE keys == IF cache = NoCache THEN {} ELSE cache.keys
    <2>1. keys \in SUBSET KeyIds
      BY DEF KeysInv, CachedKeys
    <2>2. Settles(keys, TRUE)
      BY <1>6 DEF FetchFails
    <2> HIDE DEF keys
    <2>3. KeysInv' /\ cache' \in CachedKeys /\ cache'.keys = keys
      BY <2>1, <2>2, SettlesStep
    <2>4. fetching' = NoCache
      BY <2>2 DEF Settles
    <2> QED
      BY <2>3, <2>4, NoCacheIsNeither DEF keys
  <1>7. ASSUME NEW v \in Verifications, NEW token \in Tokens, Verify(v, token)
        PROVE  /\ KeysInv'
               /\ UNCHANGED cache
               /\ fetching = NoCache /\ fetching' # NoCache /\ lastFetch # NoCache
                    => time - lastFetch >= ErrorTtl
    BY <1>7, VerifyStep DEF Verify
  <1> QED
    BY <1>1, <1>2, <1>3, <1>4, <1>5, <1>6, <1>7 DEF KeyCacheNext

\* A key that is cached stays through every failure of the auth service, and
\* however many calls miss the cache, fetches begin JWKS_ERROR_TTL_MS apart
\* (http/auth.mjs, resolveJwkCandidates).
THEOREM OutagesKeepKeys == ServicesSpec => OutageKeepsKeys
  <1>1. ServicesInit => KeysInv
    BY ServicesBegin, KeysInit
  <1>2. KeysInv /\ [ServicesNext]_servicesVars => KeysInv'
    BY ServicesMove, KeysStep
  <1>3. ASSUME KeysInv, [ServicesNext]_servicesVars
        PROVE  [/\ cache # NoCache =>
                     /\ cache' # NoCache
                     /\ cache.keys \cap publishes \subseteq cache'.keys
                /\ fetching = NoCache /\ fetching' # NoCache
                     /\ lastFetch # NoCache
                     => time - lastFetch >= ErrorTtl]_keyVars
    BY <1>3, ServicesMove, KeysStep
  <1> QED
    BY <1>1, <1>2, <1>3, PTL DEF ServicesSpec, OutageKeepsKeys
-----------------------------------------------------------------------------
\* Attachments: the bucket, the rows that point into it, and the uploads.

UploadSteps == [at : {"constraints", "body", "row", "event"}, parent : Parents,
                mime : MimeTypes, size : Sizes]

AttachmentsTyped ==
  /\ drafts \subseteq Reports
  /\ attached \in [Reports \cup Files -> SUBSET Uploads]
  /\ evidence \in [Certificates -> Uploads \cup {NoPath}]
  /\ evidenceLog \in [Certificates -> SUBSET Uploads]
  /\ upload \in [Uploads -> UploadSteps \cup {New, Over}]
  /\ sealed \in [Reports -> SUBSET Uploads]
  /\ jostled \in BOOLEAN

\* An object is there before its row; a path is attached, if at all, as the
\* last thing its upload does, so it is attached once.
ObjectsFirst ==
  /\ \A u \in Uploads : upload[u].at \in {"row", "event"} => u \in bucket
  /\ \A p \in Reports \cup Files :
       attached[p] \subseteq bucket /\ \A u \in attached[p] : upload[u] = Over
  /\ \A p, q \in Reports \cup Files : p # q => attached[p] \cap attached[q] = {}

\* An event is written after the path it tells of.
PathsFirst ==
  /\ \A u \in Uploads : upload[u].at = "event" =>
       upload[u].parent \in Certificates /\ evidence[upload[u].parent] # NoPath
  /\ \A c \in Certificates :
       /\ evidence[c] # NoPath => evidence[c] \in bucket
       /\ evidenceLog[c] \subseteq bucket
       /\ evidenceLog[c] # {} => evidence[c] # NoPath

\* Who is under way for a report that is no draft was so at its submission.
SealedCovers ==
  \A p \in Reports \ drafts :
    /\ attached[p] \subseteq sealed[p]
    /\ \A u \in Uploads : Underway(u, p) => u \in sealed[p]

\* One upload at a time counts the rows of a report, and then adds one.
CountHolds ==
  \A p \in Reports :
    /\ IsFiniteSet(attached[p])
    /\ jostled \/
         /\ \A u, o \in Uploads : Underway(u, p) /\ Underway(o, p) => u = o
         /\ Cardinality(attached[p]) <= MaxCount
         /\ \A u \in Uploads : Underway(u, p) /\ upload[u].at # "constraints" =>
              Cardinality(attached[p]) < MaxCount

EvidenceInv ==
  /\ AttachmentsTyped /\ ObjectsFirst /\ PathsFirst /\ SealedCovers /\ CountHolds

LEMMA EvidenceInit == AttachmentsInit => EvidenceInv
  <1> SUFFICES ASSUME AttachmentsInit PROVE EvidenceInv
    OBVIOUS
  <1>1. \A u \in Uploads : upload[u].at = "new"
    BY DEF AttachmentsInit, New
  <1>2. IsFiniteSet({}) /\ Cardinality({}) = 0
    BY FS_EmptySet
  <1>3. AttachmentsTyped
    BY DEF AttachmentsInit, AttachmentsTyped
  <1> QED
    BY <1>1, <1>2, <1>3, AttachmentsAssumption
       DEF AttachmentsInit, EvidenceInv, ObjectsFirst, PathsFirst,
           SealedCovers, CountHolds, Underway

\* What an upload that moves leaves to the others.
LEMMA UploadMoves ==
  ASSUME EvidenceInv, NEW u \in Uploads, NEW step \in UploadSteps \cup {Over},
         Moves(u, step)
  PROVE  /\ upload' \in [Uploads -> UploadSteps \cup {New, Over}]
         /\ upload'[u] = step
         /\ \A o \in Uploads \ {u} : upload'[o] = upload[o]
  BY DEF Moves, EvidenceInv, AttachmentsTyped

LEMMA StepsTyped ==
  /\ \A s \in UploadSteps :
       /\ s.at \in {"constraints", "body", "row", "event"} /\ s.parent \in Parents
       /\ s # New /\ s # Over
       /\ \A at \in {"body", "row", "event"} :
            /\ [s EXCEPT !.at = at] \in UploadSteps
            /\ [s EXCEPT !.at = at].at = at
            /\ [s EXCEPT !.at = at].parent = s.parent
  /\ New.at = "new" /\ Over.at = "over"
  <1>1. New.at = "new" /\ Over.at = "over"
    BY DEF New, Over
  <1>2. ASSUME NEW s \in UploadSteps
        PROVE  /\ s.at \in {"constraints", "body", "row", "event"}
               /\ s.parent \in Parents
               /\ s # New /\ s # Over
    BY <1>1, <1>2 DEF UploadSteps
  <1>3. ASSUME NEW s \in UploadSteps, NEW at \in {"body", "row", "event"}
        PROVE  /\ [s EXCEPT !.at = at] \in UploadSteps
               /\ [s EXCEPT !.at = at].at = at
               /\ [s EXCEPT !.at = at].parent = s.parent
    BY DEF UploadSteps
  <1> QED
    BY <1>1, <1>2, <1>3

\* While the rows stay, an object is there before them whoever moves on.
LEMMA ObjectsStay ==
  ASSUME EvidenceInv, NEW u \in Uploads, upload[u].at # "over",
         \A o \in Uploads \ {u} : upload'[o] = upload[o],
         UNCHANGED attached, bucket \subseteq bucket',
         upload'[u].at \in {"row", "event"} => u \in bucket'
  PROVE  ObjectsFirst'
  <1>1. \A p \in Reports \cup Files : u \notin attached[p]
    BY StepsTyped DEF EvidenceInv, ObjectsFirst
  <1>2. \A p \in Reports \cup Files : attached[p] \in SUBSET Uploads
    BY DEF EvidenceInv, AttachmentsTyped
  <1>3. \A p \in Reports \cup Files : \A o \in attached[p] : upload'[o] = upload[o]
    BY <1>1, <1>2
  <1>4. \A o \in Uploads : upload'[o].at \in {"row", "event"} => o \in bucket'
    BY DEF EvidenceInv, ObjectsFirst
  <1> QED
    BY <1>3, <1>4 DEF EvidenceInv, ObjectsFirst

LEMMA LoadParentStep ==
  ASSUME EvidenceInv, NEW u \in Uploads, NEW p \in Parents, NEW mime \in MimeTypes,
         NEW size \in Sizes, NEW declared \in BOOLEAN,
         LoadParent(u, p, mime, size, declared)
  PROVE  EvidenceInv'
  <1> DEFINE step == [at |-> IF p \in Reports THEN "constraints" ELSE "body",
                      parent |-> p, mime |-> mime, size |-> size]
  <1>1. /\ upload[u] = New /\ Moves(u, step)
        /\ p \in Reports => p \in drafts
        /\ jostled' = (jostled \/ \E o \in Uploads \ {u} : Underway(o, p))
        /\ UNCHANGED <<drafts, bucket, attached, evidence, evidenceLog, sealed>>
    BY DEF LoadParent
  <1>2. /\ step \in UploadSteps /\ step.parent = p
        /\ step.at = IF p \in Reports THEN "constraints" ELSE "body"
    BY DEF UploadSteps
  <1> HIDE DEF step
  <1>3. /\ upload' \in [Uploads -> UploadSteps \cup {New, Over}]
        /\ upload'[u] = step
        /\ \A o \in Uploads \ {u} : upload'[o] = upload[o]
    BY <1>1, <1>2, UploadMoves
  <1>4. AttachmentsTyped'
    BY <1>1, <1>3 DEF EvidenceInv, AttachmentsTyped
  <1>5. \A q : Underway(u, q)' <=> q = p
    BY <1>2, <1>3 DEF Underway
  <1>6. \A q : \A o \in Uploads \ {u} : Underway(o, q)' <=> Underway(o, q)
    BY <1>3 DEF Underway
  <1>7. ObjectsFirst'
    BY <1>1, <1>2, <1>3, StepsTyped, ObjectsStay
  <1>8. PathsFirst'
    BY <1>1, <1>2, <1>3 DEF EvidenceInv, PathsFirst
  <1>9. SealedCovers'
    BY <1>1, <1>5, <1>6 DEF EvidenceInv, SealedCovers
  <1>10. CountHolds'
    <2>1. ASSUME NEW q \in Reports, ~ jostled'
          PROVE  /\ \A v, o \in Uploads : Underway(v, q)' /\ Underway(o, q)' => v = o
                 /\ Cardinality(attached[q]) <= MaxCount
                 /\ \A v \in Uploads : Underway(v, q)' /\ upload'[v].at # "constraints"
                      => Cardinality(attached[q]) < MaxCount
      <3>1. /\ \A v, o \in Uploads : Underway(v, q) /\ Underway(o, q) => v = o
            /\ Cardinality(attached[q]) <= MaxCount
            /\ \A v \in Uploads : Underway(v, q) /\ upload[v].at # "constraints"
                 => Cardinality(attached[q]) < MaxCount
        BY <1>1, <2>1 DEF EvidenceInv, CountHolds
      <3>2. q = p => \A o \in Uploads \ {u} : ~ Underway(o, p)
        BY <1>1, <2>1
      <3>3. q = p => upload'[u].at = "constraints"
        BY <1>2, <1>3, <2>1
      <3> QED
        BY <1>3, <1>5, <1>6, <3>1, <3>2, <3>3
    <2> QED
      BY <1>1, <2>1 DEF EvidenceInv, CountHolds
  <1> QED
    BY <1>4, <1>7, <1>8, <1>9, <1>10 DEF EvidenceInv

\* The limit of the field is checked on the rows of the moment.
LEMMA ResolvePhotoConstraintsStep ==
  ASSUME EvidenceInv, NEW u \in Uploads, ResolvePhotoConstraints(u)
  PROVE  EvidenceInv'
  <1> PICK step : step = upload[u]
    OBVIOUS
  <1>1. /\ step.at = "constraints" /\ Moves(u, [step EXCEPT !.at = "body"])
        /\ Cardinality(attached[step.parent]) < MaxCount
        /\ UNCHANGED <<drafts, bucket, attached, evidence, evidenceLog, jostled,
                       sealed>>
    BY DEF ResolvePhotoConstraints
  <1>2. step \in UploadSteps
    BY <1>1 DEF EvidenceInv, AttachmentsTyped, New, Over
  <1> DEFINE next == [step EXCEPT !.at = "body"]
  <1>3. next \in UploadSteps /\ next.at = "body" /\ next.parent = step.parent
    BY ZenonT(30), <1>2, StepsTyped
  <1> HIDE DEF next
  <1>4. /\ upload' \in [Uploads -> UploadSteps \cup {New, Over}]
        /\ upload'[u] = next
        /\ \A o \in Uploads \ {u} : upload'[o] = upload[o]
    BY <1>1, <1>3, UploadMoves DEF next
  <1>5. AttachmentsTyped'
    BY <1>1, <1>4 DEF EvidenceInv, AttachmentsTyped
  <1>6. \A q : \A o \in Uploads : Underway(o, q)' <=> Underway(o, q)
    BY <1>1, <1>3, <1>4 DEF Underway
  <1>7. ObjectsFirst'
    BY <1>1, <1>3, <1>4, ObjectsStay
  <1>8. PathsFirst'
    BY <1>1, <1>3, <1>4 DEF EvidenceInv, PathsFirst
  <1>9. SealedCovers'
    BY <1>1, <1>6 DEF EvidenceInv, SealedCovers
  <1>10. \A q : Underway(u, q) => q = step.parent
    BY DEF Underway
  <1>11. CountHolds'
    BY <1>1, <1>4, <1>6, <1>10 DEF EvidenceInv, CountHolds
  <1> QED
    BY <1>5, <1>7, <1>8, <1>9, <1>11 DEF EvidenceInv

LEMMA UploadObjectStep ==
  ASSUME EvidenceInv, NEW u \in Uploads, UploadObject(u)
  PROVE  EvidenceInv'
  <1> PICK step : step = upload[u]
    OBVIOUS
  <1>1. /\ step.at = "body" /\ Moves(u, [step EXCEPT !.at = "row"])
        /\ bucket' = bucket \cup {u}
        /\ UNCHANGED <<drafts, attached, evidence, evidenceLog, jostled, sealed>>
    BY DEF UploadObject
  <1>2. step \in UploadSteps
    BY <1>1 DEF EvidenceInv, AttachmentsTyped, New, Over
  <1> DEFINE next == [step EXCEPT !.at = "row"]
  <1>3. next \in UploadSteps /\ next.at = "row" /\ next.parent = step.parent
    BY ZenonT(30), <1>2, StepsTyped
  <1> HIDE DEF next
  <1>4. /\ upload' \in [Uploads -> UploadSteps \cup {New, Over}]
        /\ upload'[u] = next
        /\ \A o \in Uploads \ {u} : upload'[o] = upload[o]
    BY <1>1, <1>3, UploadMoves DEF next
  <1>5. AttachmentsTyped'
    BY <1>1, <1>4 DEF EvidenceInv, AttachmentsTyped
  <1>6. \A q : \A o \in Uploads : Underway(o, q)' <=> Underway(o, q)
    BY <1>1, <1>3, <1>4 DEF Underway
  <1>7. ObjectsFirst'
    BY <1>1, <1>3, <1>4, ObjectsStay
  <1>8. PathsFirst'
    BY <1>1, <1>3, <1>4 DEF EvidenceInv, PathsFirst
  <1>9. SealedCovers'
    BY <1>1, <1>6 DEF EvidenceInv, SealedCovers
  <1>10. \A o \in Uploads : upload'[o].at # "constraints" <=>
                           upload[o].at # "constraints"
    BY <1>1, <1>3, <1>4
  <1>11. CountHolds'
    BY <1>1, <1>6, <1>10 DEF EvidenceInv, CountHolds
  <1> QED
    BY <1>5, <1>7, <1>8, <1>9, <1>11 DEF EvidenceInv

\* The row is the last thing an upload writes: nobody else has its path, and
\* no other upload has counted since this one did.
LEMMA InsertRowStep ==
  ASSUME EvidenceInv, NEW u \in Uploads, InsertRow(u)
  PROVE  EvidenceInv'
  <1> PICK step : step = upload[u]
    OBVIOUS
  <1> PICK p : p = step.parent
    OBVIOUS
  <1>1. /\ step.at = "row" /\ p \notin Certificates /\ Moves(u, Over)
        /\ attached' = [attached EXCEPT ![p] = attached[p] \cup {u}]
        /\ UNCHANGED <<drafts, bucket, evidence, evidenceLog, jostled, sealed>>
    BY DEF InsertRow
  <1>2. step \in UploadSteps
    BY <1>1 DEF EvidenceInv, AttachmentsTyped, New, Over
  <1>3. p \in Reports \cup Files
    BY <1>1, <1>2, StepsTyped DEF Parents
  <1>4. /\ upload' \in [Uploads -> UploadSteps \cup {New, Over}]
        /\ upload'[u] = Over
        /\ \A o \in Uploads \ {u} : upload'[o] = upload[o]
    BY <1>1, UploadMoves
  <1>5. /\ attached' \in [Reports \cup Files -> SUBSET Uploads]
        /\ attached'[p] = attached[p] \cup {u}
        /\ \A q \in (Reports \cup Files) \ {p} : attached'[q] = attached[q]
    BY <1>1, <1>3 DEF EvidenceInv, AttachmentsTyped
  <1>6. AttachmentsTyped'
    BY <1>1, <1>4, <1>5 DEF EvidenceInv, AttachmentsTyped
  <1>7. \A q : ~ Underway(u, q)'
    BY <1>4, StepsTyped DEF Underway
  <1>8. \A q : \A o \in Uploads \ {u} : Underway(o, q)' <=> Underway(o, q)
    BY <1>4 DEF Underway
  <1>9. u \in bucket /\ \A q \in Reports \cup Files : u \notin attached[q]
    BY <1>1, <1>2, StepsTyped DEF EvidenceInv, ObjectsFirst
  <1>10. ObjectsFirst'
    BY <1>1, <1>4, <1>5, <1>9, StepsTyped DEF EvidenceInv, ObjectsFirst
  <1>11. PathsFirst'
    BY <1>1, <1>4, StepsTyped DEF EvidenceInv, PathsFirst
  <1>12. Underway(u, p)
    BY <1>1 DEF Underway
  <1>13. SealedCovers'
    BY <1>1, <1>3, <1>5, <1>7, <1>8, <1>12 DEF EvidenceInv, SealedCovers
  <1>14. CountHolds'
    <2>1. ASSUME NEW q \in Reports
          PROVE  /\ IsFiniteSet(attached'[q])
                 /\ jostled \/
                     /\ \A v, o \in Uploads : Underway(v, q)' /\ Underway(o, q)' => v = o
                     /\ Cardinality(attached'[q]) <= MaxCount
                     /\ \A v \in Uploads :
                          Underway(v, q)' /\ upload'[v].at # "constraints"
                            => Cardinality(attached'[q]) < MaxCount
      <3>1. CASE q # p
        BY <1>4, <1>5, <1>7, <1>8, <2>1, <3>1 DEF EvidenceInv, CountHolds
      <3>2. CASE q = p
        <4>1. IsFiniteSet(attached[p])
          BY <2>1, <3>2 DEF EvidenceInv, CountHolds
        <4>2. /\ IsFiniteSet(attached[p] \cup {u})
              /\ Cardinality(attached[p] \cup {u}) = Cardinality(attached[p]) + 1
              /\ Cardinality(attached[p]) \in Nat
          BY <1>9, <2>1, <3>2, <4>1, FS_AddElement, FS_CardinalityType
        <4>3. ~ jostled => /\ Cardinality(attached[p]) < MaxCount
                           /\ \A o \in Uploads \ {u} : ~ Underway(o, p)
          BY <1>1, <1>12, <2>1, <3>2 DEF EvidenceInv, CountHolds
        <4>4. \A o \in Uploads : jostled \/ ~ Underway(o, p)'
          BY <1>7, <1>8, <4>3
        <4>5. jostled \/ Cardinality(attached'[p]) <= MaxCount
          BY <1>5, <4>2, <4>3, AttachmentsAssumption
        <4> QED
          BY <1>5, <3>2, <4>2, <4>4, <4>5
      <3> QED
        BY <3>1, <3>2
    <2> QED
      BY <1>1, <2>1 DEF CountHolds
  <1> QED
    BY <1>6, <1>10, <1>11, <1>13, <1>14 DEF EvidenceInv

LEMMA SaveEvidencePathStep ==
  ASSUME EvidenceInv, NEW u \in Uploads, SaveEvidencePath(u)
  PROVE  EvidenceInv'
  <1> PICK step : step = upload[u]
    OBVIOUS
  <1> PICK p : p = step.parent
    OBVIOUS
  <1>1. /\ step.at = "row" /\ p \in Certificates
        /\ Moves(u, [step EXCEPT !.at = "event"])
        /\ evidence' = [evidence EXCEPT ![p] = u]
        /\ UNCHANGED <<drafts, bucket, attached, evidenceLog, jostled, sealed>>
    BY DEF SaveEvidencePath
  <1>2. step \in UploadSteps
    BY <1>1 DEF EvidenceInv, AttachmentsTyped, New, Over
  <1> DEFINE next == [step EXCEPT !.at = "event"]
  <1>3. next \in UploadSteps /\ next.at = "event" /\ next.parent = p
    BY <1>2, StepsTyped
  <1> HIDE DEF next
  <1>4. /\ upload' \in [Uploads -> UploadSteps \cup {New, Over}]
        /\ upload'[u] = next
        /\ \A o \in Uploads \ {u} : upload'[o] = upload[o]
    BY <1>1, <1>3, UploadMoves DEF next
  <1>5. /\ evidence' \in [Certificates -> Uploads \cup {NoPath}]
        /\ evidence'[p] = u
        /\ \A c \in Certificates \ {p} : evidence'[c] = evidence[c]
    BY <1>1 DEF EvidenceInv, AttachmentsTyped
  <1>6. AttachmentsTyped'
    BY <1>1, <1>4, <1>5 DEF EvidenceInv, AttachmentsTyped
  <1>7. \A q : \A o \in Uploads : Underway(o, q)' <=> Underway(o, q)
    BY <1>1, <1>3, <1>4 DEF Underway
  <1>8. u \in bucket /\ u # NoPath
    BY <1>1, AttachmentsAssumption DEF EvidenceInv, ObjectsFirst
  <1>9. ObjectsFirst'
    BY <1>1, <1>3, <1>4, <1>8, ObjectsStay
  <1>10. PathsFirst'
    BY <1>1, <1>3, <1>4, <1>5, <1>8 DEF EvidenceInv, PathsFirst
  <1>11. SealedCovers'
    BY <1>1, <1>7 DEF EvidenceInv, SealedCovers
  <1>12. \A o \in Uploads : upload'[o].at # "constraints" <=>
                           upload[o].at # "constraints"
    BY <1>1, <1>3, <1>4
  <1>13. CountHolds'
    BY <1>1, <1>7, <1>12 DEF EvidenceInv, CountHolds
  <1> QED
    BY <1>6, <1>9, <1>10, <1>11, <1>13 DEF EvidenceInv

LEMMA InsertEvidenceEventStep ==
  ASSUME EvidenceInv, NEW u \in Uploads, InsertEvidenceEvent(u)
  PROVE  EvidenceInv'
  <1> PICK p : p = upload[u].parent
    OBVIOUS
  <1>1. /\ upload[u].at = "event" /\ Moves(u, Over)
        /\ evidenceLog' = [evidenceLog EXCEPT ![p] = evidenceLog[p] \cup {u}]
        /\ UNCHANGED <<drafts, bucket, attached, evidence, jostled, sealed>>
    BY DEF InsertEvidenceEvent
  <1>2. p \in Certificates /\ evidence[p] # NoPath /\ u \in bucket
    BY <1>1 DEF EvidenceInv, PathsFirst, ObjectsFirst
  <1>3. /\ upload' \in [Uploads -> UploadSteps \cup {New, Over}]
        /\ upload'[u] = Over
        /\ \A o \in Uploads \ {u} : upload'[o] = upload[o]
    BY <1>1, UploadMoves
  <1>4. /\ evidenceLog' \in [Certificates -> SUBSET Uploads]
        /\ evidenceLog'[p] = evidenceLog[p] \cup {u}
        /\ \A c \in Certificates \ {p} : evidenceLog'[c] = evidenceLog[c]
    BY <1>1, <1>2 DEF EvidenceInv, AttachmentsTyped
  <1>5. AttachmentsTyped'
    BY <1>1, <1>3, <1>4 DEF EvidenceInv, AttachmentsTyped
  <1>6. \A q : \A o \in Uploads : Underway(o, q)' => Underway(o, q)
    BY <1>3, StepsTyped DEF Underway
  <1>7. ObjectsFirst'
    BY <1>1, <1>2, <1>3, ObjectsStay
  <1>8. PathsFirst'
    BY <1>1, <1>2, <1>3, <1>4, StepsTyped DEF EvidenceInv, PathsFirst
  <1>9. SealedCovers'
    BY <1>1, <1>6 DEF EvidenceInv, SealedCovers
  <1>10. \A o \in Uploads : upload'[o].at # "constraints" =>
                           upload[o].at # "constraints"
    BY <1>1, <1>3
  <1>11. CountHolds'
    BY <1>1, <1>6, <1>10 DEF EvidenceInv, CountHolds
  <1> QED
    BY <1>5, <1>7, <1>8, <1>9, <1>11 DEF EvidenceInv

LEMMA FailStep ==
  ASSUME EvidenceInv, NEW u \in Uploads, Fail(u)
  PROVE  EvidenceInv'
  <1>1. /\ upload[u].at \notin {"new", "over"} /\ Moves(u, Over)
        /\ UNCHANGED <<drafts, bucket, attached, evidence, evidenceLog, jostled,
                       sealed>>
    BY DEF Fail
  <1>2. /\ upload' \in [Uploads -> UploadSteps \cup {New, Over}]
        /\ upload'[u] = Over
        /\ \A o \in Uploads \ {u} : upload'[o] = upload[o]
    BY <1>1, UploadMoves
  <1>3. AttachmentsTyped'
    BY <1>1, <1>2 DEF EvidenceInv, AttachmentsTyped
  <1>4. \A q : \A o \in Uploads : Underway(o, q)' => Underway(o, q) /\ o # u
    BY <1>2, StepsTyped DEF Underway
  <1>5. ObjectsFirst'
    BY <1>1, <1>2, StepsTyped, ObjectsStay
  <1>6. PathsFirst'
    BY <1>1, <1>2, StepsTyped DEF EvidenceInv, PathsFirst
  <1>7. SealedCovers'
    BY <1>1, <1>4 DEF EvidenceInv, SealedCovers
  <1>8. CountHolds'
    BY <1>1, <1>2, <1>4 DEF EvidenceInv, CountHolds
  <1> QED
    BY <1>3, <1>5, <1>6, <1>7, <1>8 DEF EvidenceInv

LEMMA SubmitReportStep ==
  ASSUME EvidenceInv, NEW p \in Reports, SubmitReport(p)
  PROVE  EvidenceInv'
  <1>1. /\ drafts' = drafts \ {p}
        /\ UNCHANGED <<bucket, attached, evidence, evidenceLog, upload, jostled>>
    BY DEF SubmitReport
  <1> DEFINE S == attached[p] \cup {u \in Uploads : Underway(u, p)}
  <1>2. S \in SUBSET Uploads
    BY DEF EvidenceInv, AttachmentsTyped
  <1>3. /\ sealed' \in [Reports -> SUBSET Uploads]
        /\ sealed'[p] = S
        /\ \A q \in Reports \ {p} : sealed'[q] = sealed[q]
    <2>1. sealed' = [sealed EXCEPT ![p] = S]
      BY DEF SubmitReport
    <2> HIDE DEF S
    <2> QED
      BY <1>2, <2>1 DEF EvidenceInv, AttachmentsTyped
  <1>4. AttachmentsTyped'
    BY <1>1, <1>3 DEF EvidenceInv, AttachmentsTyped
  <1>5. \A q : \A u \in Uploads : Underway(u, q)' <=> Underway(u, q)
    BY <1>1 DEF Underway
  <1>6. SealedCovers'
    BY <1>1, <1>3, <1>5 DEF EvidenceInv, SealedCovers
  <1>7. CountHolds'
    BY <1>1, <1>5 DEF EvidenceInv, CountHolds
  <1> QED
    BY <1>1, <1>4, <1>6, <1>7 DEF EvidenceInv, ObjectsFirst, PathsFirst

LEMMA EvidenceStep == EvidenceInv /\ [AttachmentsNext]_attachmentVars => EvidenceInv'
  <1> SUFFICES ASSUME EvidenceInv, [AttachmentsNext]_attachmentVars
               PROVE  EvidenceInv'
    OBVIOUS
  <1>1. CASE UNCHANGED attachmentVars
    BY <1>1 DEF attachmentVars, EvidenceInv, AttachmentsTyped, ObjectsFirst,
                PathsFirst, SealedCovers, CountHolds, Underway
  <1> QED
    BY <1>1, LoadParentStep, ResolvePhotoConstraintsStep, UploadObjectStep,
       InsertRowStep, SaveEvidencePathStep, InsertEvidenceEventStep, FailStep,
       SubmitReportStep
       DEF AttachmentsNext

LEMMA EvidenceFollows == EvidenceInv => EvidenceIsThere
  <1> SUFFICES ASSUME EvidenceInv PROVE EvidenceIsThere
    OBVIOUS
  <1>1. Downloadable \subseteq bucket
    <2>1. (UNION {attached[p] : p \in Reports \cup Files}) \subseteq bucket
      BY DEF EvidenceInv, ObjectsFirst
    <2>2. {evidence[p] : p \in {c \in Certificates : evidence[c] # NoPath}}
             \subseteq bucket
      BY DEF EvidenceInv, PathsFirst
    <2> QED
      BY <2>1, <2>2 DEF Downloadable
  <1> QED
    BY <1>1 DEF EvidenceInv, EvidenceIsThere, ObjectsFirst, PathsFirst,
                SealedCovers, CountHolds

\* A row never points at an object that is not there, no object serves two
\* parents, an event is never written before its path, a submitted report gains
\* nothing but what was under way, and the photo limit holds as long as uploads
\* to one report do not overlap (attachments-routes.mjs, training-routes.mjs,
\* storage.mjs), whatever call fails.
THEOREM RowsPointAtObjects == ServicesSpec => []EvidenceIsThere
  <1>1. ServicesInit => EvidenceInv
    BY ServicesBegin, EvidenceInit
  <1>2. EvidenceInv /\ [ServicesNext]_servicesVars => EvidenceInv'
    BY ServicesMove, EvidenceStep
  <1> QED
    BY <1>1, <1>2, EvidenceFollows, PTL DEF ServicesSpec
-----------------------------------------------------------------------------
\* Sessions: the calls of the tabs, and the refreshes they wait for.

Exchanges ==
  [at : {"none", "asked", "granted", "denied", "refused", "stored", "failed"},
   token : Numbered \cup {NoToken}]
CallSteps == [at : {"rest", "sent", "waiting", "replayed"},
              token : Numbered \cup {NoToken}]

SessionsTyped ==
  /\ newest \in Numbered
  /\ {cookie, access, legacy} \subseteq Numbered \cup {NoToken}
  /\ live \subseteq Numbered
  /\ DOMAIN page = Tabs
  /\ call \in [Tabs -> [Calls -> CallSteps]]
  /\ exchange \in [Tabs -> Exchanges]
  /\ \A t \in Tabs : exchange[t].at = "granted" => exchange[t].token \in Numbered
  /\ \A t \in Tabs : exchange[t].at = "denied" => exchange[t].token = NoToken
  /\ causes \subseteq Causes

\* One refresh at a time is on the wire, and the token it brings is the last.
OneByOne ==
  /\ \A t, o \in Tabs : OnTheWire(t) /\ OnTheWire(o) => t = o
  /\ \A t \in Tabs : exchange[t].at = "granted" => exchange[t].token = newest
  /\ \/ cookie \in {newest, NoToken}
     \/ \E t \in Tabs : exchange[t].at \in {"granted", "denied"}

\* The auth service is asked with the token it expects, and has said no to none.
CookieKept ==
  /\ ~revoked /\ legacy = NoToken
  /\ \A t \in Tabs : page[t] # "leaving"
  /\ \A t \in Tabs : /\ exchange[t].at # "denied"
                     /\ exchange[t].at = "asked" => exchange[t].token = newest
  /\ cookie = newest \/ Granting

\* No refresh has failed.
Silent == ~bounced /\ \A t \in Tabs : exchange[t].at \notin {"refused", "failed"}

BrowserInv ==
  /\ SessionsTyped
  /\ NobodyWaitsAlone
  /\ "strayed" \notin causes => OneByOne
  /\ causes \subseteq {"turned away"} => CookieKept
  /\ causes = {} => Silent

LEMMA TokensAreNumbers ==
  /\ MaxTokens \in Nat /\ MaxTokens # 0
  /\ \A n \in Numbered : n # NoToken
  <1>1. MaxTokens \in Nat /\ MaxTokens # 0
    BY SessionsAssumption
  <1>2. Numbered \subseteq Nat
    BY <1>1 DEF Numbered
  <1>3. NoToken \notin Nat
    BY Zenon, SessionsAssumption
  <1> QED
    BY Zenon, <1>1, <1>2, <1>3

LEMMA BrowserInit == SessionsInit => BrowserInv
  <1> SUFFICES ASSUME SessionsInit PROVE BrowserInv
    OBVIOUS
  <1>1. /\ Resting \in CallSteps /\ Resting.at = "rest"
        /\ NoExchange \in Exchanges /\ NoExchange.at = "none"
    BY DEF Resting, NoExchange, CallSteps, Exchanges
  <1>2. 1 \in Numbered
    BY TokensAreNumbers DEF Numbered
  <1>3. \A t \in Tabs : exchange[t] = NoExchange /\ page[t] = "app"
    BY DEF SessionsInit
  <1>4. SessionsTyped
    BY <1>1, <1>2, <1>3 DEF SessionsInit, SessionsTyped, Causes
  <1>5. NobodyWaitsAlone
    BY <1>1 DEF SessionsInit, NobodyWaitsAlone
  <1>6. OneByOne
    BY <1>1, <1>3 DEF SessionsInit, OneByOne, OnTheWire
  <1>7. causes \subseteq {"turned away"} => CookieKept
    <2>1. CASE legacy = 1
      <3>1. "cookieless" \in causes
        BY <2>1 DEF SessionsInit
      <3> QED
        BY <3>1
    <2>2. CASE legacy # 1
      <3>1. cookie = newest /\ legacy = NoToken /\ ~revoked
        BY <2>2 DEF SessionsInit
      <3> QED
        BY <1>1, <1>3, <3>1 DEF CookieKept
    <2> QED
      BY <2>1, <2>2
  <1>8. Silent
    BY <1>1, <1>3 DEF SessionsInit, Silent
  <1> QED
    BY <1>4, <1>5, <1>6, <1>7, <1>8 DEF BrowserInv

\* A call that moves leaves the others, and a tab's exchange those of the others.
LEMMA CallMoves ==
  ASSUME BrowserInv, NEW t \in Tabs, NEW c \in Calls, NEW step \in CallSteps,
         Sets(t, c, step)
  PROVE  /\ call' \in [Tabs -> [Calls -> CallSteps]]
         /\ call'[t][c] = step
         /\ \A d \in Calls \ {c} : call'[t][d] = call[t][d]
         /\ \A o \in Tabs \ {t} : call'[o] = call[o]
  BY DEF Sets, BrowserInv, SessionsTyped

LEMMA ExchangeMoves ==
  ASSUME BrowserInv, NEW t \in Tabs, NEW x \in Exchanges,
         exchange' = [exchange EXCEPT ![t] = x]
  PROVE  /\ exchange' \in [Tabs -> Exchanges]
         /\ exchange'[t] = x
         /\ \A o \in Tabs \ {t} : exchange'[o] = exchange[o]
  BY DEF BrowserInv, SessionsTyped

LEMMA StepsOfSessions ==
  /\ Resting \in CallSteps /\ Resting.at = "rest"
  /\ NoExchange \in Exchanges /\ NoExchange.at = "none"
  /\ NoExchange.token = NoToken
  BY DEF Resting, NoExchange, CallSteps, Exchanges

\* What the invariant says of exchanges holds of no other.
LEMMA BrowserStays ==
  ASSUME BrowserInv,
         UNCHANGED <<newest, revoked, cookie, legacy, page, exchange, bounced, causes>>
  PROVE  /\ "strayed" \notin causes' => OneByOne'
         /\ causes' \subseteq {"turned away"} => CookieKept'
         /\ causes' = {} => Silent'
  BY DEF BrowserInv, OneByOne, CookieKept, Silent, OnTheWire, Granting

\* Send, Answered and AccessExpires: nothing of the exchanges moves.
LEMMA CallsStep ==
  ASSUME BrowserInv, NEW t \in Tabs, NEW c \in Calls,
         Send(t, c) \/ Answered(t, c)
  PROVE  BrowserInv'
  <1>1. PICK step : /\ Sets(t, c, step) /\ step \in CallSteps
                    /\ step.at # "waiting"
                    /\ UNCHANGED <<newest, revoked, cookie, access, page, exchange,
                                   legacy, live, bounced, causes>>
    <2>1. CASE Send(t, c)
      <3>1. [at |-> "sent", token |-> access] \in CallSteps
        BY DEF CallSteps, BrowserInv, SessionsTyped
      <3> QED
        BY <2>1, <3>1 DEF Send
    <2>2. CASE Answered(t, c)
      BY <2>2, StepsOfSessions DEF Answered
    <2> QED
      BY <2>1, <2>2
  <1>2. /\ call' \in [Tabs -> [Calls -> CallSteps]]
        /\ call'[t][c] = step
        /\ \A d \in Calls \ {c} : call'[t][d] = call[t][d]
        /\ \A o \in Tabs \ {t} : call'[o] = call[o]
    BY <1>1, CallMoves
  <1>3. SessionsTyped'
    BY <1>1, <1>2 DEF BrowserInv, SessionsTyped
  <1>4. NobodyWaitsAlone'
    BY <1>1, <1>2 DEF BrowserInv, NobodyWaitsAlone
  <1> QED
    BY <1>1, <1>3, <1>4, BrowserStays DEF BrowserInv

\* A refresh that starts alone starts with the browser's cookie.
LEMMA RefreshStarts ==
  ASSUME BrowserInv, NEW t \in Tabs, exchange[t].at = "none",
         NEW x \in Exchanges, x.at = "asked",
         legacy = NoToken => x.token = cookie,
         exchange'[t] = x, \A o \in Tabs \ {t} : exchange'[o] = exchange[o],
         causes' = causes \cup Strays(t), legacy' \in {legacy, NoToken},
         UNCHANGED <<newest, revoked, cookie, page, bounced>>
  PROVE  /\ "strayed" \notin causes' => OneByOne'
         /\ causes' \subseteq {"turned away"} => CookieKept'
         /\ causes' = {} => Silent'
  <1>1. causes \subseteq causes'
    OBVIOUS
  <1>2. ASSUME "strayed" \notin causes'
        PROVE  \A o \in Tabs : ~OnTheWire(o)
    <2>1. \A o \in Tabs \ {t} : ~OnTheWire(o)
      BY <1>2 DEF Strays
    <2> QED
      BY <2>1 DEF OnTheWire
  <1>3. ASSUME "strayed" \notin causes' PROVE OneByOne'
    <2>1. OneByOne
      BY <1>1, <1>3 DEF BrowserInv
    <2>2. \A o \in Tabs \ {t} : ~(OnTheWire(o)')
      BY <1>2, <1>3 DEF OnTheWire
    <2>3. cookie' \in {newest', NoToken}
      BY <1>2, <1>3, <2>1 DEF OneByOne, OnTheWire
    <2> QED
      BY <2>2, <2>3 DEF OneByOne, OnTheWire
  <1>4. ASSUME causes' \subseteq {"turned away"} PROVE CookieKept'
    <2>1. CookieKept
      BY <1>1, <1>4 DEF BrowserInv
    <2>2. cookie = newest
      BY <1>2, <1>4, <2>1 DEF CookieKept, Granting, OnTheWire
    <2> QED
      BY <2>1, <2>2 DEF CookieKept
  <1>5. ASSUME causes' = {} PROVE Silent'
    <2>1. Silent
      BY <1>1, <1>5 DEF BrowserInv
    <2> QED
      BY <2>1 DEF Silent
  <1> QED
    BY <1>3, <1>4, <1>5

\* Whoever meets an expired token joins the refresh of his tab, and whoever
\* starts one beside another tab's has strayed.
LEMMA UnauthorizedStep ==
  ASSUME BrowserInv, NEW t \in Tabs, NEW c \in Calls, Unauthorized(t, c)
  PROVE  BrowserInv'
  <1> DEFINE step == [at |-> "waiting", token |-> NoToken]
             x == IF exchange[t].at = "none" THEN [at |-> "asked", token |-> cookie]
                                             ELSE exchange[t]
  <1>1. /\ Sets(t, c, step)
        /\ exchange' = [exchange EXCEPT ![t] = x]
        /\ causes' = IF exchange[t].at = "none" THEN causes \cup Strays(t)
                                                ELSE causes
        /\ UNCHANGED <<newest, revoked, cookie, access, page, legacy, live,
                       bounced>>
    BY DEF Unauthorized
  <1>2. step \in CallSteps /\ step.at = "waiting"
    BY DEF CallSteps
  <1>3. /\ x \in Exchanges /\ x.at # "none"
        /\ exchange[t].at = "none" => x.at = "asked" /\ x.token = cookie
        /\ exchange[t].at # "none" => x = exchange[t]
    BY DEF Exchanges, BrowserInv, SessionsTyped
  <1> HIDE DEF step, x
  <1>4. /\ call' \in [Tabs -> [Calls -> CallSteps]]
        /\ call'[t][c] = step
        /\ \A d \in Calls \ {c} : call'[t][d] = call[t][d]
        /\ \A o \in Tabs \ {t} : call'[o] = call[o]
    BY <1>1, <1>2, CallMoves
  <1>5. /\ exchange' \in [Tabs -> Exchanges]
        /\ exchange'[t] = x
        /\ \A o \in Tabs \ {t} : exchange'[o] = exchange[o]
    BY <1>1, <1>3, ExchangeMoves
  <1>6. causes' \subseteq Causes
    BY <1>1 DEF Strays, Causes, BrowserInv, SessionsTyped
  <1>7. SessionsTyped'
    <2>1. /\ newest' \in Numbered /\ live' \subseteq Numbered /\ DOMAIN page' = Tabs
          /\ {cookie, access, legacy}' \subseteq Numbered \cup {NoToken}
      BY <1>1 DEF BrowserInv, SessionsTyped
    <2>2. \A o \in Tabs : /\ exchange'[o].at = "granted" => exchange'[o].token \in Numbered
                          /\ exchange'[o].at = "denied" => exchange'[o].token = NoToken
      BY <1>3, <1>5 DEF BrowserInv, SessionsTyped
    <2> QED
      BY <1>4, <1>5, <1>6, <2>1, <2>2 DEF SessionsTyped
  <1>8. NobodyWaitsAlone'
    BY <1>3, <1>4, <1>5 DEF BrowserInv, NobodyWaitsAlone
  <1>9. /\ "strayed" \notin causes' => OneByOne'
        /\ causes' \subseteq {"turned away"} => CookieKept'
        /\ causes' = {} => Silent'
    <2>1. CASE exchange[t].at # "none"
      <3>1. exchange' = exchange /\ causes' = causes
        BY <1>1, <1>3, <1>5, <2>1 DEF BrowserInv, SessionsTyped
      <3> QED
        BY <1>1, <3>1, BrowserStays
    <2>2. CASE exchange[t].at = "none"
      BY <1>1, <1>3, <1>5, <2>2, RefreshStarts
    <2> QED
      BY <2>1, <2>2
  <1> QED
    BY <1>7, <1>8, <1>9 DEF BrowserInv

\* The page that leaves takes its calls with it.
LEMMA LeaveStep ==
  ASSUME BrowserInv, NEW t \in Tabs, Leave(t), cookie' \in {cookie, NoToken},
         UNCHANGED <<newest, legacy, live>>,
         causes' \subseteq Causes, causes \subseteq causes'
  PROVE  /\ SessionsTyped' /\ NobodyWaitsAlone'
         /\ "strayed" \notin causes' => OneByOne'
         /\ page' = [page EXCEPT ![t] = "signin"]
         /\ exchange'[t] \in {exchange[t], NoExchange}
         /\ OnTheWire(t) => exchange'[t] = exchange[t]
         /\ \A o \in Tabs \ {t} : exchange'[o] = exchange[o]
  <1> DEFINE x == IF exchange[t].at \in {"stored", "failed"} THEN NoExchange
                                                         ELSE exchange[t]
  <1>1. /\ access' = NoToken
        /\ page' = [page EXCEPT ![t] = "signin"]
        /\ call' = [call EXCEPT ![t] = [c \in Calls |-> Resting]]
        /\ exchange' = [exchange EXCEPT ![t] = x]
    BY DEF Leave
  <1>2. /\ x \in Exchanges /\ x \in {exchange[t], NoExchange}
        /\ OnTheWire(t) => x = exchange[t]
    BY StepsOfSessions DEF BrowserInv, SessionsTyped, OnTheWire
  <1> HIDE DEF x
  <1>3. /\ exchange' \in [Tabs -> Exchanges]
        /\ exchange'[t] = x
        /\ \A o \in Tabs \ {t} : exchange'[o] = exchange[o]
    BY <1>1, <1>2, ExchangeMoves
  <1>4. /\ call' \in [Tabs -> [Calls -> CallSteps]]
        /\ \A c \in Calls : call'[t][c] = Resting
        /\ \A o \in Tabs \ {t} : call'[o] = call[o]
    BY <1>1, StepsOfSessions DEF BrowserInv, SessionsTyped
  <1>5. \A o \in Tabs : exchange'[o] \in {exchange[o], NoExchange}
    BY <1>2, <1>3
  <1>6. /\ \A o \in Tabs : exchange'[o].at = "granted" =>
                             exchange'[o].token \in Numbered
        /\ \A o \in Tabs : exchange'[o].at = "denied" =>
                             exchange'[o].token = NoToken
    BY <1>5, StepsOfSessions DEF BrowserInv, SessionsTyped
  <1>7. DOMAIN page' = Tabs
    BY <1>1 DEF BrowserInv, SessionsTyped
  <1>8. {cookie', access', legacy'} \subseteq Numbered \cup {NoToken}
    BY <1>1 DEF BrowserInv, SessionsTyped
  <1>9. SessionsTyped'
    BY <1>3, <1>4, <1>6, <1>7, <1>8 DEF BrowserInv, SessionsTyped
  <1>10. NobodyWaitsAlone'
    BY <1>3, <1>4, StepsOfSessions DEF BrowserInv, NobodyWaitsAlone
  <1>11. ASSUME "strayed" \notin causes' PROVE OneByOne'
    <2>1. OneByOne
      BY <1>11 DEF BrowserInv
    <2>2. \A o \in Tabs : OnTheWire(o)' => OnTheWire(o)
      BY <1>5, StepsOfSessions DEF OnTheWire
    <2>3. \A o \in Tabs : OnTheWire(o) => exchange'[o] = exchange[o]
      BY <1>2, <1>3
    <2>4. \A o \in Tabs : exchange'[o].at = "granted" => exchange'[o].token = newest'
      BY <1>5, <2>1, StepsOfSessions DEF OneByOne
    <2>5. \/ cookie' \in {newest', NoToken}
          \/ \E o \in Tabs : exchange'[o].at \in {"granted", "denied"}
      BY <2>1, <2>3 DEF OneByOne, OnTheWire
    <2>6. \A a, o \in Tabs : OnTheWire(a)' /\ OnTheWire(o)' => a = o
      BY <2>1, <2>2 DEF OneByOne
    <2> QED
      BY <2>4, <2>5, <2>6 DEF OneByOne
  <1> QED
    BY <1>1, <1>2, <1>3, <1>9, <1>10, <1>11

\* A second 401 turns the user away, and a refresh has not failed without a cause.
LEMMA BounceStep ==
  ASSUME BrowserInv, NEW t \in Tabs, NEW c \in Calls, Bounce(t, c)
  PROVE  BrowserInv'
  <1>1. /\ Leave(t) /\ UNCHANGED <<newest, revoked, cookie, legacy, live>>
        /\ causes' = causes \cup
             (IF call[t][c].at = "replayed" THEN {"turned away"} ELSE {})
    BY DEF Bounce
  <1>2. causes' \subseteq Causes /\ causes \subseteq causes'
    BY <1>1 DEF Causes, BrowserInv, SessionsTyped
  <1>3. /\ SessionsTyped' /\ NobodyWaitsAlone'
        /\ "strayed" \notin causes' => OneByOne'
        /\ page' = [page EXCEPT ![t] = "signin"]
        /\ exchange'[t] \in {exchange[t], NoExchange}
        /\ OnTheWire(t) => exchange'[t] = exchange[t]
        /\ \A o \in Tabs \ {t} : exchange'[o] = exchange[o]
    BY <1>1, <1>2, LeaveStep
  <1>4. ASSUME causes' \subseteq {"turned away"} PROVE CookieKept'
    <2>1. CookieKept
      BY <1>2, <1>4 DEF BrowserInv
    <2>2. \A o \in Tabs : page'[o] # "leaving"
      BY <1>3, <2>1 DEF CookieKept, BrowserInv, SessionsTyped
    <2>3. \A o \in Tabs : /\ exchange'[o].at # "denied"
                          /\ exchange'[o].at = "asked" => exchange'[o].token = newest'
      BY <1>1, <1>3, <2>1, StepsOfSessions DEF CookieKept
    <2>4. cookie' = newest' \/ Granting'
      BY <1>1, <1>3, <2>1 DEF CookieKept, Granting, OnTheWire
    <2> QED
      BY <1>1, <2>1, <2>2, <2>3, <2>4 DEF CookieKept
  <1>5. causes' # {}
    <2>1. CASE call[t][c].at = "replayed"
      BY <1>1, <2>1
    <2>2. CASE exchange[t].at = "failed"
      BY <1>1, <2>2 DEF BrowserInv, Silent
    <2> QED
      BY <2>1, <2>2 DEF Bounce
  <1> QED
    BY <1>3, <1>4, <1>5 DEF BrowserInv

\* The last who waits ends the exchange.
LEMMA ReplayStep ==
  ASSUME BrowserInv, NEW t \in Tabs, NEW c \in Calls, Replay(t, c)
  PROVE  BrowserInv'
  <1> DEFINE step == [at |-> "replayed", token |-> access]
             more == \E d \in Calls \ {c} : call[t][d].at = "waiting"
             x == IF more THEN exchange[t] ELSE NoExchange
  <1>1. /\ exchange[t].at = "stored"
        /\ Sets(t, c, step)
        /\ exchange' = [exchange EXCEPT ![t] = x]
        /\ UNCHANGED <<newest, revoked, cookie, access, page, legacy, live,
                       bounced, causes>>
    BY DEF Replay
  <1>2. step \in CallSteps /\ step.at = "replayed"
    BY DEF CallSteps, BrowserInv, SessionsTyped
  <1>3. x \in Exchanges /\ x.at \in {"none", "stored"} /\ (more => x.at = "stored")
    BY <1>1, StepsOfSessions DEF BrowserInv, SessionsTyped
  <1> HIDE DEF step, x
  <1>4. /\ call' \in [Tabs -> [Calls -> CallSteps]]
        /\ call'[t][c] = step
        /\ \A d \in Calls \ {c} : call'[t][d] = call[t][d]
        /\ \A o \in Tabs \ {t} : call'[o] = call[o]
    BY <1>1, <1>2, CallMoves
  <1>5. /\ exchange' \in [Tabs -> Exchanges]
        /\ exchange'[t] = x
        /\ \A o \in Tabs \ {t} : exchange'[o] = exchange[o]
    BY <1>1, <1>3, ExchangeMoves
  <1>6. SessionsTyped'
    BY <1>1, <1>3, <1>4, <1>5 DEF BrowserInv, SessionsTyped
  <1>7. NobodyWaitsAlone'
    BY <1>2, <1>3, <1>4, <1>5 DEF BrowserInv, NobodyWaitsAlone
  <1>8. ~OnTheWire(t) /\ ~(OnTheWire(t)')
    BY <1>1, <1>3, <1>5 DEF OnTheWire
  <1>9. "strayed" \notin causes' => OneByOne'
    BY <1>1, <1>5, <1>8 DEF BrowserInv, OneByOne, OnTheWire
  <1>10. causes' \subseteq {"turned away"} => CookieKept'
    BY <1>1, <1>3, <1>5 DEF BrowserInv, CookieKept, Granting
  <1>11. causes' = {} => Silent'
    BY <1>1, <1>3, <1>5 DEF BrowserInv, Silent
  <1> QED
    BY <1>6, <1>7, <1>9, <1>10, <1>11 DEF BrowserInv

\* An answer of the route moves the exchange that asked, and nothing waits less.
LEMMA AnswersMove ==
  ASSUME BrowserInv, NEW t \in Tabs, NEW token \in Numbered \cup {NoToken},
         NEW at \in {"granted", "denied", "refused"}, Answers(t, at, token)
  PROVE  /\ exchange' \in [Tabs -> Exchanges]
         /\ exchange[t].at = "asked"
         /\ exchange'[t].at = at /\ exchange'[t].token = token
         /\ \A o \in Tabs \ {t} : exchange'[o] = exchange[o]
         /\ UNCHANGED <<revoked, cookie, access, page, call, legacy, bounced>>
         /\ NobodyWaitsAlone'
         /\ \A o \in Tabs : OnTheWire(o)' <=> OnTheWire(o)
  <1>1. [at |-> at, token |-> token] \in Exchanges
    BY DEF Exchanges
  <1>2. /\ exchange[t].at = "asked"
        /\ exchange' = [exchange EXCEPT ![t] = [at |-> at, token |-> token]]
        /\ UNCHANGED <<revoked, cookie, access, page, call, legacy, bounced>>
    BY DEF Answers
  <1>3. /\ exchange' \in [Tabs -> Exchanges]
        /\ exchange'[t] = [at |-> at, token |-> token]
        /\ \A o \in Tabs \ {t} : exchange'[o] = exchange[o]
    BY <1>1, <1>2, ExchangeMoves
  <1>4. NobodyWaitsAlone'
    BY <1>2, <1>3 DEF BrowserInv, NobodyWaitsAlone
  <1>5. \A o \in Tabs : OnTheWire(o)' <=> OnTheWire(o)
    BY <1>2, <1>3 DEF OnTheWire
  <1> QED
    BY <1>2, <1>3, <1>4, <1>5

LEMMA NextToken ==
  ASSUME NEW n \in Numbered, n < MaxTokens
  PROVE  n + 1 \in Numbered
  <1>1. MaxTokens \in Nat
    BY TokensAreNumbers
  <1> QED
    BY <1>1 DEF Numbered

LEMMA RotatesTyped ==
  ASSUME BrowserInv, Rotates \/ UNCHANGED <<newest, live>>
  PROVE  newest' \in Numbered /\ live' \subseteq Numbered
  <1>1. newest \in Numbered /\ live \subseteq Numbered
    BY DEF BrowserInv, SessionsTyped
  <1> QED
    BY <1>1, NextToken DEF Rotates

\* The auth service: an accepted token is the last one, and the next is granted.
LEMMA RotateStep ==
  ASSUME BrowserInv, NEW t \in Tabs, Rotate(t)
  PROVE  BrowserInv'
  <1>1. /\ newest' = newest + 1 /\ Rotates /\ Answers(t, "granted", newest + 1)
        /\ causes' = causes
    BY DEF Rotate, Rotates
  <1>2. newest' \in Numbered /\ live' \subseteq Numbered
    BY <1>1, RotatesTyped
  <1>3. /\ exchange' \in [Tabs -> Exchanges]
        /\ exchange[t].at = "asked"
        /\ exchange'[t].at = "granted" /\ exchange'[t].token = newest'
        /\ \A o \in Tabs \ {t} : exchange'[o] = exchange[o]
        /\ UNCHANGED <<revoked, cookie, access, page, call, legacy, bounced>>
        /\ NobodyWaitsAlone'
        /\ \A o \in Tabs : OnTheWire(o)' <=> OnTheWire(o)
    BY <1>1, <1>2, AnswersMove
  <1>4. SessionsTyped'
    BY <1>1, <1>2, <1>3 DEF BrowserInv, SessionsTyped
  <1>5. ASSUME "strayed" \notin causes' PROVE OneByOne' /\ Granting'
                                  /\ \A o \in Tabs \ {t} : ~OnTheWire(o)
    <2>1. OneByOne
      BY <1>1, <1>5 DEF BrowserInv
    <2>2. \A o \in Tabs \ {t} : ~OnTheWire(o)
      BY <1>3, <2>1 DEF OneByOne, OnTheWire
    <2>3. \A o \in Tabs \ {t} : exchange'[o].at # "granted"
      BY <1>3, <2>2 DEF OnTheWire
    <2>4. \A a, o \in Tabs : OnTheWire(a)' /\ OnTheWire(o)' => a = o
      BY <1>3, <2>2
    <2> QED
      BY <1>3, <2>2, <2>3, <2>4 DEF OneByOne, Granting
  <1>6. ASSUME causes' \subseteq {"turned away"} PROVE CookieKept'
    <2>1. CookieKept /\ Granting' /\ \A o \in Tabs \ {t} : ~OnTheWire(o)
      BY <1>1, <1>5, <1>6 DEF BrowserInv
    <2>2. \A o \in Tabs : exchange'[o].at \notin {"asked", "denied"}
      BY <1>3, <2>1 DEF OnTheWire
    <2> QED
      BY <1>3, <2>1, <2>2 DEF CookieKept
  <1>7. causes' = {} => Silent'
    BY <1>1, <1>3 DEF BrowserInv, Silent
  <1> QED
    BY <1>3, <1>4, <1>5, <1>6, <1>7 DEF BrowserInv

\* An answer that brings no token: whatever has gone before, it is the only one
\* on the wire, or a refresh has strayed.
LEMMA NoTokenComes ==
  ASSUME BrowserInv, NEW t \in Tabs, NEW at \in {"denied", "refused"},
         Answers(t, at, NoToken), Rotates \/ UNCHANGED <<newest, live>>,
         at = "refused" => newest' = newest,
         causes' \subseteq Causes, causes \subseteq causes'
  PROVE  /\ SessionsTyped' /\ NobodyWaitsAlone'
         /\ "strayed" \notin causes' => OneByOne'
  <1>1. newest' \in Numbered /\ live' \subseteq Numbered
    BY RotatesTyped
  <1>2. /\ exchange' \in [Tabs -> Exchanges]
        /\ exchange[t].at = "asked"
        /\ exchange'[t].at = at /\ exchange'[t].token = NoToken
        /\ \A o \in Tabs \ {t} : exchange'[o] = exchange[o]
        /\ UNCHANGED <<revoked, cookie, access, page, call, legacy, bounced>>
        /\ NobodyWaitsAlone'
        /\ \A o \in Tabs : OnTheWire(o)' <=> OnTheWire(o)
    BY AnswersMove
  <1>3. SessionsTyped'
    BY <1>1, <1>2 DEF BrowserInv, SessionsTyped
  <1>4. ASSUME "strayed" \notin causes' PROVE OneByOne'
    <2>1. OneByOne
      BY <1>4 DEF BrowserInv
    <2>2. \A o \in Tabs \ {t} : ~OnTheWire(o)
      BY <1>2, <2>1 DEF OneByOne, OnTheWire
    <2>3. \A o \in Tabs : exchange[o].at \notin {"granted", "denied"}
      BY <1>2, <2>2 DEF OnTheWire
    <2>4. \A o \in Tabs : exchange'[o].at # "granted"
      BY <1>2, <2>3
    <2>5. cookie \in {newest, NoToken}
      BY <2>1, <2>3 DEF OneByOne
    <2>6. \A a, o \in Tabs : OnTheWire(a)' /\ OnTheWire(o)' => a = o
      BY <1>2, <2>2
    <2>7. \/ cookie' \in {newest', NoToken}
          \/ \E o \in Tabs : exchange'[o].at \in {"granted", "denied"}
      BY <1>2, <2>5
    <2> QED
      BY <2>4, <2>6, <2>7 DEF OneByOne
  <1> QED
    BY <1>2, <1>3, <1>4

LEMMA RejectStep ==
  ASSUME BrowserInv, NEW t \in Tabs, Reject(t)
  PROVE  BrowserInv'
  <1>1. /\ exchange[t].token # newest \/ revoked
        /\ Answers(t, "denied", NoToken) /\ UNCHANGED <<newest, live, causes>>
    BY DEF Reject
  <1>2. exchange[t].at = "asked"
    BY <1>1 DEF Answers
  <1>3. ~(causes \subseteq {"turned away"})
    BY <1>1, <1>2 DEF BrowserInv, CookieKept
  <1>4. causes \subseteq Causes
    BY DEF BrowserInv, SessionsTyped
  <1>5. /\ SessionsTyped' /\ NobodyWaitsAlone'
        /\ "strayed" \notin causes' => OneByOne'
    BY <1>1, <1>4, NoTokenComes
  <1> QED
    BY <1>1, <1>3, <1>5 DEF BrowserInv

LEMMA AuthFailsStep ==
  ASSUME BrowserInv, NEW t \in Tabs, AuthFails(t)
  PROVE  BrowserInv'
  <1>1. /\ Rotates \/ UNCHANGED <<newest, live>>
        /\ Answers(t, "denied", NoToken)
        /\ causes' = causes \cup {"cookieless"}
    BY DEF AuthFails
  <1>2. causes' \subseteq Causes /\ causes \subseteq causes'
    BY <1>1 DEF Causes, BrowserInv, SessionsTyped
  <1>3. ~(causes' \subseteq {"turned away"}) /\ causes' # {}
    BY <1>1
  <1>4. /\ SessionsTyped' /\ NobodyWaitsAlone'
        /\ "strayed" \notin causes' => OneByOne'
    BY <1>1, <1>2, NoTokenComes
  <1> QED
    BY <1>3, <1>4 DEF BrowserInv

LEMMA RefuseStep ==
  ASSUME BrowserInv, NEW t \in Tabs, Refuse(t)
  PROVE  BrowserInv'
  <1>1. PICK throttled \in BOOLEAN :
          /\ throttled \/ exchange[t].token = NoToken
          /\ Answers(t, "refused", NoToken)
          /\ causes' = causes \cup (IF throttled THEN {"turned away"} ELSE {})
          /\ UNCHANGED <<newest, live>>
    BY DEF Refuse
  <1>2. causes' \subseteq Causes /\ causes \subseteq causes'
    BY <1>1 DEF Causes, BrowserInv, SessionsTyped
  <1>3. /\ SessionsTyped' /\ NobodyWaitsAlone'
        /\ "strayed" \notin causes' => OneByOne'
    BY <1>1, <1>2, NoTokenComes
  <1>4. /\ exchange[t].at = "asked"
        /\ exchange'[t].at = "refused"
        /\ \A o \in Tabs \ {t} : exchange'[o] = exchange[o]
        /\ UNCHANGED <<revoked, cookie, access, page, call, legacy, bounced>>
    BY <1>1, AnswersMove
  <1>5. newest # NoToken
    BY TokensAreNumbers DEF BrowserInv, SessionsTyped
  <1>6. ASSUME causes' \subseteq {"turned away"} PROVE CookieKept'
    <2>1. CookieKept
      BY <1>2, <1>6 DEF BrowserInv
    <2>2. cookie' = newest' \/ Granting'
      BY <1>1, <1>4, <2>1 DEF CookieKept, Granting
    <2> QED
      BY <1>1, <1>4, <2>1, <2>2 DEF CookieKept
  <1>7. causes' # {}
    <2>1. CASE throttled
      BY <1>1, <2>1
    <2>2. CASE ~throttled
      BY <1>1, <1>4, <1>5, <2>2 DEF BrowserInv, CookieKept
    <2> QED
      BY <2>1, <2>2
  <1> QED
    BY <1>3, <1>6, <1>7 DEF BrowserInv

\* What an exchange becomes when it ends, heard or lost.
LEMMA RefreshEnds ==
  ASSUME BrowserInv, NEW t \in Tabs, NEW at \in {"stored", "failed"},
         exchange' = [exchange EXCEPT ![t] =
           IF \A c \in Calls : call[t][c].at # "waiting" THEN NoExchange
           ELSE [at |-> at, token |-> NoToken]],
         UNCHANGED call
  PROVE  /\ exchange' \in [Tabs -> Exchanges]
         /\ exchange'[t].at \in {"none", at}
         /\ \A o \in Tabs \ {t} : exchange'[o] = exchange[o]
         /\ NobodyWaitsAlone'
  <1> DEFINE x == IF \A c \in Calls : call[t][c].at # "waiting" THEN NoExchange
                  ELSE [at |-> at, token |-> NoToken]
  <1>1. /\ x \in Exchanges /\ x.at \in {"none", at}
        /\ (\E c \in Calls : call[t][c].at = "waiting") => x.at # "none"
    BY StepsOfSessions DEF Exchanges
  <1>2. exchange' = [exchange EXCEPT ![t] = x]
    OBVIOUS
  <1> HIDE DEF x
  <1>3. /\ exchange' \in [Tabs -> Exchanges]
        /\ exchange'[t] = x
        /\ \A o \in Tabs \ {t} : exchange'[o] = exchange[o]
    BY <1>1, <1>2, ExchangeMoves
  <1>4. NobodyWaitsAlone'
    BY <1>1, <1>3 DEF BrowserInv, NobodyWaitsAlone
  <1> QED
    BY <1>1, <1>3, <1>4

LEMMA RefreshAnswerStep ==
  ASSUME BrowserInv, NEW t \in Tabs, RefreshAnswer(t)
  PROVE  BrowserInv'
  <1> PICK x : x = exchange[t]
    OBVIOUS
  <1> PICK at : at = IF x.at = "granted" THEN "stored" ELSE "failed"
    OBVIOUS
  <1>1. /\ x.at \in {"granted", "denied", "refused"}
        /\ cookie' = IF x.at = "refused" THEN cookie ELSE x.token
        /\ access' = IF x.at = "granted" /\ page[t] # "signin" THEN x.token
                                                             ELSE access
        /\ exchange' = [exchange EXCEPT ![t] =
             IF \A c \in Calls : call[t][c].at # "waiting" THEN NoExchange
             ELSE [at |-> at, token |-> NoToken]]
        /\ UNCHANGED <<newest, revoked, page, call, legacy, live, bounced, causes>>
    BY DEF RefreshAnswer
  <1>2. /\ exchange' \in [Tabs -> Exchanges]
        /\ exchange'[t].at \in {"none", at}
        /\ \A o \in Tabs \ {t} : exchange'[o] = exchange[o]
        /\ NobodyWaitsAlone'
    BY <1>1, RefreshEnds
  <1>3. SessionsTyped'
    <2>1. x.token \in Numbered \cup {NoToken}
      BY DEF BrowserInv, SessionsTyped, Exchanges
    <2>2. {cookie', access'} \subseteq Numbered \cup {NoToken}
      BY <1>1, <2>1 DEF BrowserInv, SessionsTyped
    <2> QED
      BY <1>1, <1>2, <2>2 DEF BrowserInv, SessionsTyped
  <1>4. ASSUME "strayed" \notin causes' PROVE OneByOne'
    <2>1. OneByOne
      BY <1>1, <1>4 DEF BrowserInv
    <2>2. \A o \in Tabs \ {t} : ~OnTheWire(o)
      BY <1>1, <2>1 DEF OneByOne, OnTheWire
    <2>3. \A o \in Tabs : ~(OnTheWire(o)')
      BY <1>2, <2>2 DEF OnTheWire
    <2>4. cookie' \in {newest', NoToken}
      <3>1. CASE x.at = "granted"
        BY <1>1, <2>1, <3>1 DEF OneByOne
      <3>2. CASE x.at = "denied"
        BY <1>1, <3>2 DEF BrowserInv, SessionsTyped
      <3>3. CASE x.at = "refused"
        BY <1>1, <2>1, <2>2, <3>3 DEF OneByOne, OnTheWire
      <3> QED
        BY <1>1, <3>1, <3>2, <3>3
    <2> QED
      BY <2>3, <2>4 DEF OneByOne, OnTheWire
  <1>5. ASSUME causes' \subseteq {"turned away"} PROVE CookieKept'
    <2>1. CookieKept /\ OneByOne
      BY <1>1, <1>5 DEF BrowserInv
    <2>2. \A o \in Tabs \ {t} : ~OnTheWire(o)
      BY <1>1, <2>1 DEF OneByOne, OnTheWire
    <2>3. cookie' = newest'
      <3>1. CASE x.at = "granted"
        BY <1>1, <2>1, <3>1 DEF OneByOne
      <3>2. CASE x.at = "refused"
        BY <1>1, <2>1, <2>2, <3>2 DEF CookieKept, Granting, OnTheWire
      <3> QED
        BY <1>1, <2>1, <3>1, <3>2 DEF CookieKept
    <2> QED
      BY <1>1, <1>2, <2>1, <2>3 DEF CookieKept
  <1>6. ASSUME causes' = {} PROVE Silent'
    <2>1. Silent /\ CookieKept
      BY <1>1, <1>6 DEF BrowserInv
    <2>2. x.at = "granted"
      BY <1>1, <2>1 DEF Silent, CookieKept
    <2> QED
      BY <1>1, <1>2, <2>1, <2>2 DEF Silent
  <1> QED
    BY <1>2, <1>3, <1>4, <1>5, <1>6 DEF BrowserInv

LEMMA RefreshLostStep ==
  ASSUME BrowserInv, NEW t \in Tabs, RefreshLost(t)
  PROVE  BrowserInv'
  <1>1. /\ exchange' = [exchange EXCEPT ![t] =
             IF \A c \in Calls : call[t][c].at # "waiting" THEN NoExchange
             ELSE [at |-> "failed", token |-> NoToken]]
        /\ cookie' \in {cookie, exchange[t].token}
        /\ causes' = causes \cup {"strayed"}
        /\ UNCHANGED <<newest, revoked, access, page, call, legacy, live>>
    BY DEF RefreshLost
  <1>2. /\ exchange' \in [Tabs -> Exchanges]
        /\ exchange'[t].at \in {"none", "failed"}
        /\ \A o \in Tabs \ {t} : exchange'[o] = exchange[o]
        /\ NobodyWaitsAlone'
    BY <1>1, RefreshEnds
  <1>3. causes' \subseteq Causes /\ ~(causes' \subseteq {"turned away"})
        /\ causes' # {} /\ "strayed" \in causes'
    BY <1>1 DEF Causes, BrowserInv, SessionsTyped
  <1>4. cookie' \in Numbered \cup {NoToken}
    BY <1>1 DEF BrowserInv, SessionsTyped, Exchanges
  <1>5. SessionsTyped'
    BY <1>1, <1>2, <1>3, <1>4 DEF BrowserInv, SessionsTyped
  <1> QED
    BY <1>2, <1>3, <1>5 DEF BrowserInv

LEMMA MigrateLegacyRefreshTokenStep ==
  ASSUME BrowserInv, NEW t \in Tabs, MigrateLegacyRefreshToken(t)
  PROVE  BrowserInv'
  <1> DEFINE x == [at |-> "asked",
                   token |-> IF cookie # NoToken THEN cookie ELSE legacy]
  <1>1. /\ legacy # NoToken /\ exchange[t] = NoExchange /\ legacy' = NoToken
        /\ exchange' = [exchange EXCEPT ![t] = x]
        /\ causes' = causes \cup Strays(t)
        /\ UNCHANGED <<newest, revoked, cookie, access, page, call, live, bounced>>
    BY DEF MigrateLegacyRefreshToken
  <1>2. x \in Exchanges /\ x.at = "asked"
    BY DEF Exchanges, BrowserInv, SessionsTyped
  <1> HIDE DEF x
  <1>3. /\ exchange' \in [Tabs -> Exchanges]
        /\ exchange'[t] = x
        /\ \A o \in Tabs \ {t} : exchange'[o] = exchange[o]
    BY <1>1, <1>2, ExchangeMoves
  <1>4. causes' \subseteq Causes
    BY <1>1 DEF Strays, Causes, BrowserInv, SessionsTyped
  <1>5. SessionsTyped'
    BY <1>1, <1>2, <1>3, <1>4 DEF BrowserInv, SessionsTyped
  <1>6. NobodyWaitsAlone'
    BY <1>1, <1>2, <1>3 DEF BrowserInv, NobodyWaitsAlone
  <1>7. /\ "strayed" \notin causes' => OneByOne'
        /\ causes' \subseteq {"turned away"} => CookieKept'
        /\ causes' = {} => Silent'
    BY <1>1, <1>2, <1>3, StepsOfSessions, RefreshStarts
  <1> QED
    BY <1>5, <1>6, <1>7 DEF BrowserInv

LEMMA SignOutStep ==
  ASSUME BrowserInv, NEW t \in Tabs, SignOut(t)
  PROVE  BrowserInv'
  <1>1. /\ page' = [page EXCEPT ![t] = "leaving"]
        /\ causes' = causes \cup {"cookieless"}
        /\ UNCHANGED <<newest, cookie, access, call, exchange, legacy, live>>
    BY DEF SignOut
  <1>2. causes' \subseteq Causes /\ causes \subseteq causes'
        /\ ~(causes' \subseteq {"turned away"}) /\ causes' # {}
    BY <1>1 DEF Causes, BrowserInv, SessionsTyped
  <1>3. SessionsTyped' /\ NobodyWaitsAlone'
    BY <1>1, <1>2 DEF BrowserInv, SessionsTyped, NobodyWaitsAlone
  <1>4. "strayed" \notin causes' => OneByOne'
    BY <1>1, <1>2 DEF BrowserInv, OneByOne, OnTheWire
  <1> QED
    BY <1>2, <1>3, <1>4 DEF BrowserInv

LEMMA SignedOutStep ==
  ASSUME BrowserInv, NEW t \in Tabs, NEW heard \in BOOLEAN, NEW revokes \in BOOLEAN,
         SignedOut(t, heard, revokes)
  PROVE  BrowserInv'
  <1>1. /\ page[t] = "leaving" /\ Leave(t)
        /\ cookie' = IF heard THEN NoToken ELSE cookie
        /\ UNCHANGED <<newest, legacy, live, causes>>
    BY DEF SignedOut
  <1>2. ~(causes' \subseteq {"turned away"}) /\ causes' # {}
    BY <1>1 DEF BrowserInv, CookieKept
  <1>3. causes' \subseteq Causes
    BY <1>1 DEF BrowserInv, SessionsTyped
  <1>4. cookie' \in {cookie, NoToken}
    BY <1>1
  <1>5. /\ SessionsTyped' /\ NobodyWaitsAlone'
        /\ "strayed" \notin causes' => OneByOne'
    BY <1>1, <1>3, <1>4, LeaveStep
  <1> QED
    BY <1>2, <1>5 DEF BrowserInv

\* A new family begins with its own cookie.
LEMMA SignInStep ==
  ASSUME BrowserInv, NEW t \in Tabs, SignIn(t)
  PROVE  BrowserInv'
  <1>1. /\ newest < MaxTokens
        /\ newest' = newest + 1 /\ cookie' = newest + 1 /\ access' = newest + 1
        /\ live' = live \cup {newest + 1} /\ revoked' = FALSE
        /\ page' = [page EXCEPT ![t] = "app"]
        /\ \A o \in Tabs : exchange[o] = NoExchange
        /\ UNCHANGED <<call, exchange, legacy, bounced, causes>>
    BY DEF SignIn
  <1>2. newest + 1 \in Numbered
    BY <1>1, NextToken DEF BrowserInv, SessionsTyped
  <1>3. SessionsTyped' /\ NobodyWaitsAlone'
    BY <1>1, <1>2 DEF BrowserInv, SessionsTyped, NobodyWaitsAlone
  <1>4. \A o \in Tabs : exchange'[o].at = "none"
    BY <1>1, StepsOfSessions
  <1>5. OneByOne'
    BY <1>1, <1>4 DEF OneByOne, OnTheWire
  <1>6. causes' \subseteq {"turned away"} => CookieKept'
    BY <1>1, <1>4 DEF BrowserInv, SessionsTyped, CookieKept
  <1>7. causes' = {} => Silent'
    BY <1>1 DEF BrowserInv, Silent
  <1> QED
    BY <1>3, <1>5, <1>6, <1>7 DEF BrowserInv

LEMMA BrowserStep == BrowserInv /\ [SessionsNext]_sessionVars => BrowserInv'
  <1> SUFFICES ASSUME BrowserInv, [SessionsNext]_sessionVars PROVE BrowserInv'
    OBVIOUS
  <1>1. ASSUME UNCHANGED <<newest, revoked, browserVars, bounced, causes>>,
               live' \subseteq live
        PROVE  BrowserInv'
    BY <1>1, BrowserStays
       DEF browserVars, BrowserInv, SessionsTyped, NobodyWaitsAlone
  <1>2. CASE UNCHANGED sessionVars
    BY <1>1, <1>2 DEF sessionVars
  <1>3. CASE AccessExpires
    BY <1>1, <1>3 DEF AccessExpires
  <1> QED
    BY <1>2, <1>3, CallsStep, UnauthorizedStep, BounceStep, ReplayStep,
       RotateStep, RejectStep, AuthFailsStep, RefuseStep, RefreshAnswerStep,
       RefreshLostStep, MigrateLegacyRefreshTokenStep, SignOutStep, SignedOutStep,
       SignInStep
       DEF SessionsNext

\* An expired access token sends nobody to the sign-in page; one whom the throttle
\* or a second 401 sends there keeps his cookie; and unless the refreshes of two
\* tabs overlap or an answer is lost the browser holds the newest token or none,
\* whatever the auth service answers and whoever signs out.  No call is left
\* waiting for a refresh that nobody is making (apiFetch and refreshSession of
\* public/js/app.js, http/auth-routes.mjs).
THEOREM SessionsSurviveExpiry == ServicesSpec => []SessionsInv
  <1>1. ServicesInit => BrowserInv
    BY ServicesBegin, BrowserInit
  <1>2. BrowserInv /\ [ServicesNext]_servicesVars => BrowserInv'
    BY ServicesMove, BrowserStep
  <1>3. BrowserInv => SessionsInv
    BY DEF BrowserInv, SessionsInv, RefreshIsSilent, TurnedAwayKeepsCookie,
           CookieIsCurrent, OneByOne, CookieKept, Silent
  <1> QED
    BY <1>1, <1>2, <1>3, PTL DEF ServicesSpec
-----------------------------------------------------------------------------
\* The audit chain: rows, their numbers and their hashes.

\* A stored hash is that of its row's prev_hash and of some contents.
IsAuditRow(row) ==
  /\ row \in [seq : 1 .. MaxAuditRows, by : Writers, contents : Payloads,
              prev : Seq(Texts), hash : Seq(Texts)]
  /\ \E x \in Texts : row.hash = Append(row.prev, x)

ChainTyped ==
  /\ IsFiniteSet(rows)
  /\ \A row \in rows : IsAuditRow(row) /\ row.seq <= chainSeq
  /\ \A r, q \in rows : r.seq = q.seq => r = q
  /\ writer \in [Writers -> {"open", "committed", "aborted"}]
  /\ drawn \in [Writers -> 0 .. MaxAuditRows]
  /\ chainSeq \in 0 .. MaxAuditRows
  /\ \A w \in Writers : drawn[w] # 0 =>
       /\ drawn[w] <= chainSeq /\ writer[w] = "open"
       /\ \A row \in rows : row.seq # drawn[w]
       /\ \A o \in Writers \ {w} : drawn[o] # drawn[w]
  /\ \A row \in rows : writer[row.by] # "aborted"

Smaller(row) == {r \in rows : r.seq < row.seq}

\* While writers take turns and nobody touches a row, the rows of the one who
\* writes are the last ones, and each is linked to the one before.
ChainLinked ==
  /\ \A w, o \in Writers : Writing(w) /\ Writing(o) => w = o
  /\ \A w \in Writers : drawn[w] # 0 => \A row \in rows : row.seq < drawn[w]
  /\ \A r, q \in rows :
       writer[r.by] = "committed" /\ writer[q.by] = "open" => r.seq < q.seq
  /\ \A row \in rows :
       /\ row.prev = LastHash(Smaller(row))
       /\ row.hash = RowHash(row.prev, row.contents)

ChainInv == ChainTyped /\ (~crossed /\ tampered = {} => ChainLinked)

LEMMA TextsAreTexts == \A x \in Payloads : SqlText[x] \in Texts /\ JsText[x] \in Texts
  BY AuditChainAssumption

\* A set of rows that is not empty has a last one.
LEMMA LastRow ==
  ASSUME ChainTyped, NEW S \in SUBSET rows, S # {},
         NEW last, last = CHOOSE row \in S : \A r \in S : r.seq <= row.seq
  PROVE  last \in S /\ \A r \in S : r.seq <= last.seq
  <1> DEFINE N == {r.seq : r \in S}
  <1>1. N \in SUBSET (0 .. MaxAuditRows) /\ N # {} /\ MaxAuditRows \in Nat
    <2>1. \A r \in S : r.seq \in 1 .. MaxAuditRows
      BY DEF ChainTyped, IsAuditRow
    <2> QED
      BY <2>1, AuditChainAssumption
  <1>2. Max(N) \in N /\ \A y \in N : Max(N) >= y
    BY <1>1, GreatestNumber
  <1>3. PICK m \in S : m.seq = Max(N)
    BY <1>2
  <1>4. \A r \in S : r.seq \in N /\ r.seq \in Nat /\ m.seq \in Nat
    BY <1>1
  <1>5. \A r \in S : r.seq <= m.seq
    BY <1>2, <1>3, <1>4
  <1> QED
    BY <1>3, <1>5

LEMMA LastHashTyped ==
  ASSUME ChainTyped, NEW S \in SUBSET rows
  PROVE  LastHash(S) \in Seq(Texts)
  <1>1. CASE S = {}
    BY <1>1 DEF LastHash
  <1>2. CASE S # {}
    <2> DEFINE last == CHOOSE row \in S : \A r \in S : r.seq <= row.seq
    <2>1. last \in S
      BY <1>2, LastRow
    <2>2. LastHash(S) = last.hash
      BY <1>2 DEF LastHash
    <2> QED
      BY <2>1, <2>2 DEF ChainTyped, IsAuditRow
  <1> QED
    BY <1>1, <1>2

LEMMA ChainInit == AuditChainInit => ChainInv
  <1> SUFFICES ASSUME AuditChainInit PROVE ChainInv
    OBVIOUS
  <1>1. IsFiniteSet({})
    BY FS_EmptySet
  <1>2. ChainTyped
    BY <1>1, AuditChainAssumption DEF AuditChainInit, ChainTyped
  <1>3. ChainLinked
    BY DEF AuditChainInit, ChainLinked, Writing
  <1> QED
    BY <1>2, <1>3 DEF ChainInv

LEMMA DrawStep ==
  ASSUME ChainInv, NEW w \in Writers, Draw(w)
  PROVE  ChainInv'
  <1>1. /\ writer[w] = "open" /\ drawn[w] = 0 /\ chainSeq < MaxAuditRows
        /\ chainSeq' = chainSeq + 1
        /\ drawn' = [drawn EXCEPT ![w] = chainSeq + 1]
        /\ crossed' = (crossed \/ \E other \in Writers \ {w} : Writing(other))
        /\ UNCHANGED <<rows, writer, tampered>>
    BY DEF Draw
  <1>2. ChainTyped /\ chainSeq \in Nat /\ MaxAuditRows \in Nat
    BY AuditChainAssumption DEF ChainInv, ChainTyped
  <1>3. /\ drawn' \in [Writers -> 0 .. MaxAuditRows]
        /\ drawn'[w] = chainSeq + 1
        /\ \A o \in Writers \ {w} : drawn'[o] = drawn[o]
    BY <1>1, <1>2 DEF ChainTyped
  <1>4. \A row \in rows : row.seq \in Nat /\ row.seq <= chainSeq
    BY <1>2 DEF ChainTyped, IsAuditRow
  <1>5. ChainTyped'
    <2>1. \A o \in Writers : drawn[o] \in Nat /\ (drawn[o] # 0 => drawn[o] <= chainSeq)
      BY <1>2 DEF ChainTyped
    <2>2. \A o \in Writers : drawn'[o] # 0 =>
            /\ drawn'[o] <= chainSeq' /\ writer'[o] = "open"
            /\ \A row \in rows' : row.seq # drawn'[o]
            /\ \A p \in Writers \ {o} : drawn'[p] # drawn'[o]
      BY <1>1, <1>2, <1>3, <1>4, <2>1 DEF ChainTyped
    <2>3. chainSeq' \in 0 .. MaxAuditRows
      BY <1>1, <1>2
    <2>4. \A row \in rows' : IsAuditRow(row) /\ row.seq <= chainSeq'
      BY <1>1, <1>2, <1>4 DEF ChainTyped
    <2> QED
      BY <1>1, <1>2, <1>3, <2>2, <2>3, <2>4 DEF ChainTyped, IsAuditRow
  <1>6. ASSUME ~crossed', tampered' = {} PROVE ChainLinked'
    <2>1. ChainLinked /\ \A o \in Writers \ {w} : ~ Writing(o)
      BY <1>1, <1>6 DEF ChainInv
    <2>2. \A o \in Writers \ {w} : ~ Writing(o)'
      BY <1>1, <1>3, <2>1 DEF Writing
    <2>3. \A o \in Writers : drawn'[o] # 0 => \A row \in rows : row.seq < drawn'[o]
      BY <1>2, <1>3, <1>4, <2>1 DEF ChainLinked
    <2> QED
      BY <1>1, <2>1, <2>2, <2>3 DEF ChainLinked, Smaller
  <1> QED
    BY <1>5, <1>6 DEF ChainInv
\* The new row is last of all its writer sees, and he sees all there is unless
\* another has drawn beside him.
LEMMA LinkStep ==
  ASSUME ChainInv, NEW w \in Writers, NEW x \in Payloads, Link(w, x)
  PROVE  ChainInv'
  <1> PICK prev : prev = PrevHash(w)
    OBVIOUS
  <1> PICK new : new = [seq |-> drawn[w], by |-> w, contents |-> x,
                        prev |-> prev, hash |-> RowHash(prev, x)]
    OBVIOUS
  <1>1. /\ drawn[w] # 0 /\ rows' = rows \cup {new}
        /\ drawn' = [drawn EXCEPT ![w] = 0]
        /\ UNCHANGED <<writer, chainSeq, tampered, crossed>>
    BY DEF Link
  <1>2. ChainTyped /\ MaxAuditRows \in Nat
    BY AuditChainAssumption DEF ChainInv
  <1>3. /\ drawn[w] \in 1 .. MaxAuditRows /\ drawn[w] <= chainSeq
        /\ writer[w] = "open" /\ \A row \in rows : row.seq # drawn[w]
    BY <1>1, <1>2 DEF ChainTyped
  <1>4. prev \in Seq(Texts)
    <2>1. Before(w) \in SUBSET rows
      BY DEF Before, Visible
    <2> QED
      BY <1>2, <2>1, LastHashTyped DEF PrevHash
  <1>5. /\ new.seq = drawn[w] /\ new.by = w /\ new.contents = x
        /\ new.prev = prev /\ new.hash = RowHash(prev, x)
        /\ IsAuditRow(new)
    <2> PICK text \in Texts : text = SqlText[x]
      BY TextsAreTexts
    <2>1. RowHash(prev, x) = Append(prev, text)
      BY DEF RowHash
    <2>2. Append(prev, text) \in Seq(Texts)
      BY <1>4, AppendProperties
    <2> QED
      BY <1>3, <1>4, <2>1, <2>2 DEF IsAuditRow
  <1>6. /\ drawn' \in [Writers -> 0 .. MaxAuditRows]
        /\ drawn'[w] = 0
        /\ \A o \in Writers \ {w} : drawn'[o] = drawn[o]
    BY <1>1, <1>2 DEF ChainTyped
  <1>7. ChainTyped'
    <2>1. IsFiniteSet(rows')
      BY <1>1, <1>2, FS_AddElement DEF ChainTyped
    <2>2. \A row \in rows' : IsAuditRow(row) /\ row.seq <= chainSeq
      BY <1>1, <1>2, <1>3, <1>5 DEF ChainTyped
    <2>3. \A r, q \in rows' : r.seq = q.seq => r = q
      <3>1. \A r, q \in rows : r.seq = q.seq => r = q
        BY <1>2 DEF ChainTyped
      <3>2. \A r \in rows : r.seq # new.seq
        BY <1>3, <1>5
      <3> QED
        BY SMTT(30), <1>1, <3>1, <3>2
    <2>4. \A o \in Writers : drawn'[o] # 0 =>
            /\ drawn'[o] <= chainSeq /\ writer[o] = "open"
            /\ \A row \in rows' : row.seq # drawn'[o]
            /\ \A p \in Writers \ {o} : drawn'[p] # drawn'[o]
      BY <1>1, <1>2, <1>5, <1>6 DEF ChainTyped
    <2>5. \A row \in rows' : writer[row.by] # "aborted"
      BY <1>1, <1>2, <1>3, <1>5 DEF ChainTyped
    <2> QED
      BY <1>1, <1>2, <1>6, <2>1, <2>2, <2>3, <2>4, <2>5
         DEF ChainTyped, IsAuditRow
  <1>8. ASSUME ~crossed', tampered' = {} PROVE ChainLinked'
    <2>1. ChainLinked
      BY <1>1, <1>8 DEF ChainInv
    <2>2. Writing(w)
      BY <1>1, <1>3 DEF Writing
    <2>3. \A row \in rows : row.seq < drawn[w]
      BY <1>1, <2>1 DEF ChainLinked
    <2>4. \A row \in rows : row.by = w \/ writer[row.by] = "committed"
      <3> TAKE row \in rows
      <3>1. row.by \in Writers /\ writer[row.by] \in {"open", "committed"}
        BY <1>2 DEF ChainTyped, IsAuditRow
      <3>2. writer[row.by] = "open" => Writing(row.by)
        BY DEF Writing
      <3> QED
        BY <2>1, <2>2, <3>1, <3>2 DEF ChainLinked
    <2>5. Before(w) = rows
      BY <2>3, <2>4 DEF Before, Visible
    <2>6. Smaller(new)' = rows
      <3>1. new.seq \in Nat /\ \A row \in rows : row.seq < new.seq
        BY <1>3, <1>5, <2>3
      <3>2. ~ (new.seq < new.seq)
        BY <3>1
      <3> QED
        BY <1>1, <3>1, <3>2 DEF Smaller
    <2>7. \A row \in rows : Smaller(row)' = Smaller(row)
      <3> TAKE row \in rows
      <3>1. row.seq \in Nat /\ drawn[w] \in Nat
        BY <1>2, <1>3 DEF ChainTyped, IsAuditRow
      <3>2. ~ (new.seq < row.seq)
        BY <1>5, <2>3, <3>1
      <3> QED
        BY <1>1, <3>2 DEF Smaller
    <2>8. \A row \in rows' : /\ row.prev = LastHash(Smaller(row)')
                             /\ row.hash = RowHash(row.prev, row.contents)
      BY <1>1, <1>5, <2>1, <2>5, <2>6, <2>7 DEF ChainLinked, PrevHash
    <2>9. \A o \in Writers : Writing(o)' => Writing(o)
      BY <1>1, <1>5, <1>6, <2>2 DEF Writing
    <2>10. \A o \in Writers : drawn'[o] # 0 => \A row \in rows' : row.seq < drawn'[o]
      <3>1. ASSUME NEW o \in Writers, drawn'[o] # 0 PROVE FALSE
        <4>1. o # w /\ drawn[o] # 0
          BY <1>6, <3>1
        <4>2. Writing(o)
          BY <1>2, <4>1 DEF Writing, ChainTyped
        <4> QED
          BY <2>1, <2>2, <4>1, <4>2 DEF ChainLinked
      <3> QED
        BY <3>1
    <2>11. \A r, q \in rows' :
             writer[r.by] = "committed" /\ writer[q.by] = "open" => r.seq < q.seq
      BY <1>1, <1>3, <1>5, <2>1, <2>3 DEF ChainLinked
    <2>12. \A row \in rows' : row.prev = LastHash(Smaller(row))'
      BY <2>8 DEF LastHash
    <2> QED
      BY <1>1, <2>1, <2>8, <2>9, <2>10, <2>11, <2>12 DEF ChainLinked
  <1> QED
    BY <1>7, <1>8 DEF ChainInv

LEMMA CommitStep ==
  ASSUME ChainInv, NEW w \in Writers, Commit(w)
  PROVE  ChainInv'
  <1>1. /\ writer[w] = "open" /\ drawn[w] = 0
        /\ writer' = [writer EXCEPT ![w] = "committed"]
        /\ UNCHANGED <<rows, drawn, chainSeq, tampered, crossed>>
    BY DEF Commit
  <1>2. ChainTyped
    BY DEF ChainInv
  <1>3. /\ writer' \in [Writers -> {"open", "committed", "aborted"}]
        /\ writer'[w] = "committed"
        /\ \A o \in Writers \ {w} : writer'[o] = writer[o]
    BY <1>1, <1>2 DEF ChainTyped
  <1>4. \A row \in rows : row.by \in Writers
    BY <1>2 DEF ChainTyped, IsAuditRow
  <1>5. ChainTyped'
    BY <1>1, <1>2, <1>3, <1>4 DEF ChainTyped, IsAuditRow
  <1>6. ASSUME ~crossed', tampered' = {} PROVE ChainLinked'
    <2>1. ChainLinked
      BY <1>1, <1>6 DEF ChainInv
    <2>2. \A o \in Writers : Writing(o)' => Writing(o)
      BY <1>1, <1>3 DEF Writing
    <2>3. \A r, q \in rows :
            writer'[r.by] = "committed" /\ writer'[q.by] = "open" => r.seq < q.seq
      <3> SUFFICES ASSUME NEW r \in rows, NEW q \in rows,
                          writer'[r.by] = "committed", writer'[q.by] = "open"
                   PROVE  r.seq < q.seq
        OBVIOUS
      <3>1. q.by # w /\ writer[q.by] = "open" /\ Writing(q.by)
        BY <1>3, <1>4 DEF Writing
      <3>2. r.by # w
        BY <1>1, <1>4, <2>1, <3>1 DEF ChainLinked, Writing
      <3> QED
        BY <1>3, <1>4, <2>1, <3>1, <3>2 DEF ChainLinked
    <2>4. \A row \in rows : LastHash(Smaller(row))' = LastHash(Smaller(row))
      BY <1>1 DEF LastHash, Smaller
    <2> QED
      BY <1>1, <2>1, <2>2, <2>3, <2>4 DEF ChainLinked
  <1> QED
    BY <1>5, <1>6 DEF ChainInv

\* Fewer rows are as well typed.
LEMMA FewerRows ==
  ASSUME ChainTyped, rows' \subseteq rows, UNCHANGED <<writer, drawn, chainSeq>>
  PROVE  ChainTyped'
  <1>1. IsFiniteSet(rows')
    BY FS_Subset DEF ChainTyped
  <1> QED
    BY <1>1 DEF ChainTyped, IsAuditRow

\* The rows that go with a transaction are the last ones.
LEMMA AbortStep ==
  ASSUME ChainInv, NEW w \in Writers, Abort(w)
  PROVE  ChainInv'
  <1>1. /\ writer[w] = "open"
        /\ writer' = [writer EXCEPT ![w] = "aborted"]
        /\ rows' = {row \in rows : row.by # w}
        /\ drawn' = [drawn EXCEPT ![w] = 0]
        /\ UNCHANGED <<chainSeq, tampered, crossed>>
    BY DEF Abort
  <1>2. ChainTyped /\ MaxAuditRows \in Nat
    BY AuditChainAssumption DEF ChainInv
  <1>3. /\ writer' \in [Writers -> {"open", "committed", "aborted"}]
        /\ writer'[w] = "aborted"
        /\ \A o \in Writers \ {w} : writer'[o] = writer[o]
        /\ drawn' \in [Writers -> 0 .. MaxAuditRows]
        /\ drawn'[w] = 0
        /\ \A o \in Writers \ {w} : drawn'[o] = drawn[o]
    BY <1>1, <1>2 DEF ChainTyped
  <1>4. \A row \in rows : row.by \in Writers /\ row.seq \in Nat
    BY <1>2 DEF ChainTyped, IsAuditRow
  <1>5. ChainTyped'
    <2>1. IsFiniteSet(rows')
      BY <1>1, <1>2, FS_Subset DEF ChainTyped
    <2>2. \A row \in rows' : writer'[row.by] # "aborted"
      BY <1>1, <1>2, <1>3, <1>4 DEF ChainTyped
    <2>3. \A o \in Writers : drawn'[o] # 0 =>
            /\ drawn'[o] <= chainSeq /\ writer'[o] = "open"
            /\ \A row \in rows' : row.seq # drawn'[o]
            /\ \A p \in Writers \ {o} : drawn'[p] # drawn'[o]
      BY <1>1, <1>2, <1>3 DEF ChainTyped
    <2> QED
      BY <1>1, <1>2, <1>3, <2>1, <2>2, <2>3 DEF ChainTyped, IsAuditRow
  <1>6. ASSUME ~crossed', tampered' = {} PROVE ChainLinked'
    <2>1. ChainLinked
      BY <1>1, <1>6 DEF ChainInv
    <2>2. \A o \in Writers : Writing(o)' => Writing(o)
      BY <1>1, <1>3 DEF Writing
    <2>3. \A row \in rows' : Smaller(row)' = Smaller(row)
      <3> SUFFICES ASSUME NEW row \in rows' PROVE Smaller(row) \subseteq rows'
        BY <1>1 DEF Smaller
      <3>1. ASSUME NEW r \in rows, r.seq < row.seq, r.by = w PROVE FALSE
        <4>1. Writing(w) /\ row.by \in Writers /\ row.by # w
          BY <1>1, <1>4, <3>1 DEF Writing
        <4>2. writer[row.by] # "open"
          BY <1>1, <2>1, <4>1 DEF ChainLinked, Writing
        <4>3. writer[row.by] = "committed"
          BY <1>1, <1>2, <4>1, <4>2 DEF ChainTyped
        <4>4. row.seq < r.seq
          BY <1>1, <2>1, <3>1, <4>3 DEF ChainLinked
        <4> QED
          BY <1>1, <1>4, <3>1, <4>4
      <3> QED
        BY <1>1, <3>1 DEF Smaller
    <2>4. \A row \in rows' : LastHash(Smaller(row))' = LastHash(Smaller(row))
      <3>1. \A row \in rows' : LastHash(Smaller(row)') = LastHash(Smaller(row))
        BY <2>3
      <3>2. \A row : LastHash(Smaller(row))' = LastHash(Smaller(row)')
        BY DEF LastHash
      <3> QED
        BY <3>1, <3>2
    <2> QED
      BY <1>1, <1>3, <1>4, <2>1, <2>2, <2>4 DEF ChainLinked
  <1> QED
    BY <1>5, <1>6 DEF ChainInv

LEMMA EraseStep ==
  ASSUME ChainInv, NEW row \in rows, Erase(row)
  PROVE  ChainInv'
  BY FewerRows DEF Erase, ChainInv

LEMMA TamperStep ==
  ASSUME ChainInv, NEW row \in rows, NEW x \in Payloads, Tamper(row, x)
  PROVE  ChainInv'
  <1> PICK new : new = [row EXCEPT !.contents = x]
    OBVIOUS
  <1>1. /\ rows' = (rows \ {row}) \cup {new}
        /\ tampered' = tampered \cup {row.seq}
        /\ UNCHANGED <<writer, drawn, chainSeq, crossed>>
    BY DEF Tamper
  <1>2. ChainTyped
    BY DEF ChainInv
  <1>3. IsAuditRow(row) /\ row.seq <= chainSeq
    BY <1>2 DEF ChainTyped
  <1>4. /\ IsAuditRow(new) /\ new.seq = row.seq /\ new.by = row.by
    BY <1>3 DEF IsAuditRow
  <1>5. IsFiniteSet(rows')
    BY <1>1, <1>2, FS_AddElement, FS_RemoveElement DEF ChainTyped
  <1>6. /\ \A r \in rows' : IsAuditRow(r) /\ r.seq <= chainSeq
                           /\ writer[r.by] # "aborted"
        /\ \A r, q \in rows' : r.seq = q.seq => r = q
        /\ \A w \in Writers : drawn[w] # 0 => \A r \in rows' : r.seq # drawn[w]
    <2>1. /\ \A r \in rows : IsAuditRow(r) /\ r.seq <= chainSeq
                             /\ writer[r.by] # "aborted"
          /\ \A r, q \in rows : r.seq = q.seq => r = q
          /\ \A w \in Writers : drawn[w] # 0 => \A r \in rows : r.seq # drawn[w]
      BY <1>2 DEF ChainTyped
    <2>2. \A r \in rows \ {row} : r.seq # new.seq
      BY <1>4, <2>1
    <2> QED
      BY <1>1, <1>3, <1>4, <2>1, <2>2
  <1>7. ChainTyped'
    BY <1>1, <1>2, <1>5, <1>6 DEF ChainTyped, IsAuditRow
  <1> QED
    BY <1>1, <1>7 DEF ChainInv

LEMMA ChainStep == ChainInv /\ [AuditChainNext]_auditChainVars => ChainInv'
  <1> SUFFICES ASSUME ChainInv, [AuditChainNext]_auditChainVars PROVE ChainInv'
    OBVIOUS
  <1>1. CASE UNCHANGED auditChainVars
    <2>1. UNCHANGED <<rows, writer, drawn, chainSeq, tampered, crossed>>
      BY <1>1 DEF auditChainVars
    <2>2. ChainTyped'
      BY <2>1, FewerRows DEF ChainInv
    <2>3. ChainLinked' <=> ChainLinked
      BY <2>1 DEF ChainLinked, Writing, LastHash, Smaller
    <2> QED
      BY <2>1, <2>2, <2>3 DEF ChainInv
  <1> QED
    BY <1>1, DrawStep, CommitStep, AbortStep, LinkStep, EraseStep, TamperStep
       DEF AuditChainNext
\* The rows a verification reads are the first of those that are stored.
LEMMA FetchedFirst ==
  ASSUME ChainTyped
  PROVE  /\ Fetched \subseteq Stored /\ Stored \subseteq rows
         /\ IsFiniteSet(Stored) /\ IsFiniteSet(Fetched)
         /\ \A q \in Fetched, r \in Stored : r.seq <= q.seq => r \in Fetched
  <1>1. Fetched \subseteq Stored /\ Stored \subseteq rows
    BY DEF Fetched, Stored
  <1>2. IsFiniteSet(Stored) /\ IsFiniteSet(Fetched)
    BY <1>1, FS_Subset DEF ChainTyped
  <1>3. ASSUME NEW q \in Fetched, NEW r \in Stored, r.seq <= q.seq
        PROVE  r \in Fetched
    <2> DEFINE below(n) == {s \in Stored : s.seq <= n}
    <2>1. \A s \in Stored : s.seq \in Nat
      BY <1>1 DEF ChainTyped, IsAuditRow
    <2>2. below(r.seq) \subseteq below(q.seq)
      BY <1>1, <1>3, <2>1
    <2>3. IsFiniteSet(below(q.seq)) /\ IsFiniteSet(below(r.seq))
      BY <1>2, FS_Subset
    <2>4. Cardinality(below(r.seq)) <= Cardinality(below(q.seq))
      BY <2>2, <2>3, FS_Subset
    <2>5. Cardinality(below(q.seq)) <= VerifyLimit
      BY <1>3 DEF Fetched
    <2>6. /\ Cardinality(below(r.seq)) \in Nat /\ Cardinality(below(q.seq)) \in Nat
          /\ VerifyLimit \in Nat
      BY <2>3, FS_CardinalityType, AuditChainAssumption
    <2>7. Cardinality(below(r.seq)) <= VerifyLimit
      BY <2>4, <2>5, <2>6
    <2> QED
      BY <1>3, <2>7 DEF Fetched
  <1> QED
    BY <1>1, <1>2, <1>3

\* A fetched row stands where as many rows go before it: its history is that of
\* the row before, and its own contents.
LEMMA HistoryGrows ==
  ASSUME ChainTyped, NEW row \in Fetched
  PROVE  /\ Predecessors(row) = {} => History(row) = Append(<<>>, JsonbText(row))
         /\ Predecessors(row) # {} =>
              \E p \in Predecessors(row) :
                /\ LastHash(Predecessors(row)) = p.hash
                /\ History(row) = [i \in 1 .. Cardinality(UpTo(p)) + 1 |->
                     IF i = Cardinality(UpTo(p)) + 1 THEN JsonbText(row)
                                                   ELSE History(p)[i]]
                /\ Cardinality(UpTo(p)) \in Nat
  <1>1. /\ Fetched \subseteq rows /\ IsFiniteSet(Fetched)
        /\ \A r \in Fetched : r.seq \in Nat
        /\ \A r, q \in Fetched : r.seq = q.seq => r = q
    BY FetchedFirst DEF ChainTyped, IsAuditRow
  <1>2. \A r \in Fetched : IsFiniteSet(UpTo(r)) /\ Cardinality(UpTo(r)) \in Nat
    BY <1>1, FS_Subset, FS_CardinalityType DEF UpTo
  <1>3. ASSUME NEW r \in Fetched, NEW q \in Fetched,
               Cardinality(UpTo(r)) = Cardinality(UpTo(q))
        PROVE  r = q
    <2>1. UpTo(r) \subseteq UpTo(q) \/ UpTo(q) \subseteq UpTo(r)
      <3>1. CASE r.seq <= q.seq
        BY <1>1, <3>1 DEF UpTo
      <3>2. CASE q.seq <= r.seq
        BY <1>1, <3>2 DEF UpTo
      <3> QED
        BY <1>1, <3>1, <3>2
    <2>2. UpTo(r) = UpTo(q)
      BY <1>2, <1>3, <2>1, FS_Subset
    <2>3. r \in UpTo(r) /\ q \in UpTo(q)
      BY <1>1 DEF UpTo
    <2>4. r.seq <= q.seq /\ q.seq <= r.seq
      BY <2>2, <2>3 DEF UpTo
    <2> QED
      BY <1>1, <2>4
  <1>4. \A r \in Fetched : RowAt(Cardinality(UpTo(r))) = r
    <2> TAKE r \in Fetched
    <2>1. RowAt(Cardinality(UpTo(r))) \in Fetched
          /\ Cardinality(UpTo(RowAt(Cardinality(UpTo(r))))) = Cardinality(UpTo(r))
      BY DEF RowAt
    <2> QED
      BY <1>3, <2>1
  <1>5. UpTo(row) = Predecessors(row) \cup {row} /\ row \notin Predecessors(row)
    <2>1. \A r \in Fetched : r.seq <= row.seq <=> r.seq < row.seq \/ r = row
      BY <1>1
    <2>2. ~ (row.seq < row.seq)
      BY <1>1
    <2> QED
      BY <2>1, <2>2 DEF UpTo, Predecessors
  <1>6. CASE Predecessors(row) = {}
    <2>1. UpTo(row) = {row} /\ Cardinality(UpTo(row)) = 1
      BY <1>5, <1>6, FS_Singleton
    <2>2. RowAt(1) = row
      BY <1>4, <2>1
    <2>3. History(row) = [i \in 1 .. 1 |-> JsonbText(RowAt(i))]
      BY <2>1 DEF History
    <2>4. \A i \in 1 .. 1 : JsonbText(RowAt(i)) = JsonbText(row)
      BY <2>2
    <2>5. History(row) = <<JsonbText(row)>>
      BY <2>3, <2>4
    <2> QED
      BY <1>6, <2>5
  <1>7. CASE Predecessors(row) # {}
    <2> DEFINE p == CHOOSE q \in Predecessors(row) :
                      \A r \in Predecessors(row) : r.seq <= q.seq
               n == Cardinality(UpTo(p))
    <2>1. p \in Predecessors(row) /\ \A r \in Predecessors(row) : r.seq <= p.seq
      <3>1. Predecessors(row) \in SUBSET rows
        BY <1>1 DEF Predecessors
      <3> QED
        BY <1>7, <3>1, LastRow
    <2>2. LastHash(Predecessors(row)) = p.hash
      BY <1>7 DEF LastHash
    <2> HIDE DEF p
    <2>3. p \in Fetched /\ p.seq < row.seq
      BY <2>1 DEF Predecessors
    <2>4. UpTo(p) = Predecessors(row)
      <3>1. \A r \in Fetched : r.seq <= p.seq => r.seq < row.seq
        BY <1>1, <2>3
      <3> QED
        BY <2>1, <3>1 DEF UpTo, Predecessors
    <2>5. Cardinality(UpTo(row)) = n + 1 /\ n \in Nat
      BY <1>2, <1>5, <2>3, <2>4, FS_AddElement
    <2>6. RowAt(n + 1) = row
      BY <1>4, <2>5
    <2>7. History(row) = [i \in 1 .. n + 1 |-> JsonbText(RowAt(i))]
      BY <2>5 DEF History
    <2>8. History(p) = [i \in 1 .. n |-> JsonbText(RowAt(i))]
      BY DEF History
    <2> HIDE DEF n
    <2>9. History(row) = [i \in 1 .. n + 1 |->
                           IF i = n + 1 THEN JsonbText(row) ELSE History(p)[i]]
      BY <2>5, <2>6, <2>7, <2>8
    <2> QED
      BY <2>1, <2>2, <2>5, <2>9, <1>7 DEF n
  <1> QED
    BY <1>6, <1>7

\* The same with Append, once the history before is a sequence of texts.
LEMMA HistoryAppends ==
  ASSUME ChainTyped, NEW row \in Fetched
  PROVE  /\ Predecessors(row) = {} => /\ LastHash(Predecessors(row)) = <<>>
                                      /\ History(row) = Append(<<>>, JsonbText(row))
         /\ Predecessors(row) # {} =>
              \E p \in Predecessors(row) :
                /\ LastHash(Predecessors(row)) = p.hash
                /\ History(row) = Append(History(p), JsonbText(row))
  <1>1. CASE Predecessors(row) = {}
    BY <1>1, HistoryGrows DEF LastHash
  <1>2. CASE Predecessors(row) # {}
    <2>1. PICK p \in Predecessors(row) :
            /\ LastHash(Predecessors(row)) = p.hash
            /\ History(row) = [i \in 1 .. Cardinality(UpTo(p)) + 1 |->
                 IF i = Cardinality(UpTo(p)) + 1 THEN JsonbText(row)
                                               ELSE History(p)[i]]
            /\ Cardinality(UpTo(p)) \in Nat
      BY <1>2, HistoryGrows
    <2>2. PICK n, h : n = Cardinality(UpTo(p)) /\ h = History(p)
      OBVIOUS
    <2>3. /\ n \in Nat /\ h = [i \in 1 .. n |-> JsonbText(RowAt(i))]
          /\ History(row) = [i \in 1 .. n + 1 |->
               IF i = n + 1 THEN JsonbText(row) ELSE h[i]]
      BY <2>1, <2>2 DEF History
    <2>4. PICK S : \A i \in 1 .. n : JsonbText(RowAt(i)) \in S
      <3>1. \A i \in 1 .. n : JsonbText(RowAt(i)) \in {JsonbText(RowAt(j)) : j \in 1 .. n}
        OBVIOUS
      <3> QED
        BY <3>1
    <2>5. h \in Seq(S) /\ Len(h) = n
      BY <2>3, <2>4
    <2>6. Append(h, JsonbText(row)) = [i \in 1 .. n + 1 |->
               IF i = n + 1 THEN JsonbText(row) ELSE h[i]]
      <3> PICK text : text = JsonbText(row)
        OBVIOUS
      <3> PICK T : T = S \cup {text}
        OBVIOUS
      <3> PICK a : a = Append(h, text)
        OBVIOUS
      <3>1. h \in Seq(T) /\ text \in T
        BY <2>5
      <3>2. /\ a \in Seq(T) /\ Len(a) = n + 1
            /\ \A i \in 1 .. n : a[i] = h[i]
            /\ a[n + 1] = text
        BY <2>5, <3>1, AppendProperties
      <3>3. a = [i \in 1 .. n + 1 |-> a[i]]
        <4>1. a \in [1 .. n + 1 -> T]
          BY <3>2, LenProperties
        <4> QED
          BY <4>1
      <3>4. \A i \in 1 .. n + 1 : a[i] = IF i = n + 1 THEN text ELSE h[i]
        BY <2>3, <3>2
      <3>5. a = [i \in 1 .. n + 1 |-> IF i = n + 1 THEN text ELSE h[i]]
        BY <3>3, <3>4
      <3> QED
        BY <3>5
    <2> QED
      BY <1>2, <2>1, <2>2, <2>3, <2>6
  <1> QED
    BY <1>1, <1>2

\* Were one fetched row accepted with the wrong hash, the first such row would
\* follow one with the right hash.
LEMMA AcceptedIsHistory ==
  ASSUME ChainTyped, VerifyDbChain
  PROVE  \A row \in Fetched : row.hash = History(row)
  <1> DEFINE Wrong == {row \in Fetched : row.hash # History(row)}
             N     == {row.seq : row \in Wrong}
  <1> SUFFICES ASSUME Wrong # {} PROVE FALSE
    OBVIOUS
  <1>1. \A row \in Fetched : row.seq \in Nat
    BY FetchedFirst DEF ChainTyped, IsAuditRow
  <1>2. N \in SUBSET Nat /\ N # {}
    BY <1>1
  <1>3. PICK least \in N : \A n \in N : least <= n
    BY <1>2, LeastNumber
  <1>4. PICK row \in Wrong : row.seq = least
    BY <1>3
  <1>5. \A r \in Wrong : row.seq <= r.seq
    BY <1>3, <1>4
  <1>6. /\ row.prev = LastHash(Predecessors(row))
        /\ row.hash = Append(row.prev, JsonbText(row))
    BY DEF VerifyDbChain, ComputeDbRowHash
  <1>7. CASE Predecessors(row) = {}
    BY <1>6, <1>7, HistoryAppends
  <1>8. CASE Predecessors(row) # {}
    <2>1. PICK p \in Predecessors(row) :
            /\ LastHash(Predecessors(row)) = p.hash
            /\ History(row) = Append(History(p), JsonbText(row))
      BY <1>8, HistoryAppends
    <2>2. p \in Fetched /\ p.seq < row.seq
      BY DEF Predecessors
    <2>3. p.hash = History(p)
      BY <1>1, <1>5, <2>2
    <2> QED
      BY <1>6, <2>1, <2>3
  <1> QED
    BY <1>7, <1>8

LEMMA HistoryIsAccepted ==
  ASSUME ChainTyped, \A row \in Fetched : row.hash = History(row)
  PROVE  VerifyDbChain
  <1> SUFFICES ASSUME NEW row \in Fetched
               PROVE  /\ row.prev = LastHash(Predecessors(row))
                      /\ row.hash = Append(row.prev, JsonbText(row))
    BY DEF VerifyDbChain, ComputeDbRowHash
  <1>1. \A r \in Fetched : r \in rows /\ IsAuditRow(r)
    BY FetchedFirst DEF ChainTyped
  <1>2. PICK x \in Texts : row.hash = Append(row.prev, x)
    BY <1>1 DEF IsAuditRow
  <1>3. row.prev \in Seq(Texts) /\ JsonbText(row) \in Texts
    BY <1>1, TextsAreTexts DEF IsAuditRow, JsonbText
  <1>4. PICK before \in Seq(Texts) :
          /\ LastHash(Predecessors(row)) = before
          /\ row.hash = Append(before, JsonbText(row))
    <2>1. CASE Predecessors(row) = {}
      <3>1. /\ LastHash(Predecessors(row)) = <<>>
            /\ row.hash = Append(<<>>, JsonbText(row))
        BY <2>1, HistoryAppends
      <3>2. <<>> \in Seq(Texts)
        OBVIOUS
      <3> QED
        BY <3>1, <3>2
    <2>2. CASE Predecessors(row) # {}
      <3>1. PICK p \in Predecessors(row) :
              /\ LastHash(Predecessors(row)) = p.hash
              /\ History(row) = Append(History(p), JsonbText(row))
        BY <2>2, HistoryAppends
      <3>2. p \in Fetched
        BY DEF Predecessors
      <3>3. p.hash = History(p) /\ p.hash \in Seq(Texts)
        BY <1>1, <3>2 DEF IsAuditRow
      <3> QED
        BY <3>1, <3>3
    <2> QED
      BY <2>1, <2>2
  <1>5. row.prev = before /\ x = JsonbText(row)
    <2>1. Append(row.prev, x) = Append(before, JsonbText(row))
      BY <1>2, <1>4
    <2> QED
      BY <1>3, <2>1, AppendInjective
  <1> QED
    BY <1>2, <1>4, <1>5

\* Among the rows that were read, the ones before a row are all there are, and
\* its hash ends in the text the trigger made of its contents.
LEMMA UntouchedIsAccepted ==
  ASSUME ChainInv, ~crossed, tampered = {}
  PROVE  VerifyDbChain <=>
           \A row \in Fetched : SqlText[row.contents] = JsonbText(row)
  <1>1. ChainTyped /\ ChainLinked
    BY DEF ChainInv
  <1>2. ASSUME NEW row \in Fetched
        PROVE  /\ row.prev = LastHash(Predecessors(row))
               /\ row.hash = ComputeDbRowHash(row) <=>
                    SqlText[row.contents] = JsonbText(row)
    <2>1. row \in rows /\ writer[row.by] = "committed"
      BY <1>1, FetchedFirst DEF Stored
    <2>2. Predecessors(row) = Smaller(row)
      <3>1. ASSUME NEW r \in rows, r.seq < row.seq PROVE r \in Fetched
        <4>1. r.seq \in Nat /\ row.seq \in Nat /\ r.by \in Writers
          BY <1>1, <2>1 DEF ChainTyped, IsAuditRow
        <4>2. writer[r.by] # "open"
          BY <1>1, <2>1, <3>1, <4>1 DEF ChainLinked
        <4>3. r \in Stored
          BY <1>1, <4>1, <4>2 DEF Stored, ChainTyped
        <4> QED
          BY <1>2, <1>1, <3>1, <4>1, <4>3, FetchedFirst
      <3> QED
        BY <1>1, <3>1, FetchedFirst DEF Predecessors, Smaller
    <2>3. row.prev = LastHash(Predecessors(row))
      BY <1>1, <2>1, <2>2 DEF ChainLinked
    <2> PICK prev \in Seq(Texts), sql \in Texts, js \in Texts :
               prev = row.prev /\ sql = SqlText[row.contents] /\ js = JsonbText(row)
      <3>1. row.prev \in Seq(Texts) /\ row.contents \in Payloads
        BY <1>1, <2>1 DEF ChainTyped, IsAuditRow
      <3> QED
        BY <3>1, TextsAreTexts DEF JsonbText
    <2>4. row.hash = Append(prev, sql) /\ ComputeDbRowHash(row) = Append(prev, js)
      BY <1>1, <2>1 DEF ChainLinked, RowHash, ComputeDbRowHash
    <2>5. Append(prev, sql) = Append(prev, js) <=> sql = js
      BY AppendInjective
    <2> QED
      BY <2>3, <2>4, <2>5
  <1> QED
    BY <1>2 DEF VerifyDbChain

\* A verification accepts the rows it reads exactly when the trigger's hash of
\* each is that of all contents up to it as JavaScript writes them, whatever was
\* changed, erased or linked across transactions; and as long as the writers of
\* a facility take turns, it accepts a chain nobody touched exactly when no row
\* it reads holds contents SQL and JavaScript write differently, whatever these
\* are (audit.mjs, http/audit-routes.mjs and fn_audit_chain_link of 0019).
THEOREM VerdictsAreRight == ServicesSpec => []VerdictIsRight
  <1>1. ServicesInit => ChainInv
    BY ServicesBegin, ChainInit
  <1>2. ChainInv /\ [ServicesNext]_servicesVars => ChainInv'
    BY ServicesMove, ChainStep
  <1>3. ChainInv => VerdictIsRight
    BY AcceptedIsHistory, HistoryIsAccepted, UntouchedIsAccepted
       DEF ChainInv, VerdictIsRight
  <1> QED
    BY <1>1, <1>2, <1>3, PTL DEF ServicesSpec
-----------------------------------------------------------------------------
\* The sign-in limiters: the failures an instance remembers, and the rows that
\* all of them share.

Failures     == Nat \X Attempts \X Nat
ThrottleRows == [since : Nat, failures : Nat, touched : Nat]

RowWrites == [do : {"read", "done"}]
               \cup [do : {"upsert"}, row : ThrottleRows \cup {NoRow}]

Checking  == [at : {"checking", "asking"}, on : Instances,
              todo : [Keys -> [do : {"check", "pass", "refuse"}]]]
Recording == [at : {"recording"}, on : Instances, time : Nat,
              todo : [Keys -> RowWrites]]
Resetting == [at : {"resetting"}, on : Instances, time : Nat,
              todo : {[k \in Keys |-> [do |-> IF k = "email" THEN "delete"
                                                             ELSE "done"]]}]

AttemptSteps == Checking \cup Recording \cup Resetting \cup {AtLeisure}

ThrottleTyped ==
  /\ now \in Nat /\ begun \in Nat /\ raced \in BOOLEAN
  /\ memory \in [Instances -> [Keys -> SUBSET Failures]]
  /\ \A i \in Instances, k \in Keys : IsFiniteSet(memory[i][k])
  /\ throttle \in [Keys -> ThrottleRows \cup {NoRow}]
  /\ attempt \in [Attempts -> AttemptSteps]
  /\ wrong \in [Stores -> [Keys -> SUBSET Failures]]
  /\ \A s \in Stores, k \in Keys : IsFiniteSet(wrong[s][k])

\* No failure is the one an attempt under way is about to be.
FailuresPast ==
  \A s \in Stores, k \in Keys : \A w \in wrong[s][k] :
    /\ w[1] <= begun
    /\ w[1] = begun => attempt[w[2]].at \notin {"checking", "asking"}

\* What an instance has forgotten is out of the window, or older than as many
\* failures as the limit asks for.
Remembered(kept, w, max) ==
  \/ w \in kept
  \/ w[3] + Window <= now
  \/ Cardinality({m \in kept : m[3] >= w[3]}) >= max

MemoryHolds ==
  \A i \in Instances, k \in Keys : \A w \in wrong[i][k] :
    Remembered(memory[i][k], w, MemoryMax(k))

Passing(i) ==
  {a \in Attempts : attempt[a].at \in {"checking", "asking"} /\ attempt[a].on = i}

LimitHolds ==
  \A i \in Instances, k \in Keys :
    Cardinality(Recent(wrong[i][k])) + Cardinality(Passing(i))
      < MemoryMax(k) + Cardinality(Attempts)

TimesPast ==
  /\ \A k \in Keys : throttle[k] # NoRow => throttle[k].since <= now
  /\ \A a \in Attempts : attempt[a].at = "recording" =>
       /\ attempt[a].time <= now
       /\ \A k \in Keys :
            attempt[a].todo[k].do = "upsert" /\ attempt[a].todo[k].row # NoRow
              => attempt[a].todo[k].row.since <= now

Since(k, t) == Cardinality({w \in wrong[NoRow][k] : w[3] >= t})

\* The writer of a row has a failure more than the row he found.
WriterOwes(a, k) ==
  LET todo == attempt[a].todo[k]
  IN /\ todo.do = "read" /\ throttle[k] # NoRow =>
          throttle[k].failures + 1 <= Since(k, throttle[k].since)
     /\ todo.do = "upsert" /\ todo.row # NoRow =>
          todo.row.failures + 1 <= Since(k, todo.row.since)
     /\ todo.do \in {"read", "upsert"} => Since(k, attempt[a].time) >= 1

RowsEarned ==
  \A k \in Keys :
    /\ \A a, b \in RowWriters(k) : a = b
    /\ throttle[k] # NoRow =>
         throttle[k].failures <= Since(k, throttle[k].since)
    /\ \A a \in RowWriters(k) : WriterOwes(a, k)

LimitersInv ==
  /\ ThrottleTyped /\ FailuresPast /\ MemoryHolds /\ LimitHolds /\ TimesPast
  /\ ~raced => RowsEarned

LEMMA ThrottleConstants ==
  /\ \A k \in Keys : MemoryMax(k) \in Nat \ {0}
  /\ Window \in Nat \ {0} /\ IsFiniteSet(Attempts)
  /\ Cardinality(Attempts) \in Nat
  /\ NoRow \notin Instances /\ NoRow \notin ThrottleRows
  /\ NoRow \in Stores /\ Instances \subseteq Stores
  /\ Keys = {"email", "ip"}
  <1>1. Cardinality(Attempts) \in Nat
    BY ThrottleAssumption, FS_CardinalityType
  <1> QED
    BY <1>1, ThrottleAssumption DEF MemoryMax, Keys, Stores, ThrottleRows

LEMMA AttemptsByStep ==
  \A x \in AttemptSteps :
    /\ x.at \in {"checking", "asking"} => x \in Checking
    /\ x.at = "recording" => x \in Recording
    /\ x.at = "resetting" => x \in Resetting
    /\ x.at = "rest" => x = AtLeisure
    /\ x.at \in {"checking", "asking", "recording", "resetting", "rest"}
  BY DEF AttemptSteps, Checking, Recording, Resetting, AtLeisure

LEMMA LimitersInit == ThrottleInit => LimitersInv
  <1> SUFFICES ASSUME ThrottleInit PROVE LimitersInv
    OBVIOUS
  <1>1. IsFiniteSet({}) /\ Cardinality({}) = 0
    BY FS_EmptySet
  <1>2. \A a \in Attempts : attempt[a].at = "rest"
    BY DEF ThrottleInit, AtLeisure
  <1>3. ThrottleTyped
    BY <1>1 DEF ThrottleInit, ThrottleTyped, AttemptSteps
  <1>4. \A s \in Stores, k \in Keys : wrong[s][k] = {}
    BY DEF ThrottleInit
  <1>5. LimitHolds
    <2>1. \A i \in Instances : Passing(i) = {}
      BY <1>2 DEF Passing
    <2>2. \A i \in Instances, k \in Keys : Recent(wrong[i][k]) = {}
      BY <1>4, ThrottleConstants DEF Recent
    <2>3. ASSUME NEW i \in Instances, NEW k \in Keys
          PROVE  Cardinality(Recent(wrong[i][k])) + Cardinality(Passing(i))
                   < MemoryMax(k) + Cardinality(Attempts)
      <3>1. Recent(wrong[i][k]) = {} /\ Passing(i) = {}
        BY <2>1, <2>2
      <3>2. MemoryMax(k) \in Nat \ {0} /\ Cardinality(Attempts) \in Nat
        BY ThrottleConstants
      <3> QED
        BY <1>1, <3>1, <3>2
    <2> QED
      BY <2>3 DEF LimitHolds
  <1>6. TimesPast /\ RowsEarned
    <2>1. \A k \in Keys : RowWriters(k) = {}
      BY <1>2 DEF RowWriters
    <2> QED
      BY <1>2, <2>1 DEF ThrottleInit, TimesPast, RowsEarned
  <1> QED
    BY <1>3, <1>4, <1>5, <1>6, ThrottleConstants
       DEF LimitersInv, FailuresPast, MemoryHolds

\* An instance that lets an attempt pass remembers all its recent failures.
LEMMA BelowTheLimit ==
  ASSUME LimitersInv, NEW i \in Instances, NEW k \in Keys, ~ MemoryBlocks(i, k)
  PROVE  Cardinality(Recent(wrong[i][k])) < MemoryMax(k)
  <1> DEFINE M == memory[i][k]
  <1>1. /\ IsFiniteSet(M) /\ M \subseteq Failures /\ now \in Nat
        /\ IsFiniteSet(wrong[i][k]) /\ wrong[i][k] \subseteq Failures
        /\ MemoryMax(k) \in Nat /\ Window \in Nat
    BY ThrottleConstants DEF LimitersInv, ThrottleTyped
  <1>2. /\ IsFiniteSet(Recent(M)) /\ Cardinality(Recent(M)) \in Nat
        /\ Cardinality(Recent(M)) < MemoryMax(k)
    <2>1. Recent(M) \in SUBSET M
      BY DEF Recent
    <2>2. IsFiniteSet(Recent(M)) /\ Cardinality(Recent(M)) \in Nat
      BY <1>1, <2>1, FS_Subset, FS_CardinalityType
    <2> QED
      BY <1>1, <2>2 DEF MemoryBlocks
  <1>3. ASSUME NEW w \in Recent(wrong[i][k]) PROVE w \in Recent(M)
    <2>1. w \in wrong[i][k] /\ w[3] + Window > now /\ w[3] \in Nat
      BY <1>1 DEF Recent, Failures
    <2>2. w \in M \/ Cardinality({m \in M : m[3] >= w[3]}) >= MemoryMax(k)
      BY <1>1, <2>1 DEF LimitersInv, MemoryHolds, Remembered
    <2>3. CASE w \in M
      BY <2>1, <2>3 DEF Recent
    <2>4. CASE Cardinality({m \in M : m[3] >= w[3]}) >= MemoryMax(k)
      <3>1. {m \in M : m[3] >= w[3]} \in SUBSET Recent(M)
        BY <1>1, <2>1 DEF Recent, Failures
      <3>2. /\ Cardinality({m \in M : m[3] >= w[3]}) <= Cardinality(Recent(M))
            /\ Cardinality({m \in M : m[3] >= w[3]}) \in Nat
        BY <1>2, <3>1, FS_Subset, FS_CardinalityType
      <3> QED
        BY <1>1, <1>2, <2>4, <3>2
    <2> QED
      BY <2>2, <2>3, <2>4
  <1>4. Recent(wrong[i][k]) \in SUBSET Recent(M)
    BY <1>3
  <1>5. /\ Cardinality(Recent(wrong[i][k])) <= Cardinality(Recent(M))
        /\ Cardinality(Recent(wrong[i][k])) \in Nat
    BY <1>2, <1>4, FS_Subset, FS_CardinalityType
  <1> QED
    BY <1>1, <1>2, <1>5

\* So does a list that has lost no more than what is out of the window.
LEMMA PrunedRemembers ==
  ASSUME NEW S \in SUBSET Failures, NEW T \in SUBSET Failures, IsFiniteSet(T),
         Recent(S) \subseteq T, NEW max \in Nat, now \in Nat,
         NEW w \in Failures, Remembered(S, w, max)
  PROVE  Remembered(T, w, max)
  <1> DEFINE From(V) == {m \in V : m[3] >= w[3]}
  <1>1. Window \in Nat /\ \A m \in Failures : m[3] \in Nat
    BY ThrottleConstants DEF Failures
  <1>2. CASE w \in S
    BY <1>1, <1>2 DEF Remembered, Recent
  <1>3. CASE w[3] + Window > now /\ Cardinality(From(S)) >= max
    <2>1. From(S) \in SUBSET From(T)
      BY <1>1, <1>3 DEF Recent
    <2>2. From(T) \in SUBSET T
      OBVIOUS
    <2>3. IsFiniteSet(From(T))
      BY <2>2, FS_Subset
    <2>4. /\ Cardinality(From(S)) <= Cardinality(From(T))
          /\ Cardinality(From(S)) \in Nat /\ Cardinality(From(T)) \in Nat
      BY <2>1, <2>3, FS_Subset, FS_CardinalityType
    <2>5. Cardinality(From(T)) >= max
      BY <1>3, <2>4
    <2> QED
      BY <2>5 DEF Remembered
  <1> QED
    BY <1>1, <1>2, <1>3 DEF Remembered

\* recordFailure forgets but what is out of the window or one too many.
LEMMA RecordedRemembers ==
  ASSUME NEW S \in SUBSET Failures, IsFiniteSet(S), NEW new \in Failures,
         NEW k \in Keys, now \in Nat
  PROVE  /\ IsFiniteSet(Recorded(S, k, new))
         /\ Recorded(S, k, new) \subseteq Failures
         /\ Recorded(S, k, new) \subseteq S \cup {new}
         /\ Cardinality(S) <= MemoryMax(k) => Cardinality(Recorded(S, k, new)) <= MemoryMax(k)
         /\ Remembered(Recorded(S, k, new), new, MemoryMax(k))
         /\ \A w \in Failures : Remembered(S, w, MemoryMax(k)) =>
              Remembered(Recorded(S, k, new), w, MemoryMax(k))
  <1> DEFINE more == Recent(S) \cup {new}
             d    == Oldest(more)
             max  == MemoryMax(k)
             From(T, w) == {m \in T : m[3] >= w[3]}
  <1>1. max \in Nat \ {0} /\ Window \in Nat
    BY ThrottleConstants
  <1>2. /\ IsFiniteSet(more) /\ more \subseteq Failures /\ more # {}
        /\ Cardinality(more) \in Nat /\ more \subseteq S \cup {new}
        /\ Cardinality(S) \in Nat /\ Cardinality(more) <= Cardinality(S) + 1
    <2>1. Recent(S) \in SUBSET S
      BY DEF Recent
    <2>2. IsFiniteSet(more)
      BY <2>1, FS_Subset, FS_AddElement
    <2>3. IsFiniteSet(S \cup {new}) /\ more \in SUBSET (S \cup {new})
      BY <2>1, FS_AddElement
    <2>4. Cardinality(S \cup {new}) <= Cardinality(S) + 1 /\ Cardinality(S) \in Nat
      <3>1. Cardinality(S) \in Nat
        BY FS_CardinalityType
      <3>2. \/ Cardinality(S \cup {new}) = Cardinality(S)
            \/ Cardinality(S \cup {new}) = Cardinality(S) + 1
        BY FS_AddElement
      <3> QED
        BY <3>1, <3>2
    <2>5. /\ Cardinality(more) <= Cardinality(S \cup {new})
          /\ Cardinality(S \cup {new}) \in Nat /\ Cardinality(more) \in Nat
      BY <2>3, FS_Subset, FS_CardinalityType
    <2> QED
      BY <2>1, <2>2, <2>3, <2>4, <2>5
  <1>3. \A w \in Failures : w[3] \in Nat
    BY DEF Failures
  <1>4. ASSUME NEW w \in Failures, Remembered(S, w, max) \/ w = new
        PROVE  Remembered(more, w, max)
    <2>1. CASE w = new
      BY <2>1 DEF Remembered
    <2>2. CASE Remembered(S, w, max)
      BY <1>1, <1>2, <2>2, PrunedRemembers
    <2> QED
      BY <1>4, <2>1, <2>2
  <1>5. d \in more /\ \A o \in more : d[3] <= o[3]
    <2> DEFINE N == {w[3] : w \in more}
    <2>1. N \in SUBSET Nat /\ N # {}
      BY <1>2, <1>3
    <2>2. PICK least \in N : \A n \in N : least <= n
      BY <2>1, LeastNumber
    <2>3. PICK w \in more : w[3] = least
      BY <2>2
    <2>4. \A o \in more : w[3] <= o[3]
      BY <2>2, <2>3
    <2> QED
      BY <2>4 DEF Oldest
  <1> HIDE DEF d, more
  <1>6. CASE Cardinality(more) > max
    <2> DEFINE R == more \ {d}
    <2>1. Recorded(S, k, new) = R
      BY <1>6 DEF Recorded, more, d
    <2>2. /\ IsFiniteSet(R) /\ Cardinality(R) = Cardinality(more) - 1
          /\ Cardinality(R) >= max
      <3>1. IsFiniteSet(R) /\ Cardinality(R) = Cardinality(more) - 1
        BY <1>2, <1>5, FS_RemoveElement
      <3> HIDE DEF R, max
      <3> QED
        BY <1>1, <1>2, <1>6, <3>1
    <2>3. ASSUME NEW w \in Failures, Remembered(more, w, max)
          PROVE  Remembered(R, w, max)
      <3>1. CASE d[3] >= w[3]
        <4>1. From(R, w) = R
          BY <1>2, <1>3, <1>5, <3>1
        <4> QED
          BY <2>2, <4>1 DEF Remembered
      <3>2. CASE ~ (d[3] >= w[3])
        <4>1. From(R, w) = From(more, w)
          BY <3>2
        <4>2. w # d
          BY <1>3, <3>2
        <4> QED
          BY <2>3, <4>1, <4>2 DEF Remembered
      <3> QED
        BY <3>1, <3>2
    <2>4. R \subseteq more /\ (Cardinality(S) <= max => Cardinality(R) <= max)
      <3>1. Cardinality(R) = Cardinality(more) - 1 /\ R \subseteq more
        BY <2>2
      <3> HIDE DEF R, max
      <3> QED
        BY <1>1, <1>2, <3>1
    <2> HIDE DEF R
    <2> QED
      BY <1>2, <1>4, <2>1, <2>2, <2>3, <2>4
  <1>7. CASE ~ (Cardinality(more) > max)
    <2>1. Recorded(S, k, new) = more
      BY <1>7 DEF Recorded, more
    <2>2. Cardinality(more) <= max
      BY <1>1, <1>2, <1>7
    <2> QED
      BY <1>2, <1>4, <2>1, <2>2
  <1> QED
    BY <1>6, <1>7
LEMMA AttemptMoves ==
  ASSUME ThrottleTyped, NEW a \in Attempts, NEW x \in AttemptSteps,
         attempt' = [attempt EXCEPT ![a] = x]
  PROVE  /\ attempt' \in [Attempts -> AttemptSteps]
         /\ attempt'[a] = x
         /\ \A b \in Attempts \ {a} : attempt'[b] = attempt[b]
  BY DEF ThrottleTyped

\* Fewer attempts on their way leave the limit where it was.
LEMMA LimitStays ==
  ASSUME LimitersInv, NEW i \in Instances, NEW k \in Keys,
         Recent(wrong[i][k])' \subseteq Recent(wrong[i][k]),
         Passing(i)' \subseteq Passing(i)
  PROVE  Cardinality(Recent(wrong[i][k])') + Cardinality(Passing(i)')
           < MemoryMax(k) + Cardinality(Attempts)
  <1>1. IsFiniteSet(Recent(wrong[i][k])) /\ IsFiniteSet(Passing(i))
    <2>1. IsFiniteSet(wrong[i][k]) /\ IsFiniteSet(Attempts)
      BY ThrottleConstants DEF LimitersInv, ThrottleTyped
    <2>2. Recent(wrong[i][k]) \in SUBSET wrong[i][k] /\ Passing(i) \in SUBSET Attempts
      BY DEF Recent, Passing
    <2> QED
      BY <2>1, <2>2, FS_Subset
  <1>2. /\ Cardinality(Recent(wrong[i][k])') <= Cardinality(Recent(wrong[i][k]))
        /\ Cardinality(Passing(i)') <= Cardinality(Passing(i))
        /\ IsFiniteSet(Recent(wrong[i][k])') /\ IsFiniteSet(Passing(i)')
    BY <1>1, FS_Subset
  <1>3. /\ Cardinality(Recent(wrong[i][k])) \in Nat
        /\ Cardinality(Recent(wrong[i][k])') \in Nat
        /\ Cardinality(Passing(i)) \in Nat /\ Cardinality(Passing(i)') \in Nat
    BY <1>1, <1>2, FS_CardinalityType
  <1>4. /\ Cardinality(Recent(wrong[i][k])) + Cardinality(Passing(i))
             < MemoryMax(k) + Cardinality(Attempts)
        /\ MemoryMax(k) \in Nat /\ Cardinality(Attempts) \in Nat
    BY ThrottleConstants DEF LimitersInv, LimitHolds
  <1> QED
    BY <1>2, <1>3, <1>4

LEMMA SinceStays ==
  ASSUME UNCHANGED wrong
  PROVE  \A k, t : Since(k, t)' = Since(k, t)
  BY DEF Since

LEMMA HourStep ==
  ASSUME LimitersInv, Hour
  PROVE  LimitersInv'
  <1>1. now' = now + 1 /\ now \in Nat
        /\ UNCHANGED <<memory, throttle, attempt, begun, wrong, raced>>
    BY DEF Hour, LimitersInv, ThrottleTyped
  <1>2. ThrottleTyped' /\ FailuresPast'
    BY <1>1 DEF LimitersInv, ThrottleTyped, FailuresPast
  <1>3. Window \in Nat /\ \A m \in Failures : m[3] \in Nat
    BY ThrottleConstants DEF Failures
  <1>4. \A i \in Instances, k \in Keys : wrong[i][k] \subseteq Failures
    BY ThrottleConstants DEF LimitersInv, ThrottleTyped
  <1>5. MemoryHolds'
    <2>1. \A i \in Instances, k \in Keys : \A w \in wrong[i][k] :
            Remembered(memory[i][k], w, MemoryMax(k))
      BY DEF LimitersInv, MemoryHolds
    <2>2. \A S, max : \A w \in Failures : Remembered(S, w, max) =>
            Remembered(S, w, max)'
      BY <1>1, <1>3 DEF Remembered
    <2>3. \A i \in Instances, k \in Keys : \A w \in wrong[i][k] :
            Remembered(memory[i][k], w, MemoryMax(k))'
      BY <1>1, <1>4, <2>1, <2>2 DEF Remembered, MemoryMax
    <2> QED
      BY <1>1, <2>3 DEF MemoryHolds
  <1>6. LimitHolds'
    <2>1. ASSUME NEW i \in Instances, NEW k \in Keys
          PROVE  Cardinality(Recent(wrong[i][k])') + Cardinality(Passing(i)')
                   < MemoryMax(k) + Cardinality(Attempts)
      <3>1. Recent(wrong[i][k])' \subseteq Recent(wrong[i][k])
        BY <1>1, <1>3, <1>4 DEF Recent
      <3>2. Passing(i)' \subseteq Passing(i)
        BY <1>1 DEF Passing
      <3> QED
        BY <3>1, <3>2, LimitStays
    <2> QED
      BY <2>1 DEF LimitHolds
  <1>7. TimesPast'
    <2>1. \A k \in Keys : throttle[k] # NoRow => throttle[k].since \in Nat
      BY DEF LimitersInv, ThrottleTyped, ThrottleRows
    <2>2. \A a \in Attempts : attempt[a].at = "recording" =>
            /\ attempt[a].time \in Nat
            /\ \A k \in Keys : attempt[a].todo[k].do = "upsert"
                                 /\ attempt[a].todo[k].row # NoRow
                 => attempt[a].todo[k].row.since \in Nat
      BY AttemptsByStep DEF LimitersInv, ThrottleTyped, Recording, RowWrites,
                            ThrottleRows
    <2> QED
      BY <1>1, <2>1, <2>2 DEF LimitersInv, TimesPast
  <1>8. ~raced' => RowsEarned'
    BY <1>1, SinceStays DEF LimitersInv, RowsEarned, WriterOwes, RowWriters
  <1> QED
    BY <1>2, <1>5, <1>6, <1>7, <1>8 DEF LimitersInv

LEMMA ArriveStep ==
  ASSUME LimitersInv, NEW a \in Attempts, NEW i \in Instances, Arrive(a, i)
  PROVE  LimitersInv'
  <1> DEFINE blocked == \E k \in Keys : MemoryBlocks(i, k)
             passes  == [at |-> "checking", on |-> i, todo |-> Unread]
             x == IF blocked THEN AtLeisure ELSE passes
  <1>1. /\ attempt[a].at = "rest" /\ begun' = begun + 1
        /\ attempt' = [attempt EXCEPT ![a] = x]
        /\ UNCHANGED <<now, memory, throttle, wrong, raced>>
    BY DEF Arrive
  <1>2. passes \in Checking /\ passes.at = "checking" /\ passes.on = i
    BY DEF Checking, Unread
  <1> HIDE DEF passes
  <1>3. /\ x \in AttemptSteps
        /\ x.at \in {"rest", "checking"}
        /\ x.at = "checking" => ~ blocked /\ x.on = i
    BY <1>2 DEF AttemptSteps, AtLeisure
  <1> HIDE DEF x
  <1>4. /\ attempt' \in [Attempts -> AttemptSteps]
        /\ attempt'[a] = x
        /\ \A b \in Attempts \ {a} : attempt'[b] = attempt[b]
    BY <1>1, <1>3, AttemptMoves DEF LimitersInv
  <1>5. ThrottleTyped'
    BY <1>1, <1>4 DEF LimitersInv, ThrottleTyped
  <1>6. FailuresPast'
    <2>1. \A s \in Stores, k \in Keys : \A w \in wrong[s][k] :
            w[1] <= begun /\ w[1] \in Nat /\ begun \in Nat
      BY DEF LimitersInv, FailuresPast, ThrottleTyped, Failures
    <2> QED
      BY <1>1, <2>1 DEF FailuresPast
  <1>7. MemoryHolds'
    BY <1>1 DEF LimitersInv, MemoryHolds, Remembered, MemoryMax
  <1>8. LimitHolds'
    <2>1. ASSUME NEW j \in Instances, NEW k \in Keys
          PROVE  Cardinality(Recent(wrong[j][k])') + Cardinality(Passing(j)')
                   < MemoryMax(k) + Cardinality(Attempts)
      <3>1. Recent(wrong[j][k])' = Recent(wrong[j][k])
        BY <1>1 DEF Recent
      <3>2. CASE j # i \/ blocked
        <4>1. Passing(j)' \subseteq Passing(j)
          BY <1>3, <1>4, <3>2 DEF Passing
        <4> QED
          BY <3>1, <4>1, LimitStays
      <3>3. CASE j = i /\ ~ blocked
        <4>1. Cardinality(Recent(wrong[j][k])) < MemoryMax(k)
          BY <3>3, BelowTheLimit
        <4>2. Passing(j)' \in SUBSET Attempts
          BY DEF Passing
        <4>3. /\ Cardinality(Passing(j)') <= Cardinality(Attempts)
              /\ Cardinality(Passing(j)') \in Nat
          BY <4>2, ThrottleConstants, FS_Subset, FS_CardinalityType
        <4>4. Cardinality(Recent(wrong[j][k])) \in Nat
          <5>1. IsFiniteSet(wrong[j][k])
            BY ThrottleConstants DEF LimitersInv, ThrottleTyped
          <5>2. Recent(wrong[j][k]) \in SUBSET wrong[j][k]
            BY DEF Recent
          <5> QED
            BY <5>1, <5>2, FS_Subset, FS_CardinalityType
        <4>5. MemoryMax(k) \in Nat /\ Cardinality(Attempts) \in Nat
          BY ThrottleConstants
        <4> QED
          BY <3>1, <4>1, <4>3, <4>4, <4>5
      <3> QED
        BY <3>2, <3>3
    <2> QED
      BY <2>1 DEF LimitHolds
  <1>9. TimesPast'
    BY <1>1, <1>3, <1>4 DEF LimitersInv, TimesPast
  <1>10. ~raced' => RowsEarned'
    <2>1. \A k \in Keys : RowWriters(k)' = RowWriters(k) /\ a \notin RowWriters(k)
      BY <1>1, <1>3, <1>4 DEF RowWriters
    <2> QED
      BY <1>1, <1>4, <2>1, SinceStays DEF LimitersInv, RowsEarned, WriterOwes,
                                          RowWriters
  <1> QED
    BY <1>5, <1>6, <1>7, <1>8, <1>9, <1>10 DEF LimitersInv

LEMMA CheckDurableStep ==
  ASSUME LimitersInv, NEW a \in Attempts, NEW k \in Keys, NEW heard \in BOOLEAN,
         CheckDurable(a, k, heard)
  PROVE  LimitersInv'
  <1> PICK y : y = attempt[a]
    OBVIOUS
  <1> DEFINE done == [y.todo EXCEPT ![k] =
                       [do |-> IF heard /\ Blocks(throttle[k]) THEN "refuse"
                                                               ELSE "pass"]]
             x == IF \E q \in Keys : done[q].do = "check"
                    THEN [y EXCEPT !.todo = done]
                  ELSE IF \E q \in Keys : done[q].do = "refuse" THEN AtLeisure
                  ELSE [y EXCEPT !.at = "asking"]
  <1>1. /\ y.at = "checking"
        /\ attempt' = [attempt EXCEPT ![a] = x]
        /\ UNCHANGED <<now, memory, throttle, begun, wrong, raced>>
    BY DEF CheckDurable
  <1>2. y \in Checking
    BY <1>1, AttemptsByStep DEF LimitersInv, ThrottleTyped
  <1>3. done \in [Keys -> [do : {"check", "pass", "refuse"}]]
    BY <1>2 DEF Checking
  <1> HIDE DEF done
  <1>4. /\ [y EXCEPT !.todo = done] \in Checking
        /\ [y EXCEPT !.todo = done].on = y.on
        /\ [y EXCEPT !.at = "asking"] \in Checking
        /\ [y EXCEPT !.at = "asking"].on = y.on
    BY <1>2, <1>3 DEF Checking
  <1>5. /\ x \in AttemptSteps
        /\ x.at \in {"rest", "checking", "asking"}
        /\ x.at # "rest" => x.on = y.on
    <2>1. CASE x = AtLeisure
      BY <2>1 DEF AttemptSteps, AtLeisure
    <2>2. CASE x \in Checking /\ x.on = y.on
      BY <2>2 DEF AttemptSteps, Checking
    <2> QED
      BY <1>4, <2>1, <2>2
  <1> HIDE DEF x
  <1>6. /\ attempt' \in [Attempts -> AttemptSteps]
        /\ attempt'[a] = x
        /\ \A b \in Attempts \ {a} : attempt'[b] = attempt[b]
    BY <1>1, <1>5, AttemptMoves DEF LimitersInv
  <1>7. ThrottleTyped'
    BY <1>1, <1>6 DEF LimitersInv, ThrottleTyped
  <1>8. FailuresPast'
    BY <1>1, <1>6 DEF LimitersInv, FailuresPast, ThrottleTyped, Failures
  <1>9. MemoryHolds'
    BY <1>1 DEF LimitersInv, MemoryHolds, Remembered, MemoryMax
  <1>10. LimitHolds'
    <2>1. ASSUME NEW j \in Instances, NEW q \in Keys
          PROVE  Cardinality(Recent(wrong[j][q])') + Cardinality(Passing(j)')
                   < MemoryMax(q) + Cardinality(Attempts)
      <3>1. Recent(wrong[j][q])' = Recent(wrong[j][q])
        BY <1>1 DEF Recent
      <3>2. Passing(j)' \subseteq Passing(j)
        BY <1>1, <1>5, <1>6 DEF Passing
      <3> QED
        BY <3>1, <3>2, LimitStays
    <2> QED
      BY <2>1 DEF LimitHolds
  <1>11. TimesPast'
    BY <1>1, <1>5, <1>6 DEF LimitersInv, TimesPast
  <1>12. ~raced' => RowsEarned'
    <2>1. \A q \in Keys : RowWriters(q)' = RowWriters(q) /\ a \notin RowWriters(q)
      BY <1>1, <1>5, <1>6 DEF RowWriters
    <2> QED
      BY <1>1, <1>6, <2>1, SinceStays DEF LimitersInv, RowsEarned, WriterOwes,
                                          RowWriters
  <1> QED
    BY <1>7, <1>8, <1>9, <1>10, <1>11, <1>12 DEF LimitersInv
\* The failure joins what its instance remembers and what the store is told of;
\* if nobody else writes a row, the attempt is to add one to what it counts.
LEMMA RejectedStep ==
  ASSUME LimitersInv, NEW a \in Attempts, Rejected(a)
  PROVE  LimitersInv'
  <1> PICK i : i = attempt[a].on
    OBVIOUS
  <1> PICK new : new = <<begun, a, now>>
    OBVIOUS
  <1> PICK x : x = [at |-> "recording", on |-> i, time |-> now,
                    todo |-> [k \in Keys |-> [do |-> "read"]]]
    OBVIOUS
  <1>1. /\ attempt[a].at = "asking"
        /\ memory' = [memory EXCEPT
             ![i] = [k \in Keys |-> Recorded(memory[i][k], k, new)]]
        /\ attempt' = [attempt EXCEPT ![a] = x]
        /\ wrong' = [s \in Stores |-> [k \in Keys |->
             IF s \in {i, NoRow} THEN wrong[s][k] \cup {new} ELSE wrong[s][k]]]
        /\ raced' = (raced \/ \E k \in Keys : RowWriters(k) # {})
        /\ UNCHANGED <<now, throttle, begun>>
    BY DEF Rejected
  <1>2. ThrottleTyped /\ now \in Nat /\ begun \in Nat
    BY DEF LimitersInv, ThrottleTyped
  <1>3. i \in Instances /\ i \in Stores /\ i # NoRow
    <2>1. attempt[a] \in Checking
      BY <1>1, <1>2, AttemptsByStep DEF ThrottleTyped
    <2> QED
      BY <2>1, ThrottleConstants DEF Checking
  <1>4. /\ new \in Failures /\ new[1] = begun /\ new[2] = a /\ new[3] = now
    BY <1>2 DEF Failures
  <1>5. /\ x \in Recording /\ x.at = "recording" /\ x.time = now
        /\ \A k \in Keys : x.todo[k].do = "read"
    BY <1>2, <1>3 DEF Recording, RowWrites
  <1>6. /\ attempt' \in [Attempts -> AttemptSteps]
        /\ attempt'[a] = x
        /\ \A b \in Attempts \ {a} : attempt'[b] = attempt[b]
    BY <1>1, <1>2, <1>5, AttemptMoves DEF AttemptSteps
  <1>7. /\ \A s \in Stores, k \in Keys :
             wrong'[s][k] = IF s \in {i, NoRow} THEN wrong[s][k] \cup {new}
                                                ELSE wrong[s][k]
        /\ wrong' \in [Stores -> [Keys -> SUBSET Failures]]
    <2>1. \A s \in Stores, k \in Keys : wrong[s][k] \subseteq Failures
      BY <1>2 DEF ThrottleTyped
    <2> QED
      BY <1>1, <1>4, <2>1
  <1>8. \A k \in Keys :
          /\ memory'[i][k] = Recorded(memory[i][k], k, new)
          /\ IsFiniteSet(memory'[i][k]) /\ memory'[i][k] \subseteq Failures
          /\ Remembered(memory'[i][k], new, MemoryMax(k))
          /\ \A w \in Failures : Remembered(memory[i][k], w, MemoryMax(k)) =>
               Remembered(memory'[i][k], w, MemoryMax(k))
    <2> TAKE k \in Keys
    <2>1. memory'[i][k] = Recorded(memory[i][k], k, new)
      BY <1>1, <1>2, <1>3 DEF ThrottleTyped
    <2>2. memory[i][k] \in SUBSET Failures /\ IsFiniteSet(memory[i][k])
      BY <1>2, <1>3 DEF ThrottleTyped
    <2>3. PICK S : S = memory[i][k]
      OBVIOUS
    <2>4. /\ IsFiniteSet(Recorded(S, k, new)) /\ Recorded(S, k, new) \subseteq Failures
          /\ Remembered(Recorded(S, k, new), new, MemoryMax(k))
          /\ \A w \in Failures : Remembered(S, w, MemoryMax(k)) =>
               Remembered(Recorded(S, k, new), w, MemoryMax(k))
      BY <1>2, <1>4, <2>2, <2>3, RecordedRemembers
    <2> QED
      BY <2>1, <2>3, <2>4
  <1>9. \A j \in Instances \ {i} : memory'[j] = memory[j]
    BY <1>1, <1>2 DEF ThrottleTyped
  <1>10. ThrottleTyped'
    <2>1. memory' \in [Instances -> [Keys -> SUBSET Failures]]
      <3>1. [k \in Keys |-> Recorded(memory[i][k], k, new)] \in [Keys -> SUBSET Failures]
        BY <1>8
      <3> QED
        BY <1>1, <1>2, <3>1 DEF ThrottleTyped
    <2>2. \A j \in Instances, k \in Keys : IsFiniteSet(memory'[j][k])
      BY <1>2, <1>8, <1>9 DEF ThrottleTyped
    <2>3. \A s \in Stores, k \in Keys : IsFiniteSet(wrong'[s][k])
      <3> TAKE s \in Stores, k \in Keys
      <3>1. IsFiniteSet(wrong[s][k])
        BY <1>2 DEF ThrottleTyped
      <3>2. IsFiniteSet(wrong[s][k] \cup {new})
        BY <3>1, FS_AddElement
      <3> QED
        BY <1>7, <3>1, <3>2
    <2>4. raced' \in BOOLEAN
      BY <1>1
    <2> QED
      BY <1>1, <1>2, <1>6, <1>7, <2>1, <2>2, <2>3, <2>4 DEF ThrottleTyped
  <1>11. FailuresPast'
    <2>1. ASSUME NEW s \in Stores, NEW k \in Keys, NEW w \in wrong'[s][k]
          PROVE  /\ w[1] <= begun
                 /\ w[1] = begun => attempt'[w[2]].at \notin {"checking", "asking"}
      <3>1. CASE w = new
        BY <1>2, <1>4, <1>5, <1>6, <3>1
      <3>2. CASE w \in wrong[s][k]
        <4>1. w \in Failures /\ w[2] \in Attempts
          BY <1>2, <3>2 DEF ThrottleTyped, Failures
        <4>2. /\ w[1] <= begun
              /\ w[1] = begun => attempt[w[2]].at \notin {"checking", "asking"}
          BY <3>2 DEF LimitersInv, FailuresPast
        <4> QED
          BY <1>5, <1>6, <4>1, <4>2
      <3>3. w \in wrong[s][k] \cup {new}
        BY <1>7, <2>1
      <3> QED
        BY <3>1, <3>2, <3>3
    <2> QED
      BY <1>1, <2>1 DEF FailuresPast
  <1>12. MemoryHolds'
    <2>1. ASSUME NEW j \in Instances, NEW k \in Keys, NEW w \in wrong'[j][k]
          PROVE  Remembered(memory'[j][k], w, MemoryMax(k))
      <3>1. \A v \in wrong[j][k] :
              v \in Failures /\ Remembered(memory[j][k], v, MemoryMax(k))
        BY <1>2, ThrottleConstants DEF LimitersInv, MemoryHolds, ThrottleTyped
      <3>2. CASE j = i
        <4>1. w \in wrong[i][k] \cup {new}
          BY <1>3, <1>7, <2>1, <3>2
        <4> QED
          BY <1>8, <3>1, <3>2, <4>1
      <3>3. CASE j # i
        <4>1. wrong'[j][k] = wrong[j][k]
          BY <1>7, <3>3, ThrottleConstants
        <4> QED
          BY <1>9, <2>1, <3>1, <3>3, <4>1
      <3> QED
        BY <3>2, <3>3
    <2> QED
      <3>1. \A w : \A j \in Instances, k \in Keys :
              Remembered(memory[j][k], w, MemoryMax(k))'
                <=> Remembered(memory'[j][k], w, MemoryMax(k))
        BY <1>1 DEF Remembered, MemoryMax
      <3> QED
        BY <2>1, <3>1 DEF MemoryHolds
  <1>13. LimitHolds'
    <2>1. ASSUME NEW j \in Instances, NEW k \in Keys
          PROVE  Cardinality(Recent(wrong[j][k])') + Cardinality(Passing(j)')
                   < MemoryMax(k) + Cardinality(Attempts)
      <3>1. CASE j # i
        <4>1. wrong'[j][k] = wrong[j][k]
          BY <1>7, <3>1, ThrottleConstants
        <4>2. Recent(wrong[j][k])' = Recent(wrong[j][k])
          BY <1>1, <4>1 DEF Recent
        <4>3. Passing(j)' \subseteq Passing(j)
          BY <1>5, <1>6 DEF Passing
        <4> QED
          BY <4>2, <4>3, LimitStays
      <3>2. CASE j = i
        <4>1. Recent(wrong[i][k])' \subseteq Recent(wrong[i][k]) \cup {new}
          BY <1>1, <1>3, <1>7 DEF Recent
        <4>2. Passing(i)' = Passing(i) \ {a} /\ a \in Passing(i)
          BY <1>1, <1>5, <1>6 DEF Passing
        <4>3. IsFiniteSet(Recent(wrong[i][k])) /\ IsFiniteSet(Passing(i))
          <5>1. IsFiniteSet(wrong[i][k]) /\ IsFiniteSet(Attempts)
            BY <1>2, <1>3, ThrottleConstants DEF ThrottleTyped
          <5>2. /\ Recent(wrong[i][k]) \in SUBSET wrong[i][k]
                /\ Passing(i) \in SUBSET Attempts
            BY DEF Recent, Passing
          <5> QED
            BY <5>1, <5>2, FS_Subset
        <4>4. /\ IsFiniteSet(Recent(wrong[i][k]) \cup {new})
              /\ Cardinality(Recent(wrong[i][k]) \cup {new})
                   <= Cardinality(Recent(wrong[i][k])) + 1
              /\ Cardinality(Recent(wrong[i][k])) \in Nat
          <5> PICK S : S = Recent(wrong[i][k])
            OBVIOUS
          <5>1. IsFiniteSet(S) /\ Cardinality(S) \in Nat
            BY <4>3, FS_CardinalityType
          <5>2. /\ IsFiniteSet(S \cup {new})
                /\ Cardinality(S \cup {new}) = IF new \in S THEN Cardinality(S)
                                                ELSE Cardinality(S) + 1
            BY <5>1, FS_AddElement
          <5>3. Cardinality(S \cup {new}) <= Cardinality(S) + 1
            BY <5>1, <5>2
          <5> QED
            BY <5>1, <5>2, <5>3
        <4>5. /\ Cardinality(Recent(wrong[i][k])')
                   <= Cardinality(Recent(wrong[i][k]) \cup {new})
              /\ Cardinality(Recent(wrong[i][k])') \in Nat
              /\ Cardinality(Recent(wrong[i][k]) \cup {new}) \in Nat
          BY <4>1, <4>4, FS_Subset, FS_CardinalityType
        <4>6. /\ Cardinality(Passing(i)') = Cardinality(Passing(i)) - 1
              /\ Cardinality(Passing(i)) \in Nat
          BY <4>2, <4>3, FS_RemoveElement, FS_CardinalityType
        <4>7. /\ Cardinality(Recent(wrong[i][k])) + Cardinality(Passing(i))
                   < MemoryMax(k) + Cardinality(Attempts)
              /\ MemoryMax(k) \in Nat /\ Cardinality(Attempts) \in Nat
          BY <1>3, ThrottleConstants DEF LimitersInv, LimitHolds
        <4> QED
          BY <3>2, <4>4, <4>5, <4>6, <4>7
      <3> QED
        BY <3>1, <3>2
    <2> QED
      BY <2>1 DEF LimitHolds
  <1>14. TimesPast'
    BY <1>1, <1>2, <1>5, <1>6 DEF LimitersInv, TimesPast
  <1>15. ASSUME ~raced' PROVE RowsEarned'
    <2>1. ~raced /\ RowsEarned /\ \A k \in Keys : RowWriters(k) = {}
      BY <1>1, <1>15 DEF LimitersInv
    <2>2. \A k \in Keys : RowWriters(k)' \subseteq {a}
      BY <1>6, <2>1 DEF RowWriters
    <2>3. ASSUME NEW k \in Keys, NEW t \in Nat, t <= now
          PROVE  Since(k, t)' = Since(k, t) + 1 /\ Since(k, t) \in Nat
      <3> DEFINE S == {w \in wrong[NoRow][k] : w[3] >= t}
      <3>1. S \in SUBSET wrong[NoRow][k] /\ IsFiniteSet(wrong[NoRow][k])
        BY <1>2, ThrottleConstants DEF ThrottleTyped
      <3>2. IsFiniteSet(S)
        BY <3>1, FS_Subset
      <3>3. new \notin wrong[NoRow][k]
        BY <1>1, <1>4, ThrottleConstants DEF LimitersInv, FailuresPast
      <3>4. wrong'[NoRow][k] = wrong[NoRow][k] \cup {new}
        BY <1>7, ThrottleConstants
      <3>5. {w \in wrong'[NoRow][k] : w[3] >= t} = S \cup {new}
        BY <1>2, <1>4, <2>3, <3>4
      <3>6. Cardinality(S \cup {new}) = Cardinality(S) + 1 /\ Cardinality(S) \in Nat
        BY <3>2, <3>3, FS_AddElement, FS_CardinalityType
      <3> QED
        BY <3>5, <3>6 DEF Since
    <2>4. ASSUME NEW k \in Keys
          PROVE  /\ throttle[k] # NoRow => throttle[k].failures + 1
                                             <= Since(k, throttle[k].since)'
                 /\ Since(k, now)' >= 1
      <3>1. Since(k, now)' >= 1
        <4> PICK t : t = now
          OBVIOUS
        <4>1. Since(k, t)' = Since(k, t) + 1 /\ Since(k, t) \in Nat
          BY <1>2, <2>3
        <4>2. Since(k, now)' = Since(k, t)'
          BY <1>1 DEF Since
        <4> QED
          BY <4>1, <4>2
      <3>2. throttle[k] # NoRow => throttle[k].failures + 1
                                     <= Since(k, throttle[k].since)'
        <4> SUFFICES ASSUME throttle[k] # NoRow
                     PROVE  throttle[k].failures + 1
                              <= Since(k, throttle[k].since)'
          OBVIOUS
        <4> PICK row : row = throttle[k]
          OBVIOUS
        <4>1. row \in ThrottleRows /\ row.since <= now
          BY <1>2 DEF ThrottleTyped, LimitersInv, TimesPast
        <4>2. row.failures <= Since(k, row.since)
          BY <2>1 DEF RowsEarned
        <4>3. row.failures \in Nat /\ row.since \in Nat
          BY <4>1 DEF ThrottleRows
        <4>4. row.failures + 1 <= Since(k, row.since)'
          BY <2>3, <4>1, <4>2, <4>3
        <4>5. Since(k, throttle[k].since)' = Since(k, row.since)'
          BY <1>1 DEF Since
        <4> QED
          BY <4>4, <4>5
      <3> QED
        BY <3>1, <3>2
    <2>5. \A k \in Keys : WriterOwes(a, k)'
      <3> TAKE k \in Keys
      <3>1. attempt'[a].todo[k].do = "read" /\ attempt'[a].time = now
        BY <1>5, <1>6
      <3>2. Since(k, attempt[a].time)' = Since(k, now)'
        BY <3>1, <1>1 DEF Since
      <3>3. Since(k, throttle[k].since)' = Since(k, throttle[k].since)'
        OBVIOUS
      <3> QED
        BY <1>1, <2>4, <3>1, <3>2 DEF WriterOwes
    <2>6. \A k \in Keys : throttle'[k] # NoRow =>
            throttle'[k].failures <= Since(k, throttle[k].since)'
      <3> TAKE k \in Keys
      <3>1. throttle[k] # NoRow => throttle[k].failures \in Nat
        BY <1>2 DEF ThrottleTyped, ThrottleRows
      <3>2. throttle[k] # NoRow => throttle[k].since \in Nat /\ throttle[k].since <= now
        BY <1>2 DEF ThrottleTyped, ThrottleRows, LimitersInv, TimesPast
      <3>3. throttle[k] # NoRow => Since(k, throttle[k].since)' \in Nat
        <4> SUFFICES ASSUME throttle[k] # NoRow
                     PROVE  Since(k, throttle[k].since)' \in Nat
          OBVIOUS
        <4> PICK t : t = throttle[k].since
          OBVIOUS
        <4>1. Since(k, t)' \in Nat
          BY <2>3, <3>2
        <4>2. Since(k, throttle[k].since)' = Since(k, t)'
          BY <1>1 DEF Since
        <4> QED
          BY <4>1, <4>2
      <3> QED
        BY <1>1, <2>4, <3>1, <3>3
    <2> QED
      BY <2>2, <2>5, <2>6 DEF RowsEarned
  <1> QED
    BY <1>10, <1>11, <1>12, <1>13, <1>14, <1>15 DEF LimitersInv
\* The steps of an attempt that has its answer: the instances and what they
\* remember stay, nobody joins those on their way, and rows go or come from
\* the one who writes.
LEMMA WritingStep ==
  ASSUME LimitersInv, NEW a \in Attempts, NEW x \in AttemptSteps,
         attempt[a].at \notin {"checking", "asking"},
         x.at \notin {"checking", "asking"},
         attempt' = [attempt EXCEPT ![a] = x],
         UNCHANGED <<now, memory, begun, raced>>,
         throttle' \in [Keys -> ThrottleRows \cup {NoRow}],
         wrong' \in [Stores -> [Keys -> SUBSET Failures]],
         \A s \in Stores, k \in Keys : wrong'[s][k] \subseteq wrong[s][k],
         TimesPast', ~raced => RowsEarned'
  PROVE  LimitersInv'
  <1>1. ThrottleTyped
    BY DEF LimitersInv
  <1>2. /\ attempt' \in [Attempts -> AttemptSteps]
        /\ attempt'[a] = x
        /\ \A b \in Attempts \ {a} : attempt'[b] = attempt[b]
    BY <1>1, AttemptMoves
  <1>3. \A s \in Stores, k \in Keys : IsFiniteSet(wrong'[s][k])
    <2> TAKE s \in Stores, k \in Keys
    <2>1. IsFiniteSet(wrong[s][k]) /\ wrong'[s][k] \in SUBSET wrong[s][k]
      BY <1>1 DEF ThrottleTyped
    <2> QED
      BY <2>1, FS_Subset
  <1>4. ThrottleTyped'
    BY <1>1, <1>2, <1>3 DEF ThrottleTyped
  <1>5. FailuresPast'
    <2>1. ASSUME NEW s \in Stores, NEW k \in Keys, NEW w \in wrong'[s][k]
          PROVE  /\ w[1] <= begun
                 /\ w[1] = begun => attempt'[w[2]].at \notin {"checking", "asking"}
      <3>1. w \in wrong[s][k] /\ w[2] \in Attempts
        BY <1>1 DEF ThrottleTyped, Failures
      <3>2. /\ w[1] <= begun
            /\ w[1] = begun => attempt[w[2]].at \notin {"checking", "asking"}
        BY <3>1 DEF LimitersInv, FailuresPast
      <3> QED
        BY <1>2, <3>1, <3>2
    <2> QED
      BY <2>1 DEF FailuresPast
  <1>6. MemoryHolds'
    <2>1. \A w : \A i \in Instances, k \in Keys :
            Remembered(memory[i][k], w, MemoryMax(k))'
              <=> Remembered(memory[i][k], w, MemoryMax(k))
      BY DEF Remembered, MemoryMax
    <2>2. \A i \in Instances, k \in Keys : wrong'[i][k] \subseteq wrong[i][k]
      BY ThrottleConstants
    <2> QED
      BY <2>1, <2>2 DEF LimitersInv, MemoryHolds
  <1>7. LimitHolds'
    <2>1. ASSUME NEW i \in Instances, NEW k \in Keys
          PROVE  Cardinality(Recent(wrong[i][k])') + Cardinality(Passing(i)')
                   < MemoryMax(k) + Cardinality(Attempts)
      <3>1. Recent(wrong[i][k])' \subseteq Recent(wrong[i][k])
        BY ThrottleConstants DEF Recent
      <3>2. Passing(i)' \subseteq Passing(i)
        BY <1>2 DEF Passing
      <3> QED
        BY <3>1, <3>2, LimitStays
    <2> QED
      BY <2>1 DEF LimitHolds
  <1> QED
    BY <1>4, <1>5, <1>6, <1>7 DEF LimitersInv

LEMMA AcceptedStep ==
  ASSUME LimitersInv, NEW a \in Attempts, Accepted(a)
  PROVE  LimitersInv'
  <1> PICK i : i = attempt[a].on
    OBVIOUS
  <1> PICK x : x = [at |-> "resetting", on |-> i, time |-> now,
                    todo |-> [k \in Keys |-> [do |-> IF k = "email" THEN "delete"
                                                                   ELSE "done"]]]
    OBVIOUS
  <1>1. /\ attempt[a].at = "asking"
        /\ memory' = [memory EXCEPT ![i]["email"] = {}]
        /\ attempt' = [attempt EXCEPT ![a] = x]
        /\ wrong' = [wrong EXCEPT ![i]["email"] = {}]
        /\ raced' = (raced \/ RowWriters("email") # {})
        /\ UNCHANGED <<now, throttle, begun>>
    BY DEF Accepted
  <1>2. ThrottleTyped /\ now \in Nat
    BY DEF LimitersInv, ThrottleTyped
  <1>3. i \in Instances /\ i \in Stores /\ i # NoRow
    <2>1. attempt[a] \in Checking
      BY <1>1, <1>2, AttemptsByStep DEF ThrottleTyped
    <2> QED
      BY <2>1, ThrottleConstants DEF Checking
  <1>4. /\ x \in Resetting /\ x.at = "resetting"
        /\ \A k \in Keys : x.todo[k].do = IF k = "email" THEN "delete" ELSE "done"
    BY <1>2, <1>3 DEF Resetting
  <1>5. /\ attempt' \in [Attempts -> AttemptSteps]
        /\ attempt'[a] = x
        /\ \A b \in Attempts \ {a} : attempt'[b] = attempt[b]
    BY <1>1, <1>2, <1>4, AttemptMoves DEF AttemptSteps
  <1>6. /\ wrong' \in [Stores -> [Keys -> SUBSET Failures]]
        /\ memory' \in [Instances -> [Keys -> SUBSET Failures]]
        /\ wrong'[i]["email"] = {}
        /\ \A s \in Stores, k \in Keys :
             s # i \/ k # "email" => wrong'[s][k] = wrong[s][k]
        /\ memory'[i]["email"] = {}
        /\ \A j \in Instances, k \in Keys :
             j # i \/ k # "email" => memory'[j][k] = memory[j][k]
    BY <1>1, <1>2, <1>3, ThrottleConstants DEF ThrottleTyped
  <1>7. ThrottleTyped'
    <2>1. IsFiniteSet({})
      BY FS_EmptySet
    <2>2. \A j \in Instances, k \in Keys : IsFiniteSet(memory'[j][k])
      BY <1>2, <1>6, <2>1 DEF ThrottleTyped
    <2>3. \A s \in Stores, k \in Keys : IsFiniteSet(wrong'[s][k])
      BY <1>2, <1>6, <2>1 DEF ThrottleTyped
    <2>4. raced' \in BOOLEAN
      BY <1>1
    <2> QED
      BY <1>1, <1>2, <1>5, <1>6, <2>2, <2>3, <2>4 DEF ThrottleTyped
  <1>8. \A s \in Stores, k \in Keys : wrong'[s][k] \subseteq wrong[s][k]
    BY <1>6
  <1>9. FailuresPast'
    <2>1. ASSUME NEW s \in Stores, NEW k \in Keys, NEW w \in wrong'[s][k]
          PROVE  /\ w[1] <= begun
                 /\ w[1] = begun => attempt'[w[2]].at \notin {"checking", "asking"}
      <3>1. w \in wrong[s][k] /\ w[2] \in Attempts
        BY <1>2, <1>8 DEF ThrottleTyped, Failures
      <3>2. /\ w[1] <= begun
            /\ w[1] = begun => attempt[w[2]].at \notin {"checking", "asking"}
        BY <3>1 DEF LimitersInv, FailuresPast
      <3> QED
        BY <1>4, <1>5, <3>1, <3>2
    <2> QED
      BY <1>1, <2>1 DEF FailuresPast
  <1>10. MemoryHolds'
    <2>1. \A w : \A j \in Instances, k \in Keys :
            Remembered(memory[j][k], w, MemoryMax(k))'
              <=> Remembered(memory'[j][k], w, MemoryMax(k))
      BY <1>1 DEF Remembered, MemoryMax
    <2>2. ASSUME NEW j \in Instances, NEW k \in Keys, NEW w \in wrong'[j][k]
          PROVE  Remembered(memory'[j][k], w, MemoryMax(k))
      <3>1. j # i \/ k # "email"
        BY <1>6, <2>2
      <3>2. w \in wrong[j][k] /\ memory'[j][k] = memory[j][k]
        BY <1>6, <2>2, <3>1, ThrottleConstants
      <3> QED
        BY <3>2 DEF LimitersInv, MemoryHolds
    <2> QED
      BY <2>1, <2>2 DEF MemoryHolds
  <1>11. LimitHolds'
    <2>1. ASSUME NEW j \in Instances, NEW k \in Keys
          PROVE  Cardinality(Recent(wrong[j][k])') + Cardinality(Passing(j)')
                   < MemoryMax(k) + Cardinality(Attempts)
      <3>1. Recent(wrong[j][k])' \subseteq Recent(wrong[j][k])
        BY <1>1, <1>8, ThrottleConstants DEF Recent
      <3>2. Passing(j)' \subseteq Passing(j)
        BY <1>4, <1>5 DEF Passing
      <3> QED
        BY <3>1, <3>2, LimitStays
    <2> QED
      BY <2>1 DEF LimitHolds
  <1>12. TimesPast'
    BY <1>1, <1>4, <1>5 DEF LimitersInv, TimesPast
  <1>13. ASSUME ~raced' PROVE RowsEarned'
    <2>1. RowsEarned /\ RowWriters("email") = {}
      BY <1>1, <1>13 DEF LimitersInv
    <2>2. RowWriters("email")' \subseteq {a}
      BY <1>5, <2>1 DEF RowWriters, Keys
    <2>3. \A k \in Keys : k # "email" => RowWriters(k)' = RowWriters(k)
      BY <1>1, <1>4, <1>5 DEF RowWriters
    <2>4. \A k \in Keys, b \in Attempts : b \in RowWriters(k)' =>
            WriterOwes(b, k)'
      <3>1. wrong'[NoRow] = wrong[NoRow]
        BY <1>1, <1>2, <1>3, ThrottleConstants DEF ThrottleTyped
      <3>2. ASSUME NEW k \in Keys, NEW b \in Attempts, b \in RowWriters(k)'
            PROVE  WriterOwes(b, k)'
        <4>1. CASE b = a
          <5>1. k = "email" /\ attempt'[b].todo[k].do = "delete"
            BY <1>4, <1>5, <3>2, <4>1 DEF RowWriters
          <5> QED
            BY <5>1 DEF WriterOwes
        <4>2. CASE b # a
          <5>1. b \in RowWriters(k) /\ attempt'[b] = attempt[b]
            BY <1>5, <3>2, <4>2 DEF RowWriters
          <5>2. WriterOwes(b, k)
            BY <2>1, <5>1 DEF RowsEarned
          <5> QED
            BY <1>1, <3>1, <5>1, <5>2 DEF WriterOwes, Since
        <4> QED
          BY <4>1, <4>2
      <3> QED
        BY <3>2
    <2>5. \A k \in Keys : throttle'[k] # NoRow =>
            throttle'[k].failures <= Since(k, throttle[k].since)'
      <3>1. wrong'[NoRow] = wrong[NoRow]
        BY <1>1, <1>2, <1>3, ThrottleConstants DEF ThrottleTyped
      <3> QED
        BY <1>1, <2>1, <3>1 DEF RowsEarned, Since
    <2>6. \A k \in Keys : \A b, c \in RowWriters(k)' : b = c
      BY <2>1, <2>2, <2>3 DEF RowsEarned
    <2>7. \A k \in Keys : RowWriters(k)' \subseteq Attempts
      BY DEF RowWriters
    <2> QED
      BY <2>4, <2>5, <2>6, <2>7 DEF RowsEarned
  <1> QED
    BY <1>7, <1>9, <1>10, <1>11, <1>12, <1>13 DEF LimitersInv

\* What is left of an attempt that has one write less ahead of it.
LEMMA FinishedMoves ==
  ASSUME ThrottleTyped, NEW a \in Attempts, NEW k \in Keys,
         attempt[a].at = "recording", NEW next \in RowWrites,
         Finished(a, [attempt[a].todo EXCEPT ![k] = next])
  PROVE  \E x \in AttemptSteps :
           /\ attempt' = [attempt EXCEPT ![a] = x]
           /\ x.at \in {"rest", "recording"}
           /\ x.at = "recording" =>
                /\ x.time = attempt[a].time
                /\ x.todo[k] = next
                /\ \A q \in Keys \ {k} : x.todo[q] = attempt[a].todo[q]
  <1> PICK y : y = attempt[a]
    OBVIOUS
  <1> DEFINE todo == [y.todo EXCEPT ![k] = next]
             x == IF \A q \in Keys : todo[q].do = "done" THEN AtLeisure
                  ELSE [y EXCEPT !.todo = todo]
  <1>1. y \in Recording
    BY AttemptsByStep DEF ThrottleTyped
  <1>2. /\ todo \in [Keys -> RowWrites] /\ todo[k] = next
        /\ \A q \in Keys \ {k} : todo[q] = y.todo[q]
    BY <1>1 DEF Recording
  <1>3. attempt' = [attempt EXCEPT ![a] = x]
    BY DEF Finished
  <1> HIDE DEF todo
  <1>4. /\ [y EXCEPT !.todo = todo] \in Recording
        /\ [y EXCEPT !.todo = todo].time = y.time
        /\ [y EXCEPT !.todo = todo].todo = todo
    BY <1>1, <1>2 DEF Recording
  <1>5. x = AtLeisure \/ (x \in Recording /\ x.time = y.time /\ x.todo = todo)
    BY <1>4
  <1> HIDE DEF x
  <1>6. x \in AttemptSteps /\ x.at \in {"rest", "recording"}
    BY <1>5 DEF AttemptSteps, AtLeisure, Recording
  <1>7. x.at = "recording" => x.time = y.time /\ x.todo = todo
    BY <1>5 DEF AtLeisure
  <1> QED
    BY <1>2, <1>3, <1>6, <1>7

\* The one who writes the email's row of an accepted sign-in is then through.
LEMMA ResettingEnds ==
  ASSUME ThrottleTyped, NEW a \in Attempts, attempt[a].at = "resetting",
         Through(a, "email")
  PROVE  attempt' = [attempt EXCEPT ![a] = AtLeisure]
  <1> PICK y : y = attempt[a]
    OBVIOUS
  <1> DEFINE todo == [y.todo EXCEPT !["email"] = [do |-> "done"]]
  <1>1. y \in Resetting
    BY AttemptsByStep DEF ThrottleTyped
  <1>2. y.todo = [k \in Keys |-> [do |-> IF k = "email" THEN "delete" ELSE "done"]]
    BY <1>1 DEF Resetting
  <1>3. \A q \in Keys : todo[q].do = "done"
    BY <1>2
  <1>4. attempt' = [attempt EXCEPT ![a] =
          IF \A q \in Keys : todo[q].do = "done" THEN AtLeisure
                                                 ELSE [y EXCEPT !.todo = todo]]
    BY DEF Through, Finished
  <1> HIDE DEF todo
  <1> QED
    BY <1>3, <1>4

\* The reads and writes of a row by an attempt that records its failure.
LEMMA RecordingStep ==
  ASSUME LimitersInv, NEW a \in Attempts, NEW k \in Keys,
         attempt[a].at = "recording", attempt[a].todo[k].do # "done",
         NEW next \in RowWrites,
         Finished(a, [attempt[a].todo EXCEPT ![k] = next]),
         UNCHANGED <<now, memory, begun, wrong, raced>>,
         throttle' \in [Keys -> ThrottleRows \cup {NoRow}],
         \A q \in Keys \ {k} : throttle'[q] = throttle[q],
         throttle'[k] # NoRow => throttle'[k].since <= now,
         next.do = "done" \/ (next.do = "upsert" /\ throttle' = throttle),
         next.do = "upsert" /\ next.row # NoRow => next.row.since <= now,
         RowsEarned /\ throttle'[k] # NoRow =>
           throttle'[k].failures <= Since(k, throttle'[k].since),
         RowsEarned /\ next.do = "upsert" /\ next.row # NoRow =>
           next.row.failures + 1 <= Since(k, next.row.since)
  PROVE  LimitersInv'
  <1>1. ThrottleTyped
    BY DEF LimitersInv
  <1>2. PICK x \in AttemptSteps :
          /\ attempt' = [attempt EXCEPT ![a] = x]
          /\ x.at \in {"rest", "recording"}
          /\ x.at = "recording" =>
               /\ x.time = attempt[a].time
               /\ x.todo[k] = next
               /\ \A q \in Keys \ {k} : x.todo[q] = attempt[a].todo[q]
    BY <1>1, FinishedMoves
  <1>3. /\ attempt'[a] = x
        /\ \A b \in Attempts \ {a} : attempt'[b] = attempt[b]
    BY <1>1, <1>2, AttemptMoves
  <1>4. TimesPast'
    <2>1. \A q \in Keys : throttle'[q] # NoRow => throttle'[q].since <= now
      BY DEF LimitersInv, TimesPast
    <2>2. ASSUME NEW b \in Attempts, attempt'[b].at = "recording"
          PROVE  /\ attempt'[b].time <= now
                 /\ \A q \in Keys :
                      attempt'[b].todo[q].do = "upsert"
                        /\ attempt'[b].todo[q].row # NoRow
                        => attempt'[b].todo[q].row.since <= now
      <3>1. CASE b # a
        BY <1>3, <2>2, <3>1 DEF LimitersInv, TimesPast
      <3>2. CASE b = a
        BY <1>2, <1>3, <2>2, <3>2 DEF LimitersInv, TimesPast
      <3> QED
        BY <3>1, <3>2
    <2> QED
      BY <2>1, <2>2 DEF TimesPast
  <1>5. ASSUME ~raced PROVE RowsEarned'
    <2>1. RowsEarned
      BY <1>5 DEF LimitersInv
    <2>2. a \in RowWriters(k) /\ WriterOwes(a, k)
      <3>1. attempt[a].todo[k].do \in {"read", "upsert", "delete"}
        BY <1>1, AttemptsByStep DEF ThrottleTyped, Recording, RowWrites
      <3> QED
        BY <2>1, <3>1 DEF RowWriters, RowsEarned
    <2>3. \A q \in Keys : RowWriters(q)' \subseteq RowWriters(q)
      <3>1. ASSUME NEW q \in Keys, NEW b \in RowWriters(q)' PROVE b \in RowWriters(q)
        <4>1. CASE b # a
          BY <1>3, <3>1, <4>1 DEF RowWriters
        <4>2. CASE b = a /\ q # k
          BY <1>2, <1>3, <3>1, <4>2 DEF RowWriters
        <4> QED
          BY <2>2, <4>1, <4>2
      <3> QED
        BY <3>1
    <2>4. \A q \in Keys : \A b, c \in RowWriters(q)' : b = c
      BY <2>1, <2>3 DEF RowsEarned
    <2>5. \A q, t : Since(q, t)' = Since(q, t)
      BY SinceStays
    <2>6. \A q \in Keys : throttle'[q] # NoRow =>
            throttle'[q].failures <= Since(q, throttle'[q].since)
      BY <2>1 DEF RowsEarned
    <2>7. ASSUME NEW q \in Keys, NEW b \in RowWriters(q)'
          PROVE  /\ attempt'[b].todo[q].do = "read" /\ throttle'[q] # NoRow =>
                      throttle'[q].failures + 1 <= Since(q, throttle'[q].since)
                 /\ attempt'[b].todo[q].do = "upsert"
                      /\ attempt'[b].todo[q].row # NoRow =>
                      attempt'[b].todo[q].row.failures + 1
                        <= Since(q, attempt'[b].todo[q].row.since)
                 /\ attempt'[b].todo[q].do \in {"read", "upsert"} =>
                      Since(q, attempt'[b].time) >= 1
      <3>1. b \in RowWriters(q) /\ WriterOwes(b, q)
        BY <2>1, <2>3, <2>7 DEF RowsEarned
      <3>2. CASE q = k
        <4>1. b = a
          BY <2>1, <2>2, <3>1, <3>2 DEF RowsEarned
        <4>2. attempt'[a].at = "recording" /\ attempt'[a].todo[k] = next
              /\ next.do = "upsert"
          BY <1>2, <1>3, <2>7, <3>2, <4>1 DEF RowWriters
        <4>3. attempt[a].todo[k].do \in {"read", "upsert"}
          BY <1>1, AttemptsByStep DEF ThrottleTyped, Recording, RowWrites
        <4>4. Since(k, attempt'[a].time) >= 1
          BY <1>2, <1>3, <2>2, <4>2, <4>3 DEF WriterOwes
        <4> QED
          BY <2>1, <3>2, <4>1, <4>2, <4>4
      <3>3. CASE q # k
        <4>1. /\ attempt'[b].todo[q] = attempt[b].todo[q]
              /\ attempt'[b].time = attempt[b].time
              /\ throttle'[q] = throttle[q]
          BY <1>2, <1>3, <2>7, <3>3 DEF RowWriters
        <4> QED
          BY <3>1, <4>1 DEF WriterOwes
      <3> QED
        BY <3>2, <3>3
    <2>8. \A q \in Keys : \A b \in RowWriters(q)' : WriterOwes(b, q)'
      <3> SUFFICES ASSUME NEW q \in Keys, NEW b \in RowWriters(q)'
                   PROVE  WriterOwes(b, q)'
        OBVIOUS
      <3>1. /\ Since(q, throttle[q].since)' = Since(q, throttle'[q].since)
            /\ Since(q, attempt[b].todo[q].row.since)'
                 = Since(q, attempt'[b].todo[q].row.since)
            /\ Since(q, attempt[b].time)' = Since(q, attempt'[b].time)
        BY DEF Since
      <3> QED
        BY <2>7, <3>1 DEF WriterOwes
    <2>9. \A q \in Keys : Since(q, throttle[q].since)' = Since(q, throttle'[q].since)
      BY DEF Since
    <2> QED
      BY <2>4, <2>6, <2>8, <2>9 DEF RowsEarned
  <1> HIDE DEF Finished
  <1>6. /\ attempt[a].at \notin {"checking", "asking"}
        /\ x.at \notin {"checking", "asking"}
        /\ wrong' \in [Stores -> [Keys -> SUBSET Failures]]
        /\ \A s \in Stores, q \in Keys : wrong'[s][q] \subseteq wrong[s][q]
    BY <1>1, <1>2 DEF ThrottleTyped
  <1> QED
    BY <1>2, <1>4, <1>5, <1>6, WritingStep

LEMMA ReadRowStep ==
  ASSUME LimitersInv, NEW a \in Attempts, NEW k \in Keys, ReadRow(a, k)
  PROVE  LimitersInv'
  <1> PICK next : next = [do |-> "upsert", row |-> throttle[k]]
    OBVIOUS
  <1>1. /\ attempt[a].at = "recording" /\ attempt[a].todo[k].do = "read"
        /\ Finished(a, [attempt[a].todo EXCEPT ![k] = next])
        /\ UNCHANGED <<now, memory, throttle, begun, wrong, raced>>
    BY DEF ReadRow
  <1>2. throttle \in [Keys -> ThrottleRows \cup {NoRow}]
    BY DEF LimitersInv, ThrottleTyped
  <1>3. next \in RowWrites /\ next.do = "upsert" /\ next.row = throttle[k]
    BY <1>2 DEF RowWrites
  <1>4. throttle[k] # NoRow => throttle[k].since <= now
    BY DEF LimitersInv, TimesPast
  <1>5. RowsEarned => WriterOwes(a, k)
    BY <1>1 DEF RowsEarned, RowWriters
  <1>6. RowsEarned /\ throttle[k] # NoRow =>
          throttle[k].failures <= Since(k, throttle[k].since)
    BY DEF RowsEarned
  <1>7. RowsEarned /\ throttle[k] # NoRow =>
          throttle[k].failures + 1 <= Since(k, throttle[k].since)
    BY <1>1, <1>5 DEF WriterOwes
  <1> QED
    BY <1>1, <1>2, <1>3, <1>4, <1>6, <1>7, RecordingStep

LEMMA UpsertRowStep ==
  ASSUME LimitersInv, NEW a \in Attempts, NEW k \in Keys, UpsertRow(a, k)
  PROVE  LimitersInv'
  <1> PICK next, row, t : /\ next = [do |-> "done"]
                          /\ row = attempt[a].todo[k].row
                          /\ t = attempt[a].time
    OBVIOUS
  <1>1. /\ attempt[a].at = "recording" /\ attempt[a].todo[k].do = "upsert"
        /\ throttle' = [throttle EXCEPT ![k] = NextRow(row, t)]
        /\ Finished(a, [attempt[a].todo EXCEPT ![k] = next])
        /\ UNCHANGED <<now, memory, begun, wrong, raced>>
    BY DEF UpsertRow, Through
  <1>2. throttle \in [Keys -> ThrottleRows \cup {NoRow}] /\ ThrottleTyped
    BY DEF LimitersInv, ThrottleTyped
  <1>3. next \in RowWrites /\ next.do = "done"
    BY DEF RowWrites
  <1>4. row \in ThrottleRows \cup {NoRow} /\ t \in Nat
    BY <1>1, <1>2, AttemptsByStep DEF ThrottleTyped, Recording, RowWrites
  <1>5. t <= now /\ (row # NoRow => row.since <= now)
    BY <1>1 DEF LimitersInv, TimesPast
  <1>6. /\ NextRow(row, t) \in ThrottleRows
        /\ \/ NextRow(row, t).since = t /\ NextRow(row, t).failures = 1
           \/ /\ row # NoRow /\ NextRow(row, t).since = row.since
              /\ NextRow(row, t).failures = row.failures + 1
    <2>1. CASE row = NoRow \/ row.since + Window <= t
      BY <1>4, <2>1 DEF NextRow, ThrottleRows
    <2>2. CASE ~ (row = NoRow \/ row.since + Window <= t)
      <3>1. row \in ThrottleRows
        BY <1>4, <2>2
      <3>2. NextRow(row, t) = [row EXCEPT !.failures = row.failures + 1,
                                          !.touched = t]
        BY <2>2, <3>1 DEF NextRow, ThrottleRows
      <3>3. NextRow(row, t) = [since |-> row.since, failures |-> row.failures + 1,
                               touched |-> t]
        BY <3>1, <3>2 DEF ThrottleRows
      <3> QED
        BY <1>4, <2>2, <3>1, <3>3 DEF ThrottleRows
    <2> QED
      BY <2>1, <2>2
  <1> PICK new : new = NextRow(row, t)
    OBVIOUS
  <1>7. throttle' \in [Keys -> ThrottleRows \cup {NoRow}] /\ throttle'[k] = new
        /\ \A q \in Keys \ {k} : throttle'[q] = throttle[q]
    BY <1>1, <1>2, <1>6
  <1>8. RowsEarned => new.failures <= Since(k, new.since)
    <2>1. RowsEarned => WriterOwes(a, k)
      BY <1>1 DEF RowsEarned, RowWriters
    <2>2. RowsEarned => /\ row # NoRow => row.failures + 1 <= Since(k, row.since)
                        /\ Since(k, t) >= 1
      BY <1>1, <2>1 DEF WriterOwes
    <2>3. Since(k, t) \in Nat
      <3>1. IsFiniteSet(wrong[NoRow][k])
        BY <1>2, ThrottleConstants DEF ThrottleTyped
      <3>2. {w \in wrong[NoRow][k] : w[3] >= t} \in SUBSET wrong[NoRow][k]
        OBVIOUS
      <3> QED
        BY <3>1, <3>2, FS_Subset, FS_CardinalityType DEF Since
    <2>4. CASE new.since = t /\ new.failures = 1
      BY <2>2, <2>3, <2>4
    <2>5. CASE row # NoRow /\ new.since = row.since /\ new.failures = row.failures + 1
      BY <2>2, <2>5
    <2> QED
      BY <1>6, <2>4, <2>5
  <1>9. new.since <= now
    BY <1>5, <1>6
  <1> QED
    BY <1>1, <1>3, <1>7, <1>8, <1>9, RecordingStep

LEMMA RestStep ==
  ASSUME LimitersInv, NEW a \in Attempts, attempt[a].at = "resetting",
         attempt' = [attempt EXCEPT ![a] = AtLeisure],
         UNCHANGED <<now, memory, begun, raced>>,
         \/ UNCHANGED <<throttle, wrong>>
         \/ /\ throttle' = [throttle EXCEPT !["email"] = NoRow]
            /\ wrong' = [wrong EXCEPT ![NoRow]["email"] = {}]
  PROVE  LimitersInv'
  <1>1. ThrottleTyped
    BY DEF LimitersInv
  <1>2. AtLeisure \in AttemptSteps /\ AtLeisure.at = "rest"
    BY DEF AttemptSteps, AtLeisure
  <1>3. /\ attempt'[a] = AtLeisure
        /\ \A b \in Attempts \ {a} : attempt'[b] = attempt[b]
    BY <1>1, <1>2, AttemptMoves
  <1>4. /\ throttle' \in [Keys -> ThrottleRows \cup {NoRow}]
        /\ \A k \in Keys : throttle'[k] \in {throttle[k], NoRow}
        /\ wrong' \in [Stores -> [Keys -> SUBSET Failures]]
        /\ \A s \in Stores, k \in Keys :
             wrong'[s][k] = wrong[s][k] \/ wrong'[s][k] = {}
        /\ throttle'["ip"] = throttle["ip"]
        /\ wrong'[NoRow]["ip"] = wrong[NoRow]["ip"]
        /\ \/ /\ throttle'["email"] = throttle["email"]
              /\ wrong'[NoRow]["email"] = wrong[NoRow]["email"]
           \/ throttle'["email"] = NoRow
    BY SMTT(30), <1>1, ThrottleConstants DEF ThrottleTyped
  <1>5. TimesPast'
    BY <1>2, <1>3, <1>4 DEF LimitersInv, TimesPast
  <1>6. ASSUME ~raced PROVE RowsEarned'
    <2>1. RowsEarned
      BY <1>6 DEF LimitersInv
    <2>2. attempt[a].todo["email"].do = "delete" /\ a \in RowWriters("email")
      <3>1. attempt[a].todo = [k \in Keys |-> [do |-> IF k = "email" THEN "delete"
                                                                     ELSE "done"]]
        BY <1>1, AttemptsByStep DEF ThrottleTyped, Resetting
      <3>2. attempt[a].todo["email"].do = "delete"
        BY <3>1, ThrottleConstants
      <3> QED
        BY <3>2 DEF RowWriters
    <2>3. RowWriters("email")' = {}
      <3>1. \A b \in RowWriters("email") : b = a
        BY <2>1, <2>2, ThrottleConstants DEF RowsEarned
      <3>2. \A b \in RowWriters("email")' : b \in RowWriters("email") /\ b # a
        BY <1>2, <1>3 DEF RowWriters
      <3> QED
        BY <3>1, <3>2
    <2>4. \A b \in RowWriters("ip")' : b \in RowWriters("ip") /\ b # a
                                       /\ attempt'[b] = attempt[b]
      BY <1>2, <1>3 DEF RowWriters
    <2>5. \A t : Since("ip", t)' = Since("ip", t)
      BY <1>4 DEF Since
    <2>6. \A b \in RowWriters("ip")' : WriterOwes(b, "ip")'
      <3> SUFFICES ASSUME NEW b \in RowWriters("ip")' PROVE WriterOwes(b, "ip")'
        OBVIOUS
      <3>1. WriterOwes(b, "ip") /\ attempt'[b] = attempt[b]
        BY <2>1, <2>4, ThrottleConstants DEF RowsEarned
      <3> QED
        BY <1>4, <3>1 DEF WriterOwes, Since
    <2>7. throttle'["ip"] # NoRow =>
            throttle'["ip"].failures <= Since("ip", throttle["ip"].since)'
      BY <1>4, <2>1, ThrottleConstants DEF RowsEarned, Since
    <2>8. throttle'["email"] # NoRow =>
            throttle'["email"].failures <= Since("email", throttle["email"].since)'
      BY <1>4, <2>1, ThrottleConstants DEF RowsEarned, Since
    <2>9. \A b, c \in RowWriters("ip")' : b = c
      BY <2>1, <2>4, ThrottleConstants DEF RowsEarned
    <2>10. \A k \in Keys : k = "email" \/ k = "ip"
      BY ThrottleConstants
    <2> QED
      BY <2>3, <2>6, <2>7, <2>8, <2>9, <2>10 DEF RowsEarned
  <1> QED
    BY <1>2, <1>4, <1>5, <1>6, WritingStep

LEMMA DeleteRowStep ==
  ASSUME LimitersInv, NEW a \in Attempts, DeleteRow(a)
  PROVE  LimitersInv'
  <1>1. /\ attempt[a].at = "resetting" /\ Through(a, "email")
        /\ throttle' = [throttle EXCEPT !["email"] = NoRow]
        /\ wrong' = [wrong EXCEPT ![NoRow]["email"] = {}]
        /\ UNCHANGED <<now, memory, begun, raced>>
    BY DEF DeleteRow
  <1> QED
    BY <1>1, ResettingEnds, RestStep DEF LimitersInv

LEMMA StoreFailsStep ==
  ASSUME LimitersInv, NEW a \in Attempts, NEW k \in Keys, StoreFails(a, k)
  PROVE  LimitersInv'
  <1>1. /\ attempt[a].at \in {"recording", "resetting"}
        /\ attempt[a].todo[k].do # "done"
        /\ Through(a, k)
        /\ UNCHANGED <<now, memory, throttle, begun, wrong, raced>>
    BY DEF StoreFails
  <1>2. CASE attempt[a].at = "recording"
    <2> PICK next : next = [do |-> "done"]
      OBVIOUS
    <2>1. /\ next \in RowWrites /\ next.do = "done"
          /\ Finished(a, [attempt[a].todo EXCEPT ![k] = next])
      BY <1>1 DEF RowWrites, Through
    <2>2. throttle \in [Keys -> ThrottleRows \cup {NoRow}]
      BY DEF LimitersInv, ThrottleTyped
    <2>3. throttle[k] # NoRow => throttle[k].since <= now
      BY DEF LimitersInv, TimesPast
    <2>4. RowsEarned /\ throttle[k] # NoRow =>
            throttle[k].failures <= Since(k, throttle[k].since)
      BY DEF RowsEarned
    <2> QED
      BY <1>1, <1>2, <2>1, <2>2, <2>3, <2>4, RecordingStep
  <1>3. CASE attempt[a].at = "resetting"
    <2> PICK y : y = attempt[a]
      OBVIOUS
    <2>0. y \in Resetting
      BY <1>3, AttemptsByStep DEF LimitersInv, ThrottleTyped
    <2>1. y.todo = [q \in Keys |-> [do |-> IF q = "email" THEN "delete" ELSE "done"]]
      BY <2>0 DEF Resetting
    <2>2. k = "email"
      BY <1>1, <2>1
    <2> QED
      BY <1>1, <1>3, <2>2, ResettingEnds, RestStep DEF LimitersInv
  <1> QED
    BY <1>1, <1>2, <1>3

\* A step that leaves the rows, the attempts and the failures alone.
LEMMA EarnedStays ==
  ASSUME UNCHANGED <<throttle, attempt, wrong>>, RowsEarned
  PROVE  RowsEarned'
  <1>1. \A k \in Keys : RowWriters(k)' = RowWriters(k)
    BY DEF RowWriters
  <1>2. \A k \in Keys, b \in Attempts : WriterOwes(b, k) => WriterOwes(b, k)'
    BY DEF WriterOwes, Since
  <1>3. \A k \in Keys : throttle'[k] # NoRow =>
          throttle'[k].failures <= Since(k, throttle[k].since)'
    BY DEF RowsEarned, Since
  <1>4. \A k \in Keys : RowWriters(k) \subseteq Attempts
    BY DEF RowWriters
  <1> QED
    BY <1>1, <1>2, <1>3, <1>4 DEF RowsEarned

LEMMA SweepStoreStep ==
  ASSUME LimitersInv, NEW i \in Instances, SweepStore(i)
  PROVE  LimitersInv'
  <1>1. /\ memory' = [memory EXCEPT ![i] = [k \in Keys |-> Recent(memory[i][k])]]
        /\ UNCHANGED <<now, throttle, attempt, begun, wrong, raced>>
    BY DEF SweepStore
  <1>2. ThrottleTyped /\ now \in Nat
    BY DEF LimitersInv, ThrottleTyped
  <1>3. \A k \in Keys : memory'[i][k] = Recent(memory[i][k])
    BY <1>1, <1>2 DEF ThrottleTyped
  <1>4. \A j \in Instances \ {i} : memory'[j] = memory[j]
    BY <1>1, <1>2 DEF ThrottleTyped
  <1>5. \A k \in Keys :
          IsFiniteSet(Recent(memory[i][k])) /\ Recent(memory[i][k]) \in SUBSET Failures
    <2> TAKE k \in Keys
    <2>1. IsFiniteSet(memory[i][k]) /\ memory[i][k] \in SUBSET Failures
      BY <1>2 DEF ThrottleTyped
    <2>2. Recent(memory[i][k]) \in SUBSET memory[i][k]
      BY DEF Recent
    <2> QED
      BY <2>1, <2>2, FS_Subset
  <1>6. ThrottleTyped'
    <2>1. [k \in Keys |-> Recent(memory[i][k])] \in [Keys -> SUBSET Failures]
      BY <1>5
    <2>2. memory' \in [Instances -> [Keys -> SUBSET Failures]]
      BY <1>1, <1>2, <2>1 DEF ThrottleTyped
    <2>3. \A j \in Instances, k \in Keys : IsFiniteSet(memory'[j][k])
      BY <1>2, <1>3, <1>4, <1>5 DEF ThrottleTyped
    <2> QED
      BY <1>1, <1>2, <2>2, <2>3 DEF ThrottleTyped
  <1>7. MemoryHolds'
    <2>1. ASSUME NEW j \in Instances, NEW k \in Keys, NEW w \in wrong[j][k]
          PROVE  Remembered(memory'[j][k], w, MemoryMax(k))
      <3>1. w \in Failures /\ Remembered(memory[j][k], w, MemoryMax(k))
        BY <1>2, ThrottleConstants DEF LimitersInv, MemoryHolds, ThrottleTyped
      <3>2. CASE j = i
        <4>1. memory[i][k] \in SUBSET Failures /\ MemoryMax(k) \in Nat
          BY <1>2, ThrottleConstants DEF ThrottleTyped
        <4>2. Remembered(Recent(memory[i][k]), w, MemoryMax(k))
          BY <1>2, <1>5, <3>1, <3>2, <4>1, PrunedRemembers
        <4> QED
          BY <1>3, <3>2, <4>2
      <3>3. CASE j # i
        BY <1>4, <3>1, <3>3
      <3> QED
        BY <3>2, <3>3
    <2>2. \A w : \A j \in Instances, k \in Keys :
            Remembered(memory[j][k], w, MemoryMax(k))'
              <=> Remembered(memory'[j][k], w, MemoryMax(k))
      BY <1>1 DEF Remembered, MemoryMax
    <2> QED
      BY <1>1, <2>1, <2>2 DEF MemoryHolds
  <1>8. LimitHolds' <=> LimitHolds
    BY <1>1 DEF LimitHolds, Recent, Passing, MemoryMax
  <1>9. FailuresPast' /\ TimesPast'
    BY <1>1 DEF LimitersInv, FailuresPast, TimesPast
  <1>10. ~raced' => RowsEarned'
    BY <1>1, EarnedStays DEF LimitersInv
  <1> QED
    BY <1>6, <1>7, <1>8, <1>9, <1>10 DEF LimitersInv

\* Rows that go count nothing.
LEMMA SweepRowsStep ==
  ASSUME LimitersInv, SweepStale \/ SweepExcess
  PROVE  LimitersInv'
  <1>1. /\ UNCHANGED <<now, memory, attempt, begun, wrong, raced>>
        /\ throttle' \in [Keys -> ThrottleRows \cup {NoRow}]
        /\ \A k \in Keys : throttle'[k] = throttle[k] \/ throttle'[k] = NoRow
    BY DEF SweepStale, SweepExcess, LimitersInv, ThrottleTyped
  <1>2. ThrottleTyped'
    BY <1>1 DEF LimitersInv, ThrottleTyped
  <1>3. MemoryHolds' /\ LimitHolds' /\ FailuresPast'
    BY <1>1 DEF LimitersInv, MemoryHolds, LimitHolds, FailuresPast, Recent,
                Passing, MemoryMax, Remembered
  <1>4. TimesPast'
    BY <1>1 DEF LimitersInv, TimesPast
  <1>5. ASSUME ~raced' PROVE RowsEarned'
    <2>1. RowsEarned
      BY <1>1, <1>5 DEF LimitersInv
    <2>2. \A k \in Keys : RowWriters(k)' = RowWriters(k)
      BY <1>1 DEF RowWriters
    <2>3. \A k \in Keys, b \in Attempts : WriterOwes(b, k) => WriterOwes(b, k)'
      BY ZenonT(30), <1>1 DEF WriterOwes, Since
    <2>4. \A k \in Keys : throttle'[k] # NoRow =>
            throttle'[k].failures <= Since(k, throttle[k].since)'
      BY <1>1, <2>1 DEF RowsEarned, Since
    <2>5. \A k \in Keys : RowWriters(k) \subseteq Attempts
      BY DEF RowWriters
    <2> QED
      BY <2>1, <2>2, <2>3, <2>4, <2>5 DEF RowsEarned
  <1> QED
    BY <1>2, <1>3, <1>4, <1>5 DEF LimitersInv

LEMMA LimitersStep == LimitersInv /\ [ThrottleNext]_throttleVars => LimitersInv'
  <1> SUFFICES ASSUME LimitersInv, [ThrottleNext]_throttleVars PROVE LimitersInv'
    OBVIOUS
  <1>1. CASE UNCHANGED throttleVars
    <2>1. UNCHANGED <<now, memory, throttle, attempt, begun, wrong, raced>>
      BY <1>1 DEF throttleVars
    <2>2. ThrottleTyped' /\ FailuresPast' /\ TimesPast'
      BY <2>1 DEF LimitersInv, ThrottleTyped, FailuresPast, TimesPast
    <2>3. MemoryHolds' /\ LimitHolds'
      BY <2>1 DEF LimitersInv, MemoryHolds, LimitHolds, Recent, Passing,
                  MemoryMax, Remembered
    <2>4. ~raced' => RowsEarned'
      BY <2>1, EarnedStays DEF LimitersInv
    <2> QED
      BY <2>2, <2>3, <2>4 DEF LimitersInv
  <1> QED
    BY <1>1, HourStep, SweepRowsStep, SweepStoreStep, ArriveStep, RejectedStep,
       AcceptedStep, DeleteRowStep, ReadRowStep, UpsertRowStep, StoreFailsStep,
       CheckDurableStep
       DEF ThrottleNext

LEMMA LimitersFollow == LimitersInv => ThrottleInv
  <1> SUFFICES ASSUME LimitersInv PROVE ThrottleInv
    OBVIOUS
  <1>1. AtMostTheLimit
    <2>1. ASSUME NEW i \in Instances, NEW k \in Keys
          PROVE  Cardinality(Recent(wrong[i][k])) < MemoryMax(k) + Cardinality(Attempts)
      <3>1. Passing(i) \in SUBSET Attempts
        BY DEF Passing
      <3>2. IsFiniteSet(Recent(wrong[i][k]))
        <4>1. IsFiniteSet(wrong[i][k])
          BY ThrottleConstants DEF LimitersInv, ThrottleTyped
        <4>2. Recent(wrong[i][k]) \in SUBSET wrong[i][k]
          BY DEF Recent
        <4> QED
          BY <4>1, <4>2, FS_Subset
      <3>3. /\ Cardinality(Passing(i)) \in Nat
            /\ Cardinality(Recent(wrong[i][k])) \in Nat
            /\ MemoryMax(k) \in Nat /\ Cardinality(Attempts) \in Nat
        BY <3>1, <3>2, ThrottleConstants, FS_Subset, FS_CardinalityType
      <3>4. Cardinality(Recent(wrong[i][k])) + Cardinality(Passing(i))
              < MemoryMax(k) + Cardinality(Attempts)
        BY DEF LimitersInv, LimitHolds
      <3> QED
        BY <3>3, <3>4
    <2> QED
      BY <2>1 DEF AtMostTheLimit
  <1>2. LockoutIsEarned
    BY DEF LimitersInv, LockoutIsEarned, RowsEarned, Since
  <1> QED
    BY <1>1, <1>2 DEF ThrottleInv

\* An instance lets no more rejected sign-ins through in a window than its limit
\* and those under way when it was reached; and a row of auth_throttle counts no
\* failure but those of its window that no success has forgiven, unless two
\* writers of it overlapped (http/rate-limit.mjs, http/durable-rate-limit.mjs and
\* the sign-in handler of http/auth-routes.mjs), whichever call fails.
THEOREM LimitersHold == ServicesSpec => []ThrottleInv
  <1>1. ServicesInit => LimitersInv
    BY ServicesBegin, LimitersInit
  <1>2. LimitersInv /\ [ServicesNext]_servicesVars => LimitersInv'
    BY ServicesMove, LimitersStep
  <1> QED
    BY <1>1, <1>2, LimitersFollow, PTL DEF ServicesSpec
=============================================================================
