---------------------------- MODULE Communications ----------------------------
(***************************************************************************)
(* http/communications-routes.mjs and communications.mjs: the messages of  *)
(* a facility, the audiences they address, their publication and the job   *)
(* that notifies the recipients, the receipts and acknowledgements of the  *)
(* recipients and the compliance report over them, and the device tokens.  *)
(*                                                                         *)
(* Publishing reads the message, its audiences and the rosters these name, *)
(* stamps published_at by id, and inserts the notification job, each in a  *)
(* call of its own.                                                        *)
(***************************************************************************)
EXTENDS Naturals, Sequences, FiniteSets

CONSTANTS
  Desks,       \* requests that can overlap
  Messages,    \* identifiers a messages row can get
  Members,     \* employees of the facility
  Groups,      \* departments and roles
  ShiftCrews,  \* shifts
  Devices,     \* push tokens
  MaxPosts,    \* bound: requests that write
  NoOne

ASSUME CommunicationsAssumption ==
  /\ MaxPosts \in Nat /\ Groups \cap ShiftCrews = {}
  /\ Members \cap (Groups \cup ShiftCrews) = {}

VARIABLES
  messages,   \* "none", "draft" or "published" (published_at)
  audiences,  \* message_audiences: employees, groups and shifts of a message
  staff,      \* who is in a group or on a shift
  jobs,       \* notification_jobs of a message: the recipients of each
  receipts,   \* message_receipts: the marks of a member
  acks,       \* message_acknowledgements
  devices,    \* employee_device_tokens: owner, and whether it is live
  posting,    \* what a request has read
  posts,
  rushed,     \* history: the messages two publications of which overlapped
  muted,      \* history: the messages whose publication ended without a job
  late        \* history: the messages whose audience grew once it was read

messageVars == <<messages, audiences, jobs, receipts, acks>>
commVars    == <<messageVars, staff, devices, posting, posts, rushed, muted, late>>

-----------------------------------------------------------------------------
Vacant  == [at |-> "vacant"]
Targets == Members \cup Groups \cup ShiftCrews
Marks   == {"delivered", "read"}
Publishing(d, m) == posting[d] # Vacant /\ posting[d].message = m

CommunicationsInit ==
  /\ messages  = [m \in Messages |-> "none"]
  /\ audiences = [m \in Messages |-> {}]
  /\ staff     \in [Groups \cup ShiftCrews -> {{}, Members}]
  /\ jobs      = [m \in Messages |-> <<>>]
  /\ receipts  = [m \in Messages |-> [e \in Members |-> {}]]
  /\ acks      = [m \in Messages |-> {}]
  /\ devices   = [t \in Devices |-> [owner |-> NoOne, live |-> FALSE]]
  /\ posting   = [d \in Desks |-> Vacant]
  /\ posts = 0 /\ rushed = {} /\ muted = {} /\ late = {}

Post == posts < MaxPosts /\ posts' = posts + 1

\* The messages that count on the audience they have: published, or read by a
\* request that publishes.
Addressed == {m \in Messages : messages[m] = "published"
                                 \/ \E d \in Desks : Publishing(d, m)}

-----------------------------------------------------------------------------
\* A variant that hands the rows on.
ResolveUnexpanded(rows, shiftWindow) == rows

(* resolveMessageAudience: the employees the rows address.  A shift counts   *)
(* when the caller supplies a shiftWindow, which the report never does.      *)
ResolveMessageAudience(rows, shiftWindow) ==
  (rows \cap Members)
    \cup (UNION {staff[g] : g \in rows \cap Groups})
    \cup (UNION {staff[g] : g \in IF shiftWindow THEN rows \cap ShiftCrews
                                                 ELSE {}})

CreateMessage(m, publishNow) ==
  /\ messages[m] = "none" /\ Post
  /\ messages' = [messages EXCEPT
                    ![m] = IF publishNow THEN "published" ELSE "draft"]
  /\ muted' = IF publishNow THEN muted \cup {m} ELSE muted
  /\ UNCHANGED <<audiences, staff, jobs, receipts, acks, devices, posting,
                 rushed, late>>

\* Allowed in any state of the message.
AddAudiences(m, rows) ==
  /\ messages[m] # "none" /\ rows # {} /\ ~(rows \subseteq audiences[m])
  /\ Post
  /\ audiences' = [audiences EXCEPT ![m] = @ \cup rows]
  /\ late' = IF m \in Addressed THEN late \cup {m} ELSE late
  /\ UNCHANGED <<messages, staff, jobs, receipts, acks, devices, posting, rushed,
                 muted>>

\* Other routes move employees between departments, roles and shifts.
ChangeStaff(g, who) ==
  /\ staff[g] # who /\ Post
  /\ staff' = [staff EXCEPT ![g] = who]
  /\ late' = late \cup {m \in Addressed : g \in audiences[m]}
  /\ UNCHANGED <<messageVars, devices, posting, rushed, muted>>

-----------------------------------------------------------------------------
(* Publication *)

Goes(d, step) ==
  /\ posting' = [posting EXCEPT ![d] = step]
  /\ UNCHANGED <<staff, devices, posts, late>>

\* A variant that publishes what is published.
LoadAnyMessage(d, m, shiftWindow) ==
  /\ posting[d] = Vacant /\ messages[m] # "none" /\ Post
  /\ posting' = [posting EXCEPT ![d] = [at |-> "audiences", message |-> m,
                                  window |-> shiftWindow, to |-> {}]]
  /\ rushed' = IF \E o \in Desks : Publishing(o, m) THEN rushed \cup {m}
                                                    ELSE rushed
  /\ UNCHANGED <<messageVars, staff, devices, muted, late>>

LoadMessage(d, m, shiftWindow) ==
  /\ posting[d] = Vacant /\ messages[m] = "draft" /\ Post
  /\ posting' = [posting EXCEPT ![d] = [at |-> "audiences", message |-> m,
                                  window |-> shiftWindow, to |-> {}]]
  /\ rushed' = IF \E o \in Desks : Publishing(o, m) THEN rushed \cup {m}
                                                    ELSE rushed
  /\ UNCHANGED <<messageVars, staff, devices, muted, late>>

ReadAudiences(d) ==
  /\ posting[d].at = "audiences"
  /\ Goes(d, [posting[d] EXCEPT !.at = "context",
       !.to = audiences[posting[d].message]])
  /\ UNCHANGED <<messageVars, rushed, muted>>

LoadAudienceResolutionContext(d) ==
  /\ posting[d].at = "context"
  /\ Goes(d, [posting[d] EXCEPT
       !.at = "stamp", !.to = ResolveMessageAudience(@, posting[d].window)])
  /\ UNCHANGED <<messageVars, rushed, muted>>

\* The update filters by id alone.
StampPublished(d) ==
  /\ posting[d].at = "stamp"
  /\ messages' = [messages EXCEPT ![posting[d].message] = "published"]
  /\ Goes(d, [posting[d] EXCEPT !.at = "job"])
  /\ UNCHANGED <<audiences, jobs, receipts, acks, rushed, muted>>

InsertJob(d) ==
  /\ posting[d].at = "job"
  /\ jobs' = [jobs EXCEPT ![posting[d].message] = Append(@, posting[d].to)]
  /\ Goes(d, Vacant)
  /\ UNCHANGED <<messages, audiences, receipts, acks, rushed, muted>>

\* A call of the request fails.
LeaveDesk(d) ==
  /\ posting[d] # Vacant
  /\ muted' = IF posting[d].at = "job" THEN muted \cup {posting[d].message} ELSE muted
  /\ Goes(d, Vacant)
  /\ UNCHANGED <<messageVars, rushed>>

-----------------------------------------------------------------------------
(* Receipts, acknowledgements, devices: one write each, keyed by the caller *)

\* A merging upsert: a mark that is not sent stays.
SaveReceipt(m, e, sent) ==
  /\ messages[m] # "none" /\ ~(sent \subseteq receipts[m][e]) /\ Post
  /\ receipts' = [receipts EXCEPT ![m][e] = @ \cup sent]
  /\ UNCHANGED <<messages, audiences, staff, jobs, acks, devices, posting,
                 rushed, muted, late>>

\* unique (message_id, employee_id)
Acknowledge(m, e) ==
  /\ messages[m] # "none" /\ e \notin acks[m] /\ Post
  /\ acks' = [acks EXCEPT ![m] = @ \cup {e}]
  /\ UNCHANGED <<messages, audiences, staff, jobs, receipts, devices, posting,
                 rushed, muted, late>>

\* An upsert on the token: the last who registers it owns it, and it is live.
RegisterDevice(t, e) ==
  /\ devices[t] # [owner |-> e, live |-> TRUE] /\ Post
  /\ devices' = [devices EXCEPT ![t] = [owner |-> e, live |-> TRUE]]
  /\ UNCHANGED <<messageVars, staff, posting, rushed, muted, late>>

\* The update filters on the caller's own employee id.
RevokeDevice(t, e) ==
  /\ devices[t] = [owner |-> e, live |-> TRUE] /\ Post
  /\ devices' = [devices EXCEPT ![t].live = FALSE]
  /\ UNCHANGED <<messageVars, staff, posting, rushed, muted, late>>

-----------------------------------------------------------------------------
\* The report of one message that requires an acknowledgement.
SummarizeAckCompliance(m) ==
  LET people == ResolveMessageAudience(audiences[m], FALSE)
  IN [total |-> people, acknowledged |-> people \cap acks[m],
      pending |-> people \ acks[m],
      marked |-> [k \in Marks |-> {e \in people : k \in receipts[m][e]}]]

CommunicationsNext ==
  \/ \E m \in Messages :
       \/ \E now \in BOOLEAN : CreateMessage(m, now)
       \/ \E rows \in SUBSET Targets : AddAudiences(m, rows)
       \/ \E e \in Members :
            \/ Acknowledge(m, e)
            \/ \E sent \in SUBSET Marks : SaveReceipt(m, e, sent)
  \/ \E g \in Groups \cup ShiftCrews, who \in SUBSET Members :
       ChangeStaff(g, who)
  \/ \E t \in Devices, e \in Members : RegisterDevice(t, e) \/ RevokeDevice(t, e)
  \/ \E d \in Desks :
       \/ \E m \in Messages, window \in BOOLEAN : LoadMessage(d, m, window)
       \/ ReadAudiences(d) \/ LoadAudienceResolutionContext(d)
       \/ StampPublished(d) \/ InsertJob(d) \/ LeaveDesk(d)

CommunicationsSpec == CommunicationsInit /\ [][CommunicationsNext]_commVars

-----------------------------------------------------------------------------
CommunicationsTypeOK ==
  /\ messages \in [Messages -> {"none", "draft", "published"}]
  /\ audiences \in [Messages -> SUBSET Targets]
  /\ staff \in [Groups \cup ShiftCrews -> SUBSET Members]
  /\ \A m \in Messages : \A i \in DOMAIN jobs[m] : jobs[m][i] \subseteq Members
  /\ receipts \in [Messages -> [Members -> SUBSET Marks]]
  /\ acks \in [Messages -> SUBSET Members]
  /\ devices \in [Devices -> [owner : Members \cup {NoOne}, live : BOOLEAN]]
  /\ posts \in 0 .. MaxPosts
  /\ rushed \subseteq Messages /\ muted \subseteq Messages
  /\ late \subseteq Messages

\* A draft has no job; a published message has its one job, is about to get
\* it, was published at its creation or lost it to a failed call; a second
\* job takes two publications that overlapped.
PublishedOnce ==
  \A m \in Messages :
    /\ messages[m] # "published" => jobs[m] = <<>>
    /\ messages[m] = "published" =>
         \/ m \in muted \/ jobs[m] # <<>>
         \/ \E d \in Desks : Publishing(d, m) /\ posting[d].at = "job"
    /\ Len(jobs[m]) > 1 => m \in rushed

\* Nobody is held to an acknowledgement of a message he was never sent: as
\* long as the audience and the rosters it names stay what the publication
\* read, whoever the compliance report counts was a recipient of the job.
PendingWereTold ==
  \A m \in Messages \ late :
    \A i \in DOMAIN jobs[m] :
      SummarizeAckCompliance(m).pending \subseteq jobs[m][i]

\* Both together: what a message owes to its recipients.
CommunicationsInv == PublishedOnce /\ PendingWereTold
=============================================================================
