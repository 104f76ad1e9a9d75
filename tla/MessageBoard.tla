----------------------------- MODULE MessageBoard -----------------------------
(***************************************************************************)
(* The communications panel of the client's app.js: the facility's         *)
(* messages, whether the caller has acknowledged each, and the form that   *)
(* writes, addresses and publishes a message with three calls.             *)
(*                                                                         *)
(* Of what is written only the audience matters.  A call that fails may    *)
(* have been done.                                                         *)
(***************************************************************************)
EXTENDS Naturals, FiniteSets

CONSTANTS
  Sites,          \* facilities
  Addressees,     \* what an audience row can name
  MaxMessages,    \* bound: messageRows
  MaxPresses,     \* bound: buttons pressed, facilities selected
  MaxWaiting      \* bound: one is pressed with fewer calls on their way

ASSUME MessageBoardAssumption ==
  {MaxMessages, MaxPresses, MaxWaiting} \subseteq Nat

VARIABLES
  site,         \* currentFacility
  messageRows,  \* the server's: a function on the messages there are
  ackRows,      \* the server's: the messages the caller has acknowledged
  pane,         \* the panel's state
  drawn,        \* whether there is anything to press
  posted,       \* calls that are not answered yet
  presses,      \* buttons pressed
  impatient     \* history: what was not waited for or failed, see MessageBoardInv

messageBoardVars == <<site, messageRows, ackRows, pane, drawn, posted, presses, impatient>>

-----------------------------------------------------------------------------
MessageIds      == DOMAIN messageRows
MessagesOf(f) == {m \in MessageIds : messageRows[m].site = f}
NextMessage    == Cardinality(MessageIds) + 1

\* The first message has been published, and is shown or is another site's.
MessageBoardInit ==
  /\ site \in Sites /\ ackRows = {}
  /\ \E f \in Sites : messageRows =
       [m \in {1} |-> [site |-> f, to |-> Addressees, meant |-> Addressees,
                    published |-> TRUE]]
  /\ pane = [held |-> MessagesOf(site), acked |-> {}, checked |-> MessagesOf(site), rows |-> {}]
  /\ drawn = TRUE /\ posted = {} /\ presses = 0 /\ impatient = {}

\* A call is told from those on their way; what it was called before is forgotten.
Unused(calls) == CHOOSE n \in 1 .. Cardinality(calls) + 1 : \A c \in calls : c.id # n

RequestAt(f, rest, kind, of, extra) ==
  posted' = rest \cup {[id |-> Unused(rest), kind |-> kind, of |-> of, at |-> f,
                        to |-> extra, done |-> "sent"]}
Request(rest, kind, of, extra) == RequestAt(site, rest, kind, of, extra)
Over(c) == posted' = posted \ {c}
OnePress == /\ presses < MaxPresses /\ Cardinality(posted) < MaxWaiting
            /\ presses' = presses + 1

Composing == {c \in posted : c.kind \in {"draft", "audience", "publish"}}
Impatient(what, condition) == impatient' = impatient \cup (IF condition THEN {what} ELSE {})

-----------------------------------------------------------------------------
(* What is drawn *)

\* render(): messages not checked before are asked about, once.
Render(p, rest) ==
  LET unchecked == p.held \ p.checked
  IN  /\ pane' = [p EXCEPT !.checked = @ \cup p.held] /\ drawn' = TRUE
      /\ IF unchecked = {} THEN posted' = rest
                           ELSE Request(rest, "acks", unchecked, {})

\* A variant that forgets what is acknowledged, and not that it was checked.
CommsResetAcked(p) == [p EXCEPT !.acked = {}, !.rows = {}]

\* The messages held stay.
CommsReset(p) == [p EXCEPT !.acked = {}, !.checked = {}, !.rows = {}]

SelectSite(f) ==
  /\ f # site /\ site' = f /\ pane' = CommsReset(pane) /\ drawn' = FALSE
  /\ OnePress /\ RequestAt(f, posted, "list", {}, {})
  /\ Impatient("site", posted # {})
  /\ UNCHANGED <<messageRows, ackRows>>

ListCame(c) ==
  /\ c.kind = "list"
  /\ \/ Render([pane EXCEPT !.held = MessagesOf(c.at)], posted \ {c})
     \/ drawn' = FALSE /\ Over(c) /\ UNCHANGED pane
  /\ UNCHANGED <<site, messageRows, ackRows, presses, impatient>>

\* A check that fails is not made again; the panel is drawn either way.
AcksCame(c) ==
  /\ c.kind = "acks"
  /\ \/ Render([pane EXCEPT !.acked = @ \cup (c.of \cap ackRows)], posted \ {c}) /\ UNCHANGED impatient
     \/ Render(pane, posted \ {c}) /\ Impatient("acks", TRUE)
  /\ UNCHANGED <<site, messageRows, ackRows, presses>>

PressAcknowledge(m) ==
  /\ drawn /\ m \in pane.held \ pane.acked /\ OnePress /\ Request(posted, "acknowledge", {m}, {})
  /\ UNCHANGED <<site, messageRows, ackRows, pane, drawn, impatient>>

-----------------------------------------------------------------------------
(* composeAndPublish *)

\* A row of the audience is added or removed, at any time.
EditAudience(rows) ==
  /\ drawn /\ rows # pane.rows /\ pane' = [pane EXCEPT !.rows = rows]
  /\ Impatient("audience", Composing # {})
  /\ UNCHANGED <<site, messageRows, ackRows, drawn, posted, presses>>

\* The button does not wait for the message it is sending.
ComposeAndPublish ==
  /\ drawn /\ pane.rows # {} /\ NextMessage <= MaxMessages /\ OnePress
  /\ Request(posted, "draft", {}, pane.rows) /\ Impatient("sent", Composing # {})
  /\ UNCHANGED <<site, messageRows, ackRows, pane, drawn>>

SendAudience(m, rows, rest) == Request(rest, "audience", m, rows)
SendPublish(m, rest)        == Request(rest, "publish", m, {})

\* The audience is what the rows are by then, and the facility the one by then.
DraftCame(c) ==
  /\ c.kind = "draft" /\ c.done = "done"
  /\ IF pane.rows # {} THEN SendAudience(c.of, pane.rows, posted \ {c})
                       ELSE SendPublish(c.of, posted \ {c})
  /\ UNCHANGED <<site, messageRows, ackRows, pane, drawn, presses, impatient>>

AudienceCame(c) ==
  /\ c.kind = "audience" /\ c.done = "done" /\ SendPublish(c.of, posted \ {c})
  /\ UNCHANGED <<site, messageRows, ackRows, pane, drawn, presses, impatient>>

\* The form is emptied, and the list loaded again.
PublishCame(c) ==
  /\ c.kind = "publish" /\ c.done = "done"
  /\ pane' = [pane EXCEPT !.rows = {}]
  /\ Request(posted \ {c}, "list", {}, {})
  /\ UNCHANGED <<site, messageRows, ackRows, drawn, presses, impatient>>

AcknowledgeCame(c) ==
  /\ c.kind = "acknowledge" /\ c.done = "done"
  /\ Render([pane EXCEPT !.acked = @ \cup c.of], posted \ {c})
  /\ UNCHANGED <<site, messageRows, ackRows, presses, impatient>>

\* The failure is drawn over the form as it is, to be sent again.
CallFailed(c) ==
  /\ c.done = "failed" /\ Render(pane, posted \ {c})
  /\ UNCHANGED <<site, messageRows, ackRows, presses, impatient>>

-----------------------------------------------------------------------------
(* The server *)

Handled(c, at) == posted' = (posted \ {c}) \cup {at}

\* The messages there are, with those a call names taken from rows.
Changed(c, rows) ==
  messageRows' = [m \in MessageIds |-> IF m \in c.of THEN rows[m] ELSE messageRows[m]]

Does(c) ==
  CASE c.kind = "draft" ->
         /\ UNCHANGED ackRows
         /\ messageRows' = [m \in MessageIds \cup {NextMessage} |->
              IF m \in MessageIds THEN messageRows[m] ELSE
              [site |-> c.at, to |-> {}, meant |-> c.to,
               published |-> FALSE]]
    [] c.kind = "audience" ->
         /\ Changed(c, [m \in MessageIds |-> [messageRows[m] EXCEPT !.to = @ \cup c.to]])
         /\ UNCHANGED ackRows
    [] c.kind = "publish" ->
         /\ Changed(c, [m \in MessageIds |-> [messageRows[m] EXCEPT !.published = TRUE]])
         /\ UNCHANGED ackRows
    [] c.kind = "acknowledge" -> ackRows' = ackRows \cup c.of /\ UNCHANGED messageRows

\* A message is published at its own facility.
Found(c) == c.kind = "publish" => \A m \in c.of : messageRows[m].site = c.at

Handle(c) ==
  /\ c.done = "sent" /\ c.kind \in {"draft", "audience", "publish", "acknowledge"}
  /\ \/ /\ Found(c) /\ Does(c) /\ UNCHANGED impatient
        /\ Handled(c, [c EXCEPT !.done = "done", !.of = IF c.kind = "draft" THEN {NextMessage} ELSE @])
     \/ /\ (Found(c) /\ Does(c)) \/ UNCHANGED <<messageRows, ackRows>>
        /\ Handled(c, [c EXCEPT !.done = "failed"])
        /\ Impatient("acks", c.kind = "acknowledge")
  /\ UNCHANGED <<site, pane, drawn, presses>>

MessageBoardNext ==
  \/ \E f \in Sites : SelectSite(f)
  \/ \E m \in MessageIds : PressAcknowledge(m)
  \/ \E rows \in SUBSET Addressees : EditAudience(rows)
  \/ ComposeAndPublish
  \/ \E c \in posted : \/ ListCame(c) \/ AcksCame(c) \/ DraftCame(c)
                       \/ AudienceCame(c) \/ PublishCame(c) \/ AcknowledgeCame(c)
                       \/ CallFailed(c) \/ Handle(c)

MessageBoardSpec == MessageBoardInit /\ [][MessageBoardNext]_messageBoardVars

-----------------------------------------------------------------------------
MessageBoardTypeOK ==
  /\ site \in Sites /\ MessageIds = 1 .. Cardinality(MessageIds)
  /\ ackRows \subseteq MessageIds /\ pane.held \subseteq MessageIds
  /\ pane.acked \subseteq ackRows /\ pane.rows \subseteq Addressees

\* A message that is published is addressed as it was when it was sent.
SentAsAddressed ==
  {"sent", "audience", "site"} \cap impatient # {}
    \/ \A m \in MessageIds : messageRows[m].published => messageRows[m].to = messageRows[m].meant

\* At rest, what is drawn is the facility's, and what the caller acknowledged
\* is shown so.
ShownAsAcked ==
  posted = {} /\ drawn /\ {"acks", "site"} \cap impatient = {} =>
    pane.held \cap ackRows \subseteq pane.acked /\ pane.held \subseteq MessagesOf(site)

\* A message goes to whom it was meant for, the messages shown are the
\* facility's, and those acknowledged are shown so: unless the form was sent
\* again or changed while it was being sent, the facility changed with a call
\* on its way, or an acknowledgement or the look at one failed.
MessageBoardInv == SentAsAddressed /\ ShownAsAcked
=============================================================================
