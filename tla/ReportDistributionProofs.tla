----------------------- MODULE ReportDistributionProofs -----------------------
(***************************************************************************)
(* The safety properties of ReportDistribution, for any events, bindings,  *)
(* recipients and overlapping drains, with errors, crashes and audiences   *)
(* that change; and the proof that the events are a queue (ClaimQueue).    *)
(*                                                                         *)
(* Three facts carry the argument.  A terminal row of report_deliveries    *)
(* stays terminal: a drain only writes rows it found open, of events it    *)
(* alone holds.  A leg that the current attempt has not tried was tried no *)
(* more often than the event failed (UntriedIsPaid).  And an open row that *)
(* no drain is about to record was sent no more often than answers were    *)
(* lost and errors and crashes struck (OpenIsPaid).                        *)
(***************************************************************************)
EXTENDS ReportDistribution, TLAPS

USE DistributionAssumption

Outcome == {"handed", "skip", "sent", "permanent", "retryable"}

DrainState ==
  {Off}
  \cup [at : {"claim", "resolve"}, todo : SUBSET Events, held : SUBSET Events]
  \cup [at : {"defer"}, todo : SUBSET Events]
  \cup [at : {"attach"}, held : SUBSET Events]
  \cup [at : {"send"}, held : SUBSET Events, todo : SUBSET Pairs,
        settled : SUBSET Pairs, group : SUBSET Pairs, outcome : Outcome \cup {"none"}]
  \cup [at : {"finalize"}, todo : SUBSET Events, settled : SUBSET Pairs]

Typed ==
  /\ TypeOK
  /\ drain \in [Drains -> DrainState]
  /\ tried \in [Pairs -> Nat] /\ accepted \in [Pairs -> Nat]
  /\ lost \in [Pairs -> Nat] /\ \A p \in Pairs : lost[p] <= accepted[p]
  /\ spent \in [faults : Nat, stops : Nat, nights : Nat, changes : Nat]

Open(p) == delivery[p].status \notin Terminal

\* What a drain that sends will write, and what it may call settled.
InHand(d) ==
  /\ drain[d].at = "resolve" => drain[d].held \cap drain[d].todo = {}
  /\ drain[d].at = "send" =>
       /\ drain[d].group \subseteq drain[d].todo
       /\ drain[d].group # {} => drain[d].outcome \in Outcome
       /\ \A p \in drain[d].todo : Open(p) /\ p[1] \in drain[d].held
       /\ drain[d].outcome \in {"sent", "handed"} =>
            \A p \in drain[d].group : accepted[p] > lost[p]
  /\ drain[d].at \in {"send", "finalize"} =>
       \A p \in drain[d].settled : ~ Open(p)

HeldIsProcessing ==
  \A d \in Drains : \A e \in Holding(d) : status[e] = "processing"

\* Who may be tried again has an attempt left.
LimitEnds ==
  /\ \A e \in Events : status[e] # "failed" => attempts[e] < MaxAttempts
  /\ \A p \in Pairs : Open(p) => delivery[p].attempts < MaxAttempts

\* The attempt that may try a leg has not done so.
Untried(p) ==
  \/ status[p[1]] \in {"none", "pending", "failed"}
  \/ \E d \in Drains :
       \/ /\ drain[d].at \in {"claim", "resolve", "attach", "defer"}
          /\ p[1] \in Holding(d)
       \/ drain[d].at = "send" /\ p \in drain[d].todo \ drain[d].group

UntriedIsPaid == \A p \in Pairs : Untried(p) => tried[p] <= attempts[p[1]]

\* A drain has the answer that p's message is on its way, and not recorded it.
Unrecorded(p) ==
  \E d \in Drains :
    /\ drain[d].at = "send" /\ p \in drain[d].group
    /\ drain[d].outcome \in {"sent", "handed"}

OpenIsPaid ==
  \A p \in Pairs : Open(p) /\ ~ Unrecorded(p) =>
    accepted[p] <= lost[p] + spent.faults + spent.stops

IInv ==
  /\ Typed
  /\ TriedOncePerAttempt /\ ProcessedIsRecorded
  /\ \A d \in Drains : InHand(d)
  /\ HeldIsProcessing /\ LimitEnds /\ UntriedIsPaid /\ OpenIsPaid

-----------------------------------------------------------------------------
\* Facts the steps share.

LEMMA PairParts ==
  ASSUME NEW p \in Pairs
  PROVE  p[1] \in Events /\ p[2] \in Legs /\ p = <<p[1], p[2]>>
  BY DEF Pairs

\* A step that tries nothing and counts nothing only has to show that it makes
\* no leg untried that was tried.
LEMMA UntriedKept ==
  ASSUME IInv, UNCHANGED <<attempts, tried>>,
         \A p \in Pairs : Untried(p)' => Untried(p)
  PROVE  UntriedIsPaid'
  BY DEF IInv, UntriedIsPaid

LEMMA BecomeAlone ==
  ASSUME IInv, NEW d \in Drains, NEW record, Become(d, record)
  PROVE  drain'[d] = record /\ \A c \in Drains : c # d => drain'[c] = drain[c]
  BY DEF IInv, Typed, Become

Row == [status : {"none", "queued", "failed"} \cup Terminal,
        attempts : 0 .. MaxAttempts]

\* What recording an outcome makes of an open row with an attempt left.
LEMMA ApplyOutcomeEnds ==
  ASSUME NEW row \in Row, row.status \notin Terminal, row.attempts < MaxAttempts,
         NEW outcome \in Outcome
  PROVE  LET new == ApplyOutcome(row, outcome) IN
         /\ new \in Row
         /\ new.status \in Terminal \cup {"failed"}
         /\ new.status = "failed" => new.attempts < MaxAttempts
         /\ new.status = "sent" => outcome \in {"sent", "handed"}
         /\ outcome \in {"sent", "handed"} => new.status = "sent"
  <1>1. row.attempts \in 0 .. MaxAttempts /\ row.attempts + 1 \in 0 .. MaxAttempts
        /\ DOMAIN row = {"status", "attempts"}
    BY DEF Row
  <1>2. CASE outcome = "sent"
    BY <1>1, <1>2 DEF ApplyOutcome, Row, Terminal
  <1>3. CASE outcome = "permanent"
    BY <1>1, <1>3 DEF ApplyOutcome, Row, Terminal
  <1>4. CASE outcome = "retryable"
    BY <1>1, <1>4 DEF ApplyOutcome, Row, Terminal
  <1>5. CASE outcome = "handed"
    BY <1>1, <1>5 DEF ApplyOutcome, Row, Terminal
  <1>6. CASE outcome = "skip"
    BY <1>1, <1>6 DEF ApplyOutcome, Row, Terminal
  <1> QED
    BY <1>2, <1>3, <1>4, <1>5, <1>6 DEF Outcome

\* A drain sends only to legs that are outstanding.
LEMMA GroupsAreOutstanding ==
  ASSUME NEW todo \in SUBSET Pairs, NEW group \in NextGroups(todo)
  PROVE  group \subseteq todo
  BY DEF NextGroups, Of

-----------------------------------------------------------------------------
\* Each action keeps the invariant.

LEMMA SubmittedStep ==
  ASSUME IInv, NEW e \in Events, Submitted(e)
  PROVE  IInv'
  <1>1. TypeOK'
    BY DEF IInv, Typed, TypeOK, LimitEnds, HeldIsProcessing, Holding, InHand,
           Open, Terminal, Submitted, messages
  <1>2. Typed'
    BY <1>1 DEF IInv, Typed, TypeOK, DrainState, Off, Outcome, Submitted,
                messages
  <1>3. TriedOncePerAttempt'
    BY DEF IInv, Typed, DrainState, Off, TypeOK, TriedOncePerAttempt,
           HeldIsProcessing, UntriedIsPaid, Untried, InHand, Holding,
           LimitEnds, Submitted, messages
  <1>4. ProcessedIsRecorded'
    BY DEF IInv, Typed, DrainState, Off, TypeOK, ProcessedIsRecorded,
           HeldIsProcessing, OpenIsPaid, Unrecorded, InHand, Open, Holding,
           Terminal, Submitted, messages
  <1>5. \A c \in Drains : InHand(c)'
    BY DEF IInv, Typed, DrainState, Off, TypeOK, InHand, Open,
           TriedOncePerAttempt, Holding, Terminal, Submitted, messages
  <1>6. HeldIsProcessing'
    BY DEF IInv, Typed, DrainState, Off, TypeOK, HeldIsProcessing, Holding,
           TriedOncePerAttempt, Submitted, messages
  <1>7. LimitEnds'
    BY DEF IInv, Typed, DrainState, Off, TypeOK, LimitEnds, Open, Terminal,
           HeldIsProcessing, Holding, Submitted, messages
  <1>8. UntriedIsPaid'
    <2>1. ASSUME NEW p \in Pairs, Untried(p)' PROVE Untried(p)
      BY <2>1, PairParts DEF Submitted, Untried, Holding, IInv, Typed, TypeOK
    <2> QED
      BY <2>1, UntriedKept DEF Submitted, messages
  <1>9. OpenIsPaid'
    BY DEF IInv, Typed, DrainState, Off, TypeOK, OpenIsPaid, Unrecorded, Open,
           Terminal, InHand, ProcessedIsRecorded, Holding, TriedOncePerAttempt,
           Submitted, messages
  <1> QED
    BY <1>2, <1>3, <1>4, <1>5, <1>6, <1>7, <1>8, <1>9 DEF IInv

LEMMA ChangeAudienceStep ==
  ASSUME IInv, NEW legs \in SUBSET Legs, ChangeAudience(legs)
  PROVE  IInv'
  <1>1. TypeOK'
    BY DEF IInv, Typed, TypeOK, LimitEnds, HeldIsProcessing, Holding, InHand,
           Open, Terminal, ChangeAudience, Trouble, event, messages
  <1>2. Typed'
    BY <1>1 DEF IInv, Typed, TypeOK, DrainState, Off, Outcome, ChangeAudience,
                Trouble, event, messages
  <1>3. TriedOncePerAttempt'
    BY DEF IInv, Typed, DrainState, Off, TypeOK, TriedOncePerAttempt,
           HeldIsProcessing, UntriedIsPaid, Untried, InHand, Holding,
           LimitEnds, ChangeAudience, Trouble, event, messages
  <1>4. ProcessedIsRecorded'
    BY DEF IInv, Typed, DrainState, Off, TypeOK, ProcessedIsRecorded,
           HeldIsProcessing, OpenIsPaid, Unrecorded, InHand, Open, Holding,
           Terminal, ChangeAudience, Trouble, event, messages
  <1>5. \A c \in Drains : InHand(c)'
    BY DEF IInv, Typed, DrainState, Off, TypeOK, InHand, Open,
           TriedOncePerAttempt, Holding, Terminal, ChangeAudience, Trouble,
           event, messages
  <1>6. HeldIsProcessing'
    BY DEF IInv, Typed, DrainState, Off, TypeOK, HeldIsProcessing, Holding,
           TriedOncePerAttempt, ChangeAudience, Trouble, event, messages
  <1>7. LimitEnds'
    BY DEF IInv, Typed, DrainState, Off, TypeOK, LimitEnds, Open, Terminal,
           HeldIsProcessing, Holding, ChangeAudience, Trouble, event, messages
  <1>8. UntriedIsPaid'
    BY DEF IInv, Typed, DrainState, Off, TypeOK, UntriedIsPaid, Untried,
           HeldIsProcessing, Holding, TriedOncePerAttempt, InHand,
           ChangeAudience, Trouble, event, messages
  <1>9. OpenIsPaid'
    BY DEF IInv, Typed, DrainState, Off, TypeOK, OpenIsPaid, Unrecorded, Open,
           Terminal, InHand, ProcessedIsRecorded, Holding, TriedOncePerAttempt,
           ChangeAudience, Trouble, event, messages
  <1> QED
    BY <1>2, <1>3, <1>4, <1>5, <1>6, <1>7, <1>8, <1>9 DEF IInv

LEMMA ElapseStep ==
  ASSUME IInv, NEW e \in Events, Elapse(e)
  PROVE  IInv'
  <1>1. TypeOK'
    BY DEF IInv, Typed, TypeOK, LimitEnds, HeldIsProcessing, Holding, InHand,
           Open, Terminal, Elapse, messages
  <1>2. Typed'
    BY <1>1 DEF IInv, Typed, TypeOK, DrainState, Off, Outcome, Elapse, messages
  <1>3. TriedOncePerAttempt'
    BY DEF IInv, Typed, DrainState, Off, TypeOK, TriedOncePerAttempt,
           HeldIsProcessing, UntriedIsPaid, Untried, InHand, Holding,
           LimitEnds, Elapse, messages
  <1>4. ProcessedIsRecorded'
    BY DEF IInv, Typed, DrainState, Off, TypeOK, ProcessedIsRecorded,
           HeldIsProcessing, OpenIsPaid, Unrecorded, InHand, Open, Holding,
           Terminal, Elapse, messages
  <1>5. \A c \in Drains : InHand(c)'
    BY DEF IInv, Typed, DrainState, Off, TypeOK, InHand, Open,
           TriedOncePerAttempt, Holding, Terminal, Elapse, messages
  <1>6. HeldIsProcessing'
    BY DEF IInv, Typed, DrainState, Off, TypeOK, HeldIsProcessing, Holding,
           TriedOncePerAttempt, Elapse, messages
  <1>7. LimitEnds'
    BY DEF IInv, Typed, DrainState, Off, TypeOK, LimitEnds, Open, Terminal,
           HeldIsProcessing, Holding, Elapse, messages
  <1>8. UntriedIsPaid'
    BY DEF IInv, Typed, DrainState, Off, TypeOK, UntriedIsPaid, Untried,
           HeldIsProcessing, Holding, TriedOncePerAttempt, InHand, Elapse,
           messages
  <1>9. OpenIsPaid'
    BY DEF IInv, Typed, DrainState, Off, TypeOK, OpenIsPaid, Unrecorded, Open,
           Terminal, InHand, ProcessedIsRecorded, Holding, TriedOncePerAttempt,
           Elapse, messages
  <1> QED
    BY <1>2, <1>3, <1>4, <1>5, <1>6, <1>7, <1>8, <1>9 DEF IInv

LEMMA StartStep ==
  ASSUME IInv, NEW d \in Drains, Start(d)
  PROVE  IInv'
  <1>1. TypeOK'
    BY DEF IInv, Typed, TypeOK, LimitEnds, HeldIsProcessing, Holding, InHand,
           Open, Terminal, Start, Become, event, messages
  <1>2. Typed'
    BY <1>1 DEF IInv, Typed, TypeOK, DrainState, Off, Outcome, Start, Become,
                event, messages
  <1>3. TriedOncePerAttempt'
    BY DEF IInv, Typed, DrainState, Off, TypeOK, TriedOncePerAttempt,
           HeldIsProcessing, UntriedIsPaid, Untried, InHand, Holding,
           LimitEnds, Start, Become, event, messages
  <1>4. ProcessedIsRecorded'
    BY DEF IInv, Typed, DrainState, Off, TypeOK, ProcessedIsRecorded,
           HeldIsProcessing, OpenIsPaid, Unrecorded, InHand, Open, Holding,
           Terminal, Start, Become, event, messages
  <1>5. \A c \in Drains : InHand(c)'
    BY DEF IInv, Typed, DrainState, Off, TypeOK, InHand, Open,
           TriedOncePerAttempt, Holding, Terminal, Start, Become, event,
           messages
  <1>6. HeldIsProcessing'
    BY DEF IInv, Typed, DrainState, Off, TypeOK, HeldIsProcessing, Holding,
           TriedOncePerAttempt, Start, Become, event, messages
  <1>7. LimitEnds'
    BY DEF IInv, Typed, DrainState, Off, TypeOK, LimitEnds, Open, Terminal,
           HeldIsProcessing, Holding, Start, Become, event, messages
  <1>8. UntriedIsPaid'
    <2>1. drain'[d].at = "claim" /\ drain'[d].held = {}
          /\ \A c \in Drains : c # d => drain'[c] = drain[c]
      BY BecomeAlone DEF Start
    <2>2. UNCHANGED <<status, attempts, tried>>
      BY DEF Start, event, messages
    <2>3. ASSUME NEW p \in Pairs, Untried(p)' PROVE Untried(p)
      BY <2>1, <2>2, <2>3 DEF Untried, Holding
    <2> QED
      BY <2>2, <2>3, UntriedKept
  <1>9. OpenIsPaid'
    BY DEF IInv, Typed, DrainState, Off, TypeOK, OpenIsPaid, Unrecorded, Open,
           Terminal, InHand, ProcessedIsRecorded, Holding, TriedOncePerAttempt,
           Start, Become, event, messages
  <1> QED
    BY <1>2, <1>3, <1>4, <1>5, <1>6, <1>7, <1>8, <1>9 DEF IInv

LEMMA ClaimStep ==
  ASSUME IInv, NEW d \in Drains, NEW e \in Events, Claim(d, e)
  PROVE  IInv'
  <1> DEFINE r == [drain[d] EXCEPT !.todo = @ \ {e},
                     !.held = IF status[e] = "pending" THEN @ \cup {e} ELSE @]
  <1>a. /\ drain[d].at = "claim" /\ e \in drain[d].todo
        /\ drain[d] \in [at : {"claim", "resolve"}, todo : SUBSET Events,
                         held : SUBSET Events]
    BY DEF IInv, Typed, DrainState, Off, Claim
  <1>b. /\ r \in DrainState /\ r.at = "claim" /\ r.todo = drain[d].todo \ {e}
        /\ r.held = IF status[e] = "pending" THEN drain[d].held \cup {e}
                    ELSE drain[d].held
    BY <1>a DEF DrainState
  <1>c. drain' = [drain EXCEPT ![d] = r]
    BY DEF Claim, Become
  <1>d. drain'[d] = r /\ \A c \in Drains : c # d => drain'[c] = drain[c]
    BY <1>c DEF IInv, Typed
  <1> HIDE DEF r
  <1>1. TypeOK'
    BY DEF IInv, Typed, TypeOK, LimitEnds, HeldIsProcessing, Holding, InHand,
           Open, Terminal, Claim, Become, messages
  <1>2. Typed'
    BY <1>1, <1>b, <1>c DEF IInv, Typed, Claim, messages
  <1>3. TriedOncePerAttempt'
    BY DEF IInv, Typed, DrainState, Off, TypeOK, TriedOncePerAttempt,
           HeldIsProcessing, UntriedIsPaid, Untried, InHand, Holding,
           LimitEnds, Claim, Become, messages
  <1>4. ProcessedIsRecorded'
    BY DEF IInv, Typed, DrainState, Off, TypeOK, ProcessedIsRecorded,
           HeldIsProcessing, OpenIsPaid, Unrecorded, InHand, Open, Holding,
           Terminal, Claim, Become, messages
  <1>5. \A c \in Drains : InHand(c)'
    BY DEF IInv, Typed, DrainState, Off, TypeOK, InHand, Open,
           TriedOncePerAttempt, Holding, Terminal, Claim, Become, messages
  <1>6. HeldIsProcessing'
    BY DEF IInv, Typed, DrainState, Off, TypeOK, HeldIsProcessing, Holding,
           TriedOncePerAttempt, Claim, Become, messages
  <1>7. LimitEnds'
    BY DEF IInv, Typed, DrainState, Off, TypeOK, LimitEnds, Open, Terminal,
           HeldIsProcessing, Holding, Claim, Become, messages
  <1>8. UntriedIsPaid'
    <2>1. ASSUME NEW p \in Pairs, Untried(p)' PROVE Untried(p)
      <3>1. CASE status[p[1]] = "pending"
        BY <3>1 DEF Untried
      <3>2. CASE status[p[1]] # "pending" /\ status'[p[1]] \in {"none", "failed"}
        BY <3>2 DEF Untried, Claim, IInv, Typed, TypeOK
      <3>3. CASE status[p[1]] # "pending" /\ status'[p[1]] \notin {"none", "failed"}
        <4>1. status' = [status EXCEPT ![e] = IF @ = "pending" THEN "processing" ELSE @]
          BY DEF Claim
        <4>2. p[1] \in Events /\ status'[p[1]] = status[p[1]]
          BY <3>3, <4>1, PairParts DEF IInv, Typed, TypeOK
        <4>3. PICK c \in Drains :
                 \/ /\ drain'[c].at \in {"claim", "resolve", "attach", "defer"}
                    /\ p[1] \in Holding(c)'
                 \/ drain'[c].at = "send" /\ p \in drain'[c].todo \ drain'[c].group
          BY <2>1, <3>3, <4>2 DEF Untried
        <4>4. CASE c = d
          BY <1>a, <1>b, <1>d, <3>3, <4>2, <4>3, <4>4 DEF Untried, Holding
        <4>5. CASE c # d
          BY <1>d, <4>3, <4>5 DEF Untried, Holding
        <4> QED
          BY <4>4, <4>5
      <3> QED
        BY <3>1, <3>2, <3>3
    <2> QED
      BY <2>1, UntriedKept DEF Claim, messages
  <1>9. OpenIsPaid'
    BY DEF IInv, Typed, DrainState, Off, TypeOK, OpenIsPaid, Unrecorded, Open,
           Terminal, InHand, ProcessedIsRecorded, Holding, TriedOncePerAttempt,
           Claim, Become, messages
  <1> QED
    BY <1>2, <1>3, <1>4, <1>5, <1>6, <1>7, <1>8, <1>9 DEF IInv

LEMMA ClaimedStep ==
  ASSUME IInv, NEW d \in Drains, NEW night \in BOOLEAN, Claimed(d, night)
  PROVE  IInv'
  <1>1. TypeOK'
    BY DEF IInv, Typed, TypeOK, LimitEnds, HeldIsProcessing, Holding, InHand,
           Open, Terminal, Claimed, Become, Trouble, event, messages
  <1>2. Typed'
    BY <1>1 DEF IInv, Typed, TypeOK, DrainState, Off, Outcome, Claimed, Become,
                Trouble, event, messages
  <1>3. TriedOncePerAttempt'
    BY DEF IInv, Typed, DrainState, Off, TypeOK, TriedOncePerAttempt,
           HeldIsProcessing, UntriedIsPaid, Untried, InHand, Holding,
           LimitEnds, Claimed, Become, Trouble, event, messages
  <1>4. ProcessedIsRecorded'
    BY SMTT(30) DEF IInv, Typed, DrainState, Off, TypeOK, ProcessedIsRecorded,
                    HeldIsProcessing, OpenIsPaid, Unrecorded, InHand, Open,
                    Holding, Terminal, Claimed, Become, Trouble, event,
                    messages
  <1>5. \A c \in Drains : InHand(c)'
    BY DEF IInv, Typed, DrainState, Off, TypeOK, InHand, Open,
           TriedOncePerAttempt, Holding, Terminal, Claimed, Become, Trouble,
           event, messages
  <1>6. HeldIsProcessing'
    BY DEF IInv, Typed, DrainState, Off, TypeOK, HeldIsProcessing, Holding,
           TriedOncePerAttempt, Claimed, Become, Trouble, event, messages
  <1>7. LimitEnds'
    BY DEF IInv, Typed, DrainState, Off, TypeOK, LimitEnds, Open, Terminal,
           HeldIsProcessing, Holding, Claimed, Become, Trouble, event,
           messages
  <1>8. UntriedIsPaid'
    BY ZenonT(30) DEF IInv, Typed, DrainState, Off, TypeOK, UntriedIsPaid,
                      Untried, HeldIsProcessing, Holding, TriedOncePerAttempt,
                      InHand, Claimed, Become, Trouble, event, messages
  <1>9. OpenIsPaid'
    BY SMTT(30) DEF IInv, Typed, DrainState, Off, TypeOK, OpenIsPaid,
                    Unrecorded, Open, Terminal, InHand, ProcessedIsRecorded,
                    Holding, TriedOncePerAttempt, Claimed, Become, Trouble,
                    event, messages
  <1> QED
    BY <1>2, <1>3, <1>4, <1>5, <1>6, <1>7, <1>8, <1>9 DEF IInv

LEMMA DeferStep ==
  ASSUME IInv, NEW d \in Drains, NEW e \in Events, Defer(d, e)
  PROVE  IInv'
  <1>1. TypeOK'
    BY DEF IInv, Typed, TypeOK, LimitEnds, HeldIsProcessing, Holding, InHand,
           Open, Terminal, Defer, Become, messages
  <1>2. Typed'
    BY <1>1 DEF IInv, Typed, TypeOK, DrainState, Off, Outcome, Defer, Become,
                messages
  <1>3. TriedOncePerAttempt'
    BY DEF IInv, Typed, DrainState, Off, TypeOK, TriedOncePerAttempt,
           HeldIsProcessing, UntriedIsPaid, Untried, InHand, Holding,
           LimitEnds, Defer, Become, messages
  <1>4. ProcessedIsRecorded'
    BY DEF IInv, Typed, DrainState, Off, TypeOK, ProcessedIsRecorded,
           HeldIsProcessing, OpenIsPaid, Unrecorded, InHand, Open, Holding,
           Terminal, Defer, Become, messages
  <1>5. \A c \in Drains : InHand(c)'
    BY DEF IInv, Typed, DrainState, Off, TypeOK, InHand, Open,
           TriedOncePerAttempt, Holding, Terminal, Defer, Become, messages
  <1>6. HeldIsProcessing'
    BY DEF IInv, Typed, DrainState, Off, TypeOK, HeldIsProcessing, Holding,
           TriedOncePerAttempt, Defer, Become, messages
  <1>7. LimitEnds'
    BY DEF IInv, Typed, DrainState, Off, TypeOK, LimitEnds, Open, Terminal,
           HeldIsProcessing, Holding, Defer, Become, messages
  <1>8. UntriedIsPaid'
    <2>1. /\ drain[d].at = "defer" /\ e \in drain[d].todo
          /\ \/ drain'[d].at = "off"
             \/ drain'[d].at = "defer" /\ drain'[d].todo = drain[d].todo \ {e}
          /\ \A c \in Drains : c # d => drain'[c] = drain[c]
      BY DEF IInv, Typed, DrainState, Off, Defer, Become
    <2>2. ASSUME NEW p \in Pairs, Untried(p)' PROVE Untried(p)
      <3>1. CASE p[1] = e
        BY <2>1, <3>1 DEF Untried, Holding
      <3>2. CASE p[1] # e
        <4>1. status'[p[1]] = status[p[1]]
          BY <3>2, PairParts DEF Defer, IInv, Typed, TypeOK
        <4> QED
          BY <2>1, <2>2, <4>1 DEF Untried, Holding
      <3> QED
        BY <3>1, <3>2
    <2> QED
      BY <2>2, UntriedKept DEF Defer, messages
  <1>9. OpenIsPaid'
    BY DEF IInv, Typed, DrainState, Off, TypeOK, OpenIsPaid, Unrecorded, Open,
           Terminal, InHand, ProcessedIsRecorded, Holding, TriedOncePerAttempt,
           Defer, Become, messages
  <1> QED
    BY <1>2, <1>3, <1>4, <1>5, <1>6, <1>7, <1>8, <1>9 DEF IInv

LEMMA ResolveStep ==
  ASSUME IInv, NEW d \in Drains, NEW e \in Events, Resolve(d, e)
  PROVE  IInv'
  <1>a. /\ drain[d].at = "resolve" /\ e \in drain[d].todo
        /\ drain[d].todo \subseteq Events /\ drain[d].held \subseteq Events
        /\ drain[d].held \cap drain[d].todo = {}
        /\ status' = [status EXCEPT ![e] = IF audience = {} THEN "processed" ELSE @]
        /\ resolved' = [resolved EXCEPT ![e] = audience]
        /\ UNCHANGED <<attempts, due, audience, delivery, tried, accepted, lost,
                       spent>>
    BY DEF IInv, Typed, DrainState, Off, InHand, Resolve, messages
  <1>b. /\ drain'[d].at \in {"resolve", "attach", "off"}
        /\ drain'[d].at = "resolve" =>
             drain'[d].held \cap drain'[d].todo = {}
        /\ Holding(d) = drain[d].held \cup drain[d].todo
        /\ Holding(d)' = IF audience = {} THEN Holding(d) \ {e} ELSE Holding(d)
    <2> DEFINE held == IF audience = {} THEN drain[d].held ELSE drain[d].held \cup {e}
               todo == drain[d].todo \ {e}
    <2>1. /\ held \cap todo = {}
          /\ held \cup todo = IF audience = {} THEN (drain[d].held \cup drain[d].todo) \ {e}
                              ELSE drain[d].held \cup drain[d].todo
      BY <1>a
    <2>2. drain'[d] = IF todo # {} THEN [at |-> "resolve", todo |-> todo, held |-> held]
                      ELSE IF held = {} THEN Off
                      ELSE [at |-> "attach", held |-> held]
      BY BecomeAlone DEF Resolve
    <2>3. Holding(d) = drain[d].held \cup drain[d].todo
      BY <1>a DEF Holding
    <2> HIDE DEF held, todo
    <2>4. CASE todo # {}
      BY <2>1, <2>2, <2>3, <2>4 DEF Holding
    <2>5. CASE todo = {} /\ held = {}
      BY <2>1, <2>2, <2>3, <2>5 DEF Holding, Off
    <2>6. CASE todo = {} /\ held # {}
      <3>1. drain'[d].at = "attach" /\ drain'[d].held = held /\ held = held \cup todo
        BY <2>2, <2>6
      <3>2. Holding(d)' = held
        BY <3>1 DEF Holding
      <3> QED
        BY <2>1, <2>3, <3>1, <3>2
    <2> QED
      BY <2>4, <2>5, <2>6
  <1>c. \A c \in Drains : c # d => drain'[c] = drain[c] /\ Holding(c)' = Holding(c)
    BY BecomeAlone DEF Resolve, Holding
  <1>1. TypeOK'
    BY DEF IInv, Typed, TypeOK, LimitEnds, HeldIsProcessing, Holding, InHand,
           Open, Terminal, Resolve, Become, messages
  <1>2. Typed'
    BY <1>1 DEF IInv, Typed, TypeOK, DrainState, Off, Outcome, Resolve, Become,
                messages
  <1>3. TriedOncePerAttempt'
    <2>1. \A c \in Drains : Holding(c)' \subseteq Holding(c)
      BY <1>b, <1>c
    <2>2. \A b, c \in Drains : b # c => Holding(b)' \cap Holding(c)' = {}
      BY <2>1 DEF IInv, TriedOncePerAttempt
    <2> QED
      BY <1>a, <2>2 DEF IInv, TriedOncePerAttempt
  <1>4. ProcessedIsRecorded'
    BY DEF IInv, Typed, DrainState, Off, TypeOK, ProcessedIsRecorded,
           HeldIsProcessing, OpenIsPaid, Unrecorded, InHand, Open, Holding,
           Terminal, Resolve, Become, messages
  <1>5. \A c \in Drains : InHand(c)'
    BY DEF IInv, Typed, DrainState, Off, TypeOK, InHand, Open,
           TriedOncePerAttempt, Holding, Terminal, Resolve, Become, messages
  <1>6. HeldIsProcessing'
    <2> SUFFICES ASSUME NEW c \in Drains, NEW x \in Holding(c)'
                 PROVE  status'[x] = "processing"
      BY DEF HeldIsProcessing
    <2>1. x \in Holding(c) /\ status[x] = "processing"
      BY <1>b, <1>c DEF IInv, HeldIsProcessing
    <2>2. x = e => audience # {}
      BY <1>a, <1>b, <1>c DEF IInv, TriedOncePerAttempt
    <2> QED
      BY <1>a, <2>1, <2>2 DEF IInv, Typed, TypeOK
  <1>7. LimitEnds'
    BY DEF IInv, Typed, DrainState, Off, TypeOK, LimitEnds, Open, Terminal,
           HeldIsProcessing, Holding, Resolve, Become, messages
  <1>8. UntriedIsPaid'
    <2>1. ASSUME NEW p \in Pairs, Untried(p)' PROVE Untried(p)
      <3>1. status'[p[1]] = status[p[1]] \/ status'[p[1]] = "processed"
        BY <1>a, PairParts DEF IInv, Typed, TypeOK
      <3>2. CASE status[p[1]] \in {"none", "pending", "failed"}
        BY <3>2 DEF Untried
      <3>3. CASE status[p[1]] \notin {"none", "pending", "failed"}
        <4>1. PICK c \in Drains :
                 \/ /\ drain'[c].at \in {"claim", "resolve", "attach", "defer"}
                    /\ p[1] \in Holding(c)'
                 \/ drain'[c].at = "send" /\ p \in drain'[c].todo \ drain'[c].group
          BY <2>1, <3>1, <3>3 DEF Untried
        <4> QED
          BY <1>a, <1>b, <1>c, <4>1 DEF Untried
      <3> QED
        BY <3>2, <3>3
    <2> QED
      BY <1>a, <2>1, UntriedKept
  <1>9. OpenIsPaid'
    BY DEF IInv, Typed, DrainState, Off, TypeOK, OpenIsPaid, Unrecorded, Open,
           Terminal, InHand, ProcessedIsRecorded, Holding, TriedOncePerAttempt,
           Resolve, Become, messages
  <1> QED
    BY <1>2, <1>3, <1>4, <1>5, <1>6, <1>7, <1>8, <1>9 DEF IInv

LEMMA AttachStep ==
  ASSUME IInv, NEW d \in Drains, Attach(d)
  PROVE  IInv'
  <1>a. /\ drain[d].at = "attach"
        /\ UNCHANGED <<status, attempts, due, audience, resolved, tried, accepted,
                       lost, spent>>
    BY DEF Attach, event, messages
  <1>b. ASSUME NEW p \in Pairs
        PROVE  \/ delivery'[p] = delivery[p]
               \/ delivery[p] = NoRow
                  /\ delivery'[p] = [status |-> "queued", attempts |-> 0]
    BY DEF Attach
  <1>c. ASSUME NEW p \in Pairs
        PROVE  /\ Open(p)' = Open(p)
               /\ delivery'[p].status = "sent" => delivery[p].status = "sent"
               /\ Open(p) => ~ Done(delivery[p])
    <2>1. Open(p) => delivery[p].attempts \in Nat /\ delivery[p].attempts < MaxAttempts
      BY DEF IInv, LimitEnds, Typed, TypeOK
    <2> QED
      BY <1>b, <2>1 DEF Open, NoRow, Terminal, Done
  <1>d. /\ drain'[d].at = "send" /\ drain'[d].group = {}
        /\ drain'[d].outcome = "none"
        /\ drain'[d].held = drain[d].held
        /\ drain'[d].todo = {p \in Wanted(d) : ~ Done(delivery[p])}
        /\ drain'[d].settled = Wanted(d) \ drain'[d].todo
    BY BecomeAlone DEF Attach
  <1>e. \A c \in Drains : c # d => drain'[c] = drain[c]
    BY BecomeAlone DEF Attach
  <1>1. TypeOK'
    BY DEF IInv, Typed, TypeOK, LimitEnds, HeldIsProcessing, Holding, InHand,
           Open, Terminal, Attach, Become, Wanted, Done, NoRow, event,
           messages
  <1>2. Typed'
    BY <1>1 DEF IInv, Typed, TypeOK, DrainState, Off, Outcome, Attach, Become,
                Wanted, Done, NoRow, event, messages
  <1>3. TriedOncePerAttempt'
    BY DEF IInv, Typed, DrainState, Off, TypeOK, TriedOncePerAttempt,
           HeldIsProcessing, UntriedIsPaid, Untried, InHand, Holding,
           LimitEnds, Attach, Become, Wanted, Done, NoRow, event, messages
  <1>4. ProcessedIsRecorded'
    <2>1. ASSUME NEW e \in Events, status'[e] = "processed", NEW leg \in resolved'[e]
          PROVE  delivery'[<<e, leg>>].status \in Terminal
      <3>1. <<e, leg>> \in Pairs /\ ~ Open(<<e, leg>>)
        BY <1>a, <2>1 DEF IInv, Typed, TypeOK, Pairs, ProcessedIsRecorded, Open
      <3> QED
        BY <1>c, <3>1 DEF Open
    <2> QED
      BY <1>a, <1>c, <2>1 DEF IInv, ProcessedIsRecorded
  <1>5. ASSUME NEW c \in Drains PROVE InHand(c)'
    <2>1. CASE c = d
      <3>1. \A p \in drain'[d].todo : Open(p)' /\ p[1] \in drain'[d].held
        BY <1>c, <1>d DEF Wanted, Done, Open
      <3>2. \A p \in drain'[d].settled : ~ Open(p)'
        BY <1>c, <1>d DEF Wanted
      <3> QED
        BY <1>d, <2>1, <3>1, <3>2 DEF InHand
    <2>2. CASE c # d
      <3>1. drain[c].at = "send" => drain[c].todo \subseteq Pairs
        BY DEF IInv, Typed, DrainState, Off
      <3>2. drain[c].at \in {"send", "finalize"} => drain[c].settled \subseteq Pairs
        BY DEF IInv, Typed, DrainState, Off
      <3> QED
        BY <1>a, <1>c, <1>e, <2>2, <3>1, <3>2 DEF IInv, InHand
    <2> QED
      BY <2>1, <2>2
  <1>6. HeldIsProcessing'
    BY DEF IInv, Typed, DrainState, Off, TypeOK, HeldIsProcessing, Holding,
           TriedOncePerAttempt, Attach, Become, Wanted, Done, NoRow, event,
           messages
  <1>7. LimitEnds'
    BY DEF IInv, Typed, DrainState, Off, TypeOK, LimitEnds, Open, Terminal,
           HeldIsProcessing, Holding, Attach, Become, Wanted, Done, NoRow,
           event, messages
  <1>8. UntriedIsPaid'
    BY ZenonT(30) DEF IInv, Typed, DrainState, Off, TypeOK, UntriedIsPaid,
                      Untried, HeldIsProcessing, Holding, TriedOncePerAttempt,
                      InHand, Attach, Become, Wanted, Done, NoRow, event,
                      messages
  <1>9. OpenIsPaid'
    BY DEF IInv, Typed, DrainState, Off, TypeOK, OpenIsPaid, Unrecorded, Open,
           Terminal, InHand, ProcessedIsRecorded, Holding, TriedOncePerAttempt,
           Attach, Become, Wanted, Done, NoRow, event, messages
  <1> QED
    BY <1>2, <1>3, <1>4, <1>5, <1>6, <1>7, <1>8, <1>9 DEF IInv

LEMMA SendStep ==
  ASSUME IInv, NEW d \in Drains, NEW group \in SUBSET Pairs, NEW outcome \in Outcome \cup {"lost"},
         Send(d, group, outcome)
  PROVE  IInv'
  <1> DEFINE r == [drain[d] EXCEPT !.group = group, !.outcome = Heard(outcome)]
  <1>a. /\ drain[d].at = "send" /\ drain[d].group = {}
        /\ drain[d] \in [at : {"send"}, held : SUBSET Events, todo : SUBSET Pairs,
                         settled : SUBSET Pairs, group : SUBSET Pairs,
                         outcome : Outcome \cup {"none"}]
        /\ group \subseteq drain[d].todo
    BY GroupsAreOutstanding DEF IInv, Typed, DrainState, Off, Send
  <1>b. /\ r \in DrainState /\ r.at = "send" /\ r.held = drain[d].held
        /\ r.todo = drain[d].todo /\ r.group = group /\ r.outcome = Heard(outcome)
        /\ r.settled = drain[d].settled
    <2>1. Heard(outcome) \in Outcome
      BY DEF Heard, Outcome
    <2> QED
      BY <1>a, <2>1 DEF DrainState
  <1>c. /\ drain' = [drain EXCEPT ![d] = r]
        /\ drain'[d] = r /\ \A c \in Drains : c # d => drain'[c] = drain[c]
    BY BecomeAlone DEF Send, Become
  <1> HIDE DEF r
  <1>d. \A c \in Drains : Holding(c)' = Holding(c)
    BY <1>a, <1>b, <1>c DEF Holding
  <1>e. UNCHANGED <<status, attempts, due, audience, delivery, resolved, spent>>
    BY DEF Send, event
  <1>f. ASSUME NEW p \in Pairs
        PROVE  /\ tried[p] \in Nat /\ tried'[p] \in Nat
               /\ p \in group => tried'[p] <= tried[p] + 1
               /\ p \notin group => tried'[p] = tried[p]
    <2>1. tried'[p] = tried[p] + (IF p \in group /\ outcome # "skip" THEN 1 ELSE 0)
      BY DEF Send
    <2>2. tried[p] \in Nat
      BY DEF IInv, Typed
    <2> QED
      BY <2>1, <2>2
  <1>h. ASSUME NEW p \in Pairs
        PROVE  /\ accepted[p] \in Nat /\ accepted'[p] \in Nat
               /\ lost[p] \in Nat /\ lost'[p] \in Nat
               /\ \/ accepted'[p] = accepted[p] /\ lost'[p] = lost[p]
                  \/ /\ p \in group /\ outcome \in {"sent", "handed"}
                     /\ accepted'[p] = accepted[p] + 1 /\ lost'[p] = lost[p]
                  \/ /\ p \in group /\ outcome = "lost"
                     /\ accepted'[p] = accepted[p] + 1 /\ lost'[p] = lost[p] + 1
               /\ p \in group /\ outcome \in {"sent", "handed"} =>
                    accepted'[p] = accepted[p] + 1 /\ lost'[p] = lost[p]
    <2>1. /\ accepted'[p] = accepted[p]
               + (IF p \in group /\ outcome \in {"sent", "handed", "lost"}
                  THEN 1 ELSE 0)
          /\ lost'[p] = lost[p] + (IF p \in group /\ outcome = "lost" THEN 1 ELSE 0)
      BY DEF Send
    <2>2. accepted[p] \in Nat /\ lost[p] \in Nat
      BY DEF IInv, Typed
    <2>3. CASE p \in group /\ outcome \in {"sent", "handed"}
      BY <2>1, <2>2, <2>3
    <2>4. CASE p \in group /\ outcome = "lost"
      BY <2>1, <2>2, <2>4
    <2>5. CASE ~ (p \in group /\ outcome \in {"sent", "handed", "lost"})
      BY <2>1, <2>2, <2>5
    <2> QED
      BY <2>3, <2>4, <2>5
  <1>g. ASSUME NEW p \in group
        PROVE  p \in Pairs /\ Open(p) /\ ~ Unrecorded(p) /\ Untried(p)
               /\ status[p[1]] = "processing"
               /\ \A c \in Drains : c # d => p[1] \notin Holding(c)
    <2>1. /\ p \in Pairs /\ Open(p) /\ p[1] \in Holding(d)
      BY <1>a DEF IInv, InHand, Holding
    <2>2. status[p[1]] = "processing"
          /\ \A c \in Drains : c # d => p[1] \notin Holding(c)
      BY <2>1 DEF IInv, HeldIsProcessing, TriedOncePerAttempt
    <2>3. Untried(p)
      BY <1>a DEF Untried
    <2>4. ASSUME NEW c \in Drains, drain[c].at = "send" PROVE p \notin drain[c].group
      BY <1>a, <2>2, <2>4 DEF IInv, InHand, Holding
    <2> QED
      BY <2>1, <2>2, <2>3, <2>4 DEF Unrecorded
  <1>1. TypeOK'
    BY DEF IInv, Typed, TypeOK, LimitEnds, HeldIsProcessing, Holding, InHand,
           Open, Terminal, Send, Become, NextGroups, Of, event
  <1>2. Typed'
    <2>1. /\ tried' \in [Pairs -> Nat] /\ accepted' \in [Pairs -> Nat]
          /\ lost' \in [Pairs -> Nat]
      BY DEF Send, IInv, Typed
    <2>2. \A p \in Pairs : lost'[p] <= accepted'[p]
      BY <1>h DEF IInv, Typed
    <2> QED
      BY <1>1, <1>b, <1>c, <1>e, <2>1, <2>2 DEF IInv, Typed
  <1>3. TriedOncePerAttempt'
    <2>1. ASSUME NEW p \in Pairs
          PROVE  tried'[p] <= MaxAttempts /\ tried'[p] <= attempts[p[1]] + 1
      <3>1. attempts[p[1]] \in Nat
        BY PairParts DEF IInv, Typed, TypeOK
      <3>2. CASE p \in group
        <4>1. tried[p] <= attempts[p[1]] /\ attempts[p[1]] < MaxAttempts
          BY <1>g, <3>2, PairParts DEF IInv, UntriedIsPaid, LimitEnds
        <4> QED
          BY <1>f, <3>1, <3>2, <4>1
      <3>3. CASE p \notin group
        BY <1>f, <3>3 DEF IInv, TriedOncePerAttempt
      <3> QED
        BY <3>2, <3>3
    <2> QED
      BY <1>d, <1>e, <2>1 DEF IInv, TriedOncePerAttempt
  <1>4. ProcessedIsRecorded'
    <2>1. ASSUME NEW p \in Pairs
          PROVE  /\ accepted[p] > lost[p] => accepted'[p] > lost'[p]
                 /\ accepted'[p] <= 1 + lost'[p] + spent.faults + spent.stops
      <3>1. spent.faults \in Nat /\ spent.stops \in Nat
        BY DEF IInv, Typed
      <3>2. accepted[p] <= 1 + lost[p] + spent.faults + spent.stops
        BY DEF IInv, ProcessedIsRecorded
      <3>3. CASE p \in group
        <4>1. accepted[p] <= lost[p] + spent.faults + spent.stops
          BY <1>g, <3>3 DEF IInv, OpenIsPaid
        <4> QED
          BY <1>h, <3>1, <4>1
      <3>4. CASE p \notin group
        BY <1>h, <3>2, <3>4
      <3> QED
        BY <3>3, <3>4
    <2> QED
      BY <1>e, <2>1 DEF IInv, ProcessedIsRecorded
  <1>5. \A c \in Drains : InHand(c)'
    <2> TAKE c \in Drains
    <2>1. CASE c = d
      <3>1. /\ r.outcome \in Outcome
            /\ r.outcome \in {"sent", "handed"} => outcome \in {"sent", "handed"}
        BY <1>b DEF Heard, Outcome
      <3>2. \A p \in group : outcome \in {"sent", "handed"} => accepted'[p] > lost'[p]
        BY <1>g, <1>h DEF IInv, Typed
      <3>3. \A p \in r.todo : Open(p)' /\ p[1] \in r.held
        BY <1>a, <1>b, <1>e DEF IInv, InHand, Open
      <3>4. \A p \in r.settled : ~ Open(p)'
        BY <1>a, <1>b, <1>e DEF IInv, InHand, Open
      <3> QED
        BY <1>a, <1>b, <1>c, <2>1, <3>1, <3>2, <3>3, <3>4 DEF InHand
    <2>2. CASE c # d
      <3>1. drain'[c] = drain[c] /\ UNCHANGED delivery
        BY <1>c, <1>e, <2>2
      <3>2. ASSUME drain[c].at = "send", NEW p \in drain[c].group
            PROVE  p \in Pairs /\ p \notin group
        <4>1. p \in drain[c].todo /\ p[1] \in Holding(c)
          BY <3>2 DEF IInv, InHand, Holding
        <4> QED
          BY <1>g, <2>2, <3>2, <4>1 DEF IInv, Typed, DrainState, Off
      <3>3. drain[c].at = "send" /\ drain[c].outcome \in {"sent", "handed"} =>
              \A p \in drain[c].group : accepted'[p] > lost'[p]
        BY <1>h, <3>2 DEF IInv, InHand
      <3> QED
        BY <3>1, <3>3 DEF IInv, InHand, Open
    <2> QED
      BY <2>1, <2>2
  <1>6. HeldIsProcessing'
    BY DEF IInv, Typed, DrainState, Off, TypeOK, HeldIsProcessing, Holding,
           TriedOncePerAttempt, Send, Become, NextGroups, Of, event
  <1>7. LimitEnds'
    BY DEF IInv, Typed, DrainState, Off, TypeOK, LimitEnds, Open, Terminal,
           HeldIsProcessing, Holding, Send, Become, NextGroups, Of, event
  <1>8. UntriedIsPaid'
    <2> SUFFICES ASSUME NEW p \in Pairs, Untried(p)'
                 PROVE  tried'[p] <= attempts[p[1]]
      BY <1>e DEF UntriedIsPaid
    <2>1. p \notin group /\ Untried(p)
      <3>1. CASE status[p[1]] \in {"none", "pending", "failed"}
        BY <1>g, <3>1 DEF Untried
      <3>2. CASE status[p[1]] \notin {"none", "pending", "failed"}
        <4>1. PICK c \in Drains :
                 \/ /\ drain'[c].at \in {"claim", "resolve", "attach", "defer"}
                    /\ p[1] \in Holding(c)'
                 \/ drain'[c].at = "send" /\ p \in drain'[c].todo \ drain'[c].group
          BY <1>e, <3>2 DEF Untried
        <4>2. CASE c = d
          BY <1>a, <1>b, <1>c, <4>1, <4>2 DEF Untried
        <4>3. CASE c # d
          <5>1. p[1] \in Holding(c) /\ Untried(p)
            BY <1>c, <1>d, <4>1, <4>3 DEF IInv, InHand, Holding, Untried
          <5> QED
            BY <1>g, <4>3, <5>1
        <4> QED
          BY <4>2, <4>3
      <3> QED
        BY <3>1, <3>2
    <2> QED
      BY <1>f, <2>1 DEF IInv, UntriedIsPaid
  <1>9. ASSUME NEW p \in Pairs, Open(p)', ~ Unrecorded(p)'
        PROVE  accepted'[p] <= lost'[p] + spent.faults + spent.stops
    <2>1. Open(p) /\ spent.faults \in Nat /\ spent.stops \in Nat
      BY <1>e, <1>9 DEF Open, IInv, Typed
    <2>2. CASE p \in group
      <3>1. accepted[p] <= lost[p] + spent.faults + spent.stops
        BY <1>g, <2>2 DEF IInv, OpenIsPaid
      <3>2. outcome \notin {"sent", "handed"}
        <4> SUFFICES ASSUME outcome \in {"sent", "handed"} PROVE FALSE
          OBVIOUS
        <4>1. r.outcome = outcome
          BY <1>b DEF Heard
        <4> QED
          BY <1>9, <1>b, <1>c, <2>2, <4>1 DEF Unrecorded
      <3> QED
        BY <1>h, <2>1, <3>1, <3>2
    <2>3. CASE p \notin group
      <3>1. ASSUME Unrecorded(p) PROVE FALSE
        <4>1. PICK c \in Drains : /\ drain[c].at = "send" /\ p \in drain[c].group
                                  /\ drain[c].outcome \in {"sent", "handed"}
          BY <3>1 DEF Unrecorded
        <4>2. c # d
          BY <1>a, <4>1
        <4> QED
          BY <1>9, <1>c, <4>1, <4>2 DEF Unrecorded
      <3>2. accepted[p] <= lost[p] + spent.faults + spent.stops
        BY <2>1, <3>1 DEF IInv, OpenIsPaid
      <3> QED
        BY <1>h, <2>3, <3>2
    <2> QED
      BY <2>2, <2>3
  <1> QED
    BY <1>2, <1>3, <1>4, <1>5, <1>6, <1>7, <1>8, <1>e, <1>9
       DEF IInv, OpenIsPaid

LEMMA RecordLegStep ==
  ASSUME IInv, NEW d \in Drains, NEW p \in Pairs, RecordLeg(d, p)
  PROVE  IInv'
  <1> DEFINE row == ApplyOutcome(delivery[p], drain[d].outcome)
             r == [drain[d] EXCEPT
                    !.todo = @ \ {p}, !.group = @ \ {p},
                    !.settled = IF row.status # "failed" THEN @ \cup {p} ELSE @]
  <1>a. /\ drain[d].at = "send" /\ p \in drain[d].group /\ p \in drain[d].todo
        /\ drain[d] \in [at : {"send"}, held : SUBSET Events, todo : SUBSET Pairs,
                         settled : SUBSET Pairs, group : SUBSET Pairs,
                         outcome : Outcome \cup {"none"}]
        /\ drain[d].outcome \in Outcome
        /\ drain[d].outcome \in {"sent", "handed"} => accepted[p] > lost[p]
        /\ Open(p) /\ p[1] \in Holding(d)
    BY DEF IInv, Typed, DrainState, Off, RecordLeg, InHand, Holding
  <1>b. /\ row \in Row /\ row.status \in Terminal \cup {"failed"}
        /\ row.status = "failed" => row.attempts < MaxAttempts
        /\ row.status = "sent" => drain[d].outcome \in {"sent", "handed"}
    <2>1. delivery[p] \in Row /\ delivery[p].attempts < MaxAttempts
      BY <1>a DEF IInv, Typed, TypeOK, Row, LimitEnds
    <2> QED
      BY <1>a, <2>1, ApplyOutcomeEnds DEF Open
  <1>c. /\ UNCHANGED <<status, attempts, due, audience, resolved, tried, accepted,
                       lost, spent>>
        /\ delivery' = [delivery EXCEPT ![p] = row]
        /\ drain' = [drain EXCEPT ![d] = r]
        /\ drain'[d] = r /\ \A c \in Drains : c # d => drain'[c] = drain[c]
    BY BecomeAlone DEF RecordLeg, Become, event, messages
  <1> HIDE DEF row
  <1>d. /\ r \in DrainState /\ r.at = "send" /\ r.held = drain[d].held
        /\ r.todo = drain[d].todo \ {p} /\ r.group = drain[d].group \ {p}
        /\ r.outcome = drain[d].outcome
        /\ r.settled = IF row.status # "failed" THEN drain[d].settled \cup {p}
                       ELSE drain[d].settled
    BY <1>a DEF DrainState
  <1> HIDE DEF r
  <1>e. delivery'[p] = row /\ \A q \in Pairs : q # p => delivery'[q] = delivery[q]
    BY <1>c DEF IInv, Typed, TypeOK
  <1>f. \A q \in Pairs : /\ Open(q)' => Open(q)
                         /\ Open(q) /\ q # p => Open(q)'
    BY <1>a, <1>e DEF Open
  <1>g. \A c \in Drains : Holding(c)' = Holding(c)
    BY <1>a, <1>c, <1>d DEF Holding
  <1>1. TypeOK'
    BY <1>b, <1>c DEF IInv, Typed, TypeOK, Row
  <1>2. Typed'
    BY <1>1, <1>c, <1>d DEF IInv, Typed
  <1>3. TriedOncePerAttempt'
    BY <1>c, <1>g DEF IInv, TriedOncePerAttempt
  <1>4. ProcessedIsRecorded'
    <2>1. ASSUME NEW e \in Events, status[e] = "processed", NEW leg \in resolved[e]
          PROVE  delivery'[<<e, leg>>].status \in Terminal
      <3>1. <<e, leg>> \in Pairs /\ ~ Open(<<e, leg>>)
        BY <2>1 DEF IInv, Typed, TypeOK, Pairs, ProcessedIsRecorded, Open
      <3> QED
        BY <1>f, <3>1 DEF Open
    <2>2. ASSUME NEW q \in Pairs, delivery'[q].status = "sent" PROVE accepted[q] > lost[q]
      BY <1>a, <1>b, <1>e, <2>2 DEF IInv, ProcessedIsRecorded
    <2> QED
      BY <1>c, <2>1, <2>2 DEF IInv, ProcessedIsRecorded
  <1>5. ASSUME NEW c \in Drains PROVE InHand(c)'
    <2>1. CASE c = d
      <3>1. \A q \in r.todo : Open(q)' /\ q[1] \in r.held
        BY <1>a, <1>d, <1>f DEF IInv, InHand
      <3>2. \A q \in r.settled : ~ Open(q)'
        BY <1>a, <1>b, <1>d, <1>e, <1>f DEF IInv, InHand, Open
      <3>3. /\ r.group \subseteq r.todo /\ r.outcome \in Outcome
            /\ r.outcome \in {"sent", "handed"} => \A q \in r.group : accepted[q] > lost[q]
        BY <1>a, <1>d DEF IInv, InHand
      <3> QED
        BY <1>c, <1>d, <2>1, <3>1, <3>2, <3>3 DEF InHand
    <2>2. CASE c # d
      <3>1. drain'[c] = drain[c]
        BY <1>c, <2>2
      <3>2. drain[c].at = "send" => drain[c].todo \subseteq Pairs
        BY DEF IInv, Typed, DrainState, Off
      <3>3. drain[c].at \in {"send", "finalize"} => drain[c].settled \subseteq Pairs
        BY DEF IInv, Typed, DrainState, Off
      <3>4. drain[c].at = "send" => p \notin drain[c].todo
        BY <1>a, <2>2 DEF IInv, InHand, Holding, TriedOncePerAttempt
      <3>5. drain[c].at = "send" => \A q \in drain[c].todo : Open(q)'
        BY <1>f, <3>2, <3>4 DEF IInv, InHand
      <3>6. drain[c].at \in {"send", "finalize"} => \A q \in drain[c].settled : ~ Open(q)'
        BY <1>f, <3>3 DEF IInv, InHand
      <3> QED
        BY <1>c, <3>1, <3>5, <3>6 DEF IInv, InHand
    <2> QED
      BY <2>1, <2>2
  <1>6. HeldIsProcessing'
    BY <1>c, <1>g DEF IInv, HeldIsProcessing
  <1>7. LimitEnds'
    <2>1. ASSUME NEW q \in Pairs, Open(q)' PROVE delivery'[q].attempts < MaxAttempts
      BY <1>b, <1>e, <1>f, <2>1 DEF IInv, LimitEnds, Open
    <2> QED
      BY <1>c, <2>1 DEF IInv, LimitEnds
  <1>8. UntriedIsPaid'
    <2>1. \A q \in Pairs : Untried(q)' => Untried(q)
      BY <1>a, <1>c, <1>d, <1>g DEF Untried
    <2> QED
      BY <1>c, <2>1, UntriedKept
  <1>9. OpenIsPaid'
    BY DEF IInv, Typed, DrainState, Off, TypeOK, OpenIsPaid, Unrecorded, Open,
           Terminal, InHand, ProcessedIsRecorded, Holding, TriedOncePerAttempt,
           RecordLeg, Become, ApplyOutcome, event, messages
  <1> QED
    BY <1>2, <1>3, <1>4, <1>5, <1>6, <1>7, <1>8, <1>9 DEF IInv

LEMMA SentStep ==
  ASSUME IInv, NEW d \in Drains, Sent(d)
  PROVE  IInv'
  <1>1. TypeOK'
    BY DEF IInv, Typed, TypeOK, LimitEnds, HeldIsProcessing, Holding, InHand,
           Open, Terminal, Sent, Finish, Become, event, messages
  <1>2. Typed'
    BY <1>1 DEF IInv, Typed, TypeOK, DrainState, Off, Outcome, Sent, Finish,
                Become, event, messages
  <1>3. TriedOncePerAttempt'
    BY DEF IInv, Typed, DrainState, Off, TypeOK, TriedOncePerAttempt,
           HeldIsProcessing, UntriedIsPaid, Untried, InHand, Holding,
           LimitEnds, Sent, Finish, Become, event, messages
  <1>4. ProcessedIsRecorded'
    BY DEF IInv, Typed, DrainState, Off, TypeOK, ProcessedIsRecorded,
           HeldIsProcessing, OpenIsPaid, Unrecorded, InHand, Open, Holding,
           Terminal, Sent, Finish, Become, event, messages
  <1>5. \A c \in Drains : InHand(c)'
    BY DEF IInv, Typed, DrainState, Off, TypeOK, InHand, Open,
           TriedOncePerAttempt, Holding, Terminal, Sent, Finish, Become, event,
           messages
  <1>6. HeldIsProcessing'
    BY DEF IInv, Typed, DrainState, Off, TypeOK, HeldIsProcessing, Holding,
           TriedOncePerAttempt, Sent, Finish, Become, event, messages
  <1>7. LimitEnds'
    BY DEF IInv, Typed, DrainState, Off, TypeOK, LimitEnds, Open, Terminal,
           HeldIsProcessing, Holding, Sent, Finish, Become, event, messages
  <1>8. UntriedIsPaid'
    BY ZenonT(30) DEF IInv, Typed, DrainState, Off, TypeOK, UntriedIsPaid,
                      Untried, HeldIsProcessing, Holding, TriedOncePerAttempt,
                      InHand, Sent, Finish, Become, event, messages
  <1>9. OpenIsPaid'
    BY DEF IInv, Typed, DrainState, Off, TypeOK, OpenIsPaid, Unrecorded, Open,
           Terminal, InHand, ProcessedIsRecorded, Holding, TriedOncePerAttempt,
           Sent, Finish, Become, event, messages
  <1> QED
    BY <1>2, <1>3, <1>4, <1>5, <1>6, <1>7, <1>8, <1>9 DEF IInv

LEMMA ThrowStep ==
  ASSUME IInv, NEW d \in Drains, Throw(d)
  PROVE  IInv'
  <1>a. /\ drain[d].at \in {"attach", "send"} /\ drain[d].held \subseteq Events
        /\ drain[d].at = "send" => drain[d].settled \subseteq Pairs
        /\ UNCHANGED <<status, attempts, due, audience, resolved, tried, accepted, lost>>
        /\ spent' = [spent EXCEPT !.faults = @ + 1]
    <2>1. /\ drain[d].at \in {"attach", "send"}
          /\ UNCHANGED <<status, attempts, due, audience, resolved, tried, accepted, lost>>
          /\ spent' = [spent EXCEPT !.faults = @ + 1]
      BY DEF Throw, Trouble, event, messages
    <2> QED
      BY <2>1 DEF IInv, Typed, DrainState, Off
  <1> DEFINE settled == IF drain[d].at = "send" THEN drain[d].settled ELSE {}
             r == [at |-> "finalize", todo |-> drain[d].held, settled |-> settled]
  <1>b. /\ drain' = [drain EXCEPT ![d] = r]
        /\ drain'[d] = r /\ \A c \in Drains : c # d => drain'[c] = drain[c]
    BY <1>a, BecomeAlone DEF Throw, Finish, Become
  <1>c. /\ r \in DrainState /\ r.at = "finalize" /\ r.todo = drain[d].held
        /\ r.settled = settled
    BY <1>a DEF DrainState
  <1> HIDE DEF r
  <1>d. \/ UNCHANGED delivery
        \/ \E p \in drain[d].group :
             /\ drain[d].at = "send"
             /\ delivery' = [delivery EXCEPT ![p] = ApplyOutcome(@, drain[d].outcome)]
    BY DEF Throw
  <1>e. ASSUME NEW p \in drain[d].group, drain[d].at = "send"
        PROVE  LET row == ApplyOutcome(delivery[p], drain[d].outcome) IN
               /\ p \in Pairs /\ p \in drain[d].todo
               /\ Open(p) /\ row \in Row /\ row.status \in Terminal \cup {"failed"}
               /\ row.status = "failed" => row.attempts < MaxAttempts
               /\ row.status = "sent" => accepted[p] > lost[p]
    <2>1. /\ p \in Pairs /\ p \in drain[d].todo /\ Open(p)
          /\ drain[d].outcome \in Outcome
          /\ drain[d].outcome \in {"sent", "handed"} => accepted[p] > lost[p]
      BY <1>e DEF IInv, InHand, Typed, DrainState, Off
    <2>2. delivery[p] \in Row /\ delivery[p].attempts < MaxAttempts
      BY <2>1 DEF IInv, Typed, TypeOK, Row, LimitEnds
    <2> QED
      BY <2>1, <2>2, ApplyOutcomeEnds DEF Open
  <1>f. delivery' \in [Pairs -> Row]
    <2>1. delivery \in [Pairs -> Row]
      BY DEF IInv, Typed, TypeOK, Row
    <2> QED
      BY <1>d, <1>e, <2>1
  <1>g. ASSUME NEW q \in Pairs
        PROVE  \/ delivery'[q] = delivery[q]
               \/ /\ drain[d].at = "send" /\ q \in drain[d].todo /\ Open(q)
                  /\ delivery'[q].status \in Terminal \cup {"failed"}
                  /\ delivery'[q].status = "failed" => delivery'[q].attempts < MaxAttempts
                  /\ delivery'[q].status = "sent" => accepted[q] > lost[q]
    BY <1>d, <1>e DEF IInv, Typed, TypeOK
  <1>h. \A c \in Drains : Holding(c)' = Holding(c)
    BY <1>a, <1>b, <1>c DEF Holding
  <1>1. TypeOK'
    BY <1>a, <1>f DEF IInv, Typed, TypeOK, Row
  <1>2. Typed'
    BY <1>1, <1>a, <1>b, <1>c DEF IInv, Typed
  <1>3. TriedOncePerAttempt'
    BY <1>a, <1>h DEF IInv, TriedOncePerAttempt
  <1>4. ProcessedIsRecorded'
    <2>1. ASSUME NEW e \in Events, status[e] = "processed", NEW leg \in resolved[e]
          PROVE  delivery'[<<e, leg>>].status \in Terminal
      <3>1. <<e, leg>> \in Pairs /\ ~ Open(<<e, leg>>)
        BY <2>1 DEF IInv, Typed, TypeOK, Pairs, ProcessedIsRecorded, Open
      <3> QED
        BY <1>g, <3>1 DEF Open
    <2>2. ASSUME NEW q \in Pairs, delivery'[q].status = "sent" PROVE accepted[q] > lost[q]
      BY <1>g, <2>2 DEF IInv, ProcessedIsRecorded
    <2>3. ASSUME NEW q \in Pairs
          PROVE  accepted[q] <= 1 + lost[q] + spent'.faults + spent'.stops
      <3>1. accepted[q] \in Nat /\ lost[q] \in Nat /\ spent.faults \in Nat /\ spent.stops \in Nat
            /\ spent'.faults = spent.faults + 1 /\ spent'.stops = spent.stops
            /\ accepted[q] <= 1 + lost[q] + spent.faults + spent.stops
        BY <1>a DEF IInv, Typed, ProcessedIsRecorded
      <3> QED
        BY <3>1
    <2> QED
      BY <1>a, <2>1, <2>2, <2>3 DEF ProcessedIsRecorded
  <1>5. ASSUME NEW c \in Drains PROVE InHand(c)'
    <2>1. CASE c = d
      <3>1. \A q \in settled : ~ Open(q)'
        BY <1>a, <1>g DEF IInv, InHand, Open
      <3> QED
        BY <1>b, <1>c, <2>1, <3>1 DEF InHand
    <2>2. CASE c # d
      <3>1. drain'[c] = drain[c]
        BY <1>b, <2>2
      <3>2. drain[c].at = "send" => drain[c].todo \subseteq Pairs
        BY DEF IInv, Typed, DrainState, Off
      <3>3. drain[c].at \in {"send", "finalize"} => drain[c].settled \subseteq Pairs
        BY DEF IInv, Typed, DrainState, Off
      <3>4. drain[c].at = "send" /\ drain[d].at = "send" =>
              drain[c].todo \cap drain[d].todo = {}
        BY <2>2 DEF IInv, InHand, Holding, TriedOncePerAttempt
      <3>5. drain[c].at = "send" => \A q \in drain[c].todo : Open(q)'
        BY <1>g, <3>2, <3>4 DEF IInv, InHand, Open
      <3>6. drain[c].at \in {"send", "finalize"} => \A q \in drain[c].settled : ~ Open(q)'
        BY <1>g, <3>3 DEF IInv, InHand, Open
      <3> QED
        BY <1>a, <3>1, <3>5, <3>6 DEF IInv, InHand
    <2> QED
      BY <2>1, <2>2
  <1>6. HeldIsProcessing'
    BY DEF IInv, Typed, DrainState, Off, TypeOK, HeldIsProcessing, Holding,
           TriedOncePerAttempt, Throw, Finish, Become, Trouble, ApplyOutcome,
           event, messages
  <1>7. LimitEnds'
    <2>1. ASSUME NEW q \in Pairs, Open(q)' PROVE delivery'[q].attempts < MaxAttempts
      BY <1>g, <2>1 DEF IInv, LimitEnds, Open
    <2> QED
      BY <1>a, <2>1 DEF IInv, LimitEnds
  <1>8. UntriedIsPaid'
    <2>1. \A q \in Pairs : Untried(q)' => Untried(q)
      BY <1>a, <1>b, <1>c, <1>h DEF Untried
    <2> QED
      BY <1>a, <2>1, UntriedKept
  <1>9. OpenIsPaid'
    BY DEF IInv, Typed, DrainState, Off, TypeOK, OpenIsPaid, Unrecorded, Open,
           Terminal, InHand, ProcessedIsRecorded, Holding, TriedOncePerAttempt,
           Throw, Finish, Become, Trouble, ApplyOutcome, event, messages
  <1> QED
    BY <1>2, <1>3, <1>4, <1>5, <1>6, <1>7, <1>8, <1>9 DEF IInv

LEMMA FinalizeStep ==
  ASSUME IInv, NEW d \in Drains, NEW e \in Events, Finalize(d, e)
  PROVE  IInv'
  <1> DEFINE all == \A p \in Pairs :
                      p[1] = e /\ p[2] \in resolved[e] => p \in drain[d].settled
  <1>a. /\ drain[d].at = "finalize" /\ e \in drain[d].todo
        /\ status[e] = "processing"
        /\ attempts[e] \in Nat /\ attempts[e] < MaxAttempts
        /\ UNCHANGED <<audience, delivery, resolved, tried, accepted, lost,
                       spent>>
    BY DEF Finalize, messages, IInv, HeldIsProcessing, Holding, LimitEnds,
           Typed, TypeOK
  <1>b. /\ drain'[d].at \in {"off", "finalize"}
        /\ Holding(d)' = Holding(d) \ {e}
        /\ \A c \in Drains : c # d =>
             drain'[c] = drain[c] /\ Holding(c)' = Holding(c) /\ e \notin Holding(c)
    <2>1. drain'[d] = IF drain[d].todo = {e} THEN Off
                      ELSE [drain[d] EXCEPT !.todo = @ \ {e}]
      BY BecomeAlone DEF Finalize
    <2>2. drain[d] \in [at : {"finalize"}, todo : SUBSET Events, settled : SUBSET Pairs]
      BY <1>a DEF IInv, Typed, DrainState, Off
    <2>3. /\ drain'[d].at \in {"off", "finalize"}
          /\ Holding(d)' = Holding(d) \ {e}
      <3>1. CASE drain[d].todo = {e}
        BY <1>a, <2>1, <3>1 DEF Holding, Off
      <3>2. CASE drain[d].todo # {e}
        BY <1>a, <2>1, <2>2, <3>2 DEF Holding
      <3> QED
        BY <3>1, <3>2
    <2>4. e \in Holding(d)
      BY <1>a DEF Holding
    <2>5. ASSUME NEW c \in Drains, c # d
          PROVE  drain'[c] = drain[c] /\ Holding(c)' = Holding(c) /\ e \notin Holding(c)
      <3>1. drain'[c] = drain[c]
        BY <2>5, BecomeAlone DEF Finalize
      <3> QED
        BY <2>4, <2>5, <3>1 DEF Holding, IInv, TriedOncePerAttempt
    <2> QED
      BY <2>3, <2>5
  <1>c. \/ /\ all
           /\ status' = [status EXCEPT ![e] = "processed"]
           /\ UNCHANGED <<attempts, due>>
        \/ /\ ~ all
           /\ attempts' = [attempts EXCEPT ![e] = @ + 1]
           /\ \/ attempts[e] + 1 >= MaxAttempts
                 /\ status' = [status EXCEPT ![e] = "failed"] /\ UNCHANGED due
              \/ attempts[e] + 1 < MaxAttempts
                 /\ status' = [status EXCEPT ![e] = "pending"]
                 /\ due' = [due EXCEPT ![e] = FALSE]
    BY <1>a DEF Finalize
  <1> HIDE DEF all
  <1>d. ASSUME NEW x \in Events
        PROVE  /\ attempts[x] \in Nat /\ attempts'[x] \in Nat
               /\ x # e => attempts'[x] = attempts[x] /\ status'[x] = status[x]
               /\ x = e => \/ /\ status'[x] = "processed" /\ all
                              /\ attempts'[x] = attempts[x]
                           \/ /\ status'[x] = "pending"
                              /\ attempts'[x] = attempts[x] + 1
                              /\ attempts'[x] < MaxAttempts
                           \/ /\ status'[x] = "failed"
                              /\ attempts'[x] = attempts[x] + 1
                              /\ attempts'[x] = MaxAttempts
    <2>1. attempts \in [Events -> 0 .. MaxAttempts] /\ DOMAIN status = Events
      BY DEF IInv, Typed, TypeOK
    <2>2. CASE x = e
      BY <1>a, <1>c, <2>1, <2>2
    <2>3. CASE x # e
      BY <1>c, <2>1, <2>3
    <2> QED
      BY <2>2, <2>3
  <1>1. TypeOK'
    <2>1. attempts' \in [Events -> 0 .. MaxAttempts]
      BY <1>a, <1>c DEF IInv, Typed, TypeOK
    <2>2. /\ due' \in [Events -> BOOLEAN]
          /\ status' \in [Events -> {"none", "pending", "processing", "processed",
                                     "failed"}]
      BY <1>c DEF IInv, Typed, TypeOK
    <2> QED
      BY <1>a, <2>1, <2>2 DEF IInv, Typed, TypeOK
  <1>2. Typed'
    BY SMTT(30), <1>1 DEF IInv, Typed, TypeOK, DrainState, Off, Outcome,
                          Finalize, Become, messages
  <1>3. TriedOncePerAttempt'
    <2>1. \A b, c \in Drains : b # c => Holding(b)' \cap Holding(c)' = {}
      BY <1>b DEF IInv, TriedOncePerAttempt
    <2>2. ASSUME NEW p \in Pairs PROVE tried[p] <= attempts'[p[1]] + 1
      <3>1. tried[p] \in Nat /\ tried[p] <= attempts[p[1]] + 1
        BY DEF IInv, Typed, TriedOncePerAttempt
      <3> QED
        BY <1>d, <3>1, PairParts
    <2> QED
      BY <1>a, <2>1, <2>2 DEF IInv, TriedOncePerAttempt
  <1>4. ProcessedIsRecorded'
    <2>1. ASSUME NEW x \in Events, status'[x] = "processed", NEW leg \in resolved[x]
          PROVE  delivery[<<x, leg>>].status \in Terminal
      <3>1. <<x, leg>> \in Pairs
        BY DEF IInv, Typed, TypeOK, Pairs
      <3>2. CASE x = e
        <4>1. <<x, leg>> \in drain[d].settled
          BY <1>d, <2>1, <3>1, <3>2 DEF all
        <4> QED
          BY <1>a, <4>1 DEF IInv, InHand, Open
      <3>3. CASE x # e
        BY <1>d, <2>1, <3>3 DEF IInv, ProcessedIsRecorded
      <3> QED
        BY <3>2, <3>3
    <2> QED
      BY <1>a, <2>1 DEF IInv, ProcessedIsRecorded
  <1>5. \A c \in Drains : InHand(c)'
    BY DEF IInv, Typed, DrainState, Off, TypeOK, InHand, Open,
           TriedOncePerAttempt, Holding, Terminal, Finalize, Become, messages
  <1>6. HeldIsProcessing'
    BY DEF IInv, Typed, DrainState, Off, TypeOK, HeldIsProcessing, Holding,
           TriedOncePerAttempt, Finalize, Become, messages
  <1>7. LimitEnds'
    BY DEF IInv, Typed, DrainState, Off, TypeOK, LimitEnds, Open, Terminal,
           HeldIsProcessing, Holding, Finalize, Become, messages
  <1>8. UntriedIsPaid'
    <2> SUFFICES ASSUME NEW p \in Pairs, Untried(p)'
                 PROVE  tried[p] <= attempts'[p[1]]
      BY <1>a DEF UntriedIsPaid
    <2>1. /\ tried[p] \in Nat /\ tried[p] <= attempts[p[1]] + 1 /\ p[1] \in Events
      BY PairParts DEF IInv, Typed, TriedOncePerAttempt
    <2>2. CASE p[1] = e
      <3>1. status'[p[1]] # "processed"
        BY ZenonT(30), <1>a, <1>b, <1>d, <2>1, <2>2
           DEF Untried, IInv, InHand, Holding
      <3> QED
        BY <1>d, <2>1, <2>2, <3>1
    <2>3. CASE p[1] # e
      <3>1. Untried(p)
        BY <1>a, <1>b, <1>d, <2>1, <2>3 DEF Untried
      <3> QED
        BY <1>d, <2>1, <2>3, <3>1 DEF IInv, UntriedIsPaid
    <2> QED
      BY <2>2, <2>3
  <1>9. OpenIsPaid'
    BY DEF IInv, Typed, DrainState, Off, TypeOK, OpenIsPaid, Unrecorded, Open,
           Terminal, InHand, ProcessedIsRecorded, Holding, TriedOncePerAttempt,
           Finalize, Become, messages
  <1> QED
    BY <1>2, <1>3, <1>4, <1>5, <1>6, <1>7, <1>8, <1>9 DEF IInv

LEMMA StopStep ==
  ASSUME IInv, NEW d \in Drains, Stop(d)
  PROVE  IInv'
  <1>1. TypeOK'
    BY DEF IInv, Typed, TypeOK, LimitEnds, HeldIsProcessing, Holding, InHand,
           Open, Terminal, Stop, Become, Trouble, event, messages
  <1>2. Typed'
    BY <1>1 DEF IInv, Typed, TypeOK, DrainState, Off, Outcome, Stop, Become,
                Trouble, event, messages
  <1>3. TriedOncePerAttempt'
    BY DEF IInv, Typed, DrainState, Off, TypeOK, TriedOncePerAttempt,
           HeldIsProcessing, UntriedIsPaid, Untried, InHand, Holding,
           LimitEnds, Stop, Become, Trouble, event, messages
  <1>4. ProcessedIsRecorded'
    BY DEF IInv, Typed, DrainState, Off, TypeOK, ProcessedIsRecorded,
           HeldIsProcessing, OpenIsPaid, Unrecorded, InHand, Open, Holding,
           Terminal, Stop, Become, Trouble, event, messages
  <1>5. \A c \in Drains : InHand(c)'
    BY DEF IInv, Typed, DrainState, Off, TypeOK, InHand, Open,
           TriedOncePerAttempt, Holding, Terminal, Stop, Become, Trouble,
           event, messages
  <1>6. HeldIsProcessing'
    BY DEF IInv, Typed, DrainState, Off, TypeOK, HeldIsProcessing, Holding,
           TriedOncePerAttempt, Stop, Become, Trouble, event, messages
  <1>7. LimitEnds'
    BY DEF IInv, Typed, DrainState, Off, TypeOK, LimitEnds, Open, Terminal,
           HeldIsProcessing, Holding, Stop, Become, Trouble, event, messages
  <1>8. UntriedIsPaid'
    BY ZenonT(30) DEF IInv, Typed, DrainState, Off, TypeOK, UntriedIsPaid,
                      Untried, HeldIsProcessing, Holding, TriedOncePerAttempt,
                      InHand, Stop, Become, Trouble, event, messages
  <1>9. OpenIsPaid'
    BY DEF IInv, Typed, DrainState, Off, TypeOK, OpenIsPaid, Unrecorded, Open,
           Terminal, InHand, ProcessedIsRecorded, Holding, TriedOncePerAttempt,
           Stop, Become, Trouble, event, messages
  <1> QED
    BY <1>2, <1>3, <1>4, <1>5, <1>6, <1>7, <1>8, <1>9 DEF IInv

-----------------------------------------------------------------------------

\* Nothing is submitted or drained at first.
LEMMA InitIInv == Init => IInv
  <1> SUFFICES ASSUME Init PROVE IInv
    OBVIOUS
  <1>1. Typed
    BY DEF Init, Typed, TypeOK, NoRow, DrainState
  <1>2. \A d \in Drains : drain[d].at = "off" /\ Holding(d) = {}
    BY DEF Init, Off, Holding
  <1>3. TriedOncePerAttempt
    BY <1>2, PairParts DEF Init, TriedOncePerAttempt
  <1>4. ProcessedIsRecorded
    BY PairParts DEF Init, ProcessedIsRecorded, NoRow
  <1>5. (\A d \in Drains : InHand(d)) /\ HeldIsProcessing
    BY <1>2 DEF InHand, HeldIsProcessing
  <1>6. LimitEnds /\ UntriedIsPaid /\ OpenIsPaid
    BY PairParts DEF Init, LimitEnds, UntriedIsPaid, OpenIsPaid, NoRow
  <1> QED
    BY <1>1, <1>3, <1>4, <1>5, <1>6 DEF IInv

LEMMA StepIInv == IInv /\ [Next]_vars => IInv'
  <1> SUFFICES ASSUME IInv, [Next]_vars PROVE IInv'
    OBVIOUS
  <1>1. ASSUME NEW e \in Events, Submitted(e) \/ Elapse(e) PROVE IInv'
    BY <1>1, SubmittedStep, ElapseStep
  <1>2. ASSUME NEW legs \in SUBSET Legs, ChangeAudience(legs) PROVE IInv'
    BY <1>2, ChangeAudienceStep
  <1>3. ASSUME NEW d \in Drains, DrainStep(d) PROVE IInv'
    <2>1. ASSUME drain[d].at = "send", NEW group \in NextGroups(drain[d].todo),
                 NEW outcome \in Outcomes(group), Send(d, group, outcome)
          PROVE  IInv'
      <3>1. drain[d].todo \in SUBSET Pairs
        BY <2>1 DEF IInv, Typed, DrainState, Off
      <3>2. group \in SUBSET Pairs
        BY <3>1, GroupsAreOutstanding
      <3>3. outcome \in Outcome \cup {"lost"}
        BY DEF Outcomes, Outcome
      <3> QED
        BY <2>1, <3>2, <3>3, SendStep
    <2> QED
      BY <1>3, <2>1, ClaimStep, DeferStep, ResolveStep, FinalizeStep,
         ClaimedStep, AttachStep, RecordLegStep, SentStep
         DEF DrainStep
  <1>4. ASSUME NEW d \in Drains, Start(d) \/ Throw(d) \/ Stop(d) PROVE IInv'
    BY <1>4, StartStep, ThrowStep, StopStep
  <1>5. CASE UNCHANGED vars
    <2>1. Typed' /\ LimitEnds'
      BY <1>5 DEF IInv, Typed, TypeOK, LimitEnds, Open, vars
    <2>2. TriedOncePerAttempt' /\ HeldIsProcessing'
      BY <1>5 DEF IInv, TriedOncePerAttempt, HeldIsProcessing, Holding, vars
    <2>3. ProcessedIsRecorded'
      BY <1>5 DEF IInv, ProcessedIsRecorded, vars
    <2>4. \A d \in Drains : InHand(d)'
      BY <1>5 DEF IInv, InHand, Open, vars
    <2>5. UntriedIsPaid'
      BY <1>5 DEF IInv, UntriedIsPaid, Untried, Holding, vars
    <2>6. OpenIsPaid'
      BY <1>5 DEF IInv, OpenIsPaid, Unrecorded, Open, vars
    <2> QED
      BY <2>1, <2>2, <2>3, <2>4, <2>5, <2>6 DEF IInv
  <1> QED
    BY <1>1, <1>2, <1>3, <1>4, <1>5 DEF Next

LEMMA Invariance == Spec => []IInv
  BY InitIInv, StepIInv, PTL DEF Spec

\* However drains of report-distribution.mjs overlap, fail and stop, and
\* whatever bindings become meanwhile: no two work on one event, no leg is
\* tried more than once per attempt at it, what counts as processed has its end
\* on record, what counts as sent got a message that was answered for, and a
\* second message has a lost answer of the provider (postWithTimeout of
\* email.mjs), an error or a crash to answer for it.
THEOREM DistributionSafety == Spec => []DistributionInv
  <1>1. IInv => DistributionInv
    BY DEF IInv, Typed, DistributionInv
  <1> QED
    BY <1>1, Invariance, PTL

-----------------------------------------------------------------------------
\* The refinement of ClaimQueue: what each step does to an event.

\* The status that ClaimQueue knows a row by.
QueueState(x) ==
  CASE status[x] = "processed" -> "done"
    [] status[x] = "failed"    -> "dead"
    [] OTHER                   -> status[x]

QueueStates == [e \in Events |-> QueueState(e)]

\* A step that rewrites one status rewrites one state of the queue.
LEMMA OneMoves ==
  ASSUME IInv, NEW e \in Events, NEW new,
         status' = [status EXCEPT ![e] = new],
         NEW state, state = (CASE new = "processed" -> "done"
                               [] new = "failed"    -> "dead"
                               [] OTHER             -> new)
  PROVE  QueueStates' = [QueueStates EXCEPT ![e] = state]
  <1>1. QueueState(e)' = state
    BY DEF QueueState, IInv, Typed, TypeOK
  <1>2. \A x \in Events : x # e => QueueState(x)' = QueueState(x)
    BY DEF QueueState, IInv, Typed, TypeOK
  <1> QED
    BY <1>1, <1>2 DEF QueueStates
LEMMA Moves ==
  ASSUME IInv, NEW e \in Events, NEW from, NEW to, NEW new,
         UNCHANGED attempts, status' = [status EXCEPT ![e] = new],
         QueueState(e) = from,
         to = (CASE new = "processed" -> "done"
                 [] new = "failed"    -> "dead"
                 [] OTHER             -> new)
  PROVE  Queue!Move(e, from, to)
  BY OneMoves DEF Queue!Move, QueueStates, QueueState

LEMMA SubmittedMoves ==
  ASSUME IInv, NEW e \in Events, Submitted(e)
  PROVE  Queue!Next
  <1>1. Queue!Move(e, "none", "pending")
    BY Moves DEF Submitted, QueueState
  <1> QED
    BY <1>1 DEF Queue!Next

LEMMA ClaimMoves ==
  ASSUME IInv, NEW d \in Drains, NEW e \in Events, Claim(d, e)
  PROVE  Queue!Next \/ UNCHANGED <<status, attempts>>
  <1>1. CASE status[e] = "pending"
    <2>1. Queue!Move(e, "pending", "processing")
      BY <1>1, Moves DEF Claim, QueueState
    <2> QED
      BY <2>1 DEF Queue!Next
  <1>2. CASE status[e] # "pending"
    BY <1>2 DEF Claim, IInv, Typed, TypeOK
  <1> QED
    BY <1>1, <1>2

LEMMA DeferMoves ==
  ASSUME IInv, NEW d \in Drains, NEW e \in Events, Defer(d, e)
  PROVE  Queue!Next
  <1>1. status[e] = "processing"
    BY DEF IInv, HeldIsProcessing, Holding, Defer
  <1>2. Queue!Move(e, "processing", "pending")
    BY <1>1, Moves DEF Defer, QueueState
  <1> QED
    BY <1>2 DEF Queue!Next

LEMMA ResolveMoves ==
  ASSUME IInv, NEW d \in Drains, NEW e \in Events, Resolve(d, e)
  PROVE  Queue!Next \/ UNCHANGED <<status, attempts>>
  <1>1. status[e] = "processing"
    BY DEF IInv, HeldIsProcessing, Holding, Resolve
  <1>2. CASE audience = {}
    <2>1. Queue!Move(e, "processing", "done")
      BY <1>1, <1>2, Moves DEF Resolve, QueueState
    <2> QED
      BY <2>1 DEF Queue!Next
  <1>3. CASE audience # {}
    BY <1>3 DEF Resolve, IInv, Typed, TypeOK
  <1> QED
    BY <1>2, <1>3
\* A failure is counted below the limit, and reaching it is what fails the
\* event.
LEMMA FinalizeMoves ==
  ASSUME IInv, NEW d \in Drains, NEW e \in Events, Finalize(d, e)
  PROVE  Queue!Next
  <1>1. status[e] = "processing" /\ attempts[e] \in Nat /\ attempts[e] < MaxAttempts
    BY DEF Finalize, IInv, HeldIsProcessing, Holding, LimitEnds, Typed, TypeOK
  <1>2. CASE UNCHANGED attempts /\ status' = [status EXCEPT ![e] = "processed"]
    <2>1. Queue!Move(e, "processing", "done")
      BY <1>1, <1>2, Moves DEF QueueState
    <2> QED
      BY <2>1 DEF Queue!Next
  <1>3. CASE /\ attempts' = [attempts EXCEPT ![e] = @ + 1]
             /\ attempts[e] + 1 >= MaxAttempts
             /\ status' = [status EXCEPT ![e] = "failed"]
    <2>1. QueueStates' = [QueueStates EXCEPT ![e] = "dead"]
      BY <1>3, OneMoves
    <2>2. attempts[e] + 1 = MaxAttempts /\ QueueState(e) = "processing"
      BY <1>1, <1>3 DEF QueueState
    <2>3. Queue!Fail(e)
      BY <1>1, <1>3, <2>1, <2>2 DEF Queue!Fail, QueueStates, QueueState
    <2> QED
      BY <2>3 DEF Queue!Next
  <1>4. CASE /\ attempts' = [attempts EXCEPT ![e] = @ + 1]
             /\ attempts[e] + 1 < MaxAttempts
             /\ status' = [status EXCEPT ![e] = "pending"]
    <2>1. QueueStates' = [QueueStates EXCEPT ![e] = "pending"]
      BY <1>4, OneMoves
    <2>2. attempts[e] + 1 # MaxAttempts /\ QueueState(e) = "processing"
      BY <1>1, <1>4 DEF QueueState
    <2>3. Queue!Fail(e)
      BY <1>1, <1>4, <2>1, <2>2 DEF Queue!Fail, QueueStates, QueueState
    <2> QED
      BY <2>3 DEF Queue!Next
  <1> QED
    BY <1>1, <1>2, <1>3, <1>4 DEF Finalize

LEMMA StepMoves ==
  IInv /\ [Next]_vars => [Queue!Next]_<<QueueStates, attempts>>
  <1> SUFFICES ASSUME IInv, [Next]_vars
               PROVE  [Queue!Next]_<<QueueStates, attempts>>
    OBVIOUS
  <1>1. UNCHANGED <<status, attempts>> => UNCHANGED <<QueueStates, attempts>>
    BY DEF QueueStates, QueueState
  <1>2. ASSUME NEW e \in Events, Submitted(e) \/ Elapse(e)
        PROVE  Queue!Next \/ UNCHANGED <<status, attempts>>
    BY <1>2, SubmittedMoves DEF Elapse
  <1>3. ASSUME NEW d \in Drains, DrainStep(d)
        PROVE  Queue!Next \/ UNCHANGED <<status, attempts>>
    <2>1. CASE \E e \in Events : \/ Claim(d, e) \/ Defer(d, e)
                                 \/ Resolve(d, e) \/ Finalize(d, e)
      BY <2>1, ClaimMoves, DeferMoves, ResolveMoves, FinalizeMoves
    <2>2. CASE \/ \E night \in BOOLEAN : Claimed(d, night)
               \/ Attach(d) \/ Sent(d) \/ \E p \in Pairs : RecordLeg(d, p)
      BY <2>2 DEF Claimed, Attach, Sent, RecordLeg, event
    <2>3. CASE \E group, outcome : Send(d, group, outcome)
      BY <2>3 DEF Send, event
    <2> QED
      BY <1>3, <2>1, <2>2, <2>3 DEF DrainStep
  <1>4. ASSUME NEW d \in Drains, Start(d) \/ Throw(d) \/ Stop(d)
        PROVE  UNCHANGED <<status, attempts>>
    BY <1>4 DEF Start, Throw, Stop, event
  <1>5. ASSUME NEW legs \in SUBSET Legs, ChangeAudience(legs)
        PROVE  UNCHANGED <<status, attempts>>
    BY <1>5 DEF ChangeAudience, event
  <1>6. CASE UNCHANGED vars
    BY <1>1, <1>6 DEF vars
  <1> QED
    BY <1>1, <1>2, <1>3, <1>4, <1>5, <1>6 DEF Next

\* report.submitted events are worked off as a queue: whatever overlapping
\* drains of report-distribution.mjs do to one is a move of ClaimQueue.
THEOREM DistributionImplementsQueue == Spec => ImplementsQueue
  <1>1. Init => Queue!Init
    BY DEF Init, Queue!Init
  <1>2. IInv /\ [Next]_vars => [Queue!Next]_<<QueueStates, attempts>>
    BY StepMoves
  <1> QED
    BY <1>1, <1>2, Invariance, PTL DEF Spec, ImplementsQueue, Queue!Spec,
                                       QueueStates, QueueState
=============================================================================
