------------------------------ MODULE ClaimQueue ------------------------------
(***************************************************************************)
(* What a table worked off by overlapping drains promises, whoever the     *)
(* drains are: a row goes from pending to processing and from there to     *)
(* done, back to pending or, with its last attempt, to dead, and nothing   *)
(* else ever happens to it.                                                *)
(***************************************************************************)
EXTENDS Naturals

CONSTANTS Items, MaxAttempts

VARIABLES state, attempts

Init ==
  /\ state    = [x \in Items |-> "none"]
  /\ attempts = [x \in Items |-> 0]

Move(x, from, to) ==
  /\ state[x] = from
  /\ state' = [state EXCEPT ![x] = to]
  /\ UNCHANGED attempts

\* A failed attempt, or one that did finish and was not told so.
Fail(x) ==
  /\ state[x] \in {"processing", "done"}
  /\ attempts[x] < MaxAttempts
  /\ attempts' = [attempts EXCEPT ![x] = @ + 1]
  /\ state'    = [state EXCEPT ![x] = IF attempts[x] + 1 = MaxAttempts
                                      THEN "dead" ELSE "pending"]

Next ==
  \E x \in Items :
    \/ Move(x, "none", "pending")       \* insert
    \/ Move(x, "pending", "processing") \* claim
    \/ Move(x, "processing", "pending") \* put back, not counted
    \/ Move(x, "processing", "done")
    \/ Fail(x)

Spec == Init /\ [][Next]_<<state, attempts>>
=============================================================================
