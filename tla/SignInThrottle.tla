---------------------------- MODULE SignInThrottle ----------------------------
(***************************************************************************)
(* The two limiters of POST /auth/sign-in: http/rate-limit.mjs, a list of  *)
(* times in the memory of each instance, here the set of the failures they *)
(* are the times of, and http/durable-rate-limit.mjs, a row of             *)
(* auth_throttle that all instances share, as the handler of               *)
(* http/auth-routes.mjs calls them.  POST /auth/refresh calls them in the  *)
(* same order, with the hash of the token in the place of the email.       *)
(*                                                                         *)
(* One account and one address: each attempt counts against both.  Every   *)
(* call of the durable limiter may fail, and then blocks nobody.           *)
(***************************************************************************)
EXTENDS Naturals, FiniteSets

CONSTANTS
  Instances,
  Attempts,     \* sign-ins that can be under way together
  Window,       \* windowMs, of both limiters
  EmailMax, IpMax, DurableMax,
  StaleAfter,   \* olderThanMs of the sweep
  MaxRows,      \* rows the sweep leaves
  MaxNow,       \* bound: the clock
  MaxAttempts,  \* bound: sign-ins
  NoRow

ASSUME ThrottleAssumption ==
  /\ {Window, EmailMax, IpMax, DurableMax} \subseteq Nat \ {0}
  /\ {StaleAfter, MaxRows, MaxNow, MaxAttempts} \subseteq Nat
  /\ StaleAfter >= Window
  /\ NoRow \notin Instances \cup [since : Nat, failures : Nat, touched : Nat]
  /\ IsFiniteSet(Attempts)

VARIABLES
  now,
  memory,    \* store of the in-memory limiter: failures, of an instance and a key
  throttle,  \* auth_throttle: a row or NoRow, of a key
  attempt,   \* where a sign-in stands
  begun,
  wrong,     \* history: the rejected attempts, each with its instance and time,
             \*   since the instance (its memory) or the store forgot the key
  raced      \* history: two writers of one row have overlapped

throttleVars == <<now, memory, throttle, attempt, begun, wrong, raced>>

-----------------------------------------------------------------------------
Keys == {"email", "ip"}
MemoryMax(k) == IF k = "email" THEN EmailMax ELSE IpMax
Stores == Instances \cup {NoRow}

\* What an attempt has still to do with the row of each key.
Unread   == [k \in Keys |-> [do |-> "check"]]
AtLeisure == [at |-> "rest"]

\* A failure is [the sign-ins begun by then, the attempt, its time].
Recent(failures) == {w \in failures : w[3] + Window > now}
Expired(row)  == row = NoRow \/ row.since + Window <= now
Blocks(row)   == ~Expired(row) /\ row.failures >= DurableMax

\* check of the in-memory limiter.
MemoryBlocks(i, k) == Cardinality(Recent(memory[i][k])) >= MemoryMax(k)

\* A variant that keeps them all.
RecordedAll(failures, k, new) == Recent(failures) \cup {new}

\* recordFailure of the in-memory limiter keeps the newest max times.
Oldest(failures) == CHOOSE w \in failures : \A o \in failures : w[3] <= o[3]
Recorded(failures, k, new) ==
  LET more == Recent(failures) \cup {new}
  IN IF Cardinality(more) > MemoryMax(k) THEN more \ {Oldest(more)} ELSE more

ThrottleInit ==
  /\ now = 0 /\ begun = 0 /\ raced = FALSE
  /\ memory = [i \in Instances |-> [k \in Keys |-> {}]]
  /\ throttle = [k \in Keys |-> NoRow]
  /\ attempt = [a \in Attempts |-> AtLeisure]
  /\ wrong = [s \in Stores |-> [k \in Keys |-> {}]]

Hour == /\ now < MaxNow /\ now' = now + 1
        /\ UNCHANGED <<memory, throttle, attempt, begun, wrong, raced>>

-----------------------------------------------------------------------------
(* The handler *)

\* The attempts with a write of the row of k ahead of them.
RowWriters(k) ==
  {a \in Attempts : /\ attempt[a].at \in {"recording", "resetting"}
                    /\ attempt[a].todo[k].do \in {"read", "upsert", "delete"}}

Arrive(a, i) ==
  /\ attempt[a].at = "rest" /\ begun < MaxAttempts
  /\ begun' = begun + 1
  /\ attempt' = [attempt EXCEPT ![a] =
       IF \E k \in Keys : MemoryBlocks(i, k) THEN AtLeisure
       ELSE [at |-> "checking", on |-> i, todo |-> Unread]]
  /\ UNCHANGED <<now, memory, throttle, wrong, raced>>

\* One of the two reads of checkDurable; a failing one does not block.
CheckDurable(a, k, heard) ==
  /\ attempt[a].at = "checking" /\ attempt[a].todo[k].do = "check"
  /\ LET done == [attempt[a].todo EXCEPT ![k] =
                    [do |-> IF heard /\ Blocks(throttle[k]) THEN "refuse"
                                                            ELSE "pass"]]
     IN attempt' = [attempt EXCEPT ![a] =
          IF \E q \in Keys : done[q].do = "check"
            THEN [@ EXCEPT !.todo = done]
          ELSE IF \E q \in Keys : done[q].do = "refuse" THEN AtLeisure
          ELSE [@ EXCEPT !.at = "asking"]]
  /\ UNCHANGED <<now, memory, throttle, begun, wrong, raced>>

\* The auth service rejects: both limiters record it, the memory at once.
Rejected(a) ==
  LET i == attempt[a].on
  IN /\ attempt[a].at = "asking"
     /\ memory' = [memory EXCEPT
          ![i] = [k \in Keys |-> Recorded(memory[i][k], k, <<begun, a, now>>)]]
     /\ attempt' = [attempt EXCEPT ![a] =
          [at |-> "recording", on |-> i, time |-> now,
           todo |-> [k \in Keys |-> [do |-> "read"]]]]
     /\ wrong' = [s \in Stores |-> [k \in Keys |->
          IF s \in {i, NoRow} THEN wrong[s][k] \cup {<<begun, a, now>>}
                              ELSE wrong[s][k]]]
     /\ raced' = (raced \/ \E k \in Keys : RowWriters(k) # {})
     /\ UNCHANGED <<now, throttle, begun>>

\* The auth service accepts: the email is forgotten, the address is not.
Accepted(a) ==
  LET i == attempt[a].on
  IN /\ attempt[a].at = "asking"
     /\ memory' = [memory EXCEPT ![i]["email"] = {}]
     /\ attempt' = [attempt EXCEPT ![a] =
          [at |-> "resetting", on |-> i, time |-> now,
           todo |-> [k \in Keys |-> [do |-> IF k = "email" THEN "delete"
                                                           ELSE "done"]]]]
     /\ wrong' = [wrong EXCEPT ![i]["email"] = {}]
     /\ raced' = (raced \/ RowWriters("email") # {})
     /\ UNCHANGED <<now, throttle, begun>>

Finished(a, todo) ==
  attempt' = [attempt EXCEPT ![a] =
    IF \A q \in Keys : todo[q].do = "done" THEN AtLeisure
                                           ELSE [@ EXCEPT !.todo = todo]]

Through(a, k) == Finished(a, [attempt[a].todo EXCEPT ![k] = [do |-> "done"]])

ReadRow(a, k) ==
  /\ attempt[a].at = "recording" /\ attempt[a].todo[k].do = "read"
  /\ Finished(a, [attempt[a].todo EXCEPT
                    ![k] = [do |-> "upsert", row |-> throttle[k]]])
  /\ UNCHANGED <<now, memory, throttle, begun, wrong, raced>>

\* A variant that goes on counting in a new window.
NextRowCarrying(row, time) ==
  IF row = NoRow THEN [since |-> time, failures |-> 1, touched |-> time]
  ELSE [since    |-> IF row.since + Window <= time THEN time ELSE row.since,
        failures |-> row.failures + 1, touched |-> time]

\* The row it read, one failure on, replaces the one that is there.
NextRow(row, time) ==
  IF row = NoRow \/ row.since + Window <= time
    THEN [since |-> time, failures |-> 1, touched |-> time]
    ELSE [row EXCEPT !.failures = @ + 1, !.touched = time]

UpsertRow(a, k) ==
  /\ attempt[a].at = "recording" /\ attempt[a].todo[k].do = "upsert"
  /\ throttle' = [throttle EXCEPT
       ![k] = NextRow(attempt[a].todo[k].row, attempt[a].time)]
  /\ Through(a, k)
  /\ UNCHANGED <<now, memory, begun, wrong, raced>>

DeleteRow(a) ==
  /\ attempt[a].at = "resetting"
  /\ throttle' = [throttle EXCEPT !["email"] = NoRow]
  /\ wrong' = [wrong EXCEPT ![NoRow]["email"] = {}]
  /\ Through(a, "email")
  /\ UNCHANGED <<now, memory, begun, raced>>

\* Any of these calls fails or times out: reported, and otherwise ignored.
StoreFails(a, k) ==
  /\ attempt[a].at \in {"recording", "resetting"}
  /\ attempt[a].todo[k].do # "done"
  /\ Through(a, k)
  /\ UNCHANGED <<now, memory, throttle, begun, wrong, raced>>

-----------------------------------------------------------------------------
(* The sweeps *)

SweepStore(i) ==
  /\ memory' = [memory EXCEPT ![i] = [k \in Keys |-> Recent(memory[i][k])]]
  /\ memory' # memory
  /\ UNCHANGED <<now, throttle, attempt, begun, wrong, raced>>

Stale(row) == row # NoRow /\ row.touched + StaleAfter < now

SweepStale ==
  /\ \E k \in Keys : Stale(throttle[k])
  /\ throttle' = [k \in Keys |-> IF Stale(throttle[k]) THEN NoRow
                                                       ELSE throttle[k]]
  /\ UNCHANGED <<now, memory, attempt, begun, wrong, raced>>

\* Over MaxRows the least recently touched go.
Rows == {k \in Keys : throttle[k] # NoRow}
SweepExcess ==
  /\ Cardinality(Rows) > MaxRows
  /\ \E kept \in SUBSET Rows :
       /\ Cardinality(kept) = MaxRows
       /\ \A k \in kept, q \in Rows \ kept :
            throttle[k].touched >= throttle[q].touched
       /\ throttle' = [k \in Keys |-> IF k \in kept THEN throttle[k] ELSE NoRow]
  /\ UNCHANGED <<now, memory, attempt, begun, wrong, raced>>

ThrottleNext ==
  \/ Hour \/ SweepStale \/ SweepExcess
  \/ \E i \in Instances : SweepStore(i)
  \/ \E a \in Attempts :
       \/ \E i \in Instances : Arrive(a, i)
       \/ Rejected(a) \/ Accepted(a) \/ DeleteRow(a)
       \/ \E k \in Keys : ReadRow(a, k) \/ UpsertRow(a, k) \/ StoreFails(a, k)
       \/ \E k \in Keys, heard \in BOOLEAN : CheckDurable(a, k, heard)

ThrottleSpec == ThrottleInit /\ [][ThrottleNext]_throttleVars

-----------------------------------------------------------------------------
ThrottleTypeOK ==
  /\ now \in 0 .. MaxNow /\ begun \in 0 .. MaxAttempts
  /\ \A i \in Instances, k \in Keys :
       /\ memory[i][k] \subseteq (1 .. MaxAttempts) \X Attempts \X (0 .. MaxNow)
       /\ Cardinality(memory[i][k]) <= MemoryMax(k)
  /\ \A k \in Keys : throttle[k] = NoRow \/
       throttle[k] \in [since : 0 .. MaxNow, failures : 1 .. MaxAttempts,
                        touched : 0 .. MaxNow]
  /\ raced \in BOOLEAN

\* An instance lets no more rejected attempts through in one window than the
\* limit and the attempts that were under way when it was reached.
AtMostTheLimit ==
  \A i \in Instances, k \in Keys :
    Cardinality(Recent(wrong[i][k]))
      < MemoryMax(k) + Cardinality(Attempts)

\* A shared row never counts a failure that did not happen within a window of
\* it, nor one a success has since forgiven, unless two writers overlapped: so
\* nobody is locked out for less than DurableMax failures.
LockoutIsEarned ==
  raced \/ \A k \in Keys : throttle[k] # NoRow =>
    throttle[k].failures <=
      Cardinality({w \in wrong[NoRow][k] : w[3] >= throttle[k].since})

\* Both together: who is refused, and who is not.
ThrottleInv == AtMostTheLimit /\ LockoutIsEarned
=============================================================================
