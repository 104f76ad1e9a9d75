------------------------------ MODULE WorkOrders ------------------------------
(***************************************************************************)
(* http/work-orders-routes.mjs and work-orders.mjs: the work orders of a   *)
(* facility, the history rows (work_order_updates) of their changes, and   *)
(* the list and the dashboard of overdue ones.                             *)
(*                                                                         *)
(* A PATCH reads the work order, decides on that read, updates the row by  *)
(* id and then inserts one history row per changed field, all of them in   *)
(* one insert.  A due date is a number of ticks of the clock.              *)
(***************************************************************************)
EXTENDS Integers, Sequences, FiniteSets, SequencesExt

CONSTANTS
  Crew,           \* requests that can overlap
  Orders,         \* identifiers a work_orders row can get
  Workers,        \* employees of this facility
  Strangers,      \* employees of another one
  SlaUrgent,      \* workOrders.slaHoursUrgent
  SlaRoutine,     \* workOrders.slaHoursRoutine
  MaxOrderCalls,  \* bound: requests that write
  MaxClock,       \* bound: ticks
  NoOrder, Nobody

ASSUME WorkOrdersAssumption ==
  /\ SlaUrgent \in Nat /\ SlaRoutine \in Nat
  /\ MaxOrderCalls \in Nat /\ MaxClock \in Nat \ {0}
  /\ Nobody \notin Workers \cup Strangers

VARIABLES
  orders,      \* work_orders: status, completed_at, priority, assignee, due_at
  created,     \* history: the row as it was inserted
  updates,     \* work_order_updates: a sequence of changes of one field
  crew,        \* what a PATCH has read or has to record
  orderCalls,
  crowded,     \* history: two PATCHes were under way together
  unrecorded,  \* history: a PATCH ended between its update and its history
  clock

workOrderVars ==
  <<orders, created, updates, crew, orderCalls, crowded, unrecorded, clock>>

-----------------------------------------------------------------------------
Statuses   == {"open", "in_progress", "on_hold", "resolved", "closed",
               "cancelled"}
OpenOnes   == {"open", "in_progress", "on_hold"}
Completing == Statuses \ OpenOnes
Priorities == {"low", "medium", "high", "urgent"}
Severities == {"minor", "high", "critical"}

OrderRows ==
  [status : Statuses, completed : Int, priority : Priorities,
   assignee : Workers \cup {Nobody}, due : Int]

ASSUME NoOrderAssumption == NoOrder \notin OrderRows

OffDuty == [at |-> "off"]

CanTransition(from, to) ==
  <<from, to>> \in
    {<<"open", "in_progress">>, <<"open", "on_hold">>, <<"open", "cancelled">>,
     <<"in_progress", "on_hold">>, <<"in_progress", "resolved">>,
     <<"in_progress", "cancelled">>, <<"on_hold", "in_progress">>,
     <<"on_hold", "cancelled">>, <<"resolved", "in_progress">>,
     <<"resolved", "closed">>}

SlaHours(priority) ==
  IF priority \in {"high", "urgent"} THEN SlaUrgent ELSE SlaRoutine

\* completed_at is stamped on entering a completing status, cleared by any
\* other change of status.
ApplyStatusChange(order, to) ==
  [order EXCEPT !.status = to,
                !.completed = IF to \in Completing THEN clock ELSE -1]

WorkOrdersInit ==
  /\ orders  = [w \in Orders |-> NoOrder]
  /\ created = [w \in Orders |-> NoOrder]
  /\ updates = [w \in Orders |-> <<>>]
  /\ crew    = [c \in Crew |-> OffDuty]
  /\ orderCalls = 0 /\ crowded = FALSE /\ unrecorded = FALSE /\ clock = 0

-----------------------------------------------------------------------------
InsertOrder(w, row) ==
  /\ orders[w] = NoOrder /\ orderCalls < MaxOrderCalls
  /\ orderCalls' = orderCalls + 1
  /\ orders'  = [orders EXCEPT ![w] = row]
  /\ created' = [created EXCEPT ![w] = row]
  /\ UNCHANGED <<updates, crew, crowded, unrecorded, clock>>

\* POST facilities/:facilityId/work-orders.  due_at is the caller's, or null.
CreateOrder(w, priority, assignee, due) ==
  /\ assignee \notin Strangers
  /\ InsertOrder(w, [status |-> "open", completed |-> -1, priority |-> priority,
                     assignee |-> assignee, due |-> due])

\* POST incidents/:id/work-orders.  Nothing ties an incident to one order.
CreateFromIncident(w, severity, assignee) ==
  LET priority == CASE severity = "critical" -> "urgent"
                    [] severity = "high"     -> "high"
                    [] OTHER                 -> "medium"
  IN /\ assignee \notin Strangers
     /\ InsertOrder(w, [status |-> "open", completed |-> -1,
                        priority |-> priority, assignee |-> assignee,
                        due |-> clock + SlaHours(priority)])

\* PATCH work-orders/:id with any of the three fields, "same" for one that is
\* absent from the body.
PatchLoad(c, w, status, priority, assignee) ==
  /\ crew[c] = OffDuty /\ orderCalls < MaxOrderCalls
  /\ orders[w] # NoOrder
  /\ <<status, priority, assignee>> # <<"same", "same", "same">>
  /\ assignee \notin Strangers
  /\ status # "same" => CanTransition(orders[w].status, status)
  /\ orderCalls' = orderCalls + 1
  /\ crowded' = (crowded \/ \E other \in Crew \ {c} : crew[other] # OffDuty)
  /\ crew' = [crew EXCEPT ![c] =
       [at |-> "update", order |-> w, read |-> orders[w], status |-> status,
        priority |-> priority, assignee |-> assignee]]
  /\ UNCHANGED <<orders, created, updates, unrecorded, clock>>

\* The history row of a field the body changes from what was read, if it does.
Change(p, field) ==
  IF p[field] \in {"same", p.read[field]} THEN <<>>
  ELSE <<[field |-> field, from |-> p.read[field], to |-> p[field]]>>

\* A variant that leaves the priority out.
ChangesRecorded(p) == Change(p, "status") \o Change(p, "assignee")

Changes(p) == Change(p, "status") \o Change(p, "assignee") \o Change(p, "priority")

\* A field of the body that differs from what was read is written.
Patched(order, p) ==
  LET moved == IF p.status = "same" THEN order
               ELSE ApplyStatusChange(order, p.status)
      new(f) == p[f] \notin {"same", p.read[f]}
  IN [moved EXCEPT !.assignee = IF new("assignee") THEN p.assignee ELSE @,
                   !.priority = IF new("priority") THEN p.priority ELSE @]

PatchWrite(c) ==
  /\ crew[c].at = "update"
  /\ orders' = [orders EXCEPT ![crew[c].order] = Patched(@, crew[c])]
  /\ crew' = [crew EXCEPT ![c] =
       IF Changes(crew[c]) = <<>> THEN OffDuty
       ELSE [at |-> "record", order |-> crew[c].order,
             changes |-> Changes(crew[c])]]
  /\ UNCHANGED <<created, updates, orderCalls, crowded, unrecorded, clock>>

PatchHistory(c) ==
  /\ crew[c].at = "record"
  /\ updates' = [updates EXCEPT ![crew[c].order] = @ \o crew[c].changes]
  /\ crew' = [crew EXCEPT ![c] = OffDuty]
  /\ UNCHANGED <<orders, created, orderCalls, crowded, unrecorded, clock>>

\* A call fails or the function is cut off.
PatchDrop(c) ==
  /\ crew[c] # OffDuty
  /\ crew' = [crew EXCEPT ![c] = OffDuty]
  /\ unrecorded' = (unrecorded \/ crew[c].at = "record")
  /\ UNCHANGED <<orders, created, updates, orderCalls, crowded, clock>>

Tick ==
  /\ clock < MaxClock
  /\ clock' = clock + 1
  /\ UNCHANGED <<orders, created, updates, crew, orderCalls, crowded,
                 unrecorded>>

WorkOrdersNext ==
  \/ \E w \in Orders, assignee \in Workers \cup Strangers \cup {Nobody} :
       \/ \E priority \in {"low", "urgent"}, due \in {-1, 1} :
            CreateOrder(w, priority, assignee, due)
       \/ \E severity \in Severities : CreateFromIncident(w, severity, assignee)
  \/ \E c \in Crew :
       \/ \E w \in Orders, status \in Statuses \cup {"same"},
             priority \in {"low", "urgent", "same"},
             assignee \in Workers \cup Strangers \cup {Nobody, "same"} :
            PatchLoad(c, w, status, priority, assignee)
       \/ PatchWrite(c) \/ PatchHistory(c) \/ PatchDrop(c)
  \/ Tick

WorkOrdersSpec == WorkOrdersInit /\ [][WorkOrdersNext]_workOrderVars

-----------------------------------------------------------------------------
\* GET facilities/:facilityId/work-orders with ?status= and ?overdue=true; a
\* due_at of null is less than nothing.
Listed(status, overdue) ==
  LET wanted == IF status # "any" THEN {status}
                ELSE IF overdue THEN OpenOnes ELSE Statuses
  IN {w \in Orders :
        /\ orders[w] # NoOrder
        /\ orders[w].status \in wanted
        /\ overdue => orders[w].due # -1 /\ orders[w].due < clock}

IsOverdue(w) ==
  /\ orders[w] # NoOrder
  /\ orders[w].status \in OpenOnes
  /\ orders[w].due # -1 /\ orders[w].due < clock

Rank(priority) ==
  CASE priority = "low" -> 1 [] priority = "medium" -> 2
    [] priority = "high" -> 3 [] priority = "urgent" -> 4

\* sortWorkOrdersForDashboard, less the last key, the time of creation: which of
\* those alike in both keys comes first is left open.
Precedes(v, w) ==
  IF IsOverdue(v) # IsOverdue(w) THEN IsOverdue(v)
  ELSE Rank(orders[v].priority) > Rank(orders[w].priority)

Dashboards(shown) ==
  {rows \in SetToSeqs(shown) :
     \A i, j \in DOMAIN rows : i < j => ~Precedes(rows[j], rows[i])}

-----------------------------------------------------------------------------
WorkOrdersTypeOK ==
  /\ \A w \in Orders : orders[w] # NoOrder =>
       orders[w] \in [status : Statuses, completed : -1 .. MaxClock,
                      priority : Priorities, assignee : Workers \cup {Nobody},
                      due : -1 .. (MaxClock + SlaUrgent + SlaRoutine)]
  /\ \A w \in Orders : (orders[w] = NoOrder) = (created[w] = NoOrder)
  /\ orderCalls \in 0 .. MaxOrderCalls /\ clock \in 0 .. MaxClock
  /\ crowded \in BOOLEAN /\ unrecorded \in BOOLEAN

\* What a history says of a field of the row it began with, before its i-th row.
Tells(rows, first, field, i, value) ==
  \/ /\ \A k \in 1 .. i - 1 : rows[k].field # field
     /\ value = first[field]
  \/ \E j \in 1 .. i - 1 :
       /\ rows[j].field = field /\ value = rows[j].to
       /\ \A k \in j + 1 .. i - 1 : rows[k].field # field

\* As long as PATCHes do not overlap and none is cut off between its two
\* writes, the history of a work order leads from the row that was inserted to
\* the row that is there, field by field and without a jump.
HistoryExplainsOrder ==
  crowded \/ unrecorded \/
    \A w \in Orders : orders[w] # NoOrder =>
      /\ \A i \in DOMAIN updates[w] :
           Tells(updates[w], created[w], updates[w][i].field, i, updates[w][i].from)
      /\ \/ \E c \in Crew : crew[c].at = "record" /\ crew[c].order = w
         \/ \A field \in {"status", "assignee", "priority"} :
              Tells(updates[w], created[w], field, Len(updates[w]) + 1, orders[w][field])

\* The list with ?overdue=true is the set the dashboard counts as overdue,
\* with ?status= as well its part of that status (none of a completed one,
\* whose due date the filter still compares), and the dashboard puts every
\* overdue order before the others.
OverdueListed ==
  /\ Listed("any", TRUE) = {w \in Orders : IsOverdue(w)}
  /\ \A status \in OpenOnes :
       Listed(status, TRUE) = {w \in Listed(status, FALSE) : IsOverdue(w)}
  /\ \A rows \in Dashboards(Listed("any", FALSE)) : \A i, j \in DOMAIN rows :
       IsOverdue(rows[i]) /\ ~IsOverdue(rows[j]) => i < j

\* Both together: what is recorded and what is listed agree with the rows.
WorkOrdersInv == HistoryExplainsOrder /\ OverdueListed
=============================================================================
