--------------------------- MODULE FacilityOperations ---------------------------
(***************************************************************************)
(* The route modules of a facility's daily work: scheduling, incidents,    *)
(* witness statements, work orders, communications and training, and the   *)
(* client's panels of the schedule and of the messages.  Each keeps tables *)
(* of its own, and no handler of one writes a table of another, so what    *)
(* holds of a component whichever way the others move is what holds of it  *)
(* alone: an initial choice, focus, says which component moves, instead of *)
(* the product of their states.                                            *)
(***************************************************************************)
EXTENDS Scheduling, Incidents, WitnessStatements, WorkOrders, Communications,
        Training, ScheduleBoard, MessageBoard

VARIABLE focus   \* the component whose requests are followed

operationsVars == <<focus, schedulingVars, incidentsVars, witnessVars,
                    workOrderVars, commVars, trainingVars, boardVars,
                    messageBoardVars>>

\* Where a component may start in several ways, one will do for those that stay;
\* which facility a panel begins with is all the same.
OperationsInit ==
  /\ focus \in {"scheduling", "incidents", "witnesses", "work orders",
                "communications", "training", "schedule board",
                "message board"}
  /\ focus # "scheduling" => certified = {} /\ rules =
       [conflicts |-> FALSE, approval |-> FALSE, hardBlock |-> FALSE]
  /\ focus # "incidents" => number = [i \in Incidents |-> 0]
  /\ focus # "communications" => staff = [g \in Groups \cup ShiftCrews |-> {}]
  /\ rink = CHOOSE f \in Rinks : TRUE
  /\ focus # "schedule board" => onFile = {} /\ board = Board(rink, 1)
  /\ site = CHOOSE f \in Sites : TRUE
  /\ SchedulingInit /\ IncidentsInit /\ WitnessInit
  /\ WorkOrdersInit /\ CommunicationsInit /\ TrainingInit
  /\ ScheduleBoardInit /\ MessageBoardInit
  /\ focus # "message board" => messageRows[1].site = site

\* A component moves, or nothing of it does.
Moves(component, step, vars) == IF focus = component THEN step ELSE UNCHANGED vars

OperationsNext ==
  /\ UNCHANGED focus
  /\ Moves("scheduling", SchedulingNext, schedulingVars)
  /\ Moves("incidents", IncidentsNext, incidentsVars)
  /\ Moves("witnesses", WitnessNext, witnessVars)
  /\ Moves("work orders", WorkOrdersNext, workOrderVars)
  /\ Moves("communications", CommunicationsNext, commVars)
  /\ Moves("training", TrainingNext, trainingVars)
  /\ Moves("schedule board", ScheduleBoardNext, boardVars)
  /\ Moves("message board", MessageBoardNext, messageBoardVars)

OperationsSpec == OperationsInit /\ [][OperationsNext]_operationsVars

-----------------------------------------------------------------------------
OperationsTypeOK ==
  CASE focus = "scheduling"     -> SchedulingTypeOK
    [] focus = "incidents"      -> IncidentsTypeOK
    [] focus = "witnesses"      -> WitnessTypeOK
    [] focus = "work orders"    -> WorkOrdersTypeOK
    [] focus = "communications" -> CommunicationsTypeOK
    [] focus = "training"       -> TrainingTypeOK
    [] focus = "schedule board" -> ScheduleBoardTypeOK
    [] focus = "message board"  -> MessageBoardTypeOK

\* What BoardInv and MessageBoardInv say of the two panels.
BoardsInv == BoardInv /\ MessageBoardInv
=============================================================================
