----------------------------- MODULE ScheduleBoard -----------------------------
(***************************************************************************)
(* The schedule board of the client's app.js: the week that is picked, the *)
(* period of it, and the buttons that fill, validate and publish it.       *)
(*                                                                         *)
(* A period is a facility and a week.  The state is written by many        *)
(* answers and drawn by render(), so that what is on the screen is a       *)
(* variable of its own.  Shifts, assignments and the readiness that was    *)
(* computed are known by their period.                                     *)
(***************************************************************************)
EXTENDS Naturals, FiniteSets

CONSTANTS
  Rinks,          \* facilities
  Weeks,
  MaxBoardCalls,  \* bound: calls
  NoPeriod,
  NoBoard         \* nothing is drawn, and there is no button to press

ASSUME ScheduleBoardAssumption ==
  /\ MaxBoardCalls \in Nat /\ NoPeriod # NoBoard
  /\ {NoPeriod, NoBoard} \cap (Rinks \X Weeks) = {}

VARIABLES
  rink,       \* currentFacility
  onFile,     \* schedule_periods: the periods there are
  published,  \* of those, the ones that are published
  board,      \* the panel's state
  screen,     \* the period that is drawn
  called,     \* calls that are not answered yet
  boardCalls, \* calls made
  hasty       \* history: somebody did not wait, see BoardInv

boardVars == <<rink, onFile, published, board, screen, called, boardCalls, hasty>>

-----------------------------------------------------------------------------
PeriodIds == Rinks \X Weeks
OnFile(f) == {p \in onFile : p[1] = f}

\* A board at rest: a facility's periods have come, and this week's shifts.
Board(f, week) ==
  LET p == <<f, week>>
  IN  [week |-> week, periods |-> OnFile(f), busy |-> FALSE, ready |-> NoPeriod,
       period |-> IF p \in onFile THEN p ELSE NoPeriod, shifts |-> {p} \cap onFile]

ScheduleBoardInit ==
  /\ rink \in Rinks /\ onFile \in SUBSET PeriodIds /\ published = {}
  /\ \E week \in Weeks : board = Board(rink, week)
  /\ screen = board.period /\ called = {} /\ boardCalls = 0 /\ hasty = FALSE

\* What a call names, and what was on the screen.
BoardAsks(rest, kind, of) ==
  /\ boardCalls < MaxBoardCalls /\ boardCalls' = boardCalls + 1
  /\ called' = rest \cup {[id |-> boardCalls + 1, kind |-> kind, of |-> of, seen |-> screen]}
BoardDrops(rest) == called' = rest /\ UNCHANGED boardCalls

\* render() draws the state there is.
DrawBoard(b) == board' = b /\ screen' = b.period
KeepScreen(b) == board' = b /\ UNCHANGED screen

\* A variant that leaves the readiness of the last period.
ReloadWeekReady(b, rest) ==
  LET found == {p \in b.periods : p[2] = b.week}
  IN  IF found = {}
        THEN DrawBoard([b EXCEPT !.period = NoPeriod, !.shifts = {}]) /\ BoardDrops(rest)
        ELSE \E p \in found : /\ KeepScreen([b EXCEPT !.period = p])
                              /\ BoardAsks(rest, "board", p)

\* A period is looked up in the periods that came; what is drawn stays until
\* its shifts come.
ReloadWeek(b, rest) ==
  LET found == {p \in b.periods : p[2] = b.week}
      next  == [b EXCEPT !.ready = NoPeriod]
  IN  IF found = {}
        THEN DrawBoard([next EXCEPT !.period = NoPeriod, !.shifts = {}]) /\ BoardDrops(rest)
        ELSE \E p \in found : /\ KeepScreen([next EXCEPT !.period = p])
                              /\ BoardAsks(rest, "board", p)

Hasty(condition) == hasty' = (hasty \/ condition)

-----------------------------------------------------------------------------
\* reset keeps the period, the shifts and the week; the host is emptied.
SelectRink(f) ==
  /\ f # rink /\ rink' = f
  /\ board' = [board EXCEPT !.ready = NoPeriod] /\ screen' = NoBoard
  /\ BoardAsks(called, "periods", f) /\ Hasty(called # {})
  /\ UNCHANGED <<onFile, published>>

PeriodsCame(c) ==
  /\ c.kind = "periods"
  /\ \/ ReloadWeek([board EXCEPT !.periods = OnFile(c.of)], called \ {c})
     \/ board' = board /\ screen' = NoBoard /\ BoardDrops(called \ {c})
  /\ UNCHANGED <<rink, onFile, published, hasty>>

BoardCame(c) ==
  /\ c.kind = "board" /\ BoardDrops(called \ {c})
  /\ \E shifts \in {{c.of}, {}} : DrawBoard([board EXCEPT !.shifts = shifts])
  /\ UNCHANGED <<rink, onFile, published, hasty>>

ChangeWeek(week) ==
  /\ screen # NoBoard /\ week # board.week
  /\ ReloadWeek([board EXCEPT !.week = week], called) /\ Hasty(called # {})
  /\ UNCHANGED <<rink, onFile, published>>

MakePeriod ==
  /\ screen = NoPeriod /\ ~board.busy
  /\ DrawBoard([board EXCEPT !.busy = TRUE]) /\ BoardAsks(called, "create", <<rink, board.week>>)
  /\ Hasty(called # {}) /\ UNCHANGED <<rink, onFile, published>>

\* The period is one of the periods of whichever facility is open by then.
PeriodCreated(c) ==
  /\ c.kind = "create" /\ UNCHANGED <<rink, published, hasty>>
  /\ LET b == [board EXCEPT !.busy = FALSE]
     IN  \/ /\ c.of \notin onFile /\ onFile' = onFile \cup {c.of}
            /\ ReloadWeek([b EXCEPT !.periods = @ \cup {c.of}], called \ {c})
         \/ UNCHANGED onFile /\ DrawBoard(b) /\ BoardDrops(called \ {c})

\* A button of the board is pressed: it acts on the period of the state.
Press(kind) ==
  /\ screen \in PeriodIds /\ board.period # NoPeriod
  /\ BoardAsks(called, kind, board.period) /\ Hasty(called # {})
  /\ UNCHANGED <<rink, onFile, published, board, screen>>

\* The form of a new shift is opened or closed.
ToggleCreateShift ==
  /\ screen \in PeriodIds /\ DrawBoard(board)
  /\ UNCHANGED <<rink, onFile, published, called, boardCalls, hasty>>

GenerateFromTemplates == Press("generate")
CreateShift           == Press("shift")
RunValidate           == Press("validate")
RunPublish            == Press("publish")

\* What was generated or created joins the shifts there are.
ShiftsCame(c) ==
  /\ c.kind \in {"generate", "shift"} /\ BoardDrops(called \ {c})
  /\ DrawBoard([board EXCEPT !.shifts = @ \cup {c.of}]) \/ DrawBoard(board)
  /\ UNCHANGED <<rink, onFile, published, hasty>>

ReadinessCame(c) ==
  /\ c.kind = "validate" /\ BoardDrops(called \ {c})
  /\ DrawBoard([board EXCEPT !.ready = c.of]) \/ DrawBoard(board)
  /\ UNCHANGED <<rink, onFile, published, hasty>>

\* The period that was published takes the place of the one of the state; one
\* that is blocked comes with its readiness.
Published(c) ==
  /\ c.kind = "publish" /\ BoardDrops(called \ {c})
  /\ \/ published' = published \cup {c.of} /\ DrawBoard([board EXCEPT !.period = c.of])
     \/ UNCHANGED published /\ DrawBoard([board EXCEPT !.ready = c.of])
     \/ UNCHANGED published /\ DrawBoard(board)
  /\ UNCHANGED <<rink, onFile, hasty>>

\* Somebody is assigned to a shift that is drawn, or is taken from it.
AssignShift ==
  /\ board.shifts # {} /\ screen \in PeriodIds
  /\ \E p \in board.shifts : BoardAsks(called, "assign", p)
  /\ UNCHANGED <<rink, onFile, published, board, screen, hasty>>

Assigned(c) ==
  /\ c.kind = "assign" /\ BoardDrops(called \ {c}) /\ DrawBoard(board)
  /\ UNCHANGED <<rink, onFile, published, hasty>>

ScheduleBoardNext ==
  \/ \E f \in Rinks : SelectRink(f)
  \/ \E week \in Weeks : ChangeWeek(week)
  \/ MakePeriod \/ GenerateFromTemplates \/ CreateShift \/ RunValidate
  \/ RunPublish \/ AssignShift \/ ToggleCreateShift
  \/ \E c \in called : \/ PeriodsCame(c) \/ BoardCame(c) \/ PeriodCreated(c)
                       \/ ShiftsCame(c) \/ ReadinessCame(c) \/ Published(c)
                       \/ Assigned(c)

ScheduleBoardSpec == ScheduleBoardInit /\ [][ScheduleBoardNext]_boardVars

-----------------------------------------------------------------------------
ScheduleBoardTypeOK ==
  /\ rink \in Rinks /\ published \subseteq onFile /\ onFile \subseteq PeriodIds
  /\ board.week \in Weeks /\ board.shifts \subseteq onFile
  /\ {board.period, board.ready, screen} \subseteq onFile \cup {NoPeriod, NoBoard}

\* A period is published, filled and validated by who sees it.
PublishesShown ==
  \A c \in called : c.kind \in {"generate", "shift", "validate", "publish"} =>
    c.of = c.seen

\* When every answer has come, the period is that of the week and facility
\* selected, and it is drawn with its own shifts and readiness.
BoardSettles ==
  called = {} /\ screen \in PeriodIds =>
    /\ screen = board.period /\ board.period = <<rink, board.week>>
    /\ board.shifts \subseteq {screen} /\ board.ready \in {screen, NoPeriod}

\* The board shows, publishes and fills one period, that of the week picked,
\* unless somebody picked another or pressed a button before the answers came.
BoardInv == hasty \/ (PublishesShown /\ BoardSettles)
=============================================================================
