--------------------------- MODULE PracticeBoard ---------------------------
(***************************************************************************)
(* The page from which a coach plans and runs a practice,                  *)
(* app/(dashboard)/devices/[deviceId]/practice-board/page.tsx.             *)
(*                                                                         *)
(* The page holds the plan that is being edited and the board that was     *)
(* last sent or loaded.  dispatchBoard shows a new board at once, sends it *)
(* and puts the board of its closure back when the command fails.  A       *)
(* weather report or a logo is awaited first, and the board that is then   *)
(* sent is built from the plan and the board at the moment of the press.   *)
(* Boards can be saved under the account and applied later.                *)
(*                                                                         *)
(* A command is stored for the display or refused; there is one clock for  *)
(* browser and display.  Title and assignments of a period are the number  *)
(* of its assignments.                                                     *)
(***************************************************************************)
EXTENDS PracticeSchedule, FiniteSetsExt

CONSTANTS
  StartBoards,       \* what the display may hold when the page is opened
  MaxDrillsPerUnit,  \* MAX_DRILLS_PER_UNIT
  MaxAssignments,    \* MAX_ASSIGNMENTS
  MaxLength,         \* bound on the length of a period
  PreloadIds,        \* what saved boards are called
  MaxActs, MaxFailures, MaxTime, MaxDrillIds, MaxLookups   \* bounds of a run

ASSUME PracticeAssumption ==
  /\ {MaxDrillsPerUnit, MaxAssignments, MaxLength} \subseteq Nat
  /\ {MaxActs, MaxFailures, MaxTime, MaxDrillIds, MaxLookups} \subseteq Nat /\ MaxTime >= 1

VARIABLES
  now,        \* the time, in pages of the schedule
  plan,       \* drills, as they are being edited
  unit,       \* activeUnit, the tab that is open
  board,      \* the board of the page
  dirty,      \* "Unsaved changes"
  sending,    \* the buttons that send are disabled
  boardCalls, \* set_mode commands under way
  lookups,    \* weather reports and uploads under way, with what their closures hold
  display,    \* the board that the server has stored for the display
  preloads,   \* the saved boards of the account
  listed,     \* and the list of them that the page shows
  chosen,     \* activePreloadId
  keeping,    \* a request to save a preload, or none
  removing,   \* preloadActionId of a deletion, with the choice its closure holds
  acts, failures, drillIds,
  misled      \* history: page and display have not agreed since a load without
              \* a send, an edit during a send, a failure, or sends that crossed

planVars == <<plan, unit>>
sendVars == <<boardCalls, sending>>
preloadVars == <<preloads, listed, keeping, removing>>
boundVars == <<failures, drillIds>>
practiceVars == <<now, planVars, board, dirty, sendVars, lookups, display, preloadVars,
                  chosen, acts, boundVars, misled>>

-----------------------------------------------------------------------------
(* Data.                                                                   *)

Statuses == {"idle", "running", "paused", "complete"}
Drills == [id : 1..MaxDrillIds, unit : Units, length : 0..MaxLength, entries : 0..MaxAssignments]
NoPreload == "none"
NotKeeping == [id |-> NoPreload]
NotRemoving == [id |-> NoPreload, chosen |-> NoPreload]

IdsOf(drills) == {drills[i].id : i \in DOMAIN drills}
DrillOf(drills, id) == drills[CHOOSE i \in DOMAIN drills : drills[i].id = id]

\* serializeDrills, and the order that normalizeBoard brings drills into.
Serialized(drills) ==
  LET few(u) == SubSeq(OfUnit(drills, u), 1, AtMost(MaxDrillsPerUnit, Len(OfUnit(drills, u))))
  IN few("offense") \o few("defense")

\* normalizeBoard.
NormalizeBoard(b) ==
  LET drills == Serialized(b.drills)
  IN [b EXCEPT !.drills = drills, !.active = IF @ \in IdsOf(drills) THEN @ ELSE NoDrill]

\* Mutant: the rest of the period is counted anew from its full length.
SnapshotBoardAnew(b) ==
  [b EXCEPT !.startedAt = IF b.status # "running" THEN NoTime ELSE IF @ > now THEN @ ELSE now]

\* snapshotBoard: what is left is counted from now on.
SnapshotBoard(b) ==
  LET left == Remaining(b, now)
  IN [b EXCEPT !.left = left,
               !.startedAt = IF b.status # "running" \/ left = 0 THEN NoTime
                             ELSE IF @ > now THEN @ ELSE now]

\* boardWithCurrentDrills, of the plan and the board that a closure holds.
BoardWith(drills, b) ==
  LET base == [SnapshotBoard(b) EXCEPT !.drills = Serialized(drills)]
  IN IF b.active \in IdsOf(base.drills) THEN base
     ELSE [base EXCEPT !.active = NoDrill, !.status = "idle", !.left = 0, !.startedAt = NoTime]

CurrentBoard == BoardWith(plan, board)

PracticeBoards == [drills : Seq(Drills), active : 0..MaxDrillIds, status : Statuses, left : Nat,
           startedAt : Nat, overviewUntil : Nat, weather : BOOLEAN, logo : BOOLEAN]

\* What a page sends, and hence what a display holds: the periods in their
\* order, one of them active or the board idle, and a time since which the
\* period runs, if it runs and has time left.
Sound(b) ==
  /\ b \in PracticeBoards /\ Serialized(b.drills) = b.drills
  /\ b.active \in IdsOf(b.drills) \/ (b.active = NoDrill /\ b.status = "idle")
  /\ b.startedAt # NoTime <=> b.status = "running" /\ b.left > 0

ASSUME StartAssumption == \A b \in StartBoards : Sound(b)

\* Whether two boards say the same of the period that is on.
SamePeriod(b, c) ==
  /\ b.active = c.active /\ b.status = c.status
  /\ Remaining(b, now) = Remaining(c, now)
  /\ AtLeastZero(b.startedAt - now) = AtLeastZero(c.startedAt - now)

-----------------------------------------------------------------------------
(* What the page derives from them.                                        *)

HasActiveDrill == board.active \in IdsOf(plan)
TimeLeft == Remaining(board, now)
IsActivelyRunning == board.status = "running" /\ TimeLeft > 0
UnitDrills == OfUnit(plan, unit)
ControlDrills == IF HasActiveDrill THEN OfUnit(plan, DrillOf(plan, board.active).unit) ELSE UnitDrills
ActiveUnitIndex == IF HasActiveDrill
                   THEN CHOOSE i \in DOMAIN ControlDrills : ControlDrills[i].id = board.active ELSE 0

-----------------------------------------------------------------------------
(* Sending.                                                                *)

InStep == boardCalls = {} /\ SamePeriod(board, display)

\* dispatchBoard.  "fresh" remembers that the board the command was built
\* from agreed with the display and that nothing has been stored since.
Dispatch(kind, b, back, fresh) ==
  LET sent == SnapshotBoard(b)
      call == [id |-> 1 + Max({0} \cup {c.id : c \in boardCalls}), kind |-> kind, board |-> sent,
               back |-> back, stage |-> "sent", fresh |-> fresh]
  IN /\ board' = sent /\ sending' = TRUE
     /\ boardCalls' = boardCalls \cup {call}
     /\ misled' = (misled \/ boardCalls # {} \/ b.drills # Serialized(plan'))

Act == acts < MaxActs /\ acts' = acts + 1

\* A press that sends a board built from what the page holds.
Send(kind, b) ==
  /\ ~sending /\ Act
  /\ UNCHANGED <<now, planVars, dirty, lookups, display, preloadVars, chosen, boundVars>>
  /\ Dispatch(kind, b, board, InStep)

SaveBoard ==
  Send("save", IF CurrentBoard.status = "idle" /\ CurrentBoard.active # NoDrill
               THEN [CurrentBoard EXCEPT !.left = DrillOf(CurrentBoard.drills, CurrentBoard.active).length]
               ELSE CurrentBoard)

PreviewSchedule ==
  plan # <<>> /\ Send("preview", [CurrentBoard EXCEPT !.overviewUntil = now + PageCount(Serialized(plan))])

RemoveSchoolLogo ==
  board.logo /\ (\A l \in lookups : l.kind # "logo") /\ Send("logo", [CurrentBoard EXCEPT !.logo = FALSE])

-----------------------------------------------------------------------------
(* Running the practice.                                                   *)

\* startDrill: with the overview the period starts when the overview ends.
StartDrill(id, showOverview) ==
  LET starts == now + (IF showOverview THEN PageCount(Serialized(plan)) ELSE 0)
  IN /\ id \in IdsOf(Serialized(plan)) /\ DrillOf(plan, id).length > 0
     /\ Send("timer", [CurrentBoard EXCEPT
                         !.active = id, !.status = "running", !.left = DrillOf(plan, id).length,
                         !.startedAt = starts, !.overviewUntil = IF showOverview THEN starts ELSE NoTime])

RunDrill == \E i \in DOMAIN plan : plan[i].unit = unit /\ StartDrill(plan[i].id, TRUE)

RestartDrill == HasActiveDrill /\ StartDrill(board.active, FALSE)

ResumeDrill ==
  /\ ~IsActivelyRunning /\ HasActiveDrill /\ TimeLeft > 0
  /\ Send("timer", [CurrentBoard EXCEPT !.status = "running", !.left = TimeLeft,
                                        !.startedAt = now, !.overviewUntil = NoTime])

StopDrill ==
  /\ IsActivelyRunning /\ HasActiveDrill
  /\ Send("timer", [CurrentBoard EXCEPT !.status = "paused", !.left = TimeLeft,
                                        !.startedAt = NoTime, !.overviewUntil = NoTime])

CompletePractice ==
  Send("timer", [CurrentBoard EXCEPT !.status = "complete", !.left = 0, !.startedAt = NoTime,
                                     !.overviewUntil = now + PageCount(Serialized(plan))])

\* advanceDrill(1): Start first period, Start next period, Complete & next.
AdvanceDrill ==
  /\ ControlDrills # <<>>
  /\ IF ActiveUnitIndex = Len(ControlDrills) THEN CompletePractice
     ELSE StartDrill(ControlDrills[ActiveUnitIndex + 1].id, TRUE)

\* advanceDrill(-1).
PreviousDrill == ActiveUnitIndex > 1 /\ StartDrill(ControlDrills[ActiveUnitIndex - 1].id, TRUE)

-----------------------------------------------------------------------------
(* Editing the plan: shown in the preview, not sent.                       *)

Edit(next) ==
  /\ Act /\ plan' = next /\ dirty' = TRUE
  /\ misled' = (misled \/ boardCalls # {})
  /\ UNCHANGED <<now, unit, board, sendVars, lookups, display, preloadVars, chosen, failures>>

AddDrill ==
  /\ Len(UnitDrills) < MaxDrillsPerUnit /\ drillIds < MaxDrillIds
  /\ drillIds' = drillIds + 1
  /\ Edit(Append(plan, [id |-> drillIds + 1, unit |-> unit, length |-> MaxLength, entries |-> AtMost(1, MaxAssignments)]))

UpdateDrill ==
  /\ \E i \in DOMAIN plan, n \in 0..MaxLength :
       plan[i].unit = unit /\ n # plan[i].length /\ Edit([plan EXCEPT ![i].length = n])
  /\ UNCHANGED drillIds

RemoveDrill ==
  /\ ~sending
  /\ \E i \in DOMAIN plan : plan[i].unit = unit /\ Edit(RemoveAt(plan, i))
  /\ UNCHANGED drillIds

\* addAssignment, removeAssignment; updateAssignment counts as one or the other.
EditAssignments ==
  /\ \E i \in DOMAIN plan, n \in 0..MaxAssignments :
       plan[i].unit = unit /\ n # plan[i].entries /\ Edit([plan EXCEPT ![i].entries = n])
  /\ UNCHANGED drillIds

\* moveDrill: within the unit, the other unit keeps its places.
MoveDrill ==
  /\ \E from, to \in DOMAIN UnitDrills :
       LET place(i) == Len(UnitPrefixes(plan, unit)[i])
           moved == InsertAt(RemoveAt(UnitDrills, from), to, UnitDrills[from])
       IN from # to /\ Edit([i \in DOMAIN plan |->
            IF plan[i].unit = unit THEN moved[place(i)] ELSE plan[i]])
  /\ UNCHANGED drillIds

SwitchUnit ==
  /\ Act /\ unit' \in Units \ {unit}
  /\ UNCHANGED <<now, plan, board, dirty, sendVars, lookups, display, preloadVars, chosen, boundVars, misled>>

-----------------------------------------------------------------------------
(* A weather report and a logo are awaited before their board is sent.     *)

\* refreshWeather (Enter in the input does not look at the button's guard)
\* and uploadSchoolLogo up to their first await.
Ask(kind) ==
  /\ kind = "logo" => ~sending /\ \A l \in lookups : l.kind # "logo"
  /\ Cardinality(lookups) < MaxLookups /\ Act
  /\ lookups' = lookups \cup {[kind |-> kind, plan |-> plan, board |-> board, fresh |-> InStep]}
  /\ UNCHANGED <<now, planVars, board, dirty, sendVars, display, preloadVars, chosen, boundVars, misled>>

\* The answer: the closure sends the board it was built from.
Found(l) ==
  LET b == BoardWith(l.plan, l.board)
      next == IF l.kind = "weather" THEN [b EXCEPT !.weather = TRUE] ELSE [b EXCEPT !.logo = TRUE]
  IN /\ UNCHANGED <<now, planVars, dirty, display, preloadVars, chosen, acts, boundVars>>
     /\ lookups' = lookups \ {l}
     /\ Dispatch(l.kind, next, l.board, l.fresh)

NotFound(l) ==
  /\ failures < MaxFailures /\ failures' = failures + 1
  /\ lookups' = lookups \ {l}
  /\ UNCHANGED <<now, planVars, board, dirty, sendVars, display, preloadVars, chosen, acts, drillIds, misled>>

-----------------------------------------------------------------------------
(* The server and its answers.                                             *)

Others(c) == boardCalls \ {c}

StoreBoard(c) ==
  /\ c.stage = "sent"
  /\ display' = c.board
  /\ boardCalls' = {[c EXCEPT !.stage = "stored"]} \cup {[o EXCEPT !.fresh = FALSE] : o \in Others(c)}
  /\ lookups' = {[l EXCEPT !.fresh = FALSE] : l \in lookups}
  /\ UNCHANGED <<now, planVars, board, dirty, sending, preloadVars, chosen, acts, boundVars, misled>>

Agreed == Serialized(plan) = display.drills /\ SamePeriod(board, display)

AnswerBoard(c) ==
  /\ c.stage = "stored"
  /\ boardCalls' = Others(c) /\ dirty' = FALSE /\ sending' = FALSE
  /\ misled' = (misled /\ (Others(c) # {} \/ ~Agreed))
  /\ UNCHANGED <<now, planVars, board, lookups, display, preloadVars, chosen, acts, boundVars>>

\* Mutant: the board is not put back.
FailBoardKept(c) ==
  /\ failures < MaxFailures /\ failures' = failures + 1
  /\ boardCalls' = Others(c) /\ sending' = FALSE
  /\ misled' = (misled \/ c.stage = "stored" \/ ~c.fresh)
  /\ UNCHANGED <<now, planVars, board, dirty, lookups, display, preloadVars, chosen, acts, drillIds>>

\* Refused, or no answer (stored or not): the board of the closure again.
FailBoard(c) ==
  /\ failures < MaxFailures /\ failures' = failures + 1
  /\ board' = c.back
  /\ boardCalls' = Others(c) /\ sending' = FALSE
  /\ misled' = (misled \/ c.stage = "stored" \/ ~c.fresh)
  /\ UNCHANGED <<now, planVars, dirty, lookups, display, preloadVars, chosen, acts, drillIds>>

-----------------------------------------------------------------------------
(* Saved boards.  A request for them is stored and answered in one step.   *)

Saved(id) == CHOOSE p \in listed : p.id = id

\* What loadPreload and syncPreloadToDisplay take over.
TakeOver(p) ==
  /\ plan' = NormalizeBoard(p.board).drills
  /\ chosen' = p.id /\ dirty' = FALSE

LoadPreload(p) ==
  /\ Act /\ TakeOver(p) /\ board' = NormalizeBoard(p.board) /\ misled' = TRUE
  /\ UNCHANGED <<now, unit, sendVars, lookups, display, preloadVars, boundVars>>

\* Apply looks at a deletion under way, not at a command under way.
SyncPreloadToDisplay(p) ==
  /\ removing.id # p.id /\ Act /\ TakeOver(p)
  /\ Dispatch("preload", NormalizeBoard(p.board), board, FALSE)
  /\ UNCHANGED <<now, unit, lookups, display, preloadVars, boundVars>>

StartNewPreload ==
  /\ Act /\ chosen' = NoPreload /\ dirty' = FALSE /\ misled' = (misled \/ dirty)
  /\ UNCHANGED <<now, planVars, board, sendVars, lookups, display, preloadVars, boundVars>>

SavePreload ==
  /\ keeping = NotKeeping /\ ~sending /\ Act
  /\ keeping' = [id |-> chosen, board |-> SnapshotBoard(CurrentBoard)]
  /\ UNCHANGED <<now, planVars, board, dirty, sendVars, lookups, display, preloads, listed,
                 removing, chosen, boundVars, misled>>

\* Update of the chosen one, or a new one; then loadPreloads.
PreloadKept ==
  \E id \in PreloadIds :
    /\ keeping # NotKeeping
    /\ IF keeping.id = NoPreload THEN id \notin {p.id : p \in preloads}
       ELSE id = keeping.id /\ id \in {p.id : p \in preloads}
    /\ preloads' = {p \in preloads : p.id # id} \cup {[id |-> id, board |-> keeping.board]}
    /\ keeping' = NotKeeping /\ chosen' = id /\ listed' = preloads'
    /\ UNCHANGED <<now, planVars, board, dirty, sendVars, lookups, display, removing, acts, boundVars, misled>>

\* The chosen one has been deleted meanwhile (404), or the request fails.
PreloadNotKept ==
  /\ keeping # NotKeeping
  /\ IF keeping.id # NoPreload /\ keeping.id \notin {p.id : p \in preloads} THEN UNCHANGED failures
     ELSE failures < MaxFailures /\ failures' = failures + 1
  /\ keeping' = NotKeeping
  /\ UNCHANGED <<now, planVars, board, dirty, sendVars, lookups, display, preloads, listed,
                 removing, chosen, acts, drillIds, misled>>

DeletePreload(p) ==
  /\ removing = NotRemoving /\ Act
  /\ removing' = [id |-> p.id, chosen |-> chosen]
  /\ UNCHANGED <<now, planVars, board, dirty, sendVars, lookups, display, preloads, listed,
                 keeping, chosen, boundVars, misled>>

\* The choice is taken back as the closure knows it.
PreloadDeleted ==
  /\ removing # NotRemoving /\ removing' = NotRemoving
  /\ preloads' = {p \in preloads : p.id # removing.id} /\ listed' = preloads'
  /\ chosen' = IF removing.chosen = removing.id THEN NoPreload ELSE chosen
  /\ UNCHANGED <<now, planVars, board, dirty, sendVars, lookups, display, keeping, acts, boundVars, misled>>

\* The deletion is refused: list and choice stay.
PreloadNotDeleted ==
  /\ removing # NotRemoving /\ removing' = NotRemoving
  /\ failures < MaxFailures /\ failures' = failures + 1
  /\ UNCHANGED <<now, planVars, board, dirty, sendVars, lookups, display, preloads, listed,
                 keeping, chosen, acts, drillIds, misled>>

-----------------------------------------------------------------------------
Tick ==
  /\ now < MaxTime /\ now' = now + 1
  /\ UNCHANGED <<planVars, board, dirty, sendVars, lookups, display, preloadVars, chosen, acts, boundVars, misled>>

\* The page as its first effect leaves it: the board of the display.
PracticeInit ==
  /\ now = 1 /\ display \in StartBoards
  /\ board = NormalizeBoard(display) /\ plan = NormalizeBoard(display).drills
  /\ unit = IF plan # <<>> /\ OfUnit(plan, "offense") = <<>> THEN "defense" ELSE "offense"
  /\ dirty = FALSE /\ sending = FALSE /\ boardCalls = {} /\ lookups = {}
  /\ preloads = {} /\ listed = {} /\ chosen = NoPreload
  /\ keeping = NotKeeping /\ removing = NotRemoving
  /\ acts = 0 /\ failures = 0 /\ drillIds = Max({0} \cup IdsOf(plan)) /\ misled = FALSE

PracticeNext ==
  \/ SaveBoard \/ PreviewSchedule \/ RemoveSchoolLogo
  \/ RunDrill \/ RestartDrill \/ ResumeDrill \/ StopDrill \/ AdvanceDrill \/ PreviousDrill
  \/ AddDrill \/ UpdateDrill \/ RemoveDrill \/ EditAssignments \/ MoveDrill \/ SwitchUnit
  \/ \E kind \in {"weather", "logo"} : Ask(kind)
  \/ \E l \in lookups : Found(l) \/ NotFound(l)
  \/ \E c \in boardCalls : StoreBoard(c) \/ AnswerBoard(c) \/ FailBoard(c)
  \/ \E p \in listed : LoadPreload(p) \/ SyncPreloadToDisplay(p) \/ DeletePreload(p)
  \/ StartNewPreload \/ SavePreload \/ PreloadKept \/ PreloadNotKept \/ PreloadDeleted
  \/ PreloadNotDeleted
  \/ Tick

PracticeSpec == PracticeInit /\ [][PracticeNext]_practiceVars

-----------------------------------------------------------------------------
PracticeTypeOK ==
  /\ now \in 1..MaxTime /\ plan \in Seq(Drills) /\ unit \in Units
  /\ {board, display} \subseteq PracticeBoards
  /\ {dirty, sending, misled} \subseteq BOOLEAN
  /\ \A c \in boardCalls : c.board \in PracticeBoards /\ c.back \in PracticeBoards /\ c.stage \in {"sent", "stored"}
  /\ \A l \in lookups : l.kind \in {"weather", "logo"} /\ l.board \in PracticeBoards /\ l.plan \in Seq(Drills)
  /\ \A p \in preloads \cup listed : p.id \in PreloadIds /\ p.board \in PracticeBoards
  /\ chosen \in PreloadIds \cup {NoPreload}

\* What the coach sends without touching the period (the plan, a preview,
\* the weather, the logo) leaves the period that is on alone: which one it
\* is, whether it runs, and the time it has left when the command arrives,
\* however long that takes.  It is so when the board it was built from
\* agreed with the display and nothing was stored since the press; a late
\* weather report or logo breaks it, as does the deletion of the period.
\* "Update display" gives a period that is idle its full time.
SavesKeepThePeriod ==
  [][\A c \in boardCalls :
       (/\ StoreBoard(c) /\ c.fresh /\ c.kind # "timer" /\ display.status # "idle"
        /\ display.active \in {NoDrill} \cup IdsOf(c.board.drills))
       => SamePeriod(display, c.board)]_practiceVars

\* When nothing is under way and the page does not say "Unsaved changes",
\* the display has the plan of the page and the same period, unless the
\* page has been misled since the two last agreed.
CleanPageIsSent == boardCalls = {} /\ ~dirty /\ ~misled => Agreed

\* Every page of the schedule that a display shows has periods on it, if
\* there are any, and every period has a page: kiosk and dashboard count
\* the pages of the two units apart (PracticeBoardMode.tsx:197).
SchedulePageHasPeriods ==
  LET page == PageShown(display, now)
  IN /\ page # NoPage /\ display.drills # <<>> => CardsOn(display.drills, page) # <<>>
     /\ \A i \in DOMAIN display.drills : \E n \in 0..(PageCount(display.drills) - 1) :
          display.drills[i] \in ToSet(CardsOn(display.drills, n))

=============================================================================
