---------------------------- MODULE ControlPage ----------------------------
(***************************************************************************)
(* The page from which an operator runs a game, and the commands it has    *)
(* under way.                                                              *)
(*                                                                         *)
(* app/(dashboard)/devices/[deviceId]/basketball/page.tsx and              *)
(* SportControlPage.tsx (volleyball, wrestling) keep a copy of the timer   *)
(* and of the display mode.  Some presses change the copy at once and send *)
(* it (a score), some change it when the answer comes (start, pause,       *)
(* reset); an edit of the mode is sent 250 ms later by a closure that has  *)
(* captured the mode; a change of the board layout cancels that timeout    *)
(* and is rolled back when its command fails.  Nothing orders the requests *)
(* of one page, nor their answers.                                         *)
(*                                                                         *)
(* The server is what DeviceCommands models; here a command is stored for  *)
(* all its displays or refused.  The two scores are one, the labels,       *)
(* colours and logos of the teams one bit, the clocks one bit (what they   *)
(* show while they run is left out).  One operator has one page open.      *)
(***************************************************************************)
EXTENDS Naturals, FiniteSets, FiniteSetsExt

CONSTANTS
  Boards,       \* displays
  ThisBoard,    \* the one in the address of the page
  Games,        \* what may be open: the page, the selection, the display and its game
  MaxPresses,   \* bound on what the operator does
  MaxScore,     \* bound on a score
  MaxLosses     \* bound on commands refused and answers lost

ASSUME ControlPageAssumption ==
  /\ ThisBoard \in Boards
  /\ \A g \in Games :
       /\ g.sport \in {"basketball", "volleyball", "wrestling"} /\ g.running \in BOOLEAN
       /\ g.selection \subseteq Boards
       /\ g.capabilities \subseteq {"two-panel", "three-panel", "behaviours"}
       /\ g.layout \in {"full", "three-panel"} /\ g.idle \in BOOLEAN
  /\ MaxScore \in Nat \ {0} /\ {MaxPresses, MaxLosses} \subseteq Nat

VARIABLES
  sport,        \* which page is open
  selection,    \* selectedDeviceIds, from the session storage
  capabilities, \* of this display
  device,       \* loading, loaded or failed
  media,        \* and the list of advertisements
  ads,          \* some advertisement is active
  shown,        \* the mode fields of the page
  hydrated,     \* the layout as stored, hydratedSportDisplayLayout
  clock,        \* the timer fields of the page
  pendingMode,  \* the mode that the 250 ms timeout will send
  saving,       \* layoutSaving
  uploading,    \* a logo is on its way
  calls,        \* commands under way
  stored,       \* what the server has stored of each display
  presses, losses,
  modeUpset,    \* history: a command failed or was overtaken, and page and
                \* server have not agreed on the mode since, with nothing under way
  timerUpset    \* history: a command failed or its answer was overtaken, and page
                \* and server have not agreed on the timer since

netVarsCP == <<calls, stored>>
loadVarsCP == <<device, media, ads>>
historyCP == <<losses, modeUpset, timerUpset>>
fixedCP == <<sport, selection, capabilities>>
controlVars == <<fixedCP, loadVarsCP, shown, hydrated, clock, pendingMode, saving,
                 uploading, netVarsCP, presses, historyCP>>

-----------------------------------------------------------------------------
(* Data.                                                                   *)

Sports == {"basketball", "volleyball", "wrestling"}
LayoutTypes == {"full", "two-panel", "three-panel"}
AdModes == {"offset-timed", "offset-on-timer-reset"}
AdPositions == {"end", "start"}
Timers == [score : 0..MaxScore, time : {"full", "set"}, running : BOOLEAN]

\* A SportDisplayLayout: an advertisement behaviour or position, and
\* whether its playlist has entries.
NoBoardLayout == [type |-> "full", ads |-> FALSE, behaviour |-> "offset-timed"]
BoardLayouts == [type : LayoutTypes, ads : BOOLEAN, behaviour : AdModes \cup AdPositions]
PageModes == [sport : Sports, preview : {"regular", "scoreboard"},
              branding : BOOLEAN, layout : BoardLayouts]
NoPageMode == [sport |-> "none"]

\* The mode of a display that shows no game has no layout; the server keeps
\* that of the last game as sportDisplayLayoutPreference.
IdleMode == [sport |-> "idle", preview |-> "regular", branding |-> FALSE, layout |-> NoBoardLayout]
StoredBoards == [timer : Timers, mode : PageModes \cup {IdleMode}, preferred : BoardLayouts]

\* createDefaultTimerState with mode 'pause'.
DefaultTimer == [score |-> 0, time |-> "full", running |-> FALSE]

-----------------------------------------------------------------------------
(* Which displays a command goes to, SelectedDevicesProvider.tsx.          *)

IsSyncActive == ThisBoard \in selection /\ Cardinality(selection) > 1
ActiveTargets == IF IsSyncActive THEN selection ELSE {ThisBoard}

-----------------------------------------------------------------------------
(* The mode that the page would send.                                      *)

\* resolveSportDisplayLayout.
ResolvedLayout(type, adMode, adPosition) ==
  LET useHydrated == media # "loaded" \/ (~ads /\ hydrated.ads)
  IN IF type = "full" \/ (useHydrated /\ hydrated = NoBoardLayout)
     THEN NoBoardLayout
     ELSE [type |-> type,
           ads |-> IF useHydrated THEN hydrated.ads ELSE ads,
           behaviour |-> IF type = "two-panel" THEN adPosition ELSE adMode]

\* buildBasketballMode; the branding is sent with the scoreboard only.
BasketballMode(preview, type, adMode, adPosition) ==
  [sport |-> "basketball", preview |-> preview,
   branding |-> preview # "regular" /\ shown.branding,
   layout |-> ResolvedLayout(type, adMode, adPosition)]

\* buildSportMode; volleyball and wrestling always send the branding.
SportMode(type, adMode, adPosition) ==
  [sport |-> sport, preview |-> "regular", branding |-> shown.branding,
   layout |-> ResolvedLayout(type, adMode, adPosition)]

BuiltModeWith(type, adMode, adPosition) ==
  IF sport = "basketball" THEN BasketballMode(shown.preview, type, adMode, adPosition)
                          ELSE SportMode(type, adMode, adPosition)

BuiltMode == BuiltModeWith(shown.layout, shown.adMode, shown.adPosition)

-----------------------------------------------------------------------------
(* What the page offers.                                                   *)

\* Basketball shows an error instead of its controls when loading failed;
\* the other pages show their controls all the same.
BasketballShowsControls == sport = "basketball" /\ device = "loaded"
SportShowsControls == sport # "basketball" /\ device # "loading"

ActiveAds == IF shown.layout = "full" THEN media = "loaded" /\ ads
             ELSE ResolvedLayout(shown.layout, shown.adMode, shown.adPosition).ads

LayoutOffered(type) ==
  /\ ~saving
  /\ type # "full" => type \in capabilities /\ media # "loading" /\ ActiveAds

AdModeOffered(adMode) ==
  /\ shown.layout = "three-panel" /\ ~saving
  /\ adMode # "offset-timed" => "behaviours" \in capabilities

AdPositionOffered == shown.layout = "two-panel" /\ ~saving

-----------------------------------------------------------------------------
(* Commands.  Kinds that carry a timer, and those that run the clock.      *)

TimerKinds == {"score", "time", "start", "pause", "reset"}
ClockKinds == {"start", "pause", "reset"}
ModeKinds == {"effect", "preview", "layout", "adMode", "adPosition"}

PageCalls == [id : Nat, kind : TimerKinds \cup ModeKinds, mode : PageModes,
              timer : Timers, back : LayoutTypes \cup AdModes \cup AdPositions,
              alone : BOOLEAN, after : SUBSET Nat, stage : {"sent", "stored"}]

NextId == 1 + Max({0} \cup {c.id : c \in calls})

\* sendCommand: the request leaves; "alone" remembers that no command for the
\* clock was under way together with this one, nor with one that this one met.
SendCall(kind, mode, timer, back) ==
  LET c == [id |-> NextId, kind |-> kind, mode |-> mode, timer |-> timer,
            back |-> back, after |-> {}, stage |-> "sent",
            alone |-> /\ kind \notin ClockKinds
                      /\ \A x \in calls : x.kind \in TimerKinds => x.alone]
  IN calls' = {c} \cup
       {[x EXCEPT !.alone = @ /\ kind \notin ClockKinds] : x \in calls}

SendMode(kind, mode, back) == SendCall(kind, mode, DefaultTimer, back)
SendTimer(kind, timer) == SendCall(kind, BuiltMode, timer, "full")

-----------------------------------------------------------------------------
(* Loading the page.                                                       *)

\* The effect that sends the mode 250 ms after anything it depends on has
\* changed: the timeout captures the mode of this rendering.
AutoSends == /\ device = "loaded" /\ media # "loading"
             /\ ~(shown.layout # "full" /\ media = "failed" /\ hydrated = NoBoardLayout)
ScheduleMode == pendingMode' = IF AutoSends' THEN BuiltMode' ELSE NoPageMode

ControlInit ==
  /\ device = "loading" /\ media = "loading" /\ ads = FALSE
  /\ shown = [preview |-> "regular", branding |-> FALSE, layout |-> "full",
              adMode |-> "offset-timed", adPosition |-> "end"]
  /\ hydrated = NoBoardLayout /\ clock = DefaultTimer
  /\ pendingMode = NoPageMode /\ saving = FALSE /\ uploading = FALSE /\ calls = {}
  /\ \E g \in Games :
       /\ sport = g.sport /\ selection = g.selection /\ capabilities = g.capabilities
       /\ LET layout == [NoBoardLayout EXCEPT !.type = g.layout, !.ads = g.layout # "full"]
          IN stored = [d \in Boards |->
               [timer |-> [score |-> 1, time |-> "set", running |-> g.running],
                mode |-> IF g.idle THEN IdleMode
                         ELSE [sport |-> g.sport, preview |-> "regular", branding |-> FALSE, layout |-> layout],
                preferred |-> layout]]
  /\ presses = 0 /\ losses = 0 /\ modeUpset = FALSE /\ timerUpset = FALSE

\* The layout of the mode, or else the one that was kept.
LoadedLayout == LET board == stored[ThisBoard]
                IN IF board.mode.layout # NoBoardLayout THEN board.mode.layout ELSE board.preferred

\* What both pages take over from the record of the display.
HydrateFrom(loaded) ==
  /\ device' = "loaded"
  /\ clock' = loaded.timer
  /\ hydrated' = LoadedLayout
  /\ UNCHANGED <<fixedCP, media, ads, saving, uploading, netVarsCP, presses, historyCP>>
  /\ ScheduleMode

LoadedAdMode(layout) == IF layout.behaviour \in AdModes THEN layout.behaviour ELSE "offset-timed"
LoadedAdPosition(layout) == IF layout.behaviour = "start" THEN "start" ELSE "end"

BasketballDeviceLoads ==
  LET mode == stored[ThisBoard].mode
  IN /\ sport = "basketball" /\ device = "loading"
     /\ shown' = [preview |-> mode.preview, branding |-> mode.branding, layout |-> LoadedLayout.type,
                  adMode |-> LoadedAdMode(LoadedLayout), adPosition |-> LoadedAdPosition(LoadedLayout)]
     /\ HydrateFrom(stored[ThisBoard])

SportDeviceLoads ==
  LET mode == stored[ThisBoard].mode
  IN /\ sport # "basketball" /\ device = "loading"
     /\ shown' = [shown EXCEPT !.branding = mode.branding, !.layout = LoadedLayout.type,
                  !.adMode = LoadedAdMode(LoadedLayout), !.adPosition = LoadedAdPosition(LoadedLayout)]
     /\ HydrateFrom(stored[ThisBoard])

DeviceLoadFails ==
  /\ device = "loading" /\ losses < MaxLosses
  /\ device' = "failed" /\ losses' = losses + 1
  /\ UNCHANGED <<fixedCP, media, ads, shown, hydrated, clock, pendingMode, saving,
                 uploading, netVarsCP, presses, modeUpset, timerUpset>>

\* fetchMediaAssets answers: with or without an active advertisement, or not.
MediaLoads ==
  /\ media = "loading"
  /\ \/ media' = "loaded" /\ ads' \in BOOLEAN /\ UNCHANGED losses
     \/ /\ losses < MaxLosses /\ losses' = losses + 1
        /\ media' = "failed" /\ UNCHANGED ads
  /\ UNCHANGED <<fixedCP, device, shown, hydrated, clock, saving, uploading, netVarsCP,
                 presses, modeUpset, timerUpset>>
  /\ ScheduleMode

-----------------------------------------------------------------------------
(* The mode and its layout.                                                *)

FireModeUpdate ==
  /\ pendingMode # NoPageMode
  /\ pendingMode' = NoPageMode
  /\ SendMode("effect", pendingMode, "full")
  /\ UNCHANGED <<fixedCP, loadVarsCP, shown, hydrated, clock, saving, uploading, stored,
                 presses, historyCP>>

Press == (BasketballShowsControls \/ SportShowsControls) /\ presses < MaxPresses /\ presses' = presses + 1

\* switchPreviewMode: sent at once, and again by the effect when it changes.
SwitchPreview(preview) ==
  /\ sport = "basketball" /\ Press
  /\ shown' = [shown EXCEPT !.preview = preview]
  /\ SendMode("preview", BasketballMode(preview, shown.layout, shown.adMode, shown.adPosition), "full")
  /\ UNCHANGED <<fixedCP, loadVarsCP, hydrated, clock, saving, uploading, stored, historyCP>>
  /\ IF preview = shown.preview THEN UNCHANGED pendingMode ELSE ScheduleMode

\* A label, a colour, a check box.
BrandingEdited ==
  /\ Press
  /\ shown' = [shown EXCEPT !.branding = ~@]
  /\ UNCHANGED <<fixedCP, loadVarsCP, hydrated, clock, saving, uploading, netVarsCP, historyCP>>
  /\ ScheduleMode

\* Basketball offers them with its two larger displays; the other pages do so
\* always, and volleyball has its top display.
EditBasketballBranding == sport = "basketball" /\ shown.preview # "regular" /\ BrandingEdited
EditSportBranding == sport # "basketball" /\ BrandingEdited

\* uploadScoreboardLogo: the address of the logo is an edit when it arrives.
UploadLogo ==
  /\ sport = "basketball" /\ shown.preview = "scoreboard" /\ ~uploading /\ Press
  /\ uploading' = TRUE
  /\ UNCHANGED <<fixedCP, loadVarsCP, shown, hydrated, clock, pendingMode, saving,
                 netVarsCP, historyCP>>

LogoUploaded ==
  /\ uploading /\ uploading' = FALSE
  /\ UNCHANGED <<fixedCP, loadVarsCP, hydrated, clock, saving, netVarsCP, presses, historyCP>>
  /\ \/ shown' = [shown EXCEPT !.branding = ~@] /\ ScheduleMode
     \/ UNCHANGED <<shown, pendingMode>>

\* Mutant: the timeout goes on and sends what the page showed before.
ChangeLayoutTypeUncancelled(type) ==
  /\ LayoutOffered(type) /\ type # shown.layout /\ Press
  /\ shown' = [shown EXCEPT !.layout = type]
  /\ saving' = TRUE
  /\ SendMode("layout", BuiltModeWith(type, shown.adMode, shown.adPosition), shown.layout)
  /\ UNCHANGED <<fixedCP, loadVarsCP, hydrated, clock, pendingMode, uploading, stored, historyCP>>

\* The change is shown at once, the timeout is cancelled and a mode with the
\* change is sent; "back" is what a failure returns to.
ChangeLayoutType(type) ==
  /\ LayoutOffered(type) /\ type # shown.layout /\ Press
  /\ pendingMode' = NoPageMode
  /\ shown' = [shown EXCEPT !.layout = type]
  /\ saving' = TRUE
  /\ SendMode("layout", BuiltModeWith(type, shown.adMode, shown.adPosition), shown.layout)
  /\ UNCHANGED <<fixedCP, loadVarsCP, hydrated, clock, uploading, stored, historyCP>>

ChangeAdMode(adMode) ==
  /\ AdModeOffered(adMode) /\ adMode # shown.adMode /\ Press
  /\ pendingMode' = NoPageMode
  /\ shown' = [shown EXCEPT !.adMode = adMode]
  /\ saving' = TRUE
  /\ SendMode("adMode", BuiltModeWith("three-panel", adMode, shown.adPosition), shown.adMode)
  /\ UNCHANGED <<fixedCP, loadVarsCP, hydrated, clock, uploading, stored, historyCP>>

ChangeAdPosition(position) ==
  /\ AdPositionOffered /\ position # shown.adPosition /\ Press
  /\ pendingMode' = NoPageMode
  /\ shown' = [shown EXCEPT !.adPosition = position]
  /\ saving' = TRUE
  /\ SendMode("adPosition", BuiltModeWith("two-panel", shown.adMode, position), shown.adPosition)
  /\ UNCHANGED <<fixedCP, loadVarsCP, hydrated, clock, uploading, stored, historyCP>>

-----------------------------------------------------------------------------
(* The timer.                                                              *)

timerPressKeeps == <<fixedCP, loadVarsCP, shown, hydrated, pendingMode, saving, uploading,
                     stored, historyCP>>

\* commitTimerUpdates: shown at once, with the clock as the page believes it.
CommitTimer(kind, next) ==
  /\ sport = "basketball" /\ Press
  /\ clock' = next /\ SendTimer(kind, next)
  /\ UNCHANGED timerPressKeeps

\* updateTimerState: shown at once, and the clock stops.
UpdateTimer(kind, next) ==
  /\ sport # "basketball" /\ Press
  /\ clock' = [next EXCEPT !.running = FALSE]
  /\ SendTimer(kind, [next EXCEPT !.running = FALSE])
  /\ UNCHANGED timerPressKeeps

\* Mutant: a score stops the clock, as on the other pages.
ScoredStopped(up) == [clock EXCEPT !.running = FALSE, !.score = IF up THEN MaxScore ELSE 0]

Scored(up) == [clock EXCEPT !.score = IF up THEN IF @ = MaxScore THEN @ ELSE @ + 1
                                      ELSE IF @ = 0 THEN 0 ELSE @ - 1]

SetClock == [clock EXCEPT !.time = IF @ = "full" THEN "set" ELSE "full"]

\* startTimer, pauseTimer, resetTimer of basketball; start, pause, reset of
\* the others: nothing is shown until the answer.
ClockCommand(kind, next) ==
  /\ Press
  /\ SendTimer(kind, next)
  /\ UNCHANGED <<timerPressKeeps, clock>>

StartClock == ~clock.running /\ ClockCommand("start", [clock EXCEPT !.running = TRUE])
PauseClock == clock.running /\ ClockCommand("pause", [clock EXCEPT !.running = FALSE])
ResetGame == ClockCommand("reset", DefaultTimer)

\* The clocks of basketball can be set only while they stand.
PressBasketball ==
  \/ \E up \in BOOLEAN : CommitTimer("score", Scored(up))
  \/ ~clock.running /\ CommitTimer("time", SetClock)

PressSport ==
  \/ \E up \in BOOLEAN : UpdateTimer("score", Scored(up))
  \/ UpdateTimer("time", SetClock)

PressTimer == PressBasketball \/ PressSport \/ StartClock \/ PauseClock \/ ResetGame

-----------------------------------------------------------------------------
(* The network and the server.                                             *)

\* The request is stored for all its targets; any request may be next.
StoreCall(c) ==
  /\ c.stage = "sent"
  /\ stored' = [d \in Boards |-> IF d \notin ActiveTargets THEN stored[d]
       ELSE [mode |-> c.mode, preferred |-> c.mode.layout,
             timer |-> IF c.kind \in TimerKinds THEN c.timer ELSE stored[d].timer]]
  /\ calls' = (calls \ {c}) \cup {[c EXCEPT !.stage = "stored",
       !.after = {x.id : x \in {y \in calls : y.stage = "stored" /\ y.kind \in TimerKinds}}]}
  /\ modeUpset' = (/\ modeUpset \/ \E x \in calls : x.stage = "sent" /\ x.id < c.id
                   /\ ~(calls = {c} /\ c.mode = BuiltMode /\ pendingMode \in {NoPageMode, BuiltMode}))
  /\ UNCHANGED <<fixedCP, loadVarsCP, shown, hydrated, clock, pendingMode, saving,
                 uploading, presses, losses, timerUpset>>

LayoutKinds == {"layout", "adMode", "adPosition"}
Without(c) == {[x EXCEPT !.after = @ \ {c.id}] : x \in calls \ {c}}

\* Mutant: the page goes on showing its own clock.
AnswerCallUnread(c) ==
  /\ c.stage = "stored"
  /\ calls' = Without(c)
  /\ hydrated' = IF c.kind \in LayoutKinds THEN c.mode.layout ELSE hydrated
  /\ saving' = (saving /\ c.kind \notin LayoutKinds)
  /\ timerUpset' = (timerUpset \/ (c.kind \in TimerKinds /\ c.after # {}))
  /\ UNCHANGED <<fixedCP, loadVarsCP, shown, clock, pendingMode, uploading, stored, presses,
                 losses, modeUpset>>

\* response.ok: a timer is taken over, a layout becomes the hydrated one.
AnswerCall(c) ==
  /\ c.stage = "stored"
  /\ calls' = Without(c)
  /\ clock' = IF c.kind \in TimerKinds THEN c.timer ELSE clock
  /\ hydrated' = IF c.kind \in LayoutKinds THEN c.mode.layout ELSE hydrated
  /\ saving' = (saving /\ c.kind \notin LayoutKinds)
  /\ timerUpset' = IF c.kind \in TimerKinds
                   THEN /\ timerUpset \/ c.after # {}
                        /\ ~(/\ c.timer = stored[ThisBoard].timer
                             /\ \A x \in calls \ {c} : x.kind \notin TimerKinds)
                   ELSE timerUpset
  /\ UNCHANGED <<fixedCP, loadVarsCP, shown, pendingMode, uploading, stored, presses,
                 losses, modeUpset>>

\* An error, or no answer (stored or not): a layout is rolled back, a score
\* is not.
FailCall(c) ==
  /\ losses < MaxLosses /\ losses' = losses + 1
  /\ calls' = Without(c)
  /\ shown' = CASE c.kind = "layout" -> [shown EXCEPT !.layout = c.back]
                [] c.kind = "adMode" -> [shown EXCEPT !.adMode = c.back]
                [] c.kind = "adPosition" -> [shown EXCEPT !.adPosition = c.back]
                [] OTHER -> shown
  /\ saving' = (saving /\ c.kind \notin LayoutKinds)
  /\ modeUpset' = TRUE /\ timerUpset' = (timerUpset \/ c.kind \in TimerKinds)
  /\ UNCHANGED <<fixedCP, loadVarsCP, hydrated, clock, pendingMode, uploading, stored, presses>>

-----------------------------------------------------------------------------
PressMode ==
  \/ \E p \in {"regular", "scoreboard"} : SwitchPreview(p)
  \/ EditBasketballBranding \/ EditSportBranding
  \/ UploadLogo
  \/ \E type \in LayoutTypes : ChangeLayoutType(type)
  \/ \E adMode \in AdModes : ChangeAdMode(adMode)
  \/ \E position \in AdPositions : ChangeAdPosition(position)

ControlNext ==
  \/ BasketballDeviceLoads \/ SportDeviceLoads \/ DeviceLoadFails \/ MediaLoads
  \/ FireModeUpdate \/ LogoUploaded \/ PressMode \/ PressTimer
  \/ \E c \in calls : StoreCall(c) \/ AnswerCall(c) \/ FailCall(c)

ControlSpec == ControlInit /\ [][ControlNext]_controlVars

-----------------------------------------------------------------------------
ControlTypeOK ==
  /\ sport \in Sports /\ selection \in SUBSET Boards
  /\ device \in {"loading", "loaded", "failed"} /\ media \in {"loading", "loaded", "failed"}
  /\ shown \in [preview : {"regular", "scoreboard"}, branding : BOOLEAN, layout : LayoutTypes,
                adMode : AdModes, adPosition : AdPositions]
  /\ {ads, saving, uploading, modeUpset, timerUpset} \subseteq BOOLEAN
  /\ hydrated \in BoardLayouts /\ clock \in Timers
  /\ pendingMode \in PageModes \cup {NoPageMode}
  /\ \A c \in calls : /\ c.kind \in TimerKinds \cup ModeKinds /\ c.mode \in PageModes
                      /\ c.timer \in Timers /\ c.stage \in {"sent", "stored"}
                      /\ c.back \in LayoutTypes \cup AdModes \cup AdPositions
  /\ stored \in [Boards -> StoredBoards]
  /\ presses \in 0..MaxPresses /\ losses \in 0..MaxLosses

AtRest == device = "loaded" /\ media # "loading" /\ calls = {} /\ pendingMode = NoPageMode

\* Once nothing is under way the page shows the timer that is stored,
\* whatever the order in which its commands were stored, unless a command
\* failed or an answer was overtaken by a later one (commitTimerUpdates
\* takes over every answer, page.tsx:310).  Once the two agree again, the
\* claim holds again.
PageTimerAgrees == AtRest /\ ~timerUpset => clock = stored[ThisBoard].timer

\* Once nothing is under way every display of the selection has the mode
\* that the page shows, unless a command failed or was overtaken and the two
\* have not agreed since: no closure of the 250 ms timeout brings an older
\* mode back, and no edit that a layout change cancelled is forgotten.
PageModeAgrees == AtRest /\ ~modeUpset => \A d \in ActiveTargets : stored[d].mode = BuiltMode

\* A basketball score neither starts nor stops the clock, unless a start, a
\* pause or a reset was under way together with it or with another score or
\* time that was under way with it, or the page had been misled before:
\* commitTimerUpdates sends the running flag the page holds.
ScoreKeepsTheClock ==
  [][\A c \in calls :
       (/\ sport = "basketball" /\ c.kind = "score" /\ c.alone /\ ~timerUpset
        /\ StoreCall(c))
       => stored'[ThisBoard].timer.running = stored[ThisBoard].timer.running]_controlVars

=============================================================================
