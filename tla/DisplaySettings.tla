-------------------------- MODULE DisplaySettings --------------------------
(***************************************************************************)
(* The settings page of a display, settings/page.tsx of the dashboard:     *)
(* its calibration, its color correction, its mode, and the advertisements *)
(* of its board.  With it the route that stores a configuration and the    *)
(* handler config:update of the agent.                                     *)
(*                                                                         *)
(* The box in which the display draws is dragged on a stage.  While it     *)
(* moves, previews are sent, one in 100 ms at most; a save stores the box  *)
(* and pushes it without asking for an answer.  A change of the            *)
(* advertisements is followed by the layout, and the mode that has it, of  *)
(* the copy of the device that the page had when the change began.         *)
(*                                                                         *)
(* A box is its left edge, its width and its rotation; the other axis is   *)
(* computed alike.  A layout is the set of creatives it shows.             *)
(***************************************************************************)
EXTENDS Integers, Sequences

CONSTANTS
  Canvas, MinSize,       \* CALIBRATION_CANVAS_WIDTH and MIN_CALIBRATION_SIZE
  Rotations,             \* the quarter turns that are tried
  Creatives,             \* the advertisements of the display
  Sittings,              \* bounds of a run: how often the operator does what,
  MaxTroubles            \* and the faults

ASSUME SettingsAssumption ==
  /\ Canvas \in Nat /\ MinSize \in 1..Canvas /\ 0 \in Rotations
  /\ Sittings \subseteq [{"pointer", "config", "mode", "ads"} -> Nat]
  /\ MaxTroubles \in Nat

VARIABLES
  form,       \* calibration, savedCalibration, rgbToBgrEnabled and its saved value
  drag,       \* calibrationInteractionRef
  preview,    \* the latest box that is to be previewed, the timer, and the 100 ms
  settingsBusy, colorBusy,  \* saving, colorCorrectionSaving: the two flags that disable the buttons
  previews,   \* update_config commands under way
  patches,    \* PATCH /config under way
  pageDevice, \* the page's copy of the device: its mode and preferred layout
  modeSends,  \* set_mode commands under way
  adChanges,  \* uploads, activations and deletions under way
  activeAds,  \* getActiveSportAdPlaylist on the server
  record,     \* what the database has: configuration, mode and preferred layout
  agent,      \* what the agent has: saved and previewed configuration, mode
  todo,       \* what the operator may still do
  troubles,
  disturbed,  \* history: a configuration was lost, came after a later one, or
              \* ended a later preview
  apart       \* history: a mode was set elsewhere or lost, came after a later
              \* one, or met a change of advertisements that began without it

settingsVars == <<form, drag, preview, settingsBusy, colorBusy, previews, patches, pageDevice, modeSends,
                  adChanges, activeAds, record, agent, todo, troubles, disturbed, apart>>
calibrationVars == <<form, drag, preview, previews, colorBusy, patches, disturbed>>
modeVars == <<pageDevice, modeSends, adChanges, activeAds, apart>>

-----------------------------------------------------------------------------
NoBox == [none |-> TRUE]
SportTypes == {"basketball", "volleyball"}
SettingTypes == SportTypes \cup {"calibration"}
Boxes == {b \in [x : 0..Canvas, width : MinSize..Canvas, turn : Rotations] : b.x + b.width <= Canvas}
Configs == [box : Boxes, color : BOOLEAN]
Full == [x |-> 0, width |-> Canvas, turn |-> 0]

Clamp(n, low, high) == IF n < low THEN low ELSE IF n > high THEN high ELSE n

\* clampCalibrationBox
ClampCalibrationBox(b) ==
  LET width == Clamp(b.width, MinSize, Canvas)
  IN [b EXCEPT !.x = Clamp(b.x, 0, Canvas - width), !.width = width]

\* buildCalibrationConfig: every configuration has the box and the color.
Config(box, color) == [box |-> box, color |-> color]

\* What the operator does is counted, and numbers the requests.
Does(what) == todo[what] > 0 /\ todo' = [todo EXCEPT ![what] = @ - 1]
Number == todo["mode"] + 10 * todo["ads"] + 100 * todo["config"]
Trouble == troubles < MaxTroubles /\ troubles' = troubles + 1

-----------------------------------------------------------------------------
(* Previews.  "recent" says that one was sent less than 100 ms ago.        *)

Quiet == [latest |-> NoBox, timer |-> FALSE, recent |-> FALSE]

\* Mutant: what is moved within 100 ms of a preview is not kept for later.
QueuePreviewDropping(box) ==
  IF preview.recent THEN UNCHANGED <<preview, previews>>
  ELSE /\ preview' = [Quiet EXCEPT !.recent = TRUE]
       /\ previews' = Append(previews, Config(box, form.color))

\* queueCalibrationPreview
QueuePreview(box) ==
  IF preview.recent
  THEN /\ preview' = [preview EXCEPT !.latest = box, !.timer = TRUE]
       /\ UNCHANGED previews
  ELSE /\ preview' = [Quiet EXCEPT !.recent = TRUE]
       /\ previews' = Append(previews, Config(box, form.color))

\* flushCalibrationPreview, of the timer and of the end of a drag.
FlushPreview ==
  IF preview.latest = NoBox THEN UNCHANGED <<preview, previews>>
  ELSE /\ preview' = [Quiet EXCEPT !.recent = TRUE]
       /\ previews' = Append(previews, Config(preview.latest, form.color))

KeepCalls == UNCHANGED <<settingsBusy, colorBusy, patches, record, agent, disturbed, modeVars, troubles>>

PreviewTimer ==
  /\ preview.timer /\ ~preview.recent
  /\ FlushPreview
  /\ UNCHANGED <<form, drag, todo>> /\ KeepCalls

TenthPasses ==
  /\ preview.recent /\ preview' = [preview EXCEPT !.recent = FALSE]
  /\ UNCHANGED <<form, drag, previews, todo>> /\ KeepCalls

\* setCalibrationWithPreview
SetCalibration(b) ==
  LET box == ClampCalibrationBox(b)
  IN form' = [form EXCEPT !.box = box] /\ QueuePreview(box)

-----------------------------------------------------------------------------
(* Dragging.                                                               *)

\* startDrawCalibrationBox anywhere on the stage, startMoveCalibrationBox on
\* the box, startResizeCalibrationBox on the handle of an edge.
StartDrag ==
  /\ drag = NoBox /\ Does("pointer")
  /\ LET left == form.box.x
         right == left + form.box.width
     IN \E at \in 0..Canvas :
          \/ /\ drag' = [kind |-> "draw", from |-> at, box |-> form.box]
             /\ SetCalibration([form.box EXCEPT !.x = at, !.width = MinSize])
          \/ \E kind \in {"move", "w", "e"} :
               /\ kind = "w" => at = left
               /\ kind = "e" => at = right
               /\ at \in left..right
               /\ drag' = [kind |-> kind, from |-> at, box |-> form.box]
               /\ UNCHANGED <<form, preview, previews>>
  /\ KeepCalls

\* updateCalibrationInteraction: the box that a drag makes of its first one.
Dragged(at) ==
  LET by == at - drag.from
      b == drag.box
  IN CASE drag.kind = "draw" -> [form.box EXCEPT !.x = IF by < 0 THEN at ELSE drag.from,
                                                 !.width = IF by < 0 THEN 0 - by ELSE by]
       [] drag.kind = "move" -> [b EXCEPT !.x = @ + by]
       [] drag.kind = "w" -> [b EXCEPT !.x = @ + by, !.width = @ - by]
       [] drag.kind = "e" -> [b EXCEPT !.width = @ + by]

MoveDrag ==
  /\ drag # NoBox /\ Does("pointer")
  /\ \E at \in 0..Canvas : SetCalibration(Dragged(at))
  /\ UNCHANGED drag /\ KeepCalls

\* endCalibrationInteraction
EndDrag ==
  /\ drag # NoBox /\ drag' = NoBox
  /\ FlushPreview
  /\ UNCHANGED <<form, todo>> /\ KeepCalls

\* resetCalibration and setDisplayRotation
ResetOrRotate ==
  /\ drag = NoBox /\ Does("pointer")
  /\ \/ SetCalibration(Full)
     \/ \E turn \in Rotations \ {form.box.turn} : SetCalibration([form.box EXCEPT !.turn = turn])
  /\ UNCHANGED drag /\ KeepCalls

ToggleColor ==
  /\ Does("config") /\ form' = [form EXCEPT !.color = ~@]
  /\ UNCHANGED <<drag, preview, settingsBusy, previews, colorBusy, patches, record, agent,
                 troubles, disturbed, modeVars>>

-----------------------------------------------------------------------------
(* Configurations at the server and at the agent.                          *)

Effective == IF agent.preview = NoBox THEN agent.config ELSE agent.preview

\* config:update, with setConfigPreview and saveState.
ConfigUpdate(config, isPreview) ==
  IF isPreview THEN agent' = [agent EXCEPT !.preview = config]
  ELSE agent' = [agent EXCEPT !.config = config, !.preview = NoBox]

Drop(s, i) == SubSeq(s, 1, i - 1) \o SubSeq(s, i + 1, Len(s))

\* update_config reaches the display, perhaps before one sent earlier,
PreviewArrives ==
  \E i \in 1..Len(previews) :
    /\ IF i = 1 THEN UNCHANGED troubles ELSE Trouble
    /\ ConfigUpdate(previews[i], TRUE)
    /\ previews' = Drop(previews, i)
    /\ disturbed' = (disturbed \/ i > 1)
    /\ UNCHANGED <<form, drag, preview, settingsBusy, colorBusy, patches, record, todo, modeVars>>

\* or does not: the display is offline or does not answer.
PreviewLost ==
  /\ previews # <<>> /\ Trouble
  /\ previews' = Tail(previews) /\ disturbed' = TRUE
  /\ UNCHANGED <<form, drag, preview, settingsBusy, colorBusy, patches, record, agent, todo, modeVars>>

\* saveCalibration and saveColorCorrection: both send the box and the color.
Save ==
  /\ Does("config") /\ ~settingsBusy
  /\ \/ settingsBusy' = TRUE /\ UNCHANGED colorBusy
     \/ ~colorBusy /\ colorBusy' = TRUE /\ UNCHANGED settingsBusy
  /\ patches' = patches \cup {[id |-> Number, of |-> IF settingsBusy' THEN "box" ELSE "color",
                           config |-> Config(form.box, form.color), at |-> "sent"]}
  /\ UNCHANGED <<form, drag, preview, previews, record, agent, troubles, disturbed, modeVars>>

\* PATCH /config stores the configuration,
StoreConfig(s) ==
  /\ s.at = "sent"
  /\ record' = [record EXCEPT !.config = s.config]
  /\ patches' = (patches \ {s}) \cup {[s EXCEPT !.at = "stored"]}
  /\ UNCHANGED <<form, drag, preview, settingsBusy, previews, colorBusy, agent, todo, troubles,
                 disturbed, modeVars>>

\* A push, or an answer, is overtaken when that of the configuration that was
\* stored last came before it.
Overtaken(stages) == record.config \notin {s.config : s \in {t \in patches : t.at \in stages}}

\* A push ends a preview: the display draws what was saved, where the page has
\* moved the box since and no preview is left to say so.
EndsPreview(s) == form.box # s.config.box /\ previews = <<>> /\ preview.latest = NoBox

\* and pushes it: no answer says whether the display was there to hear it.
PushConfig(s) ==
  /\ s.at = "stored"
  /\ \/ ConfigUpdate(s.config, FALSE) /\ UNCHANGED troubles
        /\ disturbed' = (disturbed \/ Overtaken({"stored"}) \/ EndsPreview(s))
     \/ Trouble /\ UNCHANGED agent /\ disturbed' = TRUE
  /\ patches' = (patches \ {s}) \cup {[s EXCEPT !.at = "pushed"]}
  /\ UNCHANGED <<form, drag, preview, settingsBusy, previews, colorBusy, record, todo, modeVars>>

Unblock(s) ==
  IF s.of = "box" THEN settingsBusy' = FALSE /\ UNCHANGED colorBusy
  ELSE colorBusy' = FALSE /\ UNCHANGED settingsBusy

\* The answer: what was sent is what is saved.
SaveAnswered(s) ==
  /\ s.at = "pushed"
  /\ form' = [form EXCEPT !.saved = s.config.box, !.savedColor = s.config.color]
  /\ patches' = patches \ {s} /\ Unblock(s)
  /\ disturbed' = (disturbed \/ Overtaken({"stored", "pushed"}))
  /\ UNCHANGED <<drag, preview, previews, record, agent, todo, troubles, modeVars>>

\* The request is refused, or its answer is lost.
SaveFails(s) ==
  /\ Trouble /\ patches' = patches \ {s} /\ Unblock(s)
  /\ disturbed' = (disturbed \/ s.at # "sent")
  /\ UNCHANGED <<form, drag, preview, previews, record, agent, todo, modeVars>>

-----------------------------------------------------------------------------
(* Modes.                                                                  *)

Mode(type, ads) == [type |-> type, ads |-> ads]
SavedLayout(copy) == IF copy.mode.ads # {} THEN copy.mode.ads ELSE copy.preferred

\* getSportDisplayLayoutPreferenceUpdate, where a preference is stored already,
Kept(preferred, mode) == IF mode.type \in SportTypes THEN mode.ads ELSE preferred

\* and what the page takes for the preferred layout after a mode.
Preferred(copy, mode) ==
  IF mode.type \in SportTypes THEN mode.ads
  ELSE IF copy.preferred # {} THEN copy.preferred ELSE copy.mode.ads

\* setMode, up to the answer; showTestPattern calls it and previews the box
\* that the page had then.
SetMode(type, box) ==
  /\ settingsBusy' = TRUE
  /\ modeSends' = modeSends \cup
       {[id |-> Number, by |-> "page", box |-> box, at |-> "sent", crossed |-> FALSE,
         mode |-> Mode(type, IF type \in SportTypes THEN SavedLayout(pageDevice) ELSE {})]}
  /\ UNCHANGED <<calibrationVars, pageDevice, adChanges, activeAds, record, agent, troubles, apart>>

ChooseMode == ~settingsBusy /\ Does("mode") /\ \E type \in SettingTypes : SetMode(type, NoBox)
ShowTestPattern == Does("mode") /\ SetMode("calibration", form.box)

Cross(s) == {[c EXCEPT !.crossed = TRUE] : c \in s}

\* The modes that changes of the advertisements still bring to the display, and
\* those, and the layouts, of which an answer will still tell the page.
Coming == {e.mode : e \in {c \in modeSends : c.by = "ads" /\ c.at = "sent"}}
Told == {e.mode : e \in {c \in modeSends : c.by = "page" /\ c.at = "shown"}}
ToldLayouts ==
  {m.ads : m \in {t \in Told : t.type \in SportTypes}} \cup {a.next : a \in {b \in adChanges : b.at = "kept"}}

\* The display shows a mode and the server keeps it, or only warns that it
\* cannot.  It crosses every change of the advertisements that is under way,
\* unless it comes from such a change itself and none has crossed that.
ShowMode(c) ==
  /\ c.at = "sent"
  /\ agent' = [agent EXCEPT !.mode = c.mode]
  /\ \/ /\ record' = [record EXCEPT !.mode = c.mode, !.preferred = Kept(@, c.mode)]
        /\ apart' = (apart \/ (c.by = "ads" /\ ~(pageDevice.mode \in Coming
                                               /\ pageDevice.preferred \in {m.ads : m \in Coming})))
        /\ UNCHANGED troubles
     \/ Trouble /\ UNCHANGED record /\ apart' = TRUE
  /\ LET crosses == c.by = "page" \/ c.crossed
     IN /\ modeSends' = (IF crosses THEN Cross(modeSends \ {c}) ELSE modeSends \ {c})
                        \cup {[c EXCEPT !.at = "shown"]}
        /\ adChanges' = IF crosses THEN Cross(adChanges) ELSE adChanges
  /\ UNCHANGED <<calibrationVars, settingsBusy, pageDevice, activeAds, todo>>

\* Mutant: the page forgets to note the new mode in its copy.
NotedPreferredOnly(copy, mode) == [copy EXCEPT !.preferred = Preferred(copy, mode)]

Noted(copy, mode) == [mode |-> mode, preferred |-> Preferred(copy, mode)]

\* The answer, or none: the page takes the mode for refused.  After a test
\* pattern the box of its closure is previewed.
ModeAnswered(c) ==
  /\ modeSends' = modeSends \ {c}
  /\ \/ c.at = "shown" /\ c.by = "page" /\ UNCHANGED troubles
        /\ pageDevice' = Noted(pageDevice, c.mode)
        /\ apart' = (apart \/ agent.mode \notin Told
                     \/ (c.mode.type \in SportTypes /\ record.preferred \notin ToldLayouts))
     \/ c.at = "shown" /\ c.by = "ads" /\ UNCHANGED <<pageDevice, troubles, apart>>
     \/ Trouble /\ UNCHANGED pageDevice
        /\ apart' = (apart \/ (c.by = "page") = (c.at = "shown"))
  /\ IF c.by = "page" THEN settingsBusy' = FALSE ELSE UNCHANGED settingsBusy
  /\ IF c.box = NoBox THEN UNCHANGED <<preview, previews, disturbed>>
     ELSE QueuePreview(c.box) /\ disturbed' = (disturbed \/ c.box # form.box)
  /\ UNCHANGED <<form, drag, colorBusy, patches, adChanges, activeAds, record, agent, todo>>

\* Another page sets the mode of the display.
SetElsewhere ==
  /\ Does("mode")
  /\ \E type \in SettingTypes \ {agent.mode.type} :
       LET mode == Mode(type, {})
       IN /\ agent' = [agent EXCEPT !.mode = mode]
          /\ record' = [record EXCEPT !.mode = mode, !.preferred = Kept(@, mode)]
  /\ modeSends' = Cross(modeSends) /\ adChanges' = Cross(adChanges) /\ apart' = TRUE
  /\ UNCHANGED <<calibrationVars, settingsBusy, pageDevice, activeAds, troubles>>

-----------------------------------------------------------------------------
(* Advertisements: uploadMediaAsset, setMediaAssetActive, deleteMediaAsset *)
(* and reconcileActiveSportLayoutAds.                                      *)

To(a, stage) == [a EXCEPT !.at = stage]
AdStep(a, b) == adChanges' = (adChanges \ {a}) \cup {b}

StartAdChange ==
  /\ Does("ads")
  /\ \E ad \in Creatives :
       adChanges' = adChanges \cup
         {[id |-> Number, ad |-> ad, copy |-> pageDevice, at |-> "asked", next |-> {},
           crossed |-> apart \/ modeSends # {}]}
  /\ UNCHANGED <<calibrationVars, settingsBusy, pageDevice, modeSends, activeAds, record, agent, troubles, apart>>

\* The server adds, activates, deactivates or deletes the creative.
ChangeAd(a) ==
  /\ a.at = "asked" /\ AdStep(a, To(a, "changed"))
  /\ activeAds' = IF a.ad \in activeAds THEN activeAds \ {a.ad} ELSE activeAds \cup {a.ad}
  /\ UNCHANGED <<calibrationVars, settingsBusy, pageDevice, modeSends, record, agent, todo, troubles, apart>>

\* The page fetches the list; without a saved layout that is all.
ListAds(a) ==
  /\ a.at = "changed"
  /\ IF SavedLayout(a.copy) = {} THEN adChanges' = adChanges \ {a}
     ELSE AdStep(a, [To(a, "listed") EXCEPT !.next = activeAds])
  /\ UNCHANGED <<calibrationVars, settingsBusy, pageDevice, modeSends, activeAds, record, agent, todo,
                 troubles, apart>>

\* reconcileSportDisplayLayoutPreference: the stored mode, not the page's copy,
\* takes the layout if it has one.
Reconciled(r, ads) ==
  [r EXCEPT !.preferred = ads,
            !.mode.ads = IF r.mode.type \in SportTypes /\ @ # {} THEN ads ELSE @]

\* Whether the copy of the device shows a layout.
Shows(copy) == copy.mode.type \in SportTypes /\ copy.mode.ads # {}

\* PATCH /sport-display-layout
KeepLayout(a) ==
  /\ a.at = "listed" /\ AdStep(a, To(a, "kept"))
  /\ record' = Reconciled(record, a.next)
  /\ apart' = (apart \/ (record'.mode # record.mode /\ ~Shows(a.copy)))
  /\ UNCHANGED <<calibrationVars, settingsBusy, pageDevice, modeSends, activeAds, agent, todo, troubles>>

\* Its answer: the mode of the copy is sent with the new layout, if it had one.
LayoutKept(a) ==
  LET mode == Mode(a.copy.mode.type, a.next)
      shows == Shows(a.copy)
  IN /\ a.at = "kept" /\ adChanges' = adChanges \ {a}
     /\ pageDevice' = [mode |-> IF shows THEN mode ELSE pageDevice.mode, preferred |-> a.next]
     /\ modeSends' = IF shows
          THEN modeSends \cup {[id |-> a.id, by |-> "ads", box |-> NoBox, at |-> "sent",
                                crossed |-> a.crossed, mode |-> mode]}
          ELSE modeSends
     /\ apart' = (apart \/ (~shows /\ ~(pageDevice.mode.ads = {} /\ record.preferred \in ToldLayouts)))
     /\ UNCHANGED <<calibrationVars, settingsBusy, activeAds, record, agent, todo, troubles>>

\* One of the requests fails, which ends the change.
AdChangeFails(a) ==
  /\ Trouble /\ adChanges' = adChanges \ {a}
  /\ apart' = (apart \/ a.at = "kept")
  /\ UNCHANGED <<calibrationVars, settingsBusy, pageDevice, modeSends, activeAds, record, agent, todo>>

-----------------------------------------------------------------------------
\* fetchDevice: the page starts from what is stored, and the display agrees.
SettingsInit ==
  \E ads \in {{}, Creatives}, type \in {"basketball", "calibration"} :
    LET mode == Mode(type, IF type \in SportTypes THEN ads ELSE {})
        config == Config(Full, TRUE)
    IN /\ form = [box |-> Full, saved |-> Full, color |-> TRUE, savedColor |-> TRUE]
       /\ drag = NoBox /\ preview = Quiet /\ settingsBusy = FALSE /\ colorBusy = FALSE
       /\ previews = <<>> /\ patches = {} /\ modeSends = {} /\ adChanges = {}
       /\ pageDevice = [mode |-> mode, preferred |-> ads] /\ activeAds = ads
       /\ record = [config |-> config, mode |-> mode, preferred |-> ads]
       /\ agent = [config |-> config, preview |-> NoBox, mode |-> mode]
       /\ todo \in Sittings /\ troubles = 0
       /\ disturbed = FALSE /\ apart = FALSE

SettingsNext ==
  \/ PreviewTimer \/ TenthPasses \/ StartDrag \/ MoveDrag \/ EndDrag \/ ResetOrRotate
  \/ ToggleColor \/ PreviewArrives \/ PreviewLost \/ Save
  \/ \E s \in patches : StoreConfig(s) \/ PushConfig(s) \/ SaveAnswered(s) \/ SaveFails(s)
  \/ ChooseMode \/ ShowTestPattern \/ SetElsewhere
  \/ \E c \in modeSends : ShowMode(c) \/ ModeAnswered(c)
  \/ StartAdChange
  \/ \E a \in adChanges : ChangeAd(a) \/ ListAds(a) \/ KeepLayout(a) \/ LayoutKept(a) \/ AdChangeFails(a)

SettingsSpec == SettingsInit /\ [][SettingsNext]_settingsVars

-----------------------------------------------------------------------------
(* Properties.                                                             *)

\* Types; no drag and no clamping puts the box outside the canvas.
SettingsTypeOK ==
  /\ form \in [box : Boxes, saved : Boxes, color : BOOLEAN, savedColor : BOOLEAN]
  /\ preview \in [latest : Boxes \cup {NoBox}, timer : BOOLEAN, recent : BOOLEAN]
  /\ previews \in Seq(Configs)
  /\ \A s \in patches : s.config \in Configs /\ s.at \in {"sent", "stored", "pushed"}
  /\ agent.config \in Configs /\ agent.preview \in Configs \cup {NoBox}
  /\ activeAds \subseteq Creatives
  /\ {settingsBusy, colorBusy, disturbed, apart} \subseteq BOOLEAN

\* When no preview is left the display draws in the box that the page shows,
\* however fast it was dragged; when no save is, it has the configuration that
\* the page and the server call saved; when no mode and no advertisement is,
\* the mode and the layout on the page are those of the display and the
\* server.  Requests may overlap; the exceptions, "disturbed" and "apart", are
\* the events in which one is lost, comes after one that had passed it, ends a
\* later preview, or meets what the page does not know.
SettingsReachTheDisplay ==
  /\ previews = <<>> /\ preview.latest = NoBox /\ ~disturbed => Effective.box = form.box
  /\ patches = {} /\ ~disturbed =>
       agent.config = record.config /\ record.config = Config(form.saved, form.savedColor)
  /\ modeSends = {} /\ adChanges = {} /\ ~apart =>
       /\ agent.mode = pageDevice.mode /\ agent.mode = record.mode
       /\ record.preferred = pageDevice.preferred

\* A change of the advertisements, which may take as long as an upload, never
\* moves the display to another mode, unless somebody set the mode meanwhile.
AdsKeepTheMode ==
  [][\A c \in modeSends :
       (c.by = "ads" /\ ~c.crossed /\ c.at = "sent" /\ [c EXCEPT !.at = "shown"] \in modeSends')
         => agent'.mode.type = agent.mode.type]_settingsVars
=============================================================================
