----------------------------- MODULE MCPlatform -----------------------------
(* Instances for TLC of the components that share no state with each other: *)
(* the pages, the overlays, the lists, the accounts, the rate limiter and   *)
(* the updates.  One run checks them all, one at a time: "focus" is the     *)
(* component that moves, the others stay as one of their initial states.    *)
EXTENDS ControlPage, PracticeBoard, PitchKount, SavedLists, Presentation, Accounts,
        RateLimiter, SoftwareUpdate, DisplaySettings, TLC

CONSTANTS here, there,     \* two displays of a game
          d1, d2, d3,      \* three displays that register
          x, y, adams, baker  \* browsers and administrators

VARIABLE focus

AllLayouts == {"two-panel", "three-panel", "behaviours"}
Game(page, selected, offers, runs, layout, idle) ==
  [sport |-> page, selection |-> selected, capabilities |-> offers, running |-> runs, layout |-> layout,
   idle |-> idle]

\* Pages on their own and with a selection, a game that runs and one that
\* stands, boards that know every layout or one, one that shows no game yet.
MCGames ==
  { Game("basketball", {there}, {"three-panel"}, TRUE, "full", FALSE),
    Game("volleyball", {here}, AllLayouts, TRUE, "three-panel", TRUE),
    Game("wrestling", {here, there}, AllLayouts, FALSE, "full", FALSE) }

Period(id, u, length) == [id |-> id, unit |-> u, length |-> length, entries |-> 1]

\* A practice under way, with a page of offense and one of defense, and a
\* board that nobody has planned, for the display while other parts move.
UnderWay ==
  [drills |-> <<Period(1, "offense", 2), Period(2, "defense", 1)>>, active |-> 1,
   status |-> "running", left |-> 1, startedAt |-> 1, overviewUntil |-> 0,
   weather |-> FALSE, logo |-> FALSE]
Unplanned ==
  [drills |-> <<>>, active |-> 0, status |-> "idle", left |-> 0, startedAt |-> 0,
   overviewUntil |-> 0, weather |-> FALSE, logo |-> FALSE]
MCStartBoards == {UnderWay, Unplanned}

\* Both administrators have signed in.
MCSignedIn == x :> adams @@ y :> baker

\* Two displays of a school, and one elsewhere.
MCAddress == d1 :> "school" @@ d2 :> "school" @@ d3 :> "elsewhere"

\* What the operator does on the settings page: drags and saves, saves twice,
\* drags and sets modes, changes the advertisements and sets modes.
Sitting(pointer, config, modes, adSteps) ==
  [pointer |-> pointer, config |-> config, mode |-> modes, ads |-> adSteps]
MCSittings ==
  { Sitting(2, 1, 0, 0), Sitting(1, 2, 0, 0), Sitting(1, 0, 2, 0), Sitting(0, 0, 1, 2),
    Sitting(0, 0, 2, 1) }

Parts == {"control", "practice", "pitches", "lists", "overlays", "accounts", "rates", "updates",
          "settings"}

Init ==
  /\ focus \in Parts
  /\ ControlInit /\ PracticeInit /\ PitchInit /\ ListInit /\ PresentationInit
  /\ AccountsInit /\ RateInit /\ UpdateInit /\ SettingsInit
  /\ focus # "control" => sport = "volleyball"
  /\ display = IF focus = "practice" THEN UnderWay ELSE Unplanned
  /\ focus # "pitches" => onDisplay = Blank(CHOOSE card \in Cards : TRUE)
  /\ focus # "lists" => kind = "preload"
  /\ todo["pointer"] > 0 \/ focus # "settings" => pageDevice.mode = Mode("basketball", Creatives)
  /\ focus # "settings" => todo = Sitting(2, 1, 0, 0)
  /\ pageDevice.preferred = Creatives \/ todo = Sitting(0, 0, 1, 2)

\* The variables of the other components, for each of them.
Next ==
  \/ /\ focus = "control" /\ ControlNext
     /\ UNCHANGED <<focus, practiceVars, pitchVars, listVars, presentationVars, accountVars, rateVars, updateVars, settingsVars>>
  \/ /\ focus = "practice" /\ PracticeNext
     /\ UNCHANGED <<focus, controlVars, pitchVars, listVars, presentationVars, accountVars, rateVars, updateVars, settingsVars>>
  \/ /\ focus = "pitches" /\ PitchNext
     /\ UNCHANGED <<focus, controlVars, practiceVars, listVars, presentationVars, accountVars, rateVars, updateVars, settingsVars>>
  \/ /\ focus = "lists" /\ ListNext
     /\ UNCHANGED <<focus, controlVars, practiceVars, pitchVars, presentationVars, accountVars, rateVars, updateVars, settingsVars>>
  \/ /\ focus = "overlays" /\ PresentationNext
     /\ UNCHANGED <<focus, controlVars, practiceVars, pitchVars, listVars, accountVars, rateVars, updateVars, settingsVars>>
  \/ /\ focus = "accounts" /\ AccountsNext
     /\ UNCHANGED <<focus, controlVars, practiceVars, pitchVars, listVars, presentationVars, rateVars, updateVars, settingsVars>>
  \/ /\ focus = "rates" /\ RateNext
     /\ UNCHANGED <<focus, controlVars, practiceVars, pitchVars, listVars, presentationVars, accountVars, updateVars, settingsVars>>
  \/ /\ focus = "updates" /\ UpdateNext
     /\ UNCHANGED <<focus, controlVars, practiceVars, pitchVars, listVars, presentationVars, accountVars, rateVars, settingsVars>>
  \/ /\ focus = "settings" /\ SettingsNext
     /\ UNCHANGED <<focus, controlVars, practiceVars, pitchVars, listVars, presentationVars, accountVars, rateVars, updateVars>>

PlatformVars == <<focus, controlVars, practiceVars, pitchVars, listVars, presentationVars,
                  accountVars, rateVars, updateVars, settingsVars>>

Spec == Init /\ [][Next]_PlatformVars
=============================================================================
