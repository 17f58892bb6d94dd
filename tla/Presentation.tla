---------------------------- MODULE Presentation ----------------------------
(***************************************************************************)
(* Overlays over the game: an advertisement, a horn, an alert.             *)
(*                                                                         *)
(* The page (GamePresentationControls.tsx) sends one overlay at a time;    *)
(* the server normalises it, pushes it and stores it when it was           *)
(* acknowledged (command/route.ts, lib/device-command.ts).  The agent      *)
(* writes it to state.json and ends a timed one itself, with a timer that  *)
(* only its memory holds (socket-client.ts).  The kiosk polls the agent    *)
(* without waiting for the poll before (useLocalApi.ts) and sounds the     *)
(* horn when what it is given changes (PresentationOverlay.tsx).           *)
(*                                                                         *)
(* startedAt is a number of its own for every overlay that is made (the    *)
(* code takes the clock); titles, colours and media are left out, except   *)
(* that an advertisement turns a playlist of two.                          *)
(***************************************************************************)
EXTENDS Naturals, Sequences

CONSTANTS
  MaxOverlays,   \* bound on the overlays that are sent or ended
  MaxPolls,      \* bound on the polls under way at once
  MaxReadings,   \* bound on all polls
  MaxUpsets      \* bound on timeouts, restarts, reloads and failing writes

ASSUME PresentationAssumption == {MaxOverlays, MaxPolls, MaxReadings, MaxUpsets} \subseteq Nat

VARIABLES
  awaited,    \* the command the page waits for, with what has become of it
  push,       \* overlays on their way to the agent
  persisted,  \* presentationOverlay of the display's displayState
  onDisk,     \* presentationOverlay of state.json
  endTimer,   \* the overlay that presentationOverlayClearTimer will end, or none
  polls,      \* answers of /local/state on their way to the kiosk
  onScreen,   \* the overlay that the kiosk has been given last
  slide,      \* playlistIndex
  sounded,    \* history: how often each overlay has sounded the horn, counted to 2
  made, readings, upsets,
  unended,    \* history: a restart or a failed write took the timer of the overlay on disk
  disordered  \* history: the kiosk was given an older answer after a newer one, or was reloaded

presentationVars == <<awaited, push, persisted, onDisk, endTimer, polls, onScreen, slide,
                      sounded, made, readings, upsets, unended, disordered>>

-----------------------------------------------------------------------------
\* PRESENTATION_GROUPS: the advertisement turns, the horn has a duration and
\* the alert stays; the other actions of the groups behave as one of these.
OverlayTypes == {"advertisement", "sound-horn", "emergency-weather", "clear"}

Overlays == [type : OverlayTypes, active : BOOLEAN, startedAt : 0..MaxOverlays]
NoOverlay == [type |-> "clear", active |-> FALSE, startedAt |-> 0]
Nothing == [overlay |-> NoOverlay, fate |-> "none"]

\* durationMs of PRESENTATION_GROUPS.
Lasts(o) == o.type = "sound-horn"

\* normalizePresentationOverlay: the server stamps the overlay anew, and only
\* "clear" is never active.
NormalizedOverlay(type) == [type |-> type, active |-> type # "clear", startedAt |-> made + 1]

-----------------------------------------------------------------------------
PresentationInit ==
  /\ awaited = Nothing
  /\ push = <<>>
  /\ persisted = NoOverlay /\ onDisk = NoOverlay /\ endTimer = NoOverlay
  /\ polls = <<>> /\ onScreen = NoOverlay /\ slide = 0
  /\ sounded = [n \in 0..MaxOverlays |-> 0]
  /\ made = 0 /\ readings = 0 /\ upsets = 0
  /\ unended = FALSE /\ disordered = FALSE

\* Every button is disabled while one is pending.
ButtonsEnabled == awaited = Nothing

\* sendPresentation, clearPresentation.
SendPresentation(type) ==
  /\ ButtonsEnabled
  /\ made < MaxOverlays
  /\ awaited' = [overlay |-> NormalizedOverlay(type), fate |-> "sent"]
  /\ push' = Append(push, NormalizedOverlay(type))
  /\ made' = made + 1
  /\ UNCHANGED <<persisted, onDisk, endTimer, polls, onScreen, slide, sounded, readings, upsets,
                 unended, disordered>>

\* The acknowledgement does not come in time (2500 ms, or no display in the
\* room); the packet may still arrive.
SendTimesOut ==
  /\ awaited.fate = "sent" /\ upsets < MaxUpsets
  /\ awaited' = Nothing
  /\ upsets' = upsets + 1
  /\ UNCHANGED <<push, persisted, onDisk, endTimer, polls, onScreen, slide, sounded, made, readings,
                 unended, disordered>>

\* What the agent's acknowledgement makes of the command that waits.
OverlayAcknowledged(o, ok) ==
  awaited' = IF awaited.overlay = o
             THEN [awaited EXCEPT !.fate = IF ok THEN "applied" ELSE "refused"]
             ELSE awaited

\* Mutant: the timer of the overlay before goes on.
ApplyOverlayUncleared ==
  /\ push # <<>>
  /\ LET o == Head(push) IN
     /\ onDisk' = o
     /\ endTimer' = IF o.active /\ Lasts(o) THEN o ELSE endTimer
     /\ OverlayAcknowledged(o, TRUE)
  /\ push' = Tail(push)
  /\ unended' = FALSE
  /\ UNCHANGED <<persisted, polls, onScreen, slide, sounded, made, readings, upsets, disordered>>

\* applyPresentationOverlay: the timer of the overlay before is cleared, the
\* new overlay is written, and its own timer is set.
ApplyOverlay ==
  /\ push # <<>>
  /\ LET o == Head(push) IN
     /\ onDisk' = o
     /\ endTimer' = IF o.active /\ Lasts(o) THEN o ELSE NoOverlay
     /\ OverlayAcknowledged(o, TRUE)
  /\ push' = Tail(push)
  /\ unended' = FALSE
  /\ UNCHANGED <<persisted, polls, onScreen, slide, sounded, made, readings, upsets, disordered>>

\* saveState throws: the timer before is gone already, what it was to end stays.
ApplyFails ==
  /\ push # <<>> /\ upsets < MaxUpsets
  /\ OverlayAcknowledged(Head(push), FALSE)
  /\ push' = Tail(push)
  /\ unended' = (unended \/ endTimer # NoOverlay)
  /\ endTimer' = NoOverlay
  /\ upsets' = upsets + 1
  /\ UNCHANGED <<persisted, onDisk, polls, onScreen, slide, sounded, made, readings, disordered>>

\* persistPresentationOverlay and the answer: an overlay that was applied is
\* stored; a failing write is only logged.
AnswerPresentation ==
  /\ awaited.fate \in {"applied", "refused"}
  /\ awaited' = Nothing
  /\ \/ /\ awaited.fate = "applied"
        /\ persisted' = awaited.overlay
        /\ UNCHANGED upsets
     \/ /\ awaited.fate = "applied" /\ upsets < MaxUpsets
        /\ upsets' = upsets + 1
        /\ UNCHANGED persisted
     \/ /\ awaited.fate = "refused"
        /\ UNCHANGED <<persisted, upsets>>
  /\ UNCHANGED <<push, onDisk, endTimer, polls, onScreen, slide, sounded, made, readings, unended,
                 disordered>>

\* The callback of presentationOverlayClearTimer.
EndFires ==
  /\ endTimer # NoOverlay /\ made < MaxOverlays
  /\ onDisk' = [endTimer EXCEPT !.active = FALSE, !.startedAt = made + 1]
  /\ endTimer' = NoOverlay
  /\ made' = made + 1
  /\ UNCHANGED <<awaited, push, persisted, polls, onScreen, slide, sounded, readings, upsets,
                 unended, disordered>>

\* The agent is restarted, or a throwing write in that callback ends it: the
\* timer is lost, packets on their way too.
OverlayAgentRestarts ==
  /\ upsets < MaxUpsets
  /\ unended' = (unended \/ endTimer # NoOverlay)
  /\ endTimer' = NoOverlay
  /\ push' = <<>>
  /\ upsets' = upsets + 1
  /\ UNCHANGED <<awaited, persisted, onDisk, polls, onScreen, slide, sounded, made, readings,
                 disordered>>

-----------------------------------------------------------------------------
\* fetchData, every 200 ms whether or not the poll before has been answered.
PollReads ==
  /\ Len(polls) < MaxPolls /\ readings < MaxReadings
  /\ polls' = Append(polls, onDisk)
  /\ readings' = readings + 1
  /\ UNCHANGED <<awaited, push, persisted, onDisk, endTimer, onScreen, slide, sounded, made, upsets,
                 unended, disordered>>

\* Mutant: every poll that finds the horn on sounds it.
SoundsHornEachTime(o) == o.type = "sound-horn" /\ o.active

\* The effects of PresentationOverlay: what they depend on has changed, and
\* the horn is on.
SoundsHorn(o) == o # onScreen /\ o.type = "sound-horn" /\ o.active

\* Another startedAt or type begins the playlist anew.
SlideAfter(o) == IF <<o.startedAt, o.type>> # <<onScreen.startedAt, onScreen.type>> THEN 0 ELSE slide

\* setState with an answer, in whatever order the answers come.
PollArrives(i) ==
  /\ i \in DOMAIN polls
  /\ sounded' = [sounded EXCEPT ![polls[i].startedAt] =
                   IF SoundsHorn(polls[i]) /\ @ < 2 THEN @ + 1 ELSE @]
  /\ slide' = SlideAfter(polls[i])
  /\ onScreen' = polls[i]
  /\ polls' = [j \in 1..(Len(polls) - 1) |-> polls[IF j < i THEN j ELSE j + 1]]
  /\ disordered' = (disordered \/ i # 1)
  /\ UNCHANGED <<awaited, push, persisted, onDisk, endTimer, made, readings, upsets, unended>>

\* The interval that turns a playlist.
SlideTurns ==
  /\ onScreen.active /\ onScreen.type = "advertisement"
  /\ slide' = (slide + 1) % 2
  /\ UNCHANGED <<awaited, push, persisted, onDisk, endTimer, polls, onScreen, sounded, made,
                 readings, upsets, unended, disordered>>

\* The kiosk's browser starts again and knows no overlay.
KioskReloads ==
  /\ upsets < MaxUpsets
  /\ onScreen' = NoOverlay /\ slide' = 0 /\ polls' = <<>>
  /\ disordered' = TRUE
  /\ upsets' = upsets + 1
  /\ UNCHANGED <<awaited, push, persisted, onDisk, endTimer, sounded, made, readings, unended>>

PresentationNext ==
  \/ \E type \in OverlayTypes : SendPresentation(type)
  \/ SendTimesOut \/ ApplyOverlay \/ ApplyFails \/ AnswerPresentation \/ EndFires
  \/ OverlayAgentRestarts
  \/ PollReads \/ SlideTurns \/ KioskReloads
  \/ \E i \in 1..MaxPolls : PollArrives(i)

PresentationSpec == PresentationInit /\ [][PresentationNext]_presentationVars

-----------------------------------------------------------------------------
PresentationTypeOK ==
  /\ awaited \in [overlay : Overlays, fate : {"none", "sent", "applied", "refused"}]
  /\ push \in Seq(Overlays) /\ polls \in Seq(Overlays)
  /\ {persisted, onDisk, endTimer, onScreen} \subseteq Overlays
  /\ slide \in 0..1
  /\ sounded \in [0..MaxOverlays -> 0..2]
  /\ made \in 0..MaxOverlays /\ readings \in 0..MaxReadings /\ upsets \in 0..MaxUpsets
  /\ unended \in BOOLEAN /\ disordered \in BOOLEAN

\* A timer that is set ends exactly the overlay that is on the display, never
\* one that has replaced it; and an overlay with a duration has its timer,
\* unless a restart or a failing write of the agent took it
\* (applyPresentationOverlay).
EndBelongsToOverlay ==
  /\ endTimer # NoOverlay => endTimer = onDisk
  /\ onDisk.active /\ Lasts(onDisk) /\ ~unended => endTimer = onDisk

\* A horn is sounded at most once for each command, although the kiosk is
\* given it with every poll for as long as it lasts; only answers out of order
\* or a reload repeat it (the effects of PresentationOverlay).
HornOncePerCommand == disordered \/ \A n \in 0..MaxOverlays : sounded[n] <= 1

=============================================================================
