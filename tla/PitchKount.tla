----------------------------- MODULE PitchKount -----------------------------
(***************************************************************************)
(* The page that counts pitches on a baseball display,                     *)
(* app/(dashboard)/devices/[deviceId]/pitchkount/page.tsx.                 *)
(*                                                                         *)
(* Every press that counts is shown at once, sent, and taken back when the *)
(* display refuses it; the buttons that count are disabled meanwhile.  The *)
(* card of the pitcher is edited without being sent.  The photo is         *)
(* uploaded first and sent with the totals of the moment of the press.     *)
(* Pitchers are saved as profiles of the account and applied later.        *)
(*                                                                         *)
(* Strikes stand for strikes, balls and the speed; a card for the name and *)
(* the season's statistics.                                                *)
(***************************************************************************)
EXTENDS Naturals, FiniteSets

CONSTANTS
  Cards,         \* what may be on the card of a pitcher
  ProfileIds,    \* saved profiles
  MaxPitches,    \* normalizePitchKountState bounds a total (999)
  MaxInputs, MaxRefusals   \* bounds of a run

ASSUME PitchKountAssumption ==
  /\ Cards # {} /\ MaxPitches \in Nat \ {0} /\ {MaxInputs, MaxRefusals} \subseteq Nat

VARIABLES
  pitcher,     \* pitchKount, the state the page shows
  busy,        \* sending
  pitchCalls,  \* set_mode commands under way
  photos,      \* uploads under way, with the state their closure holds
  onDisplay,   \* what the server has stored for the display
  profiles,    \* the saved profiles of the account
  shelf,       \* and the list of them that the page shows
  profile,     \* activePlayerId
  filing,      \* a request to save a profile, or none
  acting,      \* playerActionId: a profile that is applied or deleted, or none
  deleting,    \* deletions under way, with the choice their closures hold
  inputs, refusals,
  tally,       \* history: the total that the operator has been told or has loaded
  draft,       \* history: the page shows a card or a profile that was never sent
  astray       \* history: a photo took a pitch back, two commands were under way
               \* at once, another pitcher was loaded under one, or an answer was
               \* lost, and page, display and tally have not agreed since

pitchVars == <<pitcher, busy, pitchCalls, photos, onDisplay, profiles, shelf, profile,
               filing, acting, deleting, inputs, refusals, tally, draft, astray>>

-----------------------------------------------------------------------------
NoProfile == "none"
NotFiling == [id |-> NoProfile]
PitchStates == [pitches : 0..MaxPitches, strikes : 0..MaxPitches, card : Cards, photo : BOOLEAN]
Blank(card) == [pitches |-> 0, strikes |-> 0, card |-> card, photo |-> FALSE]

\* normalizePitchKountState bounds the totals.
Bounded(n) == IF n > MaxPitches THEN MaxPitches ELSE n
NormalizePitchKount(s) == [s EXCEPT !.pitches = Bounded(@), !.strikes = Bounded(@)]

PitchInput == inputs < MaxInputs /\ inputs' = inputs + 1

-----------------------------------------------------------------------------
(* Sending.                                                                *)

\* sendState; "then" is the profile that a success makes the active one.
SendState(kind, s, back, then) ==
  LET next == NormalizePitchKount(s)
  IN /\ pitcher' = next /\ busy' = TRUE
     /\ pitchCalls' = pitchCalls \cup {[kind |-> kind, state |-> next, back |-> back, then |-> then,
          draft |-> draft, place |-> Cardinality(pitchCalls), stage |-> "sent"]}
     /\ draft' = FALSE /\ astray' = (astray \/ pitchCalls # {})

KeepPage == UNCHANGED <<photos, onDisplay, profiles, shelf, profile, filing, deleting, refusals, tally>>

\* A button that is disabled while something is being sent.
Live(kind, s) == ~busy /\ PitchInput /\ SendState(kind, s, pitcher, "keep") /\ KeepPage /\ UNCHANGED acting

\* recordPitch: a pitch that is a strike, or one that is not.
RecordPitch ==
  \E strike \in {0, 1} :
    Live("pitch", [pitcher EXCEPT !.pitches = @ + 1, !.strikes = @ + strike])

\* Stepper: a total is corrected by one.
Step ==
  \/ pitcher.pitches > 0 /\ Live("set", [pitcher EXCEPT !.pitches = @ - 1])
  \/ pitcher.pitches < MaxPitches /\ Live("set", [pitcher EXCEPT !.pitches = @ + 1])

ResetTotals == Live("set", [pitcher EXCEPT !.pitches = 0, !.strikes = 0])

SendCard == Live("set", pitcher)

RemovePhoto == pitcher.photo /\ photos = {} /\ Live("set", [pitcher EXCEPT !.photo = FALSE])

\* updateDraft: an edited card is no longer the profile it came from.
UpdateDraft ==
  /\ PitchInput /\ profile' = NoProfile
  /\ \E card \in Cards \ {pitcher.card} : pitcher' = [pitcher EXCEPT !.card = card]
  /\ draft' = TRUE
  /\ UNCHANGED <<busy, pitchCalls, photos, onDisplay, profiles, shelf, filing, acting, deleting,
                 refusals, tally, astray>>

\* uploadHeadshot, up to its first await and after it.
UploadHeadshot ==
  /\ ~busy /\ photos = {} /\ PitchInput
  /\ photos' = {pitcher}
  /\ UNCHANGED <<pitcher, busy, pitchCalls, onDisplay, profiles, shelf, profile, filing, acting,
                 deleting, refusals, tally, draft, astray>>

HeadshotStored(s) ==
  /\ photos' = photos \ {s}
  /\ pitcher' = [s EXCEPT !.photo = TRUE] /\ busy' = TRUE
  /\ pitchCalls' = pitchCalls \cup {[kind |-> "photo", state |-> [s EXCEPT !.photo = TRUE], back |-> s,
       then |-> "keep", draft |-> draft \/ s # pitcher, place |-> Cardinality(pitchCalls), stage |-> "sent"]}
  /\ draft' = FALSE /\ astray' = (astray \/ pitchCalls # {} \/ s.pitches # pitcher.pitches)
  /\ UNCHANGED <<onDisplay, profiles, shelf, profile, filing, acting, deleting, inputs, refusals, tally>>

HeadshotFails(s) ==
  /\ refusals < MaxRefusals /\ refusals' = refusals + 1
  /\ photos' = photos \ {s}
  /\ UNCHANGED <<pitcher, busy, pitchCalls, onDisplay, profiles, shelf, profile, filing, acting,
                 deleting, inputs, tally, draft, astray>>

-----------------------------------------------------------------------------
(* The server and its answers.                                             *)

StorePitch(c) ==
  /\ c.stage = "sent"
  /\ onDisplay' = c.state
  /\ pitchCalls' = (pitchCalls \ {c}) \cup {[c EXCEPT !.stage = "stored"]}
  /\ UNCHANGED <<pitcher, busy, photos, profiles, shelf, profile, filing, acting, deleting,
                 inputs, refusals, tally, draft, astray>>

\* A notice says what has been recorded or set; a profile that was applied
\* becomes the active one.
AnswerPitch(c) ==
  /\ c.stage = "stored"
  /\ pitchCalls' = pitchCalls \ {c} /\ busy' = FALSE
  /\ IF c.then = "keep" THEN UNCHANGED <<profile, acting>>
                        ELSE profile' = c.then /\ acting' = NoProfile
  /\ tally' = CASE c.kind = "pitch" -> Bounded(tally + 1) [] c.kind = "photo" -> tally
                [] OTHER -> c.state.pitches
  /\ astray' = (astray /\ ~(pitchCalls = {c} /\ pitcher = onDisplay /\ tally' = onDisplay.pitches))
  /\ UNCHANGED <<pitcher, photos, onDisplay, profiles, shelf, filing, deleting, inputs, refusals, draft>>

\* Mutant: a refused pitch stays on the page.
FailPitchKept(c) ==
  /\ refusals < MaxRefusals /\ refusals' = refusals + 1
  /\ pitchCalls' = pitchCalls \ {c} /\ busy' = FALSE
  /\ acting' = IF c.then = "keep" THEN acting ELSE NoProfile
  /\ draft' = c.draft /\ astray' = (astray \/ c.stage = "stored")
  /\ UNCHANGED <<pitcher, photos, onDisplay, profiles, shelf, profile, filing, deleting, inputs, tally>>

\* Refused, or no answer (stored or not): what was shown before the press.
FailPitch(c) ==
  /\ refusals < MaxRefusals /\ refusals' = refusals + 1
  /\ pitcher' = c.back
  /\ pitchCalls' = pitchCalls \ {c} /\ busy' = FALSE
  /\ acting' = IF c.then = "keep" THEN acting ELSE NoProfile
  /\ draft' = c.draft /\ astray' = (astray \/ c.stage = "stored")
  /\ UNCHANGED <<photos, onDisplay, profiles, shelf, profile, filing, deleting, inputs, tally>>

-----------------------------------------------------------------------------
(* Profiles.  A request for them is stored and answered in one step.       *)

\* What is loaded is for the operator to see, and not yet for the display.
Loaded == tally' = pitcher'.pitches /\ draft' = TRUE /\ astray' = (astray \/ pitchCalls # {})

LoadPlayer(p) ==
  /\ PitchInput
  /\ pitcher' = p.state /\ profile' = p.id /\ Loaded
  /\ UNCHANGED <<busy, pitchCalls, photos, onDisplay, profiles, shelf, filing, acting, deleting, refusals>>

\* syncPlayer of a saved profile looks only at an action on this profile; of
\* the state that is shown ("Apply this profile"), at a command under way.
SyncPlayer(p) ==
  /\ acting # p.id /\ PitchInput
  /\ SendState("set", p.state, pitcher, p.id) /\ acting' = p.id
  /\ KeepPage

ApplyThisProfile ==
  /\ ~busy /\ PitchInput
  /\ SendState("set", pitcher, pitcher, NoProfile) /\ acting' = NoProfile
  /\ KeepPage

NewProfile ==
  /\ filing = NotFiling /\ PitchInput
  /\ \E card \in Cards : pitcher' = Blank(card)
  /\ profile' = NoProfile /\ Loaded
  /\ UNCHANGED <<busy, pitchCalls, photos, onDisplay, profiles, shelf, filing, acting, deleting, refusals>>

\* The list is fetched again after a change of the profiles; when that fails
\* the page keeps the one it has.
LoadSavedPlayers ==
  \/ shelf' = profiles' /\ UNCHANGED refusals
  \/ refusals < MaxRefusals /\ refusals' = refusals + 1 /\ UNCHANGED shelf

SavePlayer ==
  /\ filing = NotFiling /\ PitchInput
  /\ filing' = [id |-> profile, state |-> pitcher]
  /\ UNCHANGED <<pitcher, busy, pitchCalls, photos, onDisplay, profiles, shelf, profile, acting,
                 deleting, refusals, tally, draft, astray>>

\* The active profile is updated or a new one is made; it becomes the active
\* one whatever has been loaded meanwhile.
PlayerSaved ==
  \E id \in ProfileIds :
    /\ filing # NotFiling /\ filing' = NotFiling
    /\ IF filing.id = NoProfile THEN id \notin {p.id : p \in profiles}
       ELSE id = filing.id /\ id \in {p.id : p \in profiles}
    /\ profiles' = {p \in profiles : p.id # id} \cup {[id |-> id, state |-> filing.state]}
    /\ profile' = id /\ LoadSavedPlayers
    /\ UNCHANGED <<pitcher, busy, pitchCalls, photos, onDisplay, acting, deleting, inputs, tally, draft, astray>>

\* Refused, or the profile to be updated has been deleted.
PlayerNotSaved ==
  /\ filing # NotFiling /\ filing' = NotFiling
  /\ IF filing.id # NoProfile /\ filing.id \notin {p.id : p \in profiles} THEN UNCHANGED refusals
     ELSE refusals < MaxRefusals /\ refusals' = refusals + 1
  /\ UNCHANGED <<pitcher, busy, pitchCalls, photos, onDisplay, profiles, shelf, profile, acting,
                 deleting, inputs, tally, draft, astray>>

\* Only the buttons of the profile acted on last are disabled.
DeletePlayer(p) ==
  /\ acting # p.id /\ PitchInput
  /\ deleting' = deleting \cup {[id |-> p.id, chosen |-> profile, place |-> Cardinality(deleting)]}
  /\ acting' = p.id
  /\ UNCHANGED <<pitcher, busy, pitchCalls, photos, onDisplay, profiles, shelf, profile, filing,
                 refusals, tally, draft, astray>>

PlayerDeleted(d) ==
  /\ d.id \in {p.id : p \in profiles}
  /\ deleting' = deleting \ {d} /\ acting' = NoProfile
  /\ profiles' = {p \in profiles : p.id # d.id} /\ LoadSavedPlayers
  /\ profile' = IF d.chosen = d.id THEN NoProfile ELSE profile
  /\ UNCHANGED <<pitcher, busy, pitchCalls, photos, onDisplay, filing, inputs, tally, draft, astray>>

\* The profile is gone already, or the request or its answer fails.
PlayerNotDeleted(d) ==
  /\ deleting' = deleting \ {d} /\ acting' = NoProfile
  /\ profiles' \in {profiles, {p \in profiles : p.id # d.id}}
  /\ IF d.id \notin {p.id : p \in profiles} THEN UNCHANGED refusals
     ELSE refusals < MaxRefusals /\ refusals' = refusals + 1
  /\ UNCHANGED <<pitcher, busy, pitchCalls, photos, onDisplay, shelf, profile, filing, inputs,
                 tally, draft, astray>>

-----------------------------------------------------------------------------
\* The page as its first effect leaves it.
PitchInit ==
  /\ \E card \in Cards, n \in {0, 1} :
       onDisplay = [pitches |-> n, strikes |-> 0, card |-> card, photo |-> FALSE]
  /\ pitcher = onDisplay /\ tally = onDisplay.pitches /\ draft = FALSE /\ astray = FALSE
  /\ busy = FALSE /\ pitchCalls = {} /\ photos = {}
  /\ profiles = {} /\ shelf = {} /\ profile = NoProfile
  /\ filing = NotFiling /\ acting = NoProfile /\ deleting = {}
  /\ inputs = 0 /\ refusals = 0

PitchNext ==
  \/ RecordPitch \/ Step \/ ResetTotals \/ SendCard \/ RemovePhoto \/ UpdateDraft
  \/ UploadHeadshot \/ \E s \in photos : HeadshotStored(s) \/ HeadshotFails(s)
  \/ \E c \in pitchCalls : StorePitch(c) \/ AnswerPitch(c) \/ FailPitch(c)
  \/ \E p \in shelf : LoadPlayer(p) \/ SyncPlayer(p) \/ DeletePlayer(p)
  \/ ApplyThisProfile \/ NewProfile \/ SavePlayer
  \/ PlayerSaved \/ PlayerNotSaved
  \/ \E d \in deleting : PlayerDeleted(d) \/ PlayerNotDeleted(d)

PitchSpec == PitchInit /\ [][PitchNext]_pitchVars

-----------------------------------------------------------------------------
PitchTypeOK ==
  /\ {pitcher, onDisplay} \cup photos \subseteq PitchStates
  /\ {busy, draft, astray} \subseteq BOOLEAN
  /\ \A c \in pitchCalls : {c.state, c.back} \subseteq PitchStates /\ c.stage \in {"sent", "stored"}
  /\ \A p \in profiles \cup shelf : p.id \in ProfileIds /\ p.state \in PitchStates
  /\ {profile, filing.id, acting} \cup {d.id : d \in deleting} \subseteq ProfileIds \cup {NoProfile}
  /\ tally \in 0..MaxPitches

\* When nothing is under way the page shows the total that the operator has
\* been told of, and the display what the page shows unless that is a draft:
\* no pitch is lost and none is counted twice, whatever was refused or drafted
\* in between.  The exceptions are those of "astray".
PitchesCountedOnce ==
  pitchCalls = {} /\ ~astray => pitcher.pitches = tally /\ (draft \/ onDisplay = pitcher)

=============================================================================
