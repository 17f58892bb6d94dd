-------------------------- MODULE Dashboard_proofs --------------------------
(***************************************************************************)
(* What the pages of the dashboard and the saved lists promise, for every   *)
(* number of displays, presses, writes and failures.                       *)
(*                                                                         *)
(*   PitchKount       PitchInv: the pitches thrown are those on display, or *)
(*                    those of the one command under way.                   *)
(*   SavedLists       ListInv: an owner beyond the limit has a request      *)
(*                    under way that will still prune its list.            *)
(*   DisplaySettings  CalibrationInv follows a saved box from the page over *)
(*                    the request to the display; ModeInv says which        *)
(*                    request will still make page, server and display     *)
(*                    agree on the mode; TypeAgree follows the kind of mode *)
(*                    while advertisements are changed.                     *)
(*   ControlPage      TimerInv: the timer stored last belongs to the command*)
(*                    whose answer knows that it overtook the others;      *)
(*                    LayoutInv: one change of the layout is under way, and *)
(*                    carries what the page shows; ModeOnItsWay: the mode   *)
(*                    shown waits in the timeout, or is in the command that *)
(*                    left last, or has been stored.                       *)
(***************************************************************************)
EXTENDS PitchKount, SavedLists, DisplaySettings, ControlPage,
        NumberFacts, FiniteSetTheorems, TLAPS

-----------------------------------------------------------------------------
(* PitchKount: types.                                                      *)

CallKinds == {"pitch", "set", "photo"}

CallTyped(c) ==
  c \in [kind : CallKinds, state : PitchStates, back : PitchStates, then : ProfileIds \cup {NoProfile, "keep"},
         draft : BOOLEAN, place : Nat, stage : {"sent", "stored"}]

PitchTypeInv ==
  /\ PitchTypeOK
  /\ IsFiniteSet(pitchCalls) /\ \A c \in pitchCalls : CallTyped(c)
  /\ filing = NotFiling \/ filing.state \in PitchStates
  /\ \A d \in deleting : d.id \in ProfileIds

LEMMA BoundedFacts == \A n \in Nat : Bounded(n) \in 0..MaxPitches /\ (n =< MaxPitches => Bounded(n) = n)
  BY PitchKountAssumption DEF Bounded

LEMMA BlankType == \A card \in Cards : Blank(card) \in PitchStates
<1> SUFFICES ASSUME NEW card \in Cards PROVE Blank(card) \in PitchStates
  OBVIOUS
<1>1. FALSE \in BOOLEAN
  BY Zenon
<1>2. QED
  BY <1>1, PitchKountAssumption DEF Blank, PitchStates

LEMMA NormalizedType ==
  ASSUME NEW s \in [pitches : Nat, strikes : Nat, card : Cards, photo : BOOLEAN]
  PROVE  /\ NormalizePitchKount(s) \in PitchStates
         /\ NormalizePitchKount(s).pitches = Bounded(s.pitches)
         /\ s \in PitchStates => NormalizePitchKount(s) = s
<1> DEFINE t == [s EXCEPT !.pitches = Bounded(s.pitches), !.strikes = Bounded(s.strikes)]
<1>1. NormalizePitchKount(s) = t
  BY DEF NormalizePitchKount
<1>2. s.pitches \in Nat /\ s.strikes \in Nat /\ s.card \in Cards /\ s.photo \in BOOLEAN
  OBVIOUS
<1>3. Bounded(s.pitches) \in 0..MaxPitches /\ Bounded(s.strikes) \in 0..MaxPitches
  BY <1>2, BoundedFacts
<1>4. t \in PitchStates /\ t.pitches = Bounded(s.pitches)
  BY <1>2, <1>3 DEF PitchStates
<1>5. ASSUME s \in PitchStates PROVE t = s
  <2>1. Bounded(s.pitches) = s.pitches /\ Bounded(s.strikes) = s.strikes
    BY <1>2, <1>5, PitchKountAssumption DEF Bounded, PitchStates
  <2>2. QED
    BY <2>1
<1>6. QED
  BY <1>1, <1>4, <1>5

LEMMA SendStateType ==
  ASSUME PitchTypeInv, NEW what \in CallKinds, NEW s \in [pitches : Nat, strikes : Nat, card : Cards, photo : BOOLEAN],
         NEW back \in PitchStates, NEW then \in ProfileIds \cup {NoProfile, "keep"}, SendState(what, s, back, then)
  PROVE  /\ pitcher' \in PitchStates /\ busy' \in BOOLEAN /\ draft' \in BOOLEAN /\ astray' \in BOOLEAN
         /\ IsFiniteSet(pitchCalls') /\ \A c \in pitchCalls' : CallTyped(c)
<1> DEFINE next == NormalizePitchKount(s)
           call == [kind |-> what, state |-> next, back |-> back, then |-> then, draft |-> draft,
                    place |-> Cardinality(pitchCalls), stage |-> "sent"]
<1>1. next \in PitchStates
  BY NormalizedType
<1> HIDE DEF next
<1>2. pitcher' = next /\ busy' = TRUE /\ pitchCalls' = pitchCalls \cup {call}
      /\ draft' = FALSE /\ astray' = (astray \/ pitchCalls # {})
  BY DEF SendState, next
<1>3. CallTyped(call)
  BY <1>1, FS_CardinalityType DEF CallTyped, PitchTypeInv, PitchTypeOK
<1>4. IsFiniteSet(pitchCalls') /\ \A c \in pitchCalls : CallTyped(c)
  BY <1>2, FS_AddElement DEF PitchTypeInv
<1>5. busy' \in BOOLEAN /\ draft' \in BOOLEAN /\ astray' \in BOOLEAN
  BY <1>2, Zenon
<1>6. QED
  BY <1>1, <1>2, <1>3, <1>4, <1>5

\* What most steps leave alone.
LEMMA PitchTypesKept ==
  ASSUME PitchTypeInv, pitcher' \in PitchStates, onDisplay' \in PitchStates, photos' \subseteq PitchStates,
         busy' \in BOOLEAN, draft' \in BOOLEAN, astray' \in BOOLEAN,
         IsFiniteSet(pitchCalls'), \A c \in pitchCalls' : CallTyped(c),
         \A p \in profiles' \cup shelf' : p.id \in ProfileIds /\ p.state \in PitchStates,
         {profile', filing'.id, acting'} \subseteq ProfileIds \cup {NoProfile}, \A d \in deleting' : d.id \in ProfileIds,
         tally' \in 0..MaxPitches, filing' = NotFiling \/ filing'.state \in PitchStates
  PROVE  PitchTypeInv'
<1>1. {pitcher', onDisplay'} \cup photos' \subseteq PitchStates /\ {busy', draft', astray'} \subseteq BOOLEAN
  OBVIOUS
<1>2. \A c \in pitchCalls' : {c.state, c.back} \subseteq PitchStates /\ c.stage \in {"sent", "stored"}
  BY DEF CallTyped
<1>3. {profile', filing'.id, acting'} \cup {d.id : d \in deleting'} \subseteq ProfileIds \cup {NoProfile}
  OBVIOUS
<1>4. QED
  BY <1>1, <1>2, <1>3 DEF PitchTypeInv, PitchTypeOK

LEMMA PitchStateFacts ==
  ASSUME NEW s \in PitchStates
  PROVE  /\ s \in [pitches : Nat, strikes : Nat, card : Cards, photo : BOOLEAN]
         /\ s.pitches \in 0..MaxPitches /\ s.strikes \in 0..MaxPitches
         /\ NormalizePitchKount(s) = s
<1>1. s \in [pitches : Nat, strikes : Nat, card : Cards, photo : BOOLEAN]
      /\ s.pitches \in 0..MaxPitches /\ s.strikes \in 0..MaxPitches
  BY PitchKountAssumption DEF PitchStates
<1>2. QED
  BY <1>1, NormalizedType

\* The presses that send: what a press sends, and what it goes back to.
LEMMA LivePresses ==
  ASSUME PitchTypeInv, RecordPitch \/ Step \/ ResetTotals \/ SendCard \/ RemovePhoto
  PROVE  \E what \in {"pitch", "set"}, s \in [pitches : Nat, strikes : Nat, card : Cards, photo : BOOLEAN] :
           Live(what, s) /\ (what = "pitch" => s.pitches = pitcher.pitches + 1)
<1>1. pitcher \in PitchStates /\ pitcher \in [pitches : Nat, strikes : Nat, card : Cards, photo : BOOLEAN]
  BY PitchStateFacts DEF PitchTypeInv, PitchTypeOK
<1>2. /\ pitcher.pitches \in Nat /\ pitcher.strikes \in Nat
      /\ pitcher.pitches > 0 => pitcher.pitches - 1 \in Nat
  BY <1>1
<1>3. CASE RecordPitch
  <2>1. PICK strike \in {0, 1} : Live("pitch", [pitcher EXCEPT !.pitches = @ + 1, !.strikes = @ + strike])
    BY <1>3 DEF RecordPitch
  <2>2. PICK s : s = [pitcher EXCEPT !.pitches = @ + 1, !.strikes = @ + strike]
    OBVIOUS
  <2>3. PICK m, n \in Nat : m = pitcher.pitches + 1 /\ n = pitcher.strikes + strike
    BY <1>2
  <2>4. s = [pitcher EXCEPT !.pitches = m, !.strikes = n]
    BY <2>2, <2>3
  <2>5. s \in [pitches : Nat, strikes : Nat, card : Cards, photo : BOOLEAN] /\ s.pitches = m
    BY <1>1, <2>4
  <2>6. QED
    BY <2>1, <2>2, <2>3, <2>5
<1>4. CASE Step
  <2>1. PICK n \in Nat : Live("set", [pitcher EXCEPT !.pitches = n])
    <3>1. CASE pitcher.pitches > 0 /\ Live("set", [pitcher EXCEPT !.pitches = @ - 1])
      <4>1. PICK n \in Nat : n = pitcher.pitches - 1
        BY <1>2, <3>1
      <4>2. QED
        BY <3>1, <4>1
    <3>2. CASE Live("set", [pitcher EXCEPT !.pitches = @ + 1])
      <4>1. PICK n \in Nat : n = pitcher.pitches + 1
        BY <1>2
      <4>2. QED
        BY <3>2, <4>1
    <3>3. QED
      BY <1>4, <3>1, <3>2 DEF Step
  <2>2. [pitcher EXCEPT !.pitches = n] \in [pitches : Nat, strikes : Nat, card : Cards, photo : BOOLEAN]
    BY <1>1
  <2>3. QED
    BY <2>1, <2>2
<1>5. CASE ResetTotals
  <2>1. [pitcher EXCEPT !.pitches = 0, !.strikes = 0] \in [pitches : Nat, strikes : Nat, card : Cards, photo : BOOLEAN]
    BY <1>1
  <2>2. QED
    BY <1>5, <2>1 DEF ResetTotals
<1>6. CASE SendCard
  BY <1>1, <1>6 DEF SendCard
<1>7. CASE RemovePhoto
  <2>1. FALSE \in BOOLEAN
    BY Zenon
  <2>2. [pitcher EXCEPT !.photo = FALSE] \in [pitches : Nat, strikes : Nat, card : Cards, photo : BOOLEAN]
    BY <1>1, <2>1
  <2>3. QED
    BY <1>7, <2>2 DEF RemovePhoto
<1>8. QED
  BY <1>3, <1>4, <1>5, <1>6, <1>7

LEMMA InitPitchTypeInv == PitchInit => PitchTypeInv
<1> SUFFICES ASSUME PitchInit PROVE PitchTypeInv
  OBVIOUS
<1>1. PICK card \in Cards, n \in {0, 1} : onDisplay = [pitches |-> n, strikes |-> 0, card |-> card, photo |-> FALSE]
  BY DEF PitchInit
<1>2. FALSE \in BOOLEAN /\ busy \in BOOLEAN /\ draft \in BOOLEAN /\ astray \in BOOLEAN
  BY Zenon DEF PitchInit
<1>3. n \in 0..MaxPitches
  BY PitchKountAssumption
<1>4. onDisplay \in PitchStates /\ pitcher \in PitchStates /\ tally \in 0..MaxPitches
  <2>1. onDisplay \in PitchStates /\ onDisplay.pitches = n
    BY <1>1, <1>2, <1>3, PitchKountAssumption DEF PitchStates
  <2>2. QED
    BY <1>3, <2>1 DEF PitchInit
<1>5. /\ pitchCalls = {} /\ IsFiniteSet(pitchCalls) /\ photos = {} /\ profiles = {} /\ shelf = {} /\ filing = NotFiling
      /\ deleting = {} /\ {profile, filing.id, acting} \cup {d.id : d \in deleting} \subseteq ProfileIds \cup {NoProfile}
  BY FS_EmptySet DEF PitchInit, NotFiling
<1>6. QED
  BY <1>2, <1>4, <1>5 DEF PitchTypeInv, PitchTypeOK

LEMMA StepPitchTypeInv == PitchTypeInv /\ [PitchNext]_pitchVars => PitchTypeInv'
<1> SUFFICES ASSUME PitchTypeInv, [PitchNext]_pitchVars PROVE PitchTypeInv'
  OBVIOUS
<1>0. /\ pitcher \in PitchStates /\ onDisplay \in PitchStates /\ photos \subseteq PitchStates
      /\ busy \in BOOLEAN /\ draft \in BOOLEAN /\ astray \in BOOLEAN /\ IsFiniteSet(pitchCalls) /\ \A c \in pitchCalls : CallTyped(c)
      /\ \A p \in profiles \cup shelf : p.id \in ProfileIds /\ p.state \in PitchStates
      /\ {profile, filing.id, acting} \subseteq ProfileIds \cup {NoProfile} /\ \A d \in deleting : d.id \in ProfileIds
      /\ tally \in 0..MaxPitches /\ (filing = NotFiling \/ filing.state \in PitchStates)
  BY DEF PitchTypeInv, PitchTypeOK
<1> DEFINE Sent == /\ pitcher' \in PitchStates /\ busy' \in BOOLEAN /\ draft' \in BOOLEAN /\ astray' \in BOOLEAN
                   /\ IsFiniteSet(pitchCalls') /\ \A c \in pitchCalls' : CallTyped(c)
<1>1. CASE RecordPitch \/ Step \/ ResetTotals \/ SendCard \/ RemovePhoto
  <2>1. PICK what \in {"pitch", "set"}, s \in [pitches : Nat, strikes : Nat, card : Cards, photo : BOOLEAN] : Live(what, s)
    BY <1>1, LivePresses
  <2>2. SendState(what, s, pitcher, "keep") /\ KeepPage /\ UNCHANGED acting
    BY <2>1 DEF Live
  <2>3. Sent
    BY <1>0, <2>2, SendStateType DEF CallKinds
  <2>4. QED
    BY <1>0, <2>2, <2>3, PitchTypesKept DEF KeepPage
<1>2. CASE UpdateDraft
  <2>1. PICK card \in Cards : pitcher' = [pitcher EXCEPT !.card = card]
    BY <1>2 DEF UpdateDraft
  <2>2. pitcher' \in PitchStates /\ draft' \in BOOLEAN
    <3>1. pitcher' \in PitchStates
      BY <1>0, <2>1 DEF PitchStates
    <3>2. draft' \in BOOLEAN
      BY <1>2, Zenon DEF UpdateDraft
    <3>3. QED
      BY <3>1, <3>2
  <2>3. QED
    BY <1>0, <1>2, <2>2, PitchTypesKept DEF UpdateDraft
<1>3. CASE UploadHeadshot
  BY <1>0, <1>3, PitchTypesKept DEF UploadHeadshot
<1>4. ASSUME NEW s \in photos, HeadshotStored(s) PROVE PitchTypeInv'
  <2>1. /\ TRUE \in BOOLEAN /\ busy' \in BOOLEAN /\ draft' \in BOOLEAN /\ astray' \in BOOLEAN
        /\ (draft \/ s # pitcher) \in BOOLEAN
    BY <1>4, Zenon DEF HeadshotStored
  <2>2. s \in PitchStates /\ [s EXCEPT !.photo = TRUE] \in PitchStates
    BY <1>0, <2>1 DEF PitchStates
  <2>3. PICK t : t = [s EXCEPT !.photo = TRUE] /\ t \in PitchStates
    BY <2>2
  <2>4. CallTyped([kind |-> "photo", state |-> t, back |-> s, then |-> "keep", draft |-> draft \/ s # pitcher,
                   place |-> Cardinality(pitchCalls), stage |-> "sent"])
    BY <1>0, <2>1, <2>2, <2>3, FS_CardinalityType DEF CallTyped, CallKinds
  <2>5. IsFiniteSet(pitchCalls') /\ \A c \in pitchCalls' : CallTyped(c)
    BY <1>0, <1>4, <2>3, <2>4, FS_AddElement DEF HeadshotStored
  <2>6. pitcher' \in PitchStates /\ photos' \subseteq PitchStates
    BY <1>0, <1>4, <2>2 DEF HeadshotStored
  <2>7. QED
    BY <1>0, <1>4, <2>1, <2>5, <2>6, PitchTypesKept DEF HeadshotStored
<1>5. ASSUME NEW s \in photos, HeadshotFails(s) PROVE PitchTypeInv'
  BY <1>0, <1>5, PitchTypesKept DEF HeadshotFails
<1>6. ASSUME NEW c \in pitchCalls, StorePitch(c) PROVE PitchTypeInv'
  <2>1. CallTyped([c EXCEPT !.stage = "stored"])
    BY <1>0, <1>6 DEF StorePitch, CallTyped
  <2>2. IsFiniteSet(pitchCalls') /\ (\A e \in pitchCalls' : CallTyped(e)) /\ onDisplay' \in PitchStates
    <3>1. (\A e \in pitchCalls' : CallTyped(e)) /\ onDisplay' \in PitchStates
      BY <1>0, <1>6, <2>1 DEF StorePitch, CallTyped
    <3>2. IsFiniteSet(pitchCalls')
      BY <1>0, <1>6, FS_RemoveElement, FS_AddElement DEF StorePitch
    <3>3. QED
      BY <3>1, <3>2
  <2>3. QED
    BY <1>0, <1>6, <2>2, PitchTypesKept DEF StorePitch
<1>7. ASSUME NEW c \in pitchCalls, AnswerPitch(c) PROVE PitchTypeInv'
  <2>1. busy' \in BOOLEAN /\ astray' \in BOOLEAN
    BY <1>7, Zenon DEF AnswerPitch
  <2>2. tally' \in 0..MaxPitches
    <3>1. Bounded(tally + 1) \in 0..MaxPitches
      <4>1. tally + 1 \in Nat
        BY <1>0, PitchKountAssumption
      <4>2. QED
        BY <4>1, BoundedFacts
    <3>2. c.state.pitches \in 0..MaxPitches
      BY <1>0, PitchStateFacts DEF CallTyped
    <3>3. tally' \in {Bounded(tally + 1), tally, c.state.pitches}
      BY <1>7 DEF AnswerPitch
    <3>4. QED
      BY <1>0, <3>1, <3>2, <3>3
  <2>3. /\ {profile', acting'} \subseteq ProfileIds \cup {NoProfile}
        /\ IsFiniteSet(pitchCalls') /\ \A e \in pitchCalls' : CallTyped(e)
    BY <1>0, <1>7, FS_RemoveElement DEF AnswerPitch, CallTyped
  <2>4. QED
    BY <1>0, <1>7, <2>1, <2>2, <2>3, PitchTypesKept DEF AnswerPitch
<1>8. ASSUME NEW c \in pitchCalls, FailPitch(c) PROVE PitchTypeInv'
  <2>1. busy' \in BOOLEAN /\ astray' \in BOOLEAN /\ draft' = c.draft
    BY <1>8, Zenon DEF FailPitch
  <2>2. /\ pitcher' \in PitchStates /\ draft' \in BOOLEAN /\ acting' \in ProfileIds \cup {NoProfile}
        /\ IsFiniteSet(pitchCalls') /\ \A e \in pitchCalls' : CallTyped(e)
    BY <1>0, <1>8, <2>1, FS_RemoveElement DEF FailPitch, CallTyped
  <2>3. QED
    BY <1>0, <1>8, <2>1, <2>2, PitchTypesKept DEF FailPitch
<1>9. ASSUME NEW p \in shelf, LoadPlayer(p) PROVE PitchTypeInv'
  <2>1. draft' \in BOOLEAN /\ astray' \in BOOLEAN
    BY <1>9, Zenon DEF LoadPlayer, Loaded
  <2>2. pitcher' = p.state /\ tally' = p.state.pitches /\ tally' \in 0..MaxPitches
    BY <1>0, <1>9, PitchStateFacts DEF LoadPlayer, Loaded
  <2>3. QED
    BY <1>0, <1>9, <2>1, <2>2, PitchTypesKept DEF LoadPlayer
<1>10. ASSUME NEW p \in shelf, SyncPlayer(p) PROVE PitchTypeInv'
  <2>1. p.id \in ProfileIds /\ p.state \in [pitches : Nat, strikes : Nat, card : Cards, photo : BOOLEAN]
    BY <1>0, PitchStateFacts
  <2>2. SendState("set", p.state, pitcher, p.id) /\ acting' = p.id /\ KeepPage
    BY <1>10 DEF SyncPlayer
  <2>3. Sent
    BY <1>0, <2>1, <2>2, SendStateType DEF CallKinds
  <2>4. QED
    BY <1>0, <2>1, <2>2, <2>3, PitchTypesKept DEF KeepPage
<1>11. ASSUME NEW p \in shelf, DeletePlayer(p) PROVE PitchTypeInv'
  <2>1. p.id \in ProfileIds /\ \A d \in deleting' : d.id \in ProfileIds
    BY <1>0, <1>11 DEF DeletePlayer
  <2>2. QED
    BY <1>0, <1>11, <2>1, PitchTypesKept DEF DeletePlayer
<1>12. CASE ApplyThisProfile
  <2>1. SendState("set", pitcher, pitcher, NoProfile) /\ acting' = NoProfile /\ KeepPage
    BY <1>12 DEF ApplyThisProfile
  <2>2. Sent
    BY <1>0, <2>1, PitchStateFacts, SendStateType DEF CallKinds
  <2>3. QED
    BY <1>0, <2>1, <2>2, PitchTypesKept DEF KeepPage
<1>13. CASE NewProfile
  <2>1. draft' \in BOOLEAN /\ astray' \in BOOLEAN
    BY <1>13, Zenon DEF NewProfile, Loaded
  <2>2. pitcher' \in PitchStates /\ tally' \in 0..MaxPitches
    BY <1>13, BlankType, PitchStateFacts DEF NewProfile, Loaded
  <2>3. QED
    BY <1>0, <1>13, <2>1, <2>2, PitchTypesKept DEF NewProfile
<1>14. CASE SavePlayer
  <2>1. filing'.id = profile /\ filing'.state = pitcher
    BY <1>14 DEF SavePlayer
  <2>2. QED
    BY <1>0, <1>14, <2>1, PitchTypesKept DEF SavePlayer
<1>15. CASE PlayerSaved
  <2>1. PICK id \in ProfileIds : /\ filing # NotFiling /\ filing' = NotFiling
                                 /\ profiles' = {p \in profiles : p.id # id} \cup {[id |-> id, state |-> filing.state]}
                                 /\ profile' = id /\ shelf' \in {shelf, profiles'}
                                 /\ UNCHANGED <<pitcher, busy, pitchCalls, photos, onDisplay, acting, deleting, inputs,
                                                tally, draft, astray>>
    BY <1>15 DEF PlayerSaved, LoadSavedPlayers
  <2>2. \A p \in profiles' \cup shelf' : p.id \in ProfileIds /\ p.state \in PitchStates
    BY <1>0, <2>1
  <2>3. filing'.id = NoProfile
    BY <2>1 DEF NotFiling
  <2>4. QED
    BY <1>0, <2>1, <2>2, <2>3, PitchTypesKept
<1>16. CASE PlayerNotSaved
  <2>1. filing'.id = NoProfile /\ filing' = NotFiling
    BY <1>16 DEF PlayerNotSaved, NotFiling
  <2>2. QED
    BY <1>0, <1>16, <2>1, PitchTypesKept DEF PlayerNotSaved
<1>17. ASSUME NEW d \in deleting, PlayerDeleted(d) PROVE PitchTypeInv'
  <2>1. /\ profile' \in {NoProfile, profile} /\ acting' = NoProfile
        /\ profiles' \subseteq profiles /\ shelf' \in {shelf, profiles'} /\ deleting' \subseteq deleting
    BY <1>17 DEF PlayerDeleted, LoadSavedPlayers
  <2>2. QED
    BY <1>0, <1>17, <2>1, PitchTypesKept DEF PlayerDeleted
<1>20. ASSUME NEW d \in deleting, PlayerNotDeleted(d) PROVE PitchTypeInv'
  <2>1. acting' = NoProfile /\ profiles' \subseteq profiles /\ deleting' \subseteq deleting
    BY <1>20 DEF PlayerNotDeleted
  <2>2. QED
    BY <1>0, <1>20, <2>1, PitchTypesKept DEF PlayerNotDeleted
<1>18. CASE UNCHANGED pitchVars
  BY <1>0, <1>18, PitchTypesKept DEF pitchVars
<1>19. QED
  BY <1>1, <1>2, <1>3, <1>4, <1>5, <1>6, <1>7, <1>8, <1>9, <1>10, <1>11, <1>12, <1>13, <1>14,
     <1>15, <1>16, <1>17, <1>18, <1>20 DEF PitchNext

-----------------------------------------------------------------------------
(* PitchKount: as long as nothing went astray at most one command is under *)
(* way.  It goes from the total that the operator knows to the total that  *)
(* the page shows, and from the board that is on the display to the board  *)
(* on the page, as far as these are not drafts.                            *)

UnderWay(c) ==
  /\ pitcher.pitches = c.state.pitches /\ (draft \/ pitcher = c.state)
  /\ c.kind = "pitch" => c.state.pitches = Bounded(tally + 1)
  /\ c.kind = "photo" => c.state.pitches = tally
  /\ IF c.stage = "sent" THEN c.back.pitches = tally /\ (c.draft \/ onDisplay = c.back) ELSE onDisplay = c.state

PitchInv ==
  ~astray =>
    /\ pitchCalls = {} => pitcher.pitches = tally /\ (draft \/ onDisplay = pitcher)
    /\ \A c \in pitchCalls : pitchCalls = {c} /\ UnderWay(c)

\* A command that leaves when nothing is under way.
LEMMA SentFromRest ==
  ASSUME PitchInv, NEW what, NEW next, NEW back, NEW then, NEW left, pitcher' = next,
         pitchCalls' = pitchCalls \cup {[kind |-> what, state |-> next, back |-> back, then |-> then, draft |-> left,
                                         place |-> Cardinality(pitchCalls), stage |-> "sent"]},
         what = "pitch" => next.pitches = Bounded(pitcher.pitches + 1),
         what = "photo" => next.pitches = pitcher.pitches,
         back.pitches = pitcher.pitches \/ astray', left \/ (~draft /\ back = pitcher),
         onDisplay' = onDisplay, tally' = tally, ~astray' => ~astray /\ pitchCalls = {}
  PROVE  PitchInv'
<1> SUFFICES ASSUME ~astray' PROVE /\ pitchCalls' # {}
                                   /\ \A c \in pitchCalls' : pitchCalls' = {c} /\ UnderWay(c)'
  BY DEF PitchInv
<1>1. pitchCalls = {} /\ pitcher.pitches = tally /\ (draft \/ onDisplay = pitcher)
  BY DEF PitchInv
<1>2. PICK c : c = [kind |-> what, state |-> next, back |-> back, then |-> then, draft |-> left,
                    place |-> Cardinality(pitchCalls), stage |-> "sent"]
  OBVIOUS
<1>3. pitchCalls' = {c}
  BY <1>1, <1>2
<1>4. /\ c.kind = what /\ c.state = next /\ c.back = back /\ c.draft = left /\ c.stage = "sent"
  BY <1>2
<1>5. c.draft \/ onDisplay' = c.back
  BY <1>1, <1>4, Zenon
<1>6. UnderWay(c)'
  BY <1>1, <1>4, <1>5 DEF UnderWay, Bounded
<1>7. QED
  BY <1>3, <1>6

LEMMA SentCounts ==
  ASSUME PitchTypeInv, PitchInv, NEW what \in {"pitch", "set"},
         NEW s \in [pitches : Nat, strikes : Nat, card : Cards, photo : BOOLEAN],
         NEW then, SendState(what, s, pitcher, then), onDisplay' = onDisplay, tally' = tally,
         what = "pitch" => s.pitches = pitcher.pitches + 1
  PROVE  PitchInv'
<1>1. PICK next : next = NormalizePitchKount(s)
  OBVIOUS
<1>2. what = "pitch" => next.pitches = Bounded(pitcher.pitches + 1)
  BY <1>1, NormalizedType
<1>3. /\ pitcher' = next /\ (~astray' => ~astray /\ pitchCalls = {})
      /\ pitchCalls' = pitchCalls \cup {[kind |-> what, state |-> next, back |-> pitcher, then |-> then, draft |-> draft,
                                         place |-> Cardinality(pitchCalls), stage |-> "sent"]}
  BY <1>1 DEF SendState
<1>4. draft \/ (~draft /\ pitcher = pitcher)
  BY Zenon
<1>5. QED
  BY <1>2, <1>3, <1>4, SentFromRest

LEMMA PitchInvKept ==
  ASSUME PitchInv, UNCHANGED <<pitcher, pitchCalls, onDisplay, tally, draft, astray>>
  PROVE  PitchInv'
  BY DEF PitchInv, UnderWay, Bounded

LEMMA StepPitchInv == PitchTypeInv /\ PitchInv /\ [PitchNext]_pitchVars => PitchInv'
<1> SUFFICES ASSUME PitchTypeInv, PitchInv, [PitchNext]_pitchVars PROVE PitchInv'
  OBVIOUS
<1>0. /\ pitcher \in PitchStates /\ photos \subseteq PitchStates /\ \A c \in pitchCalls : CallTyped(c)
      /\ \A p \in shelf : p.state \in PitchStates
  BY DEF PitchTypeInv, PitchTypeOK
<1>1. CASE RecordPitch \/ Step \/ ResetTotals \/ SendCard \/ RemovePhoto
  <2>1. PICK what \in {"pitch", "set"}, s \in [pitches : Nat, strikes : Nat, card : Cards, photo : BOOLEAN] :
          Live(what, s) /\ (what = "pitch" => s.pitches = pitcher.pitches + 1)
    BY <1>1, LivePresses
  <2>2. SendState(what, s, pitcher, "keep") /\ onDisplay' = onDisplay /\ tally' = tally
    BY <2>1 DEF Live, KeepPage
  <2>3. QED
    BY <2>1, <2>2, SentCounts
<1>2. ASSUME NEW p \in shelf, SyncPlayer(p) PROVE PitchInv'
  <2>1. SendState("set", p.state, pitcher, p.id) /\ onDisplay' = onDisplay /\ tally' = tally
    BY <1>2 DEF SyncPlayer, KeepPage
  <2>2. QED
    BY <1>0, <2>1, PitchStateFacts, SentCounts
<1>3. CASE ApplyThisProfile
  <2>1. SendState("set", pitcher, pitcher, NoProfile) /\ onDisplay' = onDisplay /\ tally' = tally
    BY <1>3 DEF ApplyThisProfile, KeepPage
  <2>2. QED
    BY <1>0, <2>1, PitchStateFacts, SentCounts
<1>4. CASE UpdateDraft
  <2>1. PICK card \in Cards : pitcher' = [pitcher EXCEPT !.card = card]
    BY <1>4 DEF UpdateDraft
  <2>2. pitcher'.pitches = pitcher.pitches /\ draft' = TRUE
        /\ UNCHANGED <<pitchCalls, onDisplay, tally, astray>>
    BY <1>0, <1>4, <2>1 DEF UpdateDraft, PitchStates
  <2>3. QED
    BY <2>2 DEF PitchInv, UnderWay, Bounded
<1>12. CASE NewProfile \/ \E p \in shelf : LoadPlayer(p)
  <2>1. Loaded /\ pitchCalls' = pitchCalls
    BY <1>12 DEF NewProfile, LoadPlayer
  <2>2. tally' = pitcher'.pitches /\ draft' /\ (pitchCalls = {} \/ astray')
    BY <2>1, Zenon DEF Loaded
  <2>3. QED
    BY <2>1, <2>2 DEF PitchInv
<1>5. ASSUME NEW s \in photos, HeadshotStored(s) PROVE PitchInv'
  <2>1. PICK next : next = [s EXCEPT !.photo = TRUE]
    OBVIOUS
  <2>2. next.pitches = s.pitches
    BY <1>0, <2>1 DEF PitchStates
  <2>3. PICK left : left = (draft \/ s # pitcher)
    OBVIOUS
  <2>4. /\ pitcher' = next /\ onDisplay' = onDisplay /\ tally' = tally
        /\ pitchCalls' = pitchCalls \cup {[kind |-> "photo", state |-> next, back |-> s, then |-> "keep", draft |-> left,
                                           place |-> Cardinality(pitchCalls), stage |-> "sent"]}
    BY <1>5, <2>1, <2>3 DEF HeadshotStored
  <2>5. astray' = (astray \/ pitchCalls # {} \/ s.pitches # pitcher.pitches)
    BY <1>5 DEF HeadshotStored
  <2>6. left \/ (~draft /\ s = pitcher)
    BY <2>3, Zenon
  <2>7. CASE s.pitches = pitcher.pitches
    <3>1. ~astray' => ~astray /\ pitchCalls = {}
      BY <2>5, Zenon
    <3>2. QED
      BY <2>2, <2>4, <2>6, <2>7, <3>1, SentFromRest
  <2>8. CASE s.pitches # pitcher.pitches
    BY <2>5, <2>8 DEF PitchInv
  <2>9. QED
    BY <2>7, <2>8
<1>6. ASSUME NEW c \in pitchCalls, StorePitch(c) PROVE PitchInv'
  <2> SUFFICES ASSUME ~astray PROVE pitchCalls' # {} /\ \A e \in pitchCalls' : pitchCalls' = {e} /\ UnderWay(e)'
    BY <1>6 DEF StorePitch, PitchInv
  <2>1. PICK d : d = [c EXCEPT !.stage = "stored"]
    OBVIOUS
  <2>2. pitchCalls = {c} /\ UnderWay(c) /\ c.stage = "sent"
    BY <1>6 DEF PitchInv, StorePitch
  <2>3. pitchCalls' = {d} /\ onDisplay' = c.state /\ pitcher' = pitcher /\ tally' = tally /\ draft' = draft
    BY <1>6, <2>1, <2>2 DEF StorePitch
  <2>4. d.state = c.state /\ d.kind = c.kind /\ d.stage = "stored"
    BY <1>0, <2>1 DEF CallTyped
  <2>5. UnderWay(d)'
    BY <2>2, <2>3, <2>4 DEF UnderWay, Bounded
  <2>6. QED
    BY <2>3, <2>5
<1>7. ASSUME NEW c \in pitchCalls, AnswerPitch(c) PROVE PitchInv'
  <2>1. CASE astray
    BY <1>7, <2>1 DEF AnswerPitch, PitchInv
  <2>2. CASE ~astray
    <3>1. pitchCalls = {c} /\ UnderWay(c) /\ c.stage = "stored" /\ pitchCalls' = {}
      BY <1>7, <2>2 DEF AnswerPitch, PitchInv
    <3>2. /\ tally' = c.state.pitches /\ pitcher'.pitches = c.state.pitches
          /\ onDisplay' = c.state /\ draft' = draft /\ pitcher' = pitcher
      BY <1>7, <3>1 DEF AnswerPitch, UnderWay
    <3>3. draft' \/ onDisplay' = pitcher'
      BY <3>1, <3>2 DEF UnderWay
    <3>4. QED
      BY <3>1, <3>2, <3>3 DEF PitchInv
  <2>3. QED
    BY <2>1, <2>2
<1>8. ASSUME NEW c \in pitchCalls, FailPitch(c) PROVE PitchInv'
  <2> SUFFICES ASSUME ~astray, c.stage # "stored"
               PROVE  pitchCalls' = {} /\ pitcher'.pitches = tally' /\ (draft' \/ onDisplay' = pitcher')
    BY <1>8 DEF FailPitch, PitchInv
  <2>1. pitchCalls = {c} /\ UnderWay(c) /\ c.stage = "sent"
    BY <1>0 DEF PitchInv, CallTyped
  <2>2. QED
    BY <1>8, <2>1 DEF FailPitch, UnderWay
<1>9. CASE UploadHeadshot \/ (\E s \in photos : HeadshotFails(s)) \/ (\E p \in shelf : DeletePlayer(p))
           \/ \E d \in deleting : PlayerDeleted(d) \/ PlayerNotDeleted(d)
  BY <1>9, PitchInvKept DEF UploadHeadshot, HeadshotFails, DeletePlayer, PlayerDeleted, PlayerNotDeleted
<1>10. CASE SavePlayer \/ PlayerSaved \/ PlayerNotSaved \/ UNCHANGED pitchVars
  BY <1>10, PitchInvKept DEF SavePlayer, PlayerSaved, PlayerNotSaved, pitchVars
<1>11. QED
  BY <1>1, <1>2, <1>3, <1>4, <1>5, <1>6, <1>7, <1>8, <1>9, <1>10, <1>12 DEF PitchNext

LEMMA PitchInvariance == PitchSpec => [](PitchTypeInv /\ PitchInv)
<1>1. PitchInit => PitchInv
  BY DEF PitchInit, PitchInv
<1>2. QED
  BY <1>1, InitPitchTypeInv, StepPitchTypeInv, StepPitchInv, PTL DEF PitchSpec

\* The page that counts pitches keeps its types: no total leaves its bounds.
THEOREM PitchTypesCorrect == PitchSpec => []PitchTypeOK
<1>1. PitchTypeInv => PitchTypeOK
  BY DEF PitchTypeInv
<1>2. QED
  BY <1>1, PitchInvariance, PTL

\* At rest the page shows the total that the operator was told of, and the
\* display what the page shows unless that is a draft, whichever commands were
\* refused and whatever was edited under them: a press goes back to the board
\* that it found.  Exempt, until page, display and tally agree again, is what
\* "astray" names: a photo that took a pitch back, two commands at once, another
\* pitcher loaded under a command, and a lost answer.
THEOREM PitchesCount == PitchSpec => []PitchesCountedOnce
<1>1. PitchInv => PitchesCountedOnce
  BY DEF PitchInv, PitchesCountedOnce
<1>2. QED
  BY <1>1, PitchInvariance, PTL

-----------------------------------------------------------------------------
(* SavedLists: types, and what rows and requests have to do with each other. *)

Rows == [id : EntryIds, owner : Owners, stamp : 1..MaxWrites]
SaveRequests == [owner : Owners, stage : {"found", "prune", "delete"}, id : EntryIds, excess : SUBSET EntryIds]

\* A row is known by its id and by its stamp; an id stays with its owner.
ListTypeInv ==
  /\ entries \subseteq Rows /\ IsFiniteSet(entries) /\ used \subseteq EntryIds /\ unpruned \subseteq Owners
  /\ saves \subseteq SaveRequests /\ writes \in 0..MaxWrites
  /\ \A e \in entries : e.stamp =< writes /\ e.id \in used
  /\ \A e, f \in entries : e.id = f.id \/ e.stamp = f.stamp => e = f
  /\ \A r \in saves : r.id \in used /\ \A e \in entries : e.id = r.id => e.owner = r.owner

LEMMA InitListTypeInv == ListInit => ListTypeInv
  BY SavedListsAssumption, FS_EmptySet DEF ListInit, ListTypeInv

\* A row that is written is the newest; nothing else changes.
LEMMA WrittenRow ==
  ASSUME ListTypeInv, NEW id \in EntryIds, NEW o \in Owners, Write, entries' = WithRow(id, o),
         used' = used \cup {id}, \A r \in saves : r.id = id => r.owner = o
  PROVE  /\ entries' \subseteq Rows /\ IsFiniteSet(entries') /\ used' \subseteq EntryIds /\ writes' \in 0..MaxWrites
         /\ \A e \in entries' : e.stamp =< writes' /\ e.id \in used'
         /\ \A e, f \in entries' : e.id = f.id \/ e.stamp = f.stamp => e = f
         /\ \A r \in saves : \A e \in entries' : e.id = r.id => e.owner = r.owner
<1> DEFINE kept == {e \in entries : e.id # id}
           row == [id |-> id, owner |-> o, stamp |-> writes + 1]
<1>1. /\ writes \in Nat /\ writes < MaxWrites /\ writes' = writes + 1 /\ MaxWrites \in Nat
      /\ entries' = kept \cup {row} /\ kept \subseteq entries
  BY SavedListsAssumption DEF Write, WithRow, ListTypeInv
<1>2. row \in Rows /\ row.id = id /\ row.owner = o /\ row.stamp = writes + 1
  BY <1>1 DEF Rows
<1>3. IsFiniteSet(entries')
  <2>1. IsFiniteSet(kept)
    BY <1>1, FS_Subset DEF ListTypeInv
  <2> HIDE DEF kept, row
  <2>2. QED
    BY <1>1, <2>1, FS_AddElement
<1>4. \A e \in kept : e \in Rows /\ e.stamp \in Nat /\ e.stamp =< writes /\ e.id \in used /\ e.id # id
  BY <1>1 DEF ListTypeInv, Rows
<1> HIDE DEF kept, row
<1>5. entries' \subseteq Rows /\ used' \subseteq EntryIds /\ writes' \in 0..MaxWrites
  BY <1>1, <1>2, <1>4 DEF ListTypeInv
<1>6. \A e \in entries' : e.stamp =< writes' /\ e.id \in used'
  BY <1>1, <1>2, <1>4
<1>7. \A e, f \in entries' : e.id = f.id \/ e.stamp = f.stamp => e = f
  <2> SUFFICES ASSUME NEW e \in entries', NEW f \in entries', e.id = f.id \/ e.stamp = f.stamp PROVE e = f
    OBVIOUS
  <2>1. CASE e \in kept /\ f \in kept
    BY <1>1, <2>1 DEF ListTypeInv
  <2>2. CASE ~(e \in kept /\ f \in kept)
    BY <1>1, <1>2, <1>4, <2>2
  <2>3. QED
    BY <2>1, <2>2
<1>8. \A r \in saves : \A e \in entries' : e.id = r.id => e.owner = r.owner
  BY <1>1, <1>2 DEF ListTypeInv
<1>9. QED
  BY <1>3, <1>5, <1>6, <1>7, <1>8

LEMMA FewerRows ==
  ASSUME ListTypeInv, entries' \subseteq entries, saves' \subseteq SaveRequests, used' = used, writes' = writes,
         \A r \in saves' : r \in saves \/ \E q \in saves : r.id = q.id /\ r.owner = q.owner,
         unpruned' \subseteq Owners
  PROVE  ListTypeInv'
<1>1. IsFiniteSet(entries')
  BY FS_Subset DEF ListTypeInv
<1>2. \A r \in saves' : r.id \in used' /\ \A e \in entries' : e.id = r.id => e.owner = r.owner
  BY DEF ListTypeInv
<1>3. QED
  BY <1>1, <1>2 DEF ListTypeInv

LEMMA StepListTypeInv == ListTypeInv /\ [ListNext]_listVars => ListTypeInv'
<1> SUFFICES ASSUME ListTypeInv, [ListNext]_listVars PROVE ListTypeInv'
  OBVIOUS
<1>0. entries \subseteq Rows /\ saves \subseteq SaveRequests /\ unpruned \subseteq Owners
  BY DEF ListTypeInv
<1>1. ASSUME NEW o \in Owners, Create(o) PROVE ListTypeInv'
  <2>1. PICK id \in EntryIds \ used : /\ used' = used \cup {id} /\ entries' = WithRow(id, o)
                                      /\ Begin([owner |-> o, stage |-> "prune", id |-> id, excess |-> {}])
    BY <1>1 DEF Create
  <2>2. \A r \in saves : r.id # id
    BY <2>1 DEF ListTypeInv
  <2>3. Write
    BY <1>1 DEF Create
  <2>4. PICK q : q = [owner |-> o, stage |-> "prune", id |-> id, excess |-> {}]
    OBVIOUS
  <2>5. q \in SaveRequests /\ q.id = id /\ q.owner = o /\ saves' = saves \cup {q}
    BY <2>1, <2>4 DEF SaveRequests, Begin
  <2>6. \A e \in entries' : e.id = id => e.owner = o
    BY <2>1 DEF WithRow
  <2>7. \A r \in saves' : r.id \in used' /\ \A e \in entries' : e.id = r.id => e.owner = r.owner
    BY <2>1, <2>2, <2>3, <2>5, <2>6, WrittenRow DEF ListTypeInv
  <2>8. unpruned' = unpruned
    BY <1>1 DEF Create
  <2>9. QED
    BY <1>0, <2>1, <2>2, <2>3, <2>5, <2>7, <2>8, WrittenRow DEF ListTypeInv
<1>2. ASSUME NEW o \in Owners, FindOwn(o) PROVE ListTypeInv'
  <2>1. PICK id \in Ids(RowsOf(o)) : Begin([owner |-> o, stage |-> "found", id |-> id, excess |-> {}])
    BY <1>2 DEF FindOwn
  <2>2. PICK e \in entries : e.owner = o /\ e.id = id
    BY <2>1 DEF Ids, RowsOf
  <2>3. PICK q : q = [owner |-> o, stage |-> "found", id |-> id, excess |-> {}]
    OBVIOUS
  <2>4. q \in SaveRequests /\ q.id = id /\ q.owner = o /\ saves' = saves \cup {q}
    BY <1>0, <2>1, <2>2, <2>3 DEF SaveRequests, Begin, Rows
  <2>5. \A r \in saves' : r.id \in used /\ \A f \in entries : f.id = r.id => f.owner = r.owner
    BY <2>2, <2>4 DEF ListTypeInv
  <2>6. QED
    BY <1>0, <1>2, <2>4, <2>5 DEF ListTypeInv, FindOwn
<1>3. ASSUME NEW r \in saves, UpdateRow(r) PROVE ListTypeInv'
  <2>1. CASE /\ r.id \in Ids(entries) /\ Write
             /\ entries' = WithRow(r.id, r.owner)
             /\ MoveOn(r, [r EXCEPT !.stage = "prune"])
    <3>1. r \in SaveRequests /\ r.id \in EntryIds /\ r.owner \in Owners
      BY <1>0 DEF SaveRequests
    <3>2. PICK q : q = [r EXCEPT !.stage = "prune"]
      OBVIOUS
    <3>3. q \in SaveRequests /\ q.id = r.id /\ q.owner = r.owner /\ saves' = (saves \ {r}) \cup {q}
      BY <2>1, <3>1, <3>2 DEF SaveRequests, MoveOn
    <3>4. PICK e \in entries : e.id = r.id
      BY <2>1 DEF Ids
    <3>5. used' = used \cup {r.id} /\ e.owner = r.owner
      BY <1>3, <3>4 DEF UpdateRow, ListTypeInv
    <3>6. \A s \in saves : s.id = r.id => s.owner = r.owner
      BY <3>4, <3>5 DEF ListTypeInv
    <3>7. Write /\ entries' = WithRow(r.id, r.owner) /\ unpruned' = unpruned
      BY <1>3, <2>1 DEF UpdateRow
    <3>8. \A s \in saves : s.id \in used' /\ \A f \in entries' : f.id = s.id => f.owner = s.owner
      BY <3>1, <3>5, <3>6, <3>7, WrittenRow DEF ListTypeInv
    <3>9. \A s \in saves' : s.id \in used' /\ \A f \in entries' : f.id = s.id => f.owner = s.owner
      BY <3>3, <3>8
    <3>10. saves' \subseteq SaveRequests
      BY <1>0, <3>3
    <3>11. QED
      BY <1>0, <3>1, <3>5, <3>6, <3>7, <3>9, <3>10, WrittenRow DEF ListTypeInv
  <2>2. CASE saves' = saves \ {r} /\ UNCHANGED <<entries, writes>>
    BY <1>0, <1>3, <2>2, FewerRows DEF UpdateRow
  <2>3. QED
    BY <1>3, <2>1, <2>2 DEF UpdateRow
<1>4. ASSUME NEW r \in saves, PruneRead(r) PROVE ListTypeInv'
  <2>1. r \in SaveRequests /\ Excess(r.owner) \subseteq EntryIds
    BY <1>0 DEF SaveRequests, Excess, Ids, RowsOf, Rows
  <2>2. PICK q : q = [r EXCEPT !.stage = "delete", !.excess = Excess(r.owner)]
    OBVIOUS
  <2>3. q \in SaveRequests /\ q.id = r.id /\ q.owner = r.owner
    BY <2>1, <2>2 DEF SaveRequests
  <2>4. saves' \subseteq saves \cup {q}
    BY <1>4, <2>2 DEF PruneRead, MoveOn
  <2>5. QED
    BY <1>0, <1>4, <2>3, <2>4, FewerRows DEF PruneRead
<1>5. ASSUME NEW r \in saves, PruneDelete(r) PROVE ListTypeInv'
  BY <1>0, <1>5, FewerRows DEF PruneDelete
<1>6. ASSUME NEW r \in saves, PruneFails(r) PROVE ListTypeInv'
  BY <1>0, <1>6, FewerRows DEF PruneFails, SaveRequests
<1>7. ASSUME NEW o \in Owners, DeleteOwn(o) PROVE ListTypeInv'
  BY <1>0, <1>7, FewerRows DEF DeleteOwn
<1>8. CASE UNCHANGED listVars
  BY <1>0, <1>8, FewerRows DEF listVars
<1>9. QED
  BY <1>1, <1>2, <1>3, <1>4, <1>5, <1>6, <1>7, <1>8
  DEF ListNext, CreatePreload, CreateProfile, FindPreload, FindProfile, DeletePreloadRow, DeleteProfileRow

-----------------------------------------------------------------------------
(* SavedLists: an owner beyond the limit has a request that will prune.    *)

LEMMA RowsFinite ==
  ASSUME ListTypeInv, NEW o
  PROVE  IsFiniteSet(RowsOf(o)) /\ RowsOf(o) \subseteq entries /\ ListLimit \in Nat
<1>1. RowsOf(o) \subseteq entries
  BY DEF RowsOf
<1>2. QED
  BY <1>1, FS_Subset, SavedListsAssumption DEF ListTypeInv

LEMMA OldestRow ==
  ASSUME ListTypeInv, NEW rows, rows \subseteq entries, rows # {}
  PROVE  \E e \in rows : \A f \in rows : e.stamp =< f.stamp
<1> DEFINE stamps == {n \in Nat : \E e \in rows : e.stamp = n}
<1>1. \A e \in rows : e.stamp \in Nat
  BY DEF ListTypeInv, Rows
<1>2. stamps \in SUBSET Nat /\ stamps # {} /\ \A e \in rows : e.stamp \in stamps
  BY <1>1
<1>3. PICK n \in stamps : \A m \in stamps : n =< m
  BY <1>2, LeastNumber
<1>4. PICK e \in rows : e.stamp = n
  OBVIOUS
<1>5. QED
  BY <1>2, <1>3, <1>4

Newer(o, e) == {f \in RowsOf(o) : f.stamp > e.stamp}

LEMMA NewerFacts ==
  ASSUME ListTypeInv, NEW o, NEW e \in RowsOf(o)
  PROVE  /\ IsFiniteSet(Newer(o, e)) /\ Cardinality(Newer(o, e)) \in Nat
         /\ e.id \in Excess(o) <=> Cardinality(Newer(o, e)) >= ListLimit
<1>1. IsFiniteSet(Newer(o, e)) /\ Cardinality(Newer(o, e)) \in Nat
  BY RowsFinite, FS_Subset, FS_CardinalityType DEF Newer
<1>2. ASSUME e.id \in Excess(o) PROVE Cardinality(Newer(o, e)) >= ListLimit
  <2>1. PICK f \in RowsOf(o) : f.id = e.id /\ Cardinality(Newer(o, f)) >= ListLimit
    BY <1>2 DEF Excess, Ids, Newer
  <2>2. f = e
    BY <2>1 DEF RowsOf, ListTypeInv
  <2>3. QED
    BY <2>1, <2>2
<1>3. ASSUME Cardinality(Newer(o, e)) >= ListLimit PROVE e.id \in Excess(o)
  BY <1>3 DEF Excess, Ids, Newer
<1>4. QED
  BY <1>1, <1>2, <1>3

\* What a prune leaves is within the limit: all that is kept is newer than the
\* oldest row that is kept.
LEMMA KeptWithin ==
  ASSUME ListTypeInv, NEW o
  PROVE  Within(o, {e \in entries : ~(e.owner = o /\ e.id \in Excess(o))})
<1> DEFINE kept == {e \in RowsOf(o) : e.id \notin Excess(o)}
<1>1. {e \in {e \in entries : ~(e.owner = o /\ e.id \in Excess(o))} : e.owner = o} = kept
  BY DEF RowsOf
<1>2. kept \subseteq RowsOf(o) /\ kept \subseteq entries /\ IsFiniteSet(kept)
  BY RowsFinite, FS_Subset
<1>3. Cardinality(kept) =< ListLimit
  <2>1. CASE kept = {}
    BY <2>1, FS_EmptySet, RowsFinite
  <2>2. CASE kept # {}
    <3> HIDE DEF kept
    <3>1. PICK e \in kept : \A f \in kept : e.stamp =< f.stamp
      BY <1>2, <2>2, OldestRow
    <3>2. e \in RowsOf(o) /\ e.id \notin Excess(o)
      BY DEF kept
    <3>3. Cardinality(Newer(o, e)) < ListLimit /\ IsFiniteSet(Newer(o, e)) /\ Cardinality(Newer(o, e)) \in Nat
      BY <3>2, NewerFacts, RowsFinite
    <3>4. kept \ {e} \subseteq Newer(o, e)
      <4> SUFFICES ASSUME NEW f \in kept, f # e PROVE f.stamp > e.stamp
        BY <1>2 DEF Newer
      <4>1. e \in entries /\ f \in entries /\ e.stamp \in Nat /\ f.stamp \in Nat
        BY <1>2 DEF ListTypeInv, Rows
      <4>2. e.stamp # f.stamp
        BY <4>1 DEF ListTypeInv
      <4>3. QED
        BY <3>1, <4>1, <4>2
    <3>5. /\ Cardinality(kept \ {e}) = Cardinality(kept) - 1
          /\ Cardinality(kept) \in Nat
      BY <1>2, FS_RemoveElement, FS_CardinalityType
    <3>6. Cardinality(kept \ {e}) =< Cardinality(Newer(o, e))
      BY <3>3, <3>4, FS_Subset
    <3>7. Cardinality(kept) - 1 < ListLimit
      BY <3>3, <3>5, <3>6, RowsFinite
    <3>8. QED
      BY <3>5, <3>7, RowsFinite
  <2>3. QED
    BY <2>1, <2>2
<1>4. QED
  BY <1>1, <1>3 DEF Within

\* Within the limit nothing is in excess.
LEMMA NothingInExcess ==
  ASSUME ListTypeInv, NEW o, Within(o, entries)
  PROVE  Excess(o) = {}
<1>1. RowsOf(o) = {e \in entries : e.owner = o}
  BY DEF RowsOf
<1>2. Cardinality(RowsOf(o)) =< ListLimit
  BY <1>1 DEF Within
<1>3. ASSUME NEW e \in RowsOf(o) PROVE e.id \notin Excess(o)
  <2>1. IsFiniteSet(RowsOf(o)) /\ e \in entries /\ e.stamp \in Nat
    BY RowsFinite DEF ListTypeInv, Rows
  <2>2. Newer(o, e) \subseteq RowsOf(o) \ {e}
    BY <2>1 DEF Newer
  <2>3. IsFiniteSet(RowsOf(o) \ {e}) /\ Cardinality(RowsOf(o) \ {e}) = Cardinality(RowsOf(o)) - 1
        /\ Cardinality(RowsOf(o)) \in Nat
    BY <2>1, FS_RemoveElement, FS_CardinalityType
  <2>4. Cardinality(Newer(o, e)) =< Cardinality(RowsOf(o) \ {e}) /\ Cardinality(Newer(o, e)) \in Nat
    BY <2>2, <2>3, FS_Subset, NewerFacts
  <2>5. ~(Cardinality(Newer(o, e)) >= ListLimit)
    BY <1>2, <2>3, <2>4, RowsFinite
  <2>6. QED
    BY <2>5, NewerFacts
<1>4. QED
  BY <1>3 DEF Excess, Ids

LEMMA WithinSubset ==
  ASSUME ListTypeInv, NEW o, NEW rows, rows \subseteq entries, NEW fewer, fewer \subseteq rows, Within(o, rows)
  PROVE  Within(o, fewer)
<1> DEFINE all == {e \in rows : e.owner = o}
           some == {e \in fewer : e.owner = o}
<1>1. some \subseteq all /\ all \subseteq entries
  OBVIOUS
<1>2. IsFiniteSet(all) /\ IsFiniteSet(some)
  BY <1>1, FS_Subset DEF ListTypeInv
<1>3. Cardinality(some) =< Cardinality(all) /\ Cardinality(some) \in Nat /\ Cardinality(all) \in Nat
  BY <1>1, <1>2, FS_Subset, FS_CardinalityType
<1>4. Cardinality(all) =< ListLimit
  BY DEF Within
<1>5. QED
  BY <1>3, <1>4, RowsFinite DEF Within

Remainder(r) == {e \in entries : ~(e.owner = r.owner /\ e.id \in r.excess)}

\* r will bring the list of o back within the limit.
Prunes(r, o) ==
  /\ r.owner = o
  /\ r.stage = "prune" \/ (r.stage = "delete" /\ Within(o, Remainder(r)))

ListInv == \A o \in Owners \ unpruned : Within(o, entries) \/ \E r \in saves : Prunes(r, o)

\* Other owners' rows do not matter, and neither does what is deleted.
LEMMA ListKept ==
  ASSUME ListTypeInv, NEW o, NEW gone, \A q \in saves : q \in gone \/ q \in saves',
         Within(o, entries) \/ \E q \in saves : q \notin gone /\ Prunes(q, o),
         entries' \subseteq entries \/ \A e \in entries' \ entries : e.owner # o
  PROVE  Within(o, entries)' \/ \E q \in saves' : Prunes(q, o)'
<1>1. CASE Within(o, entries)
  <2> DEFINE rows == {e \in entries : e.owner = o}
  <2>1. Within(o, rows) /\ rows \subseteq entries
    <3>1. {e \in rows : e.owner = o} = {e \in entries : e.owner = o}
      OBVIOUS
    <3>2. QED
      BY <1>1, <3>1 DEF Within
  <2>2. PICK fewer : fewer = {e \in entries' : e.owner = o}
    OBVIOUS
  <2>3. fewer \subseteq rows
    BY <2>2
  <2>4. Within(o, fewer)
    BY <2>1, <2>3, WithinSubset
  <2>5. {e \in fewer : e.owner = o} = {e \in entries' : e.owner = o}
    BY <2>2
  <2>6. QED
    BY <2>4, <2>5 DEF Within
<1>2. ASSUME NEW q \in saves, Prunes(q, o) PROVE Prunes(q, o)'
  <2>1. CASE q.stage = "prune"
    BY <1>2, <2>1 DEF Prunes
  <2>2. CASE q.stage = "delete" /\ Within(o, Remainder(q))
    <3> DEFINE rows == {e \in Remainder(q) : e.owner = o}
    <3>1. Within(o, rows) /\ rows \subseteq entries
      <4>1. {e \in rows : e.owner = o} = {e \in Remainder(q) : e.owner = o}
        OBVIOUS
      <4>2. QED
        BY <2>2, <4>1 DEF Within, Remainder
    <3>2. PICK fewer : fewer = {e \in Remainder(q)' : e.owner = o}
      OBVIOUS
    <3>3. fewer \subseteq rows
      BY <3>2 DEF Remainder
    <3>4. Within(o, fewer)
      BY <3>1, <3>3, WithinSubset
    <3>5. {e \in fewer : e.owner = o} = {e \in Remainder(q)' : e.owner = o}
      BY <3>2
    <3>6. Within(o, Remainder(q))'
      BY <3>4, <3>5 DEF Within
    <3>7. QED
      BY <1>2, <2>2, <3>6 DEF Prunes
  <2>3. QED
    BY <1>2, <2>1, <2>2 DEF Prunes
<1>3. QED
  BY <1>1, <1>2

LEMMA StepListInv == ListTypeInv /\ ListInv /\ [ListNext]_listVars => ListInv'
<1> SUFFICES ASSUME ListTypeInv, ListInv, [ListNext]_listVars, NEW o \in Owners, o \notin unpruned'
             PROVE  Within(o, entries)' \/ \E q \in saves' : Prunes(q, o)'
  BY DEF ListInv
<1>0. \A r \in saves : r \in SaveRequests /\ r.owner \in Owners
  BY DEF ListTypeInv, SaveRequests
<1>b. PICK none : none = {}
  OBVIOUS
<1>a. o \notin unpruned => Within(o, entries) \/ \E q \in saves : Prunes(q, o)
  BY DEF ListInv
<1>1. ASSUME NEW p \in Owners, Create(p) PROVE Within(o, entries)' \/ \E q \in saves' : Prunes(q, o)'
  <2>1. PICK id \in EntryIds \ used : /\ entries' = WithRow(id, p)
                                      /\ Begin([owner |-> p, stage |-> "prune", id |-> id, excess |-> {}])
    BY <1>1 DEF Create
  <2>2. PICK r : r = [owner |-> p, stage |-> "prune", id |-> id, excess |-> {}]
    OBVIOUS
  <2>3. saves' = saves \cup {r} /\ r.owner = p /\ r.stage = "prune"
    BY <2>1, <2>2 DEF Begin
  <2>4. CASE o = p
    BY <2>3, <2>4 DEF Prunes
  <2>5. CASE o # p
    <3>1. \A e \in entries' \ entries : e.owner # o
      BY <2>1, <2>5 DEF WithRow
    <3>2. Within(o, entries) \/ \E q \in saves : q \notin none /\ Prunes(q, o)
      BY <1>1, <1>a, <1>b DEF Create
    <3>3. \A q \in saves : q \in none \/ q \in saves'
      BY <2>3
    <3>4. QED
      BY <3>1, <3>2, <3>3, ListKept
  <2>6. QED
    BY <2>4, <2>5
<1>2. ASSUME NEW p \in Owners, FindOwn(p) PROVE Within(o, entries)' \/ \E q \in saves' : Prunes(q, o)'
  <2>1. \A q \in saves : q \in none \/ q \in saves'
    BY <1>2 DEF FindOwn, Begin
  <2>2. Within(o, entries) \/ \E q \in saves : q \notin none /\ Prunes(q, o)
    BY <1>2, <1>a, <1>b DEF FindOwn
  <2>3. entries' = entries
    BY <1>2 DEF FindOwn
  <2>4. QED
    BY <2>1, <2>2, <2>3, ListKept
<1>3. ASSUME NEW r \in saves, UpdateRow(r) PROVE Within(o, entries)' \/ \E q \in saves' : Prunes(q, o)'
  <2>1. r \in SaveRequests /\ r.stage = "found" /\ unpruned' = unpruned
    BY <1>0, <1>3 DEF UpdateRow
  <2>2. \A q \in saves : Prunes(q, o) => q \notin {r}
    BY <2>1 DEF Prunes
  <2>3. Within(o, entries) \/ \E q \in saves : q \notin {r} /\ Prunes(q, o)
    BY <1>a, <2>1, <2>2
  <2>4. \A q \in saves : q \in {r} \/ q \in saves'
    BY <1>3 DEF UpdateRow, MoveOn
  <2>5. CASE entries' = WithRow(r.id, r.owner) /\ MoveOn(r, [r EXCEPT !.stage = "prune"])
    <3>1. CASE o = r.owner
      <4>1. PICK q : q = [r EXCEPT !.stage = "prune"]
        OBVIOUS
      <4>2. q.owner = o /\ q.stage = "prune" /\ q \in saves'
        BY <2>1, <2>5, <3>1, <4>1 DEF SaveRequests, MoveOn
      <4>3. QED
        BY <4>2 DEF Prunes
    <3>2. CASE o # r.owner
      <4>1. \A e \in entries' \ entries : e.owner # o
        BY <2>5, <3>2 DEF WithRow
      <4>2. QED
        BY <2>3, <2>4, <4>1, ListKept
    <3>3. QED
      BY <3>1, <3>2
  <2>6. CASE UNCHANGED entries
    BY <2>3, <2>4, <2>6, ListKept
  <2>7. QED
    BY <1>3, <2>5, <2>6 DEF UpdateRow
<1>4. ASSUME NEW r \in saves, PruneRead(r) PROVE Within(o, entries)' \/ \E q \in saves' : Prunes(q, o)'
  <2>1. r \in SaveRequests /\ entries' = entries /\ unpruned' = unpruned
    BY <1>0, <1>4 DEF PruneRead
  <2>2. \A q \in saves : q \in {r} \/ q \in saves'
    BY <1>4 DEF PruneRead, MoveOn
  <2>3. CASE o # r.owner
    <3>1. Within(o, entries) \/ \E q \in saves : q \notin {r} /\ Prunes(q, o)
      BY <1>a, <2>1, <2>3 DEF Prunes
    <3>2. QED
      BY <2>1, <2>2, <3>1, ListKept
  <2>4. CASE o = r.owner /\ Excess(o) = {}
    <3>1. {e \in entries : ~(e.owner = o /\ e.id \in Excess(o))} = entries
      BY <2>4
    <3>2. Within(o, entries)
      BY <3>1, KeptWithin
    <3>3. QED
      BY <2>1, <2>2, <3>2, ListKept
  <2>5. CASE o = r.owner /\ Excess(o) # {}
    <3>1. PICK q : q = [r EXCEPT !.stage = "delete", !.excess = Excess(r.owner)]
      OBVIOUS
    <3>2. q.owner = o /\ q.stage = "delete" /\ q.excess = Excess(o) /\ q \in saves'
      BY <1>4, <2>1, <2>5, <3>1 DEF SaveRequests, PruneRead, MoveOn
    <3>3. Remainder(q) = {e \in entries : ~(e.owner = o /\ e.id \in Excess(o))}
      BY <3>2 DEF Remainder
    <3>4. Within(o, Remainder(q))
      BY <3>3, KeptWithin
    <3>5. Within(o, Remainder(q))'
      BY <2>1, <3>4 DEF Remainder, Within
    <3>6. QED
      BY <3>2, <3>5 DEF Prunes
  <2>6. QED
    BY <2>3, <2>4, <2>5
<1>5. ASSUME NEW r \in saves, PruneDelete(r) PROVE Within(o, entries)' \/ \E q \in saves' : Prunes(q, o)'
  <2>1. /\ entries' = Remainder(r) /\ entries' \subseteq entries /\ r.stage = "delete"
        /\ \A q \in saves : q \in {r} \/ q \in saves'
    BY <1>5 DEF PruneDelete, Remainder
  <2>2. CASE o # r.owner
    <3>1. Within(o, entries) \/ \E q \in saves : q \notin {r} /\ Prunes(q, o)
      BY <1>5, <1>a, <2>2 DEF Prunes, PruneDelete
    <3>2. QED
      BY <2>1, <3>1, ListKept
  <2>3. CASE o = r.owner /\ Within(o, entries)'
    BY <2>3
  <2>4. CASE o = r.owner /\ ~Within(o, entries)'
    <3>1. ~Within(r.owner, entries') /\ unpruned' = unpruned
      BY <1>5, <2>4 DEF PruneDelete, Within
    <3>2. ~Within(o, Remainder(r)) /\ o = r.owner
      BY <2>1, <2>4, <3>1
    <3>3. Within(o, entries) \/ \E q \in saves : q \notin {r} /\ Prunes(q, o)
      BY <1>a, <2>1, <3>1, <3>2 DEF Prunes
    <3>4. QED
      BY <2>1, <3>3, ListKept
  <2>5. QED
    BY <2>2, <2>3, <2>4
<1>6. ASSUME NEW r \in saves, PruneFails(r) PROVE Within(o, entries)' \/ \E q \in saves' : Prunes(q, o)'
  <2>1. entries' = entries /\ \A q \in saves : q \in {r} \/ q \in saves'
    BY <1>6 DEF PruneFails
  <2>2. CASE Within(r.owner, entries)
    <3>1. Within(o, entries) \/ \E q \in saves : q \notin {r} /\ Prunes(q, o)
      BY <1>6, <1>a, <2>2 DEF Prunes, PruneFails
    <3>2. QED
      BY <2>1, <3>1, ListKept
  <2>3. CASE ~Within(r.owner, entries)
    <3>1. o # r.owner /\ o \notin unpruned
      BY <1>6, <2>3 DEF PruneFails
    <3>2. Within(o, entries) \/ \E q \in saves : q \notin {r} /\ Prunes(q, o)
      BY <1>a, <3>1 DEF Prunes
    <3>3. QED
      BY <2>1, <3>2, ListKept
  <2>4. QED
    BY <2>2, <2>3
<1>7. ASSUME NEW p \in Owners, DeleteOwn(p) PROVE Within(o, entries)' \/ \E q \in saves' : Prunes(q, o)'
  <2>1. entries' \subseteq entries /\ saves' = saves
    BY <1>7 DEF DeleteOwn
  <2>2. CASE o \in unpruned
    BY <1>7, <2>2 DEF DeleteOwn, Within
  <2>3. CASE o \notin unpruned
    <3>1. Within(o, entries) \/ \E q \in saves : q \notin none /\ Prunes(q, o)
      BY <1>a, <1>b, <2>3
    <3>2. \A q \in saves : q \in none \/ q \in saves'
      BY <2>1
    <3>3. QED
      BY <2>1, <3>1, <3>2, ListKept
  <2>4. QED
    BY <2>2, <2>3
<1>8. CASE UNCHANGED listVars
  <2>1. Within(o, entries) \/ \E q \in saves : q \notin none /\ Prunes(q, o)
    BY <1>8, <1>a, <1>b DEF listVars
  <2>2. entries' = entries /\ saves' = saves
    BY <1>8 DEF listVars
  <2>3. \A q \in saves : q \in none \/ q \in saves'
    BY <2>2
  <2>4. QED
    BY <2>1, <2>2, <2>3, ListKept
<1>9. QED
  BY <1>1, <1>2, <1>3, <1>4, <1>5, <1>6, <1>7, <1>8
  DEF ListNext, CreatePreload, CreateProfile, FindPreload, FindProfile, DeletePreloadRow, DeleteProfileRow

LEMMA ListInvariance == ListSpec => [](ListTypeInv /\ ListInv)
<1>1. ListInit => ListInv
  <2> SUFFICES ASSUME ListInit, NEW o \in Owners PROVE Within(o, entries)
    BY DEF ListInv
  <2>1. {e \in entries : e.owner = o} = {}
    BY DEF ListInit
  <2>2. Cardinality({}) =< ListLimit
    BY FS_EmptySet, SavedListsAssumption
  <2>3. QED
    BY <2>1, <2>2, Zenon DEF Within
<1>2. QED
  BY <1>1, InitListTypeInv, StepListTypeInv, StepListInv, PTL DEF ListSpec

\* Rows, ids and requests keep their types (SavedLists, the preload and player
\* routes), whatever fails in between.
THEOREM ListTypesCorrect == ListSpec => []ListTypeOK
<1>1. ListTypeInv => ListTypeOK
  BY DEF ListTypeInv, ListTypeOK, Rows, SaveRequests
<1>2. QED
  BY <1>1, ListInvariance, PTL

\* An account whose requests are answered has at most ListLimit entries, all
\* of them listed, for every number of requests that interleave, unless a
\* prune failed and none has succeeded since (prunePracticeBoardPreloads,
\* prunePitchKountProfiles).
THEOREM ListStaysWithin == ListSpec => []ListWithinLimit
<1>1. ListTypeInv /\ ListInv => ListWithinLimit
  <2> SUFFICES ASSUME ListTypeInv, ListInv, NEW o \in Owners \ unpruned, \A r \in saves : r.owner # o
               PROVE  Within(o, entries) /\ Listing(o) = Ids(RowsOf(o))
    BY DEF ListWithinLimit
  <2>1. Within(o, entries)
    BY DEF ListInv, Prunes
  <2>2. Excess(o) = {}
    BY <2>1, NothingInExcess
  <2>3. QED
    BY <2>1, <2>2 DEF Listing
<1>2. QED
  BY <1>1, ListInvariance, PTL

-----------------------------------------------------------------------------
(* DisplaySettings: types.  Clamping keeps every box on the canvas.        *)

SettingModes == [type : SettingTypes, ads : SUBSET Creatives]
Copies == [mode : SettingModes, preferred : SUBSET Creatives]
Drags == [kind : {"draw", "move", "w", "e"}, from : 0..Canvas, box : Boxes]
ConfigCalls == [id : Nat, of : {"box", "color"}, config : Configs, at : {"sent", "stored", "pushed"}]
ModeCalls == [id : Nat, by : {"page", "ads"}, box : Boxes \cup {NoBox}, at : {"sent", "shown"},
              crossed : BOOLEAN, mode : SettingModes]
AdCalls == [id : Nat, ad : Creatives, copy : Copies, at : {"asked", "changed", "listed", "kept"},
            next : SUBSET Creatives, crossed : BOOLEAN]
Forms == [box : Boxes, saved : Boxes, color : BOOLEAN, savedColor : BOOLEAN]
Pending == [latest : Boxes \cup {NoBox}, timer : BOOLEAN, recent : BOOLEAN]

CalibrationTypes ==
  /\ form \in Forms /\ drag \in Drags \cup {NoBox} /\ preview \in Pending
  /\ previews \in Seq(Configs) /\ patches \subseteq ConfigCalls
  /\ colorBusy \in BOOLEAN /\ disturbed \in BOOLEAN

ModeTypes ==
  /\ pageDevice \in Copies /\ modeSends \subseteq ModeCalls /\ adChanges \subseteq AdCalls
  /\ activeAds \subseteq Creatives /\ apart \in BOOLEAN

StoredTypes ==
  /\ record \in [config : Configs, mode : SettingModes, preferred : SUBSET Creatives]
  /\ agent \in [config : Configs, preview : Configs \cup {NoBox}, mode : SettingModes]
  /\ todo \in [{"pointer", "config", "mode", "ads"} -> Nat] /\ settingsBusy \in BOOLEAN

SettingsTypeInv == CalibrationTypes /\ ModeTypes /\ StoredTypes

LEMMA NoBoxApart == NoBox \notin Boxes /\ NoBox \notin Configs /\ NoBox \notin Drags
<1>1. DOMAIN NoBox = {"none"}
  BY DEF NoBox
<1>2. \A b \in Boxes : DOMAIN b = {"x", "width", "turn"}
  BY DEF Boxes
<1>3. \A c \in Configs : DOMAIN c = {"box", "color"}
  BY DEF Configs
<1>4. \A d \in Drags : DOMAIN d = {"kind", "from", "box"}
  BY DEF Drags
<1>5. "x" # "none" /\ "box" # "none"
  OBVIOUS
<1>6. QED
  BY <1>1, <1>2, <1>3, <1>4, <1>5

LEMMA ClampedBox == ASSUME NEW b \in [x : Int, width : Int, turn : Rotations] PROVE ClampCalibrationBox(b) \in Boxes
<1> DEFINE width == Clamp(b.width, MinSize, Canvas)
           x == Clamp(b.x, 0, Canvas - width)
<1>1. Canvas \in Nat /\ MinSize \in 1..Canvas
  BY SettingsAssumption
<1>2. width \in MinSize..Canvas
  BY <1>1 DEF Clamp
<1>3. Canvas - width \in Nat
  BY <1>1, <1>2
<1> HIDE DEF width
<1>4. x \in 0..Canvas /\ x + width =< Canvas
  BY <1>1, <1>2, <1>3 DEF Clamp
<1> HIDE DEF x
<1>5. PICK r : r = [b EXCEPT !.x = x, !.width = width]
  OBVIOUS
<1>6. r \in [x : 0..Canvas, width : MinSize..Canvas, turn : Rotations] /\ r.x = x /\ r.width = width
  BY <1>2, <1>4, <1>5
<1>7. r \in Boxes
  BY <1>4, <1>6 DEF Boxes
<1>8. QED
  BY <1>5, <1>7 DEF ClampCalibrationBox, width, x

LEMMA BoxFacts ==
  \A b \in Boxes : /\ b \in [x : Int, width : Int, turn : Rotations]
                   /\ b.x \in 0..Canvas /\ b.width \in Int /\ b.turn \in Rotations
<1>1. Canvas \in Nat /\ MinSize \in 1..Canvas
  BY SettingsAssumption
<1>2. 0..Canvas \subseteq Int /\ MinSize..Canvas \subseteq Int
  BY <1>1
<1>3. QED
  BY <1>2 DEF Boxes

LEMMA ConfigFacts == \A box \in Boxes, color \in BOOLEAN :
                       Config(box, color) \in Configs /\ Config(box, color).box = box
  BY DEF Config, Configs

\* What a preview leaves: nothing to be sent later.
LEMMA SentFacts ==
  /\ [Quiet EXCEPT !.recent = TRUE] \in Pending /\ [Quiet EXCEPT !.recent = TRUE].latest = NoBox
  /\ \A box \in Boxes, p \in Pending : /\ [p EXCEPT !.latest = box, !.timer = TRUE] \in Pending
                                       /\ [p EXCEPT !.latest = box, !.timer = TRUE].latest = box
<1>1. PICK q : q = [latest |-> NoBox, timer |-> FALSE, recent |-> FALSE]
  OBVIOUS
<1>2. q \in Pending /\ q.latest = NoBox /\ q = Quiet
  BY <1>1 DEF Quiet, Pending
<1>3. [q EXCEPT !.recent = TRUE] \in Pending /\ [q EXCEPT !.recent = TRUE].latest = NoBox
  BY <1>2 DEF Pending
<1>4. ASSUME NEW box \in Boxes, NEW p \in Pending
      PROVE  [p EXCEPT !.latest = box, !.timer = TRUE] \in Pending /\ [p EXCEPT !.latest = box, !.timer = TRUE].latest = box
  BY DEF Pending
<1>5. QED
  BY <1>2, <1>3, <1>4

LEMMA QueueTypes ==
  ASSUME CalibrationTypes, NEW box \in Boxes, QueuePreview(box)
  PROVE  preview' \in Pending /\ previews' \in Seq(Configs)
<1>1. [Quiet EXCEPT !.recent = TRUE] \in Pending /\ form.color \in BOOLEAN /\ preview \in Pending /\ previews \in Seq(Configs)
  BY SentFacts DEF CalibrationTypes, Forms
<1>2. Config(box, form.color) \in Configs
  BY <1>1, ConfigFacts
<1>3. QED
  <2>1. CASE preview.recent
    <3>1. preview' = [preview EXCEPT !.latest = box, !.timer = TRUE] /\ previews' = previews
      BY <2>1, Zenon DEF QueuePreview
    <3>2. QED
      BY <1>1, <3>1, SentFacts
  <2>2. CASE ~preview.recent
    <3>1. preview' = [Quiet EXCEPT !.recent = TRUE] /\ previews' = Append(previews, Config(box, form.color))
      BY <2>2, Zenon DEF QueuePreview
    <3>2. preview' \in Pending
      BY <1>1, <3>1
    <3>3. previews' \in Seq(Configs)
      BY <1>1, <1>2, <3>1
    <3>4. QED
      BY <3>2, <3>3
  <2>3. QED
    BY <2>1, <2>2

LEMMA FlushTypes ==
  ASSUME CalibrationTypes, FlushPreview
  PROVE  preview' \in Pending /\ previews' \in Seq(Configs)
<1>1. [Quiet EXCEPT !.recent = TRUE] \in Pending /\ form.color \in BOOLEAN /\ preview \in Pending /\ previews \in Seq(Configs)
  BY SentFacts DEF CalibrationTypes, Forms
<1>2. CASE preview.latest = NoBox
  BY <1>1, <1>2 DEF FlushPreview
<1>3. CASE preview.latest # NoBox
  <2>1. preview.latest \in Boxes
    BY <1>1, <1>3 DEF Pending
  <2>2. Config(preview.latest, form.color) \in Configs
    BY <1>1, <2>1, ConfigFacts
  <2>3. QED
    <3>1. preview' = [Quiet EXCEPT !.recent = TRUE] /\ previews' = Append(previews, Config(preview.latest, form.color))
      BY <1>3, Zenon DEF FlushPreview
    <3>2. preview' \in Pending
      BY <1>1, <3>1
    <3>3. previews' \in Seq(Configs)
      BY <1>1, <2>2, <3>1
    <3>4. QED
      BY <3>2, <3>3
<1>4. QED
  BY <1>2, <1>3

LEMMA SetTypes ==
  ASSUME CalibrationTypes, NEW b \in [x : Int, width : Int, turn : Rotations], SetCalibration(b)
  PROVE  /\ form' \in Forms /\ preview' \in Pending /\ previews' \in Seq(Configs)
         /\ form'.box = ClampCalibrationBox(b) /\ QueuePreview(form'.box)
         /\ form'.saved = form.saved /\ form'.savedColor = form.savedColor
<1>1. PICK box \in Boxes : box = ClampCalibrationBox(b)
  BY ClampedBox
<1>2. form' = [form EXCEPT !.box = box] /\ QueuePreview(box)
  BY <1>1 DEF SetCalibration
<1>3. form' \in Forms /\ form'.box = box /\ form'.saved = form.saved /\ form'.savedColor = form.savedColor
  BY <1>2 DEF CalibrationTypes, Forms
<1>4. QED
  BY <1>1, <1>2, <1>3, QueueTypes

LEMMA DropFacts ==
  ASSUME NEW s \in Seq(Configs), NEW i \in 1..Len(s)
  PROVE  Drop(s, i) \in Seq(Configs) /\ s[i] \in Configs
  BY DEF Drop

LEMMA DropFirst ==
  ASSUME NEW s \in Seq(Configs), Len(s) >= 1
  PROVE  /\ Len(s) = 1 => Drop(s, 1) = <<>>
         /\ Len(s) > 1 => Drop(s, 1) # <<>> /\ Drop(s, 1)[Len(Drop(s, 1))] = s[Len(s)]
<1>1. Len(s) \in Nat
  OBVIOUS
<1>2. SubSeq(s, 1, 0) = <<>> /\ SubSeq(s, 2, Len(s)) = Tail(s)
  BY <1>1
<1>3. Tail(s) \in Seq(Configs) /\ Len(Tail(s)) = Len(s) - 1 /\ \A k \in 1..Len(Tail(s)) : Tail(s)[k] = s[k + 1]
  BY <1>1
<1>4. <<>> \o Tail(s) = Tail(s)
  BY <1>3
<1>5. Drop(s, 1) = Tail(s)
  BY <1>2, <1>4 DEF Drop
<1>6. QED
  BY <1>1, <1>3, <1>5

\* What moves a request on leaves its other fields alone.
LEMMA ConfigCallFacts ==
  \A s \in ConfigCalls, stage \in {"sent", "stored", "pushed"} :
    LET t == [s EXCEPT !.at = stage]
    IN t \in ConfigCalls /\ t.at = stage /\ t.config = s.config
  BY DEF ConfigCalls

LEMMA ShownFacts ==
  ASSUME NEW c \in ModeCalls, NEW d, d = [c EXCEPT !.at = "shown"]
  PROVE  d \in ModeCalls /\ d.at = "shown" /\ d.by = c.by /\ d.mode = c.mode /\ d.crossed = c.crossed
  BY DEF ModeCalls

LEMMA CrossedModeFacts ==
  ASSUME NEW c \in ModeCalls, NEW d, d = [c EXCEPT !.crossed = TRUE]
  PROVE  d \in ModeCalls /\ d.crossed = TRUE
  BY DEF ModeCalls

LEMMA AdStageFacts ==
  ASSUME NEW a \in AdCalls, NEW stage \in {"changed", "listed", "kept"}, NEW b, b = To(a, stage)
  PROVE  b \in AdCalls /\ b.at = stage /\ b.copy = a.copy /\ b.next = a.next /\ b.crossed = a.crossed
  BY DEF To, AdCalls

LEMMA AdListedFacts ==
  ASSUME NEW a \in AdCalls, NEW creatives \in SUBSET Creatives, NEW b, b = [To(a, "listed") EXCEPT !.next = creatives]
  PROVE  b \in AdCalls /\ b.at = "listed" /\ b.copy = a.copy /\ b.crossed = a.crossed
<1>1. PICK t : t = To(a, "listed")
  OBVIOUS
<1>2. t \in AdCalls /\ t.at = "listed" /\ t.copy = a.copy /\ t.crossed = a.crossed
  BY <1>1, AdStageFacts
<1>3. b = [t EXCEPT !.next = creatives]
  BY <1>1
<1>4. QED
  BY <1>2, <1>3 DEF AdCalls

LEMMA CrossedAdFacts ==
  ASSUME NEW a \in AdCalls, NEW b, b = [a EXCEPT !.crossed = TRUE]
  PROVE  b \in AdCalls /\ b.crossed = TRUE
  BY DEF AdCalls

LEMMA CrossModeFacts ==
  ASSUME NEW requests \in SUBSET ModeCalls
  PROVE  \A d \in Cross(requests) : d \in ModeCalls /\ d.crossed = TRUE
<1> SUFFICES ASSUME NEW d \in Cross(requests) PROVE d \in ModeCalls /\ d.crossed = TRUE
  OBVIOUS
<1>1. PICK c \in requests : d = [c EXCEPT !.crossed = TRUE]
  BY DEF Cross
<1>2. QED
  BY <1>1, CrossedModeFacts

LEMMA CrossAdFacts ==
  ASSUME NEW requests \in SUBSET AdCalls
  PROVE  \A b \in Cross(requests) : b \in AdCalls /\ b.crossed = TRUE
<1> SUFFICES ASSUME NEW b \in Cross(requests) PROVE b \in AdCalls /\ b.crossed = TRUE
  OBVIOUS
<1>1. PICK a \in requests : b = [a EXCEPT !.crossed = TRUE]
  BY DEF Cross
<1>2. QED
  BY <1>1, CrossedAdFacts

LEMMA CrossNone == Cross({}) = {}
  BY DEF Cross

LEMMA NumberFacts == StoredTypes => Number \in Nat
<1>1. ASSUME StoredTypes PROVE todo["mode"] \in Nat /\ todo["ads"] \in Nat /\ todo["config"] \in Nat
  BY <1>1 DEF StoredTypes
<1>2. QED
  BY <1>1 DEF Number

LEMMA DoesFacts ==
  ASSUME StoredTypes, NEW what \in {"pointer", "config", "mode", "ads"}, Does(what)
  PROVE  todo' \in [{"pointer", "config", "mode", "ads"} -> Nat]
<1>1. todo[what] - 1 \in Nat
  BY DEF StoredTypes, Does
<1>2. QED
  BY <1>1 DEF StoredTypes, Does

LEMMA FullBox == Full \in Boxes
<1>1. PICK b : b = [x |-> 0, width |-> Canvas, turn |-> 0]
  OBVIOUS
<1>2. Canvas \in Nat /\ MinSize \in 1..Canvas /\ 0 \in Rotations
  BY SettingsAssumption
<1>3. b \in [x : 0..Canvas, width : MinSize..Canvas, turn : Rotations] /\ b.x + b.width =< Canvas
  BY <1>1, <1>2
<1>4. QED
  BY <1>1, <1>3 DEF Boxes, Full

LEMMA InitSettingsTypes == SettingsInit => SettingsTypeInv
<1> SUFFICES ASSUME SettingsInit PROVE SettingsTypeInv
  OBVIOUS
<1>0. PICK creatives \in {{}, Creatives}, type \in {"basketball", "calibration"} :
        LET mode == Mode(type, IF type \in SportTypes THEN creatives ELSE {})
            config == Config(Full, TRUE)
        IN /\ pageDevice = [mode |-> mode, preferred |-> creatives] /\ activeAds = creatives
           /\ record = [config |-> config, mode |-> mode, preferred |-> creatives]
           /\ agent = [config |-> config, preview |-> NoBox, mode |-> mode]
  BY DEF SettingsInit
<1>1. PICK mode, config :
        /\ mode = Mode(type, IF type \in SportTypes THEN creatives ELSE {}) /\ config = Config(Full, TRUE)
        /\ form = [box |-> Full, saved |-> Full, color |-> TRUE, savedColor |-> TRUE]
        /\ drag = NoBox /\ preview = Quiet /\ settingsBusy = FALSE /\ colorBusy = FALSE
        /\ previews = <<>> /\ patches = {} /\ modeSends = {} /\ adChanges = {}
        /\ pageDevice = [mode |-> mode, preferred |-> creatives] /\ activeAds = creatives
        /\ record = [config |-> config, mode |-> mode, preferred |-> creatives]
        /\ agent = [config |-> config, preview |-> NoBox, mode |-> mode]
        /\ todo \in Sittings /\ disturbed = FALSE /\ apart = FALSE
  BY <1>0 DEF SettingsInit
<1>2. mode \in SettingModes /\ config \in Configs /\ creatives \in SUBSET Creatives
  BY <1>1, FullBox, ConfigFacts DEF Mode, SettingModes, SettingTypes, SportTypes
<1>3. CalibrationTypes
  <2>1. form \in Forms /\ preview \in Pending
    BY <1>1, FullBox DEF Forms, Pending, Quiet
  <2>2. previews \in Seq(Configs) /\ patches \subseteq ConfigCalls /\ drag \in Drags \cup {NoBox}
    BY <1>1
  <2>3. colorBusy \in BOOLEAN /\ disturbed \in BOOLEAN
    BY <1>1, FALSE \in BOOLEAN, Zenon
  <2>4. QED
    BY <2>1, <2>2, <2>3 DEF CalibrationTypes
<1>4. ModeTypes
  BY <1>1, <1>2 DEF ModeTypes, Copies
<1>5. StoredTypes
  <2>1. todo \in [{"pointer", "config", "mode", "ads"} -> Nat]
    BY <1>1, SettingsAssumption
  <2>2. QED
    BY <1>1, <1>2, <2>1 DEF StoredTypes
<1>6. QED
  BY <1>3, <1>4, <1>5 DEF SettingsTypeInv

LEMMA BoxWith ==
  \A b \in [x : Int, width : Int, turn : Rotations], x, width \in Int :
    [b EXCEPT !.x = x, !.width = width] \in [x : Int, width : Int, turn : Rotations]
  OBVIOUS

LEMMA DraggedBox ==
  ASSUME CalibrationTypes, drag # NoBox, NEW at \in 0..Canvas
  PROVE  Dragged(at) \in [x : Int, width : Int, turn : Rotations]
<1>1. drag \in Drags /\ drag.from \in Int /\ at \in Int
  BY SettingsAssumption DEF CalibrationTypes, Drags
<1>2. PICK b \in [x : Int, width : Int, turn : Rotations] : b = drag.box
  BY <1>1, BoxFacts DEF Drags
<1>3. PICK f \in [x : Int, width : Int, turn : Rotations] : f = form.box
  BY BoxFacts DEF CalibrationTypes, Forms
<1>4. PICK by \in Int : by = at - drag.from
  BY <1>1
<1>5. CASE drag.kind = "draw"
  <2>1. PICK x \in Int, width \in Int : /\ x = IF by < 0 THEN at ELSE drag.from
                                       /\ width = IF by < 0 THEN 0 - by ELSE by
    BY <1>1, <1>4
  <2>2. Dragged(at) = [f EXCEPT !.x = x, !.width = width]
    BY <1>3, <1>4, <1>5, <2>1 DEF Dragged
  <2>3. QED
    BY <2>2, BoxWith
<1>6. CASE drag.kind = "move"
  BY <1>1, <1>2, <1>4, <1>6 DEF Dragged
<1>7. CASE drag.kind = "w"
  <2>1. PICK x \in Int, width \in Int : x = b.x + by /\ width = b.width - by
    BY <1>2, <1>4
  <2>2. Dragged(at) = [b EXCEPT !.x = x, !.width = width]
    BY <1>2, <1>4, <1>7, <2>1 DEF Dragged
  <2>3. QED
    BY <2>2, BoxWith
<1>8. CASE drag.kind = "e"
  BY <1>1, <1>2, <1>4, <1>8 DEF Dragged
<1>9. QED
  BY <1>1, <1>5, <1>6, <1>7, <1>8 DEF Drags

LEMMA StepCalibrationTypes == SettingsTypeInv /\ [SettingsNext]_settingsVars => CalibrationTypes'
<1> SUFFICES ASSUME SettingsTypeInv, [SettingsNext]_settingsVars PROVE CalibrationTypes'
  OBVIOUS
<1>0. CalibrationTypes /\ StoredTypes /\ ModeTypes
  BY DEF SettingsTypeInv
<1>a. /\ form \in Forms /\ drag \in Drags \cup {NoBox} /\ preview \in Pending
      /\ previews \in Seq(Configs) /\ patches \subseteq ConfigCalls
  BY <1>0 DEF CalibrationTypes
<1>b. colorBusy \in BOOLEAN /\ disturbed \in BOOLEAN /\ TRUE \in BOOLEAN /\ FALSE \in BOOLEAN
  BY <1>0, Zenon DEF CalibrationTypes
<1>c. form.box \in Boxes /\ form.box \in [x : Int, width : Int, turn : Rotations]
  BY <1>a, BoxFacts DEF Forms
<1> DEFINE Same == UNCHANGED <<colorBusy, patches, disturbed>>
<1>d. ASSUME Same, form' \in Forms, drag' \in Drags \cup {NoBox}, preview' \in Pending, previews' \in Seq(Configs)
      PROVE  CalibrationTypes'
  BY <1>a, <1>b, <1>d DEF CalibrationTypes
<1>e. ASSUME NEW b \in [x : Int, width : Int, turn : Rotations], SetCalibration(b)
      PROVE  form' \in Forms /\ preview' \in Pending /\ previews' \in Seq(Configs)
  BY <1>0, <1>e, SetTypes
<1>1. ASSUME PreviewTimer PROVE CalibrationTypes'
  BY <1>0, <1>1, <1>a, <1>d, FlushTypes DEF PreviewTimer, KeepCalls
<1>2. ASSUME TenthPasses PROVE CalibrationTypes'
  BY <1>2, <1>a, <1>d DEF TenthPasses, KeepCalls, Pending
<1>3. ASSUME StartDrag PROVE CalibrationTypes'
  <2>1. Same
    BY <1>3 DEF StartDrag, KeepCalls
  <2>2. PICK at \in 0..Canvas :
          \/ /\ drag' = [kind |-> "draw", from |-> at, box |-> form.box]
             /\ SetCalibration([form.box EXCEPT !.x = at, !.width = MinSize])
          \/ \E what \in {"move", "w", "e"} :
               /\ drag' = [kind |-> what, from |-> at, box |-> form.box]
               /\ UNCHANGED <<form, preview, previews>>
    BY <1>3 DEF StartDrag
  <2>3. drag' \in Drags
    BY <1>c, <2>2 DEF Drags
  <2>4. CASE UNCHANGED <<form, preview, previews>>
    BY <1>a, <1>d, <2>1, <2>3, <2>4
  <2>5. CASE SetCalibration([form.box EXCEPT !.x = at, !.width = MinSize])
    <3>1. [form.box EXCEPT !.x = at, !.width = MinSize] \in [x : Int, width : Int, turn : Rotations]
      <4>1. at \in Int /\ MinSize \in Int
        BY SettingsAssumption
      <4>2. QED
        BY <1>c, <4>1, BoxWith
    <3>2. QED
      BY <1>d, <1>e, <2>1, <2>3, <2>5, <3>1
  <2>6. QED
    BY <2>2, <2>4, <2>5
<1>4. ASSUME MoveDrag PROVE CalibrationTypes'
  <2>1. PICK at \in 0..Canvas : SetCalibration(Dragged(at))
    BY <1>4 DEF MoveDrag
  <2>2. Dragged(at) \in [x : Int, width : Int, turn : Rotations]
    BY <1>0, <1>4, DraggedBox DEF MoveDrag
  <2>3. Same /\ drag' = drag
    BY <1>4 DEF MoveDrag, KeepCalls
  <2>4. QED
    BY <1>a, <1>d, <1>e, <2>1, <2>2, <2>3
<1>5. ASSUME EndDrag PROVE CalibrationTypes'
  BY <1>0, <1>5, <1>a, <1>d, FlushTypes DEF EndDrag, KeepCalls
<1>6. ASSUME ResetOrRotate PROVE CalibrationTypes'
  <2>1. Same /\ drag' = drag
    BY <1>6 DEF ResetOrRotate, KeepCalls
  <2>2. PICK b \in [x : Int, width : Int, turn : Rotations] : SetCalibration(b)
    <3>1. CASE SetCalibration(Full)
      BY <3>1, FullBox, BoxFacts
    <3>2. ASSUME NEW turn \in Rotations, SetCalibration([form.box EXCEPT !.turn = turn])
          PROVE  \E b \in [x : Int, width : Int, turn : Rotations] : SetCalibration(b)
      <4>1. [form.box EXCEPT !.turn = turn] \in [x : Int, width : Int, turn : Rotations]
        BY <1>c
      <4>2. QED
        BY <3>2, <4>1
    <3>3. QED
      BY <1>6, <3>1, <3>2 DEF ResetOrRotate
  <2>3. QED
    BY <1>a, <1>d, <1>e, <2>1, <2>2
<1>7. ASSUME ToggleColor PROVE CalibrationTypes'
  <2>1. form' = [form EXCEPT !.color = ~form.color] /\ Same /\ UNCHANGED <<drag, preview, previews>>
    BY <1>7 DEF ToggleColor
  <2>2. form' \in Forms
    BY <1>a, <2>1 DEF Forms
  <2>3. QED
    BY <1>a, <1>d, <2>1, <2>2
<1>8. ASSUME PreviewArrives PROVE CalibrationTypes'
  <2>1. PICK i \in 1..Len(previews) : previews' = Drop(previews, i) /\ disturbed' = (disturbed \/ i > 1)
                                      /\ UNCHANGED <<form, drag, preview, colorBusy, patches>>
    BY <1>8 DEF PreviewArrives
  <2>2. previews' \in Seq(Configs)
    BY <1>a, <2>1, DropFacts
  <2>3. disturbed' \in BOOLEAN
    BY <2>1, Zenon
  <2>4. QED
    BY <1>a, <1>b, <2>1, <2>2, <2>3 DEF CalibrationTypes
<1>9. ASSUME PreviewLost PROVE CalibrationTypes'
  <2>1. previews' \in Seq(Configs)
    BY <1>a, <1>9 DEF PreviewLost
  <2>2. QED
    BY <1>a, <1>b, <1>9, <2>1 DEF CalibrationTypes, PreviewLost
<1>10. ASSUME Save PROVE CalibrationTypes'
  <2>1. PICK s : s = [id |-> Number, of |-> IF settingsBusy' THEN "box" ELSE "color",
                      config |-> Config(form.box, form.color), at |-> "sent"]
    OBVIOUS
  <2>2. Number \in Nat /\ Config(form.box, form.color) \in Configs
    BY <1>0, <1>a, NumberFacts, ConfigFacts DEF Forms
  <2>3. s \in ConfigCalls
    BY <2>1, <2>2 DEF ConfigCalls
  <2>4. patches' = patches \cup {s}
    BY <1>10, <2>1 DEF Save
  <2>5. colorBusy' \in BOOLEAN /\ disturbed' \in BOOLEAN
    BY <1>b, <1>10, Zenon DEF Save
  <2>6. UNCHANGED <<form, drag, preview, previews>>
    BY <1>10 DEF Save
  <2>7. QED
    BY <1>a, <2>3, <2>4, <2>5, <2>6 DEF CalibrationTypes
<1>11. ASSUME NEW s \in patches, StoreConfig(s) \/ PushConfig(s) PROVE CalibrationTypes'
  <2>1. PICK t : \/ t = [s EXCEPT !.at = "stored"] /\ StoreConfig(s)
                 \/ t = [s EXCEPT !.at = "pushed"] /\ PushConfig(s)
    BY <1>11
  <2>2. t \in ConfigCalls
    BY <1>a, <2>1, ConfigCallFacts
  <2>3. patches' = (patches \ {s}) \cup {t}
    BY <2>1 DEF StoreConfig, PushConfig
  <2>4. disturbed' \in BOOLEAN
    BY <1>b, <2>1, Zenon DEF StoreConfig, PushConfig
  <2>5. UNCHANGED <<form, drag, preview, previews, colorBusy>>
    BY <2>1 DEF StoreConfig, PushConfig
  <2>6. QED
    BY <1>a, <1>b, <2>2, <2>3, <2>4, <2>5 DEF CalibrationTypes
<1>12. ASSUME NEW s \in patches, SaveAnswered(s) PROVE CalibrationTypes'
  <2>1. s \in ConfigCalls /\ s.config.box \in Boxes /\ s.config.color \in BOOLEAN
    BY <1>a DEF ConfigCalls, Configs
  <2>2. form' \in Forms
    BY <1>a, <1>12, <2>1 DEF SaveAnswered, Forms
  <2>3. colorBusy' \in BOOLEAN /\ disturbed' \in BOOLEAN
    BY <1>b, <1>12, Zenon DEF SaveAnswered, Unblock
  <2>4. QED
    BY <1>a, <1>12, <2>2, <2>3 DEF CalibrationTypes, SaveAnswered
<1>13. ASSUME NEW s \in patches, SaveFails(s) PROVE CalibrationTypes'
  <2>1. colorBusy' \in BOOLEAN /\ disturbed' \in BOOLEAN
    BY <1>b, <1>13, Zenon DEF SaveFails, Unblock
  <2>2. QED
    BY <1>a, <1>13, <2>1 DEF CalibrationTypes, SaveFails
<1>14. ASSUME UNCHANGED calibrationVars PROVE CalibrationTypes'
  BY <1>a, <1>b, <1>14 DEF CalibrationTypes, calibrationVars
<1>15. ASSUME NEW c \in modeSends, ModeAnswered(c) PROVE CalibrationTypes'
  <2>1. UNCHANGED <<form, drag, colorBusy, patches>>
    BY <1>15 DEF ModeAnswered
  <2>2. CASE c.box = NoBox
    BY <1>a, <1>b, <1>15, <2>1, <2>2 DEF ModeAnswered, CalibrationTypes
  <2>3. CASE c.box # NoBox
    <3>1. c.box \in Boxes
      BY <1>0, <2>3 DEF ModeTypes, ModeCalls
    <3>2. QueuePreview(c.box) /\ disturbed' = (disturbed \/ c.box # form.box)
      BY <1>15, <2>3, Zenon DEF ModeAnswered
    <3>3. preview' \in Pending /\ previews' \in Seq(Configs)
      BY <1>0, <3>1, <3>2, QueueTypes
    <3>4. disturbed' \in BOOLEAN
      BY <3>2, Zenon
    <3>5. QED
      BY <1>a, <1>b, <2>1, <3>3, <3>4 DEF CalibrationTypes
  <2>4. QED
    BY <2>2, <2>3
<1>16. ASSUME ChooseMode \/ ShowTestPattern \/ SetElsewhere \/ StartAdChange \/ UNCHANGED settingsVars
       PROVE  CalibrationTypes'
  BY <1>14, <1>16 DEF ChooseMode, ShowTestPattern, SetMode, SetElsewhere, StartAdChange, settingsVars, calibrationVars
<1>17. ASSUME NEW c \in modeSends, ShowMode(c) PROVE CalibrationTypes'
  BY <1>14, <1>17 DEF ShowMode
<1>18. ASSUME NEW a \in adChanges, ChangeAd(a) \/ ListAds(a) \/ KeepLayout(a) \/ LayoutKept(a) \/ AdChangeFails(a)
       PROVE  CalibrationTypes'
  BY <1>14, <1>18 DEF ChangeAd, ListAds, KeepLayout, LayoutKept, AdChangeFails
<1>19. QED
  BY <1>1, <1>2, <1>3, <1>4, <1>5, <1>6, <1>7, <1>8, <1>9, <1>10, <1>11, <1>12, <1>13, <1>15, <1>16, <1>17, <1>18
  DEF SettingsNext

LEMMA LayoutFacts ==
  ASSUME NEW copy \in Copies
  PROVE  /\ SavedLayout(copy) \in SUBSET Creatives /\ copy.mode \in SettingModes /\ copy.preferred \in SUBSET Creatives
         /\ copy.mode.type \in SettingTypes /\ copy.mode.ads \in SUBSET Creatives
  BY DEF Copies, SettingModes, SavedLayout

LEMMA ModeMade ==
  \A type \in SettingTypes, creatives \in SUBSET Creatives :
    Mode(type, creatives) \in SettingModes /\ Mode(type, creatives).type = type /\ Mode(type, creatives).ads = creatives
  BY DEF Mode, SettingModes

LEMMA SentMode ==
  ASSUME SettingsTypeInv, NEW type \in SettingTypes, NEW box \in Boxes \cup {NoBox}, SetMode(type, box)
  PROVE  \E c \in ModeCalls : /\ modeSends' = modeSends \cup {c} /\ c.by = "page" /\ c.at = "sent" /\ c.box = box
                              /\ c.mode.type = type /\ (type \notin SportTypes => c.mode.ads = {})
<1>1. PICK mode : mode = Mode(type, IF type \in SportTypes THEN SavedLayout(pageDevice) ELSE {})
  OBVIOUS
<1>2. mode \in SettingModes /\ mode.type = type /\ (type \notin SportTypes => mode.ads = {})
  BY <1>1, ModeMade, LayoutFacts DEF SettingsTypeInv, ModeTypes
<1>3. PICK c : c = [id |-> Number, by |-> "page", box |-> box, at |-> "sent", crossed |-> FALSE, mode |-> mode]
  OBVIOUS
<1>4. Number \in Nat
  BY NumberFacts DEF SettingsTypeInv
<1>5. c \in ModeCalls /\ c.by = "page" /\ c.at = "sent" /\ c.box = box /\ c.mode = mode
  BY <1>2, <1>3, <1>4 DEF ModeCalls
<1>6. modeSends' = modeSends \cup {c}
  BY <1>1, <1>3 DEF SetMode
<1>7. QED
  BY <1>2, <1>5, <1>6

LEMMA StepModeTypes == SettingsTypeInv /\ [SettingsNext]_settingsVars => ModeTypes'
<1> SUFFICES ASSUME SettingsTypeInv, [SettingsNext]_settingsVars PROVE ModeTypes'
  OBVIOUS
<1>0. CalibrationTypes /\ StoredTypes /\ ModeTypes
  BY DEF SettingsTypeInv
<1>a. /\ pageDevice \in Copies /\ modeSends \subseteq ModeCalls /\ adChanges \subseteq AdCalls
      /\ activeAds \subseteq Creatives
  BY <1>0 DEF ModeTypes
<1>b. apart \in BOOLEAN /\ TRUE \in BOOLEAN /\ FALSE \in BOOLEAN
  BY <1>0, Zenon DEF ModeTypes
<1>1. ASSUME UNCHANGED modeVars PROVE ModeTypes'
  BY <1>a, <1>b, <1>1 DEF modeVars, ModeTypes
<1>2. ASSUME UNCHANGED settingsVars \/ PreviewTimer \/ TenthPasses \/ StartDrag \/ MoveDrag \/ EndDrag \/ ResetOrRotate
             \/ ToggleColor \/ PreviewArrives \/ PreviewLost \/ Save
      PROVE  ModeTypes'
  BY <1>1, <1>2 DEF PreviewTimer, TenthPasses, StartDrag, MoveDrag, EndDrag, ResetOrRotate, ToggleColor,
                    PreviewArrives, PreviewLost, Save, KeepCalls, settingsVars, modeVars
<1>3. ASSUME NEW s \in patches, StoreConfig(s) \/ PushConfig(s) \/ SaveAnswered(s) \/ SaveFails(s)
      PROVE  ModeTypes'
  BY <1>1, <1>3 DEF StoreConfig, PushConfig, SaveAnswered, SaveFails
<1>4. ASSUME NEW type \in SettingTypes, NEW box \in Boxes \cup {NoBox}, SetMode(type, box) PROVE ModeTypes'
  <2>1. modeSends' \subseteq ModeCalls
    BY <1>a, <1>4, SentMode
  <2>2. apart' = apart
    BY <1>4 DEF SetMode
  <2>3. UNCHANGED <<pageDevice, adChanges, activeAds>>
    BY <1>4 DEF SetMode
  <2>4. QED
    BY <1>a, <1>b, <2>1, <2>2, <2>3 DEF ModeTypes
<1>5. ASSUME ChooseMode \/ ShowTestPattern PROVE ModeTypes'
  <2>1. form.box \in Boxes /\ "calibration" \in SettingTypes
    BY <1>0 DEF CalibrationTypes, Forms, SettingTypes
  <2>2. QED
    BY <1>4, <1>5, <2>1 DEF ChooseMode, ShowTestPattern
<1>6. ASSUME NEW c \in modeSends, ShowMode(c) PROVE ModeTypes'
  <2>1. PICK d : d = [c EXCEPT !.at = "shown"]
    OBVIOUS
  <2>2. d \in ModeCalls
    BY <1>a, <2>1, ShownFacts
  <2>3. modeSends' \subseteq Cross(modeSends \ {c}) \cup modeSends \cup {d}
    BY <1>6, <2>1 DEF ShowMode
  <2>4. modeSends' \subseteq ModeCalls
    BY <1>a, <2>2, <2>3, CrossModeFacts
  <2>5. adChanges' \subseteq AdCalls
    BY <1>a, <1>6, CrossAdFacts DEF ShowMode
  <2>6. UNCHANGED <<pageDevice, activeAds>>
    BY <1>6 DEF ShowMode
  <2>8. apart' \in BOOLEAN
    BY <1>6, Zenon DEF ShowMode
  <2>7. QED
    BY <1>a, <2>4, <2>5, <2>6, <2>8 DEF ModeTypes
<1>7. ASSUME NEW c \in modeSends, ModeAnswered(c) PROVE ModeTypes'
  <2>1. modeSends' \subseteq ModeCalls /\ UNCHANGED <<adChanges, activeAds>>
    BY <1>a, <1>7 DEF ModeAnswered
  <2>2. apart' \in BOOLEAN
    BY <1>b, <1>7, Zenon DEF ModeAnswered
  <2>3. c.mode \in SettingModes /\ c.mode.ads \in SUBSET Creatives
    BY <1>a DEF ModeCalls, SettingModes
  <2>4. Preferred(pageDevice, c.mode) \in SUBSET Creatives
    BY <1>a, <2>3, LayoutFacts DEF Preferred
  <2>5. Noted(pageDevice, c.mode) \in Copies
    BY <2>3, <2>4 DEF Noted, Copies
  <2>6. pageDevice' \in Copies
    BY <1>a, <1>7, <2>5 DEF ModeAnswered
  <2>7. QED
    BY <1>a, <2>1, <2>2, <2>6 DEF ModeTypes
<1>8. ASSUME SetElsewhere PROVE ModeTypes'
  <2>1. modeSends' = Cross(modeSends) /\ adChanges' = Cross(adChanges) /\ UNCHANGED <<pageDevice, activeAds>>
    BY <1>8 DEF SetElsewhere
  <2>2. modeSends' \subseteq ModeCalls /\ adChanges' \subseteq AdCalls
    BY <1>a, <2>1, CrossModeFacts, CrossAdFacts
  <2>3. apart' \in BOOLEAN
    BY <1>b, <1>8, Zenon DEF SetElsewhere
  <2>4. QED
    BY <1>a, <2>1, <2>2, <2>3 DEF ModeTypes
<1>9. ASSUME StartAdChange PROVE ModeTypes'
  <2>0. PICK ad \in Creatives :
          adChanges' = adChanges \cup {[id |-> Number, ad |-> ad, copy |-> pageDevice, at |-> "asked", next |-> {},
                                        crossed |-> apart \/ modeSends # {}]}
    BY <1>9 DEF StartAdChange
  <2>1. PICK a : /\ a = [id |-> Number, ad |-> ad, copy |-> pageDevice, at |-> "asked", next |-> {},
                         crossed |-> apart \/ modeSends # {}]
                 /\ adChanges' = adChanges \cup {a}
    BY <2>0
  <2>2. PICK crossed \in BOOLEAN : crossed = (apart \/ modeSends # {})
    BY <1>b, Zenon
  <2>3. Number \in Nat
    BY <1>0, NumberFacts
  <2>4. a = [id |-> Number, ad |-> ad, copy |-> pageDevice, at |-> "asked", next |-> {}, crossed |-> crossed]
    BY <2>1, <2>2, Zenon
  <2>5. a \in AdCalls
    BY <1>a, <2>2, <2>3, <2>4 DEF AdCalls
  <2>6. apart' = apart
    BY <1>9 DEF StartAdChange
  <2>7. UNCHANGED <<pageDevice, modeSends, activeAds>>
    BY <1>9 DEF StartAdChange
  <2>8. QED
    BY <1>a, <1>b, <2>1, <2>5, <2>6, <2>7 DEF ModeTypes
<1>10. ASSUME NEW a \in adChanges, ChangeAd(a) \/ ListAds(a) \/ KeepLayout(a) PROVE ModeTypes'
  <2>1. adChanges' \subseteq AdCalls
    <3>1. CASE ChangeAd(a)
      <4>1. PICK b : b = To(a, "changed")
        OBVIOUS
      <4>2. b \in AdCalls /\ adChanges' = (adChanges \ {a}) \cup {b}
        BY <1>a, <3>1, <4>1, AdStageFacts DEF ChangeAd, AdStep
      <4>3. QED
        BY <1>a, <4>2
    <3>2. CASE KeepLayout(a)
      <4>1. PICK b : b = To(a, "kept")
        OBVIOUS
      <4>2. b \in AdCalls /\ adChanges' = (adChanges \ {a}) \cup {b}
        BY <1>a, <3>2, <4>1, AdStageFacts DEF KeepLayout, AdStep
      <4>3. QED
        BY <1>a, <4>2
    <3>3. CASE ListAds(a)
      <4>1. PICK b : b = [To(a, "listed") EXCEPT !.next = activeAds]
        OBVIOUS
      <4>2. b \in AdCalls /\ adChanges' \subseteq adChanges \cup {b}
        BY <1>a, <3>3, <4>1, AdListedFacts DEF ListAds, AdStep
      <4>3. QED
        BY <1>a, <4>2
    <3>4. QED
      BY <1>10, <3>1, <3>2, <3>3
  <2>2. activeAds' \subseteq Creatives
    <3>1. a.ad \in Creatives
      BY <1>a DEF AdCalls
    <3>2. QED
      BY <1>a, <1>10, <3>1 DEF ChangeAd, ListAds, KeepLayout
  <2>3. UNCHANGED <<pageDevice, modeSends>>
    BY <1>10 DEF ChangeAd, ListAds, KeepLayout
  <2>5. apart' \in BOOLEAN
    <3>1. CASE KeepLayout(a)
      BY <3>1, Zenon DEF KeepLayout
    <3>2. CASE apart' = apart
      BY <1>b, <3>2
    <3>3. QED
      BY <1>10, <3>1, <3>2 DEF ChangeAd, ListAds
  <2>4. QED
    BY <1>a, <2>1, <2>2, <2>3, <2>5 DEF ModeTypes
<1>11. ASSUME NEW a \in adChanges, LayoutKept(a) PROVE ModeTypes'
  <2>1. a \in AdCalls /\ a.copy \in Copies /\ a.next \in SUBSET Creatives /\ a.crossed \in BOOLEAN /\ a.id \in Nat
    BY <1>a DEF AdCalls
  <2>2. PICK mode \in SettingModes : mode = Mode(a.copy.mode.type, a.next)
    BY <2>1, LayoutFacts, ModeMade
  <2>3. PICK c : c = [id |-> a.id, by |-> "ads", box |-> NoBox, at |-> "sent", crossed |-> a.crossed, mode |-> mode]
    OBVIOUS
  <2>4. c \in ModeCalls
    BY <2>1, <2>2, <2>3 DEF ModeCalls
  <2>5. modeSends' \subseteq modeSends \cup {c}
    BY <1>11, <2>2, <2>3 DEF LayoutKept
  <2>6. PICK after \in SettingModes : pageDevice' = [mode |-> after, preferred |-> a.next]
    BY <1>a, <1>11, <2>2, LayoutFacts DEF LayoutKept
  <2>7. pageDevice' \in Copies
    BY <2>1, <2>6 DEF Copies
  <2>8. adChanges' \subseteq adChanges /\ UNCHANGED <<activeAds>>
    BY <1>11 DEF LayoutKept
  <2>10. apart' \in BOOLEAN
    BY <1>11, Zenon DEF LayoutKept
  <2>9. QED
    BY <1>a, <2>4, <2>5, <2>7, <2>8, <2>10 DEF ModeTypes
<1>12. ASSUME NEW a \in adChanges, AdChangeFails(a) PROVE ModeTypes'
  <2>1. adChanges' \subseteq adChanges /\ UNCHANGED <<pageDevice, modeSends, activeAds>>
    BY <1>12 DEF AdChangeFails
  <2>2. apart' \in BOOLEAN
    BY <1>12, Zenon DEF AdChangeFails
  <2>3. QED
    BY <1>a, <2>1, <2>2 DEF ModeTypes
<1>13. QED
  BY <1>2, <1>3, <1>5, <1>6, <1>7, <1>8, <1>9, <1>10, <1>11, <1>12 DEF SettingsNext

Records == [config : Configs, mode : SettingModes, preferred : SUBSET Creatives]
Agents == [config : Configs, preview : Configs \cup {NoBox}, mode : SettingModes]

\* The display shows a mode, and the server keeps it and its layout.
LEMMA ModeStored ==
  ASSUME record \in Records, agent \in Agents, NEW mode \in SettingModes,
         agent' = [agent EXCEPT !.mode = mode],
         record' = [record EXCEPT !.mode = mode, !.preferred = Kept(@, mode)]
  PROVE  /\ record' \in Records /\ agent' \in Agents
         /\ agent'.mode = mode /\ agent'.config = agent.config /\ agent'.preview = agent.preview
         /\ record'.mode = mode /\ record'.config = record.config
         /\ record'.preferred = Kept(record.preferred, mode)
<1>1. PICK kept \in SUBSET Creatives : kept = Kept(record.preferred, mode)
  BY DEF Kept, SettingModes, Records
<1>2. record' = [record EXCEPT !.mode = mode, !.preferred = kept]
  BY <1>1
<1>3. QED
  BY <1>1, <1>2 DEF Records, Agents

\* Unless the write fails, which leaves page and display apart.
LEMMA ModeShown ==
  ASSUME record \in Records, agent \in Agents, NEW c \in modeSends, c.mode \in SettingModes, ShowMode(c)
  PROVE  /\ record' \in Records /\ agent' \in Agents /\ record'.config = record.config
         /\ agent'.mode = c.mode /\ agent'.config = agent.config /\ agent'.preview = agent.preview
         /\ ~apart' => record'.mode = c.mode /\ record'.preferred = Kept(record.preferred, c.mode)
<1>1. agent' = [agent EXCEPT !.mode = c.mode]
  BY DEF ShowMode
<1>2. CASE record' = [record EXCEPT !.mode = c.mode, !.preferred = Kept(@, c.mode)]
  BY <1>1, <1>2, ModeStored
<1>3. CASE record' = record /\ apart' = TRUE
  BY <1>1, <1>3 DEF Agents
<1>4. QED
  BY <1>2, <1>3 DEF ShowMode

\* reconcileSportDisplayLayoutPreference changes the layouts alone.
LEMMA ReconciledFacts ==
  ASSUME NEW r \in Records, NEW creatives \in SUBSET Creatives, NEW s, s = Reconciled(r, creatives)
  PROVE  /\ s \in Records /\ s.config = r.config /\ s.preferred = creatives
         /\ s.mode = IF r.mode.type \in SportTypes /\ r.mode.ads # {} THEN Mode(r.mode.type, creatives) ELSE r.mode
<1>1. PICK m \in SettingModes : m = r.mode
  BY DEF Records
<1>2. PICK n : n = [m EXCEPT !.ads = IF m.type \in SportTypes /\ m.ads # {} THEN creatives ELSE m.ads]
  OBVIOUS
<1>3. n \in SettingModes /\ n = IF m.type \in SportTypes /\ m.ads # {} THEN Mode(m.type, creatives) ELSE m
  BY <1>2 DEF SettingModes, Mode
<1>4. s = [r EXCEPT !.preferred = creatives, !.mode = n]
  BY <1>1, <1>2 DEF Reconciled, Records
<1>5. QED
  BY <1>1, <1>3, <1>4 DEF Records

LEMMA StepStoredTypes == SettingsTypeInv /\ [SettingsNext]_settingsVars => StoredTypes'
<1> SUFFICES ASSUME SettingsTypeInv, [SettingsNext]_settingsVars PROVE StoredTypes'
  OBVIOUS
<1>0. CalibrationTypes /\ StoredTypes /\ ModeTypes
  BY DEF SettingsTypeInv
<1>a. /\ record \in Records /\ agent \in Agents /\ todo \in [{"pointer", "config", "mode", "ads"} -> Nat]
      /\ patches \subseteq ConfigCalls /\ previews \in Seq(Configs) /\ modeSends \subseteq ModeCalls
      /\ adChanges \subseteq AdCalls
  BY <1>0 DEF StoredTypes, Records, Agents, CalibrationTypes, ModeTypes
<1>b. settingsBusy \in BOOLEAN /\ TRUE \in BOOLEAN /\ FALSE \in BOOLEAN
  BY <1>0, Zenon DEF StoredTypes
<1>c. ASSUME record' \in Records, agent' \in Agents, todo' \in [{"pointer", "config", "mode", "ads"} -> Nat],
             settingsBusy' \in BOOLEAN
      PROVE  StoredTypes'
  BY <1>c DEF StoredTypes, Records, Agents
<1>d. ASSUME NEW what \in {"pointer", "config", "mode", "ads"}, Does(what)
      PROVE  todo' \in [{"pointer", "config", "mode", "ads"} -> Nat]
  BY <1>0, <1>d, DoesFacts
<1>e. ASSUME UNCHANGED <<record, agent>> PROVE record' \in Records /\ agent' \in Agents
  BY <1>a, <1>e
<1>1. ASSUME UNCHANGED settingsVars \/ PreviewTimer \/ TenthPasses \/ EndDrag \/ PreviewLost PROVE StoredTypes'
  BY <1>a, <1>b, <1>c, <1>1 DEF PreviewTimer, TenthPasses, EndDrag, PreviewLost, KeepCalls, settingsVars
<1>2. ASSUME StartDrag \/ MoveDrag \/ ResetOrRotate \/ ToggleColor PROVE StoredTypes'
  BY <1>a, <1>b, <1>c, <1>d, <1>2 DEF StartDrag, MoveDrag, ResetOrRotate, ToggleColor, KeepCalls
<1>3. ASSUME PreviewArrives PROVE StoredTypes'
  <2>1. PICK i \in 1..Len(previews) : ConfigUpdate(previews[i], TRUE) /\ UNCHANGED <<record, settingsBusy, todo>>
    BY <1>3 DEF PreviewArrives
  <2>2. previews[i] \in Configs
    BY <1>a
  <2>3. agent' \in Agents
    BY <1>a, <2>1, <2>2 DEF ConfigUpdate, Agents
  <2>4. QED
    BY <1>a, <1>b, <1>c, <2>1, <2>3
<1>4. ASSUME Save PROVE StoredTypes'
  <2>1. settingsBusy' \in BOOLEAN
    BY <1>b, <1>4, Zenon DEF Save
  <2>2. QED
    BY <1>a, <1>c, <1>d, <1>4, <2>1 DEF Save
<1>5. ASSUME NEW s \in patches, StoreConfig(s) PROVE StoredTypes'
  <2>1. s.config \in Configs
    BY <1>a DEF ConfigCalls
  <2>2. record' \in Records
    BY <1>a, <1>5, <2>1 DEF StoreConfig, Records
  <2>3. QED
    BY <1>a, <1>b, <1>c, <1>5, <2>2 DEF StoreConfig
<1>6. ASSUME NEW s \in patches, PushConfig(s) PROVE StoredTypes'
  <2>1. s.config \in Configs
    BY <1>a DEF ConfigCalls
  <2>2. agent' \in Agents
    <3>1. CASE ConfigUpdate(s.config, FALSE)
      BY <1>a, <2>1, <3>1 DEF ConfigUpdate, Agents
    <3>2. CASE UNCHANGED agent
      BY <1>a, <3>2
    <3>3. QED
      BY <1>6, <3>1, <3>2 DEF PushConfig
  <2>3. QED
    BY <1>a, <1>b, <1>c, <1>6, <2>2 DEF PushConfig
<1>7. ASSUME NEW s \in patches, SaveAnswered(s) \/ SaveFails(s) PROVE StoredTypes'
  <2>1. settingsBusy' \in BOOLEAN
    BY <1>b, <1>7, Zenon DEF SaveAnswered, SaveFails, Unblock
  <2>2. QED
    BY <1>a, <1>c, <1>7, <2>1 DEF SaveAnswered, SaveFails
<1>8. ASSUME NEW type, NEW box, SetMode(type, box), Does("mode") PROVE StoredTypes'
  <2>1. settingsBusy' \in BOOLEAN
    BY <1>b, <1>8, Zenon DEF SetMode
  <2>2. QED
    BY <1>a, <1>c, <1>d, <1>8, <2>1 DEF SetMode
<1>9. ASSUME NEW c \in modeSends, ShowMode(c) PROVE StoredTypes'
  <2>1. c.mode \in SettingModes
    BY <1>a DEF ModeCalls
  <2>2. record' \in Records /\ agent' \in Agents
    BY <1>a, <1>9, <2>1, ModeShown
  <2>3. QED
    BY <1>a, <1>b, <1>c, <1>9, <2>2 DEF ShowMode
<1>10. ASSUME NEW c \in modeSends, ModeAnswered(c) PROVE StoredTypes'
  <2>1. settingsBusy' \in BOOLEAN
    BY <1>b, <1>10, Zenon DEF ModeAnswered
  <2>2. QED
    BY <1>a, <1>c, <1>10, <2>1 DEF ModeAnswered
<1>11. ASSUME SetElsewhere PROVE StoredTypes'
  <2>1. PICK type \in SettingTypes : /\ agent' = [agent EXCEPT !.mode = Mode(type, {})]
                                     /\ record' = [record EXCEPT !.mode = Mode(type, {}), !.preferred = Kept(@, Mode(type, {}))]
    BY <1>11 DEF SetElsewhere
  <2>2. Mode(type, {}) \in SettingModes
    BY ModeMade
  <2>3. record' \in Records /\ agent' \in Agents
    BY <1>a, <2>1, <2>2, ModeStored
  <2>4. QED
    BY <1>b, <1>c, <1>d, <1>11, <2>3 DEF SetElsewhere
<1>12. ASSUME StartAdChange PROVE StoredTypes'
  BY <1>a, <1>b, <1>c, <1>d, <1>12 DEF StartAdChange
<1>13. ASSUME NEW a \in adChanges, KeepLayout(a) PROVE StoredTypes'
  <2>1. a.next \in SUBSET Creatives
    BY <1>a DEF AdCalls
  <2>2. record' \in Records
    BY <1>a, <1>13, <2>1, ReconciledFacts DEF KeepLayout
  <2>3. QED
    BY <1>a, <1>b, <1>c, <1>13, <2>2 DEF KeepLayout
<1>14. ASSUME NEW a \in adChanges, ChangeAd(a) \/ ListAds(a) \/ LayoutKept(a) \/ AdChangeFails(a) PROVE StoredTypes'
  BY <1>a, <1>b, <1>c, <1>14 DEF ChangeAd, ListAds, LayoutKept, AdChangeFails
<1>15. QED
  BY <1>1, <1>2, <1>3, <1>4, <1>5, <1>6, <1>7, <1>8, <1>9, <1>10, <1>11, <1>12, <1>13, <1>14
  DEF SettingsNext, ChooseMode, ShowTestPattern

LEMMA SettingsTypesInvariance == SettingsSpec => []SettingsTypeInv
<1>1. SettingsTypeInv /\ [SettingsNext]_settingsVars => SettingsTypeInv'
  BY StepCalibrationTypes, StepModeTypes, StepStoredTypes DEF SettingsTypeInv
<1>2. QED
  BY <1>1, InitSettingsTypes, PTL DEF SettingsSpec

\* Whatever is dragged, drawn, turned, saved or chosen, what the settings page
\* holds, sends and stores keeps its type: no drag and no clamping puts the box
\* outside the canvas (clampCalibrationBox), for every canvas and smallest size.
THEOREM SettingsTypesCorrect == SettingsSpec => []SettingsTypeOK
<1>1. SettingsTypeInv => SettingsTypeOK
  <2> SUFFICES ASSUME SettingsTypeInv PROVE SettingsTypeOK
    OBVIOUS
  <2>1. {settingsBusy, colorBusy, disturbed, apart} \subseteq BOOLEAN
    BY Zenon DEF SettingsTypeInv, CalibrationTypes, ModeTypes, StoredTypes
  <2>2. \A s \in patches : s.config \in Configs /\ s.at \in {"sent", "stored", "pushed"}
    BY DEF SettingsTypeInv, CalibrationTypes, ConfigCalls
  <2>3. agent.config \in Configs /\ agent.preview \in Configs \cup {NoBox}
    BY DEF SettingsTypeInv, StoredTypes
  <2>4. form \in Forms /\ preview \in Pending /\ previews \in Seq(Configs) /\ activeAds \subseteq Creatives
    BY DEF SettingsTypeInv, CalibrationTypes, ModeTypes
  <2>5. QED
    BY <2>1, <2>2, <2>3, <2>4 DEF SettingsTypeOK, Forms, Pending
<1>2. QED
  BY <1>1, SettingsTypesInvariance, PTL

-----------------------------------------------------------------------------
(* DisplaySettings: the box on the page, the box that is drawn, and what   *)
(* is saved.                                                               *)

\* The box of the page is the latest that was kept for later, or sent, or that
\* the display draws.
Destined ==
  IF preview.latest # NoBox THEN preview.latest = form.box
  ELSE IF previews # <<>> THEN previews[Len(previews)].box = form.box
  ELSE Effective.box = form.box

\* The configuration that was stored last is in a request at one of the stages.
Carried(stages) == \E t \in patches : t.at \in stages /\ t.config = record.config

\* It is at the agent, or a request will still push it; and it is what the page
\* calls saved, or a request will still say so.
SavedInv ==
  /\ agent.config = record.config \/ Carried({"stored"})
  /\ record.config = Config(form.saved, form.savedColor) \/ Carried({"stored", "pushed"})

LEMMA OvertakenFacts == \A stages : Overtaken(stages) \/ Carried(stages)
  BY DEF Overtaken, Carried

LEMMA QueueDestined ==
  ASSUME CalibrationTypes, NEW box \in Boxes, QueuePreview(box), form'.box = box, agent' = agent
  PROVE  Destined'
<1>1. CASE preview.recent
  <2>1. preview' = [preview EXCEPT !.latest = box, !.timer = TRUE]
    BY <1>1, Zenon DEF QueuePreview
  <2>2. preview'.latest = box
    BY <2>1, SentFacts DEF CalibrationTypes
  <2>3. QED
    BY <2>2, NoBoxApart DEF Destined
<1>2. CASE ~preview.recent
  <2>1. preview' = [Quiet EXCEPT !.recent = TRUE] /\ previews' = Append(previews, Config(box, form.color))
    BY <1>2, Zenon DEF QueuePreview
  <2>2. PICK c \in Configs : c = Config(box, form.color) /\ c.box = box
    BY ConfigFacts DEF CalibrationTypes, Forms
  <2>3. previews' # <<>> /\ previews'[Len(previews')] = c
    BY <2>1, <2>2 DEF CalibrationTypes
  <2>4. preview'.latest = NoBox
    BY <2>1, SentFacts
  <2>5. QED
    BY <2>2, <2>3, <2>4 DEF Destined
<1>3. QED
  BY <1>1, <1>2

LEMMA FlushDestined ==
  ASSUME CalibrationTypes, Destined, FlushPreview, form' = form, agent' = agent
  PROVE  Destined'
<1>1. CASE preview.latest = NoBox
  <2>1. UNCHANGED <<preview, previews>>
    BY <1>1, Zenon DEF FlushPreview
  <2>2. QED
    BY <2>1 DEF Destined, Effective
<1>2. CASE preview.latest # NoBox
  <2>1. /\ preview' = [Quiet EXCEPT !.recent = TRUE]
        /\ previews' = Append(previews, Config(preview.latest, form.color))
    BY <1>2, Zenon DEF FlushPreview
  <2>2. preview.latest = form.box /\ form.box \in Boxes
    BY <1>2 DEF Destined, CalibrationTypes, Forms
  <2>3. PICK c \in Configs : c = Config(preview.latest, form.color) /\ c.box = form.box
    BY <2>2, ConfigFacts DEF CalibrationTypes, Forms
  <2>4. previews' # <<>> /\ previews'[Len(previews')] = c
    BY <2>1, <2>3 DEF CalibrationTypes
  <2>5. preview'.latest = NoBox
    BY <2>1, SentFacts
  <2>6. QED
    BY <2>3, <2>4, <2>5 DEF Destined
<1>3. QED
  BY <1>1, <1>2

LEMMA DestinedKept ==
  ASSUME Destined, form'.box = form.box, preview'.latest = preview.latest, previews' = previews,
         Effective' = Effective
  PROVE  Destined'
  BY DEF Destined

LEMMA SavedKept ==
  ASSUME SavedInv, patches' = patches, form'.saved = form.saved, form'.savedColor = form.savedColor,
         record'.config = record.config, agent'.config = agent.config
  PROVE  SavedInv'
  BY DEF SavedInv, Carried

CalibrationInv == ~disturbed => Destined /\ SavedInv

LEMMA StepCalibrationInv == SettingsTypeInv /\ CalibrationInv /\ [SettingsNext]_settingsVars => CalibrationInv'
<1> SUFFICES ASSUME SettingsTypeInv, CalibrationInv, [SettingsNext]_settingsVars, ~disturbed'
             PROVE  Destined' /\ SavedInv'
  BY DEF CalibrationInv
<1>0. CalibrationTypes /\ StoredTypes /\ ModeTypes
  BY DEF SettingsTypeInv
<1>a. /\ form \in Forms /\ drag \in Drags \cup {NoBox} /\ preview \in Pending
      /\ previews \in Seq(Configs) /\ patches \subseteq ConfigCalls /\ record \in Records /\ agent \in Agents
  BY <1>0 DEF CalibrationTypes, StoredTypes, Records, Agents
<1>b. form.box \in Boxes /\ form.box \in [x : Int, width : Int, turn : Rotations]
  BY <1>a, BoxFacts DEF Forms
<1>c. ~disturbed => Destined /\ SavedInv
  BY DEF CalibrationInv
<1>d. ASSUME UNCHANGED <<record, agent, patches, disturbed>>, UNCHANGED form, FlushPreview PROVE Destined' /\ SavedInv'
  BY <1>0, <1>c, <1>d, FlushDestined, SavedKept
<1>e. ASSUME UNCHANGED <<record, agent, patches, disturbed>>, NEW b \in [x : Int, width : Int, turn : Rotations],
             SetCalibration(b)
      PROVE  Destined' /\ SavedInv'
  <2>1. /\ QueuePreview(form'.box) /\ form'.saved = form.saved /\ form'.savedColor = form.savedColor
        /\ form'.box \in Boxes
    BY <1>0, <1>e, SetTypes, ClampedBox
  <2>2. PICK box \in Boxes : box = form'.box
    BY <2>1
  <2>3. Destined'
    BY <1>0, <1>e, <2>1, <2>2, QueueDestined
  <2>4. SavedInv'
    BY <1>c, <1>e, <2>1, SavedKept
  <2>5. QED
    BY <2>3, <2>4
<1>f. ASSUME UNCHANGED <<patches, previews, disturbed>>, UNCHANGED form, preview'.latest = preview.latest,
             agent'.config = agent.config, agent'.preview = agent.preview, record'.config = record.config
      PROVE  Destined' /\ SavedInv'
  <2>1. Effective' = Effective
    BY <1>f DEF Effective
  <2>2. QED
    BY <1>c, <1>f, <2>1, DestinedKept, SavedKept
<1>1. ASSUME PreviewTimer \/ EndDrag PROVE Destined' /\ SavedInv'
  BY <1>1, <1>d DEF PreviewTimer, EndDrag, KeepCalls
<1>2. ASSUME TenthPasses PROVE Destined' /\ SavedInv'
  <2>1. preview' = [preview EXCEPT !.recent = FALSE]
    BY <1>2 DEF TenthPasses
  <2>2. preview'.latest = preview.latest
    BY <1>a, <2>1 DEF Pending
  <2>3. QED
    BY <1>2, <1>f, <2>2 DEF TenthPasses, KeepCalls
<1>3. ASSUME StartDrag PROVE Destined' /\ SavedInv'
  <2>1. UNCHANGED <<record, agent, patches, disturbed>>
    BY <1>3 DEF StartDrag, KeepCalls
  <2>2. PICK at \in 0..Canvas : \/ SetCalibration([form.box EXCEPT !.x = at, !.width = MinSize])
                                \/ UNCHANGED <<form, preview, previews>>
    BY <1>3 DEF StartDrag
  <2>3. CASE UNCHANGED <<form, preview, previews>>
    BY <1>f, <2>1, <2>3
  <2>4. CASE SetCalibration([form.box EXCEPT !.x = at, !.width = MinSize])
    <3>1. at \in Int /\ MinSize \in Int
      BY SettingsAssumption
    <3>2. [form.box EXCEPT !.x = at, !.width = MinSize] \in [x : Int, width : Int, turn : Rotations]
      BY <1>b, <3>1, BoxWith
    <3>3. QED
      BY <1>e, <2>1, <2>4, <3>2
  <2>5. QED
    BY <2>2, <2>3, <2>4
<1>4. ASSUME MoveDrag PROVE Destined' /\ SavedInv'
  <2>1. PICK at \in 0..Canvas : SetCalibration(Dragged(at))
    BY <1>4 DEF MoveDrag
  <2>2. Dragged(at) \in [x : Int, width : Int, turn : Rotations]
    BY <1>0, <1>4, DraggedBox DEF MoveDrag
  <2>3. UNCHANGED <<record, agent, patches, disturbed>>
    BY <1>4 DEF MoveDrag, KeepCalls
  <2>4. QED
    BY <1>e, <2>1, <2>2, <2>3
<1>5. ASSUME ResetOrRotate PROVE Destined' /\ SavedInv'
  <2>1. UNCHANGED <<record, agent, patches, disturbed>>
    BY <1>5 DEF ResetOrRotate, KeepCalls
  <2>2. CASE SetCalibration(Full)
    BY <1>e, <2>1, <2>2, FullBox, BoxFacts
  <2>3. ASSUME NEW turn \in Rotations, SetCalibration([form.box EXCEPT !.turn = turn]) PROVE Destined' /\ SavedInv'
    <3>1. [form.box EXCEPT !.turn = turn] \in [x : Int, width : Int, turn : Rotations]
      BY <1>b
    <3>2. QED
      BY <1>e, <2>1, <2>3, <3>1
  <2>4. QED
    BY <1>5, <2>2, <2>3 DEF ResetOrRotate
<1>6. ASSUME ToggleColor PROVE Destined' /\ SavedInv'
  <2>1. /\ form' = [form EXCEPT !.color = ~form.color] /\ UNCHANGED <<record, agent, patches, disturbed, preview, previews>>
    BY <1>6 DEF ToggleColor
  <2>2. form'.box = form.box /\ form'.saved = form.saved /\ form'.savedColor = form.savedColor
    BY <1>a, <2>1 DEF Forms
  <2>3. Effective' = Effective
    BY <2>1 DEF Effective
  <2>4. QED
    BY <1>c, <2>1, <2>2, <2>3, DestinedKept, SavedKept
<1>7. ASSUME PreviewArrives PROVE Destined' /\ SavedInv'
  <2>1. PICK i \in 1..Len(previews) : /\ previews' = Drop(previews, i) /\ disturbed' = (disturbed \/ i > 1)
                                      /\ ConfigUpdate(previews[i], TRUE)
                                      /\ UNCHANGED <<form, preview, patches, record>>
    BY <1>7 DEF PreviewArrives
  <2>2. ~disturbed /\ ~(i > 1)
    BY <2>1, Zenon
  <2>3. i = 1 /\ Len(previews) \in Nat /\ Len(previews) >= 1
    BY <1>a, <2>2
  <2>4. PICK c \in Configs : c = previews[1]
    BY <1>a, <2>3
  <2>5. agent' = [agent EXCEPT !.preview = c] /\ previews' = Drop(previews, 1)
    BY <2>1, <2>3, <2>4 DEF ConfigUpdate
  <2>6. agent'.preview = c /\ agent'.config = agent.config
    BY <1>a, <2>5 DEF Agents
  <2>7. SavedInv'
    BY <1>c, <2>1, <2>2, <2>6, SavedKept
  <2>8. Effective' = c
    BY <2>4, <2>6, NoBoxApart DEF Effective
  <2>b. Destined /\ UNCHANGED <<form, preview>>
    BY <1>c, <2>1, <2>2
  <2>9. CASE preview.latest # NoBox
    BY <2>7, <2>b, <2>9 DEF Destined
  <2>10. CASE preview.latest = NoBox /\ Len(previews) = 1
    <3>1. previews # <<>> /\ previews[Len(previews)] = c
      BY <1>a, <2>4, <2>10
    <3>2. previews' = <<>>
      BY <1>a, <2>5, <2>10, <2>3, DropFirst
    <3>3. QED
      BY <2>7, <2>b, <2>8, <2>10, <3>1, <3>2 DEF Destined
  <2>11. CASE preview.latest = NoBox /\ Len(previews) > 1
    <3>1. previews # <<>>
      BY <1>a, <2>11
    <3>2. previews' # <<>> /\ previews'[Len(previews')] = previews[Len(previews)]
      BY <1>a, <2>5, <2>11, <2>3, DropFirst
    <3>3. QED
      BY <2>7, <2>b, <2>11, <3>1, <3>2 DEF Destined
  <2>12. Len(previews) = 1 \/ Len(previews) > 1
    BY <2>3
  <2>13. QED
    BY <2>9, <2>10, <2>11, <2>12
<1>8. ASSUME PreviewLost PROVE Destined' /\ SavedInv'
  BY <1>8 DEF PreviewLost
<1>9. ASSUME Save PROVE Destined' /\ SavedInv'
  <2>1. PICK s : s = [id |-> Number, of |-> IF settingsBusy' THEN "box" ELSE "color",
                      config |-> Config(form.box, form.color), at |-> "sent"]
    OBVIOUS
  <2>2. s.at = "sent" /\ patches' = patches \cup {s} /\ UNCHANGED <<form, preview, previews, record, agent>>
    BY <1>9, <2>1 DEF Save
  <2>3. ~disturbed
    BY <1>9 DEF Save
  <2>4. Destined'
    BY <1>c, <2>2, <2>3 DEF Destined, Effective
  <2>5. SavedInv'
    BY <1>c, <2>2, <2>3 DEF SavedInv, Carried
  <2>6. QED
    BY <2>4, <2>5
<1>10. ASSUME NEW s \in patches, StoreConfig(s) PROVE Destined' /\ SavedInv'
  <2>1. PICK t : t = [s EXCEPT !.at = "stored"]
    OBVIOUS
  <2>2. t.at = "stored" /\ t.config = s.config
    BY <1>a, <2>1, ConfigCallFacts
  <2>3. /\ patches' = (patches \ {s}) \cup {t} /\ UNCHANGED <<form, preview, previews, agent, disturbed>>
        /\ record'.config = s.config
    BY <1>a, <1>10, <2>1 DEF StoreConfig, Records
  <2>4. Destined'
    BY <1>c, <2>3 DEF Destined, Effective
  <2>6. SavedInv'
    BY <2>2, <2>3 DEF SavedInv, Carried
  <2>7. QED
    BY <2>4, <2>6
<1>11. ASSUME NEW s \in patches, PushConfig(s) PROVE Destined' /\ SavedInv'
  <2>1. PICK t : t = [s EXCEPT !.at = "pushed"]
    OBVIOUS
  <2>2. t.at = "pushed" /\ t.config = s.config
    BY <1>a, <2>1, ConfigCallFacts
  <2>3. /\ ConfigUpdate(s.config, FALSE)
        /\ disturbed' = (disturbed \/ Overtaken({"stored"}) \/ EndsPreview(s))
    BY <1>11 DEF PushConfig
  <2>4. ~disturbed /\ ~Overtaken({"stored"}) /\ ~EndsPreview(s)
    BY <2>3, Zenon
  <2>5. /\ patches' = (patches \ {s}) \cup {t} /\ UNCHANGED <<form, preview, previews, record>> /\ s.at = "stored"
    BY <1>11, <2>1 DEF PushConfig
  <2>6. agent'.config = s.config /\ agent'.preview = NoBox
    BY <1>a, <2>3 DEF ConfigUpdate, Agents
  <2>7. Effective' = s.config
    BY <2>6 DEF Effective
  <2>8. Destined'
    BY <1>c, <2>4, <2>5, <2>7 DEF Destined, EndsPreview
  <2>9. PICK u \in patches : u.at = "stored" /\ u.config = record.config
    BY <2>4, OvertakenFacts DEF Carried
  <2>10. Carried({"stored", "pushed"})'
    <3>1. PICK v \in patches' : v.at \in {"stored", "pushed"} /\ v.config = record.config
      BY <2>2, <2>5, <2>9
    <3>2. QED
      BY <2>5, <3>1 DEF Carried
  <2>11. agent'.config = record'.config \/ Carried({"stored"})'
    <3>1. CASE u = s
      BY <2>5, <2>6, <2>9, <3>1
    <3>2. CASE u # s
      BY <2>5, <2>9, <3>2 DEF Carried
    <3>3. QED
      BY <3>1, <3>2
  <2>12. QED
    BY <2>8, <2>10, <2>11 DEF SavedInv
<1>12. ASSUME NEW s \in patches, SaveAnswered(s) PROVE Destined' /\ SavedInv'
  <2>1. /\ form' = [form EXCEPT !.saved = s.config.box, !.savedColor = s.config.color] /\ s.at = "pushed"
        /\ patches' = patches \ {s} /\ UNCHANGED <<preview, previews, record, agent>>
        /\ disturbed' = (disturbed \/ Overtaken({"stored", "pushed"}))
    BY <1>12 DEF SaveAnswered
  <2>2. form'.box = form.box /\ form'.saved = s.config.box /\ form'.savedColor = s.config.color
    BY <1>a, <2>1 DEF Forms
  <2>3. s.config \in Configs
    BY <1>a DEF ConfigCalls
  <2>4. Config(form'.saved, form'.savedColor) = s.config
    BY <2>2, <2>3 DEF Config, Configs
  <2>5. ~disturbed /\ ~Overtaken({"stored", "pushed"})
    BY <2>1, Zenon
  <2>6. Destined'
    BY <1>c, <2>1, <2>2, <2>5 DEF Destined, Effective
  <2>7. agent'.config = record'.config \/ Carried({"stored"})'
    BY <1>c, <2>1, <2>5 DEF SavedInv, Carried
  <2>8. PICK u \in patches : u.at \in {"stored", "pushed"} /\ u.config = record.config
    BY <2>5, OvertakenFacts DEF Carried
  <2>9. record'.config = Config(form'.saved, form'.savedColor) \/ Carried({"stored", "pushed"})'
    BY <2>1, <2>4, <2>8 DEF Carried
  <2>10. QED
    BY <2>6, <2>7, <2>9 DEF SavedInv
<1>13. ASSUME NEW s \in patches, SaveFails(s) PROVE Destined' /\ SavedInv'
  <2>1. disturbed' = (disturbed \/ s.at # "sent") /\ patches' = patches \ {s}
        /\ UNCHANGED <<form, preview, previews, record, agent>>
    BY <1>13 DEF SaveFails
  <2>2. ~disturbed /\ s.at = "sent"
    BY <2>1, Zenon
  <2>3. Destined /\ SavedInv
    BY <1>c, <2>2
  <2>4. Destined' /\ SavedInv'
    BY <2>1, <2>2, <2>3 DEF Destined, Effective, SavedInv, Carried
  <2>5. QED
    BY <2>4
<1>14. ASSUME ChooseMode \/ ShowTestPattern \/ StartAdChange \/ UNCHANGED settingsVars PROVE Destined' /\ SavedInv'
  BY <1>14, <1>f DEF ChooseMode, ShowTestPattern, SetMode, StartAdChange, settingsVars, calibrationVars
<1>15. ASSUME NEW c \in modeSends, ShowMode(c) PROVE Destined' /\ SavedInv'
  <2>1. c.mode \in SettingModes
    BY <1>0 DEF ModeTypes, ModeCalls
  <2>2. agent'.config = agent.config /\ agent'.preview = agent.preview /\ record'.config = record.config
    BY <1>a, <1>15, <2>1, ModeShown
  <2>3. QED
    BY <1>15, <1>f, <2>2 DEF ShowMode, calibrationVars
<1>16. ASSUME SetElsewhere PROVE Destined' /\ SavedInv'
  <2>1. PICK type \in SettingTypes : /\ agent' = [agent EXCEPT !.mode = Mode(type, {})]
                                     /\ record' = [record EXCEPT !.mode = Mode(type, {}), !.preferred = Kept(@, Mode(type, {}))]
    BY <1>16 DEF SetElsewhere
  <2>2. agent'.config = agent.config /\ agent'.preview = agent.preview /\ record'.config = record.config
    BY <1>a, <2>1, ModeMade, ModeStored
  <2>3. QED
    BY <1>16, <1>f, <2>2 DEF SetElsewhere, calibrationVars
<1>17. ASSUME NEW c \in modeSends, ModeAnswered(c) PROVE Destined' /\ SavedInv'
  <2>1. UNCHANGED <<form, record, agent, patches>>
    BY <1>17 DEF ModeAnswered
  <2>2. CASE c.box = NoBox
    <3>1. UNCHANGED <<preview, previews, disturbed>>
      BY <1>17, <2>2, Zenon DEF ModeAnswered
    <3>2. QED
      BY <1>f, <2>1, <3>1
  <2>3. CASE c.box # NoBox
    <3>1. c.box \in Boxes
      BY <1>0, <2>3 DEF ModeTypes, ModeCalls
    <3>2. QueuePreview(c.box) /\ disturbed' = (disturbed \/ c.box # form.box)
      BY <1>17, <2>3, Zenon DEF ModeAnswered
    <3>3. ~disturbed /\ c.box = form.box
      BY <3>2, Zenon
    <3>4. Destined'
      BY <1>0, <2>1, <3>1, <3>2, <3>3, QueueDestined
    <3>5. SavedInv'
      BY <1>c, <2>1, <3>3, SavedKept
    <3>6. QED
      BY <3>4, <3>5
  <2>4. QED
    BY <2>2, <2>3
<1>18. ASSUME NEW a \in adChanges, ChangeAd(a) \/ ListAds(a) \/ LayoutKept(a) \/ AdChangeFails(a)
       PROVE  Destined' /\ SavedInv'
  BY <1>18, <1>f DEF ChangeAd, ListAds, LayoutKept, AdChangeFails, calibrationVars
<1>19. ASSUME NEW a \in adChanges, KeepLayout(a) PROVE Destined' /\ SavedInv'
  <2>1. a.next \in SUBSET Creatives
    BY <1>0 DEF ModeTypes, AdCalls
  <2>2. record'.config = record.config /\ agent' = agent
    BY <1>a, <1>19, <2>1, ReconciledFacts DEF KeepLayout
  <2>3. QED
    BY <1>19, <1>f, <2>2 DEF KeepLayout, calibrationVars
<1>20. QED
  BY <1>1, <1>2, <1>3, <1>4, <1>5, <1>6, <1>7, <1>8, <1>9, <1>10, <1>11, <1>12, <1>13, <1>14, <1>15, <1>16,
     <1>17, <1>18, <1>19
  DEF SettingsNext

-----------------------------------------------------------------------------
(* DisplaySettings: the mode on the page, at the server and on the display. *)

PlainMode(mode) == mode.type \notin SportTypes => mode.ads = {}

PagePlain == pageDevice.preferred = {} => pageDevice.mode.ads = {}
SendsPlain == \A c \in modeSends : PlainMode(c.mode) /\ (c.by = "ads" => c.mode.type \in SportTypes)

\* A change of the advertisements whose answer will send a mode.
KeepsShown == \E a \in adChanges : a.at = "kept" /\ Shows(a.copy)

\* Where two of the three differ, a request is under way that makes them equal,
\* or makes way for another one that does.
ModeChain == agent.mode = pageDevice.mode \/ agent.mode \in Told \/ pageDevice.mode \in Coming
LayoutChain == \/ record.preferred = pageDevice.preferred \/ record.preferred \in ToldLayouts
               \/ \E m \in Coming : pageDevice.preferred = m.ads
SyncChain == agent.mode = record.mode \/ Coming # {} \/ KeepsShown

ModeInv == ~apart => PagePlain /\ SendsPlain /\ ModeChain /\ LayoutChain /\ SyncChain

\* Every request is still there, perhaps crossed, but for those that are gone.
SendsStay(gone) ==
  \A c \in modeSends \ gone : \E d \in modeSends' : d.by = c.by /\ d.at = c.at /\ d.mode = c.mode
ChangesStay(gone) ==
  \A a \in adChanges \ gone : \E b \in adChanges' : b.at = a.at /\ b.next = a.next /\ b.copy = a.copy

\* What those that are gone did not bring or tell is still to come.
LEMMA StillComing ==
  ASSUME NEW gone, SendsStay(gone)
  PROVE  /\ \A m \in Coming : m \in Coming' \/ \E c \in gone : c.by = "ads" /\ c.at = "sent" /\ c.mode = m
         /\ \A m \in Told : m \in Told' \/ \E c \in gone : c.by = "page" /\ c.at = "shown" /\ c.mode = m
<1>1. ASSUME NEW m \in Coming PROVE m \in Coming' \/ \E c \in gone : c.by = "ads" /\ c.at = "sent" /\ c.mode = m
  <2>1. PICK c \in modeSends : c.by = "ads" /\ c.at = "sent" /\ c.mode = m
    BY DEF Coming
  <2>2. CASE c \notin gone
    <3>1. PICK d \in modeSends' : d.by = "ads" /\ d.at = "sent" /\ d.mode = m
      BY <2>1, <2>2 DEF SendsStay
    <3>2. QED
      BY <3>1 DEF Coming
  <2>3. QED
    BY <2>1, <2>2
<1>2. ASSUME NEW m \in Told PROVE m \in Told' \/ \E c \in gone : c.by = "page" /\ c.at = "shown" /\ c.mode = m
  <2>1. PICK c \in modeSends : c.by = "page" /\ c.at = "shown" /\ c.mode = m
    BY DEF Told
  <2>2. CASE c \notin gone
    <3>1. PICK d \in modeSends' : d.by = "page" /\ d.at = "shown" /\ d.mode = m
      BY <2>1, <2>2 DEF SendsStay
    <3>2. QED
      BY <3>1 DEF Told
  <2>3. QED
    BY <2>1, <2>2
<1>3. QED
  BY <1>1, <1>2

LEMMA StillTold ==
  ASSUME NEW gone, SendsStay(gone), NEW lost, ChangesStay(lost), NEW layout \in ToldLayouts
  PROVE  \/ layout \in ToldLayouts'
         \/ \E c \in gone : c.by = "page" /\ c.at = "shown" /\ c.mode.type \in SportTypes /\ c.mode.ads = layout
         \/ \E a \in lost : a.at = "kept" /\ a.next = layout
<1>1. CASE \E m \in Told : m.type \in SportTypes /\ m.ads = layout
  <2>1. PICK m \in Told : m.type \in SportTypes /\ m.ads = layout
    BY <1>1
  <2>2. m \in Told' => layout \in ToldLayouts'
    BY <2>1 DEF ToldLayouts
  <2>3. QED
    BY <2>1, <2>2, StillComing
<1>2. CASE \E a \in adChanges : a.at = "kept" /\ a.next = layout
  <2>1. PICK a \in adChanges : a.at = "kept" /\ a.next = layout
    BY <1>2
  <2>2. CASE a \notin lost
    <3>1. PICK b \in adChanges' : b.at = "kept" /\ b.next = layout
      BY <2>1, <2>2 DEF ChangesStay
    <3>2. QED
      BY <3>1 DEF ToldLayouts
  <2>3. QED
    BY <2>1, <2>2
<1>3. QED
  BY <1>1, <1>2 DEF ToldLayouts

LEMMA StillShown ==
  ASSUME NEW lost, ChangesStay(lost), KeepsShown
  PROVE  KeepsShown' \/ \E a \in lost : a.at = "kept" /\ Shows(a.copy)
<1>1. PICK a \in adChanges : a.at = "kept" /\ Shows(a.copy)
  BY DEF KeepsShown
<1>2. CASE a \notin lost
  <2>1. PICK b \in adChanges' : b.at = "kept" /\ b.copy = a.copy
    BY <1>1, <1>2 DEF ChangesStay
  <2>2. QED
    BY <1>1, <2>1 DEF KeepsShown
<1>3. QED
  BY <1>1, <1>2

\* What neither changes the three nor takes a request away that a difference
\* waits for.
LEMMA ChainsKept ==
  ASSUME ModeChain, LayoutChain, SyncChain, NEW gone, SendsStay(gone), NEW lost, ChangesStay(lost),
         \A c \in gone : ~(c.by = "ads" /\ c.at = "sent") /\ ~(c.by = "page" /\ c.at = "shown"),
         \A a \in lost : a.at # "kept",
         pageDevice' = pageDevice, agent'.mode = agent.mode, record'.mode = record.mode,
         record'.preferred = record.preferred
  PROVE  ModeChain' /\ LayoutChain' /\ SyncChain'
<1>1. (\A m \in Coming : m \in Coming') /\ (\A m \in Told : m \in Told')
  BY StillComing
<1>2. \A layout \in ToldLayouts : layout \in ToldLayouts'
  BY StillTold
<1>3. KeepsShown => KeepsShown'
  BY StillShown
<1>4. ModeChain'
  BY <1>1 DEF ModeChain
<1>5. LayoutChain'
  BY <1>1, <1>2 DEF LayoutChain
<1>6. SyncChain'
  BY <1>1, <1>3 DEF SyncChain
<1>7. QED
  BY <1>4, <1>5, <1>6

LEMMA AllStay == (modeSends \subseteq modeSends' => SendsStay({})) /\ (adChanges \subseteq adChanges' => ChangesStay({}))
  BY DEF SendsStay, ChangesStay

LEMMA ModeKept ==
  ASSUME ModeInv, UNCHANGED modeVars, agent'.mode = agent.mode, record'.mode = record.mode,
         record'.preferred = record.preferred
  PROVE  ModeInv'
<1> SUFFICES ASSUME ~apart' PROVE PagePlain' /\ SendsPlain' /\ ModeChain' /\ LayoutChain' /\ SyncChain'
  BY DEF ModeInv
<1>1. PagePlain /\ SendsPlain /\ ModeChain /\ LayoutChain /\ SyncChain
  BY DEF ModeInv, modeVars
<1>2. PagePlain' /\ SendsPlain'
  BY <1>1 DEF PagePlain, SendsPlain, modeVars
<1>3. SendsStay({}) /\ ChangesStay({}) /\ pageDevice' = pageDevice
  BY AllStay DEF modeVars
<1>4. ModeChain' /\ LayoutChain' /\ SyncChain'
  BY <1>1, <1>3, ChainsKept
<1>5. QED
  BY <1>2, <1>4

\* Crossing leaves of a request what it brings.
LEMMA CrossedStay ==
  /\ \A c \in ModeCalls : LET d == [c EXCEPT !.crossed = TRUE] IN d.by = c.by /\ d.at = c.at /\ d.mode = c.mode
  /\ \A a \in AdCalls : LET b == [a EXCEPT !.crossed = TRUE] IN b.at = a.at /\ b.next = a.next /\ b.copy = a.copy
  BY DEF ModeCalls, AdCalls

LEMMA ShowModeStay ==
  ASSUME modeSends \subseteq ModeCalls, adChanges \subseteq AdCalls, NEW c \in modeSends, ShowMode(c)
  PROVE  /\ SendsStay({c}) /\ ChangesStay({})
         /\ \E d \in modeSends' : d.at = "shown" /\ d.by = c.by /\ d.mode = c.mode
         /\ SendsPlain => SendsPlain'
<1>1. PICK d : d = [c EXCEPT !.at = "shown"]
  OBVIOUS
<1>2. d.at = "shown" /\ d.by = c.by /\ d.mode = c.mode
  BY <1>1, ShownFacts
<1>3. PICK others : /\ others \in {modeSends \ {c}, Cross(modeSends \ {c})} /\ modeSends' = others \cup {d}
  BY <1>1 DEF ShowMode
<1>4. adChanges' \in {adChanges, Cross(adChanges)}
  BY DEF ShowMode
<1>5. SendsStay({c})
  <2>1. ASSUME NEW e \in modeSends \ {c} PROVE \E f \in modeSends' : f.by = e.by /\ f.at = e.at /\ f.mode = e.mode
    <3>1. CASE others = modeSends \ {c}
      BY <1>3, <3>1
    <3>2. CASE others = Cross(modeSends \ {c})
      <4>1. PICK f : f = [e EXCEPT !.crossed = TRUE]
        OBVIOUS
      <4>2. f \in modeSends'
        BY <1>3, <3>2, <4>1 DEF Cross
      <4>3. f.by = e.by /\ f.at = e.at /\ f.mode = e.mode
        BY <4>1, CrossedStay
      <4>4. QED
        BY <4>2, <4>3
    <3>3. QED
      BY <1>3, <3>1, <3>2
  <2>2. QED
    BY <2>1 DEF SendsStay
<1>6. ChangesStay({})
  <2>1. ASSUME NEW a \in adChanges PROVE \E b \in adChanges' : b.at = a.at /\ b.next = a.next /\ b.copy = a.copy
    <3>1. CASE adChanges' = Cross(adChanges)
      <4>1. PICK b : b = [a EXCEPT !.crossed = TRUE]
        OBVIOUS
      <4>2. b \in adChanges'
        BY <3>1, <4>1 DEF Cross
      <4>3. b.at = a.at /\ b.next = a.next /\ b.copy = a.copy
        BY <4>1, CrossedStay
      <4>4. QED
        BY <4>2, <4>3
    <3>2. QED
      BY <1>4, <3>1
  <2>2. QED
    BY <2>1 DEF ChangesStay
<1>7. ASSUME SendsPlain PROVE SendsPlain'
  <2>1. ASSUME NEW f \in modeSends' PROVE \E e \in modeSends : f.by = e.by /\ f.mode = e.mode
    <3>1. CASE f = d
      BY <1>2, <3>1
    <3>2. CASE f \in Cross(modeSends \ {c})
      <4>1. PICK e \in modeSends : f = [e EXCEPT !.crossed = TRUE]
        BY <3>2 DEF Cross
      <4>2. QED
        BY <4>1, CrossedStay
    <3>3. QED
      BY <1>3, <2>1, <3>1, <3>2
  <2>2. QED
    BY <1>7, <2>1 DEF SendsPlain, PlainMode
<1>8. QED
  BY <1>2, <1>3, <1>5, <1>6, <1>7

LEMMA StepModeInv == SettingsTypeInv /\ ModeInv /\ [SettingsNext]_settingsVars => ModeInv'
<1> SUFFICES ASSUME SettingsTypeInv, ModeInv, [SettingsNext]_settingsVars PROVE ModeInv'
  OBVIOUS
<1>0. CalibrationTypes /\ StoredTypes /\ ModeTypes
  BY DEF SettingsTypeInv
<1>a. /\ previews \in Seq(Configs) /\ patches \subseteq ConfigCalls /\ record \in Records /\ agent \in Agents
      /\ pageDevice \in Copies /\ modeSends \subseteq ModeCalls /\ adChanges \subseteq AdCalls
  BY <1>0 DEF CalibrationTypes, StoredTypes, ModeTypes, Records, Agents
<1>b. ~apart => PagePlain /\ SendsPlain /\ ModeChain /\ LayoutChain /\ SyncChain
  BY DEF ModeInv
<1>c. ASSUME ~apart' => PagePlain' /\ SendsPlain' /\ ModeChain' /\ LayoutChain' /\ SyncChain' PROVE ModeInv'
  BY <1>c DEF ModeInv
<1>1. ASSUME UNCHANGED settingsVars \/ PreviewTimer \/ TenthPasses \/ StartDrag \/ MoveDrag \/ EndDrag \/ ResetOrRotate
             \/ ToggleColor \/ PreviewLost \/ Save
      PROVE  ModeInv'
  BY <1>1, ModeKept DEF PreviewTimer, TenthPasses, StartDrag, MoveDrag, EndDrag, ResetOrRotate, ToggleColor,
                        PreviewLost, Save, KeepCalls, settingsVars, modeVars
<1>2. ASSUME PreviewArrives PROVE ModeInv'
  <2>1. PICK i \in 1..Len(previews) : ConfigUpdate(previews[i], TRUE) /\ UNCHANGED <<record, modeVars>>
    BY <1>2 DEF PreviewArrives
  <2>2. agent'.mode = agent.mode
    BY <1>a, <2>1 DEF ConfigUpdate, Agents
  <2>3. QED
    BY <2>1, <2>2, ModeKept
<1>3. ASSUME NEW s \in patches, StoreConfig(s) PROVE ModeInv'
  <2>1. record'.mode = record.mode /\ record'.preferred = record.preferred
    BY <1>a, <1>3 DEF StoreConfig, Records
  <2>2. QED
    BY <1>3, <2>1, ModeKept DEF StoreConfig
<1>4. ASSUME NEW s \in patches, PushConfig(s) PROVE ModeInv'
  <2>1. CASE ConfigUpdate(s.config, FALSE)
    BY <1>a, <1>4, <2>1, ModeKept DEF PushConfig, ConfigUpdate, Agents
  <2>2. CASE UNCHANGED agent
    BY <1>4, <2>2, ModeKept DEF PushConfig
  <2>3. QED
    BY <1>4, <2>1, <2>2 DEF PushConfig
<1>5. ASSUME NEW s \in patches, SaveAnswered(s) \/ SaveFails(s) PROVE ModeInv'
  BY <1>5, ModeKept DEF SaveAnswered, SaveFails
<1>6. ASSUME NEW type \in SettingTypes, NEW box \in Boxes \cup {NoBox}, SetMode(type, box) PROVE ModeInv'
  <2>1. PICK c \in ModeCalls : /\ modeSends' = modeSends \cup {c} /\ c.by = "page" /\ c.at = "sent"
                               /\ c.mode.type = type /\ (type \notin SportTypes => c.mode.ads = {})
    BY <1>6, SentMode
  <2>2. UNCHANGED <<pageDevice, adChanges, record, agent, apart>>
    BY <1>6 DEF SetMode
  <2>3. ASSUME ~apart' PROVE PagePlain' /\ SendsPlain' /\ ModeChain' /\ LayoutChain' /\ SyncChain'
    <3>1. PagePlain /\ SendsPlain /\ ModeChain /\ LayoutChain /\ SyncChain
      BY <1>b, <2>2, <2>3
    <3>2. PagePlain' /\ SendsPlain'
      BY <2>1, <2>2, <3>1 DEF PagePlain, SendsPlain, PlainMode
    <3>3. SendsStay({}) /\ ChangesStay({})
      BY <2>1, <2>2, AllStay
    <3>4. QED
      BY <2>2, <3>1, <3>2, <3>3, ChainsKept
  <2>4. QED
    BY <1>c, <2>3
<1>7. ASSUME ChooseMode \/ ShowTestPattern PROVE ModeInv'
  <2>1. form.box \in Boxes /\ "calibration" \in SettingTypes
    BY <1>0 DEF CalibrationTypes, Forms, SettingTypes
  <2>2. QED
    BY <1>6, <1>7, <2>1 DEF ChooseMode, ShowTestPattern
<1>8. ASSUME NEW c \in modeSends, ShowMode(c), ~apart'
      PROVE  PagePlain' /\ SendsPlain' /\ ModeChain' /\ LayoutChain' /\ SyncChain'
  <2>1. c.mode \in SettingModes /\ c.by \in {"page", "ads"}
    BY <1>a DEF ModeCalls
  <2>2. ~apart
    BY <1>8, Zenon DEF ShowMode
  <2>3. PagePlain /\ SendsPlain /\ ModeChain /\ LayoutChain /\ SyncChain
    BY <1>b, <2>2
  <2>4. /\ agent'.mode = c.mode /\ record'.mode = c.mode /\ record'.preferred = Kept(record.preferred, c.mode)
        /\ pageDevice' = pageDevice
    BY <1>8, <1>a, <2>1, ModeShown DEF ShowMode
  <2>5. SendsStay({c}) /\ ChangesStay({}) /\ SendsPlain'
    BY <1>8, <1>a, <2>3, ShowModeStay
  <2>6. PICK d \in modeSends' : d.at = "shown" /\ d.by = c.by /\ d.mode = c.mode
    BY <1>8, <1>a, ShowModeStay
  <2>7. PagePlain' /\ SyncChain'
    BY <2>3, <2>4 DEF PagePlain, SyncChain
  <2>8. \A m \in Coming : m \in Coming' \/ (c.by = "ads" /\ c.mode = m)
    BY <2>5, StillComing
  <2>9. CASE c.by = "page"
    <3>1. ModeChain'
      BY <2>4, <2>6, <2>9 DEF ModeChain, Told
    <3>2. CASE c.mode.type \in SportTypes
      <4>1. record'.preferred = d.mode.ads /\ d.mode \in Told' /\ d.mode.type \in SportTypes
        BY <2>4, <2>6, <2>9, <3>2 DEF Kept, Told
      <4>2. record'.preferred \in ToldLayouts'
        BY <4>1 DEF ToldLayouts
      <4>3. QED
        BY <2>5, <2>7, <3>1, <4>2 DEF LayoutChain
    <3>3. CASE c.mode.type \notin SportTypes
      <4>1. record'.preferred = record.preferred
        BY <2>4, <3>3 DEF Kept
      <4>2. \A layout \in ToldLayouts : layout \in ToldLayouts'
        <5>1. \A e \in {c} : e.mode.type \notin SportTypes
          BY <3>3
        <5>2. QED
          BY <2>5, <5>1, StillTold
      <4>3. \A m \in Coming : m \in Coming'
        BY <2>8, <2>9
      <4>4. LayoutChain'
        BY <2>3, <2>4, <4>1, <4>2, <4>3 DEF LayoutChain
      <4>5. QED
        BY <2>5, <2>7, <3>1, <4>4
    <3>4. QED
      BY <3>2, <3>3
  <2>10. CASE c.by = "ads"
    <3>1. pageDevice.mode \in Coming /\ pageDevice.preferred \in {m.ads : m \in Coming}
      BY <1>8, <2>10, Zenon DEF ShowMode
    <3>2. c.mode.type \in SportTypes
      BY <2>3, <2>10 DEF SendsPlain
    <3>3. record'.preferred = c.mode.ads
      BY <2>4, <3>2 DEF Kept
    <3>4. ModeChain'
      BY <2>4, <2>8, <3>1 DEF ModeChain
    <3>5. PICK m \in Coming : pageDevice.preferred = m.ads
      BY <3>1
    <3>6. LayoutChain'
      BY <2>4, <2>8, <3>3, <3>5 DEF LayoutChain
    <3>7. QED
      BY <2>5, <2>7, <3>4, <3>6
  <2>11. QED
    BY <2>1, <2>9, <2>10
<1>9. ASSUME NEW c \in modeSends, ModeAnswered(c), ~apart'
      PROVE  PagePlain' /\ SendsPlain' /\ ModeChain' /\ LayoutChain' /\ SyncChain'
  <2>1. modeSends' = modeSends \ {c} /\ UNCHANGED <<adChanges, record, agent>>
    BY <1>9 DEF ModeAnswered
  <2>2. ~apart
    BY <1>9, Zenon DEF ModeAnswered
  <2>3. PagePlain /\ SendsPlain /\ ModeChain /\ LayoutChain /\ SyncChain
    BY <1>b, <2>2
  <2>4. SendsStay({c}) /\ ChangesStay({}) /\ SendsPlain'
    BY <2>1, <2>3 DEF SendsStay, ChangesStay, SendsPlain
  <2>5. CASE pageDevice' = pageDevice /\ ~(c.by = "ads" /\ c.at = "sent") /\ ~(c.by = "page" /\ c.at = "shown")
    <3>1. PagePlain'
      BY <2>3, <2>5 DEF PagePlain
    <3>2. ModeChain' /\ LayoutChain' /\ SyncChain'
      BY <2>1, <2>3, <2>4, <2>5, ChainsKept
    <3>3. QED
      BY <2>4, <3>1, <3>2
  <2>6. CASE /\ c.at = "shown" /\ c.by = "page" /\ pageDevice' = Noted(pageDevice, c.mode)
             /\ agent.mode \in Told /\ (c.mode.type \in SportTypes => record.preferred \in ToldLayouts)
    <3>1. pageDevice'.mode = c.mode /\ pageDevice'.preferred = Preferred(pageDevice, c.mode)
      BY <2>6 DEF Noted
    <3>2. PlainMode(c.mode)
      BY <2>3 DEF SendsPlain
    <3>3. PagePlain'
      BY <2>3, <3>1, <3>2 DEF PagePlain, PlainMode, Preferred
    <3>4. ModeChain'
      BY <2>1, <2>4, <2>6, <3>1, StillComing DEF ModeChain
    <3>5. \A m \in Coming : m \in Coming'
      BY <2>4, <2>6, StillComing
    <3>6. SyncChain'
      <4>1. KeepsShown => KeepsShown'
        BY <2>1 DEF KeepsShown
      <4>2. QED
        BY <2>1, <2>3, <3>5, <4>1 DEF SyncChain
    <3>7. LayoutChain'
      <4>1. CASE c.mode.type \in SportTypes
        <5>1. pageDevice'.preferred = c.mode.ads
          BY <3>1, <4>1 DEF Preferred
        <5>2. record.preferred \in ToldLayouts' \/ record.preferred = c.mode.ads
          BY <2>4, <2>6, <4>1, StillTold
        <5>3. QED
          BY <2>1, <5>1, <5>2 DEF LayoutChain
      <4>2. CASE c.mode.type \notin SportTypes
        <5>1. pageDevice'.preferred = pageDevice.preferred
          BY <2>3, <3>1, <4>2 DEF Preferred, PagePlain
        <5>2. \A layout \in ToldLayouts : layout \in ToldLayouts'
          <6>1. \A e \in {c} : e.mode.type \notin SportTypes
            BY <4>2
          <6>2. QED
            BY <2>4, <6>1, StillTold
        <5>3. QED
          BY <2>1, <2>3, <3>5, <5>1, <5>2 DEF LayoutChain
      <4>3. QED
        BY <4>1, <4>2
    <3>8. QED
      BY <2>4, <3>3, <3>4, <3>6, <3>7
  <2>7. QED
    <3>1. c.by \in {"page", "ads"} /\ c.at \in {"sent", "shown"}
      BY <1>a DEF ModeCalls
    <3>2. CASE c.at = "shown" /\ c.by = "page" /\ pageDevice' = Noted(pageDevice, c.mode)
               /\ apart' = (apart \/ agent.mode \notin Told
                            \/ (c.mode.type \in SportTypes /\ record.preferred \notin ToldLayouts))
      <4>1. agent.mode \in Told /\ (c.mode.type \in SportTypes => record.preferred \in ToldLayouts)
        BY <1>9, <3>2, Zenon
      <4>2. QED
        BY <2>6, <3>2, <4>1
    <3>3. CASE c.at = "shown" /\ c.by = "ads" /\ pageDevice' = pageDevice
      BY <2>5, <3>3
    <3>4. CASE pageDevice' = pageDevice /\ apart' = (apart \/ (c.by = "page") = (c.at = "shown"))
      <4>1. ~((c.by = "page") = (c.at = "shown"))
        BY <1>9, <3>4, Zenon
      <4>2. QED
        BY <2>5, <3>1, <3>4, <4>1
    <3>5. QED
      BY <1>9, <3>2, <3>3, <3>4, Zenon DEF ModeAnswered
<1>10. ASSUME SetElsewhere PROVE ModeInv'
  BY <1>c, <1>10 DEF SetElsewhere
<1>11. ASSUME StartAdChange PROVE ModeInv'
  <2>1. adChanges \subseteq adChanges' /\ UNCHANGED <<pageDevice, modeSends, record, agent, apart>>
    BY <1>11 DEF StartAdChange
  <2>2. ASSUME ~apart' PROVE PagePlain' /\ SendsPlain' /\ ModeChain' /\ LayoutChain' /\ SyncChain'
    <3>1. PagePlain /\ SendsPlain /\ ModeChain /\ LayoutChain /\ SyncChain
      BY <1>b, <2>1, <2>2
    <3>2. PagePlain' /\ SendsPlain'
      BY <2>1, <3>1 DEF PagePlain, SendsPlain
    <3>3. SendsStay({}) /\ ChangesStay({})
      BY <2>1, AllStay
    <3>4. QED
      BY <2>1, <3>1, <3>2, <3>3, ChainsKept
  <2>3. QED
    BY <1>c, <2>2
<1>12. ASSUME NEW a \in adChanges, ChangeAd(a) \/ ListAds(a) \/ AdChangeFails(a) PROVE ModeInv'
  <2>1. UNCHANGED <<pageDevice, modeSends, record, agent>> /\ adChanges \ {a} \subseteq adChanges'
    BY <1>12 DEF ChangeAd, ListAds, AdChangeFails, AdStep
  <2>2. ASSUME ~apart' PROVE ~apart /\ a.at # "kept"
    <3>1. CASE apart' = apart /\ a.at \in {"asked", "changed"}
      BY <2>2, <3>1
    <3>2. CASE AdChangeFails(a)
      BY <2>2, <3>2, Zenon DEF AdChangeFails
    <3>3. (apart' = apart /\ (a.at = "asked" \/ a.at = "changed")) \/ AdChangeFails(a)
      BY <1>12, Zenon DEF ChangeAd, ListAds
    <3>4. QED
      BY <3>1, <3>2, <3>3
  <2>3. ASSUME ~apart' PROVE PagePlain' /\ SendsPlain' /\ ModeChain' /\ LayoutChain' /\ SyncChain'
    <3>1. PagePlain /\ SendsPlain /\ ModeChain /\ LayoutChain /\ SyncChain
      BY <1>b, <2>2, <2>3
    <3>2. PagePlain' /\ SendsPlain'
      BY <2>1, <3>1 DEF PagePlain, SendsPlain
    <3>3. SendsStay({}) /\ ChangesStay({a})
      BY <2>1, AllStay DEF ChangesStay
    <3>4. QED
      BY <2>1, <2>2, <2>3, <3>1, <3>2, <3>3, ChainsKept
  <2>4. QED
    BY <1>c, <2>3
<1>13. ASSUME NEW a \in adChanges, KeepLayout(a), ~apart'
       PROVE  PagePlain' /\ SendsPlain' /\ ModeChain' /\ LayoutChain' /\ SyncChain'
  <2>1. ~apart /\ (record'.mode # record.mode => Shows(a.copy))
    BY <1>13, Zenon DEF KeepLayout
  <2>2. PagePlain /\ SendsPlain /\ ModeChain /\ SyncChain
    BY <1>b, <2>1
  <2>3. PICK b : b = To(a, "kept")
    OBVIOUS
  <2>4. b.at = "kept" /\ b.copy = a.copy /\ b.next = a.next /\ a.next \in SUBSET Creatives
    BY <1>a, <2>3, AdStageFacts DEF AdCalls
  <2>5. /\ adChanges' = (adChanges \ {a}) \cup {b} /\ UNCHANGED <<pageDevice, modeSends, agent>>
        /\ a.at = "listed" /\ record' = Reconciled(record, a.next)
    BY <1>13, <2>3 DEF KeepLayout, AdStep
  <2>6. record'.preferred = a.next
    BY <1>a, <2>4, <2>5, ReconciledFacts
  <2>7. PagePlain' /\ SendsPlain'
    BY <2>2, <2>5 DEF PagePlain, SendsPlain
  <2>8. Coming' = Coming /\ Told' = Told
    BY <2>5 DEF Coming, Told
  <2>9. ModeChain'
    BY <2>2, <2>5, <2>8 DEF ModeChain
  <2>10. record'.preferred \in ToldLayouts'
    BY <2>4, <2>5, <2>6 DEF ToldLayouts
  <2>11. SyncChain'
    <3>1. CASE Shows(a.copy)
      BY <2>4, <2>5, <3>1 DEF SyncChain, KeepsShown
    <3>2. CASE ~Shows(a.copy)
      <4>1. record'.mode = record.mode
        BY <2>1, <3>2
      <4>2. KeepsShown => KeepsShown'
        BY <2>5 DEF KeepsShown
      <4>3. QED
        BY <2>2, <2>5, <2>8, <4>1, <4>2 DEF SyncChain
    <3>3. QED
      BY <3>1, <3>2
  <2>12. QED
    BY <2>7, <2>9, <2>10, <2>11 DEF LayoutChain
<1>14. ASSUME NEW a \in adChanges, LayoutKept(a), ~apart'
       PROVE  PagePlain' /\ SendsPlain' /\ ModeChain' /\ LayoutChain' /\ SyncChain'
  <2>1. ~apart /\ (~Shows(a.copy) => pageDevice.mode.ads = {} /\ record.preferred \in ToldLayouts)
    BY <1>14, Zenon DEF LayoutKept
  <2>2. PagePlain /\ SendsPlain /\ ModeChain /\ SyncChain
    BY <1>b, <2>1
  <2>3. PICK mode : mode = Mode(a.copy.mode.type, a.next)
    OBVIOUS
  <2>4. mode.type = a.copy.mode.type /\ mode.ads = a.next
    BY <2>3 DEF Mode
  <2>5. adChanges' = adChanges \ {a} /\ UNCHANGED <<record, agent>>
    BY <1>14 DEF LayoutKept
  <2>6. CASE Shows(a.copy)
    <3>1. PICK c : c = [id |-> a.id, by |-> "ads", box |-> NoBox, at |-> "sent", crossed |-> a.crossed, mode |-> mode]
      OBVIOUS
    <3>2. c.by = "ads" /\ c.at = "sent" /\ c.mode = mode
      BY <3>1
    <3>3. modeSends' = modeSends \cup {c} /\ pageDevice' = [mode |-> mode, preferred |-> a.next]
      BY <1>14, <2>3, <2>6, <3>1 DEF LayoutKept
    <3>4. pageDevice'.mode = mode /\ pageDevice'.preferred = a.next
      BY <3>3
    <3>5. mode \in Coming'
      BY <3>2, <3>3 DEF Coming
    <3>6. ModeChain' /\ LayoutChain' /\ SyncChain'
      BY <2>4, <3>4, <3>5 DEF ModeChain, LayoutChain, SyncChain
    <3>7. mode.type \in SportTypes
      BY <2>4, <2>6 DEF Shows
    <3>8. PagePlain' /\ SendsPlain'
      BY <2>2, <2>4, <3>2, <3>3, <3>4, <3>7 DEF PagePlain, SendsPlain, PlainMode
    <3>9. QED
      BY <3>6, <3>8
  <2>7. CASE ~Shows(a.copy)
    <3>1. modeSends' = modeSends /\ pageDevice' = [mode |-> pageDevice.mode, preferred |-> a.next]
      BY <1>14, <2>7 DEF LayoutKept
    <3>2. pageDevice'.mode = pageDevice.mode /\ pageDevice'.preferred = a.next
      BY <3>1
    <3>3. Coming' = Coming /\ Told' = Told
      BY <3>1 DEF Coming, Told
    <3>4. ModeChain'
      BY <2>2, <2>5, <3>2, <3>3 DEF ModeChain
    <3>5. SendsStay({}) /\ ChangesStay({a})
      BY <2>5, <3>1, AllStay DEF ChangesStay
    <3>6. record.preferred \in ToldLayouts' \/ record.preferred = a.next
      BY <2>1, <2>7, <3>5, StillTold
    <3>7. LayoutChain'
      BY <2>5, <3>2, <3>6 DEF LayoutChain
    <3>8. KeepsShown => KeepsShown'
      BY <2>7, <3>5, StillShown
    <3>9. SyncChain'
      BY <2>2, <2>5, <3>3, <3>8 DEF SyncChain
    <3>10. PagePlain' /\ SendsPlain'
      BY <2>1, <2>2, <2>7, <3>1, <3>2 DEF PagePlain, SendsPlain
    <3>11. QED
      BY <3>4, <3>7, <3>9, <3>10
  <2>8. QED
    BY <2>6, <2>7
<1>15. QED
  BY <1>c, <1>1, <1>2, <1>3, <1>4, <1>5, <1>7, <1>8, <1>9, <1>10, <1>11, <1>12, <1>13, <1>14 DEF SettingsNext

LEMMA SettingsInvariance == SettingsSpec => [](SettingsTypeInv /\ CalibrationInv /\ ModeInv)
<1>1. ASSUME SettingsInit PROVE CalibrationInv
  <2>1. /\ form = [box |-> Full, saved |-> Full, color |-> TRUE, savedColor |-> TRUE]
        /\ preview = Quiet /\ previews = <<>> /\ patches = {}
        /\ record.config = Config(Full, TRUE) /\ agent.config = Config(Full, TRUE) /\ agent.preview = NoBox
    BY <1>1 DEF SettingsInit
  <2>2. Config(Full, TRUE).box = Full /\ preview.latest = NoBox
    BY <2>1 DEF Config, Quiet
  <2>3. Destined /\ SavedInv
    BY <2>1, <2>2 DEF Destined, Effective, SavedInv
  <2>4. QED
    BY <2>3 DEF CalibrationInv
<1>2. ASSUME SettingsInit PROVE ModeInv
  <2>0. PICK creatives \in {{}, Creatives}, type \in {"basketball", "calibration"} :
          LET mode == Mode(type, IF type \in SportTypes THEN creatives ELSE {})
          IN /\ pageDevice = [mode |-> mode, preferred |-> creatives]
             /\ record = [config |-> Config(Full, TRUE), mode |-> mode, preferred |-> creatives]
             /\ agent = [config |-> Config(Full, TRUE), preview |-> NoBox, mode |-> mode]
    BY <1>2 DEF SettingsInit
  <2>1. PICK mode :
          /\ mode = Mode(type, IF type \in SportTypes THEN creatives ELSE {})
          /\ pageDevice = [mode |-> mode, preferred |-> creatives]
          /\ record = [config |-> Config(Full, TRUE), mode |-> mode, preferred |-> creatives]
          /\ agent = [config |-> Config(Full, TRUE), preview |-> NoBox, mode |-> mode]
    BY <2>0
  <2>b. modeSends = {} /\ adChanges = {}
    BY <1>2 DEF SettingsInit
  <2>a. record.mode = mode /\ record.preferred = creatives /\ agent.mode = mode
    BY <2>1
  <2>2. pageDevice.mode = mode /\ pageDevice.preferred = creatives /\ mode.type = type
        /\ mode.ads = IF type \in SportTypes THEN creatives ELSE {}
    BY <2>1 DEF Mode
  <2>3. ModeChain /\ LayoutChain /\ SyncChain
    BY <2>a, <2>2 DEF ModeChain, LayoutChain, SyncChain
  <2>4. PagePlain /\ SendsPlain
    BY <2>b, <2>2 DEF PagePlain, SendsPlain
  <2>5. QED
    BY <2>3, <2>4 DEF ModeInv
<1>3. QED
  BY <1>1, <1>2, SettingsTypesInvariance, StepCalibrationInv, StepModeInv, PTL DEF SettingsSpec

\* Once no preview is under way the display draws in the box on the page,
\* however fast it was dragged; once no save is, the configuration is the same
\* at the display, the server and the page; once no mode and no advertisement
\* is, the mode and the layout are.  Requests of one kind may overlap.  Exempt
\* is what follows a request or push that was lost, one that came after a later
\* one had passed it, a push that ended a later preview, a mode set elsewhere,
\* and a mode of an advertisement that another answer had gone against
\* (queueCalibrationPreview, saveCalibration, setMode and
\* reconcileActiveSportLayoutAds of the settings page, PATCH /config).
THEOREM SettingsReach == SettingsSpec => []SettingsReachTheDisplay
<1>1. CalibrationInv /\ ModeInv => SettingsReachTheDisplay
  <2> SUFFICES ASSUME CalibrationInv, ModeInv PROVE SettingsReachTheDisplay
    OBVIOUS
  <2>1. ASSUME previews = <<>>, preview.latest = NoBox, ~disturbed PROVE Effective.box = form.box
    BY <2>1 DEF CalibrationInv, Destined
  <2>2. ASSUME patches = {}, ~disturbed
        PROVE  agent.config = record.config /\ record.config = Config(form.saved, form.savedColor)
    BY <2>2 DEF CalibrationInv, SavedInv, Carried
  <2>3. ASSUME modeSends = {}, adChanges = {}, ~apart
        PROVE  /\ agent.mode = pageDevice.mode /\ agent.mode = record.mode
               /\ record.preferred = pageDevice.preferred
    <3>1. ModeChain /\ LayoutChain /\ SyncChain
      BY <2>3 DEF ModeInv
    <3>2. Coming = {} /\ Told = {} /\ ~KeepsShown
      BY <2>3 DEF Coming, Told, KeepsShown
    <3>3. ToldLayouts = {}
      BY <2>3, <3>2 DEF ToldLayouts
    <3>4. QED
      BY <3>1, <3>2, <3>3 DEF ModeChain, LayoutChain, SyncChain
  <2>4. QED
    BY <2>1, <2>2, <2>3 DEF SettingsReachTheDisplay
<1>2. QED
  BY <1>1, SettingsInvariance, PTL

-----------------------------------------------------------------------------
(* DisplaySettings: changes of the advertisements that no mode crossed.    *)

AdSends == {c \in modeSends : c.by = "ads"}

\* The copy with which one began, and the mode that it sends, have the type of
\* the mode that the display shows.
TypeAgree == /\ \A a \in adChanges : ~a.crossed => a.copy.mode.type = agent.mode.type
             /\ \A c \in AdSends : ~c.crossed => c.mode.type = agent.mode.type

LEMMA TypeKept ==
  ASSUME TypeAgree, agent'.mode.type = agent.mode.type,
         \A a \in adChanges' : \E b \in adChanges : a.copy = b.copy /\ a.crossed = b.crossed,
         \A c \in AdSends' : \E d \in AdSends : c.mode = d.mode /\ c.crossed = d.crossed
  PROVE  TypeAgree'
  BY DEF TypeAgree

LEMMA AllCrossed ==
  ASSUME \A a \in adChanges' : a.crossed = TRUE, \A c \in AdSends' : c.crossed = TRUE
  PROVE  TypeAgree'
  BY DEF TypeAgree

LEMMA StepTypeAgree == SettingsTypeInv /\ ModeInv /\ TypeAgree /\ [SettingsNext]_settingsVars => TypeAgree'
<1> SUFFICES ASSUME SettingsTypeInv, ModeInv, TypeAgree, [SettingsNext]_settingsVars PROVE TypeAgree'
  OBVIOUS
<1>0. CalibrationTypes /\ StoredTypes /\ ModeTypes
  BY DEF SettingsTypeInv
<1>a. /\ previews \in Seq(Configs) /\ patches \subseteq ConfigCalls /\ record \in Records /\ agent \in Agents
      /\ pageDevice \in Copies /\ modeSends \subseteq ModeCalls /\ adChanges \subseteq AdCalls
  BY <1>0 DEF CalibrationTypes, StoredTypes, ModeTypes, Records, Agents
<1>b. ASSUME adChanges' \subseteq adChanges, modeSends' \subseteq modeSends, agent'.mode = agent.mode PROVE TypeAgree'
  BY <1>b, TypeKept DEF AdSends
<1>1. ASSUME UNCHANGED settingsVars \/ PreviewTimer \/ TenthPasses \/ StartDrag \/ MoveDrag \/ EndDrag \/ ResetOrRotate
             \/ ToggleColor \/ PreviewLost \/ Save
      PROVE  TypeAgree'
  BY <1>1, <1>b DEF PreviewTimer, TenthPasses, StartDrag, MoveDrag, EndDrag, ResetOrRotate, ToggleColor,
                    PreviewLost, Save, KeepCalls, settingsVars, modeVars
<1>2. ASSUME PreviewArrives PROVE TypeAgree'
  <2>1. PICK i \in 1..Len(previews) : ConfigUpdate(previews[i], TRUE) /\ UNCHANGED <<record, modeVars>>
    BY <1>2 DEF PreviewArrives
  <2>2. agent'.mode = agent.mode
    BY <1>a, <2>1 DEF ConfigUpdate, Agents
  <2>3. QED
    BY <1>b, <2>1, <2>2 DEF modeVars
<1>3. ASSUME NEW s \in patches, StoreConfig(s) \/ SaveAnswered(s) \/ SaveFails(s) PROVE TypeAgree'
  BY <1>3, <1>b DEF StoreConfig, SaveAnswered, SaveFails, modeVars
<1>4. ASSUME NEW s \in patches, PushConfig(s) PROVE TypeAgree'
  <2>1. CASE ConfigUpdate(s.config, FALSE)
    BY <1>a, <1>b, <1>4, <2>1 DEF PushConfig, ConfigUpdate, Agents, modeVars
  <2>2. CASE UNCHANGED agent
    BY <1>b, <1>4, <2>2 DEF PushConfig, modeVars
  <2>3. QED
    BY <1>4, <2>1, <2>2 DEF PushConfig
<1>6. ASSUME NEW type \in SettingTypes, NEW box \in Boxes \cup {NoBox}, SetMode(type, box) PROVE TypeAgree'
  <2>1. PICK c \in ModeCalls : modeSends' = modeSends \cup {c} /\ c.by = "page" /\ c.at = "sent"
    BY <1>6, SentMode
  <2>2. AdSends' = AdSends
    BY <2>1 DEF AdSends
  <2>3. UNCHANGED <<adChanges, agent>>
    BY <1>6 DEF SetMode
  <2>4. QED
    BY <2>2, <2>3, TypeKept
<1>7. ASSUME ChooseMode \/ ShowTestPattern PROVE TypeAgree'
  <2>1. form.box \in Boxes /\ "calibration" \in SettingTypes
    BY <1>0 DEF CalibrationTypes, Forms, SettingTypes
  <2>2. QED
    BY <1>6, <1>7, <2>1 DEF ChooseMode, ShowTestPattern
<1>8. ASSUME NEW c \in modeSends, ShowMode(c) PROVE TypeAgree'
  <2>1. PICK d : d = [c EXCEPT !.at = "shown"]
    OBVIOUS
  <2>2. d.at = "shown" /\ d.by = c.by /\ d.mode = c.mode /\ d.crossed = c.crossed
    BY <1>a, <2>1, ShownFacts
  <2>3. c.mode \in SettingModes /\ c.by \in {"page", "ads"} /\ c.crossed \in BOOLEAN
    BY <1>a DEF ModeCalls
  <2>4. agent'.mode = c.mode
    BY <1>a, <1>8, <2>3, ModeShown
  <2>5. CASE c.by = "page" \/ c.crossed
    <3>1. modeSends' = Cross(modeSends \ {c}) \cup {d} /\ adChanges' = Cross(adChanges)
      BY <1>8, <2>1, <2>5 DEF ShowMode
    <3>2. \A a \in adChanges' : a.crossed = TRUE
      BY <1>a, <3>1, CrossAdFacts
    <3>3. \A e \in Cross(modeSends \ {c}) : e.crossed = TRUE
      BY <1>a, CrossModeFacts
    <3>4. d.by = "ads" => d.crossed = TRUE
      BY <2>2, <2>3, <2>5
    <3>5. \A e \in AdSends' : e.crossed = TRUE
      BY <3>1, <3>3, <3>4 DEF AdSends
    <3>6. QED
      BY <3>2, <3>5, AllCrossed
  <2>6. CASE c.by = "ads" /\ ~c.crossed
    <3>1. modeSends' = (modeSends \ {c}) \cup {d} /\ adChanges' = adChanges
      BY <1>8, <2>1, <2>6 DEF ShowMode
    <3>2. AdSends' = (AdSends \ {c}) \cup {d} /\ c \in AdSends
      BY <2>2, <2>6, <3>1 DEF AdSends
    <3>3. agent'.mode.type = agent.mode.type
      BY <2>4, <2>6, <3>2 DEF TypeAgree
    <3>4. \A e \in AdSends' : \E f \in AdSends : e.mode = f.mode /\ e.crossed = f.crossed
      BY <2>2, <3>2
    <3>5. QED
      BY <3>1, <3>3, <3>4, TypeKept
  <2>7. QED
    BY <2>3, <2>5, <2>6
<1>9. ASSUME NEW c \in modeSends, ModeAnswered(c) PROVE TypeAgree'
  BY <1>9, <1>b DEF ModeAnswered
<1>10. ASSUME SetElsewhere PROVE TypeAgree'
  <2>1. modeSends' = Cross(modeSends) /\ adChanges' = Cross(adChanges)
    BY <1>10 DEF SetElsewhere
  <2>2. \A a \in adChanges' : a.crossed = TRUE
    BY <1>a, <2>1, CrossAdFacts
  <2>3. \A e \in AdSends' : e.crossed = TRUE
    BY <1>a, <2>1, CrossModeFacts DEF AdSends
  <2>4. QED
    BY <2>2, <2>3, AllCrossed
<1>11. ASSUME StartAdChange PROVE TypeAgree'
  <2>0. PICK ad \in Creatives :
          adChanges' = adChanges \cup {[id |-> Number, ad |-> ad, copy |-> pageDevice, at |-> "asked", next |-> {},
                                        crossed |-> apart \/ modeSends # {}]}
    BY <1>11 DEF StartAdChange
  <2>1. PICK a : /\ a = [id |-> Number, ad |-> ad, copy |-> pageDevice, at |-> "asked", next |-> {},
                         crossed |-> apart \/ modeSends # {}]
                 /\ adChanges' = adChanges \cup {a}
    BY <2>0
  <2>2. a.copy = pageDevice
    BY <2>1
  <2>3. UNCHANGED <<modeSends, agent>> /\ AdSends' = AdSends
    BY <1>11 DEF StartAdChange, AdSends
  <2>4. a.crossed = (apart \/ modeSends # {})
    BY <2>1, Zenon
  <2>5. ASSUME ~a.crossed PROVE a.copy.mode.type = agent.mode.type
    <3>1. ~apart /\ modeSends = {}
      BY <2>4, <2>5, Zenon
    <3>2. Coming = {} /\ Told = {} /\ ModeChain
      BY <3>1 DEF ModeInv, Coming, Told
    <3>3. QED
      BY <2>2, <3>2 DEF ModeChain
  <2>6. QED
    BY <2>1, <2>3, <2>5 DEF TypeAgree
<1>12. ASSUME NEW a \in adChanges, ChangeAd(a) \/ ListAds(a) \/ KeepLayout(a) \/ AdChangeFails(a) PROVE TypeAgree'
  <2>1. UNCHANGED <<modeSends, agent>>
    BY <1>12 DEF ChangeAd, ListAds, KeepLayout, AdChangeFails
  <2>2. CASE adChanges' \subseteq adChanges
    BY <1>b, <2>1, <2>2
  <2>3. ASSUME NEW b, b.copy = a.copy, b.crossed = a.crossed, adChanges' = (adChanges \ {a}) \cup {b} PROVE TypeAgree'
    <3>1. \A e \in adChanges' : \E f \in adChanges : e.copy = f.copy /\ e.crossed = f.crossed
      BY <2>3
    <3>2. AdSends' = AdSends
      BY <2>1 DEF AdSends
    <3>3. QED
      BY <2>1, <3>1, <3>2, TypeKept
  <2>4. CASE ChangeAd(a) \/ KeepLayout(a)
    <3>1. PICK b : (b = To(a, "changed") /\ ChangeAd(a)) \/ (b = To(a, "kept") /\ KeepLayout(a))
      BY <2>4
    <3>2. b.copy = a.copy /\ b.crossed = a.crossed
      BY <1>a, <3>1, AdStageFacts
    <3>3. adChanges' = (adChanges \ {a}) \cup {b}
      BY <3>1 DEF ChangeAd, KeepLayout, AdStep
    <3>4. QED
      BY <2>3, <3>2, <3>3
  <2>5. CASE AdStep(a, [To(a, "listed") EXCEPT !.next = activeAds])
    <3>1. PICK b : b = [To(a, "listed") EXCEPT !.next = activeAds]
      OBVIOUS
    <3>0. activeAds \in SUBSET Creatives /\ a \in AdCalls
      BY <1>0, <1>a DEF ModeTypes
    <3>2. b.copy = a.copy /\ b.crossed = a.crossed
      BY <3>0, <3>1, AdListedFacts
    <3>3. QED
      BY <2>3, <2>5, <3>1, <3>2 DEF AdStep
  <2>6. QED
    BY <1>12, <2>2, <2>4, <2>5 DEF ListAds, AdChangeFails
<1>13. ASSUME NEW a \in adChanges, LayoutKept(a) PROVE TypeAgree'
  <2>1. PICK mode : mode = Mode(a.copy.mode.type, a.next)
    OBVIOUS
  <2>2. PICK c : c = [id |-> a.id, by |-> "ads", box |-> NoBox, at |-> "sent", crossed |-> a.crossed, mode |-> mode]
    OBVIOUS
  <2>3. mode.type = a.copy.mode.type /\ c.by = "ads" /\ c.mode = mode /\ c.crossed = a.crossed
    BY <2>1, <2>2 DEF Mode
  <2>4. modeSends' \subseteq modeSends \cup {c} /\ adChanges' \subseteq adChanges /\ agent' = agent
    BY <1>13, <2>1, <2>2 DEF LayoutKept
  <2>5. AdSends' \subseteq AdSends \cup {c}
    BY <2>4 DEF AdSends
  <2>6. QED
    BY <2>3, <2>4, <2>5 DEF TypeAgree
<1>14. QED
  BY <1>1, <1>2, <1>3, <1>4, <1>7, <1>8, <1>9, <1>10, <1>11, <1>12, <1>13 DEF SettingsNext

LEMMA AdsKeepStep ==
  ASSUME SettingsTypeInv, TypeAgree, SettingsNext, NEW c \in modeSends, c.by = "ads", ~c.crossed,
         [c EXCEPT !.at = "shown"] \in modeSends'
  PROVE  agent'.mode.type = agent.mode.type
<1>a. /\ previews \in Seq(Configs) /\ patches \subseteq ConfigCalls /\ record \in Records /\ agent \in Agents
      /\ modeSends \subseteq ModeCalls
  BY DEF SettingsTypeInv, CalibrationTypes, StoredTypes, ModeTypes, Records, Agents
<1>b. PICK after \in modeSends' : after = [c EXCEPT !.at = "shown"]
  OBVIOUS
<1>c. after.by = "ads" /\ ~after.crossed
  BY <1>a, <1>b, ShownFacts
<1>d. \A d \in AdSends : ~d.crossed => d.mode.type = agent.mode.type
  BY DEF TypeAgree
<1>1. ASSUME PreviewTimer \/ TenthPasses \/ StartDrag \/ MoveDrag \/ EndDrag \/ ResetOrRotate
             \/ ToggleColor \/ PreviewLost \/ Save \/ ChooseMode \/ ShowTestPattern \/ StartAdChange
      PROVE  agent' = agent
  BY <1>1 DEF PreviewTimer, TenthPasses, StartDrag, MoveDrag, EndDrag, ResetOrRotate, ToggleColor,
              PreviewLost, Save, KeepCalls, ChooseMode, ShowTestPattern, SetMode, StartAdChange
<1>2. ASSUME PreviewArrives PROVE agent'.mode = agent.mode
  BY <1>a, <1>2 DEF PreviewArrives, ConfigUpdate, Agents
<1>3. ASSUME NEW s \in patches, StoreConfig(s) \/ SaveAnswered(s) \/ SaveFails(s) PROVE agent' = agent
  BY <1>3 DEF StoreConfig, SaveAnswered, SaveFails
<1>4. ASSUME NEW s \in patches, PushConfig(s) PROVE agent'.mode = agent.mode
  BY <1>a, <1>4 DEF PushConfig, ConfigUpdate, Agents
<1>5. ASSUME NEW a \in adChanges, ChangeAd(a) \/ ListAds(a) \/ KeepLayout(a) \/ LayoutKept(a) \/ AdChangeFails(a)
      PROVE  agent' = agent
  BY <1>5 DEF ChangeAd, ListAds, KeepLayout, LayoutKept, AdChangeFails
<1>6. ASSUME NEW d \in modeSends, ModeAnswered(d) PROVE agent' = agent
  BY <1>6 DEF ModeAnswered
<1>7. ASSUME NEW d \in modeSends, ShowMode(d) PROVE agent'.mode.type = agent.mode.type
  <2>1. d.mode \in SettingModes /\ d.by \in {"page", "ads"}
    BY <1>a DEF ModeCalls
  <2>2. agent'.mode = d.mode
    BY <1>a, <1>7, <2>1, ModeShown
  <2>3. CASE d.by = "ads" /\ ~d.crossed
    BY <1>d, <2>2, <2>3 DEF AdSends
  <2>4. CASE d.by = "page" \/ d.crossed
    <3>1. PICK e : e = [d EXCEPT !.at = "shown"]
      OBVIOUS
    <3>2. e.by = d.by /\ e.crossed = d.crossed
      BY <1>a, <3>1, ShownFacts
    <3>3. modeSends' = Cross(modeSends \ {d}) \cup {e}
      BY <1>7, <2>4, <3>1 DEF ShowMode
    <3>4. after \in Cross(modeSends \ {d}) => after.crossed = TRUE
      BY <1>a, CrossModeFacts
    <3>5. after # e
      BY <1>c, <2>4, <3>2
    <3>6. QED
      BY <1>c, <3>3, <3>4, <3>5
  <2>5. QED
    BY <2>1, <2>3, <2>4
<1>8. ASSUME SetElsewhere PROVE FALSE
  <2>1. modeSends' = Cross(modeSends)
    BY <1>8 DEF SetElsewhere
  <2>2. QED
    BY <1>a, <1>c, <2>1, CrossModeFacts
<1>9. QED
  BY <1>1, <1>2, <1>3, <1>4, <1>5, <1>6, <1>7, <1>8 DEF SettingsNext

\* A change of the advertisements never moves the display to another mode,
\* unless somebody chose one meanwhile, for every order in which uploads, modes
\* and their answers interleave (setMode and reconcileActiveSportLayoutAds of
\* the settings page).
THEOREM AdsKeepMode == SettingsSpec => AdsKeepTheMode
<1>1. SettingsInit => TypeAgree
  BY DEF SettingsInit, TypeAgree, AdSends
<1>2. SettingsSpec => [](SettingsTypeInv /\ ModeInv /\ TypeAgree)
  BY <1>1, SettingsInvariance, StepTypeAgree, PTL DEF SettingsSpec
<1>3. SettingsTypeInv /\ TypeAgree /\ [SettingsNext]_settingsVars
        => [\A c \in modeSends :
              (c.by = "ads" /\ ~c.crossed /\ c.at = "sent" /\ [c EXCEPT !.at = "shown"] \in modeSends')
                => agent'.mode.type = agent.mode.type]_settingsVars
  BY AdsKeepStep
<1>4. QED
  BY <1>2, <1>3, PTL DEF SettingsSpec, AdsKeepTheMode
-----------------------------------------------------------------------------
(* The page of a game: types, and the commands under way as sets.          *)

PageKinds == TimerKinds \cup ModeKinds
Backs == LayoutTypes \cup AdModes \cup AdPositions
PageFields == [preview : {"regular", "scoreboard"}, branding : BOOLEAN, layout : LayoutTypes,
               adMode : AdModes, adPosition : AdPositions]

\* What the mode of the page is built from.
PageData ==
  /\ sport \in Sports /\ shown \in PageFields /\ hydrated \in BoardLayouts
  /\ media \in {"loading", "loaded", "failed"} /\ ads \in BOOLEAN

\* A failure returns to a value of the field that the command has changed.
BackFits(k, back) ==
  /\ k = "layout" => back \in LayoutTypes
  /\ k = "adMode" => back \in AdModes
  /\ k = "adPosition" => back \in AdPositions

\* No two commands share their number, and there is a greatest one.
CallsTyped ==
  /\ calls \subseteq PageCalls /\ \A c \in calls : BackFits(c.kind, c.back)
  /\ \E b \in Nat : \A c \in calls : c.id <= b
  /\ \A c, e \in calls : c.id = e.id => c = e

ControlRest ==
  /\ selection \in SUBSET Boards /\ device \in {"loading", "loaded", "failed"}
  /\ saving \in BOOLEAN /\ uploading \in BOOLEAN /\ modeUpset \in BOOLEAN /\ timerUpset \in BOOLEAN
  /\ clock \in Timers /\ pendingMode \in PageModes \cup {NoPageMode}
  /\ stored \in [Boards -> StoredBoards]
  /\ presses \in 0..MaxPresses /\ losses \in 0..MaxLosses

ControlTypeInv == PageData /\ CallsTyped /\ ControlRest

\* Two records of the same command.
Same(c, e) == /\ c.id = e.id /\ c.kind = e.kind /\ c.mode = e.mode /\ c.timer = e.timer
              /\ c.back = e.back /\ c.stage = e.stage

LEMMA AloneFacts ==
  ASSUME NEW c \in PageCalls, NEW b \in BOOLEAN, NEW e, e = [c EXCEPT !.alone = b]
  PROVE  e \in PageCalls /\ Same(c, e) /\ e.after = c.after /\ e.alone = b
  BY DEF PageCalls, Same

LEMMA AfterFacts ==
  ASSUME NEW c \in PageCalls, NEW S \in SUBSET Nat, NEW e, e = [c EXCEPT !.after = S]
  PROVE  e \in PageCalls /\ Same(c, e) /\ e.after = S /\ e.alone = c.alone
  BY DEF PageCalls, Same

LEMMA StageFacts ==
  ASSUME NEW c \in PageCalls, NEW e, e = [c EXCEPT !.stage = "stored"]
  PROVE  /\ e \in PageCalls /\ e.id = c.id /\ e.kind = c.kind /\ e.mode = c.mode /\ e.timer = c.timer
         /\ e.back = c.back /\ e.alone = c.alone /\ e.stage = "stored"
  BY DEF PageCalls

LEMMA NextIdFacts == CallsTyped => NextId \in Nat /\ \A c \in calls : c.id < NextId
<1> SUFFICES ASSUME CallsTyped PROVE NextId \in Nat /\ \A c \in calls : c.id < NextId
  OBVIOUS
<1> DEFINE S == {0} \cup {c.id : c \in calls}
<1>1. S \in SUBSET Nat /\ S # {}
  BY DEF CallsTyped, PageCalls
<1>2. PICK b \in Nat : \A n \in S : n <= b
  BY DEF CallsTyped
<1>3. PICK n \in S : \A m \in S : m <= n
  <2> HIDE DEF S
  <2>1. QED
    BY <1>1, <1>2, GreatestNumber
<1>4. n \in S /\ \A m \in S : n >= m
  <2>1. n \in Nat /\ \A m \in S : m \in Nat /\ m <= n
    BY <1>1, <1>3
  <2>2. QED
    BY <2>1
<1>5. Max(S) \in S /\ \A m \in S : Max(S) >= m
  <2> HIDE DEF S
  <2>1. QED
    BY <1>4 DEF Max
<1>6. Max(S) \in Nat /\ NextId = 1 + Max(S)
  BY <1>1, <1>5 DEF NextId
<1>7. ASSUME NEW c \in calls PROVE c.id < NextId
  <2>1. c.id \in Nat /\ c.id \in S
    BY DEF CallsTyped, PageCalls
  <2>2. QED
    BY <1>5, <1>6, <2>1
<1>8. QED
  BY <1>6, <1>7

\* What a request that leaves changes: it has the greatest number, and the
\* others keep everything but their history.
LEMMA SentCallFacts ==
  ASSUME CallsTyped, NEW k \in PageKinds, NEW m \in PageModes, NEW t \in Timers, NEW back \in Backs,
         BackFits(k, back), SendCall(k, m, t, back)
  PROVE  /\ CallsTyped'
         /\ \E n \in calls' :
              /\ n.kind = k /\ n.mode = m /\ n.timer = t /\ n.back = back /\ n.after = {} /\ n.stage = "sent"
              /\ \A e \in calls' : e.id <= n.id
              /\ n.alone = (k \notin ClockKinds /\ \A c \in calls : c.kind \in TimerKinds => c.alone)
              /\ \A e \in calls' \ {n} : \E c \in calls :
                   Same(c, e) /\ e.after = c.after /\ e.alone = (c.alone /\ k \notin ClockKinds)
              /\ \A c \in calls : \E e \in calls' \ {n} : Same(c, e) /\ e.after = c.after
<1>1. PICK p \in BOOLEAN : p = (k \notin ClockKinds /\ \A c \in calls : c.kind \in TimerKinds => c.alone)
  <2>1. (k \notin ClockKinds /\ \A c \in calls : c.kind \in TimerKinds => c.alone) \in BOOLEAN
    BY Zenon
  <2>2. QED
    BY <2>1
<1>2. PICK n : n = [id |-> NextId, kind |-> k, mode |-> m, timer |-> t, back |-> back, after |-> {},
                    stage |-> "sent", alone |-> p]
  OBVIOUS
<1>3. NextId \in Nat /\ \A c \in calls : c.id < NextId
  BY NextIdFacts
<1>4. /\ n \in PageCalls /\ n.id = NextId /\ n.kind = k /\ n.mode = m /\ n.timer = t
      /\ n.back = back /\ n.after = {} /\ n.stage = "sent" /\ n.alone = p
  BY <1>1, <1>2, <1>3 DEF PageCalls, PageKinds, Backs
<1> DEFINE b(c) == c.alone /\ k \notin ClockKinds
           Met(c) == [c EXCEPT !.alone = b(c)]
<1>5. calls' = {n} \cup {Met(c) : c \in calls}
  BY <1>1, <1>2 DEF SendCall
<1>6. \A c \in calls : /\ c \in PageCalls /\ Met(c) \in PageCalls /\ Same(c, Met(c)) /\ Met(c).after = c.after
                       /\ Met(c).alone = (c.alone /\ k \notin ClockKinds)
  <2> TAKE c \in calls
  <2>1. c \in PageCalls
    BY DEF CallsTyped
  <2>2. b(c) \in BOOLEAN
    BY Zenon
  <2>3. PICK e : e = Met(c)
    OBVIOUS
  <2>4. PICK d \in BOOLEAN : d = b(c)
    BY <2>2
  <2>5. e = [c EXCEPT !.alone = d]
    BY <2>3, <2>4
  <2>6. e \in PageCalls /\ Same(c, e) /\ e.after = c.after /\ e.alone = d
    BY <2>1, <2>5, AloneFacts
  <2>7. QED
    BY <2>1, <2>3, <2>4, <2>6
<1> HIDE DEF Met, b
<1>7. \A e \in calls' : e = n \/ \E c \in calls : e = Met(c)
  BY <1>5
<1>8. n \in calls' /\ \A c \in calls : Met(c) \in calls' \ {n}
  <2>1. \A c \in calls : Met(c).id # n.id
    BY <1>3, <1>4, <1>6 DEF Same, PageCalls
  <2>2. QED
    BY <1>5, <2>1
<1>9. calls' \subseteq PageCalls
  BY <1>4, <1>6, <1>7
<1>10. ASSUME NEW e \in calls' PROVE e.id <= n.id
  <2>1. e.id \in Nat
    BY <1>9 DEF PageCalls
  <2>2. QED
    BY <1>3, <1>4, <1>6, <1>7, <2>1 DEF Same
<1>11. ASSUME NEW e \in calls', NEW f \in calls', e.id = f.id PROVE e = f
  <2>1. CASE e = n /\ f = n
    BY <2>1
  <2>2. ASSUME NEW c \in calls, (e = n /\ f = Met(c)) \/ (f = n /\ e = Met(c)) PROVE FALSE
    <3>1. c.id < NextId /\ c.id \in Nat
      BY <1>3, <1>6 DEF PageCalls
    <3>2. c.id = NextId
      BY <1>4, <1>6, <1>11, <2>2 DEF Same
    <3>3. QED
      BY <1>3, <3>1, <3>2
  <2>3. ASSUME NEW c \in calls, NEW d \in calls, e = Met(c), f = Met(d) PROVE e = f
    <3>1. c.id = d.id
      BY <1>6, <1>11, <2>3 DEF Same
    <3>2. c = d
      BY <3>1 DEF CallsTyped
    <3>3. QED
      BY <2>3, <3>2
  <2>4. QED
    BY <1>7, <2>1, <2>2, <2>3
<1>12. CallsTyped'
  <2>1. \E g \in Nat : \A e \in calls' : e.id <= g
    BY <1>3, <1>4, <1>10
  <2>2. \A e, f \in calls' : e.id = f.id => e = f
    BY <1>11
  <2>3. ASSUME NEW e \in calls' PROVE BackFits(e.kind, e.back)
    <3>1. CASE e = n
      BY <1>4, <3>1
    <3>2. ASSUME NEW c \in calls, e = Met(c) PROVE BackFits(e.kind, e.back)
      <4>1. e.kind = c.kind /\ e.back = c.back
        BY <1>6, <3>2 DEF Same
      <4>2. QED
        BY <4>1 DEF CallsTyped
    <3>3. QED
      BY <1>7, <3>1, <3>2
  <2>4. QED
    BY <1>9, <2>1, <2>2, <2>3 DEF CallsTyped
<1>13. \A e \in calls' \ {n} : \E c \in calls :
         Same(c, e) /\ e.after = c.after /\ e.alone = (c.alone /\ k \notin ClockKinds)
  <2> TAKE e \in calls' \ {n}
  <2>1. PICK c \in calls : e = Met(c)
    BY <1>7
  <2>2. QED
    BY <1>6, <2>1
<1>14. \A c \in calls : \E e \in calls' \ {n} : Same(c, e) /\ e.after = c.after
  BY <1>6, <1>8
<1>15. QED
  BY <1>1, <1>4, <1>8, <1>10, <1>12, <1>13, <1>14

\* What storing a command changes.
LEMMA StoredCallFacts ==
  ASSUME CallsTyped, NEW c \in calls, StoreCall(c)
  PROVE  /\ CallsTyped'
         /\ \E n \in calls' :
              /\ n.id = c.id /\ n.kind = c.kind /\ n.mode = c.mode /\ n.timer = c.timer /\ n.back = c.back
              /\ n.alone = c.alone /\ n.stage = "stored"
              /\ n.after = {e.id : e \in {f \in calls : f.stage = "stored" /\ f.kind \in TimerKinds}}
              /\ calls' = (calls \ {c}) \cup {n}
<1> DEFINE S == {e.id : e \in {f \in calls : f.stage = "stored" /\ f.kind \in TimerKinds}}
<1>1. calls \subseteq PageCalls /\ c \in PageCalls
  BY DEF CallsTyped
<1>2. S \in SUBSET Nat
  BY <1>1 DEF PageCalls
<1>3. PICK n : n = [c EXCEPT !.stage = "stored", !.after = S]
  OBVIOUS
<1>4. calls' = (calls \ {c}) \cup {n}
  BY <1>3 DEF StoreCall
<1>5. /\ n \in PageCalls /\ n.id = c.id /\ n.kind = c.kind /\ n.mode = c.mode /\ n.timer = c.timer
      /\ n.back = c.back /\ n.alone = c.alone /\ n.after = S /\ n.stage = "stored"
  <2>1. PICK T : T = S
    OBVIOUS
  <2>2. T \in SUBSET Nat /\ n = [c EXCEPT !.stage = "stored", !.after = T]
    BY <1>2, <1>3, <2>1
  <2>3. PICK d : d = [c EXCEPT !.stage = "stored"]
    OBVIOUS
  <2>4. n = [d EXCEPT !.after = T]
    BY <2>2, <2>3
  <2> HIDE DEF S
  <2>5. /\ d \in PageCalls /\ d.id = c.id /\ d.kind = c.kind /\ d.mode = c.mode /\ d.timer = c.timer
        /\ d.back = c.back /\ d.alone = c.alone /\ d.stage = "stored"
    BY <1>1, <2>3, StageFacts
  <2>6. n \in PageCalls /\ Same(d, n) /\ n.after = T /\ n.alone = d.alone
    BY <2>2, <2>4, <2>5, AfterFacts
  <2>7. QED
    BY <2>1, <2>5, <2>6 DEF Same
<1>6. CallsTyped'
  <2>1. calls' \subseteq PageCalls
    BY <1>1, <1>4, <1>5
  <2>2. PICK b \in Nat : \A e \in calls : e.id <= b
    BY DEF CallsTyped
  <2>3. \A e \in calls' : e.id <= b
    BY <1>4, <1>5, <2>2
  <2>4. \A e, f \in calls' : e.id = f.id => e = f
    BY <1>4, <1>5 DEF CallsTyped
  <2>5. \A e \in calls' : BackFits(e.kind, e.back)
    BY <1>4, <1>5 DEF CallsTyped
  <2>6. QED
    BY <2>1, <2>2, <2>3, <2>4, <2>5 DEF CallsTyped
<1>7. QED
  BY <1>4, <1>5, <1>6

\* What an answer, or its loss, changes.
LEMMA WithoutFacts ==
  ASSUME CallsTyped, NEW c \in calls, calls' = Without(c)
  PROVE  /\ CallsTyped'
         /\ \A e \in calls' : \E f \in calls \ {c} : Same(f, e) /\ e.alone = f.alone /\ e.after = f.after \ {c.id}
         /\ \A f \in calls \ {c} : \E e \in calls' : Same(f, e) /\ e.alone = f.alone /\ e.after = f.after \ {c.id}
<1> DEFINE Met(f) == [f EXCEPT !.after = f.after \ {c.id}]
<1>1. calls' = {Met(f) : f \in calls \ {c}}
  BY DEF Without
<1>2. \A f \in calls : Met(f) \in PageCalls /\ Same(f, Met(f)) /\ Met(f).alone = f.alone /\ Met(f).after = f.after \ {c.id}
  <2> TAKE f \in calls
  <2>1. f \in PageCalls
    BY DEF CallsTyped
  <2>2. PICK S : S = f.after \ {c.id}
    OBVIOUS
  <2>3. S \in SUBSET Nat
    BY <2>1, <2>2 DEF PageCalls
  <2>4. PICK e : e = Met(f)
    OBVIOUS
  <2>5. e = [f EXCEPT !.after = S]
    BY <2>2, <2>4
  <2>6. e \in PageCalls /\ Same(f, e) /\ e.after = S /\ e.alone = f.alone
    BY <2>1, <2>3, <2>5, AfterFacts
  <2>7. QED
    BY <2>2, <2>4, <2>6
<1> HIDE DEF Met
<1>3. \A e \in calls' : \E f \in calls \ {c} : e = Met(f)
  BY <1>1
<1>4. \A f \in calls \ {c} : Met(f) \in calls'
  BY <1>1
<1>5. CallsTyped'
  <2>1. calls' \subseteq PageCalls
    BY <1>2, <1>3
  <2>2. PICK b \in Nat : \A e \in calls : e.id <= b
    BY DEF CallsTyped
  <2>3. \A e \in calls' : e.id <= b
    BY <1>2, <1>3, <2>2 DEF Same
  <2>4. ASSUME NEW e \in calls', NEW g \in calls', e.id = g.id PROVE e = g
    <3>1. PICK f \in calls : e = Met(f)
      BY <1>3
    <3>2. PICK h \in calls : g = Met(h)
      BY <1>3
    <3>3. f.id = h.id
      BY <1>2, <2>4, <3>1, <3>2 DEF Same
    <3>4. f = h
      BY <3>3 DEF CallsTyped
    <3>5. QED
      BY <3>1, <3>2, <3>4
  <2>5. \A e, g \in calls' : e.id = g.id => e = g
    BY <2>4
  <2>6. \A e \in calls' : BackFits(e.kind, e.back)
    BY <1>2, <1>3 DEF Same, CallsTyped
  <2>7. QED
    BY <2>1, <2>2, <2>3, <2>5, <2>6 DEF CallsTyped
<1>6. QED
  BY <1>2, <1>3, <1>4, <1>5

-----------------------------------------------------------------------------
(* The page of a game: the mode it would send, and the types of a step.    *)

LEMMA ResolvedTyped ==
  PageData => \A type \in LayoutTypes, am \in AdModes, ap \in AdPositions :
    /\ ResolvedLayout(type, am, ap) \in BoardLayouts
    /\ BuiltModeWith(type, am, ap) \in PageModes
    /\ BuiltModeWith(type, am, ap).layout = ResolvedLayout(type, am, ap)
<1> SUFFICES ASSUME PageData, NEW type \in LayoutTypes, NEW am \in AdModes, NEW ap \in AdPositions
             PROVE  /\ ResolvedLayout(type, am, ap) \in BoardLayouts
                    /\ BuiltModeWith(type, am, ap) \in PageModes
                    /\ BuiltModeWith(type, am, ap).layout = ResolvedLayout(type, am, ap)
  OBVIOUS
<1>1. hydrated.ads \in BOOLEAN /\ ads \in BOOLEAN /\ FALSE \in BOOLEAN /\ hydrated \in BoardLayouts
      /\ shown.branding \in BOOLEAN /\ shown \in PageFields /\ sport \in Sports
  BY DEF PageData, BoardLayouts, PageFields
<1>2. NoBoardLayout \in BoardLayouts
  BY <1>1 DEF NoBoardLayout, BoardLayouts, LayoutTypes, AdModes
<1>3. ResolvedLayout(type, am, ap) \in BoardLayouts
  <2>1. PICK flag \in BOOLEAN : flag = IF media # "loaded" \/ (~ads /\ hydrated.ads) THEN hydrated.ads ELSE ads
    BY <1>1
  <2>2. PICK behaviour \in AdModes \cup AdPositions : behaviour = IF type = "two-panel" THEN ap ELSE am
    OBVIOUS
  <2>3. [type |-> type, ads |-> flag, behaviour |-> behaviour] \in BoardLayouts
    BY DEF BoardLayouts
  <2>4. ResolvedLayout(type, am, ap) \in {NoBoardLayout, [type |-> type, ads |-> flag, behaviour |-> behaviour]}
    BY <2>1, <2>2 DEF ResolvedLayout
  <2>5. QED
    BY <1>2, <2>3, <2>4
<1>4. PICK layout \in BoardLayouts : layout = ResolvedLayout(type, am, ap)
  BY <1>3
<1>5. PICK branded \in BOOLEAN : branded = (shown.preview # "regular" /\ shown.branding)
  <2>1. (shown.preview # "regular" /\ shown.branding) \in BOOLEAN
    BY Zenon
  <2>2. QED
    BY <2>1
<1>6. CASE sport = "basketball"
  <2>1. BuiltModeWith(type, am, ap)
          = [sport |-> "basketball", preview |-> shown.preview, branding |-> branded, layout |-> layout]
    BY <1>4, <1>5, <1>6 DEF BuiltModeWith, BasketballMode
  <2>2. QED
    BY <1>1, <1>4, <2>1 DEF PageModes, PageFields, Sports
<1>7. CASE sport # "basketball"
  <2>1. BuiltModeWith(type, am, ap)
          = [sport |-> sport, preview |-> "regular", branding |-> shown.branding, layout |-> layout]
    BY <1>4, <1>7 DEF BuiltModeWith, SportMode
  <2>2. QED
    BY <1>1, <1>4, <2>1 DEF PageModes
<1>8. QED
  BY <1>6, <1>7

ModeBuilt == /\ BuiltMode \in PageModes /\ BuiltMode # NoPageMode
             /\ BuiltMode.layout = ResolvedLayout(shown.layout, shown.adMode, shown.adPosition)

LEMMA BuiltTyped == PageData => ModeBuilt
<1> SUFFICES ASSUME PageData PROVE ModeBuilt
  OBVIOUS
<1>1. shown.layout \in LayoutTypes /\ shown.adMode \in AdModes /\ shown.adPosition \in AdPositions
  BY DEF PageData, PageFields
<1>2. BuiltMode \in PageModes /\ BuiltMode.layout = ResolvedLayout(shown.layout, shown.adMode, shown.adPosition)
  BY <1>1, ResolvedTyped DEF BuiltMode
<1>3. BuiltMode.sport \in Sports /\ NoPageMode.sport = "none" /\ "none" \notin Sports
  BY <1>2 DEF PageModes, NoPageMode, Sports
<1>4. QED
  BY <1>2, <1>3 DEF ModeBuilt

LEMMA BuiltTypedNext == PageData' => ModeBuilt'
  BY BuiltTyped, PTL

LEMMA ScheduledTyped == PageData' /\ ScheduleMode => pendingMode' \in PageModes \cup {NoPageMode}
  BY BuiltTypedNext DEF ScheduleMode, ModeBuilt

LEMMA PreviewTyped ==
  ASSUME PageData, NEW p \in {"regular", "scoreboard"}, sport = "basketball"
  PROVE  BasketballMode(p, shown.layout, shown.adMode, shown.adPosition) \in PageModes
<1>1. PICK branded \in BOOLEAN : branded = (p # "regular" /\ shown.branding)
  <2>1. (p # "regular" /\ shown.branding) \in BOOLEAN
    BY Zenon
  <2>2. QED
    BY <2>1
<1>2. PICK layout \in BoardLayouts : layout = ResolvedLayout(shown.layout, shown.adMode, shown.adPosition)
  BY ResolvedTyped DEF PageData, PageFields
<1>3. BasketballMode(p, shown.layout, shown.adMode, shown.adPosition)
        = [sport |-> "basketball", preview |-> p, branding |-> branded, layout |-> layout]
  BY <1>1, <1>2 DEF BasketballMode
<1>4. QED
  BY <1>3 DEF PageModes, Sports

LEMMA TimerFacts ==
  ASSUME NEW t \in Timers
  PROVE  /\ \A r \in BOOLEAN : [t EXCEPT !.running = r] \in Timers /\ [t EXCEPT !.running = r].running = r
         /\ \A n \in 0..MaxScore : [t EXCEPT !.score = n] \in Timers /\ [t EXCEPT !.score = n].running = t.running
         /\ \A w \in {"full", "set"} : [t EXCEPT !.time = w] \in Timers /\ [t EXCEPT !.time = w].running = t.running
  BY DEF Timers

LEMMA PressedTimers ==
  ASSUME clock \in Timers
  PROVE  /\ DefaultTimer \in Timers /\ SetClock \in Timers /\ SetClock.running = clock.running
         /\ \A up \in BOOLEAN : Scored(up) \in Timers /\ Scored(up).running = clock.running
<1>1. MaxScore \in Nat \ {0} /\ FALSE \in BOOLEAN
  BY ControlPageAssumption
<1>2. DefaultTimer \in Timers
  BY <1>1 DEF DefaultTimer, Timers
<1>3. PICK w \in {"full", "set"} : w = IF clock.time = "full" THEN "set" ELSE "full"
  OBVIOUS
<1>4. SetClock = [clock EXCEPT !.time = w]
  BY <1>3 DEF SetClock
<1>5. SetClock \in Timers /\ SetClock.running = clock.running
  BY <1>4, TimerFacts
<1>6. ASSUME NEW up \in BOOLEAN PROVE Scored(up) \in Timers /\ Scored(up).running = clock.running
  <2>1. clock.score \in 0..MaxScore
    BY DEF Timers
  <2>2. PICK n \in 0..MaxScore :
          n = IF up THEN IF clock.score = MaxScore THEN clock.score ELSE clock.score + 1
                    ELSE IF clock.score = 0 THEN 0 ELSE clock.score - 1
    BY <1>1, <2>1
  <2>3. Scored(up) = [clock EXCEPT !.score = n]
    BY <2>2 DEF Scored
  <2>4. [clock EXCEPT !.score = n] \in Timers /\ [clock EXCEPT !.score = n].running = clock.running
    BY <1>1, <2>2 DEF Timers
  <2>5. QED
    BY <2>3, <2>4
<1>7. QED
  BY <1>2, <1>5, <1>6

\* A press for the timer: one request with the mode of the page, and a score
\* or a time of basketball leaves the clock as the page believes it.
LEMMA TimerPressed ==
  ASSUME ControlTypeInv, PressTimer
  PROVE  /\ \E k \in TimerKinds, t \in Timers :
              /\ SendCall(k, BuiltMode, t, "full")
              /\ clock' \in {clock, t}
              /\ sport = "basketball" /\ k \notin ClockKinds =>
                   t.running = clock.running /\ clock'.running = clock.running
         /\ UNCHANGED timerPressKeeps /\ presses' \in 0..MaxPresses
         /\ BasketballShowsControls \/ SportShowsControls
<1>0. /\ clock \in Timers /\ clock.running \in BOOLEAN /\ TRUE \in BOOLEAN /\ FALSE \in BOOLEAN
  BY DEF ControlTypeInv, ControlRest, Timers
<1>1. /\ DefaultTimer \in Timers /\ SetClock \in Timers /\ SetClock.running = clock.running
      /\ \A up \in BOOLEAN : Scored(up) \in Timers /\ Scored(up).running = clock.running
  BY <1>0, PressedTimers
<1>2. {"score", "time", "start", "pause", "reset"} = TimerKinds /\ {"start", "pause", "reset"} = ClockKinds
  BY DEF TimerKinds, ClockKinds
<1>3. ASSUME Press PROVE presses' \in 0..MaxPresses /\ (BasketballShowsControls \/ SportShowsControls)
  <2>1. presses \in 0..MaxPresses /\ MaxPresses \in Nat
    BY ControlPageAssumption DEF ControlTypeInv, ControlRest
  <2>2. QED
    BY <1>3, <2>1 DEF Press
<1>4. ASSUME NEW k \in {"score", "time"}, NEW t \in Timers, t.running = clock.running, CommitTimer(k, t)
      PROVE  /\ SendCall(k, BuiltMode, t, "full") /\ clock' = t
             /\ UNCHANGED timerPressKeeps /\ Press
  BY <1>4 DEF CommitTimer, SendTimer
<1>5. ASSUME NEW k \in {"score", "time"}, NEW t \in Timers, UpdateTimer(k, t)
      PROVE  \E s \in Timers : /\ SendCall(k, BuiltMode, s, "full") /\ clock' = s
                               /\ UNCHANGED timerPressKeeps /\ Press /\ sport # "basketball"
  <2>1. PICK s \in Timers : s = [t EXCEPT !.running = FALSE]
    BY <1>0, TimerFacts
  <2>2. QED
    BY <1>5, <2>1 DEF UpdateTimer, SendTimer
<1>6. ASSUME NEW k \in ClockKinds, NEW t \in Timers, ClockCommand(k, t)
      PROVE  SendCall(k, BuiltMode, t, "full") /\ clock' = clock /\ UNCHANGED timerPressKeeps /\ Press
  BY <1>6 DEF ClockCommand, SendTimer
<1>7. ASSUME StartClock \/ PauseClock \/ ResetGame
      PROVE  \E k \in ClockKinds, t \in Timers : ClockCommand(k, t)
  <2>1. PICK s \in Timers : s = [clock EXCEPT !.running = TRUE]
    BY <1>0, TimerFacts
  <2>2. PICK p \in Timers : p = [clock EXCEPT !.running = FALSE]
    BY <1>0, TimerFacts
  <2>3. QED
    BY <1>1, <1>2, <1>7, <2>1, <2>2 DEF StartClock, PauseClock, ResetGame
<1>8. ASSUME PressBasketball PROVE \E k \in {"score", "time"}, t \in Timers : t.running = clock.running /\ CommitTimer(k, t)
  BY <1>1, <1>8 DEF PressBasketball
<1>9. ASSUME PressSport PROVE \E k \in {"score", "time"}, t \in Timers : UpdateTimer(k, t)
  BY <1>1, <1>9 DEF PressSport
<1>10. CASE PressBasketball
  <2>1. PICK k \in {"score", "time"}, t \in Timers : t.running = clock.running /\ CommitTimer(k, t)
    BY <1>8, <1>10
  <2>2. k \in TimerKinds
    BY <1>2
  <2>3. QED
    BY <1>3, <1>4, <2>1, <2>2
<1>11. CASE PressSport
  <2>1. PICK k \in {"score", "time"}, t \in Timers : UpdateTimer(k, t)
    BY <1>9, <1>11
  <2>2. k \in TimerKinds
    BY <1>2
  <2>3. QED
    BY <1>3, <1>5, <2>1, <2>2
<1>12. CASE StartClock \/ PauseClock \/ ResetGame
  <2>1. PICK k \in ClockKinds, t \in Timers : ClockCommand(k, t)
    BY <1>7, <1>12
  <2>2. k \in TimerKinds
    BY <1>2
  <2>3. QED
    BY <1>3, <1>6, <2>1, <2>2
<1>13. QED
  BY <1>10, <1>11, <1>12 DEF PressTimer

PressLayout ==
  \/ \E type \in LayoutTypes : ChangeLayoutType(type)
  \/ \E adMode \in AdModes : ChangeAdMode(adMode)
  \/ \E position \in AdPositions : ChangeAdPosition(position)

\* A change of the layout: shown at once, and its mode is the page's mode
\* with the change.
LEMMA LayoutPressed ==
  ASSUME ControlTypeInv, PressLayout
  PROVE  /\ shown' \in PageFields
         /\ \E k \in LayoutKinds, back \in Backs :
              /\ BackFits(k, back) /\ SendCall(k, BuiltMode', DefaultTimer, back)
              /\ \/ /\ k = "layout" /\ back = shown.layout
                    /\ shown'.layout # "full" => media # "loading" /\ ActiveAds
                 \/ k # "layout" /\ shown'.layout = shown.layout
         /\ ~saving /\ saving' = TRUE /\ pendingMode' = NoPageMode /\ presses' \in 0..MaxPresses
         /\ UNCHANGED <<fixedCP, loadVarsCP, hydrated, clock, uploading, stored, historyCP>>
         /\ BasketballShowsControls \/ SportShowsControls
<1>0. shown \in PageFields /\ LayoutKinds = {"layout", "adMode", "adPosition"}
  BY DEF ControlTypeInv, PageData, LayoutKinds
<1>3. ASSUME Press PROVE presses' \in 0..MaxPresses /\ (BasketballShowsControls \/ SportShowsControls)
  <2>1. presses \in 0..MaxPresses /\ MaxPresses \in Nat
    BY ControlPageAssumption DEF ControlTypeInv, ControlRest
  <2>2. QED
    BY <1>3, <2>1 DEF Press
<1>a. ASSUME UNCHANGED <<fixedCP, loadVarsCP, hydrated>>, NEW s \in PageFields, shown' = s,
             s.preview = shown.preview, s.branding = shown.branding
      PROVE  BuiltMode' = BuiltModeWith(s.layout, s.adMode, s.adPosition)
  BY <1>a DEF BuiltMode, BuiltModeWith, BasketballMode, SportMode, ResolvedLayout, fixedCP, loadVarsCP
<1>4. ASSUME NEW type \in LayoutTypes, ChangeLayoutType(type)
      PROVE  /\ shown' \in PageFields /\ SendCall("layout", BuiltMode', DefaultTimer, shown.layout)
             /\ shown'.layout # "full" => media # "loading" /\ ActiveAds
             /\ ~saving /\ saving' = TRUE /\ pendingMode' = NoPageMode /\ Press
             /\ UNCHANGED <<fixedCP, loadVarsCP, hydrated, clock, uploading, stored, historyCP>>
  <2>1. PICK s : s = [shown EXCEPT !.layout = type]
    OBVIOUS
  <2>2. /\ s \in PageFields /\ s.layout = type /\ s.adMode = shown.adMode /\ s.adPosition = shown.adPosition
        /\ s.preview = shown.preview /\ s.branding = shown.branding
    BY <1>0, <2>1 DEF PageFields
  <2>3. shown' = s /\ UNCHANGED <<fixedCP, loadVarsCP, hydrated, clock, uploading, stored, historyCP>>
    BY <1>4, <2>1 DEF ChangeLayoutType
  <2>4. BuiltMode' = BuiltModeWith(type, shown.adMode, shown.adPosition)
    BY <1>a, <2>2, <2>3
  <2>5. SendCall("layout", BuiltMode', DefaultTimer, shown.layout)
    BY <1>4, <2>4 DEF ChangeLayoutType, SendMode
  <2>6. /\ shown'.layout # "full" => media # "loading" /\ ActiveAds
        /\ ~saving /\ saving' = TRUE /\ pendingMode' = NoPageMode /\ Press
    BY <1>4, <2>2, <2>3 DEF ChangeLayoutType, LayoutOffered
  <2>7. QED
    BY <2>2, <2>3, <2>5, <2>6
<1>5. ASSUME NEW am \in AdModes, ChangeAdMode(am)
      PROVE  /\ shown' \in PageFields /\ SendCall("adMode", BuiltMode', DefaultTimer, shown.adMode)
             /\ shown'.layout = shown.layout
             /\ ~saving /\ saving' = TRUE /\ pendingMode' = NoPageMode /\ Press
             /\ UNCHANGED <<fixedCP, loadVarsCP, hydrated, clock, uploading, stored, historyCP>>
  <2>1. PICK s : s = [shown EXCEPT !.adMode = am]
    OBVIOUS
  <2>2. /\ s \in PageFields /\ s.layout = shown.layout /\ s.adMode = am /\ s.adPosition = shown.adPosition
        /\ s.preview = shown.preview /\ s.branding = shown.branding
    BY <1>0, <2>1 DEF PageFields
  <2>3. shown' = s /\ UNCHANGED <<fixedCP, loadVarsCP, hydrated, clock, uploading, stored, historyCP>>
    BY <1>5, <2>1 DEF ChangeAdMode
  <2>6. shown.layout = "three-panel" /\ ~saving /\ saving' = TRUE /\ pendingMode' = NoPageMode /\ Press
    BY <1>5 DEF ChangeAdMode, AdModeOffered
  <2>4. BuiltMode' = BuiltModeWith("three-panel", am, shown.adPosition)
    BY <1>a, <2>2, <2>3, <2>6
  <2>5. SendCall("adMode", BuiltMode', DefaultTimer, shown.adMode)
    BY <1>5, <2>4 DEF ChangeAdMode, SendMode
  <2>7. QED
    BY <2>2, <2>3, <2>5, <2>6
<1>6. ASSUME NEW ap \in AdPositions, ChangeAdPosition(ap)
      PROVE  /\ shown' \in PageFields /\ SendCall("adPosition", BuiltMode', DefaultTimer, shown.adPosition)
             /\ shown'.layout = shown.layout
             /\ ~saving /\ saving' = TRUE /\ pendingMode' = NoPageMode /\ Press
             /\ UNCHANGED <<fixedCP, loadVarsCP, hydrated, clock, uploading, stored, historyCP>>
  <2>1. PICK s : s = [shown EXCEPT !.adPosition = ap]
    OBVIOUS
  <2>2. /\ s \in PageFields /\ s.layout = shown.layout /\ s.adMode = shown.adMode /\ s.adPosition = ap
        /\ s.preview = shown.preview /\ s.branding = shown.branding
    BY <1>0, <2>1 DEF PageFields
  <2>3. shown' = s /\ UNCHANGED <<fixedCP, loadVarsCP, hydrated, clock, uploading, stored, historyCP>>
    BY <1>6, <2>1 DEF ChangeAdPosition
  <2>6. shown.layout = "two-panel" /\ ~saving /\ saving' = TRUE /\ pendingMode' = NoPageMode /\ Press
    BY <1>6 DEF ChangeAdPosition, AdPositionOffered
  <2>4. BuiltMode' = BuiltModeWith("two-panel", shown.adMode, ap)
    BY <1>a, <2>2, <2>3, <2>6
  <2>5. SendCall("adPosition", BuiltMode', DefaultTimer, shown.adPosition)
    BY <1>6, <2>4 DEF ChangeAdPosition, SendMode
  <2>7. QED
    BY <2>2, <2>3, <2>5, <2>6
<1>7. /\ {shown.layout, shown.adMode, shown.adPosition} \subseteq Backs
      /\ BackFits("layout", shown.layout) /\ BackFits("adMode", shown.adMode)
      /\ BackFits("adPosition", shown.adPosition)
  BY <1>0 DEF PageFields, Backs, BackFits
<1>8. CASE \E type \in LayoutTypes : ChangeLayoutType(type)
  BY <1>0, <1>3, <1>4, <1>7, <1>8
<1>9. CASE \E adMode \in AdModes : ChangeAdMode(adMode)
  BY <1>0, <1>3, <1>5, <1>7, <1>9
<1>10. CASE \E position \in AdPositions : ChangeAdPosition(position)
  BY <1>0, <1>3, <1>6, <1>7, <1>10
<1>11. QED
  BY <1>8, <1>9, <1>10 DEF PressLayout

\* The edits that only start the timeout again.
PressEdit == EditBasketballBranding \/ EditSportBranding \/ UploadLogo \/ LogoUploaded

LEMMA EditFacts ==
  ASSUME ControlTypeInv, PressEdit
  PROVE  /\ shown' \in PageFields /\ uploading' \in BOOLEAN /\ presses' \in 0..MaxPresses
         /\ shown'.layout = shown.layout /\ shown'.adMode = shown.adMode /\ shown'.adPosition = shown.adPosition
         /\ UNCHANGED <<fixedCP, loadVarsCP, hydrated, clock, saving, netVarsCP, historyCP>>
         /\ ScheduleMode \/ UNCHANGED <<shown, pendingMode>>
<1>0. shown \in PageFields /\ uploading \in BOOLEAN /\ presses \in 0..MaxPresses /\ MaxPresses \in Nat
      /\ TRUE \in BOOLEAN /\ FALSE \in BOOLEAN
  BY ControlPageAssumption DEF ControlTypeInv, PageData, ControlRest
<1>1. PICK s : s = [shown EXCEPT !.branding = ~@]
  OBVIOUS
<1>2. s \in PageFields /\ s.layout = shown.layout /\ s.adMode = shown.adMode /\ s.adPosition = shown.adPosition
  BY <1>0, <1>1 DEF PageFields
<1>3. Press => presses' \in 0..MaxPresses
  BY <1>0 DEF Press
<1>4. CASE BrandingEdited
  BY <1>0, <1>1, <1>2, <1>3, <1>4 DEF BrandingEdited
<1>5. CASE UploadLogo
  BY <1>0, <1>3, <1>5 DEF UploadLogo
<1>6. CASE LogoUploaded
  <2>1. UNCHANGED <<fixedCP, loadVarsCP, hydrated, clock, saving, netVarsCP, presses, historyCP>> /\ uploading' = FALSE
    BY <1>6 DEF LogoUploaded
  <2>2. (shown' = s /\ ScheduleMode) \/ UNCHANGED <<shown, pendingMode>>
    BY <1>1, <1>6 DEF LogoUploaded
  <2>3. QED
    BY <1>0, <1>2, <2>1, <2>2
<1>7. QED
  BY <1>4, <1>5, <1>6 DEF PressEdit, EditBasketballBranding, EditSportBranding

\* What a failed command takes back.
LEMMA FailedFields ==
  ASSUME CallsTyped, shown \in PageFields, NEW c \in calls, FailCall(c)
  PROVE  /\ shown' \in PageFields
         /\ c.kind = "layout" => shown'.layout = c.back
         /\ c.kind # "layout" => shown'.layout = shown.layout
         /\ c.kind \notin LayoutKinds => shown' = shown
<1>1. LayoutKinds = {"layout", "adMode", "adPosition"}
  BY DEF LayoutKinds
<1>0. shown \in PageFields /\ BackFits(c.kind, c.back)
  BY DEF CallsTyped
<1>2. CASE c.kind = "layout"
  <2>1. shown' = [shown EXCEPT !.layout = c.back]
    BY <1>2 DEF FailCall
  <2>2. QED
    BY <1>0, <1>1, <1>2, <2>1 DEF PageFields, BackFits
<1>3. CASE c.kind = "adMode"
  <2>1. shown' = [shown EXCEPT !.adMode = c.back]
    BY <1>3 DEF FailCall
  <2>2. QED
    BY <1>0, <1>1, <1>3, <2>1 DEF PageFields, BackFits
<1>4. CASE c.kind = "adPosition"
  <2>1. shown' = [shown EXCEPT !.adPosition = c.back]
    BY <1>4 DEF FailCall
  <2>2. QED
    BY <1>0, <1>1, <1>4, <2>1 DEF PageFields, BackFits
<1>5. CASE c.kind \notin LayoutKinds
  <2>1. shown' = shown
    BY <1>1, <1>5 DEF FailCall
  <2>2. QED
    BY <1>1, <1>5, <2>1
<1>6. QED
  BY <1>1, <1>2, <1>3, <1>4, <1>5

DeviceLoads == BasketballDeviceLoads \/ SportDeviceLoads

\* What loading the record of the display brings.
LEMMA LoadFacts ==
  ASSUME ControlTypeInv, DeviceLoads
  PROVE  /\ stored[ThisBoard].timer \in Timers
         /\ shown' \in PageFields /\ shown'.layout = hydrated'.type
         /\ device = "loading" /\ device' = "loaded" /\ clock' = stored[ThisBoard].timer
         /\ hydrated' \in BoardLayouts /\ ScheduleMode
         /\ UNCHANGED <<fixedCP, media, ads, saving, uploading, netVarsCP, presses, historyCP>>
<1>1. shown \in PageFields /\ stored[ThisBoard] \in StoredBoards
  BY ControlPageAssumption DEF ControlTypeInv, PageData, ControlRest
<1>2. PICK mode \in PageModes \cup {IdleMode} : mode = stored[ThisBoard].mode
  BY <1>1 DEF StoredBoards
<1>3. mode.preview \in {"regular", "scoreboard"} /\ mode.branding \in BOOLEAN /\ mode.layout \in BoardLayouts
  <2>1. CASE mode = IdleMode
    BY <2>1 DEF IdleMode, NoBoardLayout, BoardLayouts, LayoutTypes, AdModes
  <2>2. CASE mode \in PageModes
    BY <2>2 DEF PageModes
  <2>3. QED
    BY <2>1, <2>2
<1>a. PICK layout \in BoardLayouts : layout = LoadedLayout
  BY <1>1, <1>2, <1>3 DEF LoadedLayout, StoredBoards
<1>4. layout.type \in LayoutTypes
  BY DEF BoardLayouts
<1>5. PICK am \in AdModes : am = LoadedAdMode(layout)
  BY DEF LoadedAdMode, AdModes
<1>6. PICK ap \in AdPositions : ap = LoadedAdPosition(layout)
  BY DEF LoadedAdPosition, AdPositions
<1>7. shown' \in PageFields /\ shown'.layout = layout.type
  <2>1. CASE BasketballDeviceLoads
    <3>1. shown' = [preview |-> mode.preview, branding |-> mode.branding, layout |-> layout.type,
                    adMode |-> am, adPosition |-> ap]
      BY <1>2, <1>a, <1>5, <1>6, <2>1 DEF BasketballDeviceLoads
    <3>2. QED
      BY <1>3, <1>4, <3>1 DEF PageFields
  <2>2. CASE SportDeviceLoads
    <3>1. shown' = [shown EXCEPT !.branding = mode.branding, !.layout = layout.type, !.adMode = am,
                                 !.adPosition = ap]
      BY <1>2, <1>a, <1>5, <1>6, <2>2 DEF SportDeviceLoads
    <3>2. PICK s : s = [shown EXCEPT !.branding = mode.branding]
      OBVIOUS
    <3>3. s \in PageFields
      BY <1>1, <1>3, <3>2 DEF PageFields
    <3>4. PICK t : t = [s EXCEPT !.layout = layout.type]
      OBVIOUS
    <3>5. t \in PageFields /\ t.layout = layout.type
      BY <1>4, <3>3, <3>4 DEF PageFields
    <3>6. PICK u : u = [t EXCEPT !.adMode = am]
      OBVIOUS
    <3>7. u \in PageFields /\ u.layout = t.layout
      BY <3>5, <3>6 DEF PageFields
    <3>8. shown' = [u EXCEPT !.adPosition = ap]
      BY <3>1, <3>2, <3>4, <3>6
    <3>9. QED
      BY <3>5, <3>7, <3>8 DEF PageFields
  <2>3. QED
    BY <2>1, <2>2 DEF DeviceLoads
<1>8. /\ device = "loading" /\ device' = "loaded" /\ clock' = stored[ThisBoard].timer
      /\ hydrated' = layout /\ ScheduleMode
      /\ UNCHANGED <<fixedCP, media, ads, saving, uploading, netVarsCP, presses, historyCP>>
  BY <1>a DEF DeviceLoads, BasketballDeviceLoads, SportDeviceLoads, HydrateFrom
<1>b. stored[ThisBoard].timer \in Timers
  BY <1>1 DEF StoredBoards
<1>9. QED
  BY <1>b, <1>7, <1>8

\* Switching the preview: the mode of the page with the change is sent, and
\* again by the effect when there is one.
LEMMA PreviewFacts ==
  ASSUME ControlTypeInv, NEW p \in {"regular", "scoreboard"}, SwitchPreview(p)
  PROVE  /\ BuiltMode' \in PageModes /\ SendCall("preview", BuiltMode', DefaultTimer, "full")
         /\ shown' \in PageFields /\ presses' \in 0..MaxPresses
         /\ shown'.layout = shown.layout /\ shown'.adMode = shown.adMode /\ shown'.adPosition = shown.adPosition
         /\ UNCHANGED <<fixedCP, loadVarsCP, hydrated, clock, saving, uploading, stored, historyCP>>
         /\ ScheduleMode \/ UNCHANGED <<shown, pendingMode>>
         /\ BasketballShowsControls \/ SportShowsControls
<1>0. shown \in PageFields /\ presses \in 0..MaxPresses /\ MaxPresses \in Nat
  BY ControlPageAssumption DEF ControlTypeInv, PageData, ControlRest
<1>1. PICK s : s = [shown EXCEPT !.preview = p]
  OBVIOUS
<1>2. /\ s \in PageFields /\ s.layout = shown.layout /\ s.adMode = shown.adMode /\ s.adPosition = shown.adPosition
      /\ s.preview = p /\ s.branding = shown.branding
  BY <1>0, <1>1 DEF PageFields
<1>3. /\ shown' = s /\ sport = "basketball" /\ Press
      /\ UNCHANGED <<fixedCP, loadVarsCP, hydrated, clock, saving, uploading, stored, historyCP>>
      /\ SendMode("preview", BasketballMode(p, shown.layout, shown.adMode, shown.adPosition), "full")
      /\ IF p = shown.preview THEN UNCHANGED pendingMode ELSE ScheduleMode
  BY <1>1 DEF SwitchPreview
<1>4. BuiltMode' = BasketballMode(p, shown.layout, shown.adMode, shown.adPosition)
  BY <1>2, <1>3 DEF BuiltMode, BuiltModeWith, BasketballMode, ResolvedLayout, fixedCP, loadVarsCP
<1>5. BuiltMode' \in PageModes
  BY <1>3, <1>4, PreviewTyped DEF ControlTypeInv
<1>6. ScheduleMode \/ UNCHANGED <<shown, pendingMode>>
  <2>1. CASE p = shown.preview
    <3>1. shown' = shown
      BY <1>0, <1>1, <1>3, <2>1 DEF PageFields
    <3>2. QED
      BY <1>3, <2>1, <3>1
  <2>2. QED
    BY <1>3, <2>1
<1>7. presses' \in 0..MaxPresses /\ (BasketballShowsControls \/ SportShowsControls)
  BY <1>0, <1>3 DEF Press
<1>8. QED
  BY <1>2, <1>3, <1>4, <1>5, <1>6, <1>7 DEF SendMode

LEMMA StepCases ==
  ASSUME ControlNext
  PROVE  \/ DeviceLoads \/ DeviceLoadFails \/ MediaLoads \/ FireModeUpdate \/ PressEdit
         \/ (\E p \in {"regular", "scoreboard"} : SwitchPreview(p)) \/ PressLayout \/ PressTimer
         \/ \E c \in calls : StoreCall(c) \/ AnswerCall(c) \/ FailCall(c)
  BY DEF ControlNext, DeviceLoads, PressEdit, PressLayout, PressMode

LEMMA CallFacts ==
  ASSUME CallsTyped, NEW c \in calls
  PROVE  /\ c \in PageCalls /\ c.id \in Nat /\ c.kind \in PageKinds /\ c.mode \in PageModes /\ c.timer \in Timers
         /\ c.mode.layout \in BoardLayouts /\ c.back \in Backs /\ c.after \in SUBSET Nat
         /\ c.stage \in {"sent", "stored"}
<1>1. c \in PageCalls
  BY DEF CallsTyped
<1>2. c.mode \in PageModes
  BY <1>1 DEF PageCalls
<1>3. QED
  BY <1>1, <1>2 DEF PageCalls, PageModes, PageKinds, Backs

LEMMA SendKinds ==
  /\ ModeKinds \subseteq PageKinds /\ TimerKinds \subseteq PageKinds /\ LayoutKinds \subseteq ModeKinds
  /\ ClockKinds \subseteq TimerKinds /\ ModeKinds \cap TimerKinds = {} /\ "full" \in Backs
  /\ {"effect", "preview"} \subseteq ModeKinds \ LayoutKinds
  /\ \A k \in PageKinds \ LayoutKinds : BackFits(k, "full")
  BY DEF BackFits, ModeKinds, PageKinds, TimerKinds, LayoutKinds, ClockKinds, Backs, LayoutTypes

LEMMA InitControlTypes == ControlInit => ControlTypeInv
<1> SUFFICES ASSUME ControlInit PROVE ControlTypeInv
  OBVIOUS
<1>0. TRUE \in BOOLEAN /\ FALSE \in BOOLEAN /\ MaxScore \in Nat \ {0} /\ MaxPresses \in Nat /\ MaxLosses \in Nat
  BY ControlPageAssumption
<1>1. PICK g \in Games :
        /\ sport = g.sport /\ selection = g.selection /\ capabilities = g.capabilities
        /\ LET layout == [NoBoardLayout EXCEPT !.type = g.layout, !.ads = g.layout # "full"]
           IN stored = [d \in Boards |->
                [timer |-> [score |-> 1, time |-> "set", running |-> g.running],
                 mode |-> IF g.idle THEN IdleMode
                          ELSE [sport |-> g.sport, preview |-> "regular", branding |-> FALSE, layout |-> layout],
                 preferred |-> layout]]
  BY DEF ControlInit
<1>2. /\ g.sport \in Sports /\ g.running \in BOOLEAN /\ g.selection \in SUBSET Boards
      /\ g.layout \in LayoutTypes
  BY ControlPageAssumption DEF Sports, LayoutTypes
<1>3. NoBoardLayout \in BoardLayouts
  BY <1>0 DEF NoBoardLayout, BoardLayouts, LayoutTypes, AdModes
<1>4. PICK flag \in BOOLEAN : flag = (g.layout # "full")
  BY <1>0
<1>5. PICK layout : layout = [NoBoardLayout EXCEPT !.type = g.layout, !.ads = g.layout # "full"]
  OBVIOUS
<1>6. layout = [type |-> g.layout, ads |-> flag, behaviour |-> "offset-timed"]
  BY <1>4, <1>5 DEF NoBoardLayout
<1>7. layout \in BoardLayouts
  BY <1>2, <1>6 DEF BoardLayouts, AdModes
<1>8. PICK timer \in Timers : timer = [score |-> 1, time |-> "set", running |-> g.running]
  <2>1. 1 \in 0..MaxScore
    BY <1>0
  <2>2. QED
    BY <1>2, <2>1 DEF Timers
<1>a. PICK game \in PageModes : game = [sport |-> g.sport, preview |-> "regular", branding |-> FALSE, layout |-> layout]
  BY <1>0, <1>2, <1>7 DEF PageModes
<1>9. PICK mode \in PageModes \cup {IdleMode} : mode = IF g.idle THEN IdleMode ELSE game
  OBVIOUS
<1>10. stored = [d \in Boards |-> [timer |-> timer, mode |-> mode, preferred |-> layout]]
  BY <1>1, <1>5, <1>8, <1>a, <1>9
<1>11. stored \in [Boards -> StoredBoards]
  BY <1>7, <1>10 DEF StoredBoards
<1>12. PageData
  <2>1. shown \in PageFields
    BY <1>0 DEF ControlInit, PageFields, LayoutTypes, AdModes, AdPositions
  <2>2. QED
    BY <1>0, <1>1, <1>2, <1>3, <2>1 DEF PageData, ControlInit
<1>13. CallsTyped
  <2>1. calls = {}
    BY DEF ControlInit
  <2>2. QED
    BY <2>1 DEF CallsTyped
<1>14. ControlRest
  <2>1. clock \in Timers
    BY <1>0 DEF ControlInit, DefaultTimer, Timers
  <2>2. /\ selection \in SUBSET Boards /\ device = "loading" /\ saving = FALSE /\ uploading = FALSE
        /\ modeUpset = FALSE /\ timerUpset = FALSE /\ pendingMode = NoPageMode /\ presses = 0 /\ losses = 0
    BY <1>1, <1>2 DEF ControlInit
  <2>3. 0 \in 0..MaxPresses /\ 0 \in 0..MaxLosses
    BY <1>0
  <2>4. QED
    BY <1>0, <1>11, <2>1, <2>2, <2>3 DEF ControlRest
<1>15. QED
  BY <1>12, <1>13, <1>14 DEF ControlTypeInv

LEMMA StepControlTypes == ControlTypeInv /\ [ControlNext]_controlVars => ControlTypeInv'
<1> SUFFICES ASSUME ControlTypeInv, [ControlNext]_controlVars PROVE ControlTypeInv'
  OBVIOUS
<1>0. PageData /\ CallsTyped /\ ControlRest
  BY DEF ControlTypeInv
<1>a. TRUE \in BOOLEAN /\ FALSE \in BOOLEAN /\ MaxLosses \in Nat /\ losses \in 0..MaxLosses
  BY <1>0, ControlPageAssumption DEF ControlRest
<1>b. (losses < MaxLosses /\ losses' = losses + 1) => losses' \in 0..MaxLosses
  BY <1>a
<1>c. DefaultTimer \in Timers
  BY <1>0, PressedTimers DEF ControlRest
<1>d. UNCHANGED <<calls>> => CallsTyped'
  BY <1>0 DEF CallsTyped
<1>1. CASE UNCHANGED controlVars
  BY <1>0, <1>1 DEF controlVars, fixedCP, loadVarsCP, netVarsCP, historyCP, ControlTypeInv, PageData, CallsTyped, ControlRest
<1>2. CASE DeviceLoads
  <2>1. /\ shown' \in PageFields /\ device' = "loaded" /\ clock' = stored[ThisBoard].timer
        /\ stored[ThisBoard].timer \in Timers /\ hydrated' \in BoardLayouts /\ ScheduleMode
        /\ UNCHANGED <<fixedCP, media, ads, saving, uploading, netVarsCP, presses, historyCP>>
    BY <1>2, LoadFacts
  <2>2. PageData'
    BY <1>0, <2>1 DEF PageData, fixedCP
  <2>3. pendingMode' \in PageModes \cup {NoPageMode}
    BY <2>1, <2>2, ScheduledTyped
  <2>4. ControlRest'
    BY <1>0, <2>1, <2>3 DEF ControlRest, fixedCP, netVarsCP, historyCP
  <2>5. QED
    BY <1>d, <2>1, <2>2, <2>4 DEF ControlTypeInv, netVarsCP
<1>3. CASE DeviceLoadFails
  <2>1. /\ device' = "failed" /\ losses' \in 0..MaxLosses
        /\ UNCHANGED <<fixedCP, media, ads, shown, hydrated, clock, pendingMode, saving,
                       uploading, netVarsCP, presses, modeUpset, timerUpset>>
    BY <1>3, <1>b DEF DeviceLoadFails
  <2>2. PageData'
    BY <1>0, <2>1 DEF PageData, fixedCP
  <2>3. ControlRest'
    BY <1>0, <2>1 DEF ControlRest, fixedCP, netVarsCP
  <2>4. QED
    BY <1>d, <2>1, <2>2, <2>3 DEF ControlTypeInv, netVarsCP
<1>4. CASE MediaLoads
  <2>1. /\ media' \in {"loaded", "failed"} /\ losses' \in 0..MaxLosses /\ ScheduleMode
        /\ UNCHANGED <<fixedCP, device, shown, hydrated, clock, saving, uploading, netVarsCP,
                       presses, modeUpset, timerUpset>>
    BY <1>4, <1>a, <1>b DEF MediaLoads
  <2>2. ads' \in BOOLEAN
    <3>1. ads \in BOOLEAN
      BY <1>0 DEF PageData
    <3>2. QED
      BY <1>4, <3>1 DEF MediaLoads
  <2>3. PageData'
    BY <1>0, <2>1, <2>2 DEF PageData, fixedCP
  <2>4. pendingMode' \in PageModes \cup {NoPageMode}
    BY <2>1, <2>3, ScheduledTyped
  <2>5. ControlRest'
    BY <1>0, <2>1, <2>4 DEF ControlRest, fixedCP, netVarsCP
  <2>6. QED
    BY <1>d, <2>1, <2>3, <2>5 DEF ControlTypeInv, netVarsCP
<1>5. CASE FireModeUpdate
  <2>1. /\ pendingMode' = NoPageMode /\ SendCall("effect", pendingMode, DefaultTimer, "full")
        /\ pendingMode \in PageModes
        /\ UNCHANGED <<fixedCP, loadVarsCP, shown, hydrated, clock, saving, uploading, stored,
                       presses, historyCP>>
    BY <1>0, <1>5 DEF FireModeUpdate, SendMode, ControlRest
  <2>2. CallsTyped'
    BY <1>0, <1>c, <2>1, SentCallFacts, SendKinds
  <2>3. PageData'
    BY <1>0, <2>1 DEF PageData, fixedCP, loadVarsCP
  <2>4. ControlRest'
    BY <1>0, <2>1 DEF ControlRest, fixedCP, loadVarsCP, historyCP
  <2>5. QED
    BY <2>2, <2>3, <2>4 DEF ControlTypeInv
<1>6. CASE PressEdit
  <2>1. /\ shown' \in PageFields /\ uploading' \in BOOLEAN /\ presses' \in 0..MaxPresses
        /\ UNCHANGED <<fixedCP, loadVarsCP, hydrated, clock, saving, netVarsCP, historyCP>>
        /\ ScheduleMode \/ UNCHANGED <<shown, pendingMode>>
    BY <1>6, EditFacts
  <2>2. PageData'
    BY <1>0, <2>1 DEF PageData, fixedCP, loadVarsCP
  <2>3. pendingMode' \in PageModes \cup {NoPageMode}
    BY <1>0, <2>1, <2>2, ScheduledTyped DEF ControlRest
  <2>4. ControlRest'
    BY <1>0, <2>1, <2>3 DEF ControlRest, fixedCP, loadVarsCP, netVarsCP, historyCP
  <2>5. QED
    BY <1>d, <2>1, <2>2, <2>4 DEF ControlTypeInv, netVarsCP
<1>7. ASSUME NEW p \in {"regular", "scoreboard"}, SwitchPreview(p) PROVE ControlTypeInv'
  <2>1. /\ BuiltMode' \in PageModes /\ SendCall("preview", BuiltMode', DefaultTimer, "full")
        /\ shown' \in PageFields /\ presses' \in 0..MaxPresses
        /\ UNCHANGED <<fixedCP, loadVarsCP, hydrated, clock, saving, uploading, stored, historyCP>>
        /\ ScheduleMode \/ UNCHANGED <<shown, pendingMode>>
    BY <1>7, PreviewFacts
  <2>2. CallsTyped'
    BY <1>0, <1>c, <2>1, SentCallFacts, SendKinds
  <2>3. PageData'
    BY <1>0, <2>1 DEF PageData, fixedCP, loadVarsCP
  <2>4. pendingMode' \in PageModes \cup {NoPageMode}
    BY <1>0, <2>1, <2>3, ScheduledTyped DEF ControlRest
  <2>5. ControlRest'
    BY <1>0, <2>1, <2>4 DEF ControlRest, fixedCP, loadVarsCP, historyCP
  <2>6. QED
    BY <2>2, <2>3, <2>5 DEF ControlTypeInv
<1>8. CASE PressLayout
  <2>1. /\ shown' \in PageFields /\ saving' = TRUE /\ pendingMode' = NoPageMode /\ presses' \in 0..MaxPresses
        /\ \E k \in LayoutKinds, back \in Backs : BackFits(k, back) /\ SendCall(k, BuiltMode', DefaultTimer, back)
        /\ UNCHANGED <<fixedCP, loadVarsCP, hydrated, clock, uploading, stored, historyCP>>
    BY <1>8, LayoutPressed
  <2>2. PageData'
    BY <1>0, <2>1 DEF PageData, fixedCP, loadVarsCP
  <2>3. BuiltMode' \in PageModes
    BY <2>2, BuiltTypedNext DEF ModeBuilt
  <2>4. CallsTyped'
    <3>1. PICK k \in LayoutKinds, back \in Backs : BackFits(k, back) /\ SendCall(k, BuiltMode', DefaultTimer, back)
      BY <2>1
    <3>2. QED
      BY <1>0, <1>c, <2>3, <3>1, SentCallFacts, SendKinds
  <2>5. ControlRest'
    BY <1>0, <1>a, <2>1 DEF ControlRest, fixedCP, loadVarsCP, historyCP
  <2>6. QED
    BY <2>2, <2>4, <2>5 DEF ControlTypeInv
<1>9. CASE PressTimer
  <2>1. PICK k \in TimerKinds, t \in Timers : SendCall(k, BuiltMode, t, "full") /\ clock' \in {clock, t}
    BY <1>9, TimerPressed
  <2>2. UNCHANGED timerPressKeeps /\ presses' \in 0..MaxPresses
    BY <1>9, TimerPressed
  <2>3. BuiltMode \in PageModes
    BY <1>0, BuiltTyped DEF ModeBuilt
  <2>4. CallsTyped'
    BY <1>0, <2>1, <2>3, SentCallFacts, SendKinds
  <2>5. PageData'
    BY <1>0, <2>2 DEF PageData, timerPressKeeps, fixedCP, loadVarsCP
  <2>6. clock' \in Timers
    BY <1>0, <2>1 DEF ControlRest
  <2>7. ControlRest'
    BY <1>0, <2>2, <2>6 DEF ControlRest, timerPressKeeps, fixedCP, loadVarsCP, historyCP
  <2>8. QED
    BY <2>4, <2>5, <2>7 DEF ControlTypeInv
<1>10. ASSUME NEW c \in calls, StoreCall(c) PROVE ControlTypeInv'
  <2>1. UNCHANGED <<fixedCP, loadVarsCP, shown, hydrated, clock, pendingMode, saving,
                    uploading, presses, losses, timerUpset>>
    BY <1>10 DEF StoreCall
  <2>2. CallsTyped'
    BY <1>0, <1>10, StoredCallFacts
  <2>3. PageData'
    BY <1>0, <2>1 DEF PageData, fixedCP, loadVarsCP
  <2>4. stored' \in [Boards -> StoredBoards]
    <3>1. stored \in [Boards -> StoredBoards] /\ c.mode \in PageModes /\ c.timer \in Timers
      BY <1>0, CallFacts DEF ControlRest
    <3>a. c.mode.layout \in BoardLayouts
      BY <3>1 DEF PageModes
    <3>2. \A d \in Boards : stored'[d] \in StoredBoards
      BY <1>10, <3>1, <3>a DEF StoreCall, StoredBoards
    <3>3. stored' = [d \in Boards |-> stored'[d]]
      BY <1>10 DEF StoreCall
    <3>4. QED
      BY <3>2, <3>3
  <2>5. modeUpset' \in BOOLEAN
    BY <1>10, Zenon DEF StoreCall
  <2>6. ControlRest'
    BY <1>0, <2>1, <2>4, <2>5 DEF ControlRest, fixedCP, loadVarsCP
  <2>7. QED
    BY <2>2, <2>3, <2>6 DEF ControlTypeInv
<1>11. ASSUME NEW c \in calls, AnswerCall(c) PROVE ControlTypeInv'
  <2>1. /\ calls' = Without(c)
        /\ clock' = IF c.kind \in TimerKinds THEN c.timer ELSE clock
        /\ hydrated' = IF c.kind \in LayoutKinds THEN c.mode.layout ELSE hydrated
        /\ UNCHANGED <<fixedCP, loadVarsCP, shown, pendingMode, uploading, stored, presses,
                       losses, modeUpset>>
    BY <1>11 DEF AnswerCall
  <2>2. CallsTyped'
    BY <1>0, <2>1, WithoutFacts
  <2>3. c.timer \in Timers /\ c.mode.layout \in BoardLayouts
    BY <1>0, CallFacts
  <2>4. PageData'
    BY <1>0, <2>1, <2>3 DEF PageData, fixedCP, loadVarsCP
  <2>5. saving' \in BOOLEAN
    BY <1>11, Zenon DEF AnswerCall
  <2>6. timerUpset' \in BOOLEAN
    <3>1. timerUpset \in BOOLEAN
      BY <1>0 DEF ControlRest
    <3>2. CASE c.kind \in TimerKinds
      BY <1>11, <3>2, Zenon DEF AnswerCall
    <3>3. CASE c.kind \notin TimerKinds
      <4>1. timerUpset' = timerUpset
        BY <1>11, <3>3 DEF AnswerCall
      <4>2. QED
        BY <3>1, <4>1
    <3>4. QED
      BY <3>2, <3>3
  <2>7. clock' \in Timers
    BY <1>0, <2>1, <2>3 DEF ControlRest
  <2>8. ControlRest'
    BY <1>0, <2>1, <2>5, <2>6, <2>7 DEF ControlRest, fixedCP, loadVarsCP
  <2>9. QED
    BY <2>2, <2>4, <2>8 DEF ControlTypeInv
<1>12. ASSUME NEW c \in calls, FailCall(c) PROVE ControlTypeInv'
  <2>1. /\ calls' = Without(c) /\ losses' \in 0..MaxLosses /\ modeUpset' = TRUE
        /\ UNCHANGED <<fixedCP, loadVarsCP, hydrated, clock, pendingMode, uploading, stored, presses>>
    BY <1>b, <1>12 DEF FailCall
  <2>2. CallsTyped'
    BY <1>0, <2>1, WithoutFacts
  <2>3. shown' \in PageFields
    BY <1>0, <1>12, FailedFields DEF PageData
  <2>4. PageData'
    BY <1>0, <2>1, <2>3 DEF PageData, fixedCP, loadVarsCP
  <2>5. saving' \in BOOLEAN /\ timerUpset' \in BOOLEAN
    BY <1>12, Zenon DEF FailCall
  <2>6. ControlRest'
    BY <1>0, <1>a, <2>1, <2>5 DEF ControlRest, fixedCP, loadVarsCP
  <2>7. QED
    BY <2>2, <2>4, <2>6 DEF ControlTypeInv
<1>13. QED
  BY <1>1, <1>2, <1>3, <1>4, <1>5, <1>6, <1>7, <1>8, <1>9, <1>10, <1>11, <1>12, StepCases

LEMMA ControlTypesHold == ControlSpec => []ControlTypeInv
<1>1. QED
  BY InitControlTypes, StepControlTypes, PTL DEF ControlSpec

\* Every field of the page and of its commands keeps its type, for any number
\* of displays, presses and failures (ControlTypeOK).
THEOREM ControlTypesCorrect == ControlSpec => []ControlTypeOK
<1>1. ControlTypeInv => ControlTypeOK
  <2> SUFFICES ASSUME ControlTypeInv PROVE ControlTypeOK
    OBVIOUS
  <2>1. PageData /\ CallsTyped /\ ControlRest
    BY DEF ControlTypeInv
  <2>2. \A c \in calls : /\ c.kind \in TimerKinds \cup ModeKinds /\ c.mode \in PageModes
                         /\ c.timer \in Timers /\ c.stage \in {"sent", "stored"}
                         /\ c.back \in LayoutTypes \cup AdModes \cup AdPositions
    BY <2>1, CallFacts DEF PageKinds, Backs
  <2>3. {ads, saving, uploading, modeUpset, timerUpset} \subseteq BOOLEAN
    BY <2>1 DEF PageData, ControlRest
  <2>4. QED
    BY <2>1, <2>2, <2>3 DEF ControlTypeOK, PageData, ControlRest, PageFields
<1>2. QED
  BY <1>1, ControlTypesHold, PTL

-----------------------------------------------------------------------------
(* The page of a game: its timer.                                          *)

\* Nothing is under way before the display is loaded, and no mode waits to
\* be sent before the advertisements have been asked for.
Opened ==
  /\ device = "loading" => calls = {}
  /\ sport = "basketball" /\ device # "loaded" => calls = {}
  /\ pendingMode # NoPageMode => device = "loaded" /\ media # "loading"

StoredTimers == {c \in calls : c.kind \in TimerKinds /\ c.stage = "stored"}

\* The timer stored last is that of a command whose answer knows that it
\* overtook all the others.
LastStored ==
  ~timerUpset /\ StoredTimers # {} =>
    \E l \in StoredTimers : /\ l.timer = stored[ThisBoard].timer
                            /\ \A c \in StoredTimers : c = l \/ c.id \in l.after

NoTimerCall == \A c \in calls : c.kind \notin TimerKinds
AllAlone == \A c \in calls : c.kind \in TimerKinds => c.alone

ClocksAgree == ~timerUpset /\ device = "loaded" /\ NoTimerCall => clock = stored[ThisBoard].timer

\* A command for the clock has touched every timer command under way, or none.
Uniform == \A c, e \in calls : c.kind \in TimerKinds /\ e.kind \in TimerKinds => c.alone = e.alone

\* While none has, the page, the server and every command agree on whether
\* the clock runs.
RunningAgrees ==
  sport = "basketball" /\ ~timerUpset /\ device = "loaded" /\ AllAlone =>
    /\ clock.running = stored[ThisBoard].timer.running
    /\ \A c \in calls : c.kind \in TimerKinds => c.timer.running = stored[ThisBoard].timer.running

TimerInv == LastStored /\ ClocksAgree /\ Uniform /\ RunningAgrees

LEMMA TimerKept ==
  ASSUME TimerInv, UNCHANGED <<calls, stored, clock, timerUpset, sport, device>>
  PROVE  TimerInv'
  BY DEF TimerInv, LastStored, StoredTimers, ClocksAgree, NoTimerCall, Uniform, RunningAgrees, AllAlone

\* A request that leaves, seen from the timer.
LEMMA TimerSent ==
  ASSUME ControlTypeInv, TimerInv, NEW k \in PageKinds, NEW m \in PageModes, NEW t \in Timers, NEW back \in Backs,
         BackFits(k, back), SendCall(k, m, t, back), UNCHANGED <<stored, timerUpset, sport, device>>,
         k \in TimerKinds \/ clock' = clock,
         sport = "basketball" /\ k \in TimerKinds /\ k \notin ClockKinds =>
           t.running = clock.running /\ clock'.running = clock.running
  PROVE  TimerInv'
<1>1. PICK n \in calls' :
        /\ n.kind = k /\ n.timer = t /\ n.stage = "sent"
        /\ n.alone = (k \notin ClockKinds /\ \A c \in calls : c.kind \in TimerKinds => c.alone)
        /\ \A e \in calls' \ {n} : \E c \in calls :
             Same(c, e) /\ e.after = c.after /\ e.alone = (c.alone /\ k \notin ClockKinds)
        /\ \A c \in calls : \E e \in calls' \ {n} : Same(c, e) /\ e.after = c.after
  BY SentCallFacts DEF ControlTypeInv
<1>2. LastStored'
  <2> SUFFICES ASSUME ~timerUpset', StoredTimers' # {}
               PROVE  \E l \in StoredTimers' : /\ l.timer = stored'[ThisBoard].timer
                                               /\ \A c \in StoredTimers' : c = l \/ c.id \in l.after
    BY DEF LastStored
  <2>1. \A e \in StoredTimers' : e \in calls' \ {n} /\ \E c \in StoredTimers : Same(c, e) /\ e.after = c.after
    BY <1>1 DEF StoredTimers, Same
  <2>2. \A c \in StoredTimers : \E e \in StoredTimers' : Same(c, e) /\ e.after = c.after
    BY <1>1 DEF StoredTimers, Same
  <2>3. PICK l \in StoredTimers : /\ l.timer = stored[ThisBoard].timer
                                  /\ \A c \in StoredTimers : c = l \/ c.id \in l.after
    BY <2>1 DEF TimerInv, LastStored
  <2>4. PICK g \in StoredTimers' : Same(l, g) /\ g.after = l.after
    BY <2>2
  <2>5. ASSUME NEW e \in StoredTimers' PROVE e = g \/ e.id \in g.after
    <3>1. PICK c \in StoredTimers : Same(c, e)
      BY <2>1
    <3>2. CASE c = l
      <4>1. e.id = g.id
        BY <2>4, <3>1, <3>2 DEF Same
      <4>2. CallsTyped'
        BY SentCallFacts DEF ControlTypeInv
      <4>3. QED
        BY <4>1, <4>2 DEF CallsTyped, StoredTimers
    <3>3. CASE c.id \in l.after
      BY <2>4, <3>1, <3>3 DEF Same
    <3>4. QED
      BY <2>3, <3>2, <3>3
  <2>6. QED
    BY <2>3, <2>4, <2>5 DEF Same
<1>3. NoTimerCall' => NoTimerCall /\ k \notin TimerKinds
  BY <1>1 DEF NoTimerCall, Same
<1>4. ClocksAgree'
  BY <1>3 DEF TimerInv, ClocksAgree
<1>5. AllAlone' /\ k \in TimerKinds => AllAlone /\ k \notin ClockKinds
  <2>1. n.alone => (k \notin ClockKinds /\ \A c \in calls : c.kind \in TimerKinds => c.alone)
    BY <1>1, Zenon
  <2>2. AllAlone' /\ k \in TimerKinds => n.alone
    BY <1>1 DEF AllAlone
  <2>3. QED
    BY <2>1, <2>2 DEF AllAlone
<1>6. k \notin TimerKinds => k \notin ClockKinds
  BY SendKinds
<1>7. \A e \in calls' \ {n} : \E c \in calls : Same(c, e) /\ (k \notin ClockKinds => e.alone = c.alone)
                                                 /\ (k \in ClockKinds => e.alone = FALSE)
  <2> TAKE e \in calls' \ {n}
  <2>1. PICK c \in calls : Same(c, e) /\ e.alone = (c.alone /\ k \notin ClockKinds)
    BY <1>1
  <2>2. c.alone \in BOOLEAN
    BY DEF ControlTypeInv, CallsTyped, PageCalls
  <2>3. k \notin ClockKinds => e.alone = c.alone
    <3>1. CASE c.alone = TRUE
      BY <2>1, <3>1, Zenon
    <3>2. CASE c.alone = FALSE
      BY <2>1, <3>2, Zenon
    <3>3. QED
      BY <2>2, <3>1, <3>2
  <2>4. k \in ClockKinds => e.alone = FALSE
    BY <2>1, Zenon
  <2>5. QED
    BY <2>1, <2>3, <2>4
<1>8. AllAlone' => AllAlone
  <2>1. CASE k \in TimerKinds
    BY <1>5, <2>1
  <2>2. ASSUME k \notin TimerKinds, AllAlone', NEW c \in calls, c.kind \in TimerKinds PROVE c.alone
    <3>1. PICK e \in calls' \ {n} : Same(c, e)
      BY <1>1
    <3>2. PICK d \in calls : Same(d, e) /\ e.alone = d.alone
      BY <1>6, <1>7, <2>2
    <3>3. d = c
      BY <3>1, <3>2 DEF Same, ControlTypeInv, CallsTyped
    <3>4. e.alone
      BY <2>2, <3>1 DEF AllAlone, Same
    <3>5. QED
      BY <3>2, <3>3, <3>4
  <2>3. QED
    BY <2>1, <2>2 DEF AllAlone
<1>9. Uniform'
  <2>1. CASE k \in ClockKinds
    <3>1. n.alone = FALSE
      BY <1>1, <2>1, Zenon
    <3>2. \A e \in calls' : e.alone = FALSE
      BY <1>7, <2>1, <3>1
    <3>3. QED
      BY <3>2 DEF Uniform
  <2>2. CASE k \notin ClockKinds
    <3>1. \A e \in calls' \ {n} : \E c \in calls : c.kind = e.kind /\ e.alone = c.alone
      BY <1>7, <2>2 DEF Same
    <3>2. \A c, d \in calls : c.kind \in TimerKinds /\ d.kind \in TimerKinds => c.alone = d.alone
      BY DEF TimerInv, Uniform
    <3>3. ASSUME NEW e \in calls' \ {n}, e.kind \in TimerKinds PROVE n.alone = e.alone
      <4>1. PICK c \in calls : c.kind = e.kind /\ e.alone = c.alone
        BY <3>1
      <4>2. c.alone \in BOOLEAN
        BY DEF ControlTypeInv, CallsTyped, PageCalls
      <4>3. CASE c.alone = TRUE
        <5>1. \A d \in calls : d.kind \in TimerKinds => d.alone
          BY <3>2, <3>3, <4>1, <4>3
        <5>2. n.alone = TRUE
          BY <1>1, <2>2, <5>1, Zenon
        <5>3. QED
          BY <4>1, <4>3, <5>2
      <4>4. CASE c.alone = FALSE
        <5>1. ~\A d \in calls : d.kind \in TimerKinds => d.alone
          BY <3>3, <4>1, <4>4
        <5>2. n.alone = FALSE
          BY <1>1, <5>1, Zenon
        <5>3. QED
          BY <4>1, <4>4, <5>2
      <4>5. QED
        BY <4>2, <4>3, <4>4
    <3>4. QED
      BY <3>1, <3>2, <3>3 DEF Uniform
  <2>3. QED
    BY <2>1, <2>2
<1>10. RunningAgrees'
  <2> SUFFICES ASSUME sport = "basketball", ~timerUpset, device = "loaded", AllAlone'
               PROVE  /\ clock'.running = stored[ThisBoard].timer.running
                      /\ \A e \in calls' : e.kind \in TimerKinds => e.timer.running = stored[ThisBoard].timer.running
    BY DEF RunningAgrees
  <2>1. /\ clock.running = stored[ThisBoard].timer.running
        /\ \A c \in calls : c.kind \in TimerKinds => c.timer.running = stored[ThisBoard].timer.running
    BY <1>8 DEF TimerInv, RunningAgrees
  <2>2. clock'.running = clock.running /\ (k \in TimerKinds => t.running = clock.running)
    BY <1>5
  <2>3. ASSUME NEW e \in calls', e.kind \in TimerKinds PROVE e.timer.running = stored[ThisBoard].timer.running
    <3>1. CASE e = n
      BY <1>1, <2>1, <2>2, <2>3, <3>1
    <3>2. CASE e # n
      <4>1. PICK c \in calls : Same(c, e)
        BY <1>1, <3>2
      <4>2. QED
        BY <2>1, <2>3, <4>1 DEF Same
    <3>3. QED
      BY <3>1, <3>2
  <2>4. QED
    BY <2>1, <2>2, <2>3
<1>11. QED
  BY <1>2, <1>4, <1>9, <1>10 DEF TimerInv

LEMMA HereIsTarget == ThisBoard \in ActiveTargets
  BY DEF ActiveTargets, IsSyncActive

LEMMA TimerStored ==
  ASSUME ControlTypeInv, TimerInv, NEW c \in calls, StoreCall(c)
  PROVE  TimerInv'
<1>1. PICK n \in calls' :
        /\ n.id = c.id /\ n.kind = c.kind /\ n.timer = c.timer /\ n.alone = c.alone /\ n.stage = "stored"
        /\ n.after = {e.id : e \in {f \in calls : f.stage = "stored" /\ f.kind \in TimerKinds}}
        /\ calls' = (calls \ {c}) \cup {n}
  BY StoredCallFacts DEF ControlTypeInv
<1>2. c.stage = "sent" /\ UNCHANGED <<sport, device, clock, timerUpset>>
  BY DEF StoreCall, fixedCP, loadVarsCP
<1>3. stored'[ThisBoard].timer = IF c.kind \in TimerKinds THEN c.timer ELSE stored[ThisBoard].timer
  BY HereIsTarget, ControlPageAssumption DEF StoreCall
<1>4. StoredTimers' = IF c.kind \in TimerKinds THEN StoredTimers \cup {n} ELSE StoredTimers
  <2>1. \A e : e \in StoredTimers' <=> (e \in StoredTimers \/ (e = n /\ c.kind \in TimerKinds))
    BY <1>1, <1>2 DEF StoredTimers
  <2>2. CASE c.kind \in TimerKinds
    BY <2>1, <2>2
  <2>3. CASE c.kind \notin TimerKinds
    BY <2>1, <2>3
  <2>4. QED
    BY <2>2, <2>3
<1>5. LastStored'
  <2>1. CASE c.kind \in TimerKinds
    <3>1. \A e \in StoredTimers : e.id \in n.after
      BY <1>1 DEF StoredTimers
    <3>2. n \in StoredTimers' /\ n.timer = stored'[ThisBoard].timer
      BY <1>1, <1>3, <1>4, <2>1
    <3>3. \A e \in StoredTimers' : e = n \/ e.id \in n.after
      BY <1>4, <2>1, <3>1
    <3>4. QED
      BY <3>2, <3>3 DEF LastStored
  <2>2. CASE c.kind \notin TimerKinds
    <3>1. StoredTimers' = StoredTimers /\ stored'[ThisBoard].timer = stored[ThisBoard].timer
      BY <1>3, <1>4, <2>2
    <3>2. QED
      BY <1>2, <3>1 DEF TimerInv, LastStored
  <2>3. QED
    BY <2>1, <2>2
<1>6. NoTimerCall' => NoTimerCall /\ c.kind \notin TimerKinds
  BY <1>1 DEF NoTimerCall
<1>7. ClocksAgree'
  BY <1>2, <1>3, <1>6 DEF TimerInv, ClocksAgree
<1>8. \A e \in calls' : \E f \in calls : f.kind = e.kind /\ f.alone = e.alone /\ f.timer = e.timer
  BY <1>1
<1>9. \A f \in calls : \E e \in calls' : f.kind = e.kind /\ f.alone = e.alone
  BY <1>1
<1>10. Uniform'
  BY <1>8 DEF TimerInv, Uniform
<1>11. AllAlone' => AllAlone
  BY <1>9 DEF AllAlone
<1>12. RunningAgrees'
  <2> SUFFICES ASSUME sport = "basketball", ~timerUpset, device = "loaded", AllAlone'
               PROVE  /\ clock'.running = stored'[ThisBoard].timer.running
                      /\ \A e \in calls' : e.kind \in TimerKinds => e.timer.running = stored'[ThisBoard].timer.running
    BY <1>2 DEF RunningAgrees
  <2>1. /\ clock.running = stored[ThisBoard].timer.running
        /\ \A e \in calls : e.kind \in TimerKinds => e.timer.running = stored[ThisBoard].timer.running
    BY <1>11 DEF TimerInv, RunningAgrees
  <2>2. stored'[ThisBoard].timer.running = stored[ThisBoard].timer.running
    BY <1>3, <2>1
  <2>3. QED
    BY <1>2, <1>8, <2>1, <2>2
<1>13. QED
  BY <1>5, <1>7, <1>10, <1>12 DEF TimerInv

\* The command leaves, and the page has taken its timer over or knows that it
\* has been misled.
LEMMA TimerAnswered ==
  ASSUME ControlTypeInv, TimerInv, NEW c \in calls, AnswerCall(c) \/ FailCall(c)
  PROVE  TimerInv'
<1>1. /\ calls' = Without(c) /\ UNCHANGED <<sport, device, stored>>
  BY DEF AnswerCall, FailCall, fixedCP, loadVarsCP
<1>0. CallsTyped /\ timerUpset \in BOOLEAN
  BY DEF ControlTypeInv, ControlRest
<1>2. /\ \A e \in calls' : \E f \in calls \ {c} : Same(f, e) /\ e.alone = f.alone /\ e.after = f.after \ {c.id}
      /\ \A f \in calls \ {c} : \E e \in calls' : Same(f, e) /\ e.alone = f.alone /\ e.after = f.after \ {c.id}
      /\ CallsTyped'
  BY <1>0, <1>1, WithoutFacts
<1>3. /\ \A e \in StoredTimers' : \E f \in StoredTimers \ {c} : Same(f, e) /\ e.after = f.after \ {c.id}
      /\ \A f \in StoredTimers \ {c} : \E e \in StoredTimers' : Same(f, e) /\ e.after = f.after \ {c.id}
  BY <1>2 DEF StoredTimers, Same
<1>4. Uniform'
  BY <1>2 DEF TimerInv, Uniform, Same
<1>a. ASSUME c.kind \in TimerKinds, ~timerUpset'
      PROVE  /\ AnswerCall(c) /\ clock' = c.timer /\ c \in StoredTimers
             /\ \/ c.timer = stored[ThisBoard].timer /\ NoTimerCall'
                \/ ~timerUpset /\ c.after = {}
  <2>1. AnswerCall(c)
    BY <1>a DEF FailCall
  <2>2. clock' = c.timer /\ c \in StoredTimers
    BY <1>a, <2>1 DEF AnswerCall, StoredTimers
  <2>3. timerUpset' = (/\ timerUpset \/ c.after # {}
                       /\ ~(/\ c.timer = stored[ThisBoard].timer
                            /\ \A x \in calls \ {c} : x.kind \notin TimerKinds))
    BY <1>a, <2>1 DEF AnswerCall
  <2>4. ~(timerUpset \/ c.after # {}) \/ (c.timer = stored[ThisBoard].timer /\ \A x \in calls \ {c} : x.kind \notin TimerKinds)
    BY <1>a, <2>3, Zenon
  <2>5. (\A x \in calls \ {c} : x.kind \notin TimerKinds) => NoTimerCall'
    BY <1>2 DEF NoTimerCall, Same
  <2>6. QED
    BY <2>1, <2>2, <2>4, <2>5
<1>b. ASSUME c.kind \notin TimerKinds PROVE UNCHANGED clock /\ (~timerUpset' => ~timerUpset)
  <2>1. CASE AnswerCall(c)
    BY <1>b, <2>1 DEF AnswerCall
  <2>2. CASE FailCall(c)
    <3>1. clock' = clock /\ timerUpset' = (timerUpset \/ c.kind \in TimerKinds)
      BY <2>2 DEF FailCall
    <3>2. ~timerUpset' => ~timerUpset
      BY <3>1, Zenon
    <3>3. QED
      BY <3>1, <3>2
  <2>3. QED
    BY <2>1, <2>2
\* The last one stored stays, unless it is the one that leaves and was the only one.
<1>5. ASSUME ~timerUpset', StoredTimers' # {}
      PROVE  ~timerUpset /\ \E l \in StoredTimers \ {c} : /\ l.timer = stored[ThisBoard].timer
                                                    /\ \A f \in StoredTimers : f = l \/ f.id \in l.after
  <2>1. ~timerUpset /\ (c.kind \in TimerKinds => c.after = {})
    <3>1. \E e \in calls' : e.kind \in TimerKinds
      BY <1>5 DEF StoredTimers
    <3>2. ~NoTimerCall'
      BY <3>1 DEF NoTimerCall
    <3>3. QED
      BY <1>a, <1>b, <1>5, <3>2
  <2>2. PICK f \in StoredTimers : f # c
    BY <1>3, <1>5
  <2>3. PICK l \in StoredTimers : /\ l.timer = stored[ThisBoard].timer
                                  /\ \A g \in StoredTimers : g = l \/ g.id \in l.after
    BY <2>1, <2>2 DEF TimerInv, LastStored
  <2>4. l # c
    BY <2>1, <2>2, <2>3 DEF StoredTimers
  <2>5. QED
    BY <2>1, <2>3, <2>4
<1>6. LastStored'
  <2> SUFFICES ASSUME ~timerUpset', StoredTimers' # {}
               PROVE  \E l \in StoredTimers' : /\ l.timer = stored[ThisBoard].timer
                                               /\ \A e \in StoredTimers' : e = l \/ e.id \in l.after
    BY <1>1 DEF LastStored
  <2>1. PICK l \in StoredTimers \ {c} : /\ l.timer = stored[ThisBoard].timer
                                        /\ \A f \in StoredTimers : f = l \/ f.id \in l.after
    BY <1>5
  <2>2. PICK g \in StoredTimers' : Same(l, g) /\ g.after = l.after \ {c.id}
    BY <1>3
  <2>3. ASSUME NEW e \in StoredTimers' PROVE e = g \/ e.id \in g.after
    <3>1. PICK f \in StoredTimers \ {c} : Same(f, e)
      BY <1>3
    <3>2. CASE f = l
      <4>1. e.id = g.id
        BY <2>2, <3>1, <3>2 DEF Same
      <4>2. QED
        BY <1>2, <4>1 DEF CallsTyped, StoredTimers
    <3>3. CASE f.id \in l.after
      <4>1. f.id # c.id
        BY <1>0, <3>1 DEF CallsTyped, StoredTimers
      <4>2. QED
        BY <2>2, <3>1, <3>3, <4>1 DEF Same
    <3>4. QED
      BY <2>1, <3>1, <3>2, <3>3
  <2>4. QED
    BY <2>1, <2>2, <2>3 DEF Same
<1>7. ASSUME ~timerUpset', device = "loaded", NoTimerCall' PROVE clock' = stored[ThisBoard].timer
  <2>1. CASE c.kind \in TimerKinds
    <3>1. CASE c.timer = stored[ThisBoard].timer
      BY <1>a, <1>7, <2>1, <3>1
    <3>2. CASE ~timerUpset /\ c.after = {}
      <4>1. StoredTimers \subseteq {c}
        BY <1>2, <1>7 DEF NoTimerCall, StoredTimers, Same
      <4>2. c \in StoredTimers
        BY <1>a, <1>7, <2>1
      <4>3. c.timer = stored[ThisBoard].timer
        BY <3>2, <4>1, <4>2 DEF TimerInv, LastStored
      <4>4. QED
        BY <1>a, <1>7, <2>1, <4>3
    <3>3. QED
      BY <1>a, <1>7, <2>1, <3>1, <3>2
  <2>2. CASE c.kind \notin TimerKinds
    <3>1. NoTimerCall
      BY <1>2, <1>7, <2>2 DEF NoTimerCall, Same
    <3>2. QED
      BY <1>b, <1>7, <2>2, <3>1 DEF TimerInv, ClocksAgree
  <2>3. QED
    BY <2>1, <2>2
<1>8. ClocksAgree'
  BY <1>1, <1>7 DEF ClocksAgree
<1>9. ASSUME sport = "basketball", ~timerUpset', device = "loaded", AllAlone', ~NoTimerCall'
      PROVE  /\ clock'.running = stored[ThisBoard].timer.running
             /\ \A e \in calls' : e.kind \in TimerKinds => e.timer.running = stored[ThisBoard].timer.running
  <2>1. PICK e \in calls' : e.kind \in TimerKinds
    BY <1>9 DEF NoTimerCall
  <2>2. PICK f \in calls : f.kind \in TimerKinds /\ f.alone
    BY <1>2, <1>9, <2>1 DEF Same, AllAlone
  <2>3. AllAlone
    BY <2>2 DEF TimerInv, Uniform, AllAlone
  <2>4. ~timerUpset
    BY <1>a, <1>b, <1>9
  <2>5. /\ clock.running = stored[ThisBoard].timer.running
        /\ \A g \in calls : g.kind \in TimerKinds => g.timer.running = stored[ThisBoard].timer.running
    BY <1>9, <2>3, <2>4 DEF TimerInv, RunningAgrees
  <2>6. clock'.running = stored[ThisBoard].timer.running
    BY <1>a, <1>b, <1>9, <2>5
  <2>7. \A g \in calls' : g.kind \in TimerKinds => g.timer.running = stored[ThisBoard].timer.running
    BY <1>2, <2>5 DEF Same
  <2>8. QED
    BY <2>6, <2>7
<1>10. RunningAgrees'
  <2> SUFFICES ASSUME sport = "basketball", ~timerUpset', device = "loaded", AllAlone'
               PROVE  /\ clock'.running = stored[ThisBoard].timer.running
                      /\ \A e \in calls' : e.kind \in TimerKinds => e.timer.running = stored[ThisBoard].timer.running
    BY <1>1 DEF RunningAgrees
  <2>1. CASE NoTimerCall'
    BY <1>7, <2>1 DEF NoTimerCall
  <2>2. QED
    BY <1>9, <2>1
<1>11. QED
  BY <1>4, <1>6, <1>8, <1>10 DEF TimerInv

LEMMA ScheduledLater == ScheduleMode /\ pendingMode' # NoPageMode => device' = "loaded" /\ media' # "loading"
  BY DEF ScheduleMode, AutoSends

LEMMA StepOpened == ControlTypeInv /\ Opened /\ [ControlNext]_controlVars => Opened'
<1> SUFFICES ASSUME ControlTypeInv, Opened, [ControlNext]_controlVars PROVE Opened'
  OBVIOUS
<1>a. (BasketballShowsControls \/ SportShowsControls) => device # "loading" /\ (sport = "basketball" => device = "loaded")
  BY DEF BasketballShowsControls, SportShowsControls
<1>b. ASSUME UNCHANGED <<sport, device, media>>, device # "loading", sport = "basketball" => device = "loaded",
             pendingMode' # NoPageMode => pendingMode' = pendingMode \/ ScheduleMode
      PROVE  Opened'
  BY <1>b, ScheduledLater DEF Opened
<1>1. CASE UNCHANGED controlVars
  BY <1>1 DEF controlVars, fixedCP, loadVarsCP, netVarsCP, Opened
<1>2. CASE DeviceLoads
  BY <1>2, LoadFacts, ScheduledLater DEF Opened, fixedCP, netVarsCP
<1>3. CASE DeviceLoadFails
  BY <1>3 DEF DeviceLoadFails, Opened, fixedCP, netVarsCP
<1>4. CASE MediaLoads
  <2>1. ScheduleMode /\ UNCHANGED <<sport, device, calls>>
    BY <1>4 DEF MediaLoads, fixedCP, netVarsCP
  <2>2. pendingMode' # NoPageMode => device' = "loaded" /\ media' # "loading"
    BY <2>1, ScheduledLater
  <2>3. QED
    BY <2>1, <2>2 DEF Opened
<1>5. CASE FireModeUpdate
  <2>1. pendingMode # NoPageMode /\ pendingMode' = NoPageMode /\ UNCHANGED <<sport, device, media>>
    BY <1>5 DEF FireModeUpdate, fixedCP, loadVarsCP
  <2>2. QED
    BY <2>1 DEF Opened
<1>6. CASE PressEdit
  <2>1. UNCHANGED <<sport, device, media, calls>>
    BY <1>6, EditFacts DEF fixedCP, loadVarsCP, netVarsCP
  <2>2. ScheduleMode \/ pendingMode' = pendingMode
    BY <1>6, EditFacts
  <2>3. QED
    BY <2>1, <2>2, ScheduledLater DEF Opened
<1>7. ASSUME NEW p \in {"regular", "scoreboard"}, SwitchPreview(p) PROVE Opened'
  <2>1. UNCHANGED <<sport, device, media>> /\ (BasketballShowsControls \/ SportShowsControls)
    BY <1>7, PreviewFacts DEF fixedCP, loadVarsCP
  <2>2. ScheduleMode \/ pendingMode' = pendingMode
    BY <1>7, PreviewFacts
  <2>3. QED
    BY <1>a, <1>b, <2>1, <2>2
<1>8. CASE PressLayout
  <2>1. UNCHANGED <<sport, device, media>> /\ (BasketballShowsControls \/ SportShowsControls) /\ pendingMode' = NoPageMode
    BY <1>8, LayoutPressed DEF fixedCP, loadVarsCP
  <2>2. QED
    BY <1>a, <1>b, <2>1
<1>9. CASE PressTimer
  <2>1. UNCHANGED <<sport, device, media, pendingMode>> /\ (BasketballShowsControls \/ SportShowsControls)
    BY <1>9, TimerPressed DEF timerPressKeeps, fixedCP, loadVarsCP
  <2>2. QED
    BY <1>a, <1>b, <2>1
<1>10. ASSUME NEW c \in calls, StoreCall(c) \/ AnswerCall(c) \/ FailCall(c) PROVE Opened'
  <2>1. UNCHANGED <<sport, device, media, pendingMode>>
    BY <1>10 DEF StoreCall, AnswerCall, FailCall, fixedCP, loadVarsCP
  <2>2. device # "loading" /\ (sport = "basketball" => device = "loaded")
    BY DEF Opened
  <2>3. QED
    BY <1>b, <2>1, <2>2
<1>11. QED
  BY <1>1, <1>2, <1>3, <1>4, <1>5, <1>6, <1>7, <1>8, <1>9, <1>10, StepCases

LEMMA StepTimerInv == ControlTypeInv /\ Opened /\ TimerInv /\ [ControlNext]_controlVars => TimerInv'
<1> SUFFICES ASSUME ControlTypeInv, Opened, TimerInv, [ControlNext]_controlVars PROVE TimerInv'
  OBVIOUS
<1>a. pendingMode \in PageModes \cup {NoPageMode} /\ DefaultTimer \in Timers
  BY PressedTimers DEF ControlTypeInv, ControlRest
<1>1. CASE UNCHANGED controlVars
  BY <1>1, TimerKept DEF controlVars, fixedCP, loadVarsCP, netVarsCP, historyCP
<1>2. CASE DeviceLoads
  <2>1. /\ clock' = stored[ThisBoard].timer /\ device = "loading"
        /\ UNCHANGED <<sport, calls, stored, timerUpset>>
    BY <1>2, LoadFacts DEF fixedCP, netVarsCP, historyCP
  <2>2. calls' = {} /\ stored' = stored
    BY <2>1 DEF Opened
  <2>3. QED
    BY <2>1, <2>2 DEF TimerInv, LastStored, StoredTimers, ClocksAgree, Uniform, RunningAgrees
<1>3. CASE DeviceLoadFails
  <2>1. device' = "failed" /\ device = "loading" /\ UNCHANGED <<sport, calls, stored, clock, timerUpset>>
    BY <1>3 DEF DeviceLoadFails, fixedCP, netVarsCP
  <2>2. calls' = {}
    BY <2>1 DEF Opened
  <2>3. QED
    BY <2>1, <2>2 DEF TimerInv, LastStored, StoredTimers, ClocksAgree, Uniform, RunningAgrees
<1>4. CASE MediaLoads
  BY <1>4, TimerKept DEF MediaLoads, fixedCP, netVarsCP
<1>5. CASE FireModeUpdate
  <2>1. /\ SendCall("effect", pendingMode, DefaultTimer, "full") /\ pendingMode \in PageModes
        /\ UNCHANGED <<stored, timerUpset, sport, device, clock>>
    BY <1>5, <1>a DEF FireModeUpdate, SendMode, fixedCP, loadVarsCP, historyCP
  <2>2. "effect" \in PageKinds /\ "effect" \notin TimerKinds /\ "full" \in Backs /\ BackFits("effect", "full")
    BY SendKinds
  <2>3. QED
    BY <1>a, <2>1, <2>2, TimerSent
<1>6. CASE PressEdit
  BY <1>6, EditFacts, TimerKept DEF fixedCP, loadVarsCP, netVarsCP, historyCP
<1>7. ASSUME NEW p \in {"regular", "scoreboard"}, SwitchPreview(p) PROVE TimerInv'
  <2>1. /\ BuiltMode' \in PageModes /\ SendCall("preview", BuiltMode', DefaultTimer, "full")
        /\ UNCHANGED <<stored, timerUpset, sport, device, clock>>
    BY <1>7, PreviewFacts DEF fixedCP, loadVarsCP, historyCP
  <2>2. "preview" \in PageKinds /\ "preview" \notin TimerKinds /\ "full" \in Backs /\ BackFits("preview", "full")
    BY SendKinds
  <2>3. PICK m \in PageModes : m = BuiltMode'
    BY <2>1
  <2>4. SendCall("preview", m, DefaultTimer, "full")
    BY <2>1, <2>3
  <2>5. QED
    BY <1>a, <2>1, <2>2, <2>4, TimerSent
<1>8. CASE PressLayout
  <2>1. UNCHANGED <<stored, timerUpset, sport, device, clock>>
    BY <1>8, LayoutPressed DEF fixedCP, loadVarsCP, historyCP
  <2>2. PICK k \in LayoutKinds, back \in Backs : BackFits(k, back) /\ SendCall(k, BuiltMode', DefaultTimer, back)
    BY <1>8, LayoutPressed
  <2>3. BuiltMode' \in PageModes
    <3>1. PageData'
      BY <1>8, LayoutPressed DEF ControlTypeInv, PageData, fixedCP, loadVarsCP
    <3>2. QED
      BY <3>1, BuiltTypedNext DEF ModeBuilt
  <2>4. PICK m \in PageModes : m = BuiltMode'
    BY <2>3
  <2>5. k \in PageKinds /\ k \notin TimerKinds
    BY SendKinds
  <2>6. SendCall(k, m, DefaultTimer, back)
    BY <2>2, <2>4
  <2>7. QED
    BY <1>a, <2>1, <2>2, <2>5, <2>6, TimerSent
<1>9. CASE PressTimer
  <2>1. PICK k \in TimerKinds, t \in Timers :
          /\ SendCall(k, BuiltMode, t, "full")
          /\ sport = "basketball" /\ k \notin ClockKinds => t.running = clock.running /\ clock'.running = clock.running
    BY <1>9, TimerPressed
  <2>2. UNCHANGED <<stored, timerUpset, sport, device>>
    BY <1>9, TimerPressed DEF timerPressKeeps, fixedCP, loadVarsCP, historyCP
  <2>3. PICK m \in PageModes : m = BuiltMode
    BY BuiltTyped DEF ControlTypeInv, ModeBuilt
  <2>4. k \in PageKinds /\ "full" \in Backs /\ BackFits(k, "full")
    BY SendKinds
  <2>5. SendCall(k, m, t, "full")
    BY <2>1, <2>3
  <2>6. QED
    BY <2>1, <2>2, <2>4, <2>5, TimerSent
<1>10. ASSUME NEW c \in calls, StoreCall(c) \/ AnswerCall(c) \/ FailCall(c) PROVE TimerInv'
  BY <1>10, TimerStored, TimerAnswered
<1>11. QED
  BY <1>1, <1>2, <1>3, <1>4, <1>5, <1>6, <1>7, <1>8, <1>9, <1>10, StepCases

LEMMA TimerInvariance == ControlSpec => [](ControlTypeInv /\ Opened /\ TimerInv)
<1>1. ControlInit => Opened /\ TimerInv
  <2> SUFFICES ASSUME ControlInit PROVE Opened /\ TimerInv
    OBVIOUS
  <2>1. calls = {} /\ device = "loading" /\ pendingMode = NoPageMode
    BY DEF ControlInit
  <2>2. QED
    BY <2>1 DEF Opened, TimerInv, LastStored, StoredTimers, ClocksAgree, Uniform, RunningAgrees
<1>2. QED
  BY <1>1, InitControlTypes, StepControlTypes, StepOpened, StepTimerInv, PTL DEF ControlSpec

\* Once nothing is under way the page shows the timer that is stored, for any
\* number of presses and every order of their commands and answers, unless a
\* command failed or an answer was overtaken (commitTimerUpdates,
\* updateTimerState and the answers they take over).
THEOREM PageTimerAgreement == ControlSpec => []PageTimerAgrees
<1>1. TimerInv => PageTimerAgrees
  BY DEF TimerInv, ClocksAgree, NoTimerCall, PageTimerAgrees, AtRest
<1>2. QED
  BY <1>1, TimerInvariance, PTL

\* A score of basketball leaves the clock of the display as it is, unless a
\* start, a pause or a reset met it or a command it met, or the page had been
\* misled (commitTimerUpdates sends the running flag the page holds).
THEOREM ScoresKeepTheClock == ControlSpec => ScoreKeepsTheClock
<1>1. ASSUME ControlTypeInv, Opened, TimerInv, ControlNext, NEW c \in calls,
             sport = "basketball", c.kind = "score", c.alone, ~timerUpset, StoreCall(c)
      PROVE  stored'[ThisBoard].timer.running = stored[ThisBoard].timer.running
  <2>1. c.kind \in TimerKinds
    BY <1>1 DEF TimerKinds
  <2>2. AllAlone
    BY <1>1, <2>1 DEF TimerInv, Uniform, AllAlone
  <2>3. device = "loaded"
    BY <1>1 DEF Opened
  <2>4. c.timer.running = stored[ThisBoard].timer.running
    BY <1>1, <2>1, <2>2, <2>3 DEF TimerInv, RunningAgrees
  <2>5. stored'[ThisBoard].timer = c.timer
    BY <1>1, <2>1, HereIsTarget, ControlPageAssumption DEF StoreCall
  <2>6. QED
    BY <2>4, <2>5
<1>2. ControlTypeInv /\ Opened /\ TimerInv /\ [ControlNext]_controlVars
        => [\A c \in calls :
             (/\ sport = "basketball" /\ c.kind = "score" /\ c.alone /\ ~timerUpset
              /\ StoreCall(c))
             => stored'[ThisBoard].timer.running = stored[ThisBoard].timer.running]_controlVars
  BY <1>1
<1>3. QED
  BY <1>2, TimerInvariance, PTL DEF ControlSpec, ScoreKeepsTheClock

-----------------------------------------------------------------------------
(* The page of a game: its layout.                                         *)

Resolved == ResolvedLayout(shown.layout, shown.adMode, shown.adPosition)

\* One command for the layout is under way at a time, and it carries what the
\* page shows.
OneLayout ==
  \A c \in calls : c.kind \in LayoutKinds =>
    /\ saving /\ \A e \in calls : e.kind \in LayoutKinds => e = c
    /\ shown.layout # "full" =>
         /\ media # "loaded" => c.mode.layout = Resolved
         /\ media = "loaded" /\ ~ads => c.mode.layout.ads = hydrated.ads

\* While the advertisements are not known, a board that is shown, or that a
\* failure returns to, has a stored layout to be built from.
BoardKept ==
  media # "loaded" =>
    /\ shown.layout # "full" => hydrated # NoBoardLayout
    /\ \A c \in calls : c.kind = "layout" /\ c.back # "full" => hydrated # NoBoardLayout

LayoutInv == OneLayout /\ BoardKept

LEMMA NoBoardFacts == NoBoardLayout.type = "full" /\ NoBoardLayout.ads = FALSE
  BY DEF NoBoardLayout

ResolvedFacts ==
  shown.layout # "full" =>
    /\ media # "loaded" /\ hydrated # NoBoardLayout => Resolved.ads = hydrated.ads /\ Resolved.type = shown.layout
    /\ media = "loaded" /\ ~ads => Resolved.ads = hydrated.ads

LEMMA ResolvedHolds == PageData => ResolvedFacts
<1> SUFFICES ASSUME PageData, shown.layout # "full"
             PROVE  /\ media # "loaded" /\ hydrated # NoBoardLayout =>
                         Resolved.ads = hydrated.ads /\ Resolved.type = shown.layout
                    /\ media = "loaded" /\ ~ads => Resolved.ads = hydrated.ads
  BY DEF ResolvedFacts
<1>1. hydrated.ads \in BOOLEAN /\ ads \in BOOLEAN
  BY DEF PageData, BoardLayouts
<1>2. CASE media # "loaded" /\ hydrated # NoBoardLayout
  BY <1>2 DEF Resolved, ResolvedLayout
<1>3. CASE media = "loaded" /\ ~ads
  <2>1. CASE hydrated.ads = TRUE
    <3>1. hydrated # NoBoardLayout
      BY <2>1, NoBoardFacts
    <3>2. QED
      BY <1>3, <2>1, <3>1 DEF Resolved, ResolvedLayout
  <2>2. CASE hydrated.ads = FALSE
    <3>1. Resolved.ads = ads
      BY <1>3, <2>2 DEF Resolved, ResolvedLayout
    <3>2. ads = FALSE
      BY <1>1, <1>3
    <3>3. QED
      BY <1>3, <2>2, <3>1, <3>2
  <2>3. QED
    BY <1>1, <2>1, <2>2
<1>4. QED
  BY <1>2, <1>3

LEMMA ResolvedHoldsNext == PageData' => ResolvedFacts'
  BY ResolvedHolds, PTL

LEMMA LayoutUntouched ==
  ASSUME CallsTyped', LayoutInv, UNCHANGED <<media, ads, hydrated>>, saving => saving',
         shown'.layout = shown.layout, shown'.adMode = shown.adMode, shown'.adPosition = shown.adPosition,
         \A e \in calls' : e.kind \in LayoutKinds => \E c \in calls : Same(c, e)
  PROVE  LayoutInv'
<1>1. Resolved' = Resolved
  BY DEF Resolved, ResolvedLayout
<1>2. ASSUME NEW e \in calls', e.kind \in LayoutKinds
      PROVE  /\ saving' /\ \A f \in calls' : f.kind \in LayoutKinds => f = e
             /\ shown'.layout # "full" =>
                  /\ media' # "loaded" => e.mode.layout = Resolved'
                  /\ media' = "loaded" /\ ~ads' => e.mode.layout.ads = hydrated'.ads
  <2>1. PICK c \in calls : Same(c, e)
    BY <1>2
  <2>2. c.kind \in LayoutKinds /\ e.mode = c.mode
    BY <1>2, <2>1 DEF Same
  <2>3. /\ saving /\ \A f \in calls : f.kind \in LayoutKinds => f = c
        /\ shown.layout # "full" =>
             /\ media # "loaded" => c.mode.layout = Resolved
             /\ media = "loaded" /\ ~ads => c.mode.layout.ads = hydrated.ads
    BY <2>2 DEF LayoutInv, OneLayout
  <2>4. ASSUME NEW f \in calls', f.kind \in LayoutKinds PROVE f = e
    <3>1. PICK g \in calls : Same(g, f)
      BY <2>4
    <3>2. g = c
      BY <2>3, <2>4, <3>1 DEF Same
    <3>3. f.id = e.id
      BY <2>1, <3>1, <3>2 DEF Same
    <3>4. QED
      BY <3>3 DEF CallsTyped
  <2>5. QED
    BY <1>1, <2>2, <2>3, <2>4
<1>3. BoardKept'
  <2>1. "layout" \in LayoutKinds
    BY DEF LayoutKinds
  <2>2. ASSUME NEW e \in calls', e.kind = "layout", e.back # "full"
        PROVE  \E c \in calls : c.kind = "layout" /\ c.back # "full"
    BY <2>1, <2>2 DEF Same
  <2>3. QED
    BY <2>2 DEF LayoutInv, BoardKept
<1>4. OneLayout'
  BY <1>2 DEF OneLayout
<1>5. QED
  BY <1>3, <1>4 DEF LayoutInv

\* The layout that leaves was the only one.
LEMMA LayoutAnswered ==
  ASSUME ControlTypeInv, LayoutInv, NEW c \in calls, AnswerCall(c) \/ FailCall(c)
  PROVE  LayoutInv'
<1>0. CallsTyped /\ PageData
  BY DEF ControlTypeInv
<1>1. /\ calls' = Without(c) /\ UNCHANGED <<media, ads>>
      /\ saving' = (saving /\ c.kind \notin LayoutKinds)
      /\ AnswerCall(c) => shown' = shown /\ hydrated' = IF c.kind \in LayoutKinds THEN c.mode.layout ELSE hydrated
      /\ FailCall(c) => hydrated' = hydrated
  BY DEF AnswerCall, FailCall, loadVarsCP
<1>2. /\ \A e \in calls' : \E f \in calls \ {c} : Same(f, e)
      /\ CallsTyped'
  BY <1>0, <1>1, WithoutFacts
<1>3. /\ FailCall(c) /\ c.kind = "layout" => shown'.layout = c.back
      /\ FailCall(c) /\ c.kind # "layout" => shown'.layout = shown.layout
      /\ FailCall(c) /\ c.kind \notin LayoutKinds => shown' = shown
  BY <1>0, FailedFields DEF PageData
<1>4. CASE c.kind \notin LayoutKinds
  <2>1. shown' = shown /\ hydrated' = hydrated
    BY <1>1, <1>3, <1>4
  <2>2. saving => saving'
    BY <1>1, <1>4, Zenon
  <2>3. QED
    BY <1>1, <1>2, <2>1, <2>2, LayoutUntouched
<1>5. CASE c.kind \in LayoutKinds
  <2>1. \A f \in calls \ {c} : f.kind \notin LayoutKinds
    BY <1>5 DEF LayoutInv, OneLayout
  <2>2. \A e \in calls' : e.kind \notin LayoutKinds
    BY <1>2, <2>1 DEF Same
  <2>3. OneLayout'
    BY <2>2 DEF OneLayout
  <2>4. \A e \in calls' : e.kind # "layout"
    BY <2>2 DEF LayoutKinds
  <2>5. ASSUME media # "loaded", shown'.layout # "full" PROVE hydrated' # NoBoardLayout
    <3>1. CASE AnswerCall(c)
      <4>1. hydrated' = c.mode.layout /\ shown' = shown
        BY <1>1, <1>5, <3>1
      <4>2. c.mode.layout = Resolved /\ hydrated # NoBoardLayout
        BY <1>5, <2>5, <4>1 DEF LayoutInv, OneLayout, BoardKept
      <4>3. Resolved.type = shown.layout
        BY <1>0, <2>5, <4>1, <4>2, ResolvedHolds DEF ResolvedFacts
      <4>4. QED
        BY <2>5, <4>1, <4>2, <4>3, NoBoardFacts
    <3>2. CASE FailCall(c)
      BY <1>1, <1>3, <2>5, <3>2 DEF LayoutInv, BoardKept
    <3>3. QED
      BY <3>1, <3>2
  <2>6. BoardKept'
    BY <1>1, <2>4, <2>5 DEF BoardKept
  <2>7. QED
    BY <2>3, <2>6 DEF LayoutInv
<1>6. QED
  BY <1>4, <1>5

LEMMA LayoutSent ==
  ASSUME ControlTypeInv, LayoutInv, PressLayout
  PROVE  LayoutInv'
<1>1. /\ shown' \in PageFields /\ ~saving /\ saving' = TRUE
      /\ UNCHANGED <<fixedCP, loadVarsCP, hydrated, clock, uploading, stored, historyCP>>
  BY LayoutPressed
<1>2. PICK k \in LayoutKinds, back \in Backs :
        /\ BackFits(k, back) /\ SendCall(k, BuiltMode', DefaultTimer, back)
        /\ \/ /\ k = "layout" /\ back = shown.layout
              /\ shown'.layout # "full" => media # "loading" /\ ActiveAds
           \/ k # "layout" /\ shown'.layout = shown.layout
  BY LayoutPressed
<1>3. PageData'
  BY <1>1 DEF ControlTypeInv, PageData, fixedCP, loadVarsCP
<1>4. PICK m \in PageModes : m = BuiltMode' /\ m.layout = Resolved'
  BY <1>3, BuiltTypedNext DEF ModeBuilt, Resolved
<1>5. SendCall(k, m, DefaultTimer, back) /\ k \in PageKinds /\ DefaultTimer \in Timers
  BY <1>2, <1>4, SendKinds, PressedTimers DEF ControlTypeInv, ControlRest
<1>6. PICK n \in calls' :
        /\ n.kind = k /\ n.mode = m /\ n.back = back
        /\ \A e \in calls' \ {n} : \E c \in calls : c.kind = e.kind
  BY <1>2, <1>5, SentCallFacts DEF ControlTypeInv, Same
<1>7. \A c \in calls : c.kind \notin LayoutKinds
  BY <1>1 DEF LayoutInv, OneLayout
<1>8. \A e \in calls' : e.kind \in LayoutKinds => e = n
  BY <1>6, <1>7
<1>9. OneLayout'
  <2>1. ResolvedFacts'
    BY <1>3, ResolvedHoldsNext
  <2>2. shown'.layout # "full" /\ media' = "loaded" /\ ~ads' => n.mode.layout.ads = hydrated'.ads
    BY <1>4, <1>6, <2>1 DEF ResolvedFacts
  <2>3. saving' = TRUE /\ n.mode.layout = Resolved'
    BY <1>1, <1>4, <1>6
  <2>4. QED
    BY <1>8, <2>2, <2>3 DEF OneLayout
<1>10. BoardKept'
  <2> SUFFICES ASSUME media # "loaded"
               PROVE  /\ shown'.layout # "full" => hydrated # NoBoardLayout
                      /\ \A e \in calls' : e.kind = "layout" /\ e.back # "full" => hydrated # NoBoardLayout
    BY <1>1 DEF BoardKept, loadVarsCP
  <2>1. shown.layout # "full" => hydrated # NoBoardLayout
    BY DEF LayoutInv, BoardKept
  <2>2. shown'.layout # "full" => hydrated # NoBoardLayout
    BY <1>2, <2>1 DEF ActiveAds
  <2>3. ASSUME NEW e \in calls', e.kind = "layout", e.back # "full" PROVE hydrated # NoBoardLayout
    <3>1. e = n
      BY <1>8, <2>3 DEF LayoutKinds
    <3>2. back = shown.layout
      BY <1>2, <1>6, <2>3, <3>1
    <3>3. QED
      BY <1>6, <2>1, <2>3, <3>1, <3>2
  <2>4. QED
    BY <2>2, <2>3
<1>11. QED
  BY <1>9, <1>10 DEF LayoutInv

LEMMA StepLayoutInv == ControlTypeInv /\ ControlTypeInv' /\ Opened /\ LayoutInv /\ [ControlNext]_controlVars => LayoutInv'
<1> SUFFICES ASSUME ControlTypeInv, ControlTypeInv', Opened, LayoutInv, [ControlNext]_controlVars PROVE LayoutInv'
  OBVIOUS
<1>0. CallsTyped /\ CallsTyped' /\ PageData /\ DefaultTimer \in Timers
  BY PressedTimers DEF ControlTypeInv, ControlRest
<1>a. \A c \in calls : Same(c, c)
  BY DEF Same
<1>b. ASSUME NEW k \in PageKinds \ LayoutKinds, NEW m \in PageModes, NEW t \in Timers, SendCall(k, m, t, "full")
      PROVE  \A e \in calls' : e.kind \in LayoutKinds => \E c \in calls : Same(c, e)
  <2>1. "full" \in Backs /\ BackFits(k, "full")
    BY SendKinds
  <2>2. PICK n \in calls' : n.kind = k /\ \A e \in calls' \ {n} : \E c \in calls : Same(c, e)
    BY <1>0, <1>b, <2>1, SentCallFacts
  <2>3. QED
    BY <2>2
<1>1. CASE UNCHANGED controlVars
  BY <1>0, <1>1, <1>a, LayoutUntouched DEF controlVars, loadVarsCP, netVarsCP
<1>2. CASE DeviceLoads
  <2>1. device = "loading" /\ calls' = calls /\ hydrated'.type = shown'.layout
    BY <1>2, LoadFacts DEF netVarsCP
  <2>2. calls' = {}
    BY <2>1 DEF Opened
  <2>3. shown'.layout # "full" => hydrated' # NoBoardLayout
    BY <2>1, NoBoardFacts
  <2>4. QED
    BY <2>2, <2>3 DEF LayoutInv, OneLayout, BoardKept
<1>3. CASE DeviceLoadFails
  BY <1>0, <1>3, <1>a, LayoutUntouched DEF DeviceLoadFails, netVarsCP
<1>4. CASE MediaLoads
  <2>1. /\ media = "loading" /\ media' \in {"loaded", "failed"}
        /\ UNCHANGED <<device, shown, hydrated, saving, calls>>
    BY <1>4 DEF MediaLoads, netVarsCP
  <2>2. media' = "failed" => Resolved' = Resolved
    BY <2>1 DEF Resolved, ResolvedLayout
  <2>3. shown.layout # "full" => Resolved.ads = hydrated.ads
    BY <1>0, <2>1, ResolvedHolds DEF ResolvedFacts, LayoutInv, BoardKept
  <2>4. BoardKept'
    BY <2>1 DEF LayoutInv, BoardKept
  <2>5. OneLayout'
    BY <2>1, <2>2, <2>3 DEF LayoutInv, OneLayout
  <2>6. QED
    BY <2>4, <2>5 DEF LayoutInv
<1>5. CASE FireModeUpdate
  <2>1. /\ SendCall("effect", pendingMode, DefaultTimer, "full") /\ pendingMode \in PageModes
        /\ UNCHANGED <<media, ads, hydrated, saving, shown>>
    BY <1>5 DEF FireModeUpdate, SendMode, loadVarsCP, ControlTypeInv, ControlRest
  <2>2. \A e \in calls' : e.kind \in LayoutKinds => \E c \in calls : Same(c, e)
    BY <1>0, <1>b, <2>1, SendKinds
  <2>3. QED
    BY <1>0, <2>1, <2>2, LayoutUntouched
<1>6. CASE PressEdit
  BY <1>0, <1>6, <1>a, EditFacts, LayoutUntouched DEF loadVarsCP, netVarsCP
<1>7. ASSUME NEW p \in {"regular", "scoreboard"}, SwitchPreview(p) PROVE LayoutInv'
  <2>1. /\ BuiltMode' \in PageModes /\ SendCall("preview", BuiltMode', DefaultTimer, "full")
        /\ shown'.layout = shown.layout /\ shown'.adMode = shown.adMode /\ shown'.adPosition = shown.adPosition
        /\ UNCHANGED <<media, ads, hydrated, saving>>
    BY <1>7, PreviewFacts DEF loadVarsCP
  <2>2. PICK m \in PageModes : m = BuiltMode'
    BY <2>1
  <2>3. SendCall("preview", m, DefaultTimer, "full")
    BY <2>1, <2>2
  <2>4. \A e \in calls' : e.kind \in LayoutKinds => \E c \in calls : Same(c, e)
    BY <1>0, <1>b, <2>3, SendKinds
  <2>5. QED
    BY <1>0, <2>1, <2>4, LayoutUntouched
<1>8. CASE PressLayout
  BY <1>8, LayoutSent
<1>9. CASE PressTimer
  <2>1. PICK k \in TimerKinds, t \in Timers : SendCall(k, BuiltMode, t, "full")
    BY <1>9, TimerPressed
  <2>2. UNCHANGED <<media, ads, hydrated, saving, shown>>
    BY <1>9, TimerPressed DEF timerPressKeeps, loadVarsCP
  <2>3. BuiltMode \in PageModes
    BY <1>0, BuiltTyped DEF ModeBuilt
  <2>4. k \in PageKinds \ LayoutKinds
    BY SendKinds
  <2>5. \A e \in calls' : e.kind \in LayoutKinds => \E c \in calls : Same(c, e)
    BY <1>b, <2>1, <2>3, <2>4
  <2>6. QED
    BY <1>0, <2>2, <2>5, LayoutUntouched
<1>10. ASSUME NEW c \in calls, StoreCall(c) PROVE LayoutInv'
  <2>1. UNCHANGED <<media, ads, hydrated, saving, shown>>
    BY <1>10 DEF StoreCall, loadVarsCP
  <2>2. OneLayout' /\ BoardKept'
    <3>1. PICK n \in calls' : n.kind = c.kind /\ n.mode = c.mode /\ n.back = c.back /\ calls' = (calls \ {c}) \cup {n}
      BY <1>0, <1>10, StoredCallFacts
    <3>2. Resolved' = Resolved
      BY <2>1 DEF Resolved, ResolvedLayout
    <3>3. BoardKept'
      BY <2>1, <3>1 DEF LayoutInv, BoardKept
    <3>4. ASSUME NEW e \in calls', e.kind \in LayoutKinds
          PROVE  /\ saving /\ \A f \in calls' : f.kind \in LayoutKinds => f = e
                 /\ shown.layout # "full" =>
                      /\ media # "loaded" => e.mode.layout = Resolved
                      /\ media = "loaded" /\ ~ads => e.mode.layout.ads = hydrated.ads
      <4>1. PICK f \in calls : f.kind = e.kind /\ f.mode = e.mode /\ (e = n => f = c) /\ (e # n => f = e /\ f # c)
        BY <3>1
      <4>2. /\ saving /\ \A g \in calls : g.kind \in LayoutKinds => g = f
            /\ shown.layout # "full" =>
                 /\ media # "loaded" => f.mode.layout = Resolved
                 /\ media = "loaded" /\ ~ads => f.mode.layout.ads = hydrated.ads
        BY <3>4, <4>1 DEF LayoutInv, OneLayout
      <4>3. ASSUME NEW g \in calls', g.kind \in LayoutKinds PROVE g = e
        <5>1. CASE g = n
          <6>1. c = f
            BY <3>1, <4>2, <4>3, <5>1
          <6>2. QED
            BY <4>1, <5>1, <6>1
        <5>2. CASE g # n
          <6>1. g \in calls \ {c}
            BY <3>1, <5>2
          <6>2. QED
            BY <4>1, <4>2, <4>3, <6>1
        <5>3. QED
          BY <5>1, <5>2
      <4>4. QED
        BY <4>1, <4>2, <4>3
    <3>5. OneLayout'
      BY <2>1, <3>2, <3>4 DEF OneLayout
    <3>6. QED
      BY <3>3, <3>5
  <2>3. QED
    BY <2>2 DEF LayoutInv
<1>11. ASSUME NEW c \in calls, AnswerCall(c) \/ FailCall(c) PROVE LayoutInv'
  BY <1>11, LayoutAnswered
<1>12. QED
  BY <1>1, <1>2, <1>3, <1>4, <1>5, <1>6, <1>7, <1>8, <1>9, <1>10, <1>11, StepCases

-----------------------------------------------------------------------------
(* The page of a game: its mode.                                           *)

\* The mode as a record of what it is built from.
BuiltFrom ==
  BuiltMode = [sport |-> sport,
               preview |-> IF sport = "basketball" THEN shown.preview ELSE "regular",
               branding |-> IF sport = "basketball" THEN shown.preview # "regular" /\ shown.branding
                                                    ELSE shown.branding,
               layout |-> Resolved]

LEMMA BuiltParts == BuiltFrom
<1>1. CASE sport = "basketball"
  BY <1>1 DEF BuiltFrom, BuiltMode, BuiltModeWith, BasketballMode, Resolved
<1>2. CASE sport # "basketball"
  BY <1>2 DEF BuiltFrom, BuiltMode, BuiltModeWith, SportMode, Resolved
<1>3. QED
  BY <1>1, <1>2

LEMMA BuiltPartsNext == BuiltFrom'
  BY BuiltParts, PTL

LEMMA BuiltKept ==
  ASSUME UNCHANGED <<sport, shown>>, Resolved' = Resolved
  PROVE  BuiltMode' = BuiltMode
  BY BuiltParts, BuiltPartsNext DEF BuiltFrom

\* A layout that becomes the hydrated one changes nothing in what the page
\* would send.
LEMMA AnsweredMode ==
  ASSUME ControlTypeInv, LayoutInv, NEW c \in calls, AnswerCall(c)
  PROVE  BuiltMode' = BuiltMode
<1>1. /\ hydrated' = IF c.kind \in LayoutKinds THEN c.mode.layout ELSE hydrated
      /\ UNCHANGED <<sport, shown, media, ads>>
  BY DEF AnswerCall, fixedCP, loadVarsCP
<1>2. CASE c.kind \notin LayoutKinds
  <2>1. Resolved' = Resolved
    BY <1>1, <1>2 DEF Resolved, ResolvedLayout
  <2>2. QED
    BY <1>1, <2>1, BuiltKept
<1>3. CASE c.kind \in LayoutKinds
  <2>1. CASE shown.layout = "full"
    <3>1. Resolved' = Resolved
      BY <1>1, <2>1 DEF Resolved, ResolvedLayout
    <3>2. QED
      BY <1>1, <3>1, BuiltKept
  <2>2. CASE shown.layout # "full" /\ media # "loaded"
    <3>1. c.mode.layout = Resolved /\ hydrated # NoBoardLayout
      BY <1>3, <2>2 DEF LayoutInv, OneLayout, BoardKept
    <3>2. Resolved.ads = hydrated.ads /\ Resolved.type = shown.layout
      BY <2>2, <3>1, ResolvedHolds DEF ResolvedFacts, ControlTypeInv
    <3>3. hydrated' # NoBoardLayout /\ hydrated'.ads = hydrated.ads
      BY <1>1, <1>3, <2>2, <3>1, <3>2, NoBoardFacts
    <3>4. Resolved' = Resolved
      BY <1>1, <2>2, <3>1, <3>3 DEF Resolved, ResolvedLayout
    <3>5. QED
      BY <1>1, <3>4, BuiltKept
  <2>3. CASE shown.layout # "full" /\ media = "loaded"
    <3>1. ~ads => hydrated'.ads = hydrated.ads
      BY <1>1, <1>3, <2>3 DEF LayoutInv, OneLayout
    <3>2. hydrated.ads => hydrated # NoBoardLayout
      BY NoBoardFacts
    <3>3. hydrated'.ads => hydrated' # NoBoardLayout
      BY NoBoardFacts
    <3>4. Resolved' = Resolved
      <4>1. CASE ads
        BY <1>1, <2>3, <4>1 DEF Resolved, ResolvedLayout
      <4>2. CASE ~ads
        <5>1. hydrated'.ads = hydrated.ads
          BY <3>1, <4>2
        <5>2. CASE hydrated.ads
          BY <1>1, <2>3, <3>2, <3>3, <4>2, <5>1, <5>2 DEF Resolved, ResolvedLayout
        <5>3. CASE ~hydrated.ads
          BY <1>1, <2>3, <4>2, <5>1, <5>3 DEF Resolved, ResolvedLayout
        <5>4. QED
          BY <5>2, <5>3
      <4>3. QED
        BY <4>1, <4>2
    <3>5. QED
      BY <1>1, <3>4, BuiltKept
  <2>4. QED
    BY <2>1, <2>2, <2>3
<1>4. QED
  BY <1>2, <1>3

LatestSent ==
  \E c \in calls : c.stage = "sent" /\ c.mode = BuiltMode /\ \A e \in calls : e.stage = "sent" => e.id <= c.id
ModeArrived ==
  (\A c \in calls : c.stage = "stored") /\ \A d \in ActiveTargets : stored[d].mode = BuiltMode

\* What the page shows waits in the timeout, or travels in the command that
\* left last, or has been stored by every display of the selection.
ModeOnItsWay ==
  ~modeUpset /\ device = "loaded" /\ media # "loading" =>
    pendingMode = BuiltMode \/ (pendingMode = NoPageMode /\ (LatestSent \/ ModeArrived))

LEMMA ScheduledMode ==
  ASSUME LayoutInv', ScheduleMode, device' = "loaded", media' # "loading"
  PROVE  pendingMode' = BuiltMode'
<1>1. ~(shown'.layout # "full" /\ media' = "failed" /\ hydrated' = NoBoardLayout)
  BY DEF LayoutInv, BoardKept
<1>2. QED
  BY <1>1 DEF ScheduleMode, AutoSends

LEMMA SentLatest ==
  ASSUME CallsTyped, NEW k \in PageKinds, NEW m \in PageModes, NEW t \in Timers, NEW back \in Backs,
         BackFits(k, back), SendCall(k, m, t, back), BuiltMode' = m
  PROVE  LatestSent'
<1>1. PICK n \in calls' : n.mode = m /\ n.stage = "sent" /\ \A e \in calls' : e.id <= n.id
  BY SentCallFacts
<1>2. QED
  BY <1>1 DEF LatestSent

LEMMA ModeUntouched ==
  ASSUME ModeOnItsWay, BuiltMode' = BuiltMode,
         UNCHANGED <<modeUpset, device, media, pendingMode, calls, stored, selection>>
  PROVE  ModeOnItsWay'
<1>1. ActiveTargets' = ActiveTargets
  BY DEF ActiveTargets, IsSyncActive
<1>2. LatestSent' = LatestSent /\ ModeArrived' = ModeArrived
  BY <1>1 DEF LatestSent, ModeArrived
<1>3. QED
  BY <1>2 DEF ModeOnItsWay

LEMMA StoredOnItsWay ==
  ASSUME ControlTypeInv, ModeOnItsWay, NEW c \in calls, StoreCall(c)
  PROVE  ModeOnItsWay'
<1>1. PICK n \in calls' : /\ n.id = c.id /\ n.mode = c.mode /\ n.stage = "stored"
                          /\ calls' = (calls \ {c}) \cup {n}
  BY StoredCallFacts DEF ControlTypeInv
<1>2. c.stage = "sent" /\ UNCHANGED <<sport, selection, device, media, shown, hydrated, ads, pendingMode>>
  BY DEF StoreCall, fixedCP, loadVarsCP
<1>3. ActiveTargets' = ActiveTargets /\ BuiltMode' = BuiltMode /\ ActiveTargets \subseteq Boards
  <2>1. ActiveTargets' = ActiveTargets
    BY <1>2 DEF ActiveTargets, IsSyncActive
  <2>2. Resolved' = Resolved
    BY <1>2 DEF Resolved, ResolvedLayout
  <2>3. ActiveTargets \subseteq Boards
    BY ControlPageAssumption DEF ActiveTargets, ControlTypeInv, ControlRest
  <2>4. QED
    BY <1>2, <2>1, <2>2, <2>3, BuiltKept
<1>4. \A d \in ActiveTargets : stored'[d].mode = c.mode
  BY <1>3 DEF StoreCall
<1>5. SUFFICES ASSUME ~modeUpset', device = "loaded", media # "loading"
               PROVE  pendingMode = BuiltMode \/ (pendingMode = NoPageMode /\ (LatestSent' \/ ModeArrived'))
  BY <1>2, <1>3 DEF ModeOnItsWay
<1>6. \/ calls = {c} /\ c.mode = BuiltMode /\ pendingMode \in {NoPageMode, BuiltMode}
      \/ ~modeUpset /\ \A x \in calls : x.stage = "sent" => ~(x.id < c.id)
  <2>1. modeUpset' = (/\ modeUpset \/ \E x \in calls : x.stage = "sent" /\ x.id < c.id
                      /\ ~(calls = {c} /\ c.mode = BuiltMode /\ pendingMode \in {NoPageMode, BuiltMode}))
    BY DEF StoreCall
  <2>2. ~(/\ modeUpset \/ \E x \in calls : x.stage = "sent" /\ x.id < c.id
          /\ ~(calls = {c} /\ c.mode = BuiltMode /\ pendingMode \in {NoPageMode, BuiltMode}))
    BY <1>5, <2>1, Zenon
  <2>3. QED
    BY <2>2
<1>7. CASE calls = {c} /\ c.mode = BuiltMode /\ pendingMode \in {NoPageMode, BuiltMode}
  <2>1. ModeArrived'
    BY <1>1, <1>3, <1>4, <1>7 DEF ModeArrived
  <2>2. QED
    BY <1>7, <2>1
<1>8. CASE ~modeUpset /\ \A x \in calls : x.stage = "sent" => ~(x.id < c.id)
  <2>1. pendingMode = BuiltMode \/ (pendingMode = NoPageMode /\ LatestSent)
    BY <1>2, <1>5, <1>8 DEF ModeOnItsWay, ModeArrived
  <2>2. ASSUME LatestSent PROVE LatestSent' \/ ModeArrived'
    <3>1. PICK l \in calls : l.stage = "sent" /\ l.mode = BuiltMode /\ \A e \in calls : e.stage = "sent" => e.id <= l.id
      BY <2>2 DEF LatestSent
    <3>2. CASE l = c
      <4>1. ASSUME NEW e \in calls, e.stage = "sent" PROVE e = c
        <5>1. e.id \in Nat /\ c.id \in Nat
          BY DEF ControlTypeInv, CallsTyped, PageCalls
        <5>2. e.id <= c.id /\ ~(e.id < c.id)
          BY <1>8, <3>1, <3>2, <4>1
        <5>3. e.id = c.id
          BY <5>1, <5>2
        <5>4. QED
          BY <5>3 DEF ControlTypeInv, CallsTyped
      <4>2. \A e \in calls : e.stage \in {"sent", "stored"}
        BY DEF ControlTypeInv, CallsTyped, PageCalls
      <4>3. \A e \in calls' : e.stage = "stored"
        BY <1>1, <4>1, <4>2
      <4>4. QED
        BY <1>3, <1>4, <3>1, <3>2, <4>3 DEF ModeArrived
    <3>3. CASE l # c
      <4>1. l \in calls' /\ \A e \in calls' : e.stage = "sent" => e.id <= l.id
        BY <1>1, <3>1, <3>3
      <4>2. QED
        BY <1>3, <3>1, <4>1 DEF LatestSent
    <3>4. QED
      BY <3>2, <3>3
  <2>3. QED
    BY <2>1, <2>2
<1>9. QED
  BY <1>6, <1>7, <1>8

LEMMA AnsweredOnItsWay ==
  ASSUME ControlTypeInv, LayoutInv, ModeOnItsWay, NEW c \in calls, AnswerCall(c)
  PROVE  ModeOnItsWay'
<1>1. /\ calls' = Without(c) /\ c.stage = "stored"
      /\ UNCHANGED <<selection, device, media, pendingMode, stored, modeUpset>>
  BY DEF AnswerCall, fixedCP, loadVarsCP
<1>2. BuiltMode' = BuiltMode
  BY AnsweredMode
<1>3. /\ \A e \in calls' : \E f \in calls \ {c} : Same(f, e)
      /\ \A f \in calls \ {c} : \E e \in calls' : Same(f, e)
  BY <1>1, WithoutFacts DEF ControlTypeInv
<1>4. ActiveTargets' = ActiveTargets
  BY <1>1 DEF ActiveTargets, IsSyncActive
<1>5. ModeArrived => ModeArrived'
  BY <1>1, <1>2, <1>3, <1>4 DEF ModeArrived, Same
<1>6. ASSUME LatestSent PROVE LatestSent'
  <2>1. PICK l \in calls : l.stage = "sent" /\ l.mode = BuiltMode /\ \A e \in calls : e.stage = "sent" => e.id <= l.id
    BY <1>6 DEF LatestSent
  <2>2. PICK n \in calls' : Same(l, n)
    BY <1>1, <1>3, <2>1
  <2>3. n.stage = "sent" /\ n.mode = BuiltMode
    BY <2>1, <2>2 DEF Same
  <2>4. \A e \in calls' : e.stage = "sent" => e.id <= n.id
    BY <1>3, <2>1, <2>2 DEF Same
  <2>5. QED
    BY <1>2, <2>3, <2>4 DEF LatestSent
<1>7. QED
  BY <1>1, <1>2, <1>5, <1>6 DEF ModeOnItsWay

LEMMA StepModeOnItsWay ==
  ControlTypeInv /\ ControlTypeInv' /\ Opened /\ LayoutInv /\ LayoutInv' /\ ModeOnItsWay /\ [ControlNext]_controlVars
    => ModeOnItsWay'
<1> SUFFICES ASSUME ControlTypeInv, ControlTypeInv', Opened, LayoutInv, LayoutInv', ModeOnItsWay,
                    [ControlNext]_controlVars
             PROVE  ModeOnItsWay'
  OBVIOUS
<1>0. CallsTyped /\ PageData /\ PageData' /\ DefaultTimer \in Timers
  BY PressedTimers DEF ControlTypeInv, ControlRest
<1>a. UNCHANGED <<sport, shown, hydrated, media, ads>> => BuiltMode' = BuiltMode
  BY BuiltKept DEF Resolved, ResolvedLayout
<1>b. ASSUME ScheduleMode PROVE ModeOnItsWay'
  BY <1>b, ScheduledMode DEF ModeOnItsWay
<1>c. ASSUME LatestSent', UNCHANGED <<sport, shown, hydrated, media, ads, device, modeUpset, pendingMode>>
      PROVE  ModeOnItsWay'
  BY <1>a, <1>c DEF ModeOnItsWay
<1>1. CASE UNCHANGED controlVars
  BY <1>1, <1>a, ModeUntouched DEF controlVars, fixedCP, loadVarsCP, netVarsCP, historyCP
<1>2. CASE DeviceLoads \/ MediaLoads
  <2>1. ScheduleMode
    BY <1>2, LoadFacts DEF MediaLoads
  <2>2. QED
    BY <1>b, <2>1
<1>3. CASE DeviceLoadFails
  BY <1>3 DEF DeviceLoadFails, ModeOnItsWay
<1>5. CASE FireModeUpdate
  <2>1. /\ SendCall("effect", pendingMode, DefaultTimer, "full") /\ pendingMode \in PageModes
        /\ pendingMode # NoPageMode /\ pendingMode' = NoPageMode
        /\ UNCHANGED <<sport, shown, hydrated, media, ads, device, modeUpset>>
    BY <1>5 DEF FireModeUpdate, SendMode, fixedCP, loadVarsCP, historyCP, ControlTypeInv, ControlRest
  <2>2. SUFFICES ASSUME ~modeUpset, device = "loaded", media # "loading" PROVE LatestSent'
    BY <2>1 DEF ModeOnItsWay
  <2>3. BuiltMode' = pendingMode
    BY <1>a, <2>1, <2>2 DEF ModeOnItsWay
  <2>4. QED
    BY <1>0, <2>1, <2>3, SendKinds, SentLatest
<1>6. CASE PressEdit
  <2>1. UNCHANGED <<fixedCP, loadVarsCP, hydrated, netVarsCP, historyCP>> /\ (ScheduleMode \/ UNCHANGED <<shown, pendingMode>>)
    BY <1>6, EditFacts
  <2>2. CASE UNCHANGED <<shown, pendingMode>>
    BY <1>a, <2>1, <2>2, ModeUntouched DEF fixedCP, loadVarsCP, netVarsCP, historyCP
  <2>3. QED
    BY <1>b, <2>1, <2>2
<1>7. ASSUME NEW p \in {"regular", "scoreboard"}, SwitchPreview(p) PROVE ModeOnItsWay'
  <2>1. /\ BuiltMode' \in PageModes /\ SendCall("preview", BuiltMode', DefaultTimer, "full")
        /\ UNCHANGED <<fixedCP, loadVarsCP, hydrated, historyCP>>
        /\ ScheduleMode \/ UNCHANGED <<shown, pendingMode>>
    BY <1>7, PreviewFacts
  <2>2. CASE UNCHANGED <<shown, pendingMode>>
    <3>1. PICK m \in PageModes : m = BuiltMode'
      BY <2>1
    <3>2. SendCall("preview", m, DefaultTimer, "full")
      BY <2>1, <3>1
    <3>3. LatestSent'
      BY <1>0, <3>1, <3>2, SendKinds, SentLatest
    <3>4. QED
      BY <1>c, <2>1, <2>2, <3>3 DEF fixedCP, loadVarsCP, historyCP
  <2>3. QED
    BY <1>b, <2>1, <2>2
<1>8. CASE PressLayout
  <2>1. PICK k \in LayoutKinds, back \in Backs : BackFits(k, back) /\ SendCall(k, BuiltMode', DefaultTimer, back)
    BY <1>8, LayoutPressed
  <2>2. PICK m \in PageModes : m = BuiltMode'
    BY <1>0, BuiltTypedNext DEF ModeBuilt
  <2>3. SendCall(k, m, DefaultTimer, back) /\ k \in PageKinds
    BY <2>1, <2>2, SendKinds
  <2>4. LatestSent'
    BY <1>0, <2>1, <2>2, <2>3, SentLatest
  <2>5. pendingMode' = NoPageMode
    BY <1>8, LayoutPressed
  <2>6. QED
    BY <2>4, <2>5 DEF ModeOnItsWay
<1>9. CASE PressTimer
  <2>1. PICK k \in TimerKinds, t \in Timers : SendCall(k, BuiltMode, t, "full")
    BY <1>9, TimerPressed
  <2>2. UNCHANGED <<sport, shown, hydrated, media, ads, device, modeUpset, pendingMode>>
    BY <1>9, TimerPressed DEF timerPressKeeps, fixedCP, loadVarsCP, historyCP
  <2>3. PICK m \in PageModes : m = BuiltMode
    BY <1>0, BuiltTyped DEF ModeBuilt
  <2>4. SendCall(k, m, t, "full") /\ BuiltMode' = m
    BY <1>a, <2>1, <2>2, <2>3
  <2>5. k \in PageKinds /\ "full" \in Backs /\ BackFits(k, "full")
    BY SendKinds
  <2>6. LatestSent'
    BY <1>0, <2>4, <2>5, SentLatest
  <2>7. QED
    BY <1>c, <2>2, <2>6
<1>10. ASSUME NEW c \in calls, FailCall(c) PROVE ModeOnItsWay'
  BY <1>10 DEF FailCall, ModeOnItsWay
<1>11. QED
  BY <1>1, <1>2, <1>3, <1>5, <1>6, <1>7, <1>8, <1>9, <1>10, StoredOnItsWay, AnsweredOnItsWay, StepCases

\* Once nothing is under way every display of the selection has the mode that
\* the page shows, unless a command failed or was overtaken, for any selection
\* and every order of timeouts, requests, answers and loading (the 250 ms
\* effect, the layout changes that cancel it, and their roll-back).
THEOREM PageModeAgreement == ControlSpec => []PageModeAgrees
<1>1. ControlInit => LayoutInv /\ ModeOnItsWay
  <2> SUFFICES ASSUME ControlInit PROVE LayoutInv /\ ModeOnItsWay
    OBVIOUS
  <2>1. /\ calls = {} /\ device = "loading"
        /\ shown = [preview |-> "regular", branding |-> FALSE, layout |-> "full",
                    adMode |-> "offset-timed", adPosition |-> "end"]
    BY DEF ControlInit
  <2>2. shown.layout = "full"
    BY <2>1
  <2>3. QED
    BY <2>1, <2>2 DEF LayoutInv, OneLayout, BoardKept, ModeOnItsWay
<1>2. ControlSpec => [](ControlTypeInv /\ Opened /\ LayoutInv /\ ModeOnItsWay)
  BY <1>1, TimerInvariance, StepLayoutInv, StepModeOnItsWay, PTL DEF ControlSpec
<1>3. ControlTypeInv /\ ModeOnItsWay => PageModeAgrees
  <2> SUFFICES ASSUME ControlTypeInv, ModeOnItsWay, AtRest, ~modeUpset
               PROVE  \A d \in ActiveTargets : stored[d].mode = BuiltMode
    BY DEF PageModeAgrees
  <2>1. BuiltMode # NoPageMode
    BY BuiltTyped DEF ControlTypeInv, ModeBuilt
  <2>2. pendingMode = NoPageMode /\ calls = {}
    BY DEF AtRest
  <2>3. LatestSent \/ ModeArrived
    BY <2>1, <2>2 DEF ModeOnItsWay, AtRest
  <2>4. ModeArrived
    BY <2>2, <2>3 DEF LatestSent
  <2>5. QED
    BY <2>4 DEF ModeArrived
<1>4. QED
  BY <1>2, <1>3, PTL
=============================================================================
