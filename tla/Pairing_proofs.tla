--------------------------- MODULE Pairing_proofs ---------------------------
(***************************************************************************)
(* Safety of pairing for any set of users and any bounds.                  *)
(*                                                                         *)
(* A code and an owner exclude each other because every write of a code    *)
(* clears the owner and every write of an owner clears the code; a claim   *)
(* that has found a code therefore meets no owner when it writes.          *)
(*                                                                         *)
(* That an owner lasts is another matter.  As long as no handler was       *)
(* crossed, a record either has never had an owner (Fresh) or has one that *)
(* no handler in flight is going to clear (Lasting).  Unreset: what holds  *)
(* of record, display and the requests under way before a first reset.     *)
(*                                                                         *)
(* A display that has no owner registers its code under the limit of       *)
(* RateLimiter, for any addresses, limit and window.  AdmittedInv: no more *)
(* are admitted in the window under way than it counts, and what is older  *)
(* came in one window.  WaitInv: a display that has not asked in the window*)
(* meets the requests of the others alone, so that it finds its share.     *)
(***************************************************************************)
EXTENDS Pairing, RateLimiter, NumberFacts, FiniteSetTheorems, TLAPS

\* A user who has found the display has found it by a code.
FoundByCode == \A u \in Users : claim[u].stage = "found" => claim[u].code # NoCode

CodeInv == OwnedHasNoCode /\ FoundByCode

\* Nothing anywhere says that the display has an owner.
Fresh ==
  /\ record.owner = Nobody /\ record.status # "paired" /\ record.mode # "shot-clock"
  /\ ~agent.paired /\ agent.mode # "shot-clock"
  /\ poll.stage # "told" /\ inbox = <<>>
  /\ hello.stage = "read" => ~hello.paired
  /\ beat.stage # "none" => beat.mode # "shot-clock"
  /\ beat.stage = "read" => beat.status # "paired"
  /\ \A u \in Users : claim[u].stage # "won"

\* The display has an owner, and no handler is about to write over it; if the
\* record does not say "paired", the display has learned of its owner and uses
\* no code any more.
Lasting ==
  /\ record.owner # Nobody /\ record.exists
  /\ poll.stage # "read"
  /\ hello.stage = "read" => hello.paired /\ ~hello.accept
  /\ beat.stage = "read" => beat.status = "paired"
  /\ record.status # "paired" => /\ agent.paired
                                 /\ hello.code = NoCode
                                 /\ poll.stage # "posted"

\* Before a factory reset nothing speaks of one.
NoReset == ~reset /\ inbox \in Seq({"complete"})

CrossInv == (~crossed /\ resets = 0) => NoReset /\ (Fresh \/ Lasting)

-----------------------------------------------------------------------------
USE DEF Codes

LEMMA InitTypeOK == Init => TypeOK
<1> SUFFICES ASSUME Init PROVE TypeOK
  OBVIOUS
<1>1. record \in Records /\ agent \in Agents
  BY DEF Init, Records, Agents, Statuses, Modes, NoRecord
<1>2. hello \in Hellos /\ beat \in Beats /\ poll \in Polls
  BY DEF Init, Hellos, Beats, Polls, Statuses, Modes, NoHello, NoBeat, NoPoll
<1>3. claim \in [Users -> Claims]
  BY DEF Init, Claims, NoClaim
<1>4. inbox \in Seq({"complete", "reset"})
  BY DEF Init
<1>5. /\ link \in BOOLEAN /\ room \in BOOLEAN /\ reset \in BOOLEAN /\ crossed \in BOOLEAN
      /\ closing \in {"none", "check", "write"}
  BY DEF Init
<1>6. codes = 0 /\ drops = 0 /\ faults = 0 /\ resets = 0
  BY DEF Init
<1>7. /\ codes \in 0..MaxCodes /\ drops \in 0..MaxDrops
      /\ faults \in 0..MaxFaults /\ resets \in 0..MaxResets
  BY <1>6, PairingAssumption
<1>8. QED
  BY <1>1, <1>2, <1>3, <1>4, <1>5, <1>7 DEF TypeOK

LEMMA HelloWrittenType == TypeOK => HelloWritten \in Records
  BY PairingAssumption DEF TypeOK, HelloWritten, Records, Statuses, Modes, NoRecord, Hellos

\* What the shared parts of the actions do to the types.
LEMMA SayHelloType ==
  ASSUME TypeOK, SayHello
  PROVE  hello' \in Hellos /\ agent' \in Agents /\ codes' \in 0..MaxCodes
<1> USE PairingAssumption DEF TypeOK, SayHello, TakeCode, CodeNow
<1>1. CASE agent.paired
  BY <1>1 DEF Hellos, NoHello
<1>2. CASE ~agent.paired
  <2>1. CodeNow \in Codes
    BY <1>2
  <2>2. hello' \in Hellos
    BY <1>2, <2>1, ZenonT(60) DEF Hellos, NoHello
  <2>3. agent' \in Agents
    BY <1>2, <2>1 DEF Agents, Modes
  <2>4. codes' \in 0..MaxCodes
    BY <1>2, <2>1 DEF Agents
  <2>5. QED
    BY <2>2, <2>3, <2>4
<1>3. QED
  BY <1>1, <1>2

LEMMA LoseLinkType ==
  ASSUME TypeOK, LoseLink
  PROVE  /\ hello' \in Hellos /\ beat' \in Beats
         /\ link' \in BOOLEAN /\ room' \in BOOLEAN
         /\ closing' \in {"none", "check", "write"}
         /\ inbox' \in Seq({"complete", "reset"})
<1>1. hello' \in Hellos
  BY DEF TypeOK, LoseLink, Hellos, NoHello
<1>2. beat' \in Beats
  BY DEF TypeOK, LoseLink, Beats, NoBeat, Modes, Statuses
<1>3. closing' \in {"none", "check", "write"}
  BY Zenon DEF TypeOK, LoseLink
<1>4. link' \in BOOLEAN /\ room' \in BOOLEAN
  BY DEF LoseLink
<1>5. inbox' \in Seq({"complete", "reset"})
  BY DEF LoseLink
<1>6. QED
  BY <1>1, <1>2, <1>3, <1>4, <1>5

LEMMA SendType ==
  ASSUME TypeOK, NEW m \in {"complete", "reset"}, Send(m)
  PROVE  inbox' \in Seq({"complete", "reset"})
  BY DEF TypeOK, Send

\* Type correctness: one step per action, one below it per variable it changes.
LEMMA NextTypeOK == TypeOK /\ [Next]_vars => TypeOK'
<1> SUFFICES ASSUME TypeOK, [Next]_vars PROVE TypeOK'
  OBVIOUS
<1> USE PairingAssumption DEF TypeOK, serverVars, countVars
<1>1. CASE Connect
  BY <1>1, SayHelloType DEF Connect
<1>2. CASE RefreshHello
  BY <1>2, SayHelloType DEF RefreshHello
<1>3. CASE Drop
  BY <1>3, LoseLinkType DEF Drop
<1>4. CASE Restart
  <2>1. agent' \in Agents
    BY <1>4 DEF Restart, Agents, Modes
  <2>2. poll' \in Polls
    BY <1>4 DEF Restart, NoPoll, Polls
  <2>3. codes' \in 0..MaxCodes /\ drops' \in 0..MaxDrops
    BY <1>4 DEF Restart
  <2>4. UNCHANGED <<record, claim, reset, faults, resets, crossed>> /\ LoseLink
    BY <1>4 DEF Restart
  <2>5. QED
    BY <2>1, <2>2, <2>3, <2>4, LoseLinkType
<1>5. CASE HelloRead
  <2>1. hello' \in Hellos
    BY <1>5 DEF HelloRead, Hellos
  <2>2. QED
    BY <1>5, <2>1 DEF HelloRead
<1>6. CASE HelloWrite
  <2>1. hello' \in Hellos
    BY <1>6 DEF HelloWrite, NoHello, Hellos
  <2>2. inbox' \in Seq({"complete", "reset"})
    BY <1>6, SendType DEF HelloWrite
  <2>3. QED
    BY <1>6, <2>1, <2>2, HelloWrittenType DEF HelloWrite
<1>7. CASE BeatSend
  <2>1. beat' \in Beats
    BY <1>7 DEF BeatSend, NoBeat, Agents, Beats, Modes, Statuses
  <2>2. QED
    BY <1>7, <2>1 DEF BeatSend
<1>8. CASE BeatRead
  <2>1. beat' \in Beats
    BY <1>8 DEF BeatRead, BeatMode, BeatStatus, Beats, Modes, Statuses
  <2>2. QED
    BY <1>8, <2>1 DEF BeatRead
<1>9. CASE BeatWrite
  <2>1. record' \in Records
    BY <1>9 DEF BeatWrite, Beats, Records, Statuses, Modes
  <2>2. beat' \in Beats
    BY <1>9 DEF BeatWrite, NoBeat, Beats, Modes, Statuses
  <2>3. QED
    BY <1>9, <2>1, <2>2 DEF BeatWrite
<1>10. CASE CloseCheck
  BY <1>10 DEF CloseCheck
<1>11. CASE CloseWrite
  <2>1. record' \in Records
    BY <1>11 DEF CloseWrite, Offline, Records, Statuses, Modes
  <2>2. crossed' \in BOOLEAN
    BY <1>11 DEF CloseWrite
  <2>3. QED
    BY <1>11, <2>1, <2>2 DEF CloseWrite
<1>12. CASE FoundOffline
  <2>1. record' \in Records
    BY <1>12 DEF FoundOffline, Offline, Records, Statuses, Modes
  <2>2. crossed' \in BOOLEAN
    BY <1>12 DEF FoundOffline
  <2>3. QED
    BY <1>12, <2>1, <2>2 DEF FoundOffline
<1>12a. CASE CommandFindsNone
  BY <1>12a DEF CommandFindsNone, Fault
<1>13. CASE PollStart
  <2>1. CodeNow \in Codes
    BY <1>13 DEF PollStart, TakeCode
  <2>2. agent' \in Agents
    BY <1>13, <2>1 DEF PollStart, TakeCode, Agents, Modes
  <2>3. poll' \in Polls
    BY <1>13, <2>1 DEF PollStart, NoPoll, Polls
  <2>4. QED
    BY <1>13, <2>1, <2>2, <2>3 DEF PollStart, TakeCode, CodeNow, Agents
<1>14. CASE RegisterRead
  <2>1. poll' \in Polls
    BY <1>14 DEF RegisterRead, NoPoll, Polls
  <2>2. QED
    BY <1>14, <2>1 DEF RegisterRead
<1>15. CASE RegisterWrite
  <2>1. record' \in Records
    BY <1>15 DEF RegisterWrite, Polls, Records, Statuses, Modes
  <2>2. poll' \in Polls
    BY <1>15 DEF RegisterWrite, NoPoll, Polls
  <2>3. QED
    BY <1>15, <2>1, <2>2 DEF RegisterWrite
<1>16. CASE Ask
  <2>1. poll' \in Polls
    BY <1>16 DEF Ask, NoPoll, Polls
  <2>2. QED
    BY <1>16, <2>1 DEF Ask
<1>17. CASE PollFails
  <2>1. poll' \in Polls
    BY <1>17 DEF PollFails, NoPoll, Polls
  <2>2. QED
    BY <1>17, <2>1 DEF PollFails, Fault
<1>18. CASE Told
  <2>1. poll' \in Polls
    BY <1>18 DEF Told, NoPoll, Polls
  <2>2. agent' \in Agents
    BY <1>18 DEF Told, Paired, Agents, Modes
  <2>3. QED
    BY <1>18, <2>1, <2>2 DEF Told
<1>19. CASE Complete
  <2>1. agent' \in Agents
    BY <1>19 DEF Complete, Paired, Agents, Modes
  <2>2. inbox' \in Seq({"complete", "reset"})
    BY <1>19 DEF Complete
  <2>3. QED
    BY <1>19, <2>1, <2>2 DEF Complete
<1>20. CASE NewCode
  <2>1. agent' \in Agents
    BY <1>20, SMTT(30) DEF NewCode, Agents, Modes
  <2>2. QED
    BY <1>20, <2>1 DEF NewCode
<1>21. CASE Provision
  <2>1. agent' \in Agents
    BY <1>21 DEF Provision, Agents, Modes
  <2>2. QED
    BY <1>21, <2>1 DEF Provision
<1>22. CASE ResetSend
  <2>1. inbox' \in Seq({"complete", "reset"})
    BY <1>22, SendType DEF ResetSend
  <2>2. resets' \in 0..MaxResets /\ crossed' = FALSE
    BY <1>22 DEF ResetSend
  <2>3. UNCHANGED <<record, agent, link, room, serverVars, poll, reset, codes, drops, faults>>
    BY <1>22 DEF ResetSend
  <2>4. QED
    BY <2>1, <2>2, <2>3
<1>23. CASE ResetAgent
  <2>1. agent' \in Agents
    BY <1>23 DEF ResetAgent, Agents, Modes
  <2>2. inbox' \in Seq({"complete", "reset"})
    BY <1>23 DEF ResetAgent
  <2>3. reset' \in BOOLEAN
    BY <1>23, Zenon DEF ResetAgent
  <2>4. faults' \in 0..MaxFaults
    BY <1>23 DEF ResetAgent, Fault
  <2>5. UNCHANGED <<record, link, room, serverVars, poll, codes, drops, resets, crossed>>
    BY <1>23 DEF ResetAgent
  <2>6. QED
    BY <2>1, <2>2, <2>3, <2>4, <2>5
<1>24. CASE ResetRecord
  <2>1. record' \in Records
    BY <1>24 DEF ResetRecord, NoRecord, Records, Statuses, Modes
  <2>2. QED
    BY <1>24, <2>1 DEF ResetRecord
<1>25. ASSUME NEW u \in Users, ClaimFind(u) PROVE TypeOK'
  <2>1. claim' \in [Users -> Claims]
    BY <1>25 DEF ClaimFind, Records, Claims
  <2>2. QED
    BY <1>25, <2>1 DEF ClaimFind
<1>26. ASSUME NEW u \in Users, ClaimWrite(u) PROVE TypeOK'
  <2>1. record' \in Records
    <3>1. claim[u].owner \in Users \cup {Nobody}
      BY DEF Claims
    <3>2. \/ record' = record
          \/ \E o \in Users \cup {Nobody} :
               record' = [record EXCEPT !.status = "paired", !.mode = "shot-clock",
                                        !.code = NoCode, !.owner = o]
      BY <1>26, <3>1, Zenon DEF ClaimWrite
    <3>3. ASSUME NEW o \in Users \cup {Nobody},
                 record' = [record EXCEPT !.status = "paired", !.mode = "shot-clock",
                                          !.code = NoCode, !.owner = o]
          PROVE  record' \in Records
      BY <3>3 DEF Records, Statuses, Modes
    <3>4. QED
      BY <3>2, <3>3
  <2>2. claim' \in [Users -> Claims]
    BY <1>26 DEF ClaimWrite, NoClaim, Claims
  <2>3. crossed' \in BOOLEAN
    BY <1>26 DEF ClaimWrite
  <2>4. QED
    BY <1>26, <2>1, <2>2, <2>3 DEF ClaimWrite
<1>27. ASSUME NEW u \in Users, ClaimEmit(u) PROVE TypeOK'
  <2>1. claim' \in [Users -> Claims]
    BY <1>27 DEF ClaimEmit, NoClaim, Claims
  <2>2. inbox' \in Seq({"complete", "reset"})
    BY <1>27, SendType DEF ClaimEmit
  <2>3. QED
    BY <1>27, <2>1, <2>2 DEF ClaimEmit
<1>28. CASE UNCHANGED vars
  BY <1>28 DEF vars
<1>29. QED
  BY <1>1, <1>2, <1>3, <1>4, <1>5, <1>6, <1>7, <1>8, <1>9, <1>10, <1>11, <1>12, <1>12a, <1>13, <1>14,
     <1>15, <1>16, <1>17, <1>18, <1>19, <1>20, <1>21, <1>22, <1>23, <1>24, <1>25, <1>26, <1>27, <1>28
  DEF Next, AgentStep, HandlerStep, Environment

\* Only seven actions write the record.
LEMMA RecordWriters ==
  ASSUME [Next]_vars
  PROVE  \/ UNCHANGED record
         \/ HelloWrite \/ BeatWrite \/ CloseWrite \/ FoundOffline \/ RegisterWrite
         \/ ResetRecord \/ \E u \in Users : ClaimWrite(u)
<1> USE DEF serverVars, countVars
<1>1. CASE AgentStep
  BY <1>1 DEF AgentStep, Connect, BeatSend, PollStart, Told, Complete
<1>2. CASE HandlerStep
  BY <1>2 DEF HandlerStep, HelloRead, BeatRead, CloseCheck, RegisterRead, Ask, ResetAgent,
              ClaimEmit
<1>3. CASE Environment
  BY <1>3 DEF Environment, RefreshHello, Drop, Restart, CommandFindsNone, PollFails, NewCode, Provision,
              ResetSend, ClaimFind
<1>4. CASE UNCHANGED vars
  BY <1>4 DEF vars
<1>5. QED
  BY <1>1, <1>2, <1>3, <1>4 DEF Next

\* Only three write the claims.
LEMMA ClaimWriters ==
  ASSUME [Next]_vars
  PROVE  \/ UNCHANGED claim
         \/ \E u \in Users : ClaimFind(u) \/ ClaimWrite(u) \/ ClaimEmit(u)
<1> USE DEF serverVars, countVars
<1>1. CASE AgentStep
  BY <1>1 DEF AgentStep, Connect, BeatSend, PollStart, Told, Complete
<1>2. CASE HandlerStep
  BY <1>2 DEF HandlerStep, HelloRead, HelloWrite, BeatRead, BeatWrite, CloseCheck, CloseWrite,
              RegisterRead, RegisterWrite, Ask, ResetAgent, ResetRecord
<1>3. CASE Environment
  BY <1>3 DEF Environment, RefreshHello, Drop, Restart, CommandFindsNone, FoundOffline,
              PollFails, NewCode,
              Provision, ResetSend
<1>4. CASE UNCHANGED vars
  BY <1>4 DEF vars
<1>5. QED
  BY <1>1, <1>2, <1>3, <1>4 DEF Next

\* What a claim writes.
LEMMA ClaimWriteEffect ==
  ASSUME TypeOK, NEW u \in Users, ClaimWrite(u)
  PROVE  \/ UNCHANGED <<record, crossed>> /\ claim' = [claim EXCEPT ![u] = NoClaim]
         \/ /\ record.exists /\ record.code = claim[u].code /\ record.status # "paired"
            /\ record'.exists /\ record'.code = NoCode /\ record'.status = "paired"
            /\ record'.mode = "shot-clock"
            /\ record'.owner = IF claim[u].owner = Nobody THEN u ELSE claim[u].owner
            /\ claim' = [claim EXCEPT ![u].stage = "won"]
            /\ crossed' = (resets = 0 /\ (crossed \/ HandlerCrossed))
  BY Zenon DEF ClaimWrite, TypeOK, Records

LEMMA NextCodeInv == TypeOK /\ CodeInv /\ [Next]_vars => CodeInv'
<1> SUFFICES ASSUME TypeOK, CodeInv, [Next]_vars PROVE CodeInv'
  OBVIOUS
<1>1. OwnedHasNoCode'
  <2> USE DEF CodeInv, OwnedHasNoCode, Owned
  <2>1. CASE UNCHANGED record
    BY <2>1
  <2>2. CASE HelloWrite
    BY <2>2 DEF HelloWrite, HelloWritten, TypeOK, Records, NoRecord
  <2>3. CASE BeatWrite
    BY <2>3 DEF BeatWrite, TypeOK, Records
  <2>4. CASE CloseWrite \/ FoundOffline
    BY <2>4 DEF CloseWrite, FoundOffline, Offline, TypeOK, Records
  <2>5. CASE RegisterWrite
    BY <2>5 DEF RegisterWrite
  <2>6. CASE ResetRecord
    BY <2>6 DEF ResetRecord, NoRecord
  <2>7. ASSUME NEW u \in Users, ClaimWrite(u) PROVE OwnedHasNoCode'
    BY <2>7, ClaimWriteEffect
  <2>8. QED
    BY <2>1, <2>2, <2>3, <2>4, <2>5, <2>6, <2>7, RecordWriters
<1>2. FoundByCode'
  <2> USE DEF CodeInv, FoundByCode, TypeOK, Claims
  <2>1. CASE UNCHANGED claim
    BY <2>1
  <2>2. ASSUME NEW u \in Users, ClaimFind(u) PROVE FoundByCode'
    BY <2>2 DEF ClaimFind
  <2>3. ASSUME NEW u \in Users, ClaimWrite(u) PROVE FoundByCode'
    BY <2>3, ClaimWriteEffect DEF NoClaim
  <2>4. ASSUME NEW u \in Users, ClaimEmit(u) PROVE FoundByCode'
    BY <2>4 DEF ClaimEmit, NoClaim
  <2>5. QED
    BY <2>1, <2>2, <2>3, <2>4, ClaimWriters
<1>3. QED
  BY <1>1, <1>2 DEF CodeInv

LEMMA InitCodeInv == Init => CodeInv
  BY DEF Init, CodeInv, OwnedHasNoCode, FoundByCode, Owned, NoRecord, NoClaim

\* The display is read without an owner or with one of its own, and claimed only
\* while it still has the code, hence no owner.
LEMMA NextKeepsOwner ==
  ASSUME TypeOK, CodeInv, [Next]_vars, Owned(record), Owned(record)'
  PROVE  record'.owner = record.owner
<1> USE DEF Owned
<1>1. CASE UNCHANGED record
  BY <1>1
<1>2. CASE HelloWrite
  BY <1>2 DEF HelloWrite, HelloWritten, TypeOK, Records, NoRecord
<1>3. CASE BeatWrite
  BY <1>3 DEF BeatWrite, TypeOK, Records
<1>4. CASE CloseWrite \/ FoundOffline
  BY <1>4 DEF CloseWrite, FoundOffline, Offline, TypeOK, Records
<1>5. CASE RegisterWrite
  BY <1>5 DEF RegisterWrite
<1>6. CASE ResetRecord
  BY <1>6 DEF ResetRecord, NoRecord
<1>7. ASSUME NEW u \in Users, ClaimWrite(u) PROVE record'.owner = record.owner
  <2>1. claim[u].code # NoCode
    BY <1>7 DEF ClaimWrite, CodeInv, FoundByCode
  <2>2. record.code = NoCode
    BY DEF CodeInv, OwnedHasNoCode
  <2>3. QED
    BY <1>7, <2>1, <2>2, ClaimWriteEffect
<1>8. QED
  BY <1>1, <1>2, <1>3, <1>4, <1>5, <1>6, <1>7, RecordWriters

\* TypeOK of the runs: the records, messages and handlers of pairing are well formed.
THEOREM TypeCorrect == Spec => []TypeOK
<1>1. QED
  BY InitTypeOK, NextTypeOK, PTL DEF Spec

\* OwnedHasNoCode of the runs: no code can be used to claim a display that has an owner.
THEOREM CodesAndOwners == Spec => []OwnedHasNoCode
<1>1. CodeInv => OwnedHasNoCode
  BY DEF CodeInv
<1>2. QED
  BY <1>1, TypeCorrect, InitCodeInv, NextCodeInv, PTL DEF Spec

\* OwnerNeverSwitches of the runs: whatever is read before and written after
\* whatever else, no owner takes the place of another.
THEOREM OwnersStay == Spec => OwnerNeverSwitches
<1>1. Spec => []CodeInv
  BY TypeCorrect, InitCodeInv, NextCodeInv, PTL DEF Spec
<1>2. TypeOK /\ CodeInv /\ [Next]_vars
        => [Owned(record) /\ Owned(record)' => record'.owner = record.owner]_record
  BY NextKeepsOwner
<1>3. QED
  BY <1>1, <1>2, TypeCorrect, PTL DEF Spec, OwnerNeverSwitches

\* An uncrossed step before a factory reset starts uncrossed and before it.
LEMMA UncrossedBefore ==
  ASSUME TypeOK, [Next]_vars, ~crossed', resets' = 0
  PROVE  ~crossed /\ resets = 0
<1> USE DEF TypeOK, serverVars, countVars
<1>1. CASE AgentStep
  BY <1>1 DEF AgentStep, Connect, BeatSend, PollStart, Told, Complete
<1>2. CASE HandlerStep
  <2>1. ASSUME NEW u \in Users, ClaimWrite(u) PROVE ~crossed /\ resets = 0
    BY <2>1 DEF ClaimWrite
  <2>2. CASE CloseWrite
    BY <2>2 DEF CloseWrite
  <2>3. QED
    BY <1>2, <2>1, <2>2
    DEF HandlerStep, HelloRead, HelloWrite, BeatRead, BeatWrite, CloseCheck, RegisterRead,
        RegisterWrite, Ask, ResetAgent, ResetRecord, ClaimEmit
<1>3. CASE Environment
  BY <1>3 DEF Environment, RefreshHello, Drop, Restart, CommandFindsNone, FoundOffline,
              PollFails, NewCode,
              Provision, ResetSend, ClaimFind
<1>4. CASE UNCHANGED vars
  BY <1>4 DEF vars
<1>5. QED
  BY <1>1, <1>2, <1>3, <1>4 DEF Next

LEMMA HelloWriteNoReset ==
  ASSUME NoReset, HelloWrite
  PROVE  NoReset'
<1>1. inbox \in Seq({"complete"}) /\ ~reset
  BY DEF NoReset
<1>2. UNCHANGED reset /\ (inbox' = inbox \/ inbox' = Append(inbox, "complete"))
  BY DEF HelloWrite, Send
<1>3. inbox' \in Seq({"complete"})
  BY <1>1, <1>2
<1>4. QED
  BY <1>1, <1>2, <1>3 DEF NoReset

\* A hello that is written: to a record that never had an owner, or has one.
LEMMA HelloWriteCrossInv ==
  ASSUME TypeOK, NoReset, Fresh \/ Lasting, HelloWrite
  PROVE  (NoReset /\ (Fresh \/ Lasting))'
<1>1. NoReset'
  BY HelloWriteNoReset
<1> USE DEF TypeOK, Records, Hellos, serverVars
<1>2. CASE Fresh
  <2>1. HelloWritten.owner = Nobody /\ HelloWritten.status # "paired"
        /\ HelloWritten.mode # "shot-clock"
    BY <1>2 DEF HelloWrite, HelloWritten, NoRecord, Fresh
  <2>2. UNCHANGED inbox
    BY <2>1 DEF HelloWrite, Owned
  <2>3. QED
    BY <1>1, <1>2, <2>1, <2>2 DEF HelloWrite, NoHello, Fresh
<1>3. CASE Lasting
  <2>1. HelloWritten = [record EXCEPT !.online = TRUE, !.status = "paired"]
    BY <1>3 DEF HelloWrite, HelloWritten, Lasting
  <2>2. QED
    BY <1>1, <1>3, <2>1 DEF HelloWrite, NoHello, Lasting
<1>4. QED
  BY <1>2, <1>3

\* A claim that is written finds no owner, and uncrossed it finds no handler either.
LEMMA ClaimWriteCrossInv ==
  ASSUME TypeOK, CodeInv, NoReset, Fresh \/ Lasting, resets = 0, ~crossed',
         NEW u \in Users, ClaimWrite(u)
  PROVE  (NoReset /\ (Fresh \/ Lasting))'
<1>1. NoReset'
  BY DEF ClaimWrite, NoReset
<1>2. CASE UNCHANGED <<record, crossed>> /\ claim' = [claim EXCEPT ![u] = NoClaim]
  BY <1>1, <1>2 DEF ClaimWrite, NoClaim, Fresh, Lasting, TypeOK, Claims
<1>3. CASE /\ record.code = claim[u].code
           /\ record'.exists /\ record'.status = "paired"
           /\ record'.owner = IF claim[u].owner = Nobody THEN u ELSE claim[u].owner
           /\ crossed' = (resets = 0 /\ (crossed \/ HandlerCrossed))
  <2>1. record.code # NoCode
    BY <1>3 DEF ClaimWrite, CodeInv, FoundByCode
  <2>2. record.owner = Nobody
    BY <2>1 DEF CodeInv, OwnedHasNoCode, Owned
  <2>3. Fresh
    BY <2>2 DEF Lasting
  <2>4. ~HandlerCrossed
    BY <1>3
  <2>5. /\ hello.stage # "read" /\ beat.stage # "read" /\ poll.stage # "read"
        /\ UNCHANGED <<hello, beat, poll>>
    BY <2>3, <2>4 DEF HandlerCrossed, Fresh, ClaimWrite
  <2>6. record'.owner # Nobody
    BY <1>3, PairingAssumption
  <2>7. Lasting'
    BY <1>3, <2>5, <2>6 DEF Lasting
  <2>8. QED
    BY <1>1, <2>7
<1>4. QED
  BY <1>2, <1>3, ClaimWriteEffect

LEMMA EmitNoReset ==
  ASSUME NoReset, NEW u \in Users, ClaimEmit(u)
  PROVE  NoReset'
  BY DEF NoReset, ClaimEmit, Send

\* One step per action, for a record that never had an owner and for one that has.
LEMMA NextCrossInv == TypeOK /\ CodeInv /\ CrossInv /\ [Next]_vars => CrossInv'
<1> SUFFICES ASSUME TypeOK, CodeInv, CrossInv, [Next]_vars, ~crossed', resets' = 0
             PROVE  (NoReset /\ (Fresh \/ Lasting))'
  BY DEF CrossInv
<1>0. ~crossed /\ resets = 0 /\ NoReset /\ (Fresh \/ Lasting)
  BY UncrossedBefore DEF CrossInv
<1> USE <1>0 DEF TypeOK, Records, Agents, Hellos, Beats, Polls, Claims, NoReset, Fresh, Lasting,
                 serverVars, countVars
<1>1. CASE Connect
  BY <1>1, ZenonT(60) DEF Connect, SayHello, TakeCode, NoHello
<1>2. CASE RefreshHello
  BY <1>2, ZenonT(60) DEF RefreshHello, SayHello, TakeCode, NoHello
<1>3. CASE Drop
  BY <1>3 DEF Drop, LoseLink, NoHello, NoBeat
<1>4. CASE Restart
  BY <1>4 DEF Restart, LoseLink, NoHello, NoBeat, NoPoll
<1>5. CASE HelloRead
  BY <1>5 DEF HelloRead, Owned
<1>6. CASE HelloWrite
  BY <1>6, HelloWriteCrossInv
<1>7. CASE BeatSend
  BY <1>7 DEF BeatSend, NoBeat
<1>8. CASE BeatRead
  BY <1>8 DEF BeatRead, BeatMode, BeatStatus, Owned
<1>9. CASE BeatWrite
  BY <1>9 DEF BeatWrite, NoBeat
<1>10. CASE CloseCheck
  BY <1>10 DEF CloseCheck
<1>11. CASE CloseWrite
  BY <1>11 DEF CloseWrite, Offline, Unsettled, Owned
<1>12. CASE FoundOffline
  BY <1>12 DEF FoundOffline, Offline, Unsettled, Owned
<1>12a. CASE CommandFindsNone
  BY <1>12a DEF CommandFindsNone
<1>13. CASE PollStart
  BY <1>13 DEF PollStart, TakeCode, NoPoll
<1>14. CASE RegisterRead
  BY <1>14 DEF RegisterRead, NoPoll, Owned
<1>15. CASE RegisterWrite
  BY <1>15 DEF RegisterWrite, NoPoll
<1>16. CASE Ask
  BY <1>16 DEF Ask, NoPoll
<1>17. CASE PollFails
  BY <1>17 DEF PollFails, NoPoll, Fault
<1>18. CASE Told
  BY <1>18 DEF Told, Paired, NoPoll
<1>19. CASE Complete
  BY <1>19 DEF Complete, Paired
<1>20. CASE NewCode
  BY <1>20 DEF NewCode
<1>21. CASE Provision
  BY <1>21 DEF Provision
<1>22. CASE ResetAgent
  BY <1>22 DEF ResetAgent, Fault
<1>23. CASE ResetRecord
  BY <1>23 DEF ResetRecord, NoRecord
<1>24. ASSUME NEW u \in Users, ClaimFind(u) PROVE (NoReset /\ (Fresh \/ Lasting))'
  BY <1>24 DEF ClaimFind
<1>25. ASSUME NEW u \in Users, ClaimWrite(u) PROVE (NoReset /\ (Fresh \/ Lasting))'
  BY <1>25, ClaimWriteCrossInv
<1>26. ASSUME NEW u \in Users, ClaimEmit(u) PROVE (NoReset /\ (Fresh \/ Lasting))'
  <2>1. Lasting /\ Lasting'
    BY <1>26 DEF ClaimEmit, NoClaim
  <2>2. NoReset'
    BY <1>26, EmitNoReset
  <2>3. QED
    BY <2>1, <2>2
<1>27. CASE ResetSend
  BY <1>27 DEF ResetSend
<1>28. CASE UNCHANGED vars
  BY <1>28 DEF vars
<1>29. QED
  BY <1>1, <1>2, <1>3, <1>4, <1>5, <1>6, <1>7, <1>8, <1>9, <1>10, <1>11, <1>12, <1>12a, <1>13, <1>14,
     <1>15, <1>16, <1>17, <1>18, <1>19, <1>20, <1>21, <1>22, <1>23, <1>24, <1>25, <1>26, <1>27, <1>28
  DEF Next, AgentStep, HandlerStep, Environment

LEMMA InitCrossInv == Init => CrossInv
<1> SUFFICES ASSUME Init PROVE NoReset /\ Fresh
  BY DEF CrossInv
<1>1. NoReset
  BY DEF Init, NoReset
<1>2. Fresh
  BY DEF Init, Fresh, NoRecord, NoHello, NoBeat, NoPoll, NoClaim
<1>3. QED
  BY <1>1, <1>2

LEMMA CrossInvariance == Spec => [](TypeOK /\ CodeInv /\ CrossInv)
  BY InitTypeOK, InitCodeInv, InitCrossInv, NextTypeOK, NextCodeInv, NextCrossInv, PTL
  DEF Spec

\* PairedAgentIsOwned of the runs: a display that takes itself for paired has an
\* owner, for any number of users, connections, faults and codes.
THEOREM PairedAgentsAreOwned == Spec => []PairedAgentIsOwned
<1>1. CrossInv => PairedAgentIsOwned
  BY DEF CrossInv, PairedAgentIsOwned, Fresh, Lasting, Owned
<1>2. QED
  BY <1>1, CrossInvariance, PTL

\* UncrossedClaimLasts of the runs: the claims that are undone without a factory
\* reset are undone by a handler that a claim crossed or by a record marked
\* offline too early.
THEOREM UncrossedClaimsLast == Spec => UncrossedClaimLasts
<1>1. TypeOK /\ CodeInv /\ CrossInv /\ [Next]_vars
        => [Owned(record) /\ ~Owned(record)' => crossed \/ resets > 0]_record
  <2> SUFFICES ASSUME TypeOK, CodeInv, CrossInv, [Next]_vars, Owned(record), ~Owned(record)',
                      ~crossed, resets = 0
               PROVE  FALSE
    BY DEF TypeOK
  <2> USE DEF Owned
  <2>1. NoReset /\ Lasting
    BY DEF CrossInv, Fresh
  <2>2. CASE UNCHANGED record
    BY <2>2
  <2>3. CASE HelloWrite
    BY <2>1, <2>3 DEF HelloWrite, HelloWritten, Lasting, TypeOK, Records
  <2>4. CASE BeatWrite
    BY <2>4 DEF BeatWrite, TypeOK, Records
  <2>5. CASE CloseWrite \/ FoundOffline
    BY <2>5 DEF CloseWrite, FoundOffline, Offline, TypeOK, Records
  <2>6. CASE RegisterWrite
    BY <2>1, <2>6 DEF RegisterWrite, Lasting
  <2>7. CASE ResetRecord
    BY <2>1, <2>7 DEF ResetRecord, NoReset
  <2>8. ASSUME NEW u \in Users, ClaimWrite(u) PROVE FALSE
    BY <2>8, ClaimWriteEffect, PairingAssumption
  <2>9. QED
    BY <2>2, <2>3, <2>4, <2>5, <2>6, <2>7, <2>8, RecordWriters
<1>2. QED
  BY <1>1, CrossInvariance, PTL DEF Spec, UncrossedClaimLasts

-----------------------------------------------------------------------------
\* Before a factory reset nothing speaks of one, the record has the token that
\* its registration gave it, and what connects has a record; the display has been
\* given its WiFi, and until it has a code nobody knows of it.
Unreset ==
  resets = 0 =>
    /\ NoReset
    /\ record.exists => record.token
    /\ (link \/ hello.stage # "none" \/ Owned(record)) => record.exists
    /\ agent.mode # "setup" /\ (~agent.paired => agent.mode = "pairing")
    /\ (~agent.paired /\ agent.code = NoCode) => ~record.exists /\ poll.stage = "idle"

\* A step before a factory reset starts before it.
LEMMA UnresetBefore ==
  ASSUME TypeOK, [Next]_vars, resets' = 0
  PROVE  resets = 0
<1> USE DEF TypeOK, serverVars, countVars
<1>1. CASE AgentStep
  BY <1>1 DEF AgentStep, Connect, BeatSend, PollStart, Told, Complete
<1>2. CASE HandlerStep
  BY <1>2 DEF HandlerStep, HelloRead, HelloWrite, BeatRead, BeatWrite, CloseCheck, CloseWrite,
              RegisterRead, RegisterWrite, Ask, ResetAgent, ResetRecord, ClaimWrite, ClaimEmit
<1>3. CASE Environment
  BY <1>3 DEF Environment, RefreshHello, Drop, Restart, CommandFindsNone, FoundOffline,
              PollFails, NewCode, Provision, ResetSend, ClaimFind
<1>4. CASE UNCHANGED vars
  BY <1>4 DEF vars
<1>5. QED
  BY <1>1, <1>2, <1>3, <1>4 DEF Next

LEMMA InitUnreset == Init => Unreset
  BY DEF Init, Unreset, NoReset, NoRecord, NoHello, NoPoll, Owned

LEMMA NextUnreset == TypeOK /\ Unreset /\ [Next]_vars => Unreset'
<1> DEFINE U == /\ NoReset
                /\ record.exists => record.token
                /\ (link \/ hello.stage # "none" \/ record.owner # Nobody) => record.exists
                /\ agent.mode # "setup" /\ (~agent.paired => agent.mode = "pairing")
                /\ (~agent.paired /\ agent.code = NoCode) => ~record.exists /\ poll.stage = "idle"
<1> SUFFICES ASSUME TypeOK, Unreset, [Next]_vars, resets' = 0 PROVE U'
  BY DEF Unreset, Owned
<1>0. resets = 0 /\ U
  BY UnresetBefore DEF Unreset, Owned
<1>a. NoCode \notin Codes
  BY PairingAssumption DEF Codes
<1> USE <1>0, <1>a DEF TypeOK, Records, Agents, Hellos, Polls, NoReset, Owned, serverVars, countVars
<1> HIDE DEF Codes
<1>1. CASE Connect
  BY <1>1 DEF Connect, SayHello, TakeCode, NoHello
<1>2. CASE RefreshHello
  BY <1>2 DEF RefreshHello, SayHello, TakeCode, NoHello
<1>3. CASE Drop
  BY <1>3 DEF Drop, LoseLink, NoHello, NoBeat
<1>4. CASE Restart
  BY <1>4 DEF Restart, LoseLink, NoHello, NoBeat, NoPoll
<1>5. CASE HelloRead
  BY <1>5 DEF HelloRead
<1>6. CASE HelloWrite
  <2>1. record.exists
    BY <1>6 DEF HelloWrite
  <2>2. HelloWritten.exists /\ HelloWritten.token
    BY <2>1 DEF HelloWritten
  <2>3. NoReset'
    BY <1>6, HelloWriteNoReset
  <2>4. QED
    BY <1>6, <2>1, <2>2, <2>3 DEF HelloWrite, NoHello
<1>7. CASE BeatSend
  BY <1>7 DEF BeatSend
<1>8. CASE BeatRead
  BY <1>8 DEF BeatRead
<1>9. CASE BeatWrite
  BY <1>9 DEF BeatWrite
<1>10. CASE CloseCheck
  BY <1>10 DEF CloseCheck
<1>11. CASE CloseWrite
  BY <1>11 DEF CloseWrite, Offline
<1>12. CASE FoundOffline
  BY <1>12 DEF FoundOffline, Offline
<1>13. CASE CommandFindsNone
  BY <1>13 DEF CommandFindsNone
<1>14. CASE PollStart
  BY <1>14 DEF PollStart, TakeCode
<1>15. CASE RegisterRead
  BY <1>15 DEF RegisterRead, NoPoll
<1>16. CASE RegisterWrite
  BY <1>16 DEF RegisterWrite, NoPoll
<1>17. CASE Ask
  BY <1>17 DEF Ask, NoPoll
<1>18. CASE PollFails
  BY <1>18 DEF PollFails, NoPoll
<1>19. CASE Told
  BY <1>19 DEF Told, Paired
<1>20. CASE Complete
  BY <1>20 DEF Complete, Paired
<1>21. CASE NewCode
  BY <1>21, PairingAssumption DEF NewCode
<1>22. CASE Provision
  BY <1>22 DEF Provision
<1>23. CASE ResetAgent
  BY <1>23 DEF ResetAgent
<1>24. CASE ResetRecord
  BY <1>24 DEF ResetRecord
<1>25. ASSUME NEW u \in Users, ClaimFind(u) PROVE U'
  BY <1>25 DEF ClaimFind
<1>26. ASSUME NEW u \in Users, ClaimWrite(u) PROVE U'
  <2>1. CASE UNCHANGED record
    BY <1>26, <2>1 DEF ClaimWrite
  <2>2. CASE record.exists /\ record'.exists /\ record'.token = record.token
    BY <1>26, <2>2 DEF ClaimWrite
  <2>3. QED
    BY <1>26, <2>1, <2>2 DEF ClaimWrite
<1>27. ASSUME NEW u \in Users, ClaimEmit(u) PROVE U'
  <2>1. NoReset'
    BY <1>27, EmitNoReset
  <2>2. QED
    BY <1>27, <2>1 DEF ClaimEmit
<1>28. CASE ResetSend
  BY <1>28 DEF ResetSend
<1>29. CASE UNCHANGED vars
  BY <1>29 DEF vars
<1>30. QED
  BY <1>1, <1>2, <1>3, <1>4, <1>5, <1>6, <1>7, <1>8, <1>9, <1>10, <1>11, <1>12, <1>13, <1>14,
     <1>15, <1>16, <1>17, <1>18, <1>19, <1>20, <1>21, <1>22, <1>23, <1>24, <1>25, <1>26, <1>27,
     <1>28, <1>29
  DEF Next, AgentStep, HandlerStep, Environment

\* The safety half of OwnedAgentLearns: a claimed display can learn of its owner
\* at every moment, and no poll or hello of its own undoes an uncrossed claim.
THEOREM OwnersCanBeLearned == Spec => []OwnerCanBeLearned
<1>1. TypeOK /\ Unreset /\ CrossInv => OwnerCanBeLearned
  BY DEF Unreset, CrossInv, OwnerCanBeLearned, Fresh, Lasting, Owned, TypeOK, Records, Agents
<1>2. QED
  BY <1>1, InitUnreset, NextUnreset, CrossInvariance, PTL DEF Spec

\* A display that its owner's claim locks out has been reset before.
THEOREM LockedByResetOnly == Spec => []LockedOnlyByReset
<1>1. TypeOK /\ Unreset => LockedOnlyByReset
  BY DEF Unreset, LockedOnlyByReset, Locked, Owned, TypeOK
<1>2. QED
  BY <1>1, InitUnreset, NextUnreset, TypeCorrect, PTL DEF Spec

-----------------------------------------------------------------------------
(* The limit on the registrations.                                         *)

LEMMA YoungerSums ==
  ASSUME NEW f \in [0..Window - 1 -> Nat]
  PROVE  /\ Younger(f) \in [0..Window -> Nat]
         /\ Younger(f)[0] = 0
         /\ \A k \in 0..Window - 1 : Younger(f)[k + 1] = Younger(f)[k] + f[k]
<1>0. Window \in Nat /\ Window >= 1
  BY RateAssumption
<1> DEFINE Sums(n, g) == /\ g \in [0..n -> Nat] /\ g[0] = 0
                         /\ \A k \in 0..n - 1 : g[k + 1] = g[k] + f[k]
           Has(n) == \E g : Sums(n, g)
           Missing == {n \in 0..Window : ~Has(n)}
<1>1. Missing = {}
  <2> SUFFICES ASSUME Missing # {} PROVE FALSE
    OBVIOUS
  <2>1. Missing \in SUBSET Nat
    BY <1>0
  <2>2. PICK n \in Missing : \A m \in Missing : n <= m
    BY <2>1, LeastNumber
  <2>3. n \in Nat /\ n <= Window
    BY <1>0, <2>2
  <2>4. Has(0)
    <3>1. [k \in 0..0 |-> 0] \in [0..0 -> Nat] /\ [k \in 0..0 |-> 0][0] = 0
      OBVIOUS
    <3>2. 0..0 - 1 = {}
      OBVIOUS
    <3>3. Sums(0, [k \in 0..0 |-> 0])
      BY <3>1, <3>2
    <3>4. QED
      BY <3>3
  <2> HIDE DEF Has
  <2>5. n >= 1
    BY <2>2, <2>3, <2>4
  <2>6. n - 1 \in 0..Window /\ n - 1 \notin Missing
    BY <1>0, <2>2, <2>3, <2>5
  <2>7. PICK g : Sums(n - 1, g)
    BY <2>6 DEF Has
  <2> DEFINE h == [k \in 0..n |-> IF k = n THEN g[n - 1] + f[n - 1] ELSE g[k]]
  <2>8. g[n - 1] \in Nat /\ f[n - 1] \in Nat
    BY <1>0, <2>3, <2>5, <2>7
  <2>9. h \in [0..n -> Nat] /\ h[0] = 0
    BY <2>3, <2>5, <2>7, <2>8
  <2>10. \A k \in 0..n - 1 : h[k + 1] = h[k] + f[k]
    BY <2>3, <2>5, <2>7, <2>8
  <2>11. Sums(n, h)
    BY <2>9, <2>10
  <2>12. Has(n)
    BY <2>11 DEF Has
  <2>13. n \notin Missing
    BY <2>12
  <2>14. QED
    BY <2>2, <2>13
<1> HIDE DEF Has
<1>10. Has(Window)
  BY <1>0, <1>1
<1>2. PICK g : Sums(Window, g)
  BY <1>10 DEF Has
<1>3. g = [k \in 0..Window |-> IF k = 0 THEN 0 ELSE g[k - 1] + f[k - 1]]
  <2>1. \A k \in 0..Window : k # 0 => k - 1 \in 0..Window - 1 /\ (k - 1) + 1 = k
    BY <1>0
  <2>2. \A k \in 0..Window : g[k] = IF k = 0 THEN 0 ELSE g[k - 1] + f[k - 1]
    BY <1>2, <2>1
  <2>3. QED
    BY <1>2, <2>2
<1>4. Younger(f) = [k \in 0..Window |-> IF k = 0 THEN 0 ELSE Younger(f)[k - 1] + f[k - 1]]
  BY <1>3 DEF Younger
<1> HIDE DEF Sums
<1> DEFINE s == Younger(f)
<1>5. s = [k \in 0..Window |-> IF k = 0 THEN 0 ELSE s[k - 1] + f[k - 1]]
  BY <1>4
<1> HIDE DEF s
<1>6. s[0] = 0 /\ \A k \in 0..Window - 1 : s[k + 1] = s[k] + f[k]
  BY <1>0, <1>5
<1> DEFINE Wrong == {k \in 0..Window : s[k] \notin Nat}
<1>7. Wrong = {}
  <2> SUFFICES ASSUME Wrong # {} PROVE FALSE
    OBVIOUS
  <2>0. Wrong \in SUBSET Nat
    BY <1>0
  <2>1. PICK n \in Wrong : \A m \in Wrong : n <= m
    BY <2>0, LeastNumber
  <2>2. n \in Nat /\ n <= Window /\ n # 0
    BY <1>0, <1>6, <2>1
  <2>3. n - 1 \in 0..Window - 1 /\ n - 1 \in 0..Window /\ n - 1 \notin Wrong /\ (n - 1) + 1 = n
    BY <1>0, <2>1, <2>2
  <2>4. s[n] = s[n - 1] + f[n - 1] /\ s[n - 1] \in Nat /\ f[n - 1] \in Nat
    BY <1>6, <2>3
  <2>5. QED
    BY <2>1, <2>4
<1>8. s \in [0..Window -> Nat]
  BY <1>5, <1>7
<1>9. QED
  BY <1>6, <1>8 DEF s

\* One more of age 0 is one more below every age.
LEMMA YoungerMore ==
  ASSUME NEW f \in [0..Window - 1 -> Nat], NEW g, g = [f EXCEPT ![0] = @ + 1]
  PROVE  /\ g \in [0..Window - 1 -> Nat]
         /\ \A k \in 1..Window : Younger(g)[k] = Younger(f)[k] + 1
<1>0. Window \in Nat /\ Window >= 1
  BY RateAssumption
<1>1. g \in [0..Window - 1 -> Nat]
  BY <1>0
<1> DEFINE s == Younger(f)
           t == Younger(g)
<1>2. /\ s \in [0..Window -> Nat] /\ s[0] = 0
      /\ \A k \in 0..Window - 1 : s[k + 1] = s[k] + f[k]
  BY YoungerSums
<1>3. /\ t \in [0..Window -> Nat] /\ t[0] = 0
      /\ \A k \in 0..Window - 1 : t[k + 1] = t[k] + g[k]
  BY <1>1, YoungerSums
<1> HIDE DEF s, t
<1> DEFINE Wrong == {k \in 1..Window : t[k] # s[k] + 1}
<1>4. Wrong = {}
  <2> SUFFICES ASSUME Wrong # {} PROVE FALSE
    OBVIOUS
  <2>0. Wrong \in SUBSET Nat
    BY <1>0
  <2>1. PICK n \in Wrong : \A m \in Wrong : n <= m
    BY <2>0, LeastNumber
  <2>2. n \in Nat /\ n <= Window /\ n >= 1 /\ n - 1 \in 0..Window - 1 /\ (n - 1) + 1 = n
    <3>1. n \in Nat /\ n <= Window /\ n >= 1
      BY <1>0, <2>1
    <3>2. QED
      BY <1>0, <3>1
  <2>3. t[n] = t[n - 1] + g[n - 1] /\ s[n] = s[n - 1] + f[n - 1]
    <3>1. \A k \in 0..Window - 1 : \A i : k + 1 = i => t[i] = t[k] + g[k] /\ s[i] = s[k] + f[k]
      BY <1>2, <1>3
    <3>2. PICK k \in 0..Window - 1 : k + 1 = n /\ k = n - 1
      BY <2>2
    <3>3. t[n] = t[k] + g[k] /\ s[n] = s[k] + f[k]
      BY <3>1, <3>2
    <3>4. QED
      BY <2>2, <3>2, <3>3
  <2>4. s[n - 1] \in Nat /\ f[n - 1] \in Nat
    <3>1. f[n - 1] \in Nat
      BY <2>2
    <3>2. n - 1 \in 0..Window
      BY <1>0, <2>2
    <3>3. s \in [0..Window -> Nat]
      BY <1>2
    <3>4. QED
      BY <3>1, <3>2, <3>3
  <2>5. CASE n = 1
    <3>1. g[0] = f[0] + 1
      BY <1>0
    <3>2. QED
      BY <1>2, <1>3, <2>1, <2>3, <2>4, <2>5, <3>1
  <2>6. CASE n # 1
    <3>1. n - 1 \in 1..Window /\ n - 1 \notin Wrong
      BY <1>0, <2>1, <2>2, <2>6
    <3>2. t[n - 1] = s[n - 1] + 1 /\ g[n - 1] = f[n - 1]
      BY <2>2, <2>6, <3>1
    <3>3. QED
      BY <2>1, <2>3, <2>4, <3>2
  <2>7. QED
    BY <2>5, <2>6
<1>5. QED
  BY <1>1, <1>4 DEF s, t

\* A turn later each is a turn older.
LEMMA YoungerOlder ==
  ASSUME NEW f \in [0..Window - 1 -> Nat],
         NEW g, g = [age \in 0..Window - 1 |-> IF age = 0 THEN 0 ELSE f[age - 1]]
  PROVE  /\ g \in [0..Window - 1 -> Nat]
         /\ \A k \in 0..Window - 1 : Younger(g)[k + 1] = Younger(f)[k]
<1>0. Window \in Nat /\ Window >= 1
  BY RateAssumption
<1>1. g \in [0..Window - 1 -> Nat]
  BY <1>0
<1> DEFINE s == Younger(f)
           t == Younger(g)
<1>2. /\ s \in [0..Window -> Nat] /\ s[0] = 0
      /\ \A k \in 0..Window - 1 : s[k + 1] = s[k] + f[k]
  BY YoungerSums
<1>3. /\ t \in [0..Window -> Nat] /\ t[0] = 0
      /\ \A k \in 0..Window - 1 : t[k + 1] = t[k] + g[k]
  BY <1>1, YoungerSums
<1> HIDE DEF s, t
<1> DEFINE Wrong == {k \in 0..Window - 1 : t[k + 1] # s[k]}
<1>4. Wrong = {}
  <2> SUFFICES ASSUME Wrong # {} PROVE FALSE
    OBVIOUS
  <2>0. Wrong \in SUBSET Nat
    BY <1>0
  <2>1. PICK n \in Wrong : \A m \in Wrong : n <= m
    BY <2>0, LeastNumber
  <2>2. n \in Nat /\ n <= Window - 1 /\ n \in 0..Window - 1
    BY <1>0, <2>1
  <2>3. t[n + 1] = t[n] + g[n]
    BY <1>3, <2>2
  <2>4. CASE n = 0
    <3>1. g[0] = 0
      BY <1>0
    <3>2. QED
      BY <1>2, <1>3, <2>1, <2>3, <2>4, <3>1
  <2>5. CASE n # 0
    <3>1. n - 1 \in 0..Window - 1 /\ n - 1 \notin Wrong /\ (n - 1) + 1 = n
      BY <1>0, <2>1, <2>2, <2>5
    <3>2. t[n] = s[n - 1] /\ g[n] = f[n - 1] /\ s[n] = s[n - 1] + f[n - 1]
      BY <1>2, <2>2, <2>5, <3>1
    <3>3. QED
      BY <2>1, <2>3, <3>2
  <2>6. QED
    BY <2>4, <2>5
<1>5. QED
  BY <1>1, <1>4 DEF s, t

LEMMA YoungerRises ==
  ASSUME NEW f \in [0..Window - 1 -> Nat], NEW k \in 0..Window, NEW m \in 0..Window, k <= m
  PROVE  Younger(f)[k] <= Younger(f)[m]
<1>0. Window \in Nat /\ Window >= 1
  BY RateAssumption
<1> DEFINE s == Younger(f)
<1>1. /\ s \in [0..Window -> Nat]
      /\ \A i \in 0..Window - 1 : s[i + 1] = s[i] + f[i]
  BY YoungerSums
<1> HIDE DEF s
<1> DEFINE Wrong == {i \in k..Window : s[k] > s[i]}
<1>2. Wrong = {}
  <2> SUFFICES ASSUME Wrong # {} PROVE FALSE
    OBVIOUS
  <2>0. Wrong \in SUBSET Nat
    BY <1>0
  <2>1. PICK n \in Wrong : \A i \in Wrong : n <= i
    BY <2>0, LeastNumber
  <2>2. n \in Nat /\ n <= Window /\ k <= n /\ s[k] > s[n] /\ k # n
    BY <1>0, <1>1, <2>1
  <2>3. n - 1 \in k..Window /\ n - 1 \in 0..Window - 1 /\ n - 1 \notin Wrong /\ (n - 1) + 1 = n
    BY <1>0, <2>1, <2>2
  <2>4. ~(s[k] > s[n - 1]) /\ s[n] = s[n - 1] + f[n - 1]
    BY <1>1, <2>3
  <2>5. s[k] \in Nat /\ s[n - 1] \in Nat /\ f[n - 1] \in Nat
    BY <1>0, <1>1, <2>3
  <2>6. QED
    BY <2>2, <2>4, <2>5
<1>3. m \in k..Window /\ s[k] \in Nat /\ s[m] \in Nat
  BY <1>0, <1>1
<1>4. QED
  BY <1>2, <1>3 DEF s

-----------------------------------------------------------------------------
Bounds == {Limit, Window, Slowest, MaxBuckets} \subseteq Nat /\ Limit >= 1 /\ Window >= 1 /\ Slowest >= 1

LEMMA RateBounds == Bounds /\ LongestWait \in Nat /\ LongestWait = Window + Slowest
<1>1. Bounds
  BY RateAssumption DEF Bounds
<1>2. QED
  BY <1>1 DEF Bounds, LongestWait

LEMMA AddressesOf == \A d \in Displays : Address[d] \in Addresses
  BY DEF Addresses

\* A window of the address is under way, and how much of it is over.
Open(a) == a \in DOMAIN buckets /\ ~Expired(buckets[a])
Elapsed(a) == Window - buckets[a].left

LEMMA OpenBucket ==
  ASSUME RateTypeOK, NEW a, Open(a)
  PROVE  /\ buckets[a].count \in 1..Limit + 1 /\ buckets[a].left \in 1..Window
         /\ Elapsed(a) \in 0..Window - 1 /\ Elapsed(a) + 1 \in 1..Window
<1>1. buckets[a] \in [count : 1..Limit + 1, left : 0..Window] /\ buckets[a].left # 0
  BY DEF RateTypeOK, Open, Expired
<1>2. buckets[a].count \in 1..Limit + 1 /\ buckets[a].left \in 1..Window
  BY <1>1, RateBounds DEF Bounds
<1>3. QED
  BY <1>2, RateBounds DEF Bounds, Elapsed

LEMMA CountedBucket ==
  ASSUME RateTypeOK, NEW a
  PROVE  /\ Counted(a) \in [count : 1..Limit + 1, left : 1..Window]
         /\ Open(a) => /\ Counted(a).left = buckets[a].left
                       /\ Counted(a).count = IF buckets[a].count > Limit THEN buckets[a].count
                                             ELSE buckets[a].count + 1
         /\ ~Open(a) => Counted(a).left = Window /\ Counted(a).count = 1
<1>1. CASE Open(a)
  <2>1. buckets[a] \in [count : 1..Limit + 1, left : 0..Window] /\ buckets[a].left # 0
    BY <1>1 DEF RateTypeOK, Open, Expired
  <2>2. Counted(a) = [buckets[a] EXCEPT !.count = IF @ > Limit THEN @ ELSE @ + 1]
    BY <1>1 DEF Counted, Open
  <2>3. QED
    BY <1>1, <2>1, <2>2, RateBounds DEF Bounds
<1>2. CASE ~Open(a)
  <2>1. Counted(a) = [FreshBucket EXCEPT !.count = IF @ > Limit THEN @ ELSE @ + 1]
    BY <1>2 DEF Counted, Open
  <2>2. Counted(a) = [count |-> 1, left |-> Window]
    BY <2>1, RateBounds DEF Bounds, FreshBucket
  <2>3. QED
    BY <1>2, <2>2, RateBounds DEF Bounds
<1>3. QED
  BY <1>1, <1>2

\* What the table forgets is over.
LEMMA RegisterBuckets ==
  ASSUME RateTypeOK, NEW d \in Displays, RegisterCode(d)
  PROVE  /\ \A x \in DOMAIN buckets' :
              /\ x \in Addresses
              /\ buckets'[x] = IF x = Address[d] THEN Counted(x) ELSE buckets[x]
              /\ x # Address[d] => x \in DOMAIN buckets
         /\ Open(Address[d])' /\ buckets'[Address[d]] = Counted(Address[d])
         /\ \A x : x # Address[d] => (Open(x)' <=> Open(x)) /\ (Open(x) => buckets'[x] = buckets[x])
<1> DEFINE a == Address[d]
           table == [x \in DOMAIN buckets \cup {a} |-> IF x = a THEN Counted(a) ELSE buckets[x]]
<1>1. buckets' = WithinBounds(table, a) /\ a \in Addresses /\ DOMAIN buckets \subseteq Addresses
  BY AddressesOf DEF RegisterCode, RateTypeOK
<1>2. Counted(a).left # 0
  BY CountedBucket
<1> HIDE DEF a
<1>3. \A x \in DOMAIN table : ~Expired(table[x]) => x \in DOMAIN buckets' /\ buckets'[x] = table[x]
  BY <1>1 DEF WithinBounds
<1>4. \A x \in DOMAIN buckets' : x \in DOMAIN table /\ buckets'[x] = table[x]
  BY <1>1 DEF WithinBounds
<1>5. DOMAIN table = DOMAIN buckets \cup {a}
      /\ \A x \in DOMAIN table : table[x] = IF x = a THEN Counted(a) ELSE buckets[x]
  OBVIOUS
<1> HIDE DEF table
<1>6. a \in DOMAIN buckets' /\ buckets'[a] = Counted(a) /\ Open(a)'
  BY <1>2, <1>3, <1>5 DEF Open, Expired
<1>7. \A x : x # a => (Open(x)' <=> Open(x)) /\ (Open(x) => buckets'[x] = buckets[x])
  BY <1>3, <1>4, <1>5 DEF Open, Expired
<1>8. \A x \in DOMAIN buckets' :
        /\ x \in Addresses /\ buckets'[x] = (IF x = a THEN Counted(x) ELSE buckets[x])
        /\ x # a => x \in DOMAIN buckets
  BY <1>1, <1>4, <1>5
<1>9. QED
  BY <1>6, <1>7, <1>8 DEF a

LEMMA TurnBuckets ==
  ASSUME RateTypeOK, Turn
  PROVE  /\ DOMAIN buckets' = DOMAIN buckets
         /\ \A a \in DOMAIN buckets : buckets'[a] \in [count : 1..Limit + 1, left : 0..Window]
         /\ \A a : /\ Open(a)' <=> Open(a) /\ buckets[a].left # 1
                   /\ Open(a)' => /\ buckets'[a].count = buckets[a].count
                                  /\ buckets'[a].left = buckets[a].left - 1
<1>1. buckets' = [a \in DOMAIN buckets |-> [buckets[a] EXCEPT !.left = IF @ = 0 THEN 0 ELSE @ - 1]]
  BY DEF Turn
<1>2. DOMAIN buckets' = DOMAIN buckets
  BY <1>1
<1>3. \A a \in DOMAIN buckets :
        /\ buckets'[a] \in [count : 1..Limit + 1, left : 0..Window]
        /\ buckets'[a].count = buckets[a].count
        /\ buckets'[a].left = (IF buckets[a].left = 0 THEN 0 ELSE buckets[a].left - 1)
  <2> TAKE a \in DOMAIN buckets
  <2>1. buckets[a] \in [count : 1..Limit + 1, left : 0..Window]
    BY DEF RateTypeOK
  <2>2. buckets'[a] = [buckets[a] EXCEPT !.left = IF @ = 0 THEN 0 ELSE @ - 1]
    BY <1>1
  <2>3. QED
    BY <2>1, <2>2, RateBounds DEF Bounds
<1>4. \A a \in DOMAIN buckets : buckets[a].left \in 0..Window
  BY DEF RateTypeOK
<1>5. \A a \in DOMAIN buckets : buckets'[a].left = 0 <=> buckets[a].left \in {0, 1}
  BY <1>3, <1>4, RateBounds DEF Bounds
<1>6. \A a : Open(a)' <=> Open(a) /\ buckets[a].left # 1
  BY <1>2, <1>5 DEF Open, Expired
<1>7. \A a : Open(a)' => /\ buckets'[a].count = buckets[a].count
                         /\ buckets'[a].left = buckets[a].left - 1
  BY <1>2, <1>3, <1>6 DEF Open, Expired
<1>8. QED
  BY <1>2, <1>3, <1>6, <1>7

-----------------------------------------------------------------------------
LEMMA RateTypesInitially == RateInit => RateTypeOK
<1> SUFFICES ASSUME RateInit PROVE RateTypeOK
  OBVIOUS
<1>1. DOMAIN buckets = {}
  BY DEF RateInit
<1>2. asked \in [Displays -> 0..Slowest] /\ through \in [Displays -> 0..LongestWait + 1]
  BY RateBounds DEF Bounds, RateInit
<1>3. recent \in [Addresses -> [0..Window - 1 -> Nat]]
  BY DEF RateInit
<1>4. QED
  BY <1>1, <1>2, <1>3 DEF RateTypeOK

LEMMA RateTypesKept == RateTypeOK /\ [RateNext]_rateVars => RateTypeOK'
<1> SUFFICES ASSUME RateTypeOK, [RateNext]_rateVars PROVE RateTypeOK'
  OBVIOUS
<1>0. /\ asked \in [Displays -> 0..Slowest] /\ through \in [Displays -> 0..LongestWait + 1]
      /\ recent \in [Addresses -> [0..Window - 1 -> Nat]]
  BY DEF RateTypeOK
<1>1. CASE Turn
  <2>1. /\ DOMAIN buckets' \subseteq Addresses
        /\ \A a \in DOMAIN buckets' : buckets'[a] \in [count : 1..Limit + 1, left : 0..Window]
    BY <1>1, TurnBuckets DEF RateTypeOK
  <2>2. asked' \in [Displays -> 0..Slowest]
    BY <1>0, <1>1, RateBounds DEF Turn, Bounds
  <2>3. through' \in [Displays -> 0..LongestWait + 1]
    BY <1>0, <1>1, RateBounds DEF Turn
  <2>4. recent' \in [Addresses -> [0..Window - 1 -> Nat]]
    <3>1. \A a \in Addresses : recent[a] \in [0..Window - 1 -> Nat]
      BY <1>0
    <3>2. recent' = [a \in Addresses |-> [age \in 0..Window - 1 |-> IF age = 0 THEN 0 ELSE recent[a][age - 1]]]
      BY <1>1 DEF Turn
    <3>3. \A a \in Addresses : [age \in 0..Window - 1 |-> IF age = 0 THEN 0 ELSE recent[a][age - 1]] \in [0..Window - 1 -> Nat]
      BY <3>1, YoungerOlder
    <3>4. QED
      BY <3>2, <3>3
  <2>5. QED
    BY <2>1, <2>2, <2>3, <2>4 DEF RateTypeOK
<1>2. ASSUME NEW d \in Displays, RegisterCode(d) PROVE RateTypeOK'
  <2>1. DOMAIN buckets' \subseteq Addresses
    BY <1>2, RegisterBuckets
  <2>2. ASSUME NEW x \in DOMAIN buckets' PROVE buckets'[x] \in [count : 1..Limit + 1, left : 0..Window]
    <3>1. buckets'[x] = (IF x = Address[d] THEN Counted(x) ELSE buckets[x]) /\ (x # Address[d] => x \in DOMAIN buckets)
      BY <1>2, <2>2, RegisterBuckets
    <3>2. CASE x = Address[d]
      BY <3>1, <3>2, CountedBucket, RateBounds DEF Bounds
    <3>3. CASE x # Address[d]
      BY <3>1, <3>3 DEF RateTypeOK
    <3>4. QED
      BY <3>2, <3>3
  <2>3. asked' \in [Displays -> 0..Slowest]
    <3>1. asked' = [asked EXCEPT ![d] = 0]
      BY <1>2 DEF RegisterCode
    <3>2. 0 \in 0..Slowest
      BY RateBounds DEF Bounds
    <3>3. asked \in [Displays -> 0..Slowest]
      BY <1>0
    <3>4. QED
      BY <3>1, <3>2, <3>3
  <2>4. through' \in [Displays -> 0..LongestWait + 1]
    <3>1. through' = [through EXCEPT ![d] = 0] \/ through' = through
      BY <1>2 DEF RegisterCode
    <3>2. 0 \in 0..LongestWait + 1
      BY RateBounds
    <3>3. through \in [Displays -> 0..LongestWait + 1]
      BY <1>0
    <3>4. QED
      BY <3>1, <3>2, <3>3
  <2>5. recent' \in [Addresses -> [0..Window - 1 -> Nat]]
    <3>1. recent[Address[d]] \in [0..Window - 1 -> Nat] /\ Address[d] \in Addresses
      BY <1>0, <1>2, AddressesOf
    <3>2. recent' = recent \/ recent' = [recent EXCEPT ![Address[d]][0] = @ + 1]
      BY <1>2 DEF RegisterCode
    <3>3. [recent[Address[d]] EXCEPT ![0] = @ + 1] \in [0..Window - 1 -> Nat]
      BY <3>1, YoungerMore
    <3>4. QED
      BY <1>0, <3>1, <3>2, <3>3
  <2>6. QED
    BY <2>1, <2>2, <2>3, <2>4, <2>5 DEF RateTypeOK
<1>3. CASE UNCHANGED rateVars
  BY <1>3 DEF rateVars, RateTypeOK
<1>4. QED
  BY <1>1, <1>2, <1>3 DEF RateNext

\* The table, and the turns of each display, have their types.
THEOREM RateTypesCorrect == RateSpec => []RateTypeOK
  BY RateTypesInitially, RateTypesKept, PTL DEF RateSpec

\* In the window under way no more were admitted than it counts; what is older
\* came in one window.  Otherwise all came in one.
AdmittedInv ==
  \A a \in Addresses :
    /\ Open(a) => /\ Younger(recent[a])[Elapsed(a) + 1] <= buckets[a].count
                  /\ Younger(recent[a])[Elapsed(a) + 1] <= Limit
                  /\ Younger(recent[a])[Window] <= Limit + Younger(recent[a])[Elapsed(a) + 1]
    /\ ~Open(a) => recent[a][0] = 0 /\ Younger(recent[a])[Window] <= Limit

LEMMA RecentSums ==
  ASSUME RateTypeOK, NEW a \in Addresses
  PROVE  /\ recent[a] \in [0..Window - 1 -> Nat]
         /\ Younger(recent[a]) \in [0..Window -> Nat]
         /\ Younger(recent[a])[0] = 0
         /\ Younger(recent[a])[1] = recent[a][0]
<1>1. recent[a] \in [0..Window - 1 -> Nat]
  BY DEF RateTypeOK
<1>2. /\ Younger(recent[a]) \in [0..Window -> Nat]
      /\ Younger(recent[a])[0] = 0
      /\ \A k \in 0..Window - 1 : Younger(recent[a])[k + 1] = Younger(recent[a])[k] + recent[a][k]
  BY <1>1, YoungerSums
<1>3. 0 \in 0..Window - 1 /\ recent[a][0] \in Nat /\ 0 + 1 = 1
  BY <1>1, RateBounds DEF Bounds
<1>4. QED
  BY <1>1, <1>2, <1>3

LEMMA AdmittedInitially == RateInit => AdmittedInv
<1> SUFFICES ASSUME RateInit PROVE AdmittedInv
  OBVIOUS
<1>1. ASSUME NEW a \in Addresses PROVE ~Open(a) /\ recent[a][0] = 0 /\ Younger(recent[a])[Window] <= Limit
  <2>1. recent[a] = [age \in 0..Window - 1 |-> 0] /\ ~Open(a)
    BY DEF RateInit, Open
  <2>2. Window \in Nat /\ Limit \in Nat /\ Window >= 1
    BY RateBounds DEF Bounds
  <2>3. recent[a] \in [0..Window - 1 -> Nat] /\ recent[a][0] = 0
    BY <2>1, <2>2
  <2>4. recent[a] = [age \in 0..Window - 1 |-> IF age = 0 THEN 0 ELSE recent[a][age - 1]]
    BY <2>1, <2>2
  <2> DEFINE s == Younger(recent[a])
  <2>5. /\ s \in [0..Window -> Nat] /\ s[0] = 0
        /\ \A k \in 0..Window - 1 : s[k + 1] = s[k] + recent[a][k]
    BY <2>3, YoungerSums
  <2>6. \A k \in 0..Window - 1 : s[k + 1] = s[k]
    BY <2>3, <2>4, YoungerOlder
  <2> HIDE DEF s
  <2> DEFINE Wrong == {k \in 0..Window : s[k] # 0}
  <2>7. Wrong = {}
    <3> SUFFICES ASSUME Wrong # {} PROVE FALSE
      OBVIOUS
    <3>1. Wrong \in SUBSET Nat
      BY <2>2
    <3>2. PICK n \in Wrong : \A m \in Wrong : n <= m
      BY <3>1, LeastNumber
    <3>3. n - 1 \in 0..Window - 1 /\ n - 1 \notin Wrong /\ (n - 1) + 1 = n /\ n - 1 \in 0..Window
      BY <2>2, <2>5, <3>2
    <3>4. QED
      BY <2>6, <3>2, <3>3
  <2>8. s[Window] = 0
    BY <2>2, <2>7
  <2>9. QED
    BY <2>1, <2>2, <2>3, <2>8 DEF s
<1>2. QED
  BY <1>1 DEF AdmittedInv

\* A turn makes what is in the window a turn older.
LEMMA AdmittedTurn ==
  ASSUME RateTypeOK, RateTypeOK', AdmittedInv, Turn
  PROVE  AdmittedInv'
<1> SUFFICES ASSUME NEW a \in Addresses
             PROVE  /\ Open(a)' => /\ Younger(recent'[a])[Elapsed(a)' + 1] <= buckets'[a].count
                                   /\ Younger(recent'[a])[Elapsed(a)' + 1] <= Limit
                                   /\ Younger(recent'[a])[Window] <= Limit + Younger(recent'[a])[Elapsed(a)' + 1]
                    /\ ~Open(a)' => recent'[a][0] = 0 /\ Younger(recent'[a])[Window] <= Limit
  BY DEF AdmittedInv
<1>0. Window \in Nat /\ Window >= 1 /\ Limit \in Nat
  BY RateBounds DEF Bounds
<1>1. recent'[a] = [age \in 0..Window - 1 |-> IF age = 0 THEN 0 ELSE recent[a][age - 1]]
  BY DEF Turn
<1> DEFINE s == Younger(recent[a])
           t == Younger(recent'[a])
<1>2. recent[a] \in [0..Window - 1 -> Nat] /\ s \in [0..Window -> Nat]
  <2>1. RateTypeOK /\ a \in Addresses
    OBVIOUS
  <2>2. recent[a] \in [0..Window - 1 -> Nat] /\ Younger(recent[a]) \in [0..Window -> Nat]
    BY <2>1, RecentSums
  <2>3. QED
    BY <2>2
<1>3. /\ recent'[a] \in [0..Window - 1 -> Nat]
      /\ \A k \in 0..Window - 1 : t[k + 1] = s[k]
  <2> DEFINE f == recent[a]
             g == recent'[a]
  <2>1. f \in [0..Window - 1 -> Nat] /\ g = [age \in 0..Window - 1 |-> IF age = 0 THEN 0 ELSE f[age - 1]]
    BY <1>1, <1>2
  <2> HIDE DEF f, g
  <2>2. /\ g \in [0..Window - 1 -> Nat]
        /\ \A k \in 0..Window - 1 : Younger(g)[k + 1] = Younger(f)[k]
    BY <2>1, YoungerOlder
  <2>3. QED
    BY <2>2 DEF f, g
<1>4. t \in [0..Window -> Nat]
  BY <1>3, YoungerSums
<1>5. \A k \in 0..Window : s[k] <= s[Window]
  <2> TAKE k \in 0..Window
  <2>1. Window \in 0..Window /\ k <= Window
    BY <1>0
  <2>2. QED
    BY <1>2, <2>1, YoungerRises
<1>6. t[Window] <= s[Window]
  <2>1. Window - 1 \in 0..Window - 1 /\ (Window - 1) + 1 = Window /\ Window - 1 \in 0..Window
    BY <1>0
  <2>2. t[Window] = s[Window - 1]
    BY <1>3, <2>1
  <2>3. QED
    BY <1>5, <2>1, <2>2
<1>7. s[Window] \in Nat /\ t[Window] \in Nat
  BY <1>0, <1>2, <1>4
<1>8. /\ Open(a)' <=> Open(a) /\ buckets[a].left # 1
      /\ Open(a)' => buckets'[a].count = buckets[a].count /\ buckets'[a].left = buckets[a].left - 1
  BY TurnBuckets
<1>9. recent'[a][0] = 0
  BY <1>0, <1>1
<1>10. /\ Open(a) => s[Elapsed(a) + 1] <= buckets[a].count /\ s[Elapsed(a) + 1] <= Limit
                     /\ s[Window] <= Limit + s[Elapsed(a) + 1]
       /\ ~Open(a) => s[Window] <= Limit
  BY DEF AdmittedInv
<1> HIDE DEF s, t
<1>11. ASSUME Open(a)'
       PROVE  t[Elapsed(a)' + 1] <= buckets'[a].count /\ t[Elapsed(a)' + 1] <= Limit
              /\ t[Window] <= Limit + t[Elapsed(a)' + 1]
  <2>1. Open(a) /\ buckets'[a].left = buckets[a].left - 1 /\ buckets'[a].count = buckets[a].count
        /\ buckets[a].left # 1
    BY <1>8, <1>11
  <2>2. buckets[a].left \in 1..Window
    BY <2>1, OpenBucket
  <2>3. Elapsed(a)' = Elapsed(a) + 1 /\ Elapsed(a) + 1 \in 0..Window - 1 /\ Elapsed(a) + 1 \in 0..Window
    BY <1>0, <2>1, <2>2 DEF Elapsed
  <2>4. t[Elapsed(a)' + 1] = s[Elapsed(a) + 1]
    BY <1>3, <2>3 DEF s, t
  <2>5. s[Elapsed(a) + 1] \in Nat
    BY <1>2, <2>3 DEF s
  <2>6. QED
    BY <1>0, <1>6, <1>7, <1>10, <2>1, <2>4, <2>5
<1>12. ASSUME ~Open(a)' PROVE t[Window] <= Limit
  <2>1. CASE ~Open(a)
    BY <1>0, <1>6, <1>7, <1>10, <2>1
  <2>2. CASE Open(a)
    <3>1. buckets[a].left = 1
      BY <1>8, <1>12, <2>2
    <3>2. Elapsed(a) + 1 = Window
      BY <1>0, <3>1 DEF Elapsed
    <3>3. QED
      BY <1>0, <1>6, <1>7, <1>10, <2>2, <3>2
  <2>3. QED
    BY <2>1, <2>2
<1>13. QED
  BY <1>9, <1>11, <1>12 DEF s, t

\* A request that is admitted is counted in the window under way.
LEMMA AdmittedRegister ==
  ASSUME RateTypeOK, RateTypeOK', AdmittedInv, NEW d \in Displays, RegisterCode(d)
  PROVE  AdmittedInv'
<1> SUFFICES ASSUME NEW a \in Addresses
             PROVE  /\ Open(a)' => /\ Younger(recent'[a])[Elapsed(a)' + 1] <= buckets'[a].count
                                   /\ Younger(recent'[a])[Elapsed(a)' + 1] <= Limit
                                   /\ Younger(recent'[a])[Window] <= Limit + Younger(recent'[a])[Elapsed(a)' + 1]
                    /\ ~Open(a)' => recent'[a][0] = 0 /\ Younger(recent'[a])[Window] <= Limit
  BY DEF AdmittedInv
<1>0. Window \in Nat /\ Window >= 1 /\ Limit \in Nat /\ Limit >= 1
  BY RateBounds DEF Bounds
<1>1. recent \in [Addresses -> [0..Window - 1 -> Nat]]
  BY DEF RateTypeOK
<1>2. CASE a # Address[d]
  <2>1. (Open(a)' <=> Open(a)) /\ (Open(a) => buckets'[a] = buckets[a])
    BY <1>2, RegisterBuckets
  <2>2. recent'[a] = recent[a]
    <3>1. recent' = recent \/ recent' = [recent EXCEPT ![Address[d]][0] = @ + 1]
      BY DEF RegisterCode
    <3>2. QED
      BY <1>1, <1>2, <3>1
  <2>3. Open(a) => Elapsed(a)' = Elapsed(a)
    BY <2>1 DEF Elapsed
  <2>4. QED
    BY <2>1, <2>2, <2>3 DEF AdmittedInv
<1>3. CASE a = Address[d]
  <2> DEFINE s == Younger(recent[a])
             t == Younger(recent'[a])
  <2>1. recent[a] \in [0..Window - 1 -> Nat] /\ s \in [0..Window -> Nat] /\ s[1] = recent[a][0]
    BY RecentSums
  <2>2. Open(a)' /\ buckets'[a] = Counted(a)
    BY <1>3, RegisterBuckets
  <2>3. \/ Counted(a).count <= Limit /\ recent'[a] = [recent[a] EXCEPT ![0] = @ + 1]
        \/ Counted(a).count > Limit /\ recent'[a] = recent[a]
    <3>1. Counted(a).count \in Nat
      BY CountedBucket, RateBounds DEF Bounds
    <3>2. CASE Counted(a).count <= Limit
      <4>1. recent' = [recent EXCEPT ![a][0] = @ + 1]
        BY <1>3, <3>2 DEF RegisterCode
      <4>2. QED
        BY <1>1, <3>2, <4>1
    <3>3. CASE ~(Counted(a).count <= Limit)
      <4>1. recent' = recent
        BY <1>3, <3>3 DEF RegisterCode
      <4>2. QED
        BY <1>0, <3>1, <3>3, <4>1
    <3>4. QED
      BY <3>2, <3>3
  <2>4. \/ Counted(a).count <= Limit /\ \A k \in 1..Window : t[k] = s[k] + 1
        \/ Counted(a).count > Limit /\ t = s
    BY <2>1, <2>3, YoungerMore
  <2>5. /\ Open(a) => s[Elapsed(a) + 1] <= buckets[a].count /\ s[Elapsed(a) + 1] <= Limit
                      /\ s[Window] <= Limit + s[Elapsed(a) + 1]
        /\ ~Open(a) => recent[a][0] = 0 /\ s[Window] <= Limit
    BY DEF AdmittedInv
  <2> HIDE DEF s, t
  <2>6. s[Window] \in Nat
    BY <1>0, <2>1
  <2>7. CASE Open(a)
    <3>1. /\ Counted(a).left = buckets[a].left
          /\ Counted(a).count = IF buckets[a].count > Limit THEN buckets[a].count ELSE buckets[a].count + 1
      BY <2>7, CountedBucket
    <3>2. /\ buckets[a].count \in 1..Limit + 1 /\ Elapsed(a) + 1 \in 1..Window
      BY <2>7, OpenBucket
    <3>3. Elapsed(a)' = Elapsed(a)
      BY <2>2, <3>1 DEF Elapsed
    <3> DEFINE e == Elapsed(a) + 1
    <3>4. s[e] \in Nat /\ e \in 1..Window /\ Window \in 1..Window
      BY <1>0, <2>1, <3>2
    <3>5. s[e] <= buckets[a].count /\ s[e] <= Limit /\ s[Window] <= Limit + s[e]
      BY <2>5, <2>7
    <3> HIDE DEF e
    <3>6. CASE Counted(a).count <= Limit /\ \A k \in 1..Window : t[k] = s[k] + 1
      <4>1. t[e] = s[e] + 1 /\ t[Window] = s[Window] + 1
        BY <3>4, <3>6
      <4>2. Counted(a).count = buckets[a].count + 1
        BY <1>0, <3>1, <3>2, <3>6
      <4>3. t[e] <= Counted(a).count /\ t[e] <= Limit /\ t[Window] <= Limit + t[e]
        BY <1>0, <2>6, <3>2, <3>4, <3>5, <3>6, <4>1, <4>2
      <4>4. QED
        BY <2>2, <3>3, <4>3 DEF t, e
    <3>7. CASE Counted(a).count > Limit /\ t = s
      <4>1. s[e] <= Counted(a).count
        BY <1>0, <3>1, <3>2, <3>4, <3>5
      <4>2. QED
        BY <2>2, <3>3, <3>5, <3>7, <4>1 DEF t, e
    <3>8. QED
      BY <2>4, <3>6, <3>7
  <2>8. CASE ~Open(a)
    <3>1. Counted(a).left = Window /\ Counted(a).count = 1
      BY <2>8, CountedBucket
    <3>2. Elapsed(a)' = 0 /\ Elapsed(a)' + 1 = 1
      BY <1>0, <2>2, <3>1 DEF Elapsed
    <3>3. \A k \in 1..Window : t[k] = s[k] + 1
      BY <1>0, <2>4, <3>1
    <3>4. s[1] = 0 /\ s[Window] <= Limit
      BY <2>1, <2>5, <2>8
    <3>5. t[1] = 1 /\ t[Window] = s[Window] + 1
      BY <1>0, <3>3, <3>4
    <3>6. t[1] <= Counted(a).count /\ t[1] <= Limit /\ t[Window] <= Limit + t[1]
      BY <1>0, <2>6, <3>1, <3>4, <3>5
    <3>7. QED
      BY <2>2, <3>2, <3>6 DEF t
  <2>9. QED
    BY <2>7, <2>8
<1>4. QED
  BY <1>2, <1>3

LEMMA AdmittedKept == RateTypeOK /\ AdmittedInv /\ [RateNext]_rateVars => AdmittedInv'
<1> SUFFICES ASSUME RateTypeOK, AdmittedInv, [RateNext]_rateVars PROVE AdmittedInv'
  OBVIOUS
<1>1. RateTypeOK'
  BY RateTypesKept
<1>2. CASE Turn
  BY <1>1, <1>2, AdmittedTurn
<1>3. ASSUME NEW d \in Displays, RegisterCode(d) PROVE AdmittedInv'
  BY <1>1, <1>3, AdmittedRegister
<1>4. CASE UNCHANGED rateVars
  BY <1>4 DEF rateVars, AdmittedInv, Open, Elapsed
<1>5. QED
  BY <1>2, <1>3, <1>4 DEF RateNext

LEMMA AdmittedBound == RateTypeOK /\ AdmittedInv => AtMostTwiceTheLimit
<1> SUFFICES ASSUME RateTypeOK, AdmittedInv, NEW a \in Addresses PROVE Total(recent[a]) <= 2 * Limit
  BY DEF AtMostTwiceTheLimit
<1>0. Window \in Nat /\ Limit \in Nat
  BY RateBounds DEF Bounds
<1>1. Younger(recent[a]) \in [0..Window -> Nat]
  BY RecentSums
<1>2. Younger(recent[a])[Window] \in Nat
  BY <1>0, <1>1
<1>3. CASE Open(a)
  <2>1. Elapsed(a) + 1 \in 0..Window
    BY <1>0, <1>3, OpenBucket
  <2>2. Younger(recent[a])[Elapsed(a) + 1] \in Nat
    BY <1>1, <2>1
  <2>3. QED
    BY <1>0, <1>2, <1>3, <2>2 DEF AdmittedInv, Total
<1>4. CASE ~Open(a)
  BY <1>0, <1>2, <1>4 DEF AdmittedInv, Total
<1>5. QED
  BY <1>3, <1>4

\* In no stretch of time as long as the window are more than twice the limit
\* admitted of one address, whatever the table forgets (enforceRateLimit).
THEOREM TwiceTheLimitAtMost == RateSpec => []AtMostTwiceTheLimit
<1>1. RateInit => RateTypeOK /\ AdmittedInv
  BY RateTypesInitially, AdmittedInitially
<1>2. (RateTypeOK /\ AdmittedInv) /\ [RateNext]_rateVars => (RateTypeOK /\ AdmittedInv)'
  BY RateTypesKept, AdmittedKept
<1>3. QED
  BY <1>1, <1>2, AdmittedBound, PTL DEF RateSpec

-----------------------------------------------------------------------------
\* The other displays of its address, and those of them that have just asked.
Others(d) == {x \in Displays : Address[x] = Address[d]} \ {d}
JustAsked(d) == {x \in Others(d) : asked[x] = 0}

LEMMA NoMoreThanMax ==
  ASSUME NEW S \in SUBSET Nat, NEW b \in Nat, \A m \in S : m <= b, NEW n \in S
  PROVE  Max(S) \in S /\ n <= Max(S)
<1>1. \E k \in S : \A m \in S : k >= m
  <2>1. PICK k \in S : \A m \in S : m <= k
    BY GreatestNumber
  <2>2. \A m \in S : k >= m
    BY <2>1
  <2>3. QED
    BY <2>2
<1>2. Max(S) \in S /\ \A m \in S : Max(S) >= m
  BY <1>1 DEF Max
<1>3. QED
  BY <1>2

LEMMA OthersFew ==
  ASSUME NEW d \in Displays
  PROVE  /\ IsFiniteSet(Others(d)) /\ Cardinality(Others(d)) \in Nat
         /\ Share => Slowest * Cardinality(Others(d)) < Limit
<1> DEFINE Behind(a) == {x \in Displays : Address[x] = a}
           Numbers == {Cardinality(Behind(a)) : a \in Addresses}
<1>1. IsFiniteSet(Displays) /\ Cardinality(Displays) \in Nat
  BY RateAssumption, FS_CardinalityType
<1>2. ASSUME NEW a PROVE IsFiniteSet(Behind(a)) /\ Cardinality(Behind(a)) \in Nat
                         /\ Cardinality(Behind(a)) <= Cardinality(Displays)
  <2>1. Behind(a) \in SUBSET Displays
    OBVIOUS
  <2>2. IsFiniteSet(Behind(a)) /\ Cardinality(Behind(a)) <= Cardinality(Displays)
    BY <1>1, <2>1, FS_Subset
  <2>3. Cardinality(Behind(a)) \in Nat
    BY <2>2, FS_CardinalityType
  <2>4. QED
    BY <2>2, <2>3
<1>3. d \in Behind(Address[d]) /\ Others(d) = Behind(Address[d]) \ {d}
  BY DEF Others
<1>4. Address[d] \in Addresses
  BY AddressesOf
<1>5. Share = (Limit > Slowest * (Max(Numbers) - 1))
  BY DEF Share
<1> HIDE DEF Behind
<1>6. IsFiniteSet(Others(d)) /\ Cardinality(Others(d)) = Cardinality(Behind(Address[d])) - 1
  BY <1>2, <1>3, FS_RemoveElement
<1>7. Cardinality(Others(d)) \in Nat
  BY <1>6, FS_CardinalityType
<1>8. /\ Numbers \in SUBSET Nat /\ \A m \in Numbers : m <= Cardinality(Displays)
      /\ Cardinality(Behind(Address[d])) \in Numbers
  BY <1>2, <1>4
<1> HIDE DEF Numbers
<1>9. Max(Numbers) \in Nat /\ Cardinality(Behind(Address[d])) <= Max(Numbers)
  BY <1>1, <1>8, NoMoreThanMax
<1>10. Cardinality(Behind(Address[d])) \in Nat
  BY <1>2
<1>11. ASSUME Share PROVE Slowest * Cardinality(Others(d)) < Limit
  <2> DEFINE k == Cardinality(Others(d))
             m == Max(Numbers) - 1
  <2>1. k \in Nat /\ m \in Nat /\ k <= m
    BY <1>6, <1>7, <1>9, <1>10
  <2>2. Slowest \in Nat /\ Limit \in Nat /\ Slowest * m < Limit
    BY <1>5, <1>9, <1>11, RateBounds DEF Bounds
  <2> HIDE DEF k, m
  <2>3. Slowest * k <= Slowest * m /\ Slowest * k \in Nat /\ Slowest * m \in Nat
    BY <2>1, <2>2
  <2>4. QED
    BY <2>2, <2>3 DEF k
<1>12. QED
  BY <1>6, <1>7, <1>11

\* A window that is open is at most as old as the last request, and one that is
\* not has seen none since.  A display that has not asked in the window meets
\* the requests of the others alone: no more of each than turns.
WaitInv ==
  \A d \in Displays :
    LET a == Address[d] IN
    /\ through[d] <= Window + asked[d]
    /\ ~Open(a) => asked[d] >= 1
    /\ Open(a) /\ asked[d] <= Elapsed(a) => through[d] <= Elapsed(a)
    /\ Open(a) /\ asked[d] > Elapsed(a) =>
         buckets[a].count <= Elapsed(a) * Cardinality(Others(d)) + Cardinality(JustAsked(d))

LEMMA JustAskedCount ==
  ASSUME NEW d \in Displays
  PROVE  /\ IsFiniteSet(JustAsked(d)) /\ Cardinality(JustAsked(d)) \in Nat
         /\ Cardinality(JustAsked(d)) <= Cardinality(Others(d))
<1>1. IsFiniteSet(Others(d)) /\ JustAsked(d) \in SUBSET Others(d)
  BY OthersFew DEF JustAsked
<1>2. IsFiniteSet(JustAsked(d)) /\ Cardinality(JustAsked(d)) <= Cardinality(Others(d))
  BY <1>1, FS_Subset
<1>3. QED
  BY <1>2, FS_CardinalityType

LEMMA WaitTypes ==
  ASSUME RateTypeOK, NEW d \in Displays
  PROVE  asked[d] \in 0..Slowest /\ through[d] \in 0..LongestWait + 1
         /\ asked[d] \in Nat /\ through[d] \in Nat
<1>1. asked[d] \in 0..Slowest /\ through[d] \in 0..LongestWait + 1
  BY DEF RateTypeOK
<1>2. QED
  BY <1>1, RateBounds DEF Bounds

\* A display whose first request this is in the window is admitted.
LEMMA FirstIsAdmitted ==
  ASSUME RateTypeOK, WaitInv, Share, NEW d \in Displays,
         Open(Address[d]) => asked[d] > Elapsed(Address[d])
  PROVE  Counted(Address[d]).count <= Limit
<1> DEFINE a == Address[d]
           e == Elapsed(a)
           k == Cardinality(Others(d))
           j == Cardinality(JustAsked(d))
<1>0. Limit \in Nat /\ Limit >= 1 /\ Slowest \in Nat
  BY RateBounds DEF Bounds
<1>1. CASE ~Open(a)
  BY <1>0, <1>1, CountedBucket
<1>2. CASE Open(a)
  <2>1. buckets[a].count \in 1..Limit + 1 /\ e \in Nat
    <3>1. buckets[a].count \in 1..Limit + 1 /\ e \in 0..Window - 1
      BY <1>2, OpenBucket
    <3>2. QED
      BY <3>1, RateBounds DEF Bounds
  <2>2. Counted(a).count = IF buckets[a].count > Limit THEN buckets[a].count ELSE buckets[a].count + 1
    BY <1>2, CountedBucket
  <2>3. buckets[a].count <= e * k + j
    BY <1>2 DEF WaitInv
  <2>4. k \in Nat /\ Slowest * k < Limit /\ j \in Nat /\ j <= k
    BY OthersFew, JustAskedCount
  <2>5. asked[d] \in 0..Slowest /\ asked[d] > e
    BY <1>2, WaitTypes
  <2> HIDE DEF e, k, j
  <2>6. e + 1 <= Slowest
    BY <1>0, <2>1, <2>5
  <2>7. e * k + j <= (e + 1) * k /\ (e + 1) * k <= Slowest * k
    <3>1. e * k \in Nat /\ (e + 1) * k = e * k + k /\ (e + 1) * k \in Nat
      BY <2>1, <2>4
    <3>2. Slowest - (e + 1) \in Nat
      BY <1>0, <2>1, <2>6
    <3>3. (Slowest - (e + 1)) * k >= 0 /\ (Slowest - (e + 1)) * k = Slowest * k - (e + 1) * k
      BY <1>0, <2>1, <2>4, <3>2
    <3>4. Slowest * k \in Nat
      BY <1>0, <2>4
    <3>5. QED
      BY <2>4, <3>1, <3>3, <3>4
  <2>8. e * k \in Nat /\ (e + 1) * k \in Nat /\ Slowest * k \in Nat
    BY <1>0, <2>1, <2>4
  <2>9. buckets[a].count < Limit
    BY <1>0, <2>1, <2>3, <2>4, <2>7, <2>8
  <2>10. QED
    BY <1>0, <2>1, <2>2, <2>9
<1>3. QED
  BY <1>1, <1>2

LEMMA WaitInitially == RateInit => WaitInv
<1> SUFFICES ASSUME RateInit, NEW d \in Displays
             PROVE  ~Open(Address[d]) /\ through[d] <= Window + asked[d] /\ asked[d] >= 1
  BY DEF WaitInv
<1>1. asked[d] = 1 /\ through[d] = 0
  BY DEF RateInit
<1>2. QED
  BY <1>1, RateBounds DEF RateInit, Open, Bounds

LEMMA WaitTurn ==
  ASSUME RateTypeOK, WaitInv, Turn
  PROVE  WaitInv'
<1> SUFFICES ASSUME NEW d \in Displays
             PROVE  /\ through'[d] <= Window + asked'[d]
                    /\ ~Open(Address[d])' => asked'[d] >= 1
                    /\ Open(Address[d])' /\ asked'[d] <= Elapsed(Address[d])' => through'[d] <= Elapsed(Address[d])'
                    /\ Open(Address[d])' /\ asked'[d] > Elapsed(Address[d])' =>
                         buckets'[Address[d]].count
                           <= Elapsed(Address[d])' * Cardinality(Others(d)) + Cardinality(JustAsked(d)')
  BY DEF WaitInv
<1> DEFINE a == Address[d]
<1>0. Window \in Nat /\ asked[d] \in Nat /\ through[d] \in Nat
  BY RateBounds, WaitTypes DEF Bounds
<1>1. /\ asked'[d] = asked[d] + 1
      /\ through'[d] = through[d] \/ through'[d] = through[d] + 1
  BY DEF Turn
<1>2. through[d] <= Window + asked[d]
  BY DEF WaitInv
<1>3. ASSUME Open(a)'
      PROVE  /\ Open(a) /\ Elapsed(a)' = Elapsed(a) + 1 /\ buckets'[a].count = buckets[a].count
             /\ Elapsed(a) \in Nat /\ buckets[a].count \in Nat
  <2>1. Open(a) /\ buckets'[a].count = buckets[a].count /\ buckets'[a].left = buckets[a].left - 1
    BY <1>3, TurnBuckets
  <2>2. buckets[a].left \in 1..Window /\ buckets[a].count \in 1..Limit + 1
    BY <2>1, OpenBucket
  <2>3. QED
    BY <1>0, <2>1, <2>2, RateBounds DEF Elapsed, Bounds
<1>4. ASSUME Open(a)', asked'[d] <= Elapsed(a)' PROVE through'[d] <= Elapsed(a)'
  <2>1. asked[d] <= Elapsed(a) /\ Open(a)
    BY <1>0, <1>1, <1>3, <1>4
  <2>2. through[d] <= Elapsed(a)
    BY <2>1 DEF WaitInv
  <2>3. QED
    BY <1>0, <1>1, <1>3, <1>4, <2>2
<1>5. ASSUME Open(a)', asked'[d] > Elapsed(a)'
      PROVE  buckets'[a].count <= Elapsed(a)' * Cardinality(Others(d)) + Cardinality(JustAsked(d)')
  <2> DEFINE k == Cardinality(Others(d))
             e == Elapsed(a)
             j == Cardinality(JustAsked(d))
             i == Cardinality(JustAsked(d)')
  <2>1. asked[d] > e /\ Open(a)
    BY <1>0, <1>1, <1>3, <1>5
  <2>2. buckets[a].count <= e * k + j
    BY <2>1 DEF WaitInv
  <2>3. k \in Nat /\ j \in Nat /\ j <= k
    BY OthersFew, JustAskedCount
  <2>4. i = 0
    <3>1. \A x \in Others(d) : asked'[x] # 0
      <4> TAKE x \in Others(d)
      <4>1. x \in Displays
        BY DEF Others
      <4>2. asked'[x] = asked[x] + 1 /\ asked[x] \in Nat
        BY <4>1, WaitTypes DEF Turn
      <4>3. QED
        BY <4>2
    <3>2. JustAsked(d)' = {}
      BY <3>1 DEF JustAsked, Others
    <3>3. QED
      BY <3>2, FS_EmptySet
  <2>5. e \in Nat /\ Elapsed(a)' = e + 1 /\ buckets'[a].count = buckets[a].count /\ buckets[a].count \in Nat
    BY <1>3, <1>5
  <2> HIDE DEF k, e, j, i
  <2>6. e * k \in Nat /\ (e + 1) * k = e * k + k
    <3>1. e \in Nat /\ k \in Nat
      BY <2>3, <2>5
    <3>2. \A m, n \in Nat : m * n \in Nat /\ (m + 1) * n = m * n + n
      OBVIOUS
    <3>3. QED
      BY <3>1, <3>2
  <2>7. buckets[a].count <= (e + 1) * k + i
    BY <2>2, <2>3, <2>4, <2>5, <2>6
  <2>8. QED
    BY <2>5, <2>7 DEF k, i
<1>6. QED
  BY <1>0, <1>1, <1>2, <1>4, <1>5

LEMMA WaitRegister ==
  ASSUME RateTypeOK, WaitInv, Share, NEW r \in Displays, RegisterCode(r)
  PROVE  WaitInv'
<1> SUFFICES ASSUME NEW d \in Displays
             PROVE  /\ through'[d] <= Window + asked'[d]
                    /\ ~Open(Address[d])' => asked'[d] >= 1
                    /\ Open(Address[d])' /\ asked'[d] <= Elapsed(Address[d])' => through'[d] <= Elapsed(Address[d])'
                    /\ Open(Address[d])' /\ asked'[d] > Elapsed(Address[d])' =>
                         buckets'[Address[d]].count
                           <= Elapsed(Address[d])' * Cardinality(Others(d)) + Cardinality(JustAsked(d)')
  BY DEF WaitInv
<1> DEFINE a == Address[d]
<1>0. /\ Window \in Nat /\ Window >= 1 /\ Limit \in Nat
      /\ asked[d] \in Nat /\ through[d] \in Nat /\ asked[r] \in Nat /\ through[r] \in Nat
  BY RateBounds, WaitTypes DEF Bounds
<1>1. asked' = [asked EXCEPT ![r] = 0] /\ asked[r] > 0
  BY DEF RegisterCode
<1>2. /\ asked \in [Displays -> 0..Slowest] /\ through \in [Displays -> 0..LongestWait + 1]
  BY DEF RateTypeOK
<1>3. \/ Counted(Address[r]).count <= Limit /\ through' = [through EXCEPT ![r] = 0]
      \/ ~(Counted(Address[r]).count <= Limit) /\ through' = through
  BY DEF RegisterCode
<1>4. /\ through[d] <= Window + asked[d]
      /\ ~Open(a) => asked[d] >= 1
      /\ Open(a) /\ asked[d] <= Elapsed(a) => through[d] <= Elapsed(a)
      /\ Open(a) /\ asked[d] > Elapsed(a) =>
           buckets[a].count <= Elapsed(a) * Cardinality(Others(d)) + Cardinality(JustAsked(d))
  BY DEF WaitInv
<1>5. CASE Address[r] # a
  <2>1. d # r /\ asked'[d] = asked[d] /\ through'[d] = through[d]
    BY <1>1, <1>2, <1>3, <1>5
  <2>2. (Open(a)' <=> Open(a)) /\ (Open(a) => buckets'[a] = buckets[a])
    BY <1>5, RegisterBuckets
  <2>3. Open(a) => Elapsed(a)' = Elapsed(a)
    BY <2>2 DEF Elapsed
  <2>4. JustAsked(d)' = JustAsked(d)
    <3>1. \A x \in Others(d) : asked'[x] = asked[x]
      BY <1>1, <1>2, <1>5 DEF Others
    <3>2. QED
      BY <3>1 DEF JustAsked, Others
  <2>5. QED
    BY <1>4, <2>1, <2>2, <2>3, <2>4
<1>6. CASE Address[r] = a
  <2>1. Open(a)' /\ buckets'[a] = Counted(a)
    BY <1>6, RegisterBuckets
  <2>2. Open(a) => Elapsed(a)' = Elapsed(a)
    BY <2>1, CountedBucket DEF Elapsed
  <2>3. ~Open(a) => Elapsed(a)' = 0
    BY <1>0, <2>1, CountedBucket DEF Elapsed
  <2>4. Elapsed(a)' \in 0..Window - 1 /\ Elapsed(a)' \in Nat
    <3>1. Open(a) => Elapsed(a) \in 0..Window - 1
      BY OpenBucket
    <3>2. QED
      BY <1>0, <2>2, <2>3, <3>1
  <2>5. CASE d = r
    <3>1. asked'[d] = 0
      BY <1>1, <1>2, <2>5
    <3>2. through'[d] <= Elapsed(a)'
      <4>1. CASE Open(a) /\ asked[d] <= Elapsed(a)
        <5>1. through[d] <= Elapsed(a) /\ Elapsed(a)' = Elapsed(a)
          BY <1>4, <2>2, <4>1
        <5>2. through'[d] = 0 \/ through'[d] = through[d]
          BY <1>2, <1>3, <2>5
        <5>3. QED
          BY <1>0, <2>4, <5>1, <5>2
      <4>2. CASE ~(Open(a) /\ asked[d] <= Elapsed(a))
        <5>1. Open(a) => asked[d] > Elapsed(a)
          <6>1. Open(a) => Elapsed(a) \in Nat
            BY <2>2, <2>4
          <6>2. QED
            BY <1>0, <4>2, <6>1
        <5>2. Counted(a).count <= Limit
          BY <5>1, FirstIsAdmitted
        <5>3. through'[d] = 0
          BY <1>2, <1>3, <1>6, <2>5, <5>2
        <5>4. QED
          BY <2>4, <5>3
      <4>3. QED
        BY <4>1, <4>2
    <3>3. through'[d] <= Window + asked'[d]
      <4>1. through'[d] \in Nat
        BY <1>0, <1>2, <1>3, <2>5
      <4>2. QED
        BY <1>0, <2>4, <3>1, <3>2, <4>1
    <3>4. ~(asked'[d] > Elapsed(a)')
      BY <2>4, <3>1
    <3>5. QED
      BY <2>1, <3>2, <3>3, <3>4
  <2>6. CASE d # r
    <3>1. asked'[d] = asked[d] /\ through'[d] = through[d]
      BY <1>1, <1>2, <1>3, <2>6
    <3>2. ASSUME asked[d] <= Elapsed(a)' PROVE through[d] <= Elapsed(a)'
      <4>1. CASE Open(a)
        BY <1>4, <2>2, <3>2, <4>1
      <4>2. CASE ~Open(a)
        BY <1>0, <1>4, <2>3, <3>2, <4>2
      <4>3. QED
        BY <4>1, <4>2
    <3>3. ASSUME asked[d] > Elapsed(a)'
          PROVE  buckets'[a].count <= Elapsed(a)' * Cardinality(Others(d)) + Cardinality(JustAsked(d)')
      <4> DEFINE k == Cardinality(Others(d))
                 j == Cardinality(JustAsked(d))
                 i == Cardinality(JustAsked(d)')
      <4>1. r \in Others(d) /\ r \notin JustAsked(d)
        BY <1>0, <1>1, <1>6, <2>6 DEF Others, JustAsked
      <4>2. JustAsked(d)' = JustAsked(d) \cup {r}
        <5>1. asked'[r] = 0 /\ \A x \in Others(d) : x # r => asked'[x] = asked[x]
          BY <1>1, <1>2 DEF Others
        <5>2. JustAsked(d)' = {x \in Others(d) : asked'[x] = 0}
          BY DEF JustAsked, Others
        <5>3. QED
          BY <4>1, <5>1, <5>2 DEF JustAsked
      <4>3. i = j + 1
        BY <4>1, <4>2, JustAskedCount, FS_AddElement
      <4>4. k \in Nat /\ j \in Nat
        BY OthersFew, JustAskedCount
      <4> HIDE DEF k, j, i
      <4>5. CASE Open(a)
        <5>1. buckets[a].count <= Elapsed(a) * k + j
          BY <1>4, <2>2, <3>3, <4>5 DEF k, j
        <5>2. buckets[a].count \in 1..Limit + 1 /\ Elapsed(a) \in Nat
          BY <2>2, <2>4, <4>5, OpenBucket
        <5>3. Counted(a).count <= buckets[a].count + 1
          BY <1>0, <4>5, <5>2, CountedBucket
        <5>4. Counted(a).count \in Nat
          BY <1>0, CountedBucket
        <5>5. Elapsed(a) * k \in Nat
          BY <4>4, <5>2
        <5>6. Counted(a).count <= Elapsed(a) * k + i
          BY <1>0, <4>3, <4>4, <5>1, <5>2, <5>3, <5>4, <5>5
        <5>7. QED
          BY <2>1, <2>2, <4>5, <5>6 DEF k, i
      <4>6. CASE ~Open(a)
        <5>1. Counted(a).count = 1 /\ Elapsed(a)' = 0
          BY <2>3, <4>6, CountedBucket
        <5>2. 1 <= 0 * k + i
          BY <4>3, <4>4
        <5>3. QED
          BY <2>1, <5>1, <5>2 DEF k, i
      <4>7. QED
        BY <4>5, <4>6
    <3>4. QED
      BY <1>4, <2>1, <3>1, <3>2, <3>3
  <2>7. QED
    BY <2>5, <2>6
<1>7. QED
  BY <1>5, <1>6

LEMMA WaitKept == Share /\ RateTypeOK /\ WaitInv /\ [RateNext]_rateVars => WaitInv'
<1> SUFFICES ASSUME Share, RateTypeOK, WaitInv, [RateNext]_rateVars PROVE WaitInv'
  OBVIOUS
<1>1. CASE Turn
  BY <1>1, WaitTurn
<1>2. ASSUME NEW d \in Displays, RegisterCode(d) PROVE WaitInv'
  BY <1>2, WaitRegister
<1>3. CASE UNCHANGED rateVars
  BY <1>3 DEF rateVars, WaitInv, Open, Elapsed, JustAsked, Others
<1>4. QED
  BY <1>1, <1>2, <1>3 DEF RateNext

LEMMA WaitBound == Share /\ RateTypeOK /\ WaitInv => EveryDisplayGetsThrough
<1> SUFFICES ASSUME Share, RateTypeOK, WaitInv, NEW d \in Displays PROVE through[d] <= LongestWait
  BY DEF EveryDisplayGetsThrough
<1>1. through[d] <= Window + asked[d] /\ asked[d] \in 0..Slowest /\ through[d] \in Nat
  BY WaitTypes DEF WaitInv
<1>2. QED
  BY <1>1, RateBounds DEF Bounds

\* Where every display of an address has a share in the limit, each has its code
\* registered again within a window and one of its own turns, however the
\* others ask (enforceRateLimit, startPairingReconciliation).
THEOREM DisplaysGetThrough == RateSpec => []EveryDisplayGetsThrough
<1>1. ~Share => EveryDisplayGetsThrough
  BY DEF EveryDisplayGetsThrough
<1>2. RateInit => RateTypeOK /\ (Share => WaitInv)
  BY RateTypesInitially, WaitInitially
<1>3. (RateTypeOK /\ (Share => WaitInv)) /\ [RateNext]_rateVars => (RateTypeOK /\ (Share => WaitInv))'
  <2>1. Share' <=> Share
    BY DEF Share, Addresses
  <2>2. QED
    BY <2>1, RateTypesKept, WaitKept
<1>4. RateTypeOK /\ (Share => WaitInv) => EveryDisplayGetsThrough
  BY <1>1, WaitBound
<1>5. QED
  BY <1>2, <1>3, <1>4, PTL DEF RateSpec

=============================================================================
