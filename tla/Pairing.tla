------------------------------ MODULE Pairing ------------------------------
(***************************************************************************)
(* How a display gets an owner.                                            *)
(*                                                                         *)
(* An unpaired display (apps/pi-agent) shows a six-digit code and registers*)
(* it with the server, over HTTP every five seconds and in the hello of    *)
(* every Socket.IO connection.  A user types the code into the dashboard   *)
(* (apps/server-web/app/api/pair/[pairingCode]); the server records the    *)
(* owner and tells the display, which may be offline and then learns it    *)
(* from its next hello or from its HTTP poll.                              *)
(*                                                                         *)
(* Every handler of the server reads the Device record, decides, and       *)
(* writes it back with no condition on what it read; only the claim of a   *)
(* code writes conditionally.  The read and the write are two actions.     *)
(*                                                                         *)
(* One display: displays meet only if their random codes are equal.  Left  *)
(* out: POST /api/pair, POST /api/devices and the status that PATCH        *)
(* /api/devices/[deviceId] accepts (no page or agent sends them), rate     *)
(* limits, tokens that do not match, the label and the display profile.    *)
(* At most one hello, one heartbeat, one registration and one marking as   *)
(* offline are being handled at a time.                                    *)
(***************************************************************************)
EXTENDS Naturals, Sequences

CONSTANTS Users,      \* active accounts
          SuperUsers, \* those that may see every display
          Nobody, NoCode,
          MaxCodes,   \* bound on the codes the display generates
          MaxDrops,   \* bound on lost connections
          MaxFaults,  \* bound on failed HTTP requests, lost acknowledgements, and commands
              \* for a display that is not there
          MaxResets,  \* bound on factory resets
          MaxInbox    \* bound on messages under way to the display

ASSUME PairingAssumption ==
  /\ SuperUsers \subseteq Users
  /\ Nobody \notin Users
  /\ NoCode \notin Nat
  /\ MaxCodes \in Nat /\ MaxDrops \in Nat /\ MaxFaults \in Nat /\ MaxResets \in Nat
  /\ MaxInbox \in Nat

VARIABLES
  record,    \* the Device row
  agent,     \* device.json, pairing.json, state.json: paired, code, mode
  link,      \* the display's socket is connected
  room,      \* and has joined its room, after hello
  hello,     \* the hello being handled: stage, code, what the handler decided
  beat,      \* the heartbeat being handled: stage, and the mode and status to write
  closing,   \* who marks the display offline: none, check, write
  poll,      \* startPairingReconciliation and the request it waits for
  claim,     \* per user, POST /api/pair/[pairingCode]
  inbox,     \* messages to the display: pairing:complete and factory:reset
  reset,     \* the display has acknowledged factory:reset
  codes, drops, faults, resets,
  crossed    \* history, until a factory reset: a claim was written between a handler's read and its write,
             \* or marked offline before the display had learned of it

serverVars == <<hello, beat, closing, claim>>
countVars == <<codes, drops, faults, resets>>
vars == <<record, agent, link, room, serverVars, poll, inbox, reset, countVars, crossed>>

Modes == {"setup", "pairing", "shot-clock"} \* shot-clock stands for every mode of a game
NotPlaying == {"setup", "pairing"}
Codes == 1..MaxCodes

NoRecord == [exists |-> FALSE, token |-> FALSE, owner |-> Nobody, status |-> "none",
             code |-> NoCode, mode |-> "setup", online |-> FALSE]

NoHello == [stage |-> "none", code |-> NoCode, accept |-> FALSE, paired |-> FALSE]
NoBeat == [stage |-> "none", mode |-> "setup", status |-> "none"]
NoPoll == [stage |-> "idle", code |-> NoCode]
NoClaim == [stage |-> "none", code |-> NoCode, owner |-> Nobody]

\* isDevicePaired
Owned(r) == r.owner # Nobody

\* The code a hello, a registration or the screen uses: getPairingCode makes a
\* new one when there is none (none was made, or it has expired).
CodeNow == IF agent.code = NoCode THEN codes + 1 ELSE agent.code
TakeCode == /\ CodeNow \in Codes
            /\ codes' = IF agent.code = NoCode THEN codes + 1 ELSE codes
            /\ agent' = [agent EXCEPT !.code = CodeNow]

\* A fresh installation that has been given its WiFi.
Init ==
  /\ record = NoRecord
  /\ agent = [paired |-> FALSE, code |-> NoCode, mode |-> "pairing"]
  /\ link = FALSE /\ room = FALSE
  /\ hello = NoHello /\ beat = NoBeat /\ closing = "none"
  /\ poll = NoPoll
  /\ claim = [u \in Users |-> NoClaim]
  /\ inbox = <<>>
  /\ reset = FALSE
  /\ codes = 0 /\ drops = 0 /\ faults = 0 /\ resets = 0
  /\ crossed = FALSE

Send(message) == Len(inbox) < MaxInbox /\ inbox' = Append(inbox, message)

Fault == faults < MaxFaults /\ faults' = faults + 1

-----------------------------------------------------------------------------
(* The display: connection and hello                                       *)

SayHello ==
  /\ hello.stage = "none"
  /\ IF agent.paired
     THEN hello' = [NoHello EXCEPT !.stage = "sent"] /\ UNCHANGED <<agent, codes>>
     ELSE TakeCode /\ hello' = [NoHello EXCEPT !.stage = "sent", !.code = CodeNow]

\* The namespace accepts a display whose token it knows.
Connect ==
  /\ ~link
  /\ record.exists /\ record.token
  /\ link' = TRUE
  /\ SayHello
  /\ UNCHANGED <<record, room, beat, closing, poll, claim, inbox, reset,
                 drops, faults, resets, crossed>>

\* reconnectSocketClient on a connected socket, after WiFi setup.
RefreshHello ==
  /\ link
  /\ SayHello
  /\ UNCHANGED <<record, link, room, beat, closing, poll, claim, inbox, reset,
                 drops, faults, resets, crossed>>

\* The connection is lost with everything on it; what the server is already
\* handling goes on.
LoseLink ==
  /\ link' = FALSE /\ room' = FALSE
  /\ hello' = IF hello.stage = "sent" THEN NoHello ELSE hello
  /\ beat' = IF beat.stage = "sent" THEN NoBeat ELSE beat
  /\ closing' = IF room THEN "check" ELSE closing
  /\ inbox' = <<>>

Drop ==
  /\ link
  /\ drops < MaxDrops /\ drops' = drops + 1
  /\ LoseLink
  /\ UNCHANGED <<record, agent, poll, claim, reset, codes, faults, resets, crossed>>

\* A restart of the agent, after a factory reset or on its own: it connects
\* again, and an unpaired agent that has not been given its WiFi makes a new
\* code.  It restarts between two HTTP requests.
Restart ==
  /\ poll.stage \in {"idle", "ask", "told"}
  /\ LoseLink
  /\ poll' = NoPoll
  /\ IF agent.mode = "setup"
     THEN /\ codes < MaxCodes /\ codes' = codes + 1
          /\ agent' = [agent EXCEPT !.code = codes + 1]
          /\ UNCHANGED drops
     ELSE /\ drops < MaxDrops /\ drops' = drops + 1
          /\ UNCHANGED <<agent, codes>>
  /\ UNCHANGED <<record, claim, reset, faults, resets, crossed>>

\* Mutant: whatever the record says, a code is accepted.
HelloReadAnyCode ==
  LET accept == hello.code # NoCode
  IN /\ hello.stage = "sent"
     /\ hello' = [hello EXCEPT !.stage = "read", !.accept = accept,
                               !.paired = Owned(record) /\ ~accept]
     /\ UNCHANGED <<record, agent, link, room, beat, closing, claim, poll, inbox, reset,
                    countVars, crossed>>

\* device:hello reads the record and decides: a code is accepted from a display
\* that is not paired (shouldAcceptPairingCode, isPaired),
HelloRead ==
  LET accept == hello.code # NoCode /\ (~Owned(record) \/ record.status # "paired")
  IN /\ hello.stage = "sent"
     /\ hello' = [hello EXCEPT !.stage = "read", !.accept = accept,
                               !.paired = Owned(record) /\ ~accept]
     /\ UNCHANGED <<record, agent, link, room, beat, closing, claim, poll, inbox, reset,
                    countVars, crossed>>

\* Mutant: a code is stored beside the owner.
HelloWrittenBesideOwner ==
  LET online == [record EXCEPT !.exists = TRUE, !.online = TRUE]
  IN IF hello.accept
     THEN [online EXCEPT !.code = hello.code, !.status = "unpaired", !.mode = "pairing"]
     ELSE IF hello.paired THEN [online EXCEPT !.status = "paired"]
     ELSE online

\* and upserts it; an owner it finds afterwards is announced to the display.
HelloWritten ==
  LET online == [record EXCEPT !.online = TRUE]
  IN IF ~record.exists
     THEN [NoRecord EXCEPT !.exists = TRUE, !.online = TRUE, !.code = hello.code,
             !.mode = IF hello.code # NoCode THEN "pairing" ELSE "setup",
             !.status = IF hello.code # NoCode THEN "unpaired" ELSE "online"]
     ELSE IF hello.accept
     THEN [online EXCEPT !.code = hello.code, !.status = "unpaired", !.mode = "pairing",
                         !.owner = Nobody]
     ELSE IF hello.paired THEN [online EXCEPT !.status = "paired"]
     ELSE online

HelloWrite ==
  /\ hello.stage = "read"
  /\ record' = HelloWritten
  /\ hello' = NoHello
  /\ room' = link
  /\ IF link /\ Owned(HelloWritten) THEN Send("complete") ELSE UNCHANGED inbox
  /\ UNCHANGED <<agent, link, beat, closing, claim, poll, reset, countVars, crossed>>

-----------------------------------------------------------------------------
(* Heartbeats, disconnects, and the sweeper of stale records               *)

BeatSend ==
  /\ link /\ beat.stage = "none"
  /\ beat' = [NoBeat EXCEPT !.stage = "sent", !.mode = agent.mode]
  /\ UNCHANGED <<record, agent, link, room, hello, closing, claim, poll, inbox, reset,
                 countVars, crossed>>

BeatMode == IF Owned(record) /\ beat.mode \in NotPlaying THEN "shot-clock" ELSE beat.mode

BeatStatus == IF Owned(record) THEN "paired"
              ELSE IF record.code # NoCode \/ beat.mode = "pairing" THEN "unpaired"
              ELSE "online"

BeatRead ==
  /\ beat.stage = "sent"
  /\ beat' = [stage |-> "read", mode |-> BeatMode, status |-> BeatStatus]
  /\ UNCHANGED <<record, agent, link, room, hello, closing, claim, poll, inbox, reset,
                 countVars, crossed>>

BeatWrite ==
  /\ beat.stage = "read"
  /\ record' = IF record.exists
               THEN [record EXCEPT !.mode = beat.mode, !.status = beat.status, !.online = TRUE]
               ELSE record
  /\ beat' = NoBeat
  /\ UNCHANGED <<agent, link, room, hello, closing, claim, poll, inbox, reset,
                 countVars, crossed>>

\* The disconnect handler of a socket that had said hello looks for other
\* sockets of the display,
CloseCheck ==
  /\ closing = "check"
  /\ closing' = IF room THEN "none" ELSE "write"
  /\ UNCHANGED <<record, agent, link, room, hello, beat, claim, poll, inbox, reset,
                 countVars, crossed>>

\* The display has not learned of its owner, or has sent a code before it did.
Unsettled == /\ Owned(record)
             /\ \/ ~agent.paired
                \/ hello.code # NoCode \/ poll.stage \in {"posted", "read"}

Offline(r) == IF r.exists THEN [r EXCEPT !.online = FALSE, !.status = "offline"] ELSE r

\* and without one marks it offline, whatever its status was and whether or
\* not it has come back meanwhile.
CloseWrite ==
  /\ closing = "write"
  /\ closing' = "none"
  /\ record' = Offline(record)
  /\ crossed' = (resets = 0 /\ (crossed \/ Unsettled))
  /\ UNCHANGED <<agent, link, room, hello, beat, claim, poll, inbox, reset,
                 countVars>>

\* A user sends it a command and finds no socket in its room: markDeviceOffline
\* makes the same write.
CommandFindsNone ==
  /\ closing = "none" /\ ~room
  /\ record.exists /\ (Owned(record) \/ SuperUsers # {})
  /\ closing' = "write"
  /\ Fault
  /\ UNCHANGED <<record, agent, link, room, hello, beat, claim, poll, inbox, reset,
                 codes, drops, resets, crossed>>

\* The minute timer of server.ts finds a display that has not been heard of for
\* two minutes.
FoundOffline ==
  /\ ~link /\ record.online
  /\ record' = Offline(record)
  /\ crossed' = (resets = 0 /\ (crossed \/ Unsettled))
  /\ UNCHANGED <<agent, link, room, serverVars, poll, inbox, reset, countVars>>

-----------------------------------------------------------------------------
(* The display: registration and polling over HTTP                         *)

\* Every five seconds, unless a round is in flight.
PollStart ==
  /\ poll.stage = "idle"
  /\ ~agent.paired /\ agent.mode = "pairing"
  /\ TakeCode
  /\ poll' = [stage |-> "posted", code |-> CodeNow]
  /\ UNCHANGED <<record, link, room, serverVars, inbox, reset, drops, faults, resets,
                 crossed>>

\* Mutant: registration does not look at the record.
RegisterReadBlind ==
  /\ poll.stage = "posted"
  /\ poll' = [poll EXCEPT !.stage = "read"]
  /\ UNCHANGED <<record, agent, link, room, serverVars, inbox, reset, countVars, crossed>>

\* POST .../pairing reads the record, and refuses a display that is paired;
\* the agent then asks for its status all the same.
RegisterRead ==
  /\ poll.stage = "posted"
  /\ poll' = IF record.status = "paired" /\ Owned(record)
             THEN [NoPoll EXCEPT !.stage = "ask"] ELSE [poll EXCEPT !.stage = "read"]
  /\ UNCHANGED <<record, agent, link, room, serverVars, inbox, reset, countVars, crossed>>

\* Mutant: the code of a known display stays.
RegisterWriteKeepsCode ==
  /\ poll.stage = "read"
  /\ record' = [exists |-> TRUE, token |-> TRUE, owner |-> Nobody, status |-> "unpaired",
                code |-> IF record.exists THEN record.code ELSE poll.code,
                mode |-> "pairing", online |-> TRUE]
  /\ poll' = [NoPoll EXCEPT !.stage = "ask"]
  /\ UNCHANGED <<agent, link, room, serverVars, inbox, reset, countVars, crossed>>

RegisterWrite ==
  /\ poll.stage = "read"
  /\ record' = [exists |-> TRUE, token |-> TRUE, owner |-> Nobody, status |-> "unpaired",
                code |-> poll.code, mode |-> "pairing", online |-> TRUE]
  /\ poll' = [NoPoll EXCEPT !.stage = "ask"]
  /\ UNCHANGED <<agent, link, room, serverVars, inbox, reset, countVars, crossed>>

\* GET .../pairing: the answer may be that it is paired.
Ask ==
  /\ poll.stage = "ask"
  /\ poll' = IF record.exists /\ record.token
                /\ (record.status = "paired" \/ record.mode = "shot-clock")
             THEN [poll EXCEPT !.stage = "told"] ELSE NoPoll
  /\ UNCHANGED <<record, agent, link, room, serverVars, inbox, reset, countVars, crossed>>

\* Either request may fail.
PollFails ==
  /\ poll.stage \in {"posted", "ask"}
  /\ poll' = IF poll.stage = "posted" THEN [NoPoll EXCEPT !.stage = "ask"] ELSE NoPoll
  /\ Fault
  /\ UNCHANGED <<record, agent, link, room, serverVars, inbox, reset, codes, drops, resets,
                 crossed>>

\* Mutant: markAsPaired is forgotten.
PairedUnmarked(a) == [a EXCEPT !.code = NoCode, !.mode = "shot-clock"]

\* applyPairingComplete, from the poll or from pairing:complete.
Paired(a) == [paired |-> TRUE, code |-> NoCode, mode |-> "shot-clock"]

Told ==
  /\ poll.stage = "told"
  /\ poll' = NoPoll
  /\ agent' = Paired(agent)
  /\ UNCHANGED <<record, link, room, serverVars, inbox, reset, countVars, crossed>>

Complete ==
  /\ inbox # <<>> /\ Head(inbox) = "complete"
  /\ inbox' = Tail(inbox)
  /\ agent' = Paired(agent)
  /\ UNCHANGED <<record, link, room, serverVars, poll, reset, countVars, crossed>>

-----------------------------------------------------------------------------
(* Users                                                                   *)

\* POST /api/pair/[pairingCode] finds the display with the code the user typed,
ClaimFind(u) ==
  /\ claim[u].stage = "none"
  /\ record.exists /\ record.code # NoCode /\ record.status # "paired"
  /\ Owned(record) => u \in SuperUsers \/ record.owner = u
  /\ claim' = [claim EXCEPT ![u] = [stage |-> "found", code |-> record.code,
                                    owner |-> record.owner]]
  /\ UNCHANGED <<record, agent, link, room, hello, beat, closing, poll, inbox, reset,
                 countVars, crossed>>

\* Handlers that have read a record without an owner and have not written it.
HandlerCrossed == \/ hello.stage = "read" /\ ~hello.paired
                  \/ beat.stage = "read" /\ beat.status # "paired"
                  \/ poll.stage = "read"

\* Mutant: an update without conditions.
ClaimWriteAnyway(u) ==
  /\ claim[u].stage = "found"
  /\ record' = [record EXCEPT !.status = "paired", !.mode = "shot-clock", !.code = NoCode,
                              !.owner = u]
  /\ claim' = [claim EXCEPT ![u].stage = "won"]
  /\ crossed' = (resets = 0 /\ (crossed \/ HandlerCrossed))
  /\ UNCHANGED <<agent, link, room, hello, beat, closing, poll, inbox, reset, countVars>>

\* and claims it if the code and the status are still what they were.
ClaimWrite(u) ==
  /\ claim[u].stage = "found"
  /\ IF /\ record.exists /\ record.code = claim[u].code /\ record.status # "paired"
        /\ u \in SuperUsers \/ record.owner \in {Nobody, u}
     THEN /\ record' = [record EXCEPT !.status = "paired", !.mode = "shot-clock",
                           !.code = NoCode,
                           !.owner = IF claim[u].owner = Nobody THEN u ELSE claim[u].owner]
          /\ claim' = [claim EXCEPT ![u].stage = "won"]
          /\ crossed' = (resets = 0 /\ (crossed \/ HandlerCrossed))
     ELSE /\ claim' = [claim EXCEPT ![u] = NoClaim]
          /\ UNCHANGED <<record, crossed>>
  /\ UNCHANGED <<agent, link, room, hello, beat, closing, poll, inbox, reset, countVars>>

\* The display is told, if it is in its room.
ClaimEmit(u) ==
  /\ claim[u].stage = "won"
  /\ claim' = [claim EXCEPT ![u] = NoClaim]
  /\ IF room THEN Send("complete") ELSE UNCHANGED inbox
  /\ UNCHANGED <<record, agent, link, room, hello, beat, closing, poll, reset, countVars, crossed>>

\* The code is regenerated on the local page, or has expired.
NewCode ==
  /\ ~agent.paired /\ agent.code # NoCode
  /\ codes < MaxCodes /\ codes' = codes + 1
  /\ agent' = [agent EXCEPT !.code = codes + 1]
  /\ UNCHANGED <<record, link, room, serverVars, poll, inbox, reset, drops, faults, resets,
                 crossed>>

\* The setup page has been given the WiFi: finish of captive-portal.ts.
Provision ==
  /\ agent.mode = "setup"
  /\ agent' = [agent EXCEPT !.mode = IF agent.paired THEN "shot-clock" ELSE "pairing"]
  /\ UNCHANGED <<record, link, room, serverVars, poll, inbox, reset, countVars, crossed>>

-----------------------------------------------------------------------------
(* Factory reset                                                           *)

ResetSend ==
  /\ room /\ Owned(record)
  /\ resets < MaxResets /\ resets' = resets + 1
  /\ Send("reset")
  /\ crossed' = FALSE
  /\ UNCHANGED <<record, agent, link, room, serverVars, poll, reset, codes, drops, faults>>

\* prepareFactoryReset; its acknowledgement may be lost.
ResetAgent ==
  /\ inbox # <<>> /\ Head(inbox) = "reset"
  /\ inbox' = Tail(inbox)
  /\ agent' = [paired |-> FALSE, code |-> NoCode, mode |-> "setup"]
  /\ \/ reset' = TRUE /\ UNCHANGED faults
     \/ UNCHANGED reset /\ Fault
  /\ UNCHANGED <<record, link, room, serverVars, poll, codes, drops, resets, crossed>>

\* resetDeviceRecordAfterFactoryReset
ResetRecord ==
  /\ reset
  /\ reset' = FALSE
  /\ record' = NoRecord
  /\ UNCHANGED <<agent, link, room, serverVars, poll, inbox, countVars, crossed>>

-----------------------------------------------------------------------------
AgentStep == Connect \/ BeatSend \/ PollStart \/ Told \/ Complete
HandlerStep == \/ HelloRead \/ HelloWrite \/ BeatRead \/ BeatWrite \/ CloseCheck \/ CloseWrite
               \/ RegisterRead \/ RegisterWrite \/ Ask \/ ResetAgent \/ ResetRecord
               \/ \E u \in Users : ClaimWrite(u) \/ ClaimEmit(u)
Environment == \/ RefreshHello \/ Drop \/ Restart \/ CommandFindsNone \/ FoundOffline
               \/ PollFails \/ NewCode
               \/ Provision \/ ResetSend
               \/ \E u \in Users : ClaimFind(u)

Next == AgentStep \/ HandlerStep \/ Environment

Spec == Init /\ [][Next]_vars

\* Timers of the agent fire, its socket reconnects without end, messages arrive
\* on a connection that stays up, queries complete.
Fairness ==
  /\ WF_vars(Connect) /\ WF_vars(Complete) /\ WF_vars(HelloRead) /\ WF_vars(HelloWrite)
  /\ WF_vars(PollStart \/ RegisterRead \/ RegisterWrite \/ Ask \/ Told)
  /\ WF_vars(BeatSend \/ BeatRead \/ BeatWrite)
  /\ WF_vars(CloseCheck \/ CloseWrite)
  /\ WF_vars(ResetAgent \/ ResetRecord)
  /\ \A u \in Users : WF_vars(ClaimWrite(u) \/ ClaimEmit(u))

FairSpec == Spec /\ Fairness

-----------------------------------------------------------------------------
Statuses == {"none", "unpaired", "paired", "online", "offline"}
Records == [exists : BOOLEAN, token : BOOLEAN, owner : Users \cup {Nobody},
            status : Statuses, code : Codes \cup {NoCode}, mode : Modes, online : BOOLEAN]
Agents == [paired : BOOLEAN, code : Codes \cup {NoCode}, mode : Modes]
Hellos == [stage : {"none", "sent", "read"}, code : Codes \cup {NoCode},
           accept : BOOLEAN, paired : BOOLEAN]
Beats == [stage : {"none", "sent", "read"}, mode : Modes, status : Statuses]
Polls == [stage : {"idle", "posted", "read", "ask", "told"}, code : Codes \cup {NoCode}]
Claims == [stage : {"none", "found", "won"}, code : Codes \cup {NoCode},
           owner : Users \cup {Nobody}]

TypeOK ==
  /\ record \in Records /\ agent \in Agents
  /\ link \in BOOLEAN /\ room \in BOOLEAN
  /\ hello \in Hellos /\ beat \in Beats
  /\ closing \in {"none", "check", "write"}
  /\ poll \in Polls
  /\ claim \in [Users -> Claims]
  /\ inbox \in Seq({"complete", "reset"})
  /\ reset \in BOOLEAN
  /\ codes \in 0..MaxCodes /\ drops \in 0..MaxDrops
  /\ faults \in 0..MaxFaults /\ resets \in 0..MaxResets
  /\ crossed \in BOOLEAN

\* A display with an owner has no code: a code that was claimed cannot be
\* claimed again unless the display registers it again (the claim clears it
\* in the same write, and every write of a code clears the owner).
OwnedHasNoCode == Owned(record) => record.code = NoCode

\* An owner is never replaced by another: whoever reads what and when, two
\* claims of the same code do not both get the display.
OwnerNeverSwitches ==
  [][Owned(record) /\ Owned(record)' => record'.owner = record.owner]_record

\* Until a factory reset, a display that takes itself for paired has an owner on
\* the server, whatever is delayed or lost, unless a handler was between its
\* read and its write when the code was claimed or the claimed record was marked
\* offline before the display had learned of its owner.
PairedAgentIsOwned == (agent.paired /\ ~crossed /\ resets = 0) => Owned(record)

\* Nor does it lose its owner then: the races that the exception names are the
\* only ones that undo a claim.
UncrossedClaimLasts ==
  [][Owned(record) /\ ~Owned(record)' => crossed \/ resets > 0]_record

\* What OwnedAgentLearns rests on: before a factory reset, an unpaired display whose record
\* has an owner polls with the token and the code it needs, and unless a handler
\* was crossed every round tells it: its registration is refused, the answer is
\* "paired", and no hello or registration in flight takes the owner away.
OwnerCanBeLearned ==
  (Owned(record) /\ ~agent.paired /\ resets = 0)
    => /\ agent.mode = "pairing" /\ agent.code # NoCode
       /\ record.exists /\ record.token
       /\ ~crossed => /\ record.status = "paired"
                      /\ poll.stage # "read"
                      /\ hello.stage = "read" => hello.paired /\ ~hello.accept

\* A hello that was under way during a factory reset has made a record without
\* a token, and its old code was claimed.
Locked == Owned(record) /\ ~record.token

\* A claimed display learns of it, although pairing:complete is sent once and
\* may be lost: from its next hello or from its poll, unless the record is locked.
OwnedAgentLearns == Owned(record) ~> (agent.paired \/ ~Owned(record) \/ Locked)

\* Only a factory reset locks a display: until then a hello finds the record, with
\* its token, that the registration made.
LockedOnlyByReset == Locked => resets > 0

\* The code that an unpaired display shows can be claimed sooner or later, also
\* after a new code (there are finitely many) and after a factory reset, unless
\* the record is locked.
DisplayedCodeWorks ==
  (~agent.paired /\ agent.mode = "pairing" /\ agent.code # NoCode)
    ~> \/ agent.paired \/ agent.mode # "pairing" \/ Locked
       \/ record.code = agent.code /\ record.status # "paired"

\* A code is good for one claim: two users do not both succeed with it.
CodeUsedOnce ==
  \A u, v \in Users : (u # v /\ claim[u].stage = "won" /\ claim[v].stage = "won")
                        => claim[u].code # claim[v].code
=============================================================================
