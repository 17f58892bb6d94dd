--------------------------- MODULE DeviceCommands ---------------------------
(***************************************************************************)
(* From an operator's command to a display and to the database.            *)
(*                                                                         *)
(* app/api/devices/[deviceId]/command/route.ts and sync-command/route.ts   *)
(* push a mode or a timer to one display or to several over Socket.IO,     *)
(* wait for the acknowledgements, and store what was acknowledged.         *)
(* [deviceId]/state/route.ts stores a timer and pushes it afterwards.      *)
(* lib/device-command.ts gives them the reset sequence that the displays   *)
(* rotate their advertisements by, and the two kinds of per-device queue.  *)
(* The displays are apps/pi-agent/src/socket-client.ts.                    *)
(*                                                                         *)
(* Queues: cmdQueue holds the calls that are in the command queues, oldest *)
(* first; module CommandQueue shows that the promise chains behave so.     *)
(* persistQueue[d] is the persistence queue of d.                          *)
(*                                                                         *)
(* Turns: JavaScript runs the continuations of a promise before the next   *)
(* I/O event.  The actions are therefore of two kinds: I/O events (a       *)
(* request, an acknowledgement, a query that completes, a connection that  *)
(* drops) and continuations, and an event happens only when no             *)
(* continuation is ready.                                                  *)
(*                                                                         *)
(* Left out: presentation and maintenance commands, the rate limiter, the  *)
(* audit log, who may command which display, the capability checks (every  *)
(* display is taken to be up to date), failing database READS.             *)
(***************************************************************************)
EXTENDS Naturals, Sequences

CONSTANTS
  Devices,
  Calls,         \* one element per HTTP request
  Requests,      \* what a request may ask for, see RequestOK
  SportModes,    \* modes of type basketball, told apart by their ad layout
  RotatingModes, \* the sport modes whose layout rotates on a timer reset
  OtherModes,    \* modes of other types: media, practice board, ...
  Basketball,    \* the sport mode { type: 'basketball' } without a layout
  Stored,        \* "the request names no mode"
  Events,        \* identifiers of primary clock resets
  NoEvent, NoCall, NoMode,
  MaxFaults      \* bound on timeouts, lost answers, dropped connections and failed writes

Modes == SportModes \cup OtherModes

\* What the dashboards send: sendCommand in SelectedDevicesProvider.tsx.
RequestOK(r) ==
  /\ r.kind \in {"set_mode", "sync_mode", "set_timer", "sync_timer",
                "post_state", "post_mode"}
  /\ r.targets \in SUBSET Devices /\ r.targets # {}
  /\ r.primary \in r.targets
  /\ r.kind \notin {"sync_mode", "sync_timer"} => r.targets = {r.primary}
  /\ r.mode \in Modes \/ (r.mode = Stored /\ r.kind \in {"set_timer", "sync_timer"})
  /\ r.event \in Events \cup {NoEvent}

ASSUME CommandAssumption ==
  /\ Requests # {} /\ \A r \in Requests : RequestOK(r)
  /\ RotatingModes \subseteq SportModes
  /\ Basketball \in SportModes \ RotatingModes
  /\ SportModes \cap OtherModes = {}
  /\ Stored \notin Modes /\ NoMode \notin Modes
  /\ NoEvent \notin Events /\ NoCall \notin Calls
  /\ MaxFaults \in Nat

VARIABLES
  connected,    \* the display is in its Socket.IO room
  hello,        \* stored mode a reconnecting display's hello has read, or NoMode
  inbox,        \* packets sent to the display and not yet received
  agentMode,    \* state.json of the display: mode
  agentTimer,   \* and timer state
  cached,       \* Device.displayState: deviceMode, layout preference, timer
  relational,   \* DisplayState.timerState
  column,       \* Device.mode, a mode type
  cmdQueue, persistQueue,
  snapshot,     \* what the head of persistQueue[d] has read, or NoMode
  stage,        \* where each call is
  request, incoming, mode, timers,
  leg,          \* per call and target: none, sent, ok, failed, waiting, saved
  lossy,        \* history: an answer, a connection or a write was lost here
  faults

agentVars == <<agentMode, agentTimer>>
dbVars == <<cached, relational, column>>
netVars == <<connected, hello, inbox>>
callVars == <<request, incoming, mode, timers>>
faultVars == <<lossy, faults>>
vars == <<netVars, agentVars, dbVars, cmdQueue, persistQueue, snapshot,
          stage, callVars, leg, faultVars>>

-----------------------------------------------------------------------------
\* A timer state: the reset metadata, and whose content it is.
Timer == [seq : Nat, event : Events \cup {NoEvent}, from : Calls \cup {NoCall}]
NoTimer == [seq |-> 0, event |-> NoEvent, from |-> NoCall]

ModeType(m) == IF m \in SportModes THEN Basketball ELSE m

Larger(m, n) == IF m < n THEN n ELSE m

\* Mutants: the relational copy is not looked at; or a repeated event is not.
ResetMetadataOfCache(in, c, r, action) ==
  IF action = NoEvent
  THEN [seq |-> Larger(in.seq, c.seq), event |-> IF in.event # NoEvent THEN in.event ELSE c.event]
  ELSE [seq |-> Larger(in.seq, c.seq) + (IF action = c.event THEN 0 ELSE 1), event |-> action]

ResetMetadataAlwaysCounts(in, c, r, action) ==
  LET current == Larger(in.seq, Larger(c.seq, r.seq))
  IN [seq |-> IF action = NoEvent THEN current ELSE current + 1, event |-> action]

\* The last reset that was counted, by the newer of the two copies.
LastReset(c, r) == IF c.seq > r.seq THEN c.event
                   ELSE IF r.seq > c.seq \/ c.event = NoEvent THEN r.event
                   ELSE c.event

\* resolvePrimaryResetMetadata: c and r are the cached and the relational
\* copies, which differ when one of the two writes of a timer failed.
ResetMetadata(in, c, r, action) ==
  LET current == Larger(in.seq, Larger(c.seq, r.seq))
      storedEvent == LastReset(c, r)
  IN IF action = NoEvent
     THEN [seq |-> current,
           event |-> IF in.event # NoEvent THEN in.event ELSE storedEvent]
     ELSE [seq |-> IF action = storedEvent THEN current ELSE current + 1,
           event |-> action]

\* Mutant: the page's reset sequence is believed.
TimerAsSent(c, d, in, m) ==
  [seq |-> in.seq + (IF request[c].event = NoEvent THEN 0 ELSE 1),
   event |-> request[c].event, from |-> c]

\* resolveTimerCommandState for call c; a reset counts only under a layout
\* that rotates on resets.
ResolvedTimer(c, d, in, m) ==
  LET action == IF m \in RotatingModes THEN request[c].event ELSE NoEvent
      meta == ResetMetadata(in, cached[d].timer, relational[d], action)
  IN [seq |-> meta.seq, event |-> meta.event, from |-> c]

\* getSportDisplayLayoutPreferenceUpdate: a preference is represented by the
\* sport mode with that layout; NoMode is "the property is absent".
PreferenceAfter(m, before) ==
  IF m \in SportModes THEN m
  ELSE IF before.pref = NoMode /\ before.deviceMode \in SportModes \ {Basketball}
  THEN before.deviceMode
  ELSE before.pref

\* resolveTimerCommandMode when the request names no mode.
StoredTimerMode(d) ==
  IF cached[d].deviceMode \in SportModes THEN cached[d].deviceMode
  ELSE IF cached[d].pref # NoMode THEN cached[d].pref
  ELSE Basketball

\* q without c, which is in it once or not at all.
Without(q, c) ==
  IF \A i \in 1..Len(q) : q[i] # c THEN q
  ELSE LET place == CHOOSE i \in 1..Len(q) : q[i] = c
       IN [i \in 1..(Len(q) - 1) |-> q[IF i < place THEN i ELSE i + 1]]

Targets(c) == request[c].targets
IsTimerCall(c) == request[c].kind \in {"set_timer", "sync_timer"}

\* POST .../state, with a timer state and without one.
IsPost(r) == r.kind \in {"post_state", "post_mode"}

\* Mutants: calls are not queued behind one another; or only behind those for
\* the same primary display.
RunnableAtOnce(c) == \E i \in 1..Len(cmdQueue) : cmdQueue[i] = c

RunnableOnPrimary(c) ==
  \E i \in 1..Len(cmdQueue) :
    /\ cmdQueue[i] = c
    /\ \A j \in 1..(i - 1) : request[cmdQueue[j]].primary # request[c].primary

\* In the command queue, c may run when no older call shares a display with it.
Runnable(c) ==
  \E i \in 1..Len(cmdQueue) :
    /\ cmdQueue[i] = c
    /\ \A j \in 1..(i - 1) : Targets(cmdQueue[j]) \cap Targets(c) = {}

\* Continuations that are ready to run.
Answered(c) == /\ stage[c] \in {"mode", "state"}
               /\ \A d \in Targets(c) : leg[c][d] # "sent"
AllSaved(c) == /\ stage[c] \in {"saving_mode", "saving_timer"}
               /\ \A d \in Targets(c) : leg[c][d] # "waiting"
JobReady(c) == \/ stage[c] = "queued" /\ Runnable(c)
               \/ Answered(c)
               \/ AllSaved(c)
Idle == \A c \in Calls : ~JobReady(c)

-----------------------------------------------------------------------------
Init ==
  /\ connected = [d \in Devices |-> TRUE]
  /\ hello = [d \in Devices |-> NoMode]
  /\ inbox = [d \in Devices |-> <<>>]
  /\ \E m \in Modes :
       /\ agentMode = [d \in Devices |-> m]
       /\ cached = [d \in Devices |-> [deviceMode |-> m, pref |-> NoMode, timer |-> NoTimer]]
       /\ column = [d \in Devices |-> ModeType(m)]
  /\ agentTimer = [d \in Devices |-> NoTimer]
  /\ relational = [d \in Devices |-> NoTimer]
  /\ cmdQueue = <<>>
  /\ persistQueue = [d \in Devices |-> <<>>]
  /\ snapshot = [d \in Devices |-> NoMode]
  /\ stage = [c \in Calls |-> "idle"]
  /\ request = [c \in Calls |-> CHOOSE r \in Requests : TRUE]
  /\ incoming = [c \in Calls |-> NoTimer]
  /\ mode = [c \in Calls |-> NoMode]
  /\ timers = [c \in Calls |-> [d \in Devices |-> NoTimer]]
  /\ leg = [c \in Calls |-> [d \in Devices |-> "none"]]
  /\ lossy = [d \in Devices |-> FALSE]
  /\ faults = 0

\* One more fault, at display d.
Fault(d) == /\ faults < MaxFaults
            /\ faults' = faults + 1
            /\ lossy' = [lossy EXCEPT ![d] = TRUE]

-----------------------------------------------------------------------------
\* emitDeviceCommand to every target in one turn.  An empty room answers at
\* once with no response.
Emit(c, packet(_)) ==
  /\ inbox' = [d \in Devices |-> IF d \in Targets(c) /\ connected[d]
                                 THEN Append(inbox[d], packet(d)) ELSE inbox[d]]
  /\ leg' = [leg EXCEPT ![c] = [d \in Devices |->
                IF d \notin Targets(c) THEN "none"
                ELSE IF connected[d] THEN "sent" ELSE "failed"]]

SendMode(c, m) ==
  LET packet(d) == [event |-> "mode", call |-> c, mode |-> m, timer |-> NoTimer]
  IN Emit(c, packet)

SendState(c, t) ==
  LET packet(d) == [event |-> "state", call |-> c, mode |-> NoMode, timer |-> t[d]]
  IN Emit(c, packet)

\* The acknowledged legs of c enter the persistence queues of their displays.
PersistAcknowledged(c) ==
  LET legs == {d \in Targets(c) : leg[c][d] = "ok"}
  IN /\ persistQueue' = [d \in Devices |-> IF d \in legs THEN Append(persistQueue[d], c)
                                           ELSE persistQueue[d]]
     /\ leg' = [leg EXCEPT ![c] = [d \in Devices |-> IF d \in legs THEN "waiting"
                                                     ELSE leg[c][d]]]

Finish(c, result) ==
  /\ stage' = [stage EXCEPT ![c] = result]
  /\ cmdQueue' = Without(cmdQueue, c)

AllOk(c, status) == \A d \in Targets(c) : leg[c][d] = status

-----------------------------------------------------------------------------
\* A request arrives.  A page knows the reset sequence it last loaded; the
\* synchronized route strips it (stripPrimaryResetMetadata).  With a target
\* disconnected the commands answer 409 and nothing is dispatched.
Submit(c, r) ==
  /\ Idle
  /\ stage[c] = "idle"
  /\ request' = [request EXCEPT ![c] = r]
  /\ \E s \in IF r.kind = "sync_timer" THEN {0} ELSE {0, cached[r.primary].timer.seq} :
       incoming' = [incoming EXCEPT ![c] = [NoTimer EXCEPT !.seq = s]]
  /\ IF ~IsPost(r) /\ \E d \in r.targets : ~connected[d]
     THEN /\ stage' = [stage EXCEPT ![c] = "failed"]
          /\ UNCHANGED <<cmdQueue, mode, inbox, leg>>
     ELSE IF r.kind \in {"set_mode", "sync_mode"}
     THEN /\ stage' = [stage EXCEPT ![c] = "mode"]
          /\ mode' = [mode EXCEPT ![c] = r.mode]
          /\ inbox' = [d \in Devices |->
                         IF d \in r.targets
                         THEN Append(inbox[d], [event |-> "mode", call |-> c,
                                                mode |-> r.mode, timer |-> NoTimer])
                         ELSE inbox[d]]
          /\ leg' = [leg EXCEPT ![c] = [d \in Devices |->
                         IF d \in r.targets THEN "sent" ELSE "none"]]
          /\ UNCHANGED cmdQueue
     ELSE /\ stage' = [stage EXCEPT ![c] = "queued"]
          /\ cmdQueue' = Append(cmdQueue, c)
          /\ UNCHANGED <<mode, inbox, leg>>
  /\ UNCHANGED <<connected, hello, agentVars, dbVars, persistQueue, snapshot, timers, faultVars>>

\* The command queue calls the operation.  A mode that the request names needs
\* no query.
Begin(c) ==
  /\ stage[c] = "queued" /\ Runnable(c)
  /\ IF IsPost(request[c])
     THEN /\ stage' = [stage EXCEPT ![c] = "posting"]
          /\ persistQueue' = [persistQueue EXCEPT ![request[c].primary] = Append(@, c)]
          /\ UNCHANGED mode
     ELSE /\ stage' = [stage EXCEPT ![c] = IF request[c].mode = Stored THEN "reading"
                                           ELSE "resolving"]
          /\ mode' = [mode EXCEPT ![c] = IF request[c].mode = Stored THEN NoMode
                                         ELSE request[c].mode]
          /\ UNCHANGED persistQueue
  /\ UNCHANGED <<netVars, agentVars, dbVars, cmdQueue, snapshot, request, incoming,
                 timers, leg, faultVars>>

\* resolveTimerCommandMode: a mode that is not named is read from the primary.
ReadMode(c) ==
  /\ Idle
  /\ stage[c] = "reading"
  /\ stage' = [stage EXCEPT ![c] = "resolving"]
  /\ mode' = [mode EXCEPT ![c] = StoredTimerMode(request[c].primary)]
  /\ UNCHANGED <<netVars, agentVars, dbVars, cmdQueue, persistQueue, snapshot,
                 request, incoming, timers, leg, faultVars>>

\* resolveTimerCommandState for every target, then mode:set to all of them.
Resolve(c) ==
  /\ Idle
  /\ stage[c] = "resolving"
  /\ timers' = [timers EXCEPT ![c] = [d \in Devices |->
                  IF d \in Targets(c) THEN ResolvedTimer(c, d, incoming[c], mode[c])
                  ELSE NoTimer]]
  /\ stage' = [stage EXCEPT ![c] = "mode"]
  /\ SendMode(c, mode[c])
  /\ UNCHANGED <<connected, hello, agentVars, dbVars, cmdQueue, persistQueue, snapshot,
                 request, incoming, mode, faultVars>>

\* Every mode:set has been answered.  A single set_timer goes straight on to
\* the timer; the others first store the mode where it was acknowledged.
ModeAnswered(c) ==
  /\ stage[c] = "mode" /\ Answered(c)
  /\ IF request[c].kind = "set_timer" /\ AllOk(c, "ok")
     THEN /\ SendState(c, timers[c])
          /\ stage' = [stage EXCEPT ![c] = "state"]
          /\ UNCHANGED <<cmdQueue, persistQueue>>
     ELSE IF request[c].kind \in {"set_timer", "set_mode"} /\ ~AllOk(c, "ok")
     THEN /\ Finish(c, "failed")
          /\ UNCHANGED <<inbox, persistQueue, leg>>
     ELSE /\ PersistAcknowledged(c)
          /\ stage' = [stage EXCEPT ![c] = "saving_mode"]
          /\ UNCHANGED <<inbox, cmdQueue>>
  /\ UNCHANGED <<connected, hello, agentVars, dbVars, snapshot, callVars, faultVars>>

\* Every acknowledged mode has been stored.  If a display of a synchronized
\* set_timer failed, none of them is sent the timer.
ModeSaved(c) ==
  /\ stage[c] = "saving_mode" /\ AllSaved(c)
  /\ IF request[c].kind = "set_mode"
     THEN /\ stage' = [stage EXCEPT ![c] = "column"]
          /\ UNCHANGED <<inbox, leg, cmdQueue>>
     ELSE IF request[c].kind = "sync_timer" /\ AllOk(c, "saved")
     THEN /\ SendState(c, timers[c])
          /\ stage' = [stage EXCEPT ![c] = "state"]
          /\ UNCHANGED cmdQueue
     ELSE /\ Finish(c, IF AllOk(c, "saved") THEN "succeeded" ELSE "failed")
          /\ UNCHANGED <<inbox, leg>>
  /\ UNCHANGED <<connected, hello, agentVars, dbVars, persistQueue, snapshot, callVars, faultVars>>

\* A single set_mode writes Device.mode once more, outside the persistence queue.
WriteColumn(c) ==
  /\ Idle
  /\ stage[c] = "column"
  /\ \/ /\ column' = [column EXCEPT ![request[c].primary] = ModeType(mode[c])]
        /\ UNCHANGED faultVars
     \/ UNCHANGED column /\ Fault(request[c].primary)
  /\ Finish(c, "succeeded")
  /\ UNCHANGED <<netVars, agentVars, cached, relational, persistQueue, snapshot, callVars, leg>>

\* Every state:update has been answered: store the acknowledged ones.
StateAnswered(c) ==
  /\ stage[c] = "state" /\ Answered(c)
  /\ IF request[c].kind = "set_timer" /\ ~AllOk(c, "ok")
     THEN Finish(c, "failed") /\ UNCHANGED <<persistQueue, leg>>
     ELSE /\ PersistAcknowledged(c)
          /\ stage' = [stage EXCEPT ![c] = "saving_timer"]
          /\ UNCHANGED cmdQueue
  /\ UNCHANGED <<netVars, agentVars, dbVars, snapshot, callVars, faultVars>>

TimerSaved(c) ==
  /\ stage[c] = "saving_timer" /\ AllSaved(c)
  /\ Finish(c, IF AllOk(c, "saved") THEN "succeeded" ELSE "failed")
  /\ UNCHANGED <<netVars, agentVars, dbVars, persistQueue, snapshot, callVars, leg, faultVars>>

Continue(c) == Begin(c) \/ ModeAnswered(c) \/ ModeSaved(c) \/ StateAnswered(c) \/ TimerSaved(c)

\* Mutants: emit without a timeout; or a timeout that counts as an answer.
TimeoutNever(c, d) == leg[c][d] = "sent" /\ FALSE /\ UNCHANGED vars

TimeoutIsSuccess(c, d) ==
  /\ Idle
  /\ leg[c][d] = "sent"
  /\ leg' = [leg EXCEPT ![c][d] = "ok"]
  /\ Fault(d)
  /\ UNCHANGED <<netVars, agentVars, dbVars, cmdQueue, persistQueue, snapshot, stage, callVars>>

\* The device leaves 2500ms without an answer; its packet may still arrive.
Timeout(c, d) ==
  /\ Idle
  /\ leg[c][d] = "sent"
  /\ leg' = [leg EXCEPT ![c][d] = "failed"]
  /\ IF \E i \in 1..Len(inbox[d]) : inbox[d][i].call = c
     THEN Fault(d)
     ELSE UNCHANGED faultVars
  /\ UNCHANGED <<netVars, agentVars, dbVars, cmdQueue, persistQueue, snapshot, stage, callVars>>

-----------------------------------------------------------------------------
\* The persistence queue of d: the read of the operation at its head,
PersistRead(d) ==
  /\ Idle
  /\ persistQueue[d] # <<>> /\ snapshot[d] = NoMode
  /\ stage[Head(persistQueue[d])] # "posting"
  /\ snapshot' = [snapshot EXCEPT ![d] = cached[d]]
  /\ UNCHANGED <<netVars, agentVars, dbVars, cmdQueue, persistQueue, stage, callVars, leg, faultVars>>

\* Mutant: the operation leaves the queue and the call that waits is not told.
LeaveUntold(d) ==
  /\ persistQueue' = [persistQueue EXCEPT ![d] = Tail(@)]
  /\ snapshot' = [snapshot EXCEPT ![d] = NoMode]
  /\ UNCHANGED leg

LeavePersistQueue(d) ==
  /\ persistQueue' = [persistQueue EXCEPT ![d] = Tail(@)]
  /\ snapshot' = [snapshot EXCEPT ![d] = NoMode]
  /\ leg' = [leg EXCEPT ![Head(persistQueue[d])][d] = "saved"]

\* then the write of persistDisplayMode, whose failure is only logged,
WriteMode(d) ==
  /\ Idle
  /\ snapshot[d] # NoMode
  /\ LET c == Head(persistQueue[d])
     IN /\ stage[c] = "saving_mode"
        /\ \/ /\ cached' = [cached EXCEPT ![d] =
                     [deviceMode |-> mode[c], pref |-> PreferenceAfter(mode[c], snapshot[d]),
                      timer |-> snapshot[d].timer]]
              /\ column' = [column EXCEPT ![d] = ModeType(mode[c])]
              /\ UNCHANGED faultVars
           \/ UNCHANGED <<cached, column>> /\ Fault(d)
  /\ LeavePersistQueue(d)
  /\ UNCHANGED <<netVars, agentVars, relational, cmdQueue, stage, callVars>>

\* or the two writes of persistTimerCommand, of which each may fail alone.
WriteTimer(d) ==
  /\ Idle
  /\ snapshot[d] # NoMode
  /\ LET c == Head(persistQueue[d])
     IN /\ stage[c] = "saving_timer"
        /\ \E okCached, okRelational \in BOOLEAN :
             /\ IF okCached
                THEN /\ cached' = [cached EXCEPT ![d] =
                            [deviceMode |-> mode[c],
                             pref |-> PreferenceAfter(mode[c], snapshot[d]),
                             timer |-> timers[c][d]]]
                     /\ column' = [column EXCEPT ![d] = ModeType(mode[c])]
                ELSE UNCHANGED <<cached, column>>
             /\ IF okRelational
                THEN relational' = [relational EXCEPT ![d] = timers[c][d]]
                ELSE UNCHANGED relational
             /\ IF okCached /\ okRelational THEN UNCHANGED faultVars ELSE Fault(d)
  /\ LeavePersistQueue(d)
  /\ UNCHANGED <<netVars, agentVars, cmdQueue, stage, callVars>>

\* POST .../state: one transaction under both queues, then state:update
\* without an acknowledgement.  Without a timer in its body it clears the
\* record, and the display gets the default timer.  The emit follows the transaction in the same
\* run of continuations, before any query of the next call can complete.
PostState(c) ==
  LET d == request[c].primary
      posted == IF request[c].kind = "post_mode" THEN NoTimer
                ELSE ResolvedTimer(c, d, incoming[c], cached[d].deviceMode)
  IN
  /\ Idle
  /\ stage[c] = "posting"
  /\ persistQueue[d] # <<>> /\ Head(persistQueue[d]) = c
  /\ persistQueue' = [persistQueue EXCEPT ![d] = Tail(@)]
  /\ \/ /\ cached' = [cached EXCEPT ![d].timer = posted]
        /\ relational' = [relational EXCEPT ![d] = posted]
        /\ column' = [column EXCEPT ![d] = ModeType(request[c].mode)]
        /\ timers' = [timers EXCEPT ![c][d] = posted]
        /\ inbox' = IF connected[d]
                    THEN [inbox EXCEPT ![d] = Append(@, [event |-> "state", call |-> NoCall,
                                                         mode |-> NoMode, timer |-> posted])]
                    ELSE inbox
        /\ Finish(c, "succeeded")
        /\ UNCHANGED faultVars
     \/ /\ Finish(c, "failed")
        /\ Fault(d)
        /\ UNCHANGED <<dbVars, timers, inbox>>
  /\ UNCHANGED <<connected, hello, agentVars, snapshot, request, incoming, mode, leg>>

-----------------------------------------------------------------------------
\* The display handles its oldest packet (mode:set, state:update) and answers.
\* The answer may be lost, or say that state.json could not be written.
Deliver(d) ==
  /\ Idle
  /\ inbox[d] # <<>>
  /\ inbox' = [inbox EXCEPT ![d] = Tail(@)]
  /\ LET p == Head(inbox[d])
         c == p.call
         awaited == /\ c \in Calls
                    /\ stage[c] = p.event
                    /\ leg[c][d] = "sent"
         Apply == IF p.event = "mode"
                  THEN agentMode' = [agentMode EXCEPT ![d] = p.mode] /\ UNCHANGED agentTimer
                  ELSE /\ agentMode' = [agentMode EXCEPT ![d] =
                            IF @ \in SportModes THEN @ ELSE Basketball]
                       /\ agentTimer' = [agentTimer EXCEPT ![d] = p.timer]
     IN \/ /\ Apply
           /\ leg' = IF awaited THEN [leg EXCEPT ![c][d] = "ok"] ELSE leg
           /\ UNCHANGED faultVars
        \/ Apply /\ awaited /\ UNCHANGED leg /\ Fault(d)
        \/ /\ UNCHANGED agentVars
           /\ leg' = IF awaited THEN [leg EXCEPT ![c][d] = "failed"] ELSE leg
           /\ Fault(d)
  /\ UNCHANGED <<connected, hello, dbVars, cmdQueue, persistQueue, snapshot, stage, callVars>>

\* The connection drops: what was on its way is lost.
Disconnect(d) ==
  /\ Idle
  /\ connected[d]
  /\ connected' = [connected EXCEPT ![d] = FALSE]
  /\ inbox' = [inbox EXCEPT ![d] = <<>>]
  /\ Fault(d)
  /\ UNCHANGED <<hello, agentVars, dbVars, cmdQueue, persistQueue, snapshot, stage, callVars, leg>>

\* device:hello of a paired display: the stored mode is read,
HelloRead(d) ==
  /\ Idle
  /\ ~connected[d] /\ hello[d] = NoMode
  /\ hello' = [hello EXCEPT ![d] = cached[d].deviceMode]
  /\ UNCHANGED <<connected, inbox, agentVars, dbVars, cmdQueue, persistQueue, snapshot,
                 stage, callVars, leg, faultVars>>

\* and, once the record is updated, the socket joins the room and is sent it.
HelloJoin(d) ==
  /\ Idle
  /\ hello[d] # NoMode
  /\ connected' = [connected EXCEPT ![d] = TRUE]
  /\ hello' = [hello EXCEPT ![d] = NoMode]
  /\ inbox' = [inbox EXCEPT ![d] = Append(@, [event |-> "mode", call |-> NoCall,
                                              mode |-> hello[d], timer |-> NoTimer])]
  /\ UNCHANGED <<agentVars, dbVars, cmdQueue, persistQueue, snapshot, stage, callVars,
                 leg, faultVars>>

-----------------------------------------------------------------------------
CallStep(c) == \/ Continue(c) \/ ReadMode(c) \/ Resolve(c) \/ WriteColumn(c) \/ PostState(c)
               \/ \E d \in Devices : Timeout(c, d)
DeviceStep(d) == \/ PersistRead(d) \/ WriteMode(d) \/ WriteTimer(d)
                 \/ Deliver(d) \/ Disconnect(d) \/ HelloRead(d) \/ HelloJoin(d)

Next == \/ \E c \in Calls : \/ \E r \in Requests : Submit(c, r)
                            \/ CallStep(c)
        \/ \E d \in Devices : DeviceStep(d)

Spec == Init /\ [][Next]_vars

\* Continuations run, queries complete, acknowledgement timers fire, packets of
\* a connected display arrive.  Nothing obliges a request to come or a
\* connection to drop or to return.
Fairness ==
  /\ \A c \in Calls : WF_vars(CallStep(c))
  /\ \A d \in Devices : WF_vars(PersistRead(d) \/ WriteMode(d) \/ WriteTimer(d) \/ Deliver(d))

FairSpec == Spec /\ Fairness

-----------------------------------------------------------------------------
StoredRecord == [deviceMode : Modes, pref : SportModes \cup {NoMode}, timer : Timer]
Packet == [event : {"mode", "state"}, call : Calls \cup {NoCall},
           mode : Modes \cup {NoMode}, timer : Timer]
Stages == {"idle", "queued", "reading", "resolving", "mode", "saving_mode", "column",
           "state", "saving_timer", "posting", "succeeded", "failed"}

TypeOK ==
  /\ connected \in [Devices -> BOOLEAN]
  /\ hello \in [Devices -> Modes \cup {NoMode}]
  /\ inbox \in [Devices -> Seq(Packet)]
  /\ agentMode \in [Devices -> Modes]
  /\ agentTimer \in [Devices -> Timer]
  /\ cached \in [Devices -> StoredRecord]
  /\ relational \in [Devices -> Timer]
  /\ column \in [Devices -> OtherModes \cup {Basketball}]
  /\ cmdQueue \in Seq(Calls)
  /\ persistQueue \in [Devices -> Seq(Calls)]
  /\ snapshot \in [Devices -> StoredRecord \cup {NoMode}]
  /\ stage \in [Calls -> Stages]
  /\ request \in [Calls -> Requests]
  /\ incoming \in [Calls -> Timer]
  /\ mode \in [Calls -> Modes \cup {NoMode}]
  /\ timers \in [Calls -> [Devices -> Timer]]
  /\ leg \in [Calls -> [Devices -> {"none", "sent", "ok", "failed", "waiting", "saved"}]]
  /\ lossy \in [Devices -> BOOLEAN]
  /\ faults \in 0..MaxFaults

StoredSequence(d) == Larger(cached[d].timer.seq, relational[d].seq)

\* A state POST without a timer is clearing the record of d.
Clearing(d) == \E c \in Calls : /\ stage[c] = "posting" /\ stage'[c] = "succeeded"
                                /\ request[c].kind = "post_mode"
                                /\ request[c].primary = d

\* Unless it is cleared, the reset sequence on record for a display never goes
\* back, whatever writes fail and however calls overlap: a timer resolved
\* against an older record is never written over a newer one (command and
\* persistence queues together).
StoredResetsNeverRewind ==
  [][\A d \in Devices : StoredSequence(d) =< StoredSequence(d)' \/ Clearing(d)]_<<cached, relational>>

\* Nor does the sequence a display shows, unless it is sent the default timer or
\* an answer or a write for it was lost: a display rotates its advertisement
\* when the sequence moves.
ShownResetsNeverRewind ==
  [][\A d \in Devices : ~lossy'[d] => \/ agentTimer[d].seq =< agentTimer'[d].seq
                                      \/ agentTimer'[d] = NoTimer]_agentTimer

\* d has no call outstanding.
Quiet(d) == /\ \A c \in Calls : stage[c] \notin {"idle", "succeeded", "failed"}
                                 => d \notin Targets(c)
            /\ inbox[d] = <<>>

\* At rest, a display that lost nothing shows the timer that both copies in the
\* database hold, from whichever route it came last.
TimersAgreeAtRest ==
  \A d \in Devices : (Quiet(d) /\ ~lossy[d]) =>
    /\ agentTimer[d] = cached[d].timer
    /\ agentTimer[d] = relational[d]

\* When set_timer or a synchronized set_timer answers success, every target
\* shows that call's timer, however late the packets of earlier calls that
\* were given up arrive.
SuccessMeansShown ==
  [][\A c \in Calls :
       (stage'[c] = "succeeded" /\ stage[c] # "succeeded" /\ IsTimerCall(c))
         => \A d \in Targets(c) : agentTimer'[d] = timers[c][d]]_stage

Outstanding(c) == stage[c] \notin {"idle", "succeeded", "failed"}

\* A step of c itself is due: a continuation, a query, the end of its patience.
MayGoOn(c) ==
  \/ JobReady(c)
  \/ stage[c] \in {"reading", "resolving", "column"}
  \/ stage[c] \in {"mode", "state"} /\ \E d \in Targets(c) : leg[c][d] = "sent"

\* An older call is still to be answered and has one of the displays of c.
WaitsForOlder(c) ==
  /\ stage[c] = "queued"
  /\ \E i, j \in 1..Len(cmdQueue) :
       /\ i < j /\ cmdQueue[j] = c
       /\ Outstanding(cmdQueue[i]) /\ Targets(cmdQueue[i]) \cap Targets(c) # {}

WaitsForRecord(c, d) == \E i \in 1..Len(persistQueue[d]) : persistQueue[d][i] = c

\* The operation at the head of the persistence queue of d has its read or its
\* write due.
HeadMayGoOn(d) ==
  /\ persistQueue[d] # <<>>
  /\ LET c == Head(persistQueue[d])
     IN \/ stage[c] = "posting" /\ request[c].primary = d
        \/ stage[c] \in {"saving_mode", "saving_timer"} /\ leg[c][d] = "waiting"

\* A call that is not answered has a step of its own due, or is in one of the
\* queues: behind an older call, or in the persistence queue of one of its displays.
\* None has been forgotten by a queue that it still waits for.
NoCallIsForgotten ==
  \A c \in Calls : Outstanding(c) =>
    MayGoOn(c) \/ WaitsForOlder(c) \/ \E d \in Targets(c) : WaitsForRecord(c, d)

\* And the two kinds of queue never wait for each other in a ring: while any call
\* is unanswered, some call or the head of some persistence queue can go on.
QueuesNeverJam ==
  (\E c \in Calls : Outstanding(c))
    => (\E c \in Calls : MayGoOn(c)) \/ (\E d \in Devices : HeadMayGoOn(d))

\* The operation of c is under way, with its displays to itself.  set_mode and
\* sync_mode do not go through the command queue.
Running(c) ==
  \/ stage[c] \in {"reading", "resolving", "state", "saving_timer", "posting"}
  \/ stage[c] \in {"mode", "saving_mode"} /\ IsTimerCall(c)

Admitted(c) == stage[c] = "queued" \/ Running(c)

Before(c, e) == \E i, j \in 1..Len(cmdQueue) : i < j /\ cmdQueue[i] = c /\ cmdQueue[j] = e

\* A call that asks for the queue may be over before it has come to it (409).
UsesQueue(c) == request[c].kind \notin {"set_mode", "sync_mode"}
QueuePhase(c) == CASE stage[c] = "queued" -> "queued"
                   [] Running(c) -> "active"
                   [] stage[c] \in {"succeeded", "failed"} /\ UsesQueue(c) -> "finished"
                   [] OTHER -> "idle"

Serialization == INSTANCE DeviceSerialization WITH
  Operations <- Calls,
  phase <- [c \in Calls |-> QueuePhase(c)],
  targets <- [c \in Calls |-> IF Admitted(c) THEN Targets(c) ELSE {}],
  ahead <- [c \in Calls |-> {e \in Calls : Before(e, c)}]

\* The timer and state routes use the command queue as the chains of promises
\* offer it: a call begins when nothing older needs its displays, keeps them
\* until it is answered, and whatever becomes of it leaves the queue once.
CommandsSerialize == Serialization!Spec

\* Every request is answered: the queues do not block one another.
EveryCallIsAnswered ==
  \A c \in Calls : stage[c] # "idle" ~> stage[c] \in {"succeeded", "failed"}

\* A page was loaded before the record was cleared and knows a higher sequence.
PageAhead(d) == \E c \in Calls : /\ stage[c] # "idle" /\ d \in Targets(c)
                                 /\ incoming[c].seq >= StoredSequence(d)'

\* A reset that is sent again, after a lost answer or by another page, while it
\* is the last one counted does not count again, whichever of the two copies
\* had been written the first time.
DuplicateResetsCountOnce ==
  [][\A d \in Devices : StoredSequence(d)' > StoredSequence(d) =>
       \/ LastReset(cached[d].timer, relational[d])' # LastReset(cached[d].timer, relational[d])
       \/ PageAhead(d)]_<<cached, relational>>

\* The stored mode is the mode the display was last set to.
StoredModeIsShown ==
  \A d \in Devices : (Quiet(d) /\ ~lossy[d]) => agentMode[d] = cached[d].deviceMode
=============================================================================
