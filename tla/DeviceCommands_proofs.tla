----------------------- MODULE DeviceCommands_proofs -----------------------
(***************************************************************************)
(* Proofs about DeviceCommands, for any displays, calls, requests, modes,  *)
(* resets and number of faults: types, that two operations on a display    *)
(* exclude each other, that the reset sequence goes back neither on record *)
(* nor on the display, that a repeated reset counts once, that a success   *)
(* means the timer is on every display, and that at rest the display and   *)
(* both copies of its record agree.                                        *)
(*                                                                         *)
(* The inductive invariant IInv, in the order in which its parts rest on   *)
(* one another:                                                            *)
(*   Kinds, PersistQueues, Queues   which requests reach which stage, what *)
(*                    the two queues hold, and hence that a running call   *)
(*                    has its displays to itself;                          *)
(*   TimersCurrent    so the timer that it resolved is still the one that  *)
(*                    the records would give;                              *)
(*   Legs             a leg that was sent has its packet on the way, and   *)
(*                    one that failed is a loss;                           *)
(*   Records          the copies agree and hold what was written last;     *)
(*   Packets          behind a packet of the running call no other timer   *)
(*                    is on its way to the display;                        *)
(*   Screens          and what is on its way rises to the timer that was   *)
(*                    sent last.                                           *)
(* Waits adds that what waits is in the queue it waits for.  With it no    *)
(* call is forgotten, the queues do not jam, and the calls of the command  *)
(* queue implement DeviceSerialization.                                    *)
(***************************************************************************)
EXTENDS DeviceCommands, TLAPS

-----------------------------------------------------------------------------
(* Lemmas about the operators.                                             *)

LEMMA RequestFacts ==
  ASSUME TypeOK, NEW c \in Calls
  PROVE  /\ request[c] \in Requests /\ RequestOK(request[c])
         /\ Targets(c) \subseteq Devices /\ request[c].primary \in Targets(c)
         /\ request[c].event \in Events \cup {NoEvent}
         /\ ~IsTimerCall(c) => request[c].mode \in Modes
         /\ request[c].kind \notin {"sync_mode", "sync_timer"} => Targets(c) = {request[c].primary}
  BY CommandAssumption DEF TypeOK, RequestOK, Targets, IsTimerCall

LEMMA NoTimerType == NoTimer \in Timer /\ NoTimer.seq = 0
  BY DEF NoTimer, Timer

LEMMA LargerBound ==
  \A m, n \in Nat : Larger(m, n) \in Nat /\ Larger(m, n) >= m /\ Larger(m, n) >= n
  BY DEF Larger

\* A resolved timer is a timer, whose sequence is not behind either copy.
LEMMA ResolvedTimerAhead ==
  ASSUME TypeOK, NEW c \in Calls, NEW d \in Devices, NEW m
  PROVE  /\ ResolvedTimer(c, d, incoming[c], m) \in Timer
         /\ ResolvedTimer(c, d, incoming[c], m).seq >= cached[d].timer.seq
         /\ ResolvedTimer(c, d, incoming[c], m).seq >= relational[d].seq
<1> DEFINE action == IF m \in RotatingModes THEN request[c].event ELSE NoEvent
           a == incoming[c]
           s == cached[d].timer
           r == relational[d]
           meta == ResetMetadata(a, s, r, action)
<1>1. a \in Timer /\ s \in Timer /\ r \in Timer /\ action \in Events \cup {NoEvent}
  BY RequestFacts DEF TypeOK, StoredRecord
<1>2. /\ a.seq \in Nat /\ s.seq \in Nat /\ r.seq \in Nat
      /\ {a.event, s.event, r.event} \subseteq Events \cup {NoEvent}
  BY <1>1 DEF Timer
<1> HIDE DEF a, s, r, action
<1>3. LastReset(s, r) \in Events \cup {NoEvent}
  BY <1>2 DEF LastReset
<1> DEFINE current == Larger(a.seq, Larger(s.seq, r.seq))
<1>4. current \in Nat /\ current >= s.seq /\ current >= r.seq
  BY <1>2 DEF Larger
<1>5. meta.event \in Events \cup {NoEvent} /\ meta.seq \in {current, current + 1}
  BY <1>1, <1>2, <1>3 DEF ResetMetadata
<1> HIDE DEF meta, current
<1>6. ResolvedTimer(c, d, incoming[c], m) = [seq |-> meta.seq, event |-> meta.event, from |-> c]
  BY DEF ResolvedTimer, meta, a, s, r, action
<1>7. meta.seq \in Nat /\ meta.seq >= s.seq /\ meta.seq >= r.seq
  BY <1>2, <1>4, <1>5
<1>8. QED
  BY <1>5, <1>6, <1>7 DEF Timer, s, r

\* Leaving the queue.
LEMMA WithoutOrder ==
  ASSUME NEW q \in Seq(Calls), NEW c, NEW w, w = Without(q, c)
  PROVE  /\ w \in Seq(Calls) /\ Len(w) \in Nat
         /\ (\A i, j \in 1..Len(q) : q[i] = q[j] => i = j) => \A i \in 1..Len(w) : w[i] # c
         /\ \A i, j \in 1..Len(w) : i < j => \E k, l \in 1..Len(q) : k < l /\ w[i] = q[k] /\ w[j] = q[l]
         /\ \A i \in 1..Len(w) : \E k \in 1..Len(q) : w[i] = q[k]
         /\ \A k \in 1..Len(q) : q[k] # c => \E i \in 1..Len(w) : w[i] = q[k]
<1>0. Len(q) \in Nat /\ \A i \in 1..Len(q) : q[i] \in Calls
  OBVIOUS
<1>1. CASE \A i \in 1..Len(q) : q[i] # c
  <2>1. w = q
    BY <1>1 DEF Without
  <2>2. QED
    BY <1>0, <1>1, <2>1
<1>2. CASE ~(\A i \in 1..Len(q) : q[i] # c)
  <2> DEFINE place == CHOOSE i \in 1..Len(q) : q[i] = c
             At(i) == IF i < place THEN i ELSE i + 1
  <2>1. place \in 1..Len(q) /\ q[place] = c
    BY <1>2
  <2>2. w = [i \in 1..(Len(q) - 1) |-> q[At(i)]]
    BY <1>2 DEF Without
  <2> HIDE DEF place
  <2>3. Len(q) - 1 \in Nat /\ \A i \in 1..(Len(q) - 1) : At(i) \in 1..Len(q) /\ At(i) # place
    BY <1>0, <2>1
  <2>4. \A i, j \in 1..(Len(q) - 1) : i < j => At(i) < At(j)
    BY <1>0, <2>1
  <2>5. \A k \in 1..Len(q) : k # place => \E i \in 1..(Len(q) - 1) : At(i) = k
    <3> SUFFICES ASSUME NEW k \in 1..Len(q), k # place PROVE \E i \in 1..(Len(q) - 1) : At(i) = k
      OBVIOUS
    <3>1. CASE k < place
      <4>1. k \in 1..(Len(q) - 1) /\ At(k) = k
        BY <1>0, <2>1, <3>1
      <4>2. QED
        BY <4>1
    <3>2. CASE k > place
      <4>1. k - 1 \in 1..(Len(q) - 1) /\ At(k - 1) = k
        BY <1>0, <2>1, <3>2
      <4>2. QED
        BY <4>1
    <3>3. QED
      BY <1>0, <2>1, <3>1, <3>2
  <2> HIDE DEF At
  <2>6. w \in Seq(Calls) /\ Len(w) = Len(q) - 1 /\ \A i \in 1..(Len(q) - 1) : w[i] = q[At(i)]
    BY <1>0, <2>2, <2>3
  <2>7. (\A i, j \in 1..Len(q) : q[i] = q[j] => i = j)
          => \A i \in 1..(Len(q) - 1) : w[i] # c
    BY <2>1, <2>3, <2>6
  <2>8. \A k \in 1..Len(q) : q[k] # c => \E i \in 1..(Len(q) - 1) : w[i] = q[k]
    BY <2>1, <2>5, <2>6
  <2>9. \A i, j \in 1..(Len(q) - 1) : i < j =>
          \E k, l \in 1..Len(q) : k < l /\ w[i] = q[k] /\ w[j] = q[l]
    BY <2>3, <2>4, <2>6
  <2>10. \A i \in 1..(Len(q) - 1) : \E k \in 1..Len(q) : w[i] = q[k]
    BY <2>3, <2>6
  <2>11. QED
    BY <2>3, <2>6, <2>7, <2>8, <2>9, <2>10
<1>3. QED
  BY <1>1, <1>2
-----------------------------------------------------------------------------
(* Types, and at which stages a request of which kind can be.              *)

TimerStages == {"state", "saving_timer"}
ModeStages == {"resolving", "mode", "saving_mode", "column"} \cup TimerStages

KindOK(c) ==
  /\ stage[c] = "queued" => IsTimerCall(c) \/ IsPost(request[c])
  /\ stage[c] \in {"reading", "resolving"} \cup TimerStages => IsTimerCall(c)
  /\ stage[c] = "posting" => IsPost(request[c])
  /\ stage[c] = "column" => request[c].kind = "set_mode"
  /\ stage[c] = "mode" => ~IsPost(request[c])
  /\ stage[c] = "saving_mode" => request[c].kind \in {"set_mode", "sync_mode", "sync_timer"}
  /\ stage[c] \in ModeStages => mode[c] \in Modes

Kinds == \A c \in Calls : KindOK(c)

ModePackets ==
  \A d \in Devices : \A i \in 1..Len(inbox[d]) :
    inbox[d][i].event = "mode" => inbox[d][i].mode \in Modes

TypeInv == TypeOK /\ Kinds /\ ModePackets

\* A call is in the persistence queue of d while its write is outstanding.
Persisting(c, d) ==
  \/ stage[c] \in {"saving_mode", "saving_timer"} /\ leg[c][d] = "waiting" /\ d \in Targets(c)
  \/ stage[c] = "posting" /\ request[c].primary = d

\* Nobody else writes the record between the read and the write of the
\* operation at the head.
PersistQueueOK(d) ==
  /\ \A i, j \in 1..Len(persistQueue[d]) : persistQueue[d][i] = persistQueue[d][j] => i = j
  /\ \A i \in 1..Len(persistQueue[d]) : Persisting(persistQueue[d][i], d)
  /\ snapshot[d] # NoMode => /\ persistQueue[d] # <<>>
                             /\ stage[persistQueue[d][1]] # "posting"
                             /\ snapshot[d] = cached[d]

PersistQueues == \A d \in Devices : PersistQueueOK(d)

LEMMA InitTypeInv == Init => TypeInv
<1> SUFFICES ASSUME Init PROVE TypeInv
  OBVIOUS
<1>1. /\ request \in [Calls -> Requests]
      /\ (CHOOSE r \in Requests : TRUE) \in Requests
  BY CommandAssumption DEF Init
<1>2. PICK m \in Modes :
        /\ agentMode = [d \in Devices |-> m]
        /\ cached = [d \in Devices |-> [deviceMode |-> m, pref |-> NoMode, timer |-> NoTimer]]
        /\ column = [d \in Devices |-> ModeType(m)]
  BY DEF Init
<1>3. ModeType(m) \in OtherModes \cup {Basketball}
  BY DEF ModeType, Modes
<1>4. TypeOK
  <2>1. /\ agentMode \in [Devices -> Modes] /\ cached \in [Devices -> StoredRecord]
        /\ column \in [Devices -> OtherModes \cup {Basketball}]
    BY <1>2, <1>3, NoTimerType DEF StoredRecord
  <2>2. connected \in [Devices -> BOOLEAN] /\ lossy \in [Devices -> BOOLEAN]
    BY Zenon DEF Init
  <2>3. inbox \in [Devices -> Seq(Packet)] /\ cmdQueue \in Seq(Calls)
        /\ persistQueue \in [Devices -> Seq(Calls)]
    BY DEF Init
  <2>4. /\ agentTimer \in [Devices -> Timer] /\ relational \in [Devices -> Timer]
        /\ incoming \in [Calls -> Timer] /\ timers \in [Calls -> [Devices -> Timer]]
    BY NoTimerType DEF Init
  <2>5. /\ hello \in [Devices -> Modes \cup {NoMode}]
        /\ snapshot \in [Devices -> StoredRecord \cup {NoMode}]
        /\ stage \in [Calls -> Stages] /\ mode \in [Calls -> Modes \cup {NoMode}]
        /\ leg \in [Calls -> [Devices -> {"none", "sent", "ok", "failed", "waiting", "saved"}]]
    BY DEF Init, Stages
  <2>6. faults \in 0..MaxFaults
    BY CommandAssumption DEF Init
  <2>7. QED
    BY <1>1, <2>1, <2>2, <2>3, <2>4, <2>5, <2>6 DEF TypeOK
<1>5. \A c \in Calls : stage[c] = "idle"
  BY DEF Init
<1>6. Kinds
  BY <1>5 DEF Kinds, KindOK, TimerStages, ModeStages
<1>7. \A d \in Devices : Len(inbox[d]) = 0
  BY DEF Init
<1>8. QED
  BY <1>4, <1>6, <1>7 DEF TypeInv, ModePackets

\* What is emitted to the targets of a call.
ModePacket(c, m) == [event |-> "mode", call |-> c, mode |-> m, timer |-> NoTimer]
StatePacket(c, t) == [event |-> "state", call |-> c, mode |-> NoMode, timer |-> t]
LegStates == {"none", "sent", "ok", "failed", "waiting", "saved"}

LEMMA PacketTypes ==
  ASSUME NEW c \in Calls \cup {NoCall}
  PROVE  /\ \A m \in Modes : ModePacket(c, m) \in Packet
         /\ \A t \in Timer : StatePacket(c, t) \in Packet
  BY NoTimerType DEF ModePacket, StatePacket, Packet

LEMMA SendModeEffect ==
  ASSUME TypeOK, NEW c \in Calls, NEW m \in Modes, SendMode(c, m)
  PROVE  /\ \A d \in Devices : inbox'[d] = IF d \in Targets(c) /\ connected[d]
                                         THEN Append(inbox[d], ModePacket(c, m)) ELSE inbox[d]
         /\ \A d \in Devices : leg'[c][d] = IF d \notin Targets(c) THEN "none"
                                         ELSE IF connected[d] THEN "sent" ELSE "failed"
         /\ \A e \in Calls \ {c} : leg'[e] = leg[e]
         /\ inbox' \in [Devices -> Seq(Packet)] /\ leg' \in [Calls -> [Devices -> LegStates]]
<1>1. inbox' = [d \in Devices |-> IF d \in Targets(c) /\ connected[d]
                                THEN Append(inbox[d], ModePacket(c, m)) ELSE inbox[d]]
  BY DEF SendMode, Emit, ModePacket
<1>2. leg' = [leg EXCEPT ![c] = [d \in Devices |->
                IF d \notin Targets(c) THEN "none" ELSE IF connected[d] THEN "sent" ELSE "failed"]]
  BY DEF SendMode, Emit
<1>3. ModePacket(c, m) \in Packet
  BY PacketTypes
<1>4. inbox' \in [Devices -> Seq(Packet)]
  BY <1>1, <1>3 DEF TypeOK
<1>5. leg' \in [Calls -> [Devices -> LegStates]]
  BY <1>2 DEF TypeOK, LegStates
<1>6. QED
  BY <1>1, <1>2, <1>4, <1>5 DEF TypeOK

LEMMA SendStateEffect ==
  ASSUME TypeOK, NEW c \in Calls, NEW t \in [Devices -> Timer], SendState(c, t)
  PROVE  /\ \A d \in Devices : inbox'[d] = IF d \in Targets(c) /\ connected[d]
                                         THEN Append(inbox[d], StatePacket(c, t[d])) ELSE inbox[d]
         /\ \A d \in Devices : leg'[c][d] = IF d \notin Targets(c) THEN "none"
                                         ELSE IF connected[d] THEN "sent" ELSE "failed"
         /\ \A e \in Calls \ {c} : leg'[e] = leg[e]
         /\ inbox' \in [Devices -> Seq(Packet)] /\ leg' \in [Calls -> [Devices -> LegStates]]
<1>1. inbox' = [d \in Devices |-> IF d \in Targets(c) /\ connected[d]
                                THEN Append(inbox[d], StatePacket(c, t[d])) ELSE inbox[d]]
  BY DEF SendState, Emit, StatePacket
<1>2. leg' = [leg EXCEPT ![c] = [d \in Devices |->
                IF d \notin Targets(c) THEN "none" ELSE IF connected[d] THEN "sent" ELSE "failed"]]
  BY DEF SendState, Emit
<1>3. \A d \in Devices : StatePacket(c, t[d]) \in Packet
  BY PacketTypes
<1>4. inbox' \in [Devices -> Seq(Packet)]
  BY <1>1, <1>3 DEF TypeOK
<1>5. leg' \in [Calls -> [Devices -> LegStates]]
  BY <1>2 DEF TypeOK, LegStates
<1>6. QED
  BY <1>1, <1>2, <1>4, <1>5 DEF TypeOK

LEMMA PersistEffect ==
  ASSUME TypeOK, NEW c \in Calls, PersistAcknowledged(c)
  PROVE  /\ \A d \in Devices : persistQueue'[d] = IF d \in Targets(c) /\ leg[c][d] = "ok"
                                                THEN Append(persistQueue[d], c) ELSE persistQueue[d]
         /\ \A d \in Devices : leg'[c][d] = IF d \in Targets(c) /\ leg[c][d] = "ok"
                                         THEN "waiting" ELSE leg[c][d]
         /\ \A e \in Calls \ {c} : leg'[e] = leg[e]
         /\ persistQueue' \in [Devices -> Seq(Calls)] /\ leg' \in [Calls -> [Devices -> LegStates]]
<1>1. persistQueue' = [d \in Devices |-> IF d \in Targets(c) /\ leg[c][d] = "ok"
                                         THEN Append(persistQueue[d], c) ELSE persistQueue[d]]
  BY DEF PersistAcknowledged
<1>2. leg' = [leg EXCEPT ![c] = [d \in Devices |-> IF d \in Targets(c) /\ leg[c][d] = "ok"
                                                  THEN "waiting" ELSE leg[c][d]]]
  BY DEF PersistAcknowledged
<1>3. persistQueue' \in [Devices -> Seq(Calls)]
  BY <1>1 DEF TypeOK
<1>4. leg' \in [Calls -> [Devices -> LegStates]]
  BY <1>2 DEF TypeOK, LegStates
<1>5. QED
  BY <1>1, <1>2, <1>3, <1>4 DEF TypeOK

LEMMA FaultEffect ==
  ASSUME TypeOK, NEW d \in Devices, Fault(d) \/ UNCHANGED faultVars
  PROVE  /\ lossy' \in [Devices -> BOOLEAN] /\ faults' \in 0..MaxFaults
         /\ \A e \in Devices : lossy[e] => lossy'[e]
         /\ \A e \in Devices \ {d} : lossy'[e] = lossy[e]
         /\ Fault(d) => lossy'[d]
<1>1. lossy \in [Devices -> BOOLEAN]
  BY DEF TypeOK
<1>2. lossy' = [lossy EXCEPT ![d] = TRUE] \/ lossy' = lossy
  BY DEF Fault, faultVars
<1>3. /\ lossy' \in [Devices -> BOOLEAN]
      /\ \A e \in Devices : lossy[e] => lossy'[e]
      /\ \A e \in Devices \ {d} : lossy'[e] = lossy[e]
  BY <1>1, <1>2, Zenon
<1>4. Fault(d) => lossy'[d]
  BY <1>1, Zenon DEF Fault
<1>5. faults' \in 0..MaxFaults
  BY CommandAssumption DEF Fault, faultVars, TypeOK
<1>6. QED
  BY <1>3, <1>4, <1>5

LEMMA FinishEffect ==
  ASSUME TypeOK, NEW c \in Calls, NEW r \in {"succeeded", "failed"}, Finish(c, r)
  PROVE  /\ stage' \in [Calls -> Stages] /\ stage'[c] = r
         /\ \A e \in Calls \ {c} : stage'[e] = stage[e]
         /\ cmdQueue' = Without(cmdQueue, c) /\ cmdQueue' \in Seq(Calls)
<1>1. cmdQueue' = Without(cmdQueue, c) /\ cmdQueue \in Seq(Calls)
  BY DEF Finish, TypeOK
<1>2. cmdQueue' \in Seq(Calls)
  BY <1>1, WithoutOrder
<1>3. QED
  BY <1>1, <1>2 DEF Finish, TypeOK, Stages

LEMMA ModeTypeType == \A m \in Modes : ModeType(m) \in OtherModes \cup {Basketball}
  BY DEF ModeType, Modes

LEMMA StoredModeType ==
  ASSUME TypeOK, NEW d \in Devices
  PROVE  StoredTimerMode(d) \in Modes
<1>1. cached[d] \in StoredRecord
  BY DEF TypeOK
<1>2. Basketball \in Modes
  BY CommandAssumption DEF Modes
<1>3. QED
  BY <1>1, <1>2 DEF StoredTimerMode, StoredRecord, Modes

LEMMA PreferenceType ==
  ASSUME NEW m, NEW before \in StoredRecord
  PROVE  PreferenceAfter(m, before) \in SportModes \cup {NoMode}
  BY DEF PreferenceAfter, StoredRecord

LEMMA TailFacts ==
  ASSUME NEW S, NEW s \in Seq(S), s # <<>>
  PROVE  /\ Len(s) \in Nat \ {0} /\ Head(s) = s[1] /\ s[1] \in S
         /\ Tail(s) \in Seq(S) /\ Len(Tail(s)) = Len(s) - 1
         /\ \A i \in 1..Len(Tail(s)) : i + 1 \in 1..Len(s) /\ Tail(s)[i] = s[i + 1]
  OBVIOUS

LEMMA AppendFacts ==
  ASSUME NEW S, NEW s \in Seq(S), NEW x \in S
  PROVE  /\ Len(s) \in Nat /\ Append(s, x) \in Seq(S) /\ Len(Append(s, x)) = Len(s) + 1
         /\ \A i \in 1..Len(s) : Append(s, x)[i] = s[i]
         /\ Append(s, x)[Len(s) + 1] = x
  OBVIOUS

LEMMA KindsKept ==
  ASSUME Kinds, NEW c \in Calls, KindOK(c)',
         \A e \in Calls \ {c} : stage'[e] = stage[e] /\ request'[e] = request[e] /\ mode'[e] = mode[e]
  PROVE  Kinds'
<1> SUFFICES ASSUME NEW e \in Calls PROVE KindOK(e)'
  BY DEF Kinds
<1>1. CASE e = c
  BY <1>1
<1>2. CASE e # c
  BY <1>2 DEF Kinds, KindOK, IsTimerCall
<1>3. QED
  BY <1>1, <1>2

LEMMA PacketsKept ==
  ASSUME TypeOK, ModePackets, NEW p, p.event = "mode" => p.mode \in Modes,
         \A d \in Devices : inbox'[d] = inbox[d] \/ inbox'[d] = Append(inbox[d], p)
  PROVE  ModePackets'
<1> SUFFICES ASSUME NEW d \in Devices, NEW i \in 1..Len(inbox'[d]), inbox'[d][i].event = "mode"
             PROVE  inbox'[d][i].mode \in Modes
  BY DEF ModePackets
<1>1. inbox[d] \in Seq(Packet) /\ \A j \in 1..Len(inbox[d]) : inbox[d][j].event = "mode" => inbox[d][j].mode \in Modes
  BY DEF ModePackets, TypeOK
<1>2. CASE inbox'[d] = Append(inbox[d], p)
  BY <1>1, <1>2
<1>3. QED
  BY <1>1, <1>2

LEMMA StatePacketsKept ==
  ASSUME TypeOK, ModePackets, NEW c, NEW t,
         \A d \in Devices : inbox'[d] = inbox[d] \/ inbox'[d] = Append(inbox[d], StatePacket(c, t[d]))
  PROVE  ModePackets'
<1> SUFFICES ASSUME NEW d \in Devices, NEW i \in 1..Len(inbox'[d]), inbox'[d][i].event = "mode"
             PROVE  inbox'[d][i].mode \in Modes
  BY DEF ModePackets
<1>1. inbox[d] \in Seq(Packet) /\ \A j \in 1..Len(inbox[d]) : inbox[d][j].event = "mode" => inbox[d][j].mode \in Modes
  BY DEF ModePackets, TypeOK
<1>2. CASE inbox'[d] = Append(inbox[d], StatePacket(c, t[d]))
  <2>1. StatePacket(c, t[d]).event = "state"
    BY DEF StatePacket
  <2>2. QED
    BY <1>1, <1>2, <2>1
<1>3. QED
  BY <1>1, <1>2

\* The operation at the head of the persistence queue of d has read the record.
LEMMA HeadFacts ==
  ASSUME TypeOK, PersistQueues, NEW d \in Devices, snapshot[d] # NoMode
  PROVE  /\ persistQueue[d] # <<>> /\ persistQueue[d] \in Seq(Calls)
         /\ Head(persistQueue[d]) = persistQueue[d][1] /\ Head(persistQueue[d]) \in Calls
         /\ stage[Head(persistQueue[d])] \in {"saving_mode", "saving_timer"}
         /\ leg[Head(persistQueue[d])][d] = "waiting" /\ d \in Targets(Head(persistQueue[d]))
         /\ snapshot[d] = cached[d] /\ cached[d] \in StoredRecord
         /\ Tail(persistQueue[d]) \in Seq(Calls)
<1>1. persistQueue[d] \in Seq(Calls) /\ cached[d] \in StoredRecord
  BY DEF TypeOK
<1>2. persistQueue[d] # <<>> /\ PersistQueueOK(d)
  BY DEF PersistQueues, PersistQueueOK
<1>3. /\ Len(persistQueue[d]) \in Nat \ {0} /\ Head(persistQueue[d]) = persistQueue[d][1]
      /\ Head(persistQueue[d]) \in Calls /\ Tail(persistQueue[d]) \in Seq(Calls)
  BY <1>1, <1>2
<1>4. Persisting(persistQueue[d][1], d) /\ stage[persistQueue[d][1]] # "posting" /\ snapshot[d] = cached[d]
  BY <1>2, <1>3 DEF PersistQueueOK
<1>5. QED
  BY <1>1, <1>2, <1>3, <1>4 DEF Persisting

LEMMA LeaveType ==
  ASSUME TypeOK, PersistQueues, NEW d \in Devices, snapshot[d] # NoMode, LeavePersistQueue(d)
  PROVE  /\ persistQueue' \in [Devices -> Seq(Calls)] /\ snapshot' \in [Devices -> StoredRecord \cup {NoMode}]
         /\ leg' \in [Calls -> [Devices -> LegStates]]
<1>1. Tail(persistQueue[d]) \in Seq(Calls)
  BY HeadFacts
<1>2. QED
  BY <1>1 DEF LeavePersistQueue, TypeOK, LegStates

LEMMA LeaveLegs ==
  ASSUME TypeOK, PersistQueues, NEW d \in Devices, snapshot[d] # NoMode, LeavePersistQueue(d)
  PROVE  /\ leg'[Head(persistQueue[d])][d] = "saved"
         /\ \A e \in Calls, x \in Devices :
              leg'[e][x] = IF e = Head(persistQueue[d]) /\ x = d THEN "saved" ELSE leg[e][x]
<1> DEFINE c == Head(persistQueue[d])
<1>1. c \in Calls
  BY HeadFacts
<1>2. leg' = [leg EXCEPT ![c][d] = "saved"]
  BY DEF LeavePersistQueue
<1> HIDE DEF c
<1>3. leg'[c][d] = "saved" /\ \A e \in Calls, x \in Devices : leg'[e][x] = IF e = c /\ x = d THEN "saved" ELSE leg[e][x]
  BY <1>1, <1>2 DEF TypeOK
<1>4. QED
  BY <1>3 DEF c

LEMMA NextCases ==
  ASSUME [Next]_vars
  PROVE  \/ \E c \in Calls, r \in Requests : Submit(c, r)
         \/ \E c \in Calls : \/ Begin(c) \/ ReadMode(c) \/ Resolve(c) \/ ModeAnswered(c) \/ ModeSaved(c)
                             \/ WriteColumn(c) \/ StateAnswered(c) \/ TimerSaved(c) \/ PostState(c)
         \/ \E c \in Calls, d \in Devices : Timeout(c, d)
         \/ \E d \in Devices : \/ PersistRead(d) \/ WriteMode(d) \/ WriteTimer(d) \/ Deliver(d)
                               \/ Disconnect(d) \/ HelloRead(d) \/ HelloJoin(d)
         \/ UNCHANGED vars
  BY Zenon DEF Next, CallStep, Continue, DeviceStep

LEMMA StepTypeInv == TypeInv /\ PersistQueues /\ [Next]_vars => TypeInv'
<1> SUFFICES ASSUME TypeInv, PersistQueues, [Next]_vars PROVE TypeInv'
  OBVIOUS
<1> USE DEF TypeInv
<1>1. ASSUME NEW c \in Calls, NEW r \in Requests, Submit(c, r)
      PROVE  TypeInv'
  <2>1. RequestOK(r) /\ (r.kind \in {"set_mode", "sync_mode"} => r.mode \in Modes)
    BY CommandAssumption DEF RequestOK
  <2>2. PICK s : /\ s \in {0, cached[r.primary].timer.seq}
                 /\ incoming' = [incoming EXCEPT ![c] = [NoTimer EXCEPT !.seq = s]]
    BY <1>1 DEF Submit
  <2>3. incoming' \in [Calls -> Timer]
    <3>1. r.primary \in Devices
      BY <2>1 DEF RequestOK
    <3>2. s \in Nat
      BY <2>2, <3>1 DEF TypeOK, StoredRecord, Timer
    <3>3. [NoTimer EXCEPT !.seq = s] \in Timer
      BY <3>2 DEF NoTimer, Timer
    <3>4. QED
      BY <2>2, <3>3 DEF TypeOK
  <2>4. request' \in [Calls -> Requests] /\ request'[c] = r /\ \A e \in Calls \ {c} : request'[e] = request[e]
    BY <1>1 DEF Submit, TypeOK
  <2>5. /\ stage' \in [Calls -> Stages] /\ \A e \in Calls \ {c} : stage'[e] = stage[e]
        /\ mode' \in [Calls -> Modes \cup {NoMode}] /\ \A e \in Calls \ {c} : mode'[e] = mode[e]
        /\ cmdQueue' \in Seq(Calls)
    <3>1. stage' \in [Calls -> Stages] /\ \A e \in Calls \ {c} : stage'[e] = stage[e]
      <4>1. \E at \in {"failed", "mode", "queued"} : stage' = [stage EXCEPT ![c] = at]
        BY <1>1 DEF Submit
      <4>2. QED
        BY <4>1 DEF TypeOK, Stages
    <3>2. mode' \in [Calls -> Modes \cup {NoMode}] /\ \A e \in Calls \ {c} : mode'[e] = mode[e]
      BY <1>1, <2>1 DEF Submit, TypeOK
    <3>3. cmdQueue' \in Seq(Calls)
      <4>1. cmdQueue' = cmdQueue \/ cmdQueue' = Append(cmdQueue, c)
        BY <1>1 DEF Submit
      <4>2. cmdQueue \in Seq(Calls)
        BY DEF TypeOK
      <4>3. QED
        BY <4>1, <4>2
    <3>4. QED
      BY <3>1, <3>2, <3>3
  <2>6. /\ inbox' \in [Devices -> Seq(Packet)] /\ leg' \in [Calls -> [Devices -> LegStates]]
        /\ ModePackets'
    <3>1. CASE inbox' = inbox /\ leg' = leg
      BY <3>1 DEF TypeOK, LegStates, ModePackets
    <3>2. CASE /\ r.kind \in {"set_mode", "sync_mode"}
               /\ inbox' = [d \in Devices |-> IF d \in r.targets
                                           THEN Append(inbox[d], ModePacket(c, r.mode)) ELSE inbox[d]]
               /\ leg' = [leg EXCEPT ![c] = [d \in Devices |-> IF d \in r.targets THEN "sent" ELSE "none"]]
      <4>1. ModePacket(c, r.mode) \in Packet /\ ModePacket(c, r.mode).mode \in Modes
        BY <2>1, <3>2, PacketTypes DEF ModePacket
      <4>2. inbox' \in [Devices -> Seq(Packet)]
        BY <3>2, <4>1 DEF TypeOK
      <4>3. leg' \in [Calls -> [Devices -> LegStates]]
        BY <3>2 DEF TypeOK, LegStates
      <4>4. ModePackets'
        BY <3>2, <4>1 DEF ModePackets, TypeOK
      <4>5. QED
        BY <4>2, <4>3, <4>4
    <3>3. QED
      BY <1>1, <3>1, <3>2 DEF Submit, ModePacket
  <2>7. TypeOK'
    <3>1. UNCHANGED <<connected, hello, agentVars, dbVars, persistQueue, snapshot, timers, faultVars>>
      BY <1>1 DEF Submit
    <3>2. QED
      BY <2>3, <2>4, <2>5, <2>6, <3>1 DEF TypeOK, LegStates, agentVars, dbVars, faultVars
  <2>8. KindOK(c)'
    <3>1. CASE stage'[c] = "mode"
      BY <1>1, <2>1, <2>4, <3>1 DEF Submit, KindOK, IsPost, IsTimerCall, TimerStages, ModeStages, TypeOK
    <3>2. CASE stage'[c] = "queued"
      BY <1>1, <2>1, <2>4, <3>2 DEF Submit, KindOK, IsPost, IsTimerCall, TimerStages, ModeStages, TypeOK, RequestOK
    <3>3. CASE stage'[c] = "failed"
      BY <3>3 DEF KindOK, TimerStages, ModeStages
    <3>4. QED
      BY <1>1, <3>1, <3>2, <3>3 DEF Submit, TypeOK
  <2>9. QED
    BY <2>4, <2>5, <2>6, <2>7, <2>8, KindsKept
<1>2. ASSUME NEW c \in Calls, Begin(c)
      PROVE  TypeInv'
  <2>1. RequestOK(request[c])
    BY RequestFacts
  <2>2. TypeOK'
    <3>1. UNCHANGED <<netVars, agentVars, dbVars, cmdQueue, snapshot, request, incoming, timers, leg, faultVars>>
      BY <1>2 DEF Begin
    <3>2. stage' \in [Calls -> Stages]
      BY <1>2 DEF Begin, TypeOK, Stages
    <3>3. persistQueue' \in [Devices -> Seq(Calls)]
      <4> DEFINE p == request[c].primary
      <4>1. \/ persistQueue' = persistQueue
            \/ persistQueue' = [persistQueue EXCEPT ![p] = Append(persistQueue[p], c)]
        BY <1>2 DEF Begin
      <4>2. persistQueue \in [Devices -> Seq(Calls)] /\ p \in Devices
        BY RequestFacts DEF TypeOK
      <4> HIDE DEF p
      <4>3. Append(persistQueue[p], c) \in Seq(Calls)
        BY <4>2
      <4>4. QED
        BY <4>1, <4>2, <4>3
    <3>4. mode' \in [Calls -> Modes \cup {NoMode}]
      <4>1. ~IsPost(request[c]) /\ request[c].mode # Stored => request[c].mode \in Modes
        BY <2>1 DEF RequestOK
      <4>2. QED
        BY <1>2, <4>1 DEF Begin, TypeOK
    <3>5. QED
      BY <3>1, <3>2, <3>3, <3>4 DEF TypeOK, netVars, agentVars, dbVars, faultVars
  <2>3. KindOK(c)'
    BY <1>2, <2>1 DEF Begin, Kinds, KindOK, IsPost, IsTimerCall, TimerStages, ModeStages, TypeOK, RequestOK
  <2>4. \A e \in Calls \ {c} : stage'[e] = stage[e] /\ request'[e] = request[e] /\ mode'[e] = mode[e]
    BY <1>2 DEF Begin, TypeOK
  <2>5. ModePackets'
    BY <1>2 DEF Begin, netVars, ModePackets
  <2>6. QED
    BY <2>2, <2>3, <2>4, <2>5, KindsKept
<1>3. ASSUME NEW c \in Calls, ReadMode(c)
      PROVE  TypeInv'
  <2>1. StoredTimerMode(request[c].primary) \in Modes
    BY RequestFacts, StoredModeType
  <2>2. TypeOK'
    <3>1. UNCHANGED <<netVars, agentVars, dbVars, cmdQueue, persistQueue, snapshot, request, incoming, timers, leg, faultVars>>
      BY <1>3 DEF ReadMode
    <3>2. stage' \in [Calls -> Stages] /\ mode' \in [Calls -> Modes \cup {NoMode}]
      BY <1>3, <2>1 DEF ReadMode, TypeOK, Stages
    <3>3. QED
      BY <3>1, <3>2 DEF TypeOK, netVars, agentVars, dbVars, faultVars
  <2>3. KindOK(c)'
    BY <1>3, <2>1 DEF ReadMode, Kinds, KindOK, IsTimerCall, TimerStages, ModeStages, TypeOK
  <2>4. \A e \in Calls \ {c} : stage'[e] = stage[e] /\ request'[e] = request[e] /\ mode'[e] = mode[e]
    BY <1>3 DEF ReadMode, TypeOK
  <2>5. ModePackets'
    BY <1>3 DEF ReadMode, netVars, ModePackets
  <2>6. QED
    BY <2>2, <2>3, <2>4, <2>5, KindsKept
<1>4. ASSUME NEW c \in Calls, Resolve(c)
      PROVE  TypeInv'
  <2>1. mode[c] \in Modes /\ SendMode(c, mode[c])
    BY <1>4 DEF Resolve, Kinds, KindOK, ModeStages
  <2>2. timers' \in [Calls -> [Devices -> Timer]]
    <3>1. \A d \in Devices : ResolvedTimer(c, d, incoming[c], mode[c]) \in Timer
      BY ResolvedTimerAhead
    <3>2. timers' = [timers EXCEPT ![c] = [d \in Devices |->
              IF d \in Targets(c) THEN ResolvedTimer(c, d, incoming[c], mode[c]) ELSE NoTimer]]
      BY <1>4 DEF Resolve
    <3>3. QED
      BY <3>1, <3>2, NoTimerType DEF TypeOK
  <2>3. inbox' \in [Devices -> Seq(Packet)] /\ leg' \in [Calls -> [Devices -> LegStates]]
    BY <2>1, SendModeEffect
  <2>4. TypeOK'
    <3>1. UNCHANGED <<connected, hello, agentVars, dbVars, cmdQueue, persistQueue, snapshot, request, incoming, mode, faultVars>>
      BY <1>4 DEF Resolve
    <3>2. stage' \in [Calls -> Stages]
      BY <1>4 DEF Resolve, TypeOK, Stages
    <3>3. QED
      BY <2>2, <2>3, <3>1, <3>2 DEF TypeOK, LegStates, agentVars, dbVars, faultVars
  <2>5. KindOK(c)'
    BY <1>4, <2>1 DEF Resolve, Kinds, KindOK, IsPost, IsTimerCall, TimerStages, ModeStages, TypeOK
  <2>6. \A e \in Calls \ {c} : stage'[e] = stage[e] /\ request'[e] = request[e] /\ mode'[e] = mode[e]
    BY <1>4 DEF Resolve, TypeOK
  <2>7. ModePackets'
    <3>1. \A d \in Devices : inbox'[d] = inbox[d] \/ inbox'[d] = Append(inbox[d], ModePacket(c, mode[c]))
      BY <2>1, SendModeEffect
    <3>2. ModePacket(c, mode[c]).mode \in Modes
      BY <2>1 DEF ModePacket
    <3>3. QED
      BY <3>1, <3>2, PacketsKept
  <2>8. QED
    BY <2>4, <2>5, <2>6, <2>7, KindsKept
<1>5. ASSUME NEW c \in Calls, ModeAnswered(c)
      PROVE  TypeInv'
  <2>1. UNCHANGED <<connected, hello, agentVars, dbVars, snapshot, callVars, faultVars>>
    BY <1>5 DEF ModeAnswered
  <2>2. stage[c] = "mode" /\ mode[c] \in Modes /\ ~IsPost(request[c])
    BY <1>5 DEF ModeAnswered, Kinds, KindOK, ModeStages
  <2>3. RequestOK(request[c])
    BY RequestFacts
  <2>4. CASE /\ request[c].kind = "set_timer" /\ SendState(c, timers[c])
             /\ stage' = [stage EXCEPT ![c] = "state"] /\ UNCHANGED <<cmdQueue, persistQueue>>
    <3>1. timers[c] \in [Devices -> Timer]
      BY DEF TypeOK
    <3>2. /\ inbox' \in [Devices -> Seq(Packet)] /\ leg' \in [Calls -> [Devices -> LegStates]]
          /\ \A d \in Devices : inbox'[d] = inbox[d] \/ inbox'[d] = Append(inbox[d], StatePacket(c, timers[c][d]))
      BY <2>4, <3>1, SendStateEffect
    <3>3. stage' \in [Calls -> Stages]
      BY <2>4 DEF TypeOK, Stages
    <3>4. TypeOK'
      BY <2>1, <2>4, <3>2, <3>3 DEF TypeOK, LegStates, agentVars, dbVars, callVars, faultVars
    <3>5. ModePackets'
      BY <3>2, StatePacketsKept
    <3>6. KindOK(c)' /\ \A e \in Calls \ {c} : stage'[e] = stage[e] /\ request'[e] = request[e] /\ mode'[e] = mode[e]
      BY <2>1, <2>2, <2>4 DEF KindOK, IsTimerCall, TimerStages, ModeStages, TypeOK, callVars
    <3>7. QED
      BY <3>4, <3>5, <3>6, KindsKept
  <2>5. CASE Finish(c, "failed") /\ UNCHANGED <<inbox, persistQueue, leg>>
    <3>1. stage' \in [Calls -> Stages] /\ cmdQueue' \in Seq(Calls)
      BY <2>5, FinishEffect
    <3>2. TypeOK'
      BY <2>1, <2>5, <3>1 DEF TypeOK, agentVars, dbVars, callVars, faultVars
    <3>3. stage'[c] = "failed" /\ \A e \in Calls \ {c} : stage'[e] = stage[e] /\ request'[e] = request[e] /\ mode'[e] = mode[e]
      BY <2>1, <2>5, FinishEffect DEF callVars
    <3>4. KindOK(c)'
      BY <3>3 DEF KindOK, TimerStages, ModeStages
    <3>5. ModePackets'
      BY <2>5 DEF ModePackets
    <3>6. QED
      BY <3>2, <3>3, <3>4, <3>5, KindsKept
  <2>6. CASE /\ request[c].kind # "set_timer" /\ PersistAcknowledged(c)
             /\ stage' = [stage EXCEPT ![c] = "saving_mode"] /\ UNCHANGED <<inbox, cmdQueue>>
    <3>1. persistQueue' \in [Devices -> Seq(Calls)] /\ leg' \in [Calls -> [Devices -> LegStates]]
      BY <2>6, PersistEffect
    <3>2. stage' \in [Calls -> Stages]
      BY <2>6 DEF TypeOK, Stages
    <3>3. TypeOK'
      BY <2>1, <2>6, <3>1, <3>2 DEF TypeOK, LegStates, agentVars, dbVars, callVars, faultVars
    <3>4. request[c].kind \in {"set_mode", "sync_mode", "sync_timer"}
      BY <2>2, <2>3, <2>6 DEF IsPost, RequestOK
    <3>5. KindOK(c)' /\ \A e \in Calls \ {c} : stage'[e] = stage[e] /\ request'[e] = request[e] /\ mode'[e] = mode[e]
      BY <2>1, <2>2, <2>6, <3>4 DEF KindOK, TimerStages, ModeStages, TypeOK, callVars
    <3>6. ModePackets'
      BY <2>6 DEF ModePackets
    <3>7. QED
      BY <3>3, <3>5, <3>6, KindsKept
  <2>7. QED
    BY <1>5, <2>4, <2>5, <2>6 DEF ModeAnswered
<1>6. ASSUME NEW c \in Calls, ModeSaved(c)
      PROVE  TypeInv'
  <2>1. UNCHANGED <<connected, hello, agentVars, dbVars, persistQueue, snapshot, callVars, faultVars>>
    BY <1>6 DEF ModeSaved
  <2>2. stage[c] = "saving_mode" /\ mode[c] \in Modes
    BY <1>6 DEF ModeSaved, Kinds, KindOK, ModeStages
  <2>3. CASE /\ request[c].kind = "set_mode" /\ stage' = [stage EXCEPT ![c] = "column"]
             /\ UNCHANGED <<inbox, leg, cmdQueue>>
    <3>1. stage' \in [Calls -> Stages]
      BY <2>3 DEF TypeOK, Stages
    <3>2. TypeOK'
      BY <2>1, <2>3, <3>1 DEF TypeOK, agentVars, dbVars, callVars, faultVars
    <3>3. KindOK(c)' /\ \A e \in Calls \ {c} : stage'[e] = stage[e] /\ request'[e] = request[e] /\ mode'[e] = mode[e]
      BY <2>1, <2>2, <2>3 DEF KindOK, TimerStages, ModeStages, TypeOK, callVars
    <3>4. ModePackets'
      BY <2>3 DEF ModePackets
    <3>5. QED
      BY <3>2, <3>3, <3>4, KindsKept
  <2>4. CASE /\ request[c].kind = "sync_timer" /\ SendState(c, timers[c])
             /\ stage' = [stage EXCEPT ![c] = "state"] /\ UNCHANGED cmdQueue
    <3>1. timers[c] \in [Devices -> Timer]
      BY DEF TypeOK
    <3>2. /\ inbox' \in [Devices -> Seq(Packet)] /\ leg' \in [Calls -> [Devices -> LegStates]]
          /\ \A d \in Devices : inbox'[d] = inbox[d] \/ inbox'[d] = Append(inbox[d], StatePacket(c, timers[c][d]))
      BY <2>4, <3>1, SendStateEffect
    <3>3. stage' \in [Calls -> Stages]
      BY <2>4 DEF TypeOK, Stages
    <3>4. TypeOK'
      BY <2>1, <2>4, <3>2, <3>3 DEF TypeOK, LegStates, agentVars, dbVars, callVars, faultVars
    <3>5. ModePackets'
      BY <3>2, StatePacketsKept
    <3>6. KindOK(c)' /\ \A e \in Calls \ {c} : stage'[e] = stage[e] /\ request'[e] = request[e] /\ mode'[e] = mode[e]
      BY <2>1, <2>2, <2>4 DEF KindOK, IsTimerCall, TimerStages, ModeStages, TypeOK, callVars
    <3>7. QED
      BY <3>4, <3>5, <3>6, KindsKept
  <2>5. CASE \E r \in {"succeeded", "failed"} : Finish(c, r) /\ UNCHANGED <<inbox, leg>>
    <3>1. PICK r \in {"succeeded", "failed"} : Finish(c, r) /\ UNCHANGED <<inbox, leg>>
      BY <2>5
    <3>2. stage' \in [Calls -> Stages] /\ cmdQueue' \in Seq(Calls)
      BY <3>1, FinishEffect
    <3>3. TypeOK'
      BY <2>1, <3>1, <3>2 DEF TypeOK, agentVars, dbVars, callVars, faultVars
    <3>4. stage'[c] = r /\ \A e \in Calls \ {c} : stage'[e] = stage[e] /\ request'[e] = request[e] /\ mode'[e] = mode[e]
      BY <2>1, <3>1, FinishEffect DEF callVars
    <3>5. KindOK(c)'
      BY <3>4 DEF KindOK, TimerStages, ModeStages
    <3>6. ModePackets'
      BY <3>1 DEF ModePackets
    <3>7. QED
      BY <3>3, <3>4, <3>5, <3>6, KindsKept
  <2>6. QED
    BY <1>6, <2>3, <2>4, <2>5 DEF ModeSaved
<1>7. ASSUME NEW c \in Calls, WriteColumn(c)
      PROVE  TypeInv'
  <2>1. UNCHANGED <<netVars, agentVars, cached, relational, persistQueue, snapshot, callVars, leg>>
        /\ Finish(c, "succeeded") /\ request[c].primary \in Devices
    BY <1>7, RequestFacts DEF WriteColumn
  <2>2. stage' \in [Calls -> Stages] /\ cmdQueue' \in Seq(Calls)
    BY <2>1, FinishEffect
  <2>3. column' \in [Devices -> OtherModes \cup {Basketball}]
    <3>1. ModeType(mode[c]) \in OtherModes \cup {Basketball}
      BY <1>7, ModeTypeType DEF WriteColumn, Kinds, KindOK, ModeStages
    <3>2. QED
      BY <1>7, <3>1 DEF WriteColumn, TypeOK
  <2>4. lossy' \in [Devices -> BOOLEAN] /\ faults' \in 0..MaxFaults
    BY <1>7, <2>1, FaultEffect DEF WriteColumn
  <2>5. TypeOK'
    BY <2>1, <2>2, <2>3, <2>4 DEF TypeOK, netVars, agentVars, callVars
  <2>6. stage'[c] = "succeeded" /\ \A e \in Calls \ {c} : stage'[e] = stage[e] /\ request'[e] = request[e] /\ mode'[e] = mode[e]
    BY <2>1, FinishEffect DEF callVars
  <2>7. KindOK(c)'
    BY <2>6 DEF KindOK, TimerStages, ModeStages
  <2>8. ModePackets'
    BY <2>1 DEF ModePackets, netVars
  <2>9. QED
    BY <2>5, <2>6, <2>7, <2>8, KindsKept
<1>8. ASSUME NEW c \in Calls, StateAnswered(c)
      PROVE  TypeInv'
  <2>1. UNCHANGED <<netVars, agentVars, dbVars, snapshot, callVars, faultVars>>
    BY <1>8 DEF StateAnswered
  <2>2. stage[c] = "state" /\ mode[c] \in Modes /\ IsTimerCall(c)
    BY <1>8 DEF StateAnswered, Kinds, KindOK, ModeStages, TimerStages
  <2>3. ModePackets'
    BY <2>1 DEF ModePackets, netVars
  <2>4. CASE Finish(c, "failed") /\ UNCHANGED <<persistQueue, leg>>
    <3>1. stage' \in [Calls -> Stages] /\ cmdQueue' \in Seq(Calls)
      BY <2>4, FinishEffect
    <3>2. TypeOK'
      BY <2>1, <2>4, <3>1 DEF TypeOK, netVars, agentVars, dbVars, callVars, faultVars
    <3>3. stage'[c] = "failed" /\ \A e \in Calls \ {c} : stage'[e] = stage[e] /\ request'[e] = request[e] /\ mode'[e] = mode[e]
      BY <2>1, <2>4, FinishEffect DEF callVars
    <3>4. KindOK(c)'
      BY <3>3 DEF KindOK, TimerStages, ModeStages
    <3>5. QED
      BY <2>3, <3>2, <3>3, <3>4, KindsKept
  <2>5. CASE /\ PersistAcknowledged(c) /\ stage' = [stage EXCEPT ![c] = "saving_timer"] /\ UNCHANGED cmdQueue
    <3>1. persistQueue' \in [Devices -> Seq(Calls)] /\ leg' \in [Calls -> [Devices -> LegStates]]
      BY <2>5, PersistEffect
    <3>2. stage' \in [Calls -> Stages]
      BY <2>5 DEF TypeOK, Stages
    <3>3. TypeOK'
      BY <2>1, <2>5, <3>1, <3>2 DEF TypeOK, LegStates, netVars, agentVars, dbVars, callVars, faultVars
    <3>4. KindOK(c)' /\ \A e \in Calls \ {c} : stage'[e] = stage[e] /\ request'[e] = request[e] /\ mode'[e] = mode[e]
      BY <2>1, <2>2, <2>5 DEF KindOK, IsTimerCall, TimerStages, ModeStages, TypeOK, callVars
    <3>5. QED
      BY <2>3, <3>3, <3>4, KindsKept
  <2>6. QED
    BY <1>8, <2>4, <2>5 DEF StateAnswered
<1>9. ASSUME NEW c \in Calls, TimerSaved(c)
      PROVE  TypeInv'
  <2>1. UNCHANGED <<netVars, agentVars, dbVars, persistQueue, snapshot, callVars, leg, faultVars>>
    BY <1>9 DEF TimerSaved
  <2>2. PICK r \in {"succeeded", "failed"} : Finish(c, r)
    BY <1>9 DEF TimerSaved
  <2>3. stage' \in [Calls -> Stages] /\ cmdQueue' \in Seq(Calls)
    BY <2>2, FinishEffect
  <2>4. TypeOK'
    BY <2>1, <2>3 DEF TypeOK, netVars, agentVars, dbVars, callVars, faultVars
  <2>5. stage'[c] = r /\ \A e \in Calls \ {c} : stage'[e] = stage[e] /\ request'[e] = request[e] /\ mode'[e] = mode[e]
    BY <2>1, <2>2, FinishEffect DEF callVars
  <2>6. KindOK(c)'
    BY <2>5 DEF KindOK, TimerStages, ModeStages
  <2>7. ModePackets'
    BY <2>1 DEF ModePackets, netVars
  <2>8. QED
    BY <2>4, <2>5, <2>6, <2>7, KindsKept
<1>10. ASSUME NEW c \in Calls, NEW d \in Devices, Timeout(c, d)
       PROVE  TypeInv'
  <2>1. UNCHANGED <<netVars, agentVars, dbVars, cmdQueue, persistQueue, snapshot, stage, callVars>>
    BY <1>10 DEF Timeout
  <2>2. leg' \in [Calls -> [Devices -> LegStates]]
    BY <1>10 DEF Timeout, TypeOK, LegStates
  <2>3. lossy' \in [Devices -> BOOLEAN] /\ faults' \in 0..MaxFaults
    BY <1>10, FaultEffect DEF Timeout
  <2>4. TypeOK'
    BY <2>1, <2>2, <2>3 DEF TypeOK, LegStates, netVars, agentVars, dbVars, callVars
  <2>5. Kinds' /\ ModePackets'
    BY <2>1 DEF Kinds, KindOK, IsTimerCall, ModePackets, netVars, callVars
  <2>6. QED
    BY <2>4, <2>5
<1>11. ASSUME NEW d \in Devices, PersistRead(d)
       PROVE  TypeInv'
  <2>1. UNCHANGED <<netVars, agentVars, dbVars, cmdQueue, persistQueue, stage, callVars, leg, faultVars>>
    BY <1>11 DEF PersistRead
  <2>2. snapshot' \in [Devices -> StoredRecord \cup {NoMode}]
    BY <1>11 DEF PersistRead, TypeOK
  <2>3. TypeOK'
    BY <2>1, <2>2 DEF TypeOK, netVars, agentVars, dbVars, callVars, faultVars
  <2>4. Kinds' /\ ModePackets'
    BY <2>1 DEF Kinds, KindOK, IsTimerCall, ModePackets, netVars, callVars
  <2>5. QED
    BY <2>3, <2>4
<1>12. ASSUME NEW d \in Devices, WriteMode(d)
       PROVE  TypeInv'
  <2>1. UNCHANGED <<netVars, agentVars, relational, cmdQueue, stage, callVars>> /\ LeavePersistQueue(d)
        /\ snapshot[d] # NoMode
    BY <1>12 DEF WriteMode
  <2> DEFINE c == Head(persistQueue[d])
  <2>2. c \in Calls /\ snapshot[d] \in StoredRecord
    BY <2>1, HeadFacts
  <2>3. /\ stage[c] = "saving_mode"
        /\ \/ /\ cached' = [cached EXCEPT ![d] =
                     [deviceMode |-> mode[c], pref |-> PreferenceAfter(mode[c], snapshot[d]),
                      timer |-> snapshot[d].timer]]
              /\ column' = [column EXCEPT ![d] = ModeType(mode[c])]
              /\ UNCHANGED faultVars
           \/ UNCHANGED <<cached, column>> /\ Fault(d)
    BY <1>12 DEF WriteMode
  <2> HIDE DEF c
  <2>4. mode[c] \in Modes
    BY <2>2, <2>3 DEF Kinds, KindOK, ModeStages
  <2>5. [deviceMode |-> mode[c], pref |-> PreferenceAfter(mode[c], snapshot[d]), timer |-> snapshot[d].timer] \in StoredRecord
    BY <2>2, <2>4, PreferenceType DEF StoredRecord
  <2>6. cached' \in [Devices -> StoredRecord]
    BY <2>3, <2>5 DEF TypeOK
  <2>7. column' \in [Devices -> OtherModes \cup {Basketball}]
    BY <2>3, <2>4, ModeTypeType DEF TypeOK
  <2>8. lossy' \in [Devices -> BOOLEAN] /\ faults' \in 0..MaxFaults
    BY <2>3, FaultEffect
  <2>9. /\ persistQueue' \in [Devices -> Seq(Calls)] /\ snapshot' \in [Devices -> StoredRecord \cup {NoMode}]
        /\ leg' \in [Calls -> [Devices -> LegStates]]
    BY <2>1, LeaveType
  <2>10. TypeOK'
    BY <2>1, <2>6, <2>7, <2>8, <2>9 DEF TypeOK, LegStates, netVars, agentVars, callVars
  <2>11. Kinds' /\ ModePackets'
    BY <2>1 DEF Kinds, KindOK, IsTimerCall, ModePackets, netVars, callVars
  <2>12. QED
    BY <2>10, <2>11
<1>13. ASSUME NEW d \in Devices, WriteTimer(d)
       PROVE  TypeInv'
  <2>1. UNCHANGED <<netVars, agentVars, cmdQueue, stage, callVars>> /\ LeavePersistQueue(d)
        /\ snapshot[d] # NoMode
    BY <1>13 DEF WriteTimer
  <2> DEFINE c == Head(persistQueue[d])
  <2>2. c \in Calls /\ snapshot[d] \in StoredRecord
    BY <2>1, HeadFacts
  <2>3. PICK okCached, okRelational \in BOOLEAN :
             /\ IF okCached
                THEN /\ cached' = [cached EXCEPT ![d] =
                            [deviceMode |-> mode[c],
                             pref |-> PreferenceAfter(mode[c], snapshot[d]),
                             timer |-> timers[c][d]]]
                     /\ column' = [column EXCEPT ![d] = ModeType(mode[c])]
                ELSE UNCHANGED <<cached, column>>
             /\ IF okRelational
                THEN relational' = [relational EXCEPT ![d] = timers[c][d]]
                ELSE UNCHANGED relational
             /\ IF okCached /\ okRelational THEN UNCHANGED faultVars ELSE Fault(d)
    BY <1>13 DEF WriteTimer
  <2>4. stage[c] = "saving_timer"
    BY <1>13 DEF WriteTimer
  <2> HIDE DEF c
  <2>5. mode[c] \in Modes /\ timers[c][d] \in Timer
    BY <2>2, <2>4 DEF Kinds, KindOK, ModeStages, TimerStages, TypeOK
  <2>6. [deviceMode |-> mode[c], pref |-> PreferenceAfter(mode[c], snapshot[d]), timer |-> timers[c][d]] \in StoredRecord
    BY <2>2, <2>5, PreferenceType DEF StoredRecord
  <2>7. cached' \in [Devices -> StoredRecord]
    <3>1. cached' = cached \/ \E record \in StoredRecord : cached' = [cached EXCEPT ![d] = record]
      BY <2>3, <2>6
    <3>2. cached \in [Devices -> StoredRecord]
      BY DEF TypeOK
    <3>3. QED
      BY <3>1, <3>2
  <2>8. column' \in [Devices -> OtherModes \cup {Basketball}]
    <3>1. column' = column \/ column' = [column EXCEPT ![d] = ModeType(mode[c])]
      BY <2>3
    <3>2. ModeType(mode[c]) \in OtherModes \cup {Basketball}
      BY <2>5, ModeTypeType
    <3>3. QED
      BY <3>1, <3>2 DEF TypeOK
  <2>9. relational' \in [Devices -> Timer]
    BY <2>3, <2>5 DEF TypeOK
  <2>10. lossy' \in [Devices -> BOOLEAN] /\ faults' \in 0..MaxFaults
    BY <2>3, FaultEffect
  <2>11. /\ persistQueue' \in [Devices -> Seq(Calls)] /\ snapshot' \in [Devices -> StoredRecord \cup {NoMode}]
         /\ leg' \in [Calls -> [Devices -> LegStates]]
    BY <2>1, LeaveType
  <2>12. TypeOK'
    BY <2>1, <2>7, <2>8, <2>9, <2>10, <2>11 DEF TypeOK, LegStates, netVars, agentVars, callVars
  <2>13. Kinds' /\ ModePackets'
    BY <2>1 DEF Kinds, KindOK, IsTimerCall, ModePackets, netVars, callVars
  <2>14. QED
    BY <2>12, <2>13
<1>14. ASSUME NEW c \in Calls, PostState(c)
       PROVE  TypeInv'
  <2> DEFINE d == request[c].primary
             posted == IF request[c].kind = "post_mode" THEN NoTimer
                       ELSE ResolvedTimer(c, d, incoming[c], cached[d].deviceMode)
  <2>1. d \in Devices /\ posted \in Timer
    BY RequestFacts, ResolvedTimerAhead, NoTimerType
  <2>2. /\ UNCHANGED <<connected, hello, agentVars, snapshot, request, incoming, mode, leg>>
        /\ stage[c] = "posting" /\ persistQueue[d] # <<>>
        /\ persistQueue' = [persistQueue EXCEPT ![d] = Tail(@)]
    BY <1>14 DEF PostState
  <2>3. \/ /\ cached' = [cached EXCEPT ![d].timer = posted]
           /\ relational' = [relational EXCEPT ![d] = posted]
           /\ column' = [column EXCEPT ![d] = ModeType(request[c].mode)]
           /\ timers' = [timers EXCEPT ![c][d] = posted]
           /\ inbox' = IF connected[d]
                       THEN [inbox EXCEPT ![d] = Append(inbox[d], StatePacket(NoCall, posted))]
                       ELSE inbox
           /\ Finish(c, "succeeded")
           /\ UNCHANGED faultVars
        \/ /\ Finish(c, "failed")
           /\ Fault(d)
           /\ UNCHANGED <<dbVars, timers, inbox>>
    BY <1>14 DEF PostState, StatePacket
  <2>4. request[c].mode \in Modes
    BY <2>2, RequestFacts DEF Kinds, KindOK, IsPost, IsTimerCall
  <2>5. ModeType(request[c].mode) \in OtherModes \cup {Basketball}
    BY <2>4, ModeTypeType
  <2> HIDE DEF d, posted
  <2>6. persistQueue' \in [Devices -> Seq(Calls)]
    <3>1. persistQueue[d] \in Seq(Calls) /\ Tail(persistQueue[d]) \in Seq(Calls)
      BY <2>1, <2>2 DEF TypeOK
    <3>2. QED
      BY <2>1, <2>2, <3>1 DEF TypeOK
  <2>7. lossy' \in [Devices -> BOOLEAN] /\ faults' \in 0..MaxFaults
    BY <2>1, <2>3, FaultEffect
  <2>8. /\ cached' \in [Devices -> StoredRecord] /\ relational' \in [Devices -> Timer]
        /\ column' \in [Devices -> OtherModes \cup {Basketball}] /\ timers' \in [Calls -> [Devices -> Timer]]
    <3>1. cached \in [Devices -> StoredRecord] /\ relational \in [Devices -> Timer]
          /\ column \in [Devices -> OtherModes \cup {Basketball}] /\ timers \in [Calls -> [Devices -> Timer]]
      BY DEF TypeOK
    <3>2. CASE UNCHANGED <<dbVars, timers>>
      BY <3>1, <3>2 DEF dbVars
    <3>3. CASE /\ cached' = [cached EXCEPT ![d].timer = posted]
               /\ relational' = [relational EXCEPT ![d] = posted]
               /\ column' = [column EXCEPT ![d] = ModeType(request[c].mode)]
               /\ timers' = [timers EXCEPT ![c][d] = posted]
      <4>1. cached' \in [Devices -> StoredRecord]
        BY <2>1, <3>1, <3>3 DEF StoredRecord
      <4>2. relational' \in [Devices -> Timer] /\ timers' \in [Calls -> [Devices -> Timer]]
        BY <2>1, <3>1, <3>3
      <4>3. column' \in [Devices -> OtherModes \cup {Basketball}]
        BY <2>5, <3>1, <3>3
      <4>4. QED
        BY <4>1, <4>2, <4>3
    <3>4. QED
      BY <2>3, <3>2, <3>3
  <2>9. /\ \A e \in Devices : inbox'[e] = inbox[e] \/ inbox'[e] = Append(inbox[e], StatePacket(NoCall, posted))
        /\ inbox' \in [Devices -> Seq(Packet)]
    <3>1. StatePacket(NoCall, posted) \in Packet
      BY <2>1, PacketTypes
    <3>2. Append(inbox[d], StatePacket(NoCall, posted)) \in Seq(Packet)
      BY <2>1, <3>1 DEF TypeOK
    <3>3. inbox \in [Devices -> Seq(Packet)]
      BY DEF TypeOK
    <3>4. \/ inbox' = inbox
          \/ inbox' = [inbox EXCEPT ![d] = Append(inbox[d], StatePacket(NoCall, posted))]
      BY <2>3
    <3>5. QED
      BY <2>1, <3>2, <3>3, <3>4
  <2>10. PICK r \in {"succeeded", "failed"} : Finish(c, r)
    BY <2>3
  <2>11. /\ stage' \in [Calls -> Stages] /\ cmdQueue' \in Seq(Calls) /\ stage'[c] = r
         /\ \A e \in Calls \ {c} : stage'[e] = stage[e] /\ request'[e] = request[e] /\ mode'[e] = mode[e]
    BY <2>2, <2>10, FinishEffect
  <2>12. TypeOK'
    BY <2>2, <2>6, <2>7, <2>8, <2>9, <2>11 DEF TypeOK, agentVars
  <2>13. ModePackets'
    <3>1. StatePacket(NoCall, posted).event # "mode"
      BY DEF StatePacket
    <3>2. QED
      BY <2>9, <3>1, PacketsKept
  <2>14. KindOK(c)'
    BY <2>11 DEF KindOK, TimerStages, ModeStages
  <2>15. QED
    BY <2>11, <2>12, <2>13, <2>14, KindsKept
<1>15. ASSUME NEW d \in Devices, Deliver(d)
       PROVE  TypeInv'
  <2>1. /\ UNCHANGED <<connected, hello, dbVars, cmdQueue, persistQueue, snapshot, stage, callVars>>
        /\ inbox[d] # <<>> /\ inbox' = [inbox EXCEPT ![d] = Tail(@)]
    BY <1>15 DEF Deliver
  <2> DEFINE p == Head(inbox[d])
  <2>2. inbox[d] \in Seq(Packet) /\ p = inbox[d][1] /\ p \in Packet /\ 1 \in 1..Len(inbox[d])
    BY <2>1 DEF TypeOK
  <2>3. p.event = "mode" => p.mode \in Modes
    BY <2>2 DEF ModePackets
  <2>4. /\ \/ agentMode' = agentMode /\ agentTimer' = agentTimer
           \/ /\ p.event = "mode" /\ agentMode' = [agentMode EXCEPT ![d] = p.mode] /\ agentTimer' = agentTimer
           \/ /\ agentMode' = [agentMode EXCEPT ![d] = IF @ \in SportModes THEN @ ELSE Basketball]
              /\ agentTimer' = [agentTimer EXCEPT ![d] = p.timer]
        /\ \/ leg' = leg
           \/ p.call \in Calls /\ leg' = [leg EXCEPT ![p.call][d] = "ok"]
           \/ p.call \in Calls /\ leg' = [leg EXCEPT ![p.call][d] = "failed"]
    BY <1>15 DEF Deliver, agentVars
  <2>5. UNCHANGED faultVars \/ Fault(d)
    BY <1>15 DEF Deliver
  <2> HIDE DEF p
  <2>6. agentMode' \in [Devices -> Modes] /\ agentTimer' \in [Devices -> Timer]
    <3>1. p.timer \in Timer
      BY <2>2 DEF Packet
    <3>2. Basketball \in Modes
      BY CommandAssumption DEF Modes
    <3>3. agentMode' \in [Devices -> Modes]
      <4>1. agentMode \in [Devices -> Modes]
        BY DEF TypeOK
      <4>2. QED
        BY <2>3, <2>4, <3>2, <4>1
    <3>4. agentTimer' \in [Devices -> Timer]
      <4>1. agentTimer \in [Devices -> Timer]
        BY DEF TypeOK
      <4>2. QED
        BY <2>4, <3>1, <4>1
    <3>5. QED
      BY <3>3, <3>4
  <2>7. leg' \in [Calls -> [Devices -> LegStates]]
    <3>1. leg \in [Calls -> [Devices -> LegStates]]
      BY DEF TypeOK, LegStates
    <3>2. \/ leg' = leg
          \/ p.call \in Calls /\ \E s \in LegStates : leg' = [leg EXCEPT ![p.call][d] = s]
      BY <2>4 DEF LegStates
    <3>3. QED
      <4>1. CASE leg' = leg
        BY <3>1, <4>1
      <4>2. CASE p.call \in Calls /\ \E s \in LegStates : leg' = [leg EXCEPT ![p.call][d] = s]
        <5>1. PICK s \in LegStates : leg' = [leg EXCEPT ![p.call][d] = s]
          BY <4>2
        <5>2. [leg[p.call] EXCEPT ![d] = s] \in [Devices -> LegStates]
          BY <3>1, <4>2
        <5>3. QED
          BY <3>1, <4>2, <5>1, <5>2
      <4>3. QED
        BY <3>2, <4>1, <4>2
  <2>8. lossy' \in [Devices -> BOOLEAN] /\ faults' \in 0..MaxFaults
    BY <2>5, FaultEffect
  <2>9. inbox' \in [Devices -> Seq(Packet)]
    <3>1. Tail(inbox[d]) \in Seq(Packet)
      BY <2>1, <2>2
    <3>2. QED
      BY <2>1, <3>1 DEF TypeOK
  <2>10. TypeOK'
    BY <2>1, <2>6, <2>7, <2>8, <2>9 DEF TypeOK, LegStates, dbVars, callVars
  <2>11. ModePackets'
    <3> SUFFICES ASSUME NEW e \in Devices, NEW i \in 1..Len(inbox'[e]), inbox'[e][i].event = "mode"
                 PROVE  inbox'[e][i].mode \in Modes
      BY DEF ModePackets
    <3>1. CASE e = d
      <4>1. inbox'[d] = Tail(inbox[d])
        BY <2>1 DEF TypeOK
      <4>2. i \in 1..Len(Tail(inbox[d])) /\ inbox'[d][i] = Tail(inbox[d])[i]
        BY <3>1, <4>1
      <4>3. i + 1 \in 1..Len(inbox[d]) /\ inbox'[d][i] = inbox[d][i + 1]
        <5>1. inbox[d] # <<>>
          BY <2>1
        <5>2. QED
          BY <2>2, <4>2, <5>1, TailFacts
      <4>4. QED
        BY <3>1, <4>3 DEF ModePackets
    <3>2. CASE e # d
      BY <2>1, <3>2 DEF ModePackets, TypeOK
    <3>3. QED
      BY <3>1, <3>2
  <2>12. Kinds'
    BY <2>1 DEF Kinds, KindOK, IsTimerCall, callVars
  <2>13. QED
    BY <2>10, <2>11, <2>12
<1>16. ASSUME NEW d \in Devices, Disconnect(d)
       PROVE  TypeInv'
  <2>1. UNCHANGED <<hello, agentVars, dbVars, cmdQueue, persistQueue, snapshot, stage, callVars, leg>>
    BY <1>16 DEF Disconnect
  <2>2. connected' \in [Devices -> BOOLEAN]
    BY <1>16, Zenon DEF Disconnect, TypeOK
  <2>3. inbox' \in [Devices -> Seq(Packet)] /\ inbox' = [inbox EXCEPT ![d] = <<>>]
    BY <1>16 DEF Disconnect, TypeOK
  <2>4. lossy' \in [Devices -> BOOLEAN] /\ faults' \in 0..MaxFaults
    BY <1>16, FaultEffect DEF Disconnect
  <2>5. TypeOK'
    BY <2>1, <2>2, <2>3, <2>4 DEF TypeOK, agentVars, dbVars, callVars
  <2>6. ModePackets'
    BY <2>3 DEF ModePackets, TypeOK
  <2>7. Kinds'
    BY <2>1 DEF Kinds, KindOK, IsTimerCall, callVars
  <2>8. QED
    BY <2>5, <2>6, <2>7
<1>17. ASSUME NEW d \in Devices, HelloRead(d)
       PROVE  TypeInv'
  <2>1. UNCHANGED <<connected, inbox, agentVars, dbVars, cmdQueue, persistQueue, snapshot, stage, callVars, leg, faultVars>>
    BY <1>17 DEF HelloRead
  <2>2. hello' \in [Devices -> Modes \cup {NoMode}]
    BY <1>17 DEF HelloRead, TypeOK, StoredRecord
  <2>3. TypeOK'
    BY <2>1, <2>2 DEF TypeOK, agentVars, dbVars, callVars, faultVars
  <2>4. Kinds' /\ ModePackets'
    BY <2>1 DEF Kinds, KindOK, IsTimerCall, ModePackets, callVars
  <2>5. QED
    BY <2>3, <2>4
<1>18. ASSUME NEW d \in Devices, HelloJoin(d)
       PROVE  TypeInv'
  <2>1. UNCHANGED <<agentVars, dbVars, cmdQueue, persistQueue, snapshot, stage, callVars, leg, faultVars>>
    BY <1>18 DEF HelloJoin
  <2>2. connected' \in [Devices -> BOOLEAN]
    BY <1>18, Zenon DEF HelloJoin, TypeOK
  <2>3. hello' \in [Devices -> Modes \cup {NoMode}] /\ hello[d] \in Modes
    BY <1>18 DEF HelloJoin, TypeOK
  <2>4. ModePacket(NoCall, hello[d]) \in Packet /\ ModePacket(NoCall, hello[d]).mode \in Modes
    BY <2>3, PacketTypes DEF ModePacket
  <2>5. inbox' = [inbox EXCEPT ![d] = Append(inbox[d], ModePacket(NoCall, hello[d]))]
    BY <1>18 DEF HelloJoin, ModePacket
  <2>6. /\ inbox' \in [Devices -> Seq(Packet)]
        /\ \A e \in Devices : inbox'[e] = inbox[e] \/ inbox'[e] = Append(inbox[e], ModePacket(NoCall, hello[d]))
    <3>1. Append(inbox[d], ModePacket(NoCall, hello[d])) \in Seq(Packet)
      BY <2>4 DEF TypeOK
    <3>2. QED
      BY <2>5, <3>1 DEF TypeOK
  <2>7. TypeOK'
    BY <2>1, <2>2, <2>3, <2>6 DEF TypeOK, agentVars, dbVars, callVars, faultVars
  <2>8. ModePackets'
    BY <2>4, <2>6, PacketsKept
  <2>9. Kinds'
    BY <2>1 DEF Kinds, KindOK, IsTimerCall, callVars
  <2>10. QED
    BY <2>7, <2>8, <2>9
<1>19. CASE UNCHANGED vars
  <2>1. TypeOK'
    BY <1>19 DEF TypeOK, vars, netVars, agentVars, dbVars, callVars, faultVars
  <2>2. Kinds' /\ ModePackets'
    BY <1>19 DEF Kinds, KindOK, IsTimerCall, ModePackets, vars, netVars, callVars
  <2>3. QED
    BY <2>1, <2>2
<1>20. QED
  BY <1>1, <1>2, <1>3, <1>4, <1>5, <1>6, <1>7, <1>8, <1>9, <1>10, <1>11, <1>12, <1>13, <1>14,
     <1>15, <1>16, <1>17, <1>18, <1>19, NextCases

-----------------------------------------------------------------------------
(* The persistence queues.                                                 *)

LEMMA PersistQueueKept ==
  ASSUME TypeOK, NEW d \in Devices, PersistQueueOK(d),
         persistQueue'[d] = persistQueue[d], snapshot'[d] = snapshot[d], cached'[d] = cached[d],
         \A e \in Calls : Persisting(e, d) => Persisting(e, d)' /\ stage'[e] = stage[e]
  PROVE  PersistQueueOK(d)'
<1>1. persistQueue[d] \in Seq(Calls) /\ \A i \in 1..Len(persistQueue[d]) : persistQueue[d][i] \in Calls
  BY DEF TypeOK
<1>2. \A i \in 1..Len(persistQueue[d]) : \E e \in Calls :
         e = persistQueue[d][i] /\ Persisting(e, d)' /\ stage'[e] = stage[e]
  BY <1>1 DEF PersistQueueOK
<1>3. persistQueue[d] # <<>> => 1 \in 1..Len(persistQueue[d])
  BY <1>1
<1>4. snapshot'[d] # NoMode => /\ persistQueue'[d] # <<>>
                               /\ stage'[persistQueue'[d][1]] # "posting"
                               /\ snapshot'[d] = cached'[d]
  BY <1>2, <1>3 DEF PersistQueueOK
<1>5. \A i, j \in 1..Len(persistQueue'[d]) : persistQueue'[d][i] = persistQueue'[d][j] => i = j
  BY DEF PersistQueueOK
<1>6. QED
  BY <1>2, <1>4, <1>5 DEF PersistQueueOK, Persisting, Targets

LEMMA PersistQueueGrows ==
  ASSUME TypeOK, NEW d \in Devices, PersistQueueOK(d), NEW c \in Calls,
         persistQueue'[d] = Append(persistQueue[d], c), snapshot'[d] = snapshot[d], cached'[d] = cached[d],
         ~Persisting(c, d), Persisting(c, d)',
         \A e \in Calls : Persisting(e, d) => Persisting(e, d)' /\ stage'[e] = stage[e]
  PROVE  PersistQueueOK(d)'
<1> DEFINE q == persistQueue[d]
           n == Len(q)
           w == persistQueue'[d]
<1>1. /\ q \in Seq(Calls) /\ n \in Nat /\ w = Append(q, c)
      /\ \A i \in 1..n : q[i] \in Calls
  BY DEF TypeOK
<1>2. /\ \A i \in 1..n : \E e \in Calls : e = q[i] /\ Persisting(e, d)' /\ stage'[e] = stage[e]
      /\ \A i \in 1..n : q[i] # c
  BY <1>1 DEF PersistQueueOK
<1>3. /\ \A i, j \in 1..n : q[i] = q[j] => i = j
      /\ snapshot[d] # NoMode => q # <<>> /\ stage[q[1]] # "posting" /\ snapshot[d] = cached[d]
  BY DEF PersistQueueOK
<1> HIDE DEF q, n, w
<1>4. /\ Len(w) = n + 1 /\ w[n + 1] = c /\ \A i \in 1..n : w[i] = q[i]
      /\ q # <<>> => 1 \in 1..n
  BY <1>1, AppendFacts DEF n
<1>5. \A i \in 1..Len(w) : i \in 1..n \/ i = n + 1
  BY <1>1, <1>4
<1>6. \A i, j \in 1..Len(w) : w[i] = w[j] => i = j
  BY <1>2, <1>3, <1>4, <1>5
<1>7. \A i \in 1..Len(w) : \E e \in Calls : e = w[i] /\ Persisting(e, d)'
  <2> SUFFICES ASSUME NEW i \in 1..Len(w) PROVE \E e \in Calls : e = w[i] /\ Persisting(e, d)'
    OBVIOUS
  <2>1. CASE i \in 1..n
    BY <1>2, <1>4, <2>1
  <2>2. CASE i = n + 1
    BY <1>4, <2>2
  <2>3. QED
    BY <1>5, <2>1, <2>2
<1>8. snapshot'[d] # NoMode => w # <<>> /\ stage'[w[1]] # "posting" /\ snapshot'[d] = cached'[d]
  <2>1. w # <<>>
    BY <1>1
  <2>2. QED
    BY <1>2, <1>3, <1>4, <2>1
<1>9. QED
  BY <1>6, <1>7, <1>8 DEF PersistQueueOK, Persisting, Targets, w

LEMMA PersistQueueLeft ==
  ASSUME TypeOK, NEW d \in Devices, PersistQueueOK(d), persistQueue[d] # <<>>,
         persistQueue'[d] = Tail(persistQueue[d]), snapshot'[d] = NoMode,
         \A e \in Calls : Persisting(e, d) /\ e # Head(persistQueue[d]) => Persisting(e, d)'
  PROVE  PersistQueueOK(d)'
<1> DEFINE q == persistQueue[d]
           w == persistQueue'[d]
<1>1. q \in Seq(Calls) /\ q # <<>> /\ w = Tail(q) /\ \A i \in 1..Len(q) : q[i] \in Calls
  BY DEF TypeOK
<1> HIDE DEF w
<1>2. /\ Len(q) \in Nat \ {0} /\ Head(q) = q[1] /\ Len(w) = Len(q) - 1
      /\ \A i \in 1..Len(w) : i + 1 \in 1..Len(q) /\ w[i] = q[i + 1]
  BY <1>1, TailFacts
<1>3. /\ \A i, j \in 1..Len(q) : q[i] = q[j] => i = j
      /\ \A i \in 1..Len(q) : Persisting(q[i], d)
  BY DEF PersistQueueOK
<1>4. \A i \in 2..Len(q) : \E e \in Calls : e = q[i] /\ Persisting(e, d)'
  <2>1. \A i \in 2..Len(q) : i \in 1..Len(q) /\ 1 \in 1..Len(q) /\ i # 1
    BY <1>2
  <2>2. \A i \in 2..Len(q) : q[i] # Head(q) /\ q[i] \in Calls /\ Persisting(q[i], d)
    BY <1>1, <1>2, <1>3, <2>1
  <2>3. QED
    BY <2>2
<1> HIDE DEF q
<1>5. \A i \in 1..Len(w) : i \in Nat /\ i + 1 \in 2..Len(q)
  BY <1>2
<1>6. \A i, j \in 1..Len(w) : w[i] = w[j] => i = j
  BY <1>2, <1>3, <1>5
<1>7. \A i \in 1..Len(w) : \E e \in Calls : e = w[i] /\ Persisting(e, d)'
  BY <1>2, <1>4, <1>5
<1>8. QED
  BY <1>6, <1>7 DEF PersistQueueOK, Persisting, Targets, w

LEMMA PersistQueuesKept ==
  ASSUME TypeOK, PersistQueues, NEW c \in Calls, \A d \in Devices : ~Persisting(c, d),
         \A e \in Calls \ {c} : stage'[e] = stage[e] /\ leg'[e] = leg[e] /\ request'[e] = request[e],
         UNCHANGED <<persistQueue, snapshot, cached>>
  PROVE  PersistQueues'
<1> SUFFICES ASSUME NEW d \in Devices PROVE PersistQueueOK(d)'
  BY DEF PersistQueues
<1>1. \A e \in Calls : Persisting(e, d) => Persisting(e, d)' /\ stage'[e] = stage[e]
  BY DEF Persisting, Targets
<1>2. QED
  BY <1>1, PersistQueueKept DEF PersistQueues

LEMMA PersistAcknowledgedKeeps ==
  ASSUME TypeOK, PersistQueues, NEW c \in Calls, PersistAcknowledged(c),
         stage[c] \in {"mode", "state"}, NEW s \in {"saving_mode", "saving_timer"},
         stage' = [stage EXCEPT ![c] = s], UNCHANGED <<snapshot, cached, request>>
  PROVE  PersistQueues'
<1> SUFFICES ASSUME NEW d \in Devices PROVE PersistQueueOK(d)'
  BY DEF PersistQueues
<1>1. /\ persistQueue'[d] = IF d \in Targets(c) /\ leg[c][d] = "ok"
                            THEN Append(persistQueue[d], c) ELSE persistQueue[d]
      /\ leg'[c][d] = IF d \in Targets(c) /\ leg[c][d] = "ok" THEN "waiting" ELSE leg[c][d]
      /\ \A e \in Calls \ {c} : leg'[e] = leg[e]
  BY PersistEffect
<1>2. stage'[c] = s /\ \A e \in Calls \ {c} : stage'[e] = stage[e]
  BY DEF TypeOK
<1>3. ~Persisting(c, d)
  BY DEF Persisting
<1>4. \A e \in Calls : Persisting(e, d) => Persisting(e, d)' /\ stage'[e] = stage[e]
  BY <1>1, <1>2, <1>3 DEF Persisting, Targets
<1>5. PersistQueueOK(d) /\ snapshot'[d] = snapshot[d] /\ cached'[d] = cached[d]
  BY DEF PersistQueues
<1>6. CASE d \in Targets(c) /\ leg[c][d] = "ok"
  <2>1. Persisting(c, d)'
    BY <1>1, <1>2, <1>6 DEF Persisting, Targets
  <2>2. QED
    BY <1>1, <1>3, <1>4, <1>5, <1>6, <2>1, PersistQueueGrows
<1>7. CASE ~(d \in Targets(c) /\ leg[c][d] = "ok")
  BY <1>1, <1>4, <1>5, <1>7, PersistQueueKept
<1>8. QED
  BY <1>6, <1>7

\* The write of the operation at the head, which then leaves the queue.
LEMMA HeadLeaves ==
  ASSUME TypeOK, PersistQueues, NEW d \in Devices, snapshot[d] # NoMode, LeavePersistQueue(d),
         UNCHANGED <<stage, request>>, \A e \in Devices \ {d} : cached'[e] = cached[e]
  PROVE  PersistQueues'
<1> DEFINE c == Head(persistQueue[d])
<1>1. c \in Calls /\ persistQueue[d] # <<>>
  BY HeadFacts
<1>2. /\ persistQueue'[d] = Tail(persistQueue[d]) /\ snapshot'[d] = NoMode
      /\ \A e \in Devices \ {d} : persistQueue'[e] = persistQueue[e] /\ snapshot'[e] = snapshot[e]
  BY DEF LeavePersistQueue, TypeOK
<1>3. leg' = [leg EXCEPT ![c][d] = "saved"]
  BY DEF LeavePersistQueue
<1> HIDE DEF c
<1>4. \A e \in Calls, x \in Devices : ~(e = c /\ x = d) => leg'[e][x] = leg[e][x]
  BY <1>1, <1>3 DEF TypeOK
<1>5. PersistQueueOK(d)'
  <2>1. \A e \in Calls : Persisting(e, d) /\ e # c => Persisting(e, d)'
    BY <1>4 DEF Persisting, Targets
  <2>2. QED
    BY <1>1, <1>2, <2>1, PersistQueueLeft DEF PersistQueues, c
<1>6. ASSUME NEW x \in Devices \ {d} PROVE PersistQueueOK(x)'
  <2>1. \A e \in Calls : Persisting(e, x) => Persisting(e, x)' /\ stage'[e] = stage[e]
    BY <1>4 DEF Persisting, Targets
  <2>2. QED
    BY <1>2, <2>1, PersistQueueKept DEF PersistQueues
<1>7. QED
  BY <1>5, <1>6 DEF PersistQueues

LEMMA AnsweredKeeps ==
  ASSUME TypeOK, PersistQueues, NEW c \in Calls, NEW d \in Devices, leg[c][d] = "sent",
         NEW s, leg' = [leg EXCEPT ![c][d] = s],
         UNCHANGED <<persistQueue, snapshot, cached, request, stage>>
  PROVE  PersistQueues'
<1> SUFFICES ASSUME NEW x \in Devices PROVE PersistQueueOK(x)'
  BY DEF PersistQueues
<1>1. \A e \in Calls : leg[e][x] # "sent" => leg'[e][x] = leg[e][x]
  BY DEF TypeOK
<1>2. \A e \in Calls : Persisting(e, x) => Persisting(e, x)' /\ stage'[e] = stage[e]
  BY <1>1 DEF Persisting, Targets
<1>3. QED
  BY <1>2, PersistQueueKept DEF PersistQueues

LEMMA NothingPersisted ==
  ASSUME TypeOK, PersistQueues, UNCHANGED <<persistQueue, snapshot, cached, request, stage, leg>>
  PROVE  PersistQueues'
<1> SUFFICES ASSUME NEW x \in Devices PROVE PersistQueueOK(x)'
  BY DEF PersistQueues
<1>1. \A e \in Calls : Persisting(e, x) => Persisting(e, x)' /\ stage'[e] = stage[e]
  BY DEF Persisting, Targets
<1>2. QED
  BY <1>1, PersistQueueKept DEF PersistQueues

LEMMA StepPersistQueues == TypeInv /\ PersistQueues /\ [Next]_vars => PersistQueues'
<1> SUFFICES ASSUME TypeInv, PersistQueues, [Next]_vars PROVE PersistQueues'
  OBVIOUS
<1> USE DEF TypeInv
<1>1. ASSUME NEW c \in Calls, NEW r \in Requests, Submit(c, r)
      PROVE  PersistQueues'
  <2>1. \A d \in Devices : ~Persisting(c, d)
    BY <1>1 DEF Submit, Persisting
  <2>2. \A e \in Calls \ {c} : stage'[e] = stage[e] /\ request'[e] = request[e]
    BY <1>1 DEF Submit, TypeOK
  <2>3. \A e \in Calls \ {c} : leg'[e] = leg[e]
    BY <1>1 DEF Submit, TypeOK
  <2>4. UNCHANGED <<persistQueue, snapshot, cached>>
    BY <1>1 DEF Submit, dbVars
  <2>5. QED
    BY <2>1, <2>2, <2>3, <2>4, PersistQueuesKept
<1>2. ASSUME NEW c \in Calls, Begin(c)
      PROVE  PersistQueues'
  <2>1. UNCHANGED <<snapshot, cached, request, leg>> /\ stage[c] = "queued"
    BY <1>2 DEF Begin, dbVars
  <2>2. \A d \in Devices : ~Persisting(c, d)
    BY <2>1 DEF Persisting
  <2>3. \A e \in Calls \ {c} : stage'[e] = stage[e]
    BY <1>2 DEF Begin, TypeOK
  <2>4. CASE ~IsPost(request[c])
    <3>1. persistQueue' = persistQueue
      BY <1>2, <2>4 DEF Begin
    <3>2. QED
      BY <2>1, <2>2, <2>3, <3>1, PersistQueuesKept
  <2>5. CASE IsPost(request[c])
    <3>0. PICK p \in Devices : p = request[c].primary
      BY RequestFacts
    <3>1. stage'[c] = "posting" /\ persistQueue' = [persistQueue EXCEPT ![p] = Append(persistQueue[p], c)]
      BY <1>2, <2>5, <3>0 DEF Begin, TypeOK
    <3>2. /\ persistQueue'[p] = Append(persistQueue[p], c)
          /\ \A d \in Devices \ {p} : persistQueue'[d] = persistQueue[d]
      BY <3>1 DEF TypeOK
    <3>3. Persisting(c, p)'
      BY <2>1, <3>0, <3>1 DEF Persisting
    <3>4. ASSUME NEW d \in Devices PROVE PersistQueueOK(d)'
      <4>1. \A e \in Calls : Persisting(e, d) => Persisting(e, d)' /\ stage'[e] = stage[e]
        BY <2>1, <2>2, <2>3 DEF Persisting, Targets
      <4>2. PersistQueueOK(d) /\ snapshot'[d] = snapshot[d] /\ cached'[d] = cached[d]
        BY <2>1 DEF PersistQueues
      <4>3. CASE d = p
        <5>1. Persisting(c, d)'
          BY <3>3, <4>3 DEF Persisting, Targets
        <5>2. QED
          BY <2>2, <3>2, <4>1, <4>2, <4>3, <5>1, PersistQueueGrows
      <4>4. CASE d # p
        BY <3>2, <4>1, <4>2, <4>4, PersistQueueKept
      <4>5. QED
        BY <4>3, <4>4
    <3>5. QED
      BY <3>4 DEF PersistQueues
  <2>6. QED
    BY <2>4, <2>5
<1>3. ASSUME NEW c \in Calls, ReadMode(c)
      PROVE  PersistQueues'
  <2>1. \A d \in Devices : ~Persisting(c, d)
    BY <1>3 DEF ReadMode, Persisting
  <2>2. \A e \in Calls \ {c} : stage'[e] = stage[e] /\ leg'[e] = leg[e] /\ request'[e] = request[e]
    BY <1>3 DEF ReadMode, TypeOK
  <2>3. UNCHANGED <<persistQueue, snapshot, cached>>
    BY <1>3 DEF ReadMode, dbVars
  <2>4. QED
    BY <2>1, <2>2, <2>3, PersistQueuesKept
<1>4. ASSUME NEW c \in Calls, Resolve(c)
      PROVE  PersistQueues'
  <2>1. \A d \in Devices : ~Persisting(c, d)
    BY <1>4 DEF Resolve, Persisting
  <2>2. SendMode(c, mode[c]) /\ mode[c] \in Modes
    BY <1>4 DEF Resolve, Kinds, KindOK, ModeStages
  <2>3. \A e \in Calls \ {c} : stage'[e] = stage[e] /\ leg'[e] = leg[e] /\ request'[e] = request[e]
    BY <1>4, <2>2, SendModeEffect DEF Resolve, TypeOK
  <2>4. UNCHANGED <<persistQueue, snapshot, cached>>
    BY <1>4 DEF Resolve, dbVars
  <2>5. QED
    BY <2>1, <2>3, <2>4, PersistQueuesKept
<1>5. ASSUME NEW c \in Calls, ModeAnswered(c)
      PROVE  PersistQueues'
  <2>1. UNCHANGED <<snapshot, cached, request>> /\ stage[c] = "mode" /\ timers[c] \in [Devices -> Timer]
    BY <1>5 DEF ModeAnswered, dbVars, callVars, TypeOK
  <2>2. \A d \in Devices : ~Persisting(c, d)
    BY <2>1 DEF Persisting
  <2>3. CASE SendState(c, timers[c]) /\ stage' = [stage EXCEPT ![c] = "state"] /\ UNCHANGED persistQueue
    <3>1. \A e \in Calls \ {c} : stage'[e] = stage[e] /\ leg'[e] = leg[e] /\ request'[e] = request[e]
      BY <2>1, <2>3, SendStateEffect DEF TypeOK
    <3>2. QED
      BY <2>1, <2>2, <2>3, <3>1, PersistQueuesKept
  <2>4. CASE Finish(c, "failed") /\ UNCHANGED <<persistQueue, leg>>
    <3>1. \A e \in Calls \ {c} : stage'[e] = stage[e]
      BY <2>4, FinishEffect
    <3>2. QED
      BY <2>1, <2>2, <2>4, <3>1, PersistQueuesKept
  <2>5. CASE PersistAcknowledged(c) /\ stage' = [stage EXCEPT ![c] = "saving_mode"]
    BY <2>1, <2>5, PersistAcknowledgedKeeps
  <2>6. QED
    BY <1>5, <2>3, <2>4, <2>5 DEF ModeAnswered
<1>6. ASSUME NEW c \in Calls, ModeSaved(c)
      PROVE  PersistQueues'
  <2>1. UNCHANGED <<persistQueue, snapshot, cached, request>> /\ stage[c] = "saving_mode" /\ AllSaved(c)
        /\ timers[c] \in [Devices -> Timer]
    BY <1>6 DEF ModeSaved, dbVars, callVars, TypeOK
  <2>2. \A d \in Devices : ~Persisting(c, d)
    BY <2>1 DEF Persisting, AllSaved
  <2>3. \A e \in Calls \ {c} : stage'[e] = stage[e] /\ leg'[e] = leg[e]
    <3>1. CASE stage' = [stage EXCEPT ![c] = "column"] /\ UNCHANGED leg
      BY <3>1 DEF TypeOK
    <3>2. CASE SendState(c, timers[c]) /\ stage' = [stage EXCEPT ![c] = "state"]
      BY <2>1, <3>2, SendStateEffect DEF TypeOK
    <3>3. CASE \E r \in {"succeeded", "failed"} : Finish(c, r) /\ UNCHANGED leg
      BY <3>3, FinishEffect
    <3>4. QED
      BY <1>6, <3>1, <3>2, <3>3 DEF ModeSaved
  <2>4. QED
    BY <2>1, <2>2, <2>3, PersistQueuesKept
<1>7. ASSUME NEW c \in Calls, WriteColumn(c)
      PROVE  PersistQueues'
  <2>1. UNCHANGED <<persistQueue, snapshot, cached, request, leg>> /\ stage[c] = "column" /\ Finish(c, "succeeded")
    BY <1>7 DEF WriteColumn, callVars
  <2>2. \A d \in Devices : ~Persisting(c, d)
    BY <2>1 DEF Persisting
  <2>3. \A e \in Calls \ {c} : stage'[e] = stage[e]
    BY <2>1, FinishEffect
  <2>4. QED
    BY <2>1, <2>2, <2>3, PersistQueuesKept
<1>8. ASSUME NEW c \in Calls, StateAnswered(c)
      PROVE  PersistQueues'
  <2>1. UNCHANGED <<snapshot, cached, request>> /\ stage[c] = "state"
    BY <1>8 DEF StateAnswered, dbVars, callVars
  <2>2. \A d \in Devices : ~Persisting(c, d)
    BY <2>1 DEF Persisting
  <2>3. CASE Finish(c, "failed") /\ UNCHANGED <<persistQueue, leg>>
    <3>1. \A e \in Calls \ {c} : stage'[e] = stage[e]
      BY <2>3, FinishEffect
    <3>2. QED
      BY <2>1, <2>2, <2>3, <3>1, PersistQueuesKept
  <2>4. CASE PersistAcknowledged(c) /\ stage' = [stage EXCEPT ![c] = "saving_timer"]
    BY <2>1, <2>4, PersistAcknowledgedKeeps
  <2>5. QED
    BY <1>8, <2>3, <2>4 DEF StateAnswered
<1>9. ASSUME NEW c \in Calls, TimerSaved(c)
      PROVE  PersistQueues'
  <2>1. UNCHANGED <<persistQueue, snapshot, cached, request, leg>> /\ stage[c] = "saving_timer" /\ AllSaved(c)
    BY <1>9 DEF TimerSaved, dbVars, callVars
  <2>2. \A d \in Devices : ~Persisting(c, d)
    BY <2>1 DEF Persisting, AllSaved
  <2>3. \A e \in Calls \ {c} : stage'[e] = stage[e]
    BY <1>9, FinishEffect DEF TimerSaved
  <2>4. QED
    BY <2>1, <2>2, <2>3, PersistQueuesKept
<1>10. ASSUME NEW c \in Calls, NEW d \in Devices, Timeout(c, d)
       PROVE  PersistQueues'
  <2>1. UNCHANGED <<persistQueue, snapshot, cached, request, stage>>
    BY <1>10 DEF Timeout, dbVars, callVars
  <2>2. leg[c][d] = "sent" /\ leg' = [leg EXCEPT ![c][d] = "failed"]
    BY <1>10 DEF Timeout
  <2>3. QED
    BY <2>1, <2>2, AnsweredKeeps
<1>11. ASSUME NEW d \in Devices, PersistRead(d)
       PROVE  PersistQueues'
  <2>1. /\ UNCHANGED <<persistQueue, cached, request, stage, leg>> /\ persistQueue[d] # <<>>
        /\ stage[Head(persistQueue[d])] # "posting" /\ snapshot' = [snapshot EXCEPT ![d] = cached[d]]
    BY <1>11 DEF PersistRead, dbVars, callVars
  <2>2. \A x \in Devices : \A i \in 1..Len(persistQueue[x]) :
           Persisting(persistQueue[x][i], x) => Persisting(persistQueue[x][i], x)'
    BY <2>1 DEF Persisting, Targets
  <2>3. snapshot'[d] = cached[d] /\ \A x \in Devices \ {d} : snapshot'[x] = snapshot[x]
    BY <2>1 DEF TypeOK
  <2>4. Head(persistQueue[d]) = persistQueue[d][1]
    BY <2>1 DEF TypeOK
  <2>5. ASSUME NEW x \in Devices PROVE PersistQueueOK(x)'
    <3>1. \A i \in 1..Len(persistQueue[x]) : Persisting(persistQueue[x][i], x)'
      BY <2>2 DEF PersistQueues, PersistQueueOK
    <3>2. \A i, j \in 1..Len(persistQueue[x]) : persistQueue[x][i] = persistQueue[x][j] => i = j
      BY DEF PersistQueues, PersistQueueOK
    <3>3. snapshot'[x] # NoMode => /\ persistQueue[x] # <<>> /\ stage[persistQueue[x][1]] # "posting"
                                   /\ snapshot'[x] = cached[x]
      BY <2>1, <2>3, <2>4 DEF PersistQueues, PersistQueueOK
    <3>4. QED
      BY <2>1, <3>1, <3>2, <3>3 DEF PersistQueueOK, Persisting, Targets
  <2>6. QED
    BY <2>5 DEF PersistQueues
<1>12. ASSUME NEW d \in Devices, WriteMode(d)
       PROVE  PersistQueues'
  <2>1. /\ UNCHANGED <<stage, request>> /\ LeavePersistQueue(d) /\ snapshot[d] # NoMode
        /\ cached' = cached \/ \E record : cached' = [cached EXCEPT ![d] = record]
    BY <1>12 DEF WriteMode, callVars
  <2>2. \A e \in Devices \ {d} : cached'[e] = cached[e]
    BY <2>1 DEF TypeOK
  <2>3. QED
    BY <2>1, <2>2, HeadLeaves
<1>13. ASSUME NEW d \in Devices, WriteTimer(d)
       PROVE  PersistQueues'
  <2>1. /\ UNCHANGED <<stage, request>> /\ LeavePersistQueue(d) /\ snapshot[d] # NoMode
        /\ cached' = cached \/ \E record : cached' = [cached EXCEPT ![d] = record]
    BY <1>13 DEF WriteTimer, callVars
  <2>2. \A e \in Devices \ {d} : cached'[e] = cached[e]
    BY <2>1 DEF TypeOK
  <2>3. QED
    BY <2>1, <2>2, HeadLeaves
<1>14. ASSUME NEW c \in Calls, PostState(c)
       PROVE  PersistQueues'
  <2>0. PICK d \in Devices : d = request[c].primary
    BY RequestFacts
  <2>1. /\ UNCHANGED <<snapshot, request, leg>> /\ stage[c] = "posting"
        /\ persistQueue[d] # <<>> /\ Head(persistQueue[d]) = c
        /\ persistQueue' = [persistQueue EXCEPT ![d] = Tail(persistQueue[d])]
    BY <1>14, <2>0 DEF PostState
  <2>2. \E r \in {"succeeded", "failed"} : Finish(c, r)
    BY <1>14 DEF PostState
  <2>3. cached' = cached \/ \E t : cached' = [cached EXCEPT ![d].timer = t]
    BY <1>14, <2>0 DEF PostState, dbVars
  <2>5. \A e \in Calls \ {c} : stage'[e] = stage[e]
    BY <2>2, FinishEffect
  <2>6. \A x \in Devices \ {d} : cached'[x] = cached[x] /\ persistQueue'[x] = persistQueue[x]
    BY <2>1, <2>3 DEF TypeOK
  <2>7. persistQueue'[d] = Tail(persistQueue[d]) /\ Head(persistQueue[d]) = persistQueue[d][1]
    BY <2>1 DEF TypeOK
  <2>8. snapshot'[d] = NoMode
    BY <2>1, <2>7 DEF PersistQueues, PersistQueueOK
  <2>9. \A e \in Calls, x \in Devices : Persisting(e, x) /\ e # c => Persisting(e, x)' /\ stage'[e] = stage[e]
    BY <2>1, <2>5 DEF Persisting, Targets
  <2>10. PersistQueueOK(d)'
    BY <2>1, <2>7, <2>8, <2>9, PersistQueueLeft DEF PersistQueues
  <2>11. ASSUME NEW x \in Devices \ {d} PROVE PersistQueueOK(x)'
    <3>1. ~Persisting(c, x)
      BY <2>0, <2>1 DEF Persisting
    <3>2. \A e \in Calls : Persisting(e, x) => Persisting(e, x)' /\ stage'[e] = stage[e]
      BY <2>9, <3>1
    <3>3. QED
      BY <2>1, <2>6, <3>2, PersistQueueKept DEF PersistQueues
  <2>12. QED
    BY <2>10, <2>11 DEF PersistQueues
<1>15. ASSUME NEW d \in Devices, Deliver(d)
       PROVE  PersistQueues'
  <2>1. UNCHANGED <<persistQueue, snapshot, cached, request, stage>>
    BY <1>15 DEF Deliver, dbVars, callVars
  <2>2. \/ leg' = leg
        \/ \E c \in Calls : \E s : leg[c][d] = "sent" /\ leg' = [leg EXCEPT ![c][d] = s]
    BY <1>15 DEF Deliver
  <2>3. CASE leg' = leg
    BY <2>1, <2>3, NothingPersisted
  <2>4. CASE \E c \in Calls : \E s : leg[c][d] = "sent" /\ leg' = [leg EXCEPT ![c][d] = s]
    BY <2>1, <2>4, AnsweredKeeps
  <2>5. QED
    BY <2>2, <2>3, <2>4
<1>16. ASSUME NEW d \in Devices, Disconnect(d) \/ HelloRead(d) \/ HelloJoin(d)
       PROVE  PersistQueues'
  <2>1. UNCHANGED <<persistQueue, snapshot, cached, request, stage, leg>>
    BY <1>16 DEF Disconnect, HelloRead, HelloJoin, dbVars, callVars
  <2>2. QED
    BY <2>1, NothingPersisted
<1>17. CASE UNCHANGED vars
  <2>1. UNCHANGED <<persistQueue, snapshot, cached, request, stage, leg>>
    BY <1>17 DEF vars, dbVars, callVars
  <2>2. QED
    BY <2>1, NothingPersisted
<1>18. QED
  BY <1>1, <1>2, <1>3, <1>4, <1>5, <1>6, <1>7, <1>8, <1>9, <1>10, <1>11, <1>12, <1>13, <1>14,
     <1>15, <1>16, <1>17, NextCases

-----------------------------------------------------------------------------
(* The command queue.                                                      *)

Enqueued(c) == \E i \in 1..Len(cmdQueue) : cmdQueue[i] = c

Queues ==
  /\ \A i, j \in 1..Len(cmdQueue) : cmdQueue[i] = cmdQueue[j] => i = j
  /\ \A c \in Calls : Enqueued(c) => Admitted(c)
  /\ \A c \in Calls : Running(c) => Enqueued(c)
  /\ \A c, e \in Calls : Before(c, e) /\ Running(e) => Targets(c) \cap Targets(e) = {}

\* No two operations of the command queue run on the same display.
LEMMA Exclusive ==
  ASSUME TypeOK, Queues, NEW c \in Calls, NEW e \in Calls, c # e, Running(c), Running(e)
  PROVE  Targets(c) \cap Targets(e) = {}
<1>1. PICK i \in 1..Len(cmdQueue) : cmdQueue[i] = c
  BY DEF Queues, Enqueued
<1>2. PICK j \in 1..Len(cmdQueue) : cmdQueue[j] = e
  BY DEF Queues, Enqueued
<1>3. Before(c, e) \/ Before(e, c)
  BY <1>1, <1>2 DEF TypeOK, Before
<1>4. QED
  BY <1>3 DEF Queues

LEMMA QueuesKept ==
  ASSUME Queues, cmdQueue' = cmdQueue,
         \A e \in Calls : Admitted(e) => Admitted(e)' /\ request'[e] = request[e],
         \A e \in Calls : Running(e)' => Running(e)
  PROVE  Queues'
<1>1. \A c \in Calls : Enqueued(c)' => Enqueued(c)
  BY DEF Enqueued
<1>2. \A c \in Calls : Enqueued(c) => Enqueued(c)'
  BY DEF Enqueued
<1>3. \A c, e \in Calls : Before(c, e)' => Before(c, e) /\ Enqueued(c) /\ Enqueued(e)
  BY DEF Before, Enqueued
<1>4. \A c \in Calls : Enqueued(c) => Admitted(c) /\ Admitted(c)' /\ request'[c] = request[c]
  BY DEF Queues
<1>5. \A c, e \in Calls : Before(c, e)' /\ Running(e)' => Targets(c)' \cap Targets(e)' = {}
  BY <1>3, <1>4 DEF Queues, Targets
<1>6. (\A i, j \in 1..Len(cmdQueue) : cmdQueue[i] = cmdQueue[j] => i = j)'
  BY DEF Queues
<1>7. \A c \in Calls : Running(c)' => Enqueued(c)'
  BY <1>2 DEF Queues
<1>8. QED
  BY <1>1, <1>4, <1>5, <1>6, <1>7 DEF Queues

\* A request is queued.
LEMMA QueueGrows ==
  ASSUME TypeOK, Queues, NEW c \in Calls, cmdQueue' = Append(cmdQueue, c), ~Admitted(c), stage'[c] = "queued",
         \A e \in Calls \ {c} : stage'[e] = stage[e] /\ request'[e] = request[e]
  PROVE  Queues'
<1> DEFINE n == Len(cmdQueue)
           w == cmdQueue'
<1>1. cmdQueue \in Seq(Calls)
  BY DEF TypeOK
<1>2. /\ n \in Nat /\ Len(w) = n + 1 /\ w[n + 1] = c
      /\ \A i \in 1..n : w[i] = cmdQueue[i] /\ i \in 1..Len(w) /\ i # n + 1
  BY <1>1, AppendFacts
<1>3. \A i \in 1..Len(w) : i \in 1..n \/ i = n + 1
  BY <1>2
<1>4. /\ \A i, j \in 1..n : cmdQueue[i] = cmdQueue[j] => i = j
      /\ \A i \in 1..n : cmdQueue[i] # c
  BY DEF Queues, Enqueued
<1>5. ~Running(c)' /\ Admitted(c)'
  BY DEF Admitted, Running
<1>6. \A e \in Calls \ {c} : /\ Admitted(e) => Admitted(e)'
                             /\ Running(e)' => Running(e)
                             /\ Targets(e)' = Targets(e)
  BY DEF Admitted, Running, IsTimerCall, Targets
<1> HIDE DEF n, w
<1>7. \A e \in Calls \ {c} : /\ Enqueued(e)' => Enqueued(e)
                             /\ Enqueued(e) => Enqueued(e)'
  BY <1>2, <1>3 DEF Enqueued, n, w
<1>8. \A e, f \in Calls : Before(e, f)' => f = c \/ (e # c /\ Before(e, f))
  <2> SUFFICES ASSUME NEW e \in Calls, NEW f \in Calls, Before(e, f)', f # c
               PROVE  e # c /\ Before(e, f)
    OBVIOUS
  <2>1. PICK i, j \in 1..Len(w) : i < j /\ w[i] = e /\ w[j] = f
    BY DEF Before, w
  <2>2. j \in 1..n /\ i \in 1..n
    BY <1>2, <1>3, <2>1
  <2>3. cmdQueue[i] = e /\ cmdQueue[j] = f
    BY <1>2, <2>1, <2>2
  <2>4. QED
    BY <1>4, <2>1, <2>2, <2>3 DEF Before, n
<1>9. \A i, j \in 1..Len(w) : w[i] = w[j] => i = j
  BY <1>2, <1>3, <1>4
<1>10. \A e \in Calls : Enqueued(e)' => Admitted(e)'
  BY <1>5, <1>6, <1>7 DEF Queues
<1>11. \A e \in Calls : Running(e)' => Enqueued(e)'
  BY <1>5, <1>6, <1>7 DEF Queues
<1>12. \A e, f \in Calls : Before(e, f)' /\ Running(f)' => Targets(e)' \cap Targets(f)' = {}
  BY <1>5, <1>6, <1>8 DEF Queues
<1>13. QED
  BY <1>9, <1>10, <1>11, <1>12 DEF Queues, w

\* A queued operation starts: it is disjoint from every older one.
LEMMA QueueRuns ==
  ASSUME TypeOK, Queues, NEW c \in Calls, Runnable(c), cmdQueue' = cmdQueue, request' = request,
         \A e \in Calls \ {c} : stage'[e] = stage[e], Running(c)'
  PROVE  Queues'
<1>1. PICK k \in 1..Len(cmdQueue) : /\ cmdQueue[k] = c
                                    /\ \A i \in 1..(k - 1) : Targets(cmdQueue[i]) \cap Targets(c) = {}
  BY DEF Runnable
<1>2. \A e \in Calls \ {c} : /\ Admitted(e) => Admitted(e)'
                             /\ Running(e)' => Running(e)
  BY DEF Admitted, Running, IsTimerCall
<1>3. Admitted(c)' /\ \A e \in Calls : Targets(e)' = Targets(e)
  BY DEF Admitted, Targets
<1>4. \A e \in Calls : /\ Enqueued(e)' => Enqueued(e)
                       /\ Enqueued(e) => Enqueued(e)'
  BY DEF Enqueued
<1>5. \A e, f \in Calls : Before(e, f)' => Before(e, f)
  BY DEF Before
<1>6. \A e \in Calls : Before(e, c) => Targets(e) \cap Targets(c) = {}
  <2> SUFFICES ASSUME NEW e \in Calls, Before(e, c) PROVE Targets(e) \cap Targets(c) = {}
    OBVIOUS
  <2>1. PICK i, j \in 1..Len(cmdQueue) : i < j /\ cmdQueue[i] = e /\ cmdQueue[j] = c
    BY DEF Before
  <2>2. j = k
    BY <1>1, <2>1 DEF Queues
  <2>3. i \in 1..(k - 1)
    BY <2>1, <2>2 DEF TypeOK
  <2>4. QED
    BY <1>1, <2>1, <2>3
<1>7. Enqueued(c)
  BY <1>1 DEF Enqueued
<1>8. \A e \in Calls : Enqueued(e)' => Admitted(e)'
  BY <1>2, <1>3, <1>4 DEF Queues
<1>9. \A e \in Calls : Running(e)' => Enqueued(e)'
  BY <1>2, <1>4, <1>7 DEF Queues
<1>10. \A e, f \in Calls : Before(e, f)' /\ Running(f)' => Targets(e)' \cap Targets(f)' = {}
  BY <1>2, <1>3, <1>5, <1>6 DEF Queues
<1>11. (\A i, j \in 1..Len(cmdQueue) : cmdQueue[i] = cmdQueue[j] => i = j)'
  BY DEF Queues
<1>12. QED
  BY <1>8, <1>9, <1>10, <1>11 DEF Queues

\* An operation ends, and leaves the queue if it was in it.
LEMMA QueueLeft ==
  ASSUME TypeOK, Queues, NEW c \in Calls, NEW r \in {"succeeded", "failed"}, Finish(c, r), request' = request
  PROVE  Queues'
<1> DEFINE q == cmdQueue
           w == cmdQueue'
<1>1. /\ q \in Seq(Calls) /\ w = Without(q, c)
      /\ \A i, j \in 1..Len(q) : q[i] = q[j] => i = j
  BY FinishEffect DEF Queues, TypeOK
<1> HIDE DEF q, w
<1>2. Len(q) \in Nat
  BY <1>1
<1>3. /\ \A i \in 1..Len(w) : w[i] # c
      /\ \A i, j \in 1..Len(w) : i < j => \E k, l \in 1..Len(q) : k < l /\ w[i] = q[k] /\ w[j] = q[l]
      /\ \A i \in 1..Len(w) : \E k \in 1..Len(q) : w[i] = q[k]
      /\ \A k \in 1..Len(q) : q[k] # c => \E i \in 1..Len(w) : w[i] = q[k]
      /\ Len(w) \in Nat
  <2>1. \A i \in 1..Len(w) : w[i] # c
    BY <1>1, WithoutOrder, SMTT(20)
  <2>2. \A i, j \in 1..Len(w) : i < j => \E k, l \in 1..Len(q) : k < l /\ w[i] = q[k] /\ w[j] = q[l]
    BY <1>1, WithoutOrder, SMTT(20)
  <2>3. \A i \in 1..Len(w) : \E k \in 1..Len(q) : w[i] = q[k]
    BY <1>1, WithoutOrder, SMTT(20)
  <2>4. \A k \in 1..Len(q) : q[k] # c => \E i \in 1..Len(w) : w[i] = q[k]
    BY <1>1, WithoutOrder, SMTT(20)
  <2>5. Len(w) \in Nat
    BY <1>1, WithoutOrder, SMTT(20)
  <2>6. QED
    BY <2>1, <2>2, <2>3, <2>4, <2>5
<1>4. stage'[c] = r /\ \A e \in Calls \ {c} : stage'[e] = stage[e]
  BY FinishEffect
<1>5. /\ ~Running(c)'
      /\ \A e \in Calls \ {c} : /\ Admitted(e) => Admitted(e)'
                                /\ Running(e)' => Running(e)
      /\ \A e \in Calls : Targets(e)' = Targets(e)
  BY <1>4 DEF Admitted, Running, IsTimerCall, Targets
<1>6. \A i, j \in 1..Len(w) : w[i] = w[j] => i = j
  <2> SUFFICES ASSUME NEW i \in 1..Len(w), NEW j \in 1..Len(w), i < j PROVE w[i] # w[j]
    BY <1>3
  <2>1. PICK k, l \in 1..Len(q) : k < l /\ w[i] = q[k] /\ w[j] = q[l]
    BY <1>3
  <2>2. k # l
    BY <1>2, <2>1
  <2>3. QED
    BY <1>1, <2>1, <2>2
<1>7. /\ ~Enqueued(c)'
      /\ \A e \in Calls : Enqueued(e)' => Enqueued(e)
      /\ \A e \in Calls \ {c} : Enqueued(e) => Enqueued(e)'
  <2>1. ~Enqueued(c)'
    BY <1>3 DEF Enqueued, w
  <2>2. ASSUME NEW e \in Calls, Enqueued(e)' PROVE Enqueued(e)
    <3>1. PICK i \in 1..Len(w) : w[i] = e
      BY <2>2 DEF Enqueued, w
    <3>2. QED
      BY <1>3, <3>1 DEF Enqueued, q
  <2>3. ASSUME NEW e \in Calls \ {c}, Enqueued(e) PROVE Enqueued(e)'
    <3>1. \E i \in 1..Len(w) : w[i] = e
      BY <1>3, <2>3 DEF Enqueued, q
    <3>2. QED
      BY <3>1 DEF Enqueued, w
  <2>4. QED
    BY <2>1, <2>2, <2>3
<1>8. ASSUME NEW e \in Calls, NEW f \in Calls, Before(e, f)'
      PROVE  f # c /\ Before(e, f)
  <2>1. PICK i, j \in 1..Len(w) : i < j /\ w[i] = e /\ w[j] = f
    BY <1>8 DEF Before, w
  <2>2. PICK k, l \in 1..Len(q) : k < l /\ w[i] = q[k] /\ w[j] = q[l]
    BY <1>3, <2>1
  <2>3. f # c
    BY <1>3, <2>1
  <2>4. QED
    BY <2>1, <2>2, <2>3 DEF Before, q
<1>9. \A e \in Calls : Enqueued(e)' => Admitted(e)'
  BY <1>5, <1>7 DEF Queues
<1>10. \A e \in Calls : Running(e)' => Enqueued(e)'
  BY <1>5, <1>7 DEF Queues
<1>11. \A e, f \in Calls : Before(e, f)' /\ Running(f)' => Targets(e)' \cap Targets(f)' = {}
  BY <1>5, <1>8 DEF Queues
<1>12. QED
  BY <1>6, <1>9, <1>10, <1>11 DEF Queues, w

\* A call moves on without being queued, started or ended.
LEMMA QueuesStay ==
  ASSUME TypeOK, Queues, NEW c \in Calls, UNCHANGED <<cmdQueue, request>>,
         \A e \in Calls \ {c} : stage'[e] = stage[e],
         Admitted(c) => Admitted(c)', Running(c)' => Running(c)
  PROVE  Queues'
<1>1. \A e \in Calls \ {c} : /\ Admitted(e) => Admitted(e)'
                             /\ Running(e)' => Running(e)
  BY DEF Admitted, Running, IsTimerCall
<1>2. QED
  BY <1>1, QueuesKept

LEMMA StepQueues == TypeInv /\ Queues /\ [Next]_vars => Queues'
<1> SUFFICES ASSUME TypeInv, Queues, [Next]_vars PROVE Queues'
  OBVIOUS
<1> USE DEF TypeInv
<1>1. ASSUME NEW c \in Calls, NEW r \in Requests, Submit(c, r)
      PROVE  Queues'
  <2>1. stage[c] = "idle" /\ ~Admitted(c)
    BY <1>1 DEF Submit, Admitted, Running
  <2>2. \A e \in Calls \ {c} : stage'[e] = stage[e] /\ request'[e] = request[e]
    BY <1>1 DEF Submit, TypeOK
  <2>3. CASE stage'[c] = "queued" /\ cmdQueue' = Append(cmdQueue, c)
    BY <2>1, <2>2, <2>3, QueueGrows
  <2>4. CASE cmdQueue' = cmdQueue /\ ~Running(c)'
    <3>1. \A e \in Calls \ {c} : /\ Admitted(e) => Admitted(e)'
                                 /\ Running(e)' => Running(e)
      BY <2>2 DEF Admitted, Running, IsTimerCall
    <3>2. QED
      BY <2>1, <2>2, <2>4, <3>1, QueuesKept
  <2>5. \/ stage'[c] = "failed" /\ cmdQueue' = cmdQueue
        \/ stage'[c] = "mode" /\ r.kind \in {"set_mode", "sync_mode"} /\ cmdQueue' = cmdQueue
        \/ stage'[c] = "queued" /\ cmdQueue' = Append(cmdQueue, c)
    BY <1>1 DEF Submit, TypeOK
  <2>6. request'[c] = r
    BY <1>1 DEF Submit, TypeOK
  <2>7. QED
    BY <2>3, <2>4, <2>5, <2>6 DEF Running, IsTimerCall
<1>2. ASSUME NEW c \in Calls, Begin(c)
      PROVE  Queues'
  <2>1. Runnable(c) /\ UNCHANGED <<cmdQueue, request>> /\ \A e \in Calls \ {c} : stage'[e] = stage[e]
    BY <1>2 DEF Begin, TypeOK
  <2>2. stage'[c] \in {"posting", "reading", "resolving"}
    BY <1>2 DEF Begin, TypeOK
  <2>3. Running(c)'
    BY <2>2 DEF Running
  <2>4. QED
    BY <2>1, <2>3, QueueRuns
<1>3. ASSUME NEW c \in Calls, ReadMode(c) \/ Resolve(c)
      PROVE  Queues'
  <2>1. UNCHANGED <<cmdQueue, request>> /\ \A e \in Calls \ {c} : stage'[e] = stage[e]
    BY <1>3 DEF ReadMode, Resolve, TypeOK
  <2>2. Running(c)
    BY <1>3 DEF ReadMode, Resolve, Running
  <2>3. Admitted(c)'
    BY <1>3 DEF ReadMode, Resolve, Running, Admitted, Kinds, KindOK, IsTimerCall, TypeOK
  <2>4. QED
    BY <2>1, <2>2, <2>3, QueuesStay
<1>4. ASSUME NEW c \in Calls, ModeAnswered(c)
      PROVE  Queues'
  <2>1. request' = request /\ stage[c] = "mode"
    BY <1>4 DEF ModeAnswered, callVars
  <2>2. CASE /\ request[c].kind = "set_timer" /\ stage' = [stage EXCEPT ![c] = "state"] /\ UNCHANGED cmdQueue
    <3>1. \A e \in Calls \ {c} : stage'[e] = stage[e]
      BY <2>2 DEF TypeOK
    <3>2. Running(c) /\ Admitted(c)'
      BY <2>1, <2>2 DEF Running, Admitted, IsTimerCall, TypeOK
    <3>3. QED
      BY <2>1, <2>2, <3>1, <3>2, QueuesStay
  <2>3. CASE Finish(c, "failed")
    BY <2>1, <2>3, QueueLeft
  <2>4. CASE stage' = [stage EXCEPT ![c] = "saving_mode"] /\ UNCHANGED cmdQueue
    <3>1. stage'[c] = "saving_mode" /\ \A e \in Calls \ {c} : stage'[e] = stage[e]
      BY <2>4 DEF TypeOK
    <3>2. (Admitted(c) => Admitted(c)') /\ (Running(c)' => Running(c))
      BY <2>1, <3>1 DEF Running, Admitted, IsTimerCall
    <3>3. QED
      BY <2>1, <2>4, <3>1, <3>2, QueuesStay
  <2>5. QED
    BY <1>4, <2>2, <2>3, <2>4 DEF ModeAnswered
<1>5. ASSUME NEW c \in Calls, ModeSaved(c)
      PROVE  Queues'
  <2>1. request' = request /\ stage[c] = "saving_mode"
    BY <1>5 DEF ModeSaved, callVars
  <2>2. CASE request[c].kind = "set_mode" /\ stage' = [stage EXCEPT ![c] = "column"] /\ UNCHANGED cmdQueue
    <3>1. stage'[c] = "column" /\ \A e \in Calls \ {c} : stage'[e] = stage[e]
      BY <2>2 DEF TypeOK
    <3>2. ~Admitted(c) /\ ~Running(c)'
      BY <2>1, <2>2, <3>1 DEF Running, Admitted, IsTimerCall
    <3>3. QED
      BY <2>1, <2>2, <3>1, <3>2, QueuesStay
  <2>3. CASE request[c].kind = "sync_timer" /\ stage' = [stage EXCEPT ![c] = "state"] /\ UNCHANGED cmdQueue
    <3>1. stage'[c] = "state" /\ \A e \in Calls \ {c} : stage'[e] = stage[e]
      BY <2>3 DEF TypeOK
    <3>2. Running(c) /\ Admitted(c)'
      BY <2>1, <2>3, <3>1 DEF Running, Admitted, IsTimerCall
    <3>3. QED
      BY <2>1, <2>3, <3>1, <3>2, QueuesStay
  <2>4. CASE \E r \in {"succeeded", "failed"} : Finish(c, r)
    BY <2>1, <2>4, QueueLeft
  <2>5. QED
    BY <1>5, <2>2, <2>3, <2>4 DEF ModeSaved
<1>6. ASSUME NEW c \in Calls, StateAnswered(c)
      PROVE  Queues'
  <2>1. request' = request /\ stage[c] = "state"
    BY <1>6 DEF StateAnswered, callVars
  <2>2. CASE Finish(c, "failed")
    BY <2>1, <2>2, QueueLeft
  <2>3. CASE stage' = [stage EXCEPT ![c] = "saving_timer"] /\ UNCHANGED cmdQueue
    <3>1. stage'[c] = "saving_timer" /\ \A e \in Calls \ {c} : stage'[e] = stage[e]
      BY <2>3 DEF TypeOK
    <3>2. Running(c) /\ Admitted(c)'
      BY <2>1, <3>1 DEF Running, Admitted
    <3>3. QED
      BY <2>1, <2>3, <3>1, <3>2, QueuesStay
  <2>4. QED
    BY <1>6, <2>2, <2>3 DEF StateAnswered
<1>7. ASSUME NEW c \in Calls, WriteColumn(c) \/ TimerSaved(c) \/ PostState(c)
      PROVE  Queues'
  <2>1. request' = request
    BY <1>7 DEF WriteColumn, TimerSaved, PostState, callVars
  <2>2. \E r \in {"succeeded", "failed"} : Finish(c, r)
    BY <1>7 DEF WriteColumn, TimerSaved, PostState
  <2>3. QED
    BY <2>1, <2>2, QueueLeft
<1>8. CASE UNCHANGED <<cmdQueue, stage, request>>
  <2>1. \A e \in Calls : /\ Admitted(e) => Admitted(e)'
                         /\ Running(e)' => Running(e)
    BY <1>8 DEF Admitted, Running, IsTimerCall
  <2>2. QED
    BY <1>8, <2>1, QueuesKept
<1>9. ASSUME NEW c \in Calls, NEW d \in Devices, Timeout(c, d)
      PROVE  UNCHANGED <<cmdQueue, stage, request>>
  BY <1>9 DEF Timeout, callVars
<1>10. ASSUME NEW d \in Devices,
              PersistRead(d) \/ WriteMode(d) \/ WriteTimer(d) \/ Deliver(d) \/ Disconnect(d) \/ HelloRead(d) \/ HelloJoin(d)
       PROVE  UNCHANGED <<cmdQueue, stage, request>>
  BY <1>10 DEF PersistRead, WriteMode, WriteTimer, Deliver, Disconnect, HelloRead, HelloJoin, callVars
<1>11. CASE UNCHANGED vars
  BY <1>8, <1>11 DEF vars, callVars
<1>12. QED
  BY <1>1, <1>2, <1>3, <1>4, <1>5, <1>6, <1>7, <1>8, <1>9, <1>10, <1>11, NextCases

-----------------------------------------------------------------------------
(* Resolved timers stay current.                                           *)

Core == TypeInv /\ PersistQueues /\ Queues

\* c has resolved a timer for d and may still send it or store it.
Resolved(c, d) ==
  \/ stage[c] \in {"mode", "saving_mode", "state"} /\ IsTimerCall(c)
  \/ stage[c] = "saving_timer" /\ leg[c][d] = "waiting"

TimerCurrent(c, d) ==
  d \in Targets(c) /\ Resolved(c, d) => timers[c][d] = ResolvedTimer(c, d, incoming[c], mode[c])

TimersCurrent == \A c \in Calls, d \in Devices : TimerCurrent(c, d)

LEMMA ResolvedRuns ==
  ASSUME NEW c, NEW d, Resolved(c, d)
  PROVE  Running(c)
  BY DEF Resolved, Running

\* The records that c resolved its timer of d from, and what it asked for, stay.
LEMMA ResolvedKept ==
  ASSUME NEW c, NEW d, TimerCurrent(c, d), Resolved(c, d)' => Resolved(c, d),
         request'[c] = request[c], incoming'[c] = incoming[c], mode'[c] = mode[c],
         timers'[c][d] = timers[c][d],
         cached'[d].timer = cached[d].timer, relational'[d] = relational[d]
  PROVE  TimerCurrent(c, d)'
<1>1. ResolvedTimer(c, d, incoming[c], mode[c])' = ResolvedTimer(c, d, incoming[c], mode[c])
  BY DEF ResolvedTimer
<1>2. Targets(c)' = Targets(c)
  BY DEF Targets
<1>3. QED
  BY <1>1, <1>2 DEF TimerCurrent

\* A step of c that writes no record.
LEMMA TimersKeptByCall ==
  ASSUME TimersCurrent, NEW c \in Calls, UNCHANGED <<cached, relational>>,
         \A e \in Calls \ {c} : /\ stage'[e] = stage[e] /\ leg'[e] = leg[e] /\ request'[e] = request[e]
                                /\ incoming'[e] = incoming[e] /\ mode'[e] = mode[e] /\ timers'[e] = timers[e],
         \A d \in Devices : TimerCurrent(c, d)'
  PROVE  TimersCurrent'
<1>1. ASSUME NEW e \in Calls \ {c}, NEW d \in Devices PROVE TimerCurrent(e, d)'
  <2>1. Resolved(e, d)' => Resolved(e, d)
    BY DEF Resolved, IsTimerCall
  <2>2. TimerCurrent(e, d)
    BY DEF TimersCurrent
  <2>3. QED
    BY <2>1, <2>2, ResolvedKept
<1>2. QED
  BY <1>1 DEF TimersCurrent

\* A step that resolves nothing and writes no record.
LEMMA TimersKept ==
  ASSUME TimersCurrent, UNCHANGED <<relational, request, incoming, mode, timers>>,
         \A d \in Devices : cached'[d].timer = cached[d].timer,
         \A e \in Calls, d \in Devices : Resolved(e, d)' => Resolved(e, d)
  PROVE  TimersCurrent'
<1>1. ASSUME NEW e \in Calls, NEW d \in Devices PROVE TimerCurrent(e, d)'
  <2>1. TimerCurrent(e, d) /\ (Resolved(e, d)' => Resolved(e, d)) /\ cached'[d].timer = cached[d].timer
    BY DEF TimersCurrent
  <2>2. QED
    BY <2>1, ResolvedKept
<1>2. QED
  BY <1>1 DEF TimersCurrent

\* The operation c, which has the display to itself, writes the record of d.
LEMMA TimersKeptByWrite ==
  ASSUME Core, TimersCurrent, NEW c \in Calls, NEW d \in Devices, d \in Targets(c), Running(c),
         \A x \in Devices \ {d} : cached'[x].timer = cached[x].timer /\ relational'[x] = relational[x],
         UNCHANGED <<request, incoming, mode>>,
         \A e \in Calls \ {c} : timers'[e] = timers[e],
         \A x \in Devices \ {d} : timers'[c][x] = timers[c][x],
         \A e \in Calls, x \in Devices : Resolved(e, x)' => Resolved(e, x),
         ~Resolved(c, d)'
  PROVE  TimersCurrent'
<1>1. ASSUME NEW e \in Calls, NEW x \in Devices PROVE TimerCurrent(e, x)'
  <2>1. TimerCurrent(e, x) /\ (Resolved(e, x)' => Resolved(e, x)) /\ Targets(e)' = Targets(e)
    BY DEF TimersCurrent, Targets
  <2>2. CASE x # d
    <3>1. timers'[e][x] = timers[e][x]
      BY <2>2
    <3>2. QED
      BY <2>1, <2>2, <3>1, ResolvedKept
  <2>3. CASE x = d /\ e # c
    <3>1. d \in Targets(e) => ~Resolved(e, d)
      BY <2>3, Exclusive, ResolvedRuns DEF Core, TypeInv
    <3>2. QED
      BY <2>1, <2>3, <3>1 DEF TimerCurrent
  <2>4. CASE x = d /\ e = c
    BY <2>4 DEF TimerCurrent
  <2>5. QED
    BY <2>2, <2>3, <2>4
<1>2. QED
  BY <1>1 DEF TimersCurrent

LEMMA StepTimersCurrent == Core /\ TimersCurrent /\ [Next]_vars => TimersCurrent'
<1> SUFFICES ASSUME Core, TimersCurrent, [Next]_vars PROVE TimersCurrent'
  OBVIOUS
<1>0. TypeOK /\ Kinds /\ PersistQueues /\ Queues
  BY DEF Core, TypeInv
<1>1. ASSUME NEW c \in Calls, NEW r \in Requests, Submit(c, r)
      PROVE  TimersCurrent'
  <2>1. UNCHANGED <<cached, relational>>
    BY <1>1 DEF Submit, dbVars
  <2>2. \A e \in Calls \ {c} : stage'[e] = stage[e] /\ request'[e] = request[e] /\ timers'[e] = timers[e]
    BY <1>0, <1>1 DEF Submit, TypeOK
  <2>3. \A e \in Calls \ {c} : incoming'[e] = incoming[e] /\ mode'[e] = mode[e]
    BY <1>0, <1>1 DEF Submit, TypeOK
  <2>4. \A e \in Calls \ {c} : leg'[e] = leg[e]
    BY <1>0, <1>1 DEF Submit, TypeOK
  <2>5. request'[c] = r /\ \/ stage'[c] \in {"failed", "queued"}
                           \/ stage'[c] = "mode" /\ r.kind \in {"set_mode", "sync_mode"}
    BY <1>0, <1>1 DEF Submit, TypeOK
  <2>6. \A d \in Devices : TimerCurrent(c, d)'
    BY <2>5 DEF TimerCurrent, Resolved, IsTimerCall
  <2>7. QED
    BY <2>1, <2>2, <2>3, <2>4, <2>6, TimersKeptByCall
<1>2. ASSUME NEW c \in Calls, Begin(c) \/ ReadMode(c)
      PROVE  TimersCurrent'
  <2>1. UNCHANGED <<cached, relational, request, incoming, timers, leg>>
    BY <1>2 DEF Begin, ReadMode, dbVars
  <2>2. \A e \in Calls \ {c} : stage'[e] = stage[e] /\ mode'[e] = mode[e]
    BY <1>0, <1>2 DEF Begin, ReadMode, TypeOK
  <2>3. stage'[c] \in {"posting", "reading", "resolving"}
    BY <1>0, <1>2 DEF Begin, ReadMode, TypeOK
  <2>4. \A d \in Devices : TimerCurrent(c, d)'
    BY <2>3 DEF TimerCurrent, Resolved
  <2>5. QED
    BY <2>1, <2>2, <2>4, TimersKeptByCall
<1>3. ASSUME NEW c \in Calls, Resolve(c)
      PROVE  TimersCurrent'
  <2>1. UNCHANGED <<cached, relational, request, incoming, mode>> /\ SendMode(c, mode[c]) /\ mode[c] \in Modes
    BY <1>0, <1>3 DEF Resolve, dbVars, Kinds, KindOK, ModeStages
  <2>2. \A e \in Calls \ {c} : stage'[e] = stage[e] /\ leg'[e] = leg[e] /\ timers'[e] = timers[e]
    BY <1>0, <1>3, <2>1, SendModeEffect DEF Resolve, TypeOK
  <2>3. \A d \in Devices : d \in Targets(c) => timers'[c][d] = ResolvedTimer(c, d, incoming[c], mode[c])
    BY <1>0, <1>3 DEF Resolve, TypeOK
  <2>4. \A d \in Devices : ResolvedTimer(c, d, incoming[c], mode[c])' = ResolvedTimer(c, d, incoming[c], mode[c])
    BY <2>1 DEF ResolvedTimer
  <2>5. Targets(c)' = Targets(c)
    BY <2>1 DEF Targets
  <2>6. \A d \in Devices : TimerCurrent(c, d)'
    BY <2>3, <2>4, <2>5 DEF TimerCurrent
  <2>7. QED
    BY <2>1, <2>2, <2>6, TimersKeptByCall
<1>4. ASSUME NEW c \in Calls, ModeAnswered(c)
      PROVE  TimersCurrent'
  <2>1. UNCHANGED <<cached, relational, request, incoming, mode, timers>> /\ stage[c] = "mode"
        /\ timers[c] \in [Devices -> Timer]
    BY <1>0, <1>4 DEF ModeAnswered, dbVars, callVars, TypeOK
  <2>2. CASE SendState(c, timers[c]) /\ request[c].kind = "set_timer" /\ stage' = [stage EXCEPT ![c] = "state"]
    <3>1. stage'[c] = "state" /\ \A e \in Calls \ {c} : stage'[e] = stage[e] /\ leg'[e] = leg[e]
      BY <1>0, <2>1, <2>2, SendStateEffect DEF TypeOK
    <3>2. \A e \in Calls, d \in Devices : Resolved(e, d)' => Resolved(e, d)
      BY <2>1, <2>2, <3>1 DEF Resolved, IsTimerCall
    <3>3. QED
      BY <2>1, <3>2, TimersKept
  <2>3. CASE Finish(c, "failed") /\ UNCHANGED leg
    <3>1. stage'[c] = "failed" /\ \A e \in Calls \ {c} : stage'[e] = stage[e]
      BY <1>0, <2>3, FinishEffect
    <3>2. \A e \in Calls, d \in Devices : Resolved(e, d)' => Resolved(e, d)
      BY <2>1, <2>3, <3>1 DEF Resolved, IsTimerCall
    <3>3. QED
      BY <2>1, <3>2, TimersKept
  <2>4. CASE PersistAcknowledged(c) /\ stage' = [stage EXCEPT ![c] = "saving_mode"]
    <3>1. stage'[c] = "saving_mode" /\ \A e \in Calls \ {c} : stage'[e] = stage[e] /\ leg'[e] = leg[e]
      BY <1>0, <2>4, PersistEffect DEF TypeOK
    <3>2. \A e \in Calls, d \in Devices : Resolved(e, d)' => Resolved(e, d)
      BY <2>1, <3>1 DEF Resolved, IsTimerCall
    <3>3. QED
      BY <2>1, <3>2, TimersKept
  <2>5. QED
    BY <1>4, <2>2, <2>3, <2>4 DEF ModeAnswered
<1>5. ASSUME NEW c \in Calls, ModeSaved(c)
      PROVE  TimersCurrent'
  <2>1. UNCHANGED <<cached, relational, request, incoming, mode, timers>> /\ stage[c] = "saving_mode"
        /\ timers[c] \in [Devices -> Timer]
    BY <1>0, <1>5 DEF ModeSaved, dbVars, callVars, TypeOK
  <2>2. CASE SendState(c, timers[c]) /\ request[c].kind = "sync_timer" /\ stage' = [stage EXCEPT ![c] = "state"]
    <3>1. stage'[c] = "state" /\ \A e \in Calls \ {c} : stage'[e] = stage[e] /\ leg'[e] = leg[e]
      BY <1>0, <2>1, <2>2, SendStateEffect DEF TypeOK
    <3>2. \A e \in Calls, d \in Devices : Resolved(e, d)' => Resolved(e, d)
      BY <2>1, <2>2, <3>1 DEF Resolved, IsTimerCall
    <3>3. QED
      BY <2>1, <3>2, TimersKept
  <2>3. CASE UNCHANGED leg /\ (stage' = [stage EXCEPT ![c] = "column"] \/ \E r \in {"succeeded", "failed"} : Finish(c, r))
    <3>1. stage'[c] \in {"column", "succeeded", "failed"} /\ \A e \in Calls \ {c} : stage'[e] = stage[e]
      BY <1>0, <2>3, FinishEffect DEF TypeOK
    <3>2. \A e \in Calls, d \in Devices : Resolved(e, d)' => Resolved(e, d)
      BY <2>1, <2>3, <3>1 DEF Resolved, IsTimerCall
    <3>3. QED
      BY <2>1, <3>2, TimersKept
  <2>4. QED
    BY <1>5, <2>2, <2>3 DEF ModeSaved
<1>6. ASSUME NEW c \in Calls, WriteColumn(c) \/ TimerSaved(c)
      PROVE  TimersCurrent'
  <2>1. UNCHANGED <<cached, relational, request, incoming, mode, timers, leg>>
    BY <1>6 DEF WriteColumn, TimerSaved, dbVars, callVars
  <2>2. \E r \in {"succeeded", "failed"} : Finish(c, r)
    BY <1>6 DEF WriteColumn, TimerSaved
  <2>3. stage'[c] \in {"succeeded", "failed"} /\ \A e \in Calls \ {c} : stage'[e] = stage[e]
    BY <1>0, <2>2, FinishEffect
  <2>4. \A e \in Calls, d \in Devices : Resolved(e, d)' => Resolved(e, d)
    BY <2>1, <2>3 DEF Resolved, IsTimerCall
  <2>5. QED
    BY <2>1, <2>4, TimersKept
<1>7. ASSUME NEW c \in Calls, StateAnswered(c)
      PROVE  TimersCurrent'
  <2>1. UNCHANGED <<cached, relational, request, incoming, mode, timers>> /\ stage[c] = "state" /\ IsTimerCall(c)
    BY <1>0, <1>7 DEF StateAnswered, dbVars, callVars, Kinds, KindOK, TimerStages
  <2>2. CASE Finish(c, "failed") /\ UNCHANGED leg
    <3>1. stage'[c] = "failed" /\ \A e \in Calls \ {c} : stage'[e] = stage[e]
      BY <1>0, <2>2, FinishEffect
    <3>2. \A e \in Calls, d \in Devices : Resolved(e, d)' => Resolved(e, d)
      BY <2>1, <2>2, <3>1 DEF Resolved, IsTimerCall
    <3>3. QED
      BY <2>1, <3>2, TimersKept
  <2>3. CASE PersistAcknowledged(c) /\ stage' = [stage EXCEPT ![c] = "saving_timer"]
    <3>1. stage'[c] = "saving_timer" /\ \A e \in Calls \ {c} : stage'[e] = stage[e] /\ leg'[e] = leg[e]
      BY <1>0, <2>3, PersistEffect DEF TypeOK
    <3>2. \A e \in Calls, d \in Devices : Resolved(e, d)' => Resolved(e, d)
      BY <2>1, <3>1 DEF Resolved, IsTimerCall
    <3>3. QED
      BY <2>1, <3>2, TimersKept
  <2>4. QED
    BY <1>7, <2>2, <2>3 DEF StateAnswered
<1>8. ASSUME NEW d \in Devices, WriteMode(d)
      PROVE  TimersCurrent'
  <2>1. /\ UNCHANGED <<relational, request, incoming, mode, timers, stage>> /\ LeavePersistQueue(d)
        /\ snapshot[d] # NoMode
        /\ \/ cached' = cached
           \/ \E record : record.timer = snapshot[d].timer /\ cached' = [cached EXCEPT ![d] = record]
    BY <1>8 DEF WriteMode, callVars
  <2>2. snapshot[d] = cached[d]
    BY <1>0, <2>1, HeadFacts
  <2>3. \A x \in Devices : cached'[x].timer = cached[x].timer
    BY <1>0, <2>1, <2>2 DEF TypeOK
  <2>4. \A e \in Calls, x \in Devices : leg'[e][x] = "waiting" => leg[e][x] = "waiting"
    BY <1>0, <2>1, LeaveLegs
  <2>5. \A e \in Calls, x \in Devices : Resolved(e, x)' => Resolved(e, x)
    BY <2>1, <2>4 DEF Resolved, IsTimerCall
  <2>6. QED
    BY <2>1, <2>3, <2>5, TimersKept
<1>9. ASSUME NEW d \in Devices, WriteTimer(d)
      PROVE  TimersCurrent'
  <2>0. PICK c \in Calls : c = Head(persistQueue[d])
    BY <1>0, <1>9, HeadFacts DEF WriteTimer
  <2>1. /\ UNCHANGED <<request, incoming, mode, timers, stage>> /\ LeavePersistQueue(d)
        /\ snapshot[d] # NoMode /\ stage[c] = "saving_timer"
        /\ cached' = cached \/ \E record : cached' = [cached EXCEPT ![d] = record]
        /\ relational' = relational \/ relational' = [relational EXCEPT ![d] = timers[c][d]]
    BY <1>9, <2>0 DEF WriteTimer, callVars
  <2>2. d \in Targets(c) /\ Running(c)
    BY <1>0, <2>0, <2>1, HeadFacts DEF Running
  <2>3. \A x \in Devices \ {d} : cached'[x].timer = cached[x].timer /\ relational'[x] = relational[x]
    BY <1>0, <2>1 DEF TypeOK
  <2>4. leg'[c][d] # "waiting" /\ \A e \in Calls, x \in Devices : leg'[e][x] = "waiting" => leg[e][x] = "waiting"
    BY <1>0, <2>0, <2>1, LeaveLegs
  <2>5. ~Resolved(c, d)' /\ \A e \in Calls, x \in Devices : Resolved(e, x)' => Resolved(e, x)
    BY <2>1, <2>4 DEF Resolved, IsTimerCall
  <2>6. QED
    BY <2>1, <2>2, <2>3, <2>5, TimersKeptByWrite
<1>10. ASSUME NEW c \in Calls, PostState(c)
       PROVE  TimersCurrent'
  <2>0. PICK d \in Devices : d = request[c].primary
    BY <1>0, RequestFacts
  <2>1. /\ UNCHANGED <<request, incoming, mode, leg>> /\ stage[c] = "posting"
        /\ \E r \in {"succeeded", "failed"} : Finish(c, r)
        /\ cached' = cached \/ \E t : cached' = [cached EXCEPT ![d].timer = t]
        /\ relational' = relational \/ \E t : relational' = [relational EXCEPT ![d] = t]
        /\ timers' = timers \/ \E t : timers' = [timers EXCEPT ![c][d] = t]
    BY <1>10, <2>0 DEF PostState, dbVars
  <2>2. d \in Targets(c) /\ Running(c)
    BY <1>0, <2>0, <2>1, RequestFacts DEF Running
  <2>3. \A x \in Devices \ {d} : cached'[x].timer = cached[x].timer /\ relational'[x] = relational[x]
    BY <1>0, <2>1 DEF TypeOK
  <2>4. /\ \A e \in Calls \ {c} : timers'[e] = timers[e]
        /\ \A x \in Devices \ {d} : timers'[c][x] = timers[c][x]
    BY <1>0, <2>1 DEF TypeOK
  <2>5. stage'[c] \in {"succeeded", "failed"} /\ \A e \in Calls \ {c} : stage'[e] = stage[e]
    BY <1>0, <2>1, FinishEffect
  <2>6. ~Resolved(c, d)' /\ \A e \in Calls, x \in Devices : Resolved(e, x)' => Resolved(e, x)
    BY <2>1, <2>5 DEF Resolved, IsTimerCall
  <2>7. QED
    BY <2>1, <2>2, <2>3, <2>4, <2>6, TimersKeptByWrite
<1>11. ASSUME UNCHANGED <<cached, relational, request, incoming, mode, timers, stage>>,
              \A e \in Calls, x \in Devices : leg'[e][x] = "waiting" => leg[e][x] = "waiting"
       PROVE  TimersCurrent'
  <2>1. \A e \in Calls, x \in Devices : Resolved(e, x)' => Resolved(e, x)
    BY <1>11 DEF Resolved, IsTimerCall
  <2>2. QED
    BY <1>11, <2>1, TimersKept
<1>12. ASSUME NEW c \in Calls, NEW d \in Devices, Timeout(c, d)
       PROVE  TimersCurrent'
  <2>1. UNCHANGED <<cached, relational, request, incoming, mode, timers, stage>>
    BY <1>12 DEF Timeout, dbVars, callVars
  <2>2. \A e \in Calls, x \in Devices : leg'[e][x] = "waiting" => leg[e][x] = "waiting"
    BY <1>0, <1>12 DEF Timeout, TypeOK
  <2>3. QED
    BY <1>11, <2>1, <2>2
<1>13. ASSUME NEW d \in Devices, Deliver(d)
       PROVE  TimersCurrent'
  <2>1. UNCHANGED <<cached, relational, request, incoming, mode, timers, stage>>
    BY <1>13 DEF Deliver, dbVars, callVars
  <2>2. \/ leg' = leg
        \/ \E c \in Calls, s \in {"ok", "failed"} : leg' = [leg EXCEPT ![c][d] = s]
    BY <1>13 DEF Deliver
  <2>3. \A e \in Calls, x \in Devices : leg'[e][x] = "waiting" => leg[e][x] = "waiting"
    <3>1. CASE \E c \in Calls, s \in {"ok", "failed"} : leg' = [leg EXCEPT ![c][d] = s]
      <4>1. PICK c \in Calls, s \in {"ok", "failed"} : leg' = [leg EXCEPT ![c][d] = s]
        BY <3>1
      <4>2. \A e \in Calls, x \in Devices : leg'[e][x] = IF e = c /\ x = d THEN s ELSE leg[e][x]
        BY <1>0, <4>1 DEF TypeOK
      <4>3. QED
        BY <4>2
    <3>2. QED
      BY <2>2, <3>1
  <2>4. QED
    BY <1>11, <2>1, <2>3
<1>14. ASSUME NEW d \in Devices, PersistRead(d) \/ Disconnect(d) \/ HelloRead(d) \/ HelloJoin(d)
       PROVE  TimersCurrent'
  <2>1. UNCHANGED <<cached, relational, request, incoming, mode, timers, stage, leg>>
    BY <1>14 DEF PersistRead, Disconnect, HelloRead, HelloJoin, dbVars, callVars
  <2>2. QED
    BY <1>11, <2>1
<1>15. CASE UNCHANGED vars
  <2>1. UNCHANGED <<cached, relational, request, incoming, mode, timers, stage, leg>>
    BY <1>15 DEF vars, dbVars, callVars
  <2>2. QED
    BY <1>11, <2>1
<1>16. QED
  BY <1>1, <1>2, <1>3, <1>4, <1>5, <1>6, <1>7, <1>8, <1>9, <1>10, <1>12, <1>13, <1>14, <1>15, NextCases

-----------------------------------------------------------------------------
(* The reset sequence on record.                                           *)

\* A resolved timer that is written to either copy, or to both, does not set
\* the sequence back, and moves it on for a new reset only.
LEMMA ResolvedTimerCounts ==
  ASSUME TypeOK, NEW c \in Calls, NEW d \in Devices, NEW m, NEW t, t = ResolvedTimer(c, d, incoming[c], m),
         NEW x, x \in {cached[d].timer, t}, NEW y, y \in {relational[d], t}
  PROVE  /\ StoredSequence(d) =< Larger(x.seq, y.seq)
         /\ Larger(x.seq, y.seq) > StoredSequence(d) =>
              \/ LastReset(x, y) # LastReset(cached[d].timer, relational[d])
              \/ incoming[c].seq >= Larger(x.seq, y.seq)
<1> DEFINE action == IF m \in RotatingModes THEN request[c].event ELSE NoEvent
           a == incoming[c]
           s == cached[d].timer
           r == relational[d]
           meta == ResetMetadata(a, s, r, action)
           current == Larger(a.seq, Larger(s.seq, r.seq))
           last == LastReset(s, r)
<1>1. a \in Timer /\ s \in Timer /\ r \in Timer /\ action \in Events \cup {NoEvent}
  BY RequestFacts DEF TypeOK, StoredRecord
<1>2. a.seq \in Nat /\ s.seq \in Nat /\ r.seq \in Nat
  BY <1>1 DEF Timer
<1>3. t = [seq |-> meta.seq, event |-> meta.event, from |-> c] /\ x \in {s, t} /\ y \in {r, t}
      /\ StoredSequence(d) = Larger(s.seq, r.seq)
  BY DEF ResolvedTimer, StoredSequence
<1> HIDE DEF a, s, r, action
<1>4. \/ meta.seq = current
      \/ action # NoEvent /\ action # last /\ meta.seq = current + 1 /\ meta.event = action
  BY DEF ResetMetadata
<1>5. current \in Nat /\ \A n \in {a.seq, s.seq, r.seq} : current >= n
  BY <1>2 DEF Larger
<1>6. current = a.seq \/ current = Larger(s.seq, r.seq)
  BY <1>2 DEF Larger
<1>7. Larger(s.seq, r.seq) \in Nat /\ Larger(s.seq, r.seq) >= s.seq /\ Larger(s.seq, r.seq) >= r.seq
      /\ Larger(s.seq, r.seq) \in {s.seq, r.seq}
  BY <1>2 DEF Larger
<1> HIDE DEF meta, current, last
<1>8. t.seq = meta.seq /\ t.event = meta.event /\ t.seq \in Nat
  BY <1>3, <1>4, <1>5
<1>9. x.seq \in Nat /\ y.seq \in Nat /\ x.seq \in {s.seq, t.seq} /\ y.seq \in {r.seq, t.seq}
  BY <1>2, <1>3, <1>8
<1>10. Larger(x.seq, y.seq) >= x.seq /\ Larger(x.seq, y.seq) >= y.seq /\ Larger(x.seq, y.seq) \in {x.seq, y.seq}
  BY <1>9 DEF Larger
<1>11. t.seq >= s.seq /\ t.seq >= r.seq
  BY <1>2, <1>4, <1>5, <1>8
<1>12. StoredSequence(d) =< Larger(x.seq, y.seq)
  BY <1>2, <1>3, <1>7, <1>9, <1>10, <1>11
<1>13. ASSUME Larger(x.seq, y.seq) > StoredSequence(d)
       PROVE  LastReset(x, y) # last \/ a.seq >= Larger(x.seq, y.seq)
  <2>1. Larger(x.seq, y.seq) = t.seq
    BY <1>2, <1>3, <1>7, <1>9, <1>10, <1>11, <1>13
  <2>2. CASE meta.seq = current
    BY <1>2, <1>3, <1>5, <1>6, <1>8, <1>13, <2>1, <2>2
  <2>3. CASE action # NoEvent /\ action # last /\ meta.seq = current + 1 /\ meta.event = action
    <3>1. t.seq > s.seq /\ t.seq > r.seq /\ t.event = action
      BY <1>2, <1>5, <1>8, <2>3
    <3>2. x = t \/ y = t
      BY <1>2, <1>3, <1>7, <1>13
    <3>3. LastReset(x, y) = action
      BY <1>2, <1>3, <1>8, <2>3, <3>1, <3>2 DEF LastReset
    <3>4. QED
      BY <2>3, <3>3
  <2>4. QED
    BY <1>4, <2>2, <2>3
<1>14. QED
  BY <1>12, <1>13 DEF a, s, r, last

\* The records are written by persistTimerCommand with the timer that its call
\* resolved, which is current; by the transaction of POST .../state; and by
\* persistDisplayMode, which keeps the timer.
LEMMA RecordStep ==
  ASSUME Core, TimersCurrent, [Next]_vars
  PROVE  \A d \in Devices :
           \/ cached'[d].timer = cached[d].timer /\ relational'[d] = relational[d]
           \/ Clearing(d) /\ cached'[d].timer = NoTimer /\ relational'[d] = NoTimer
           \/ \E c \in Calls, m \in Modes :
                /\ d \in Targets(c) /\ stage[c] # "idle"
                /\ cached'[d].timer \in {cached[d].timer, ResolvedTimer(c, d, incoming[c], m)}
                /\ relational'[d] \in {relational[d], ResolvedTimer(c, d, incoming[c], m)}
<1> DEFINE Kept(d) == cached'[d].timer = cached[d].timer /\ relational'[d] = relational[d]
           Cleared(d) == Clearing(d) /\ cached'[d].timer = NoTimer /\ relational'[d] = NoTimer
           Written(d) == \E c \in Calls, m \in Modes :
                           /\ d \in Targets(c) /\ stage[c] # "idle"
                           /\ cached'[d].timer \in {cached[d].timer, ResolvedTimer(c, d, incoming[c], m)}
                           /\ relational'[d] \in {relational[d], ResolvedTimer(c, d, incoming[c], m)}
<1>0. TypeOK /\ Kinds /\ PersistQueues /\ Queues
  BY DEF Core, TypeInv
<1>1. CASE UNCHANGED <<cached, relational>>
  BY <1>1
<1>2. ASSUME NEW d \in Devices, WriteMode(d)
      PROVE  \A x \in Devices : Kept(x)
  <2>1. /\ relational' = relational /\ snapshot[d] # NoMode
        /\ \/ cached' = cached
           \/ \E record : record.timer = snapshot[d].timer /\ cached' = [cached EXCEPT ![d] = record]
    BY <1>2 DEF WriteMode
  <2>2. snapshot[d] = cached[d]
    BY <1>0, <2>1, HeadFacts
  <2>3. QED
    BY <1>0, <2>1, <2>2 DEF TypeOK
<1>3. ASSUME NEW d \in Devices, WriteTimer(d)
      PROVE  Written(d) /\ \A x \in Devices \ {d} : Kept(x)
  <2>0. PICK c \in Calls : c = Head(persistQueue[d])
    BY <1>0, <1>3, HeadFacts DEF WriteTimer
  <2>1. /\ snapshot[d] # NoMode /\ stage[c] = "saving_timer"
        /\ cached' = cached \/ \E record : record.timer = timers[c][d] /\ cached' = [cached EXCEPT ![d] = record]
        /\ relational' = relational \/ relational' = [relational EXCEPT ![d] = timers[c][d]]
    BY <1>3, <2>0 DEF WriteTimer
  <2>2. d \in Targets(c) /\ Resolved(c, d)
    BY <1>0, <2>0, <2>1, HeadFacts DEF Resolved
  <2>3. timers[c][d] = ResolvedTimer(c, d, incoming[c], mode[c]) /\ mode[c] \in Modes
    BY <1>0, <2>1, <2>2 DEF TimersCurrent, TimerCurrent, Kinds, KindOK, ModeStages, TimerStages
  <2>4. /\ \A x \in Devices \ {d} : Kept(x)
        /\ cached'[d].timer \in {cached[d].timer, timers[c][d]} /\ relational'[d] \in {relational[d], timers[c][d]}
    BY <1>0, <2>1 DEF TypeOK
  <2>5. QED
    BY <2>1, <2>2, <2>3, <2>4
<1>4. ASSUME NEW c \in Calls, PostState(c)
      PROVE  \A x \in Devices : Kept(x) \/ Cleared(x) \/ Written(x)
  <2>0. PICK d \in Devices : d = request[c].primary
    BY <1>0, RequestFacts
  <2>1. d \in Targets(c) /\ stage[c] = "posting" /\ cached[d].deviceMode \in Modes
    BY <1>0, <1>4, <2>0, RequestFacts DEF PostState, TypeOK, StoredRecord
  <2>2. CASE UNCHANGED <<cached, relational>>
    BY <2>2
  <2>3. CASE \E t : /\ t = IF request[c].kind = "post_mode" THEN NoTimer
                           ELSE ResolvedTimer(c, d, incoming[c], cached[d].deviceMode)
                    /\ cached' = [cached EXCEPT ![d].timer = t] /\ relational' = [relational EXCEPT ![d] = t]
                    /\ stage' = [stage EXCEPT ![c] = "succeeded"]
    <3>1. PICK t : /\ t = IF request[c].kind = "post_mode" THEN NoTimer
                          ELSE ResolvedTimer(c, d, incoming[c], cached[d].deviceMode)
                   /\ cached' = [cached EXCEPT ![d].timer = t] /\ relational' = [relational EXCEPT ![d] = t]
                   /\ stage' = [stage EXCEPT ![c] = "succeeded"]
      BY <2>3
    <3>2. /\ \A x \in Devices \ {d} : cached'[x] = cached[x] /\ relational'[x] = relational[x]
          /\ cached'[d].timer = t /\ relational'[d] = t /\ stage'[c] = "succeeded"
      <4>1. cached \in [Devices -> StoredRecord] /\ relational \in [Devices -> Timer] /\ stage \in [Calls -> Stages]
        BY <1>0 DEF TypeOK
      <4>2. cached' = [cached EXCEPT ![d].timer = t] /\ relational' = [relational EXCEPT ![d] = t]
            /\ stage' = [stage EXCEPT ![c] = "succeeded"]
        BY <3>1
      <4>3. cached'[d].timer = t
        BY <4>1, <4>2 DEF StoredRecord
      <4>4. QED
        BY <4>1, <4>2, <4>3
    <3>3. \A x \in Devices \ {d} : Kept(x)
      BY <3>2
    <3>4. CASE request[c].kind = "post_mode"
      <4>1. Clearing(d)
        BY <2>0, <2>1, <3>2, <3>4 DEF Clearing
      <4>2. t = NoTimer
        BY <3>1, <3>4
      <4>3. Cleared(d)
        BY <3>2, <4>1, <4>2
      <4>4. QED
        BY <3>3, <4>3
    <3>5. CASE request[c].kind # "post_mode"
      <4>1. Written(d)
        <5>1. t = ResolvedTimer(c, d, incoming[c], cached[d].deviceMode)
          BY <3>1, <3>5
        <5>2. stage[c] # "idle"
          BY <2>1
        <5>3. QED
          BY <2>1, <3>2, <5>1, <5>2
      <4>2. QED
        BY <3>3, <4>1
    <3>6. QED
      BY <3>4, <3>5
  <2>4. QED
    BY <1>4, <2>0, <2>2, <2>3 DEF PostState, dbVars, Finish
<1>5. ASSUME NEW c \in Calls,
             \/ \E r \in Requests : Submit(c, r)
             \/ Begin(c) \/ ReadMode(c) \/ Resolve(c) \/ ModeAnswered(c) \/ ModeSaved(c)
             \/ WriteColumn(c) \/ StateAnswered(c) \/ TimerSaved(c)
             \/ \E d \in Devices : Timeout(c, d)
      PROVE  UNCHANGED <<cached, relational>>
  BY <1>5 DEF Submit, Begin, ReadMode, Resolve, ModeAnswered, ModeSaved, WriteColumn, StateAnswered, TimerSaved,
              Timeout, dbVars
<1>6. ASSUME NEW d \in Devices, PersistRead(d) \/ Deliver(d) \/ Disconnect(d) \/ HelloRead(d) \/ HelloJoin(d)
      PROVE  UNCHANGED <<cached, relational>>
  BY <1>6 DEF PersistRead, Deliver, Disconnect, HelloRead, HelloJoin, dbVars
<1>7. CASE UNCHANGED vars
  BY <1>1, <1>7 DEF vars, dbVars
<1> HIDE DEF Kept, Cleared, Written
<1>8. \A x \in Devices : Kept(x) \/ Cleared(x) \/ Written(x)
  <2>1. UNCHANGED <<cached, relational>> => \A x \in Devices : Kept(x)
    BY DEF Kept
  <2>2. UNCHANGED vars => UNCHANGED <<cached, relational>>
    BY DEF vars, dbVars
  <2>3. QED
    BY <1>2, <1>3, <1>4, <1>5, <1>6, <2>1, <2>2, NextCases
<1>9. QED
  BY <1>8 DEF Kept, Cleared, Written

\* What is lost stays lost.
LEMMA LossyKept ==
  ASSUME TypeOK, [Next]_vars
  PROVE  \A d \in Devices : lossy[d] => lossy'[d]
<1>1. UNCHANGED faultVars => \A d \in Devices : lossy[d] => lossy'[d]
  BY Zenon DEF faultVars
<1>2. ASSUME NEW x \in Devices, Fault(x) PROVE \A d \in Devices : lossy[d] => lossy'[d]
  BY <1>2, FaultEffect
<1>3. ASSUME NEW c \in Calls, WriteColumn(c) \/ PostState(c) PROVE UNCHANGED faultVars \/ Fault(request[c].primary)
  BY <1>3 DEF WriteColumn, PostState
<1>4. ASSUME NEW c \in Calls PROVE request[c].primary \in Devices
  BY RequestFacts
<1>5. ASSUME NEW c \in Calls, NEW r \in Requests, Submit(c, r) PROVE UNCHANGED faultVars
  BY <1>5 DEF Submit
<1>6. ASSUME NEW c \in Calls,
             Begin(c) \/ ReadMode(c) \/ Resolve(c) \/ ModeAnswered(c) \/ ModeSaved(c) \/ StateAnswered(c) \/ TimerSaved(c)
      PROVE  UNCHANGED faultVars
  BY <1>6 DEF Begin, ReadMode, Resolve, ModeAnswered, ModeSaved, StateAnswered, TimerSaved
<1>7. ASSUME NEW c \in Calls, NEW d \in Devices, Timeout(c, d) PROVE UNCHANGED faultVars \/ Fault(d)
  BY <1>7 DEF Timeout
<1>8. ASSUME NEW d \in Devices,
             PersistRead(d) \/ WriteMode(d) \/ WriteTimer(d) \/ Deliver(d) \/ Disconnect(d) \/ HelloRead(d) \/ HelloJoin(d)
      PROVE  UNCHANGED faultVars \/ Fault(d)
  BY <1>8 DEF PersistRead, WriteMode, WriteTimer, Deliver, Disconnect, HelloRead, HelloJoin
<1>9. CASE UNCHANGED vars
  BY <1>1, <1>9 DEF vars
<1>10. QED
  BY <1>1, <1>2, <1>3, <1>4, <1>5, <1>6, <1>7, <1>8, <1>9, NextCases

-----------------------------------------------------------------------------
(* What a step does to the calls, the packets, the displays' timers and the  *)
(* timers on record: one operator per kind of step.                         *)

\* Only c is concerned.
OnlyCall(c) == \A e \in Calls \ {c} : /\ stage'[e] = stage[e] /\ leg'[e] = leg[e]
                                      /\ request'[e] = request[e] /\ timers'[e] = timers[e]

SameRecords == \A d \in Devices : cached'[d].timer = cached[d].timer /\ relational'[d] = relational[d]
SameDisplays == UNCHANGED <<connected, agentTimer>>
SameCalls == UNCHANGED <<stage, request, timers>>

\* c goes on, and sends and stores nothing.
Moves(c) ==
  /\ OnlyCall(c) /\ SameRecords /\ SameDisplays /\ UNCHANGED <<inbox, leg, timers>>
  /\ stage[c] = "idle" \/ request'[c] = request[c]
  /\ stage[c] \notin {"succeeded", "failed"}
  /\ stage'[c] \notin {"idle", "mode", "saving_mode"} \cup TimerStages
  /\ stage[c] \in {"mode", "state"} => Answered(c)
  /\ stage[c] = "saving_timer" => AllSaved(c)
  /\ stage[c] = "state" => \A d \in Targets(c) : leg[c][d] # "ok"
  /\ stage[c] \in TimerStages => stage'[c] \in {"succeeded", "failed"}
  /\ stage'[c] = "succeeded" /\ IsTimerCall(c) => stage[c] = "saving_timer" /\ AllOk(c, "saved")

\* c sends a packet p[d] to every target.
Emits(c, p) ==
  \A d \in Devices :
    /\ inbox'[d] = IF d \in Targets(c)' /\ connected[d] THEN Append(inbox[d], p[d]) ELSE inbox[d]
    /\ leg'[c][d] = IF d \notin Targets(c)' THEN "none" ELSE IF connected[d] THEN "sent" ELSE "failed"

SendsMode(c, m) ==
  /\ OnlyCall(c) /\ SameRecords /\ SameDisplays /\ lossy' = lossy
  /\ stage[c] \in {"idle", "resolving"} /\ stage'[c] = "mode"
  /\ Emits(c, [d \in Devices |-> ModePacket(c, m)])

SendsTimer(c) ==
  /\ OnlyCall(c) /\ SameRecords /\ SameDisplays /\ UNCHANGED <<lossy, request, timers>>
  /\ stage[c] \in {"mode", "saving_mode"} /\ IsTimerCall(c) /\ stage'[c] = "state"
  /\ Emits(c, [d \in Devices |-> StatePacket(c, timers[c][d])])

\* The acknowledged legs of c wait for the persistence queues.
StartsSaving(c) ==
  /\ OnlyCall(c) /\ SameRecords /\ SameDisplays /\ UNCHANGED <<inbox, lossy, request, timers>>
  /\ Answered(c)
  /\ stage'[c] = IF stage[c] = "mode" THEN "saving_mode" ELSE "saving_timer"
  /\ \A d \in Devices : leg'[c][d] = IF d \in Targets(c) /\ leg[c][d] = "ok" THEN "waiting" ELSE leg[c][d]

\* A state POST stores a timer t in both copies, and sends it.
Posts(c, d, t) ==
  /\ d \in Targets(c) /\ stage[c] = "posting" /\ stage'[c] = "succeeded"
  /\ t \in {NoTimer, ResolvedTimer(c, d, incoming[c], cached[d].deviceMode)}
  /\ \A e \in Calls \ {c} : stage'[e] = stage[e] /\ timers'[e] = timers[e]
  /\ cached'[d].timer = t /\ relational'[d] = t
  /\ \A x \in Devices \ {d} : /\ cached'[x].timer = cached[x].timer /\ relational'[x] = relational[x]
                              /\ inbox'[x] = inbox[x]
  /\ inbox'[d] = IF connected[d] THEN Append(inbox[d], StatePacket(NoCall, t)) ELSE inbox[d]
  /\ SameDisplays /\ UNCHANGED <<lossy, request, leg>>

GivesUp(c, d) ==
  /\ leg[c][d] = "sent"
  /\ \A e \in Calls, x \in Devices : leg'[e][x] = IF e = c /\ x = d THEN "failed" ELSE leg[e][x]
  /\ (\E i \in 1..Len(inbox[d]) : inbox[d][i].call = c) => lossy'[d]
  /\ SameCalls /\ SameRecords /\ SameDisplays /\ inbox' = inbox

\* A write of c to the record of d is over.
Saves(c, d) ==
  /\ d \in Targets(c) /\ stage[c] \in {"saving_mode", "saving_timer"} /\ leg[c][d] = "waiting"
  /\ \A e \in Calls, x \in Devices : leg'[e][x] = IF e = c /\ x = d THEN "saved" ELSE leg[e][x]
  /\ \A x \in Devices \ {d} : cached'[x].timer = cached[x].timer /\ relational'[x] = relational[x]
  /\ IF stage[c] = "saving_mode"
     THEN cached'[d].timer = cached[d].timer /\ relational'[d] = relational[d]
     ELSE (cached'[d].timer = timers[c][d] /\ relational'[d] = timers[c][d]) \/ lossy'[d]
  /\ SameCalls /\ SameDisplays /\ inbox' = inbox

\* The packet at the head of the inbox of d is awaited by c.
Awaits(c, d) == leg[c][d] = "sent" /\ inbox[d][1].call = c /\ inbox[d][1].event = stage[c]

Receives(d) ==
  /\ inbox[d] # <<>> /\ inbox'[d] = Tail(inbox[d])
  /\ \A x \in Devices \ {d} : inbox'[x] = inbox[x] /\ agentTimer'[x] = agentTimer[x]
  /\ \A e \in Calls, x \in Devices : leg'[e][x] # leg[e][x] =>
       x = d /\ Awaits(e, d) /\ leg'[e][x] \in {"ok", "failed"}
  /\ \/ agentTimer'[d] = IF inbox[d][1].event = "mode" THEN agentTimer[d] ELSE inbox[d][1].timer
     \/ lossy'[d] /\ agentTimer'[d] = agentTimer[d] /\ \A e \in Calls : Awaits(e, d) => leg'[e][d] = "failed"
  /\ \A e \in Calls : Awaits(e, d) /\ leg'[e][d] # "ok" => lossy'[d]
  /\ SameCalls /\ SameRecords /\ UNCHANGED connected

Drops(d) ==
  /\ inbox'[d] = <<>> /\ lossy'[d]
  /\ \A x \in Devices \ {d} : connected'[x] = connected[x] /\ inbox'[x] = inbox[x]
  /\ SameCalls /\ SameRecords /\ UNCHANGED <<agentTimer, leg>>

Joins(d, m) ==
  /\ connected'[d] /\ inbox'[d] = Append(inbox[d], ModePacket(NoCall, m))
  /\ \A x \in Devices \ {d} : connected'[x] = connected[x] /\ inbox'[x] = inbox[x]
  /\ SameCalls /\ SameRecords /\ UNCHANGED <<agentTimer, leg, lossy>>

Rests == SameCalls /\ SameRecords /\ SameDisplays /\ UNCHANGED <<inbox, leg, lossy>>

LEMMA StepKinds ==
  ASSUME TypeInv, PersistQueues, [Next]_vars
  PROVE  \/ \E c \in Calls : Moves(c) \/ SendsTimer(c) \/ StartsSaving(c)
         \/ \E c \in Calls, m \in Modes : SendsMode(c, m)
         \/ \E c \in Calls, d \in Devices, t \in Timer : Posts(c, d, t)
         \/ \E c \in Calls, d \in Devices : GivesUp(c, d) \/ Saves(c, d)
         \/ \E d \in Devices : Receives(d) \/ Drops(d)
         \/ \E d \in Devices, m \in Modes : Joins(d, m)
         \/ Rests
<1> DEFINE Goal ==
         \/ \E c \in Calls : Moves(c) \/ SendsTimer(c) \/ StartsSaving(c)
         \/ \E c \in Calls, m \in Modes : SendsMode(c, m)
         \/ \E c \in Calls, d \in Devices, t \in Timer : Posts(c, d, t)
         \/ \E c \in Calls, d \in Devices : GivesUp(c, d) \/ Saves(c, d)
         \/ \E d \in Devices : Receives(d) \/ Drops(d)
         \/ \E d \in Devices, m \in Modes : Joins(d, m)
         \/ Rests
<1>0. TypeOK /\ Kinds
  BY DEF TypeInv
<1> HIDE DEF Goal
<1>1. ASSUME NEW c \in Calls, NEW r \in Requests, Submit(c, r)
      PROVE  Goal
  <2>1. /\ stage[c] = "idle" /\ request'[c] = r /\ Targets(c)' = r.targets
        /\ \A e \in Calls \ {c} : stage'[e] = stage[e] /\ request'[e] = request[e] /\ leg'[e] = leg[e]
    BY <1>0, <1>1 DEF Submit, TypeOK, Targets
  <2>2. SameRecords /\ SameDisplays /\ UNCHANGED <<timers, lossy>>
    BY <1>1 DEF Submit, SameRecords, SameDisplays, dbVars, agentVars, faultVars
  <2>3. OnlyCall(c)
    BY <2>1, <2>2 DEF OnlyCall
  <2>4. CASE stage' = [stage EXCEPT ![c] = "failed"] /\ UNCHANGED <<inbox, leg>>
    <3>1. stage'[c] = "failed"
      BY <1>0, <2>4 DEF TypeOK
    <3>2. Moves(c)
      BY <2>1, <2>2, <2>3, <2>4, <3>1 DEF Moves, TimerStages
    <3>3. QED
      BY <3>2 DEF Goal
  <2>5. CASE stage' = [stage EXCEPT ![c] = "queued"] /\ UNCHANGED <<inbox, leg>>
    <3>1. stage'[c] = "queued"
      BY <1>0, <2>5 DEF TypeOK
    <3>2. Moves(c)
      BY <2>1, <2>2, <2>3, <2>5, <3>1 DEF Moves, TimerStages
    <3>3. QED
      BY <3>2 DEF Goal
  <2>6. CASE /\ r.kind \in {"set_mode", "sync_mode"}
             /\ \A d \in r.targets : connected[d]
             /\ stage' = [stage EXCEPT ![c] = "mode"]
             /\ inbox' = [d \in Devices |-> IF d \in r.targets THEN Append(inbox[d], ModePacket(c, r.mode)) ELSE inbox[d]]
             /\ leg' = [leg EXCEPT ![c] = [d \in Devices |-> IF d \in r.targets THEN "sent" ELSE "none"]]
    <3>1. stage'[c] = "mode"
      BY <1>0, <2>6 DEF TypeOK
    <3>2. r.mode \in Modes
      BY <2>6, CommandAssumption DEF RequestOK
    <3>3. \A d \in Devices : leg'[c][d] = IF d \in r.targets THEN "sent" ELSE "none"
      BY <1>0, <2>6 DEF TypeOK
    <3>4. \A d \in Devices : inbox'[d] = IF d \in r.targets THEN Append(inbox[d], ModePacket(c, r.mode)) ELSE inbox[d]
      BY <2>6
    <3>5. Emits(c, [d \in Devices |-> ModePacket(c, r.mode)])
      BY <2>1, <2>6, <3>3, <3>4 DEF Emits
    <3>6. SendsMode(c, r.mode)
      BY <2>1, <2>2, <2>3, <3>1, <3>5 DEF SendsMode
    <3>7. QED
      BY <3>2, <3>6 DEF Goal
  <2>7. QED
    BY <1>1, <2>4, <2>5, <2>6 DEF Submit, ModePacket, IsPost
<1>2. ASSUME NEW c \in Calls, Begin(c) \/ ReadMode(c)
      PROVE  Goal
  <2>1. /\ stage[c] \in {"queued", "reading"} /\ stage'[c] \in {"posting", "reading", "resolving"}
        /\ \A e \in Calls \ {c} : stage'[e] = stage[e]
    BY <1>0, <1>2 DEF Begin, ReadMode, TypeOK
  <2>2. UNCHANGED <<inbox, leg, timers, request, cached, relational, connected, agentTimer>>
    BY <1>2 DEF Begin, ReadMode, dbVars, netVars, agentVars
  <2>3. Moves(c)
    BY <2>1, <2>2 DEF Moves, OnlyCall, SameRecords, SameDisplays, TimerStages
  <2>4. QED
    BY <2>3 DEF Goal
<1>3. ASSUME NEW c \in Calls, Resolve(c)
      PROVE  Goal
  <2>1. mode[c] \in Modes /\ SendMode(c, mode[c]) /\ stage[c] = "resolving"
    BY <1>0, <1>3 DEF Resolve, Kinds, KindOK, ModeStages
  <2>2. /\ stage'[c] = "mode" /\ \A e \in Calls \ {c} : stage'[e] = stage[e] /\ timers'[e] = timers[e]
        /\ UNCHANGED <<cached, relational, connected, agentTimer, lossy, request>>
    BY <1>0, <1>3 DEF Resolve, TypeOK, dbVars, agentVars, faultVars
  <2>3. /\ \A d \in Devices : inbox'[d] = IF d \in Targets(c) /\ connected[d]
                                       THEN Append(inbox[d], ModePacket(c, mode[c])) ELSE inbox[d]
        /\ \A d \in Devices : leg'[c][d] = IF d \notin Targets(c) THEN "none"
                                        ELSE IF connected[d] THEN "sent" ELSE "failed"
        /\ \A e \in Calls \ {c} : leg'[e] = leg[e]
    BY <1>0, <2>1, SendModeEffect
  <2>4. Emits(c, [d \in Devices |-> ModePacket(c, mode[c])])
    BY <2>2, <2>3 DEF Emits, Targets
  <2>5. SendsMode(c, mode[c])
    BY <2>1, <2>2, <2>3, <2>4 DEF SendsMode, OnlyCall, SameRecords, SameDisplays
  <2>6. QED
    BY <2>1, <2>5 DEF Goal
<1>4. ASSUME NEW c \in Calls, SendState(c, timers[c]), stage[c] \in {"mode", "saving_mode"}, IsTimerCall(c),
             stage' = [stage EXCEPT ![c] = "state"],
             UNCHANGED <<cached, relational, connected, agentTimer, lossy, request, timers>>
      PROVE  Goal
  <2>1. timers[c] \in [Devices -> Timer]
    BY <1>0 DEF TypeOK
  <2>2. stage'[c] = "state" /\ \A e \in Calls \ {c} : stage'[e] = stage[e]
    BY <1>0, <1>4 DEF TypeOK
  <2>3. /\ \A d \in Devices : inbox'[d] = IF d \in Targets(c) /\ connected[d]
                                       THEN Append(inbox[d], StatePacket(c, timers[c][d])) ELSE inbox[d]
        /\ \A d \in Devices : leg'[c][d] = IF d \notin Targets(c) THEN "none"
                                        ELSE IF connected[d] THEN "sent" ELSE "failed"
        /\ \A e \in Calls \ {c} : leg'[e] = leg[e]
    BY <1>0, <1>4, <2>1, SendStateEffect
  <2>4. Emits(c, [d \in Devices |-> StatePacket(c, timers[c][d])])
    BY <1>4, <2>3 DEF Emits, Targets
  <2>5. SendsTimer(c)
    BY <1>4, <2>2, <2>3, <2>4 DEF SendsTimer, OnlyCall, SameRecords, SameDisplays
  <2>6. QED
    BY <2>5 DEF Goal
<1>5. ASSUME NEW c \in Calls, PersistAcknowledged(c), Answered(c),
             stage' = [stage EXCEPT ![c] = IF stage[c] = "mode" THEN "saving_mode" ELSE "saving_timer"],
             UNCHANGED <<cached, relational, connected, agentTimer, lossy, request, timers, inbox>>
      PROVE  Goal
  <2>1. /\ stage'[c] = IF stage[c] = "mode" THEN "saving_mode" ELSE "saving_timer"
        /\ \A e \in Calls \ {c} : stage'[e] = stage[e]
    BY <1>0, <1>5 DEF TypeOK
  <2>2. /\ \A d \in Devices : leg'[c][d] = IF d \in Targets(c) /\ leg[c][d] = "ok" THEN "waiting" ELSE leg[c][d]
        /\ \A e \in Calls \ {c} : leg'[e] = leg[e]
    BY <1>0, <1>5, PersistEffect
  <2>3. StartsSaving(c)
    BY <1>5, <2>1, <2>2 DEF StartsSaving, OnlyCall, SameRecords, SameDisplays
  <2>4. QED
    BY <2>3 DEF Goal
<1>6. ASSUME NEW c \in Calls, NEW s \in {"column", "succeeded", "failed"}, stage' = [stage EXCEPT ![c] = s],
             stage[c] \in {"mode", "saving_mode", "column", "state", "saving_timer", "posting"},
             stage[c] \in {"mode", "state"} => Answered(c),
             stage[c] = "saving_timer" => AllSaved(c),
             stage[c] = "state" => \A d \in Targets(c) : leg[c][d] # "ok",
             stage[c] \in TimerStages => s # "column",
             s = "succeeded" /\ IsTimerCall(c) => stage[c] = "saving_timer" /\ AllOk(c, "saved"),
             UNCHANGED <<cached, relational, connected, agentTimer, request, timers, inbox, leg>>
      PROVE  Goal
  <2>1. stage'[c] = s /\ \A e \in Calls \ {c} : stage'[e] = stage[e]
    BY <1>0, <1>6 DEF TypeOK
  <2>2. Moves(c)
    <3>1. OnlyCall(c) /\ SameRecords /\ SameDisplays /\ UNCHANGED <<inbox, leg, timers, request>>
      BY <1>6, <2>1 DEF OnlyCall, SameRecords, SameDisplays
    <3>2. stage'[c] \notin {"idle", "mode", "saving_mode"} \cup TimerStages
      BY <2>1 DEF TimerStages
    <3>3. QED
      BY <1>6, <2>1, <3>1, <3>2 DEF Moves
  <2>3. QED
    BY <2>2 DEF Goal
<1>7. ASSUME NEW c \in Calls, ModeAnswered(c)
      PROVE  Goal
  <2>1. /\ stage[c] = "mode" /\ Answered(c)
        /\ UNCHANGED <<cached, relational, connected, agentTimer, lossy, request, timers>>
    BY <1>7 DEF ModeAnswered, dbVars, agentVars, faultVars, callVars
  <2>2. CASE SendState(c, timers[c]) /\ stage' = [stage EXCEPT ![c] = "state"] /\ request[c].kind = "set_timer"
    BY <1>4, <2>1, <2>2 DEF IsTimerCall
  <2>3. CASE stage' = [stage EXCEPT ![c] = "failed"] /\ UNCHANGED <<inbox, leg>>
    BY <1>6, <2>1, <2>3 DEF TimerStages
  <2>4. CASE PersistAcknowledged(c) /\ stage' = [stage EXCEPT ![c] = "saving_mode"] /\ UNCHANGED inbox
    BY <1>5, <2>1, <2>4
  <2>5. QED
    BY <1>7, <2>2, <2>3, <2>4 DEF ModeAnswered, Finish
<1>8. ASSUME NEW c \in Calls, ModeSaved(c)
      PROVE  Goal
  <2>1. /\ stage[c] = "saving_mode" /\ request[c].kind \in {"set_mode", "sync_mode", "sync_timer"}
        /\ UNCHANGED <<cached, relational, connected, agentTimer, lossy, request, timers>>
    BY <1>0, <1>8 DEF ModeSaved, dbVars, agentVars, faultVars, callVars, Kinds, KindOK
  <2>2. CASE SendState(c, timers[c]) /\ stage' = [stage EXCEPT ![c] = "state"] /\ request[c].kind = "sync_timer"
    BY <1>4, <2>1, <2>2 DEF IsTimerCall
  <2>3. CASE /\ \E s \in {"column", "succeeded", "failed"} :
                   /\ stage' = [stage EXCEPT ![c] = s]
                   /\ s = "succeeded" => request[c].kind = "sync_mode"
             /\ UNCHANGED <<inbox, leg>>
    <3>1. PICK s \in {"column", "succeeded", "failed"} :
                   /\ stage' = [stage EXCEPT ![c] = s]
                   /\ s = "succeeded" => request[c].kind = "sync_mode"
      BY <2>3
    <3>2. QED
      BY <1>6, <2>1, <2>3, <3>1 DEF TimerStages, IsTimerCall
  <2>4. QED
    <3>1. CASE request[c].kind = "set_mode"
      BY <1>8, <2>3, <3>1 DEF ModeSaved
    <3>2. CASE request[c].kind = "sync_timer" /\ AllOk(c, "saved")
      BY <1>8, <2>2, <3>2 DEF ModeSaved
    <3>3. CASE request[c].kind # "set_mode" /\ ~(request[c].kind = "sync_timer" /\ AllOk(c, "saved"))
      <4>1. /\ stage' = [stage EXCEPT ![c] = IF AllOk(c, "saved") THEN "succeeded" ELSE "failed"]
            /\ UNCHANGED <<inbox, leg>>
        BY <1>8, <3>3 DEF ModeSaved, Finish
      <4>2. QED
        BY <2>1, <2>3, <3>3, <4>1
    <3>4. QED
      BY <3>1, <3>2, <3>3
<1>9. ASSUME NEW c \in Calls, WriteColumn(c)
      PROVE  Goal
  <2>1. /\ stage[c] = "column" /\ ~IsTimerCall(c) /\ stage' = [stage EXCEPT ![c] = "succeeded"]
        /\ UNCHANGED <<cached, relational, connected, agentTimer, request, timers, inbox, leg>>
    BY <1>0, <1>9 DEF WriteColumn, Finish, netVars, agentVars, callVars, Kinds, KindOK, IsTimerCall
  <2>2. QED
    BY <1>6, <2>1 DEF TimerStages
<1>10. ASSUME NEW c \in Calls, StateAnswered(c)
       PROVE  Goal
  <2>1. /\ stage[c] = "state" /\ Answered(c)
        /\ UNCHANGED <<cached, relational, connected, agentTimer, lossy, request, timers, inbox>>
    BY <1>10 DEF StateAnswered, dbVars, netVars, agentVars, faultVars, callVars
  <2>2. CASE /\ stage' = [stage EXCEPT ![c] = "failed"] /\ UNCHANGED leg
             /\ request[c].kind = "set_timer" /\ ~AllOk(c, "ok")
    <3>1. \A d \in Targets(c) : leg[c][d] # "ok"
      <4>1. \A d, x \in Targets(c) : d = x
        BY <1>0, <2>2, RequestFacts
      <4>2. QED
        BY <2>2, <4>1 DEF AllOk
    <3>2. QED
      BY <1>6, <2>1, <2>2, <3>1 DEF TimerStages
  <2>3. CASE PersistAcknowledged(c) /\ stage' = [stage EXCEPT ![c] = "saving_timer"]
    BY <1>5, <2>1, <2>3
  <2>4. QED
    BY <1>10, <2>2, <2>3 DEF StateAnswered, Finish
<1>11. ASSUME NEW c \in Calls, TimerSaved(c)
       PROVE  Goal
  <2>1. PICK s \in {"succeeded", "failed"} :
           /\ stage' = [stage EXCEPT ![c] = s] /\ (s = "succeeded" => AllOk(c, "saved"))
           /\ stage[c] = "saving_timer" /\ AllSaved(c)
           /\ UNCHANGED <<cached, relational, connected, agentTimer, request, timers, inbox, leg>>
    BY <1>11 DEF TimerSaved, Finish, dbVars, netVars, agentVars, callVars
  <2>2. QED
    BY <1>6, <2>1
<1>12. ASSUME NEW c \in Calls, PostState(c)
       PROVE  Goal
  <2>0. PICK d \in Devices : d = request[c].primary
    BY <1>0, RequestFacts
  <2>1. /\ d \in Targets(c) /\ stage[c] = "posting" /\ cached[d].deviceMode \in Modes /\ ~IsTimerCall(c)
        /\ UNCHANGED <<connected, agentTimer, request, leg>>
    BY <1>0, <1>12, <2>0, RequestFacts DEF PostState, TypeOK, StoredRecord, agentVars, Kinds, KindOK, IsPost, IsTimerCall
  <2>2. CASE stage' = [stage EXCEPT ![c] = "failed"] /\ UNCHANGED <<cached, relational, timers, inbox>>
    BY <1>6, <2>1, <2>2 DEF TimerStages
  <2>3. CASE \E t : /\ t = IF request[c].kind = "post_mode" THEN NoTimer
                           ELSE ResolvedTimer(c, d, incoming[c], cached[d].deviceMode)
                    /\ cached' = [cached EXCEPT ![d].timer = t] /\ relational' = [relational EXCEPT ![d] = t]
                    /\ timers' = [timers EXCEPT ![c][d] = t]
                    /\ inbox' = IF connected[d] THEN [inbox EXCEPT ![d] = Append(@, StatePacket(NoCall, t))] ELSE inbox
                    /\ stage' = [stage EXCEPT ![c] = "succeeded"] /\ UNCHANGED lossy
    <3>1. PICK t : /\ t = IF request[c].kind = "post_mode" THEN NoTimer
                          ELSE ResolvedTimer(c, d, incoming[c], cached[d].deviceMode)
                   /\ cached' = [cached EXCEPT ![d].timer = t] /\ relational' = [relational EXCEPT ![d] = t]
                   /\ timers' = [timers EXCEPT ![c][d] = t]
                   /\ inbox' = IF connected[d] THEN [inbox EXCEPT ![d] = Append(@, StatePacket(NoCall, t))] ELSE inbox
                   /\ stage' = [stage EXCEPT ![c] = "succeeded"] /\ UNCHANGED lossy
      BY <2>3
    <3>2. t \in {NoTimer, ResolvedTimer(c, d, incoming[c], cached[d].deviceMode)}
      BY <3>1
    <3>3. /\ cached \in [Devices -> StoredRecord] /\ relational \in [Devices -> Timer] /\ stage \in [Calls -> Stages]
          /\ timers \in [Calls -> [Devices -> Timer]] /\ inbox \in [Devices -> Seq(Packet)]
      BY <1>0 DEF TypeOK
    <3>4. /\ cached'[d].timer = t /\ relational'[d] = t /\ stage'[c] = "succeeded"
          /\ \A x \in Devices \ {d} : cached'[x].timer = cached[x].timer /\ relational'[x] = relational[x]
      BY <3>1, <3>3 DEF StoredRecord
    <3>5. \A e \in Calls \ {c} : stage'[e] = stage[e] /\ timers'[e] = timers[e]
      BY <3>1, <3>3
    <3>6. /\ inbox'[d] = IF connected[d] THEN Append(inbox[d], StatePacket(NoCall, t)) ELSE inbox[d]
          /\ \A x \in Devices \ {d} : inbox'[x] = inbox[x]
      BY <3>1, <3>3
    <3>7. Posts(c, d, t)
      BY <2>1, <3>1, <3>2, <3>4, <3>5, <3>6 DEF Posts, SameDisplays
    <3>8. t \in Timer
      <4>1. relational'[d] = t
        BY <3>4
      <4>2. QED
        BY <1>0, <2>1, <3>2, NoTimerType, ResolvedTimerAhead
    <3>9. QED
      BY <3>7, <3>8 DEF Goal
  <2>4. QED
    BY <1>12, <2>0, <2>2, <2>3 DEF PostState, dbVars, Finish, StatePacket, faultVars
<1>13. ASSUME NEW c \in Calls, NEW d \in Devices, Timeout(c, d)
       PROVE  Goal
  <2>1. /\ leg[c][d] = "sent" /\ leg' = [leg EXCEPT ![c][d] = "failed"]
        /\ (\E i \in 1..Len(inbox[d]) : inbox[d][i].call = c) => Fault(d)
        /\ UNCHANGED <<stage, request, timers, cached, relational, connected, agentTimer, inbox>>
    BY <1>13 DEF Timeout, netVars, agentVars, dbVars, callVars
  <2>2. Fault(d) => lossy'[d]
    BY <1>0, FaultEffect
  <2>3. \A e \in Calls, x \in Devices : leg'[e][x] = IF e = c /\ x = d THEN "failed" ELSE leg[e][x]
    BY <1>0, <2>1 DEF TypeOK
  <2>4. (\E i \in 1..Len(inbox[d]) : inbox[d][i].call = c) => lossy'[d]
    BY <2>1, <2>2
  <2>5. GivesUp(c, d)
    <3>1. SameCalls /\ SameRecords /\ SameDisplays
      BY <2>1 DEF SameCalls, SameRecords, SameDisplays
    <3>2. QED
      BY <2>1, <2>3, <2>4, <3>1 DEF GivesUp
  <2>6. QED
    BY <2>5 DEF Goal
<1>14. ASSUME NEW d \in Devices, WriteMode(d)
       PROVE  Goal
  <2>0. PICK c \in Calls : c = Head(persistQueue[d])
    BY <1>0, <1>14, HeadFacts DEF WriteMode
  <2>1. /\ UNCHANGED <<stage, request, timers, relational, connected, agentTimer, inbox>>
        /\ LeavePersistQueue(d) /\ snapshot[d] # NoMode /\ stage[c] = "saving_mode"
        /\ \/ cached' = cached
           \/ \E record : record.timer = snapshot[d].timer /\ cached' = [cached EXCEPT ![d] = record]
    BY <1>14, <2>0 DEF WriteMode, netVars, agentVars, callVars
  <2>2. snapshot[d] = cached[d] /\ d \in Targets(c) /\ leg[c][d] = "waiting"
    BY <1>0, <2>0, <2>1, HeadFacts
  <2>3. \A x \in Devices : cached'[x].timer = cached[x].timer
    BY <1>0, <2>1, <2>2 DEF TypeOK
  <2>4. \A e \in Calls, x \in Devices : leg'[e][x] = IF e = c /\ x = d THEN "saved" ELSE leg[e][x]
    BY <1>0, <2>0, <2>1, LeaveLegs
  <2>5. Saves(c, d)
    BY <2>1, <2>2, <2>3, <2>4 DEF Saves, SameCalls, SameDisplays
  <2>6. QED
    BY <2>5 DEF Goal
<1>15. ASSUME NEW d \in Devices, WriteTimer(d)
       PROVE  Goal
  <2>0. PICK c \in Calls : c = Head(persistQueue[d])
    BY <1>0, <1>15, HeadFacts DEF WriteTimer
  <2>1. /\ UNCHANGED <<stage, request, timers, connected, agentTimer, inbox>>
        /\ LeavePersistQueue(d) /\ snapshot[d] # NoMode /\ stage[c] = "saving_timer"
        /\ \E okCached, okRelational \in BOOLEAN :
             /\ IF okCached THEN \E record : record.timer = timers[c][d] /\ cached' = [cached EXCEPT ![d] = record]
                ELSE cached' = cached
             /\ IF okRelational THEN relational' = [relational EXCEPT ![d] = timers[c][d]]
                ELSE relational' = relational
             /\ (okCached /\ okRelational) \/ Fault(d)
    BY <1>15, <2>0 DEF WriteTimer, netVars, agentVars, callVars
  <2>2. d \in Targets(c) /\ leg[c][d] = "waiting"
    BY <1>0, <2>0, <2>1, HeadFacts
  <2>3. \A e \in Calls, x \in Devices : leg'[e][x] = IF e = c /\ x = d THEN "saved" ELSE leg[e][x]
    BY <1>0, <2>0, <2>1, LeaveLegs
  <2>4. Fault(d) => lossy'[d]
    BY <1>0, FaultEffect
  <2>5. \/ /\ \E record : record.timer = timers[c][d] /\ cached' = [cached EXCEPT ![d] = record]
           /\ relational' = [relational EXCEPT ![d] = timers[c][d]]
        \/ /\ cached' = cached \/ \E record : cached' = [cached EXCEPT ![d] = record]
           /\ relational' = relational \/ relational' = [relational EXCEPT ![d] = timers[c][d]]
           /\ lossy'[d]
    BY <2>1, <2>4
  <2>6. /\ \A x \in Devices \ {d} : cached'[x].timer = cached[x].timer /\ relational'[x] = relational[x]
        /\ (cached'[d].timer = timers[c][d] /\ relational'[d] = timers[c][d]) \/ lossy'[d]
    BY <1>0, <2>5 DEF TypeOK
  <2>7. Saves(c, d)
    BY <2>1, <2>2, <2>3, <2>6 DEF Saves, SameCalls, SameDisplays
  <2>8. QED
    BY <2>7 DEF Goal
<1>16. ASSUME NEW d \in Devices, Deliver(d)
       PROVE  Goal
  <2>0. PICK p : p = Head(inbox[d])
    OBVIOUS
  <2>1. /\ inbox[d] # <<>> /\ inbox' = [inbox EXCEPT ![d] = Tail(@)]
        /\ UNCHANGED <<stage, request, timers, cached, relational, connected>>
    BY <1>16 DEF Deliver, dbVars, callVars
  <2>2. inbox[d] \in Seq(Packet) /\ p = inbox[d][1] /\ p \in Packet
    BY <1>0, <2>0, <2>1, TailFacts DEF TypeOK
  <2>3. \A e \in Calls : Awaits(e, d) <=> p.call = e /\ stage[e] = p.event /\ leg[e][d] = "sent"
    BY <2>2 DEF Awaits
  <2>4. PICK shown \in {agentTimer[d], p.timer}, answer \in {"none", "ok", "failed"} :
           /\ agentTimer' = [agentTimer EXCEPT ![d] = shown]
           /\ leg' = IF answer # "none" /\ \E e \in Calls : Awaits(e, d)
                     THEN [leg EXCEPT ![p.call][d] = answer] ELSE leg
           /\ \/ shown = (IF p.event = "mode" THEN agentTimer[d] ELSE p.timer)
              \/ Fault(d) /\ shown = agentTimer[d] /\ answer = "failed"
           /\ answer = "ok" \/ Fault(d)
    <3>1. agentTimer \in [Devices -> Timer]
      BY <1>0 DEF TypeOK
    <3>2. agentTimer = [agentTimer EXCEPT ![d] = agentTimer[d]]
      BY <3>1
    <3>3. (\E e \in Calls : Awaits(e, d)) <=> p.call \in Calls /\ stage[p.call] = p.event /\ leg[p.call][d] = "sent"
      BY <2>3
    <3>4. p.event = "mode" => agentTimer = [agentTimer EXCEPT ![d] = IF p.event = "mode" THEN agentTimer[d] ELSE p.timer]
      BY <3>2
    <3>5. \/ /\ agentTimer' = [agentTimer EXCEPT ![d] = IF p.event = "mode" THEN agentTimer[d] ELSE p.timer]
             /\ \/ leg' = IF \E e \in Calls : Awaits(e, d) THEN [leg EXCEPT ![p.call][d] = "ok"] ELSE leg
                \/ leg' = leg /\ Fault(d)
          \/ /\ agentTimer' = agentTimer /\ Fault(d)
             /\ leg' = IF \E e \in Calls : Awaits(e, d) THEN [leg EXCEPT ![p.call][d] = "failed"] ELSE leg
      BY <1>16, <2>0, <3>3, <3>4 DEF Deliver, agentVars
    <3>6. QED
      <4>1. CASE /\ agentTimer' = [agentTimer EXCEPT ![d] = IF p.event = "mode" THEN agentTimer[d] ELSE p.timer]
                 /\ leg' = IF \E e \in Calls : Awaits(e, d) THEN [leg EXCEPT ![p.call][d] = "ok"] ELSE leg
        BY <4>1
      <4>2. CASE /\ agentTimer' = [agentTimer EXCEPT ![d] = IF p.event = "mode" THEN agentTimer[d] ELSE p.timer]
                 /\ leg' = leg /\ Fault(d)
        <5> DEFINE shown == IF p.event = "mode" THEN agentTimer[d] ELSE p.timer
        <5>1. shown \in {agentTimer[d], p.timer}
          OBVIOUS
        <5>2. QED
          BY <4>2, <5>1
      <4>3. CASE /\ agentTimer' = agentTimer /\ Fault(d)
                 /\ leg' = IF \E e \in Calls : Awaits(e, d) THEN [leg EXCEPT ![p.call][d] = "failed"] ELSE leg
        BY <3>2, <4>3
      <4>4. QED
        BY <3>5, <4>1, <4>2, <4>3
  <2>5. Fault(d) => lossy'[d]
    BY <1>0, FaultEffect
  <2>6. /\ inbox'[d] = Tail(inbox[d]) /\ agentTimer'[d] = shown
        /\ \A x \in Devices \ {d} : inbox'[x] = inbox[x] /\ agentTimer'[x] = agentTimer[x]
    BY <1>0, <2>1, <2>4 DEF TypeOK
  <2>7. \A e \in Calls, x \in Devices :
          leg'[e][x] = IF answer # "none" /\ Awaits(e, d) /\ x = d THEN answer ELSE leg[e][x]
    <3>1. CASE answer = "none" \/ ~\E e \in Calls : Awaits(e, d)
      BY <2>4, <3>1
    <3>2. CASE answer # "none" /\ \E e \in Calls : Awaits(e, d)
      <4>1. PICK f \in Calls : Awaits(f, d)
        BY <3>2
      <4>2. p.call = f /\ \A e \in Calls : Awaits(e, d) <=> e = f
        BY <2>3, <4>1
      <4>3. leg' = [leg EXCEPT ![f][d] = answer]
        BY <2>4, <3>2, <4>2
      <4>4. \A e \in Calls, x \in Devices : leg'[e][x] = IF e = f /\ x = d THEN answer ELSE leg[e][x]
        BY <1>0, <4>3 DEF TypeOK
      <4>5. QED
        BY <3>2, <4>2, <4>4
    <3>3. QED
      BY <3>1, <3>2
  <2>8. Receives(d)
    BY <2>1, <2>2, <2>4, <2>5, <2>6, <2>7, SMTT(20) DEF Receives, SameCalls, SameRecords
  <2>9. QED
    BY <2>8 DEF Goal
<1>17. ASSUME NEW d \in Devices, Disconnect(d)
       PROVE  Goal
  <2>1. /\ UNCHANGED <<stage, request, timers, cached, relational, agentTimer, leg>> /\ Fault(d)
        /\ connected' = [connected EXCEPT ![d] = FALSE] /\ inbox' = [inbox EXCEPT ![d] = <<>>]
    BY <1>17 DEF Disconnect, dbVars, agentVars, callVars
  <2>2. lossy'[d]
    BY <1>0, <2>1, FaultEffect
  <2>3. /\ inbox'[d] = <<>> /\ \A x \in Devices \ {d} : inbox'[x] = inbox[x]
    BY <1>0, <2>1 DEF TypeOK
  <2>4. \A x \in Devices \ {d} : connected'[x] = connected[x]
    BY <1>0, <2>1, Zenon DEF TypeOK
  <2>5. Drops(d)
    BY <2>1, <2>2, <2>3, <2>4 DEF Drops, SameCalls, SameRecords
  <2>6. QED
    BY <2>5 DEF Goal
<1>18. ASSUME NEW d \in Devices, HelloJoin(d)
       PROVE  Goal
  <2>1. /\ UNCHANGED <<stage, request, timers, cached, relational, agentTimer, leg, lossy>> /\ hello[d] \in Modes
        /\ connected' = [connected EXCEPT ![d] = TRUE]
        /\ inbox' = [inbox EXCEPT ![d] = Append(@, ModePacket(NoCall, hello[d]))]
    BY <1>0, <1>18 DEF HelloJoin, dbVars, agentVars, callVars, faultVars, ModePacket, TypeOK
  <2>2. /\ inbox'[d] = Append(inbox[d], ModePacket(NoCall, hello[d]))
        /\ \A x \in Devices \ {d} : inbox'[x] = inbox[x]
    BY <1>0, <2>1 DEF TypeOK
  <2>3. connected'[d] /\ \A x \in Devices \ {d} : connected'[x] = connected[x]
    BY <1>0, <2>1, Zenon DEF TypeOK
  <2>4. Joins(d, hello[d])
    BY <2>1, <2>2, <2>3 DEF Joins, SameCalls, SameRecords
  <2>5. QED
    BY <2>1, <2>4 DEF Goal
<1>19. ASSUME UNCHANGED vars \/ \E d \in Devices : PersistRead(d) \/ HelloRead(d)
       PROVE  Goal
  <2>1. UNCHANGED <<stage, request, timers, cached, relational, connected, agentTimer, inbox, leg, lossy>>
    BY <1>19 DEF vars, PersistRead, HelloRead, netVars, dbVars, agentVars, callVars, faultVars
  <2>2. Rests
    BY <2>1 DEF Rests, SameCalls, SameRecords, SameDisplays
  <2>3. QED
    BY <2>2 DEF Goal
<1>20. Goal
  BY <1>1, <1>2, <1>3, <1>7, <1>8, <1>9, <1>10, <1>11, <1>12, <1>13, <1>14, <1>15, <1>16, <1>17, <1>18, <1>19, NextCases
<1>21. QED
  BY <1>20 DEF Goal

-----------------------------------------------------------------------------
(* The legs of a call: what failed was a loss, what is sent is on its way. *)

LegOK(c, d) ==
  /\ leg[c][d] = "sent" =>
       /\ d \in Targets(c) /\ stage[c] \in {"mode", "state"}
       /\ lossy[d] \/ \E i \in 1..Len(inbox[d]) : inbox[d][i].call = c /\ inbox[d][i].event = stage[c]
  /\ leg[c][d] = "failed" => lossy[d]
  /\ d \in Targets(c) /\ stage[c] = "state" => leg[c][d] \in {"sent", "ok", "failed"}
  /\ d \in Targets(c) /\ stage[c] = "saving_timer" => leg[c][d] \in {"waiting", "saved", "failed"}

Legs == /\ \A c \in Calls, d \in Devices : LegOK(c, d)
        /\ \A d \in Devices : connected[d] \/ lossy[d]

LEMMA LegKept ==
  ASSUME NEW c \in Calls, NEW d \in Devices, LegOK(c, d), lossy[d] => lossy'[d],
         stage'[c] = stage[c], leg'[c][d] = leg[c][d], request'[c] = request[c],
         \A i \in 1..Len(inbox[d]) : \E j \in 1..Len(inbox'[d]) : inbox'[d][j] = inbox[d][i]
  PROVE  LegOK(c, d)'
<1>1. ASSUME leg[c][d] = "sent", ~lossy'[d]
      PROVE  \E i \in 1..Len(inbox'[d]) : inbox'[d][i].call = c /\ inbox'[d][i].event = stage'[c]
  <2>1. PICK i \in 1..Len(inbox[d]) : inbox[d][i].call = c /\ inbox[d][i].event = stage[c]
    BY <1>1 DEF LegOK
  <2>2. QED
    BY <2>1
<1>2. QED
  BY <1>1 DEF LegOK, Targets

\* An append does not remove packets.
LEMMA AppendStays ==
  ASSUME TypeOK, NEW d \in Devices, NEW p, inbox'[d] = inbox[d] \/ inbox'[d] = Append(inbox[d], p)
  PROVE  \A i \in 1..Len(inbox[d]) : \E j \in 1..Len(inbox'[d]) : inbox'[d][j] = inbox[d][i]
<1>1. inbox[d] \in Seq(Packet)
  BY DEF TypeOK
<1>2. CASE inbox'[d] = Append(inbox[d], p)
  <2>1. \A i \in 1..Len(inbox[d]) : i \in 1..Len(inbox'[d]) /\ inbox'[d][i] = inbox[d][i]
    BY <1>1, <1>2
  <2>2. QED
    BY <2>1
<1>3. QED
  BY <1>2

LEMMA LegMoved ==
  ASSUME NEW c \in Calls, NEW d \in Devices, LegOK(c, d), lossy[d] => lossy'[d],
         leg'[c][d] = leg[c][d], leg[c][d] # "sent", stage'[c] \notin {"state", "saving_timer"}
  PROVE  LegOK(c, d)'
  BY DEF LegOK

LEMMA LegSent ==
  ASSUME TypeOK, NEW c \in Calls, NEW d \in Devices, connected[d] \/ lossy[d], lossy[d] => lossy'[d],
         leg'[c][d] = IF d \notin Targets(c)' THEN "none" ELSE IF connected[d] THEN "sent" ELSE "failed",
         stage'[c] \in {"mode", "state"}, NEW p \in Packet, p.call = c, p.event = stage'[c],
         inbox'[d] = IF d \in Targets(c)' /\ connected[d] THEN Append(inbox[d], p) ELSE inbox[d]
  PROVE  LegOK(c, d)'
<1>1. inbox[d] \in Seq(Packet)
  BY DEF TypeOK
<1>2. CASE d \notin Targets(c)'
  BY <1>2 DEF LegOK
<1>3. CASE d \in Targets(c)' /\ connected[d]
  <2>1. leg'[c][d] = "sent" /\ inbox'[d] = Append(inbox[d], p)
    BY <1>3
  <2>2. Len(inbox[d]) + 1 \in 1..Len(inbox'[d]) /\ inbox'[d][Len(inbox[d]) + 1] = p
    BY <1>1, <2>1
  <2>3. \E i \in 1..Len(inbox'[d]) : inbox'[d][i].call = c /\ inbox'[d][i].event = stage'[c]
    BY <2>2
  <2>4. QED
    BY <1>3, <2>1, <2>3 DEF LegOK
<1>4. CASE d \in Targets(c)' /\ ~connected[d]
  BY <1>4 DEF LegOK
<1>5. QED
  BY <1>2, <1>3, <1>4

LEMMA LegWaits ==
  ASSUME NEW c \in Calls, NEW d \in Devices, LegOK(c, d), lossy[d] => lossy'[d], request'[c] = request[c],
         leg'[c][d] = IF d \in Targets(c) /\ leg[c][d] = "ok" THEN "waiting" ELSE leg[c][d],
         leg[c][d] # "sent", stage'[c] = "saving_mode" \/ (stage'[c] = "saving_timer" /\ stage[c] = "state")
  PROVE  LegOK(c, d)'
  BY DEF LegOK, Targets

LEMMA StepLegs == TypeInv /\ PersistQueues /\ Legs /\ [Next]_vars => Legs'
<1> SUFFICES ASSUME TypeInv, PersistQueues, Legs, [Next]_vars PROVE Legs'
  OBVIOUS
<1>0. TypeOK /\ \A d \in Devices : lossy[d] => lossy'[d]
  BY LossyKept DEF TypeInv
<1>1. \A c \in Calls, d \in Devices : LegOK(c, d)
  BY DEF Legs
<1>2. \A d \in Devices : connected[d] \/ lossy[d]
  BY DEF Legs
<1>3. \A c \in Calls, d \in Devices : leg[c][d] = "sent" => d \in Targets(c) /\ stage[c] \in {"mode", "state"}
  BY <1>1 DEF LegOK
<1>4. ASSUME NEW c \in Calls, Moves(c)
      PROVE  Legs'
  <2>1. ASSUME NEW e \in Calls, NEW x \in Devices PROVE LegOK(e, x)'
    <3>1. CASE e = c
      <4>1. leg[c][x] # "sent" /\ stage'[c] \notin {"state", "saving_timer"} /\ leg'[c][x] = leg[c][x]
        BY <1>3, <1>4 DEF Moves, Answered, TimerStages
      <4>2. QED
        BY <1>0, <1>1, <3>1, <4>1, LegMoved
    <3>2. CASE e # c
      <4>1. inbox' = inbox /\ stage'[e] = stage[e] /\ leg'[e][x] = leg[e][x] /\ request'[e] = request[e]
        BY <1>4, <3>2 DEF Moves, OnlyCall
      <4>2. QED
        BY <1>0, <1>1, <4>1, LegKept
    <3>3. QED
      BY <3>1, <3>2
  <2>2. QED
    BY <1>0, <1>2, <1>4, <2>1 DEF Legs, Moves, SameDisplays
<1>5. ASSUME NEW c \in Calls, NEW p \in [Devices -> Packet], OnlyCall(c), Emits(c, p), UNCHANGED connected,
             stage'[c] \in {"mode", "state"}, \A x \in Devices : p[x].call = c /\ p[x].event = stage'[c]
      PROVE  Legs'
  <2>1. ASSUME NEW e \in Calls, NEW x \in Devices PROVE LegOK(e, x)'
    <3>0. /\ inbox'[x] = IF x \in Targets(c)' /\ connected[x] THEN Append(inbox[x], p[x]) ELSE inbox[x]
          /\ leg'[c][x] = IF x \notin Targets(c)' THEN "none" ELSE IF connected[x] THEN "sent" ELSE "failed"
          /\ p[x] \in Packet /\ p[x].call = c /\ p[x].event = stage'[c]
      BY <1>5 DEF Emits
    <3>1. CASE e = c
      BY <1>0, <1>2, <1>5, <3>0, <3>1, LegSent
    <3>2. CASE e # c
      <4>1. stage'[e] = stage[e] /\ leg'[e][x] = leg[e][x] /\ request'[e] = request[e]
        BY <1>5, <3>2 DEF OnlyCall
      <4>2. \A i \in 1..Len(inbox[x]) : \E j \in 1..Len(inbox'[x]) : inbox'[x][j] = inbox[x][i]
        BY <1>0, <3>0, AppendStays
      <4>3. QED
        BY <1>0, <1>1, <4>1, <4>2, LegKept
    <3>3. QED
      BY <3>1, <3>2
  <2>2. QED
    BY <1>0, <1>2, <1>5, <2>1 DEF Legs
<1>6. ASSUME NEW c \in Calls, SendsTimer(c)
      PROVE  Legs'
  <2>1. [d \in Devices |-> StatePacket(c, timers[c][d])] \in [Devices -> Packet]
    BY <1>0, PacketTypes DEF TypeOK
  <2>2. stage'[c] = "state" /\ \A x \in Devices : StatePacket(c, timers[c][x]).call = c /\ StatePacket(c, timers[c][x]).event = "state"
    BY <1>6 DEF SendsTimer, StatePacket
  <2>3. QED
    BY <1>5, <1>6, <2>1, <2>2 DEF SendsTimer, SameDisplays
<1>7. ASSUME NEW c \in Calls, NEW m \in Modes, SendsMode(c, m)
      PROVE  Legs'
  <2>1. [d \in Devices |-> ModePacket(c, m)] \in [Devices -> Packet]
    BY <1>0, PacketTypes
  <2>2. stage'[c] = "mode" /\ ModePacket(c, m).call = c /\ ModePacket(c, m).event = "mode"
    BY <1>7 DEF SendsMode, ModePacket
  <2>3. QED
    BY <1>5, <1>7, <2>1, <2>2 DEF SendsMode, SameDisplays
<1>8. ASSUME NEW c \in Calls, StartsSaving(c)
      PROVE  Legs'
  <2>1. ASSUME NEW e \in Calls, NEW x \in Devices PROVE LegOK(e, x)'
    <3>1. CASE e = c
      <4>1. /\ leg[c][x] # "sent" /\ request'[c] = request[c]
            /\ leg'[c][x] = IF x \in Targets(c) /\ leg[c][x] = "ok" THEN "waiting" ELSE leg[c][x]
            /\ stage'[c] = "saving_mode" \/ (stage'[c] = "saving_timer" /\ stage[c] = "state")
        BY <1>3, <1>8 DEF StartsSaving, Answered
      <4>2. QED
        BY <1>0, <1>1, <3>1, <4>1, LegWaits
    <3>2. CASE e # c
      <4>1. inbox' = inbox /\ stage'[e] = stage[e] /\ leg'[e][x] = leg[e][x] /\ request'[e] = request[e]
        BY <1>8, <3>2 DEF StartsSaving, OnlyCall
      <4>2. QED
        BY <1>0, <1>1, <4>1, LegKept
    <3>3. QED
      BY <3>1, <3>2
  <2>2. QED
    BY <1>0, <1>2, <1>8, <2>1 DEF Legs, StartsSaving, SameDisplays
<1>9. ASSUME NEW c \in Calls, NEW d \in Devices, NEW t \in Timer, Posts(c, d, t)
      PROVE  Legs'
  <2>1. ASSUME NEW e \in Calls, NEW x \in Devices PROVE LegOK(e, x)'
    <3>1. CASE e = c
      <4>1. leg[c][x] # "sent" /\ stage'[c] = "succeeded" /\ leg'[c][x] = leg[c][x]
        BY <1>3, <1>9 DEF Posts
      <4>2. QED
        BY <1>0, <1>1, <3>1, <4>1, LegMoved
    <3>2. CASE e # c
      <4>1. stage'[e] = stage[e] /\ leg'[e][x] = leg[e][x] /\ request'[e] = request[e]
            /\ (inbox'[x] = inbox[x] \/ inbox'[x] = Append(inbox[x], StatePacket(NoCall, t)))
        BY <1>9, <3>2 DEF Posts
      <4>2. \A i \in 1..Len(inbox[x]) : \E j \in 1..Len(inbox'[x]) : inbox'[x][j] = inbox[x][i]
        BY <1>0, <4>1, AppendStays
      <4>3. QED
        BY <1>0, <1>1, <4>1, <4>2, LegKept
    <3>3. QED
      BY <3>1, <3>2
  <2>2. QED
    BY <1>0, <1>2, <1>9, <2>1 DEF Legs, Posts, SameDisplays
<1>10. ASSUME NEW c \in Calls, NEW d \in Devices, GivesUp(c, d)
       PROVE  Legs'
  <2>1. ASSUME NEW e \in Calls, NEW x \in Devices PROVE LegOK(e, x)'
    <3>1. CASE e = c /\ x = d
      <4>1. leg'[c][d] = "failed" /\ leg[c][d] = "sent" /\ stage'[c] = stage[c] /\ Targets(c)' = Targets(c)
        BY <1>10 DEF GivesUp, SameCalls, Targets
      <4>2. lossy[d] \/ \E i \in 1..Len(inbox[d]) : inbox[d][i].call = c
        BY <1>1, <4>1 DEF LegOK
      <4>3. lossy'[d]
        BY <1>0, <1>10, <4>2 DEF GivesUp
      <4>4. QED
        BY <1>3, <3>1, <4>1, <4>3 DEF LegOK
    <3>2. CASE ~(e = c /\ x = d)
      <4>1. inbox' = inbox /\ stage'[e] = stage[e] /\ leg'[e][x] = leg[e][x] /\ request'[e] = request[e]
        BY <1>10, <3>2 DEF GivesUp, SameCalls
      <4>2. QED
        BY <1>0, <1>1, <4>1, LegKept
    <3>3. QED
      BY <3>1, <3>2
  <2>2. QED
    BY <1>0, <1>2, <1>10, <2>1 DEF Legs, GivesUp, SameDisplays
<1>11. ASSUME NEW c \in Calls, NEW d \in Devices, Saves(c, d)
       PROVE  Legs'
  <2>1. ASSUME NEW e \in Calls, NEW x \in Devices PROVE LegOK(e, x)'
    <3>1. CASE e = c /\ x = d
      BY <1>11, <3>1 DEF LegOK, Saves, SameCalls
    <3>2. CASE ~(e = c /\ x = d)
      <4>1. inbox' = inbox /\ stage'[e] = stage[e] /\ leg'[e][x] = leg[e][x] /\ request'[e] = request[e]
        BY <1>11, <3>2 DEF Saves, SameCalls
      <4>2. QED
        BY <1>0, <1>1, <4>1, LegKept
    <3>3. QED
      BY <3>1, <3>2
  <2>2. QED
    BY <1>0, <1>2, <1>11, <2>1 DEF Legs, Saves, SameDisplays
<1>12. ASSUME NEW d \in Devices, Receives(d)
       PROVE  Legs'
  <2>1. ASSUME NEW e \in Calls, NEW x \in Devices PROVE LegOK(e, x)'
    <3>1. stage'[e] = stage[e] /\ request'[e] = request[e] /\ Targets(e)' = Targets(e)
      BY <1>12 DEF Receives, SameCalls, Targets
    <3>2. CASE x # d
      <4>1. leg'[e][x] = leg[e][x] /\ inbox'[x] = inbox[x]
        BY <1>12, <3>2 DEF Receives
      <4>2. QED
        BY <1>0, <1>1, <3>1, <4>1, LegKept
    <3>3. CASE x = d /\ leg'[e][d] # leg[e][d]
      <4>1. Awaits(e, d) /\ leg'[e][d] \in {"ok", "failed"} /\ (leg'[e][d] = "failed" => lossy'[d])
        BY <1>12, <3>3 DEF Receives
      <4>2. stage[e] \in {"mode", "state"}
        BY <1>3, <4>1 DEF Awaits
      <4>3. QED
        BY <3>1, <3>3, <4>1, <4>2 DEF LegOK
    <3>4. CASE x = d /\ leg'[e][d] = leg[e][d]
      <4>1. ASSUME leg[e][d] = "sent", ~lossy'[d]
            PROVE  \E i \in 1..Len(inbox'[d]) : inbox'[d][i].call = e /\ inbox'[d][i].event = stage[e]
        <5>1. PICK i \in 1..Len(inbox[d]) : inbox[d][i].call = e /\ inbox[d][i].event = stage[e]
          BY <1>0, <1>1, <4>1 DEF LegOK
        <5>2. ~Awaits(e, d)
          BY <1>12, <3>4, <4>1 DEF Receives
        <5>3. i # 1
          BY <4>1, <5>1, <5>2 DEF Awaits
        <5>4. inbox[d] \in Seq(Packet) /\ inbox[d] # <<>> /\ inbox'[d] = Tail(inbox[d])
          BY <1>0, <1>12 DEF TypeOK, Receives
        <5>5. i - 1 \in 1..Len(inbox'[d]) /\ inbox'[d][i - 1] = inbox[d][i]
          BY <5>1, <5>3, <5>4
        <5>6. QED
          BY <5>1, <5>5
      <4>2. QED
        BY <1>0, <1>1, <3>1, <3>4, <4>1 DEF LegOK
    <3>5. QED
      BY <3>2, <3>3, <3>4
  <2>2. QED
    BY <1>0, <1>2, <1>12, <2>1 DEF Legs, Receives
<1>13. ASSUME NEW d \in Devices, Drops(d)
       PROVE  Legs'
  <2>1. ASSUME NEW e \in Calls, NEW x \in Devices PROVE LegOK(e, x)'
    <3>0. stage'[e] = stage[e] /\ leg'[e][x] = leg[e][x] /\ request'[e] = request[e] /\ Targets(e)' = Targets(e)
      BY <1>13 DEF Drops, SameCalls, Targets
    <3>1. CASE x = d
      <4>1. lossy'[d]
        BY <1>13 DEF Drops
      <4>2. QED
        BY <1>1, <3>0, <3>1, <4>1 DEF LegOK
    <3>2. CASE x # d
      <4>1. inbox'[x] = inbox[x]
        BY <1>13, <3>2 DEF Drops
      <4>2. QED
        BY <1>0, <1>1, <3>0, <4>1, LegKept
    <3>3. QED
      BY <3>1, <3>2
  <2>2. \A x \in Devices : connected'[x] \/ lossy'[x]
    BY <1>0, <1>2, <1>13 DEF Drops
  <2>3. QED
    BY <2>1, <2>2 DEF Legs
<1>14. ASSUME NEW d \in Devices, NEW m \in Modes, Joins(d, m)
       PROVE  Legs'
  <2>1. ASSUME NEW e \in Calls, NEW x \in Devices PROVE LegOK(e, x)'
    <3>1. stage'[e] = stage[e] /\ leg'[e][x] = leg[e][x] /\ request'[e] = request[e]
          /\ (inbox'[x] = inbox[x] \/ inbox'[x] = Append(inbox[x], ModePacket(NoCall, m)))
      BY <1>14 DEF Joins, SameCalls
    <3>2. \A i \in 1..Len(inbox[x]) : \E j \in 1..Len(inbox'[x]) : inbox'[x][j] = inbox[x][i]
      BY <1>0, <3>1, AppendStays
    <3>3. QED
      BY <1>0, <1>1, <3>1, <3>2, LegKept
  <2>2. \A x \in Devices : connected'[x] \/ lossy'[x]
    BY <1>0, <1>2, <1>14 DEF Joins
  <2>3. QED
    BY <2>1, <2>2 DEF Legs
<1>15. ASSUME Rests
       PROVE  Legs'
  <2>1. ASSUME NEW e \in Calls, NEW x \in Devices PROVE LegOK(e, x)'
    <3>1. stage'[e] = stage[e] /\ leg'[e][x] = leg[e][x] /\ request'[e] = request[e] /\ inbox'[x] = inbox[x]
      BY <1>15 DEF Rests, SameCalls
    <3>2. QED
      BY <1>0, <1>1, <3>1, LegKept
  <2>2. QED
    BY <1>0, <1>2, <1>15, <2>1 DEF Legs, Rests, SameDisplays
<1>16. QED
  BY <1>4, <1>6, <1>7, <1>8, <1>9, <1>10, <1>11, <1>12, <1>13, <1>14, <1>15, StepKinds

-----------------------------------------------------------------------------
(* The two copies of a record agree, and hold what was saved last.         *)

RecordsAgree(d) == lossy[d] \/ cached[d].timer = relational[d]

Saved(c, d) == d \in Targets(c) /\ stage[c] = "saving_timer" /\ leg[c][d] = "saved"

Records == /\ \A d \in Devices : RecordsAgree(d)
           /\ \A c \in Calls, d \in Devices : Saved(c, d) => lossy[d] \/ cached[d].timer = timers[c][d]

LEMMA SavedRuns ==
  ASSUME NEW c, NEW d, Saved(c, d)
  PROVE  Running(c)
  BY DEF Saved, Running

LEMMA RecordsKept ==
  ASSUME Records, SameRecords, \A d \in Devices : lossy[d] => lossy'[d],
         \A e \in Calls, x \in Devices : Saved(e, x)' => Saved(e, x) /\ timers'[e][x] = timers[e][x]
  PROVE  Records'
  BY DEF Records, RecordsAgree, SameRecords

LEMMA RecordsKeptByCall ==
  ASSUME Records, SameRecords, \A d \in Devices : lossy[d] => lossy'[d], NEW c \in Calls, OnlyCall(c),
         \A x \in Devices : ~Saved(c, x)'
  PROVE  Records'
<1>1. \A e \in Calls, x \in Devices : Saved(e, x)' => Saved(e, x) /\ timers'[e][x] = timers[e][x]
  BY DEF OnlyCall, Saved, Targets
<1>2. QED
  BY <1>1, RecordsKept

LEMMA StepRecords == Core /\ Legs /\ Records /\ [Next]_vars => Records'
<1> SUFFICES ASSUME Core, Legs, Records, [Next]_vars PROVE Records'
  OBVIOUS
<1>0. TypeInv /\ TypeOK /\ PersistQueues /\ Queues /\ \A d \in Devices : lossy[d] => lossy'[d]
  BY LossyKept DEF Core, TypeInv
<1>1. ASSUME NEW c \in Calls, OnlyCall(c), SameRecords, stage'[c] # "saving_timer"
      PROVE  Records'
  BY <1>0, <1>1, RecordsKeptByCall DEF Saved
<1>2. ASSUME NEW c \in Calls, Moves(c) \/ SendsTimer(c) \/ \E m \in Modes : SendsMode(c, m)
      PROVE  Records'
  BY <1>1, <1>2 DEF Moves, SendsTimer, SendsMode, TimerStages
<1>3. ASSUME NEW c \in Calls, StartsSaving(c)
      PROVE  Records'
  <2>1. CASE stage[c] = "mode"
    BY <1>1, <1>3, <2>1 DEF StartsSaving
  <2>2. CASE stage[c] = "state"
    <3>1. \A x \in Devices : x \in Targets(c) => leg[c][x] # "saved"
      BY <2>2 DEF Legs, LegOK
    <3>2. \A x \in Devices : ~Saved(c, x)'
      BY <1>3, <3>1 DEF StartsSaving, Saved, Targets
    <3>3. QED
      BY <1>0, <1>3, <3>2, RecordsKeptByCall DEF StartsSaving
  <2>3. QED
    BY <1>3, <2>1, <2>2 DEF StartsSaving, Answered
\* c has the display d to itself.
<1>4. ASSUME NEW c \in Calls, NEW d \in Devices, d \in Targets(c), Running(c),
             UNCHANGED request,
             \A e \in Calls \ {c} : stage'[e] = stage[e] /\ leg'[e] = leg[e] /\ timers'[e] = timers[e],
             \A x \in Devices \ {d} : /\ cached'[x].timer = cached[x].timer /\ relational'[x] = relational[x]
                                      /\ Saved(c, x)' => Saved(c, x) /\ timers'[c][x] = timers[c][x],
             RecordsAgree(d)', Saved(c, d)' => lossy'[d] \/ cached'[d].timer = timers'[c][d]
      PROVE  Records'
  <2>1. ASSUME NEW e \in Calls, NEW x \in Devices, Saved(e, x)'
        PROVE  lossy'[x] \/ cached'[x].timer = timers'[e][x]
    <3>1. CASE x # d
      <4>1. Saved(e, x) /\ timers'[e][x] = timers[e][x] /\ cached'[x].timer = cached[x].timer
        BY <1>4, <2>1, <3>1 DEF Saved, Targets
      <4>2. QED
        BY <1>0, <4>1 DEF Records
    <3>2. CASE x = d /\ e = c
      BY <1>4, <2>1, <3>2
    <3>3. CASE x = d /\ e # c
      <4>1. Saved(e, d) /\ d \in Targets(e)
        BY <1>4, <2>1, <3>3 DEF Saved, Targets
      <4>2. Running(e)
        BY <4>1, SavedRuns
      <4>3. QED
        BY <1>0, <1>4, <3>3, <4>1, <4>2, Exclusive
    <3>4. QED
      BY <3>1, <3>2, <3>3
  <2>2. \A x \in Devices : RecordsAgree(x)'
    BY <1>0, <1>4 DEF Records, RecordsAgree
  <2>3. QED
    BY <2>1, <2>2 DEF Records
<1>5. ASSUME NEW c \in Calls, NEW d \in Devices, NEW t \in Timer, Posts(c, d, t)
      PROVE  Records'
  <2>1. /\ d \in Targets(c) /\ Running(c) /\ UNCHANGED request /\ RecordsAgree(d)'
        /\ \A e \in Calls \ {c} : stage'[e] = stage[e] /\ leg'[e] = leg[e] /\ timers'[e] = timers[e]
        /\ \A x \in Devices \ {d} : cached'[x].timer = cached[x].timer /\ relational'[x] = relational[x]
    BY <1>5 DEF Posts, Running, RecordsAgree
  <2>2. \A x \in Devices : ~Saved(c, x)'
    BY <1>5 DEF Posts, Saved
  <2>3. QED
    BY <1>4, <2>1, <2>2
<1>6. ASSUME NEW c \in Calls, NEW d \in Devices, Saves(c, d)
      PROVE  Records'
  <2>0. /\ UNCHANGED <<request, stage, timers>> /\ d \in Targets(c)
        /\ \A e \in Calls, x \in Devices : leg'[e][x] = IF e = c /\ x = d THEN "saved" ELSE leg[e][x]
    BY <1>6 DEF Saves, SameCalls
  <2>1. CASE stage[c] = "saving_mode"
    <3>1. \A e \in Calls, x \in Devices : Saved(e, x)' => Saved(e, x) /\ timers'[e][x] = timers[e][x]
      BY <2>0, <2>1 DEF Saved, Targets
    <3>2. SameRecords
      BY <1>6, <2>1 DEF Saves, SameRecords
    <3>3. QED
      BY <1>0, <3>1, <3>2, RecordsKept
  <2>2. CASE stage[c] = "saving_timer"
    <3>1. /\ \A x \in Devices \ {d} : cached'[x].timer = cached[x].timer /\ relational'[x] = relational[x]
          /\ (cached'[d].timer = timers[c][d] /\ relational'[d] = timers[c][d]) \/ lossy'[d]
      BY <1>6, <2>2 DEF Saves
    <3>2. \A e \in Calls \ {c} : leg'[e] = leg[e]
      <4>1. leg \in [Calls -> [Devices -> LegStates]] /\ leg' \in [Calls -> [Devices -> LegStates]]
        BY <1>0, StepTypeInv DEF TypeInv, TypeOK, LegStates
      <4>2. QED
        BY <2>0, <4>1
    <3>3. \A x \in Devices \ {d} : Saved(c, x)' => Saved(c, x) /\ timers'[c][x] = timers[c][x]
      BY <2>0 DEF Saved, Targets
    <3>4. RecordsAgree(d)' /\ (Saved(c, d)' => lossy'[d] \/ cached'[d].timer = timers'[c][d])
      BY <2>0, <3>1 DEF RecordsAgree
    <3>5. Running(c)
      BY <2>2 DEF Running
    <3>6. QED
      BY <1>4, <2>0, <3>1, <3>2, <3>3, <3>4, <3>5
  <2>3. QED
    BY <1>6, <2>1, <2>2 DEF Saves
<1>7. ASSUME SameCalls, SameRecords, \A e \in Calls, x \in Devices : leg'[e][x] = "saved" => leg[e][x] = "saved"
      PROVE  Records'
  <2>1. \A e \in Calls, x \in Devices : Saved(e, x)' => Saved(e, x) /\ timers'[e][x] = timers[e][x]
    BY <1>7 DEF SameCalls, Saved, Targets
  <2>2. QED
    BY <1>0, <1>7, <2>1, RecordsKept
<1>8. ASSUME NEW c \in Calls, NEW d \in Devices, GivesUp(c, d)
      PROVE  Records'
  BY <1>7, <1>8 DEF GivesUp
<1>9. ASSUME NEW d \in Devices, Receives(d) \/ Drops(d) \/ \E m \in Modes : Joins(d, m)
      PROVE  Records'
  <2>1. \A e \in Calls, x \in Devices : leg'[e][x] = "saved" => leg[e][x] = "saved"
    BY <1>9 DEF Receives, Drops, Joins
  <2>2. SameCalls /\ SameRecords
    BY <1>9 DEF Receives, Drops, Joins
  <2>3. QED
    BY <1>7, <2>1, <2>2
<1>10. ASSUME Rests PROVE Records'
  BY <1>7, <1>10 DEF Rests
<1>11. QED
  BY <1>0, <1>2, <1>3, <1>5, <1>6, <1>8, <1>9, <1>10, StepKinds

-----------------------------------------------------------------------------
(* The packets of a call, while nobody else may send to its displays.      *)

Showing(c, d) == stage[c] \in TimerStages /\ d \in Targets(c)

\* No timer is on its way to d behind the packet at place k.
NoTimerAfter(d, k) == \A j \in (k + 1)..Len(inbox[d]) : inbox[d][j].event # "state"

OwnPackets(c, d) ==
  \A i \in 1..Len(inbox[d]) : inbox[d][i].event = "state" /\ inbox[d][i].call = c =>
    /\ stage[c] \in TimerStages \cup {"succeeded", "failed"}
    /\ Showing(c, d) => inbox[d][i].timer = timers[c][d] /\ NoTimerAfter(d, i)

Confirmed(c, d) == Showing(c, d) /\ leg[c][d] \in {"ok", "waiting", "saved"}

Shown(c, d) == OwnPackets(c, d) /\ (Confirmed(c, d) => agentTimer[d] = timers[c][d] /\ NoTimerAfter(d, 0))

Packets == \A c \in Calls, d \in Devices : Shown(c, d)

LEMMA ShowingRuns ==
  ASSUME NEW c, NEW d, Showing(c, d)
  PROVE  Running(c) /\ d \in Targets(c)
  BY DEF Showing, Running, TimerStages

\* No timer is sent to d.
LEMMA ShownKept ==
  ASSUME TypeOK, NEW c \in Calls, NEW d \in Devices, Shown(c, d),
         NEW p, p.event = "mode", inbox'[d] = inbox[d] \/ inbox'[d] = Append(inbox[d], p),
         stage[c] \in TimerStages \cup {"succeeded", "failed"} => stage'[c] \in TimerStages \cup {"succeeded", "failed"},
         Showing(c, d)' => Showing(c, d) /\ timers'[c][d] = timers[c][d],
         Confirmed(c, d)' => Confirmed(c, d) /\ agentTimer'[d] = agentTimer[d]
  PROVE  Shown(c, d)'
<1>1. inbox[d] \in Seq(Packet) /\ Len(inbox[d]) \in Nat
  BY DEF TypeOK
<1>2. /\ Len(inbox'[d]) \in {Len(inbox[d]), Len(inbox[d]) + 1}
      /\ \A i \in 1..Len(inbox[d]) : inbox'[d][i] = inbox[d][i]
      /\ \A i \in 1..Len(inbox'[d]) : inbox'[d][i].event = "state" => i \in 1..Len(inbox[d])
  <2>1. CASE inbox'[d] = inbox[d]
    BY <1>1, <2>1
  <2>2. CASE inbox'[d] = Append(inbox[d], p)
    BY <1>1, <2>2
  <2>3. QED
    BY <2>1, <2>2
<1>3. \A k \in Nat : NoTimerAfter(d, k) => NoTimerAfter(d, k)'
  BY <1>1, <1>2 DEF NoTimerAfter
<1>4. OwnPackets(c, d)'
  <2> SUFFICES ASSUME NEW i \in 1..Len(inbox'[d]), inbox'[d][i].event = "state", inbox'[d][i].call = c
               PROVE  /\ stage'[c] \in TimerStages \cup {"succeeded", "failed"}
                      /\ Showing(c, d)' => inbox'[d][i].timer = timers'[c][d] /\ NoTimerAfter(d, i)'
    BY DEF OwnPackets
  <2>1. i \in 1..Len(inbox[d]) /\ inbox'[d][i] = inbox[d][i] /\ i \in Nat
    BY <1>2
  <2>2. /\ stage[c] \in TimerStages \cup {"succeeded", "failed"}
        /\ Showing(c, d) => inbox[d][i].timer = timers[c][d] /\ NoTimerAfter(d, i)
    BY <2>1 DEF Shown, OwnPackets
  <2>3. QED
    BY <1>3, <2>1, <2>2
<1>5. Confirmed(c, d)' => agentTimer'[d] = timers'[c][d] /\ NoTimerAfter(d, 0)'
  BY <1>3 DEF Shown, Confirmed
<1>6. QED
  BY <1>4, <1>5 DEF Shown

\* A timer of another call is sent to d, which is not a display of c.
LEMMA ShownBeside ==
  ASSUME TypeOK, NEW c \in Calls, NEW d \in Devices, Shown(c, d), ~Showing(c, d)',
         NEW p, p.call # c, inbox'[d] = inbox[d] \/ inbox'[d] = Append(inbox[d], p),
         stage[c] \in TimerStages \cup {"succeeded", "failed"} => stage'[c] \in TimerStages \cup {"succeeded", "failed"}
  PROVE  Shown(c, d)'
<1>1. inbox[d] \in Seq(Packet) /\ Len(inbox[d]) \in Nat
  BY DEF TypeOK
<1>2. \A i \in 1..Len(inbox'[d]) : inbox'[d][i].call = c => i \in 1..Len(inbox[d]) /\ inbox'[d][i] = inbox[d][i]
  <2>1. CASE inbox'[d] = inbox[d]
    BY <1>1, <2>1
  <2>2. CASE inbox'[d] = Append(inbox[d], p)
    BY <1>1, <2>2
  <2>3. QED
    BY <2>1, <2>2
<1>3. OwnPackets(c, d)'
  BY <1>2 DEF Shown, OwnPackets
<1>4. QED
  BY <1>3 DEF Shown, Confirmed

LEMMA StepPackets == Core /\ Legs /\ Packets /\ [Next]_vars => Packets'
<1> SUFFICES ASSUME Core, Legs, Packets, [Next]_vars PROVE Packets'
  OBVIOUS
<1>0. TypeInv /\ TypeOK /\ PersistQueues /\ Queues
  BY DEF Core, TypeInv
<1>1. ASSUME NEW c \in Calls, Moves(c)
      PROVE  Packets'
  <2> SUFFICES ASSUME NEW e \in Calls, NEW x \in Devices PROVE Shown(e, x)'
    BY DEF Packets
  <2>0. Shown(e, x) /\ inbox' = inbox /\ agentTimer' = agentTimer /\ timers' = timers
    BY <1>1 DEF Packets, Moves, SameDisplays
  <2>1. CASE e = c
    <3>1. stage[c] \in TimerStages \cup {"succeeded", "failed"} => stage'[c] \in TimerStages \cup {"succeeded", "failed"}
      BY <1>1 DEF Moves
    <3>2. ~Showing(c, x)'
      BY <1>1 DEF Moves, Showing
    <3>3. QED
      BY <1>0, <2>0, <2>1, <3>1, <3>2 DEF Shown, OwnPackets, Confirmed
  <2>2. CASE e # c
    <3>1. stage'[e] = stage[e] /\ leg'[e] = leg[e] /\ request'[e] = request[e]
      BY <1>1, <2>2 DEF Moves, OnlyCall
    <3>2. QED
      BY <2>0, <3>1 DEF Shown, OwnPackets, Confirmed, Showing, Targets, NoTimerAfter
  <2>3. QED
    BY <2>1, <2>2
<1>2. ASSUME NEW c \in Calls, NEW m \in Modes, SendsMode(c, m)
      PROVE  Packets'
  <2> SUFFICES ASSUME NEW e \in Calls, NEW x \in Devices PROVE Shown(e, x)'
    BY DEF Packets
  <2>0. /\ Shown(e, x) /\ ModePacket(c, m).event = "mode" /\ agentTimer' = agentTimer
        /\ inbox'[x] = inbox[x] \/ inbox'[x] = Append(inbox[x], ModePacket(c, m))
    BY <1>2 DEF Packets, ModePacket, SendsMode, Emits, SameDisplays
  <2>1. CASE e = c
    <3>1. stage[c] \notin TimerStages \cup {"succeeded", "failed"} /\ ~Showing(c, x)'
      BY <1>2 DEF SendsMode, TimerStages, Showing
    <3>2. QED
      BY <1>0, <2>0, <2>1, <3>1, ShownKept DEF Confirmed
  <2>2. CASE e # c
    <3>1. stage'[e] = stage[e] /\ leg'[e] = leg[e] /\ request'[e] = request[e] /\ timers'[e] = timers[e]
      BY <1>2, <2>2 DEF SendsMode, OnlyCall
    <3>2. (Showing(e, x)' <=> Showing(e, x)) /\ (Confirmed(e, x)' <=> Confirmed(e, x))
      BY <3>1 DEF Showing, Confirmed, Targets
    <3>3. QED
      BY <1>0, <2>0, <3>1, <3>2, ShownKept
  <2>3. QED
    BY <2>1, <2>2
<1>3. ASSUME NEW c \in Calls, SendsTimer(c)
      PROVE  Packets'
  <2> SUFFICES ASSUME NEW e \in Calls, NEW x \in Devices PROVE Shown(e, x)'
    BY DEF Packets
  <2>0. /\ Shown(e, x) /\ timers' = timers /\ agentTimer' = agentTimer /\ Targets(c)' = Targets(c)
        /\ inbox'[x] = IF x \in Targets(c) /\ connected[x] THEN Append(inbox[x], StatePacket(c, timers[c][x])) ELSE inbox[x]
    BY <1>3 DEF Packets, SendsTimer, Emits, SameDisplays, Targets
  <2>1. CASE e = c
    <3>1. stage[c] \notin TimerStages \cup {"succeeded", "failed"} /\ stage'[c] = "state"
      BY <1>3 DEF SendsTimer, TimerStages
    <3>2. \A i \in 1..Len(inbox[x]) : ~(inbox[x][i].event = "state" /\ inbox[x][i].call = c)
      BY <2>0, <2>1, <3>1 DEF Shown, OwnPackets
    <3>3. inbox[x] \in Seq(Packet) /\ Len(inbox[x]) \in Nat
      BY <1>0 DEF TypeOK
    <3>4. \A i \in 1..Len(inbox'[x]) : inbox'[x][i].event = "state" /\ inbox'[x][i].call = c =>
            i = Len(inbox'[x]) /\ inbox'[x][i].timer = timers[c][x]
      <4>1. CASE inbox'[x] = inbox[x]
        BY <3>2, <4>1
      <4>2. CASE inbox'[x] = Append(inbox[x], StatePacket(c, timers[c][x]))
        <5>0. PICK p : p = StatePacket(c, timers[c][x])
          OBVIOUS
        <5>1. p.timer = timers[c][x] /\ p \in Packet
          BY <1>0, <5>0, PacketTypes DEF StatePacket, TypeOK
        <5>2. Len(inbox'[x]) = Len(inbox[x]) + 1 /\ inbox'[x][Len(inbox[x]) + 1] = p
              /\ \A i \in 1..Len(inbox[x]) : inbox'[x][i] = inbox[x][i]
          BY <3>3, <4>2, <5>0, <5>1, AppendFacts
        <5>3. QED
          <6> SUFFICES ASSUME NEW i \in 1..Len(inbox'[x]), inbox'[x][i].event = "state", inbox'[x][i].call = c
                       PROVE  i = Len(inbox'[x]) /\ inbox'[x][i].timer = timers[c][x]
            OBVIOUS
          <6>1. i = Len(inbox[x]) + 1
            BY <3>2, <3>3, <5>2
          <6>2. QED
            BY <5>1, <5>2, <6>1
      <4>3. QED
        BY <2>0, <4>1, <4>2
    <3>5. NoTimerAfter(x, Len(inbox[x]))'
      <4>1. Len(inbox'[x]) \in Nat
        BY <2>0, <3>3
      <4>2. QED
        BY <4>1 DEF NoTimerAfter
    <3>6. OwnPackets(c, x)'
      <4>1. \A i \in 1..Len(inbox'[x]) : i = Len(inbox'[x]) => NoTimerAfter(x, i)'
        BY <3>5
      <4>2. QED
        BY <2>0, <3>1, <3>4, <4>1 DEF OwnPackets, TimerStages
    <3>7. ~Confirmed(c, x)'
      BY <1>3, <2>0 DEF SendsTimer, Emits, Confirmed, Showing
    <3>8. QED
      BY <2>1, <3>6, <3>7 DEF Shown
  <2>2. CASE e # c
    <3>1. stage'[e] = stage[e] /\ leg'[e] = leg[e] /\ request'[e] = request[e] /\ timers'[e] = timers[e]
      BY <1>3, <2>2 DEF SendsTimer, OnlyCall
    <3>2. (Showing(e, x)' <=> Showing(e, x)) /\ (Confirmed(e, x)' <=> Confirmed(e, x))
      BY <3>1 DEF Showing, Confirmed, Targets
    <3>3. CASE Showing(e, x)
      <4>1. Running(c)
        BY <1>3 DEF SendsTimer, Running
      <4>2. x \notin Targets(c)
        BY <1>0, <2>2, <3>3, <4>1, ShowingRuns, Exclusive
      <4>3. inbox'[x] = inbox[x]
        BY <2>0, <4>2
      <4>4. ModePacket(c, NoMode).event = "mode"
        BY DEF ModePacket
      <4>5. QED
        BY <1>0, <2>0, <3>1, <3>2, <4>3, <4>4, ShownKept
    <3>4. CASE ~Showing(e, x)
      <4>1. StatePacket(c, timers[c][x]).call # e
        BY <2>2 DEF StatePacket
      <4>2. QED
        BY <1>0, <2>0, <3>1, <3>2, <3>4, <4>1, ShownBeside
    <3>5. QED
      BY <3>3, <3>4
  <2>3. QED
    BY <2>1, <2>2
\* Nothing is sent.
<1>4. ASSUME NEW e \in Calls, NEW x \in Devices, inbox'[x] = inbox[x], agentTimer'[x] = agentTimer[x],
             stage[e] \in TimerStages \cup {"succeeded", "failed"} => stage'[e] \in TimerStages \cup {"succeeded", "failed"},
             Showing(e, x)' => Showing(e, x) /\ timers'[e][x] = timers[e][x],
             Confirmed(e, x)' => Confirmed(e, x)
      PROVE  Shown(e, x)'
  <2>1. ModePacket(e, NoMode).event = "mode"
    BY DEF ModePacket
  <2>2. Confirmed(e, x)' => Confirmed(e, x) /\ agentTimer'[x] = agentTimer[x]
    BY <1>4
  <2>3. QED
    BY <1>0, <1>4, <2>1, <2>2, ShownKept DEF Packets
<1>5. ASSUME NEW c \in Calls, StartsSaving(c)
      PROVE  Packets'
  <2> SUFFICES ASSUME NEW e \in Calls, NEW x \in Devices PROVE Shown(e, x)'
    BY DEF Packets
  <2>0. inbox' = inbox /\ agentTimer' = agentTimer /\ UNCHANGED <<request, timers>>
    BY <1>5 DEF StartsSaving, SameDisplays
  <2>1. CASE e = c
    <3>1. (stage[c] = "mode" /\ stage'[c] = "saving_mode") \/ (stage[c] = "state" /\ stage'[c] = "saving_timer")
      BY <1>5 DEF StartsSaving, Answered
    <3>2. Showing(c, x)' => Showing(c, x)
      BY <2>0, <3>1 DEF Showing, TimerStages, Targets
    <3>3. Confirmed(c, x)' => Confirmed(c, x)
      BY <1>5, <3>2 DEF Confirmed, StartsSaving
    <3>4. stage[c] \in TimerStages \cup {"succeeded", "failed"} => stage'[c] \in TimerStages \cup {"succeeded", "failed"}
      BY <3>1 DEF TimerStages
    <3>5. QED
      BY <1>4, <2>0, <2>1, <3>2, <3>3, <3>4
  <2>2. CASE e # c
    <3>1. stage'[e] = stage[e] /\ leg'[e] = leg[e]
      BY <1>5, <2>2 DEF StartsSaving, OnlyCall
    <3>2. (Showing(e, x)' <=> Showing(e, x)) /\ (Confirmed(e, x)' <=> Confirmed(e, x))
      BY <2>0, <3>1 DEF Showing, Confirmed, Targets
    <3>3. QED
      BY <1>4, <2>0, <3>1, <3>2
  <2>3. QED
    BY <2>1, <2>2
<1>6. ASSUME NEW c \in Calls, NEW d \in Devices, NEW t \in Timer, Posts(c, d, t)
      PROVE  Packets'
  <2> SUFFICES ASSUME NEW e \in Calls, NEW x \in Devices PROVE Shown(e, x)'
    BY DEF Packets
  <2>0. /\ agentTimer' = agentTimer /\ UNCHANGED <<request, leg>> /\ Running(c) /\ d \in Targets(c)
        /\ stage[c] = "posting" /\ stage'[c] = "succeeded"
        /\ \A f \in Calls \ {c} : stage'[f] = stage[f] /\ timers'[f] = timers[f]
        /\ inbox'[x] = inbox[x] \/ (x = d /\ inbox'[x] = Append(inbox[x], StatePacket(NoCall, t)))
    BY <1>6 DEF Posts, SameDisplays, Running
  <2>1. stage[e] \in TimerStages \cup {"succeeded", "failed"} => stage'[e] \in TimerStages \cup {"succeeded", "failed"}
    BY <2>0
  <2>2. (Showing(e, x)' => Showing(e, x) /\ timers'[e][x] = timers[e][x]) /\ (Confirmed(e, x)' => Confirmed(e, x))
    BY <2>0 DEF Showing, Confirmed, Targets, TimerStages
  <2>3. CASE inbox'[x] = inbox[x]
    BY <1>4, <2>0, <2>1, <2>2, <2>3
  <2>4. CASE x = d /\ inbox'[x] = Append(inbox[x], StatePacket(NoCall, t))
    <3>1. ~Showing(e, d)
      <4>1. CASE e = c
        BY <2>0, <4>1 DEF Showing, TimerStages
      <4>2. CASE e # c
        BY <1>0, <2>0, <4>2, ShowingRuns, Exclusive
      <4>3. QED
        BY <4>1, <4>2
    <3>2. StatePacket(NoCall, t).call # e
      BY CommandAssumption DEF StatePacket
    <3>3. QED
      BY <1>0, <2>0, <2>1, <2>2, <2>4, <3>1, <3>2, ShownBeside DEF Packets
  <2>5. QED
    BY <2>0, <2>3, <2>4
<1>7. ASSUME NEW c \in Calls, NEW d \in Devices, GivesUp(c, d) \/ Saves(c, d)
      PROVE  Packets'
  <2> SUFFICES ASSUME NEW e \in Calls, NEW x \in Devices PROVE Shown(e, x)'
    BY DEF Packets
  <2>0. /\ inbox' = inbox /\ agentTimer' = agentTimer /\ UNCHANGED <<request, timers, stage>>
        /\ leg'[e][x] \in {"ok", "waiting", "saved"} => leg[e][x] \in {"ok", "waiting", "saved"}
    BY <1>7 DEF GivesUp, Saves, SameCalls, SameDisplays
  <2>1. (Showing(e, x)' => Showing(e, x)) /\ (Confirmed(e, x)' => Confirmed(e, x))
    BY <2>0 DEF Showing, Confirmed, Targets
  <2>2. QED
    BY <1>4, <2>0, <2>1
<1>8. ASSUME NEW d \in Devices, Receives(d)
      PROVE  Packets'
  <2> SUFFICES ASSUME NEW e \in Calls, NEW x \in Devices PROVE Shown(e, x)'
    BY DEF Packets
  <2>0. UNCHANGED <<request, timers, stage>> /\ Shown(e, x)
    BY <1>8 DEF Receives, SameCalls, Packets
  <2>1. Showing(e, x)' <=> Showing(e, x)
    BY <2>0 DEF Showing, Targets
  <2>2. CASE x # d
    <3>1. inbox'[x] = inbox[x] /\ agentTimer'[x] = agentTimer[x] /\ leg'[e][x] = leg[e][x]
      BY <1>8, <2>2 DEF Receives
    <3>2. QED
      BY <1>4, <2>0, <2>1, <3>1 DEF Confirmed
  <2>3. CASE x = d
    <3>0. inbox[d] \in Seq(Packet) /\ inbox[d] # <<>> /\ inbox'[d] = Tail(inbox[d]) /\ inbox[d][1] \in Packet
      BY <1>0, <1>8 DEF Receives, TypeOK
    <3>1. /\ Len(inbox[d]) \in Nat \ {0} /\ Len(inbox'[d]) = Len(inbox[d]) - 1
          /\ \A i \in 1..Len(inbox'[d]) : i + 1 \in 1..Len(inbox[d]) /\ inbox'[d][i] = inbox[d][i + 1]
      BY <3>0, TailFacts
    <3>2. \A k \in Nat : NoTimerAfter(d, k + 1) => NoTimerAfter(d, k)'
      BY <3>1 DEF NoTimerAfter
    <3>3. NoTimerAfter(d, 0) => NoTimerAfter(d, 1) /\ inbox[d][1].event # "state"
      BY <3>1 DEF NoTimerAfter
    <3>4. OwnPackets(e, d)'
      <4> SUFFICES ASSUME NEW i \in 1..Len(inbox'[d]), inbox'[d][i].event = "state", inbox'[d][i].call = e
                   PROVE  /\ stage'[e] \in TimerStages \cup {"succeeded", "failed"}
                          /\ Showing(e, d)' => inbox'[d][i].timer = timers'[e][d] /\ NoTimerAfter(d, i)'
        BY DEF OwnPackets
      <4>1. i + 1 \in 1..Len(inbox[d]) /\ inbox'[d][i] = inbox[d][i + 1] /\ i \in Nat
        BY <3>1
      <4>2. /\ stage[e] \in TimerStages \cup {"succeeded", "failed"}
            /\ Showing(e, d) => inbox[d][i + 1].timer = timers[e][d] /\ NoTimerAfter(d, i + 1)
        BY <2>0, <2>3, <4>1 DEF Shown, OwnPackets
      <4>3. QED
        BY <2>0, <2>1, <2>3, <3>2, <4>1, <4>2
    <3>5. ASSUME Confirmed(e, d)'
          PROVE  agentTimer'[d] = timers'[e][d] /\ NoTimerAfter(d, 0)'
      <4>0. Showing(e, d) /\ leg'[e][d] \in {"ok", "waiting", "saved"}
        BY <2>1, <2>3, <3>5 DEF Confirmed
      <4>1. CASE leg'[e][d] = leg[e][d]
        <5>1. agentTimer[d] = timers[e][d] /\ NoTimerAfter(d, 0)
          BY <2>0, <2>3, <4>0, <4>1 DEF Shown, Confirmed
        <5>2. inbox[d][1].event = "mode"
          BY <3>0, <3>3, <5>1 DEF Packet
        <5>3. agentTimer'[d] = agentTimer[d]
          BY <1>8, <5>2 DEF Receives
        <5>4. NoTimerAfter(d, 0)'
          BY <3>2, <3>3, <5>1
        <5>5. QED
          BY <2>0, <5>1, <5>3, <5>4
      <4>2. CASE leg'[e][d] # leg[e][d]
        <5>1. Awaits(e, d) /\ leg'[e][d] = "ok"
          BY <1>8, <4>0, <4>2 DEF Receives
        <5>2. inbox[d][1].event = "state" /\ inbox[d][1].call = e
          BY <3>0, <4>0, <5>1 DEF Awaits, Packet, Showing, TimerStages
        <5>3. inbox[d][1].timer = timers[e][d] /\ NoTimerAfter(d, 1)
          BY <2>0, <2>3, <3>1, <4>0, <5>2 DEF Shown, OwnPackets
        <5>4. agentTimer'[d] = inbox[d][1].timer
          BY <1>8, <5>1, <5>2 DEF Receives
        <5>5. NoTimerAfter(d, 0)'
          BY <3>2, <5>3
        <5>6. QED
          BY <2>0, <5>3, <5>4, <5>5
      <4>3. QED
        BY <4>1, <4>2
    <3>6. QED
      BY <2>3, <3>4, <3>5 DEF Shown
  <2>4. QED
    BY <2>2, <2>3
<1>9. ASSUME NEW d \in Devices, Drops(d) \/ \E m \in Modes : Joins(d, m)
      PROVE  Packets'
  <2> SUFFICES ASSUME NEW e \in Calls, NEW x \in Devices PROVE Shown(e, x)'
    BY DEF Packets
  <2>0. UNCHANGED <<request, timers, stage, leg, agentTimer>> /\ Shown(e, x)
    BY <1>9 DEF Drops, Joins, SameCalls, Packets
  <2>1. (Showing(e, x)' <=> Showing(e, x)) /\ (Confirmed(e, x)' <=> Confirmed(e, x))
    BY <2>0 DEF Showing, Confirmed, Targets
  <2>2. CASE inbox'[x] = <<>>
    <3>1. Len(inbox'[x]) = 0
      BY <2>2
    <3>2. OwnPackets(e, x)' /\ NoTimerAfter(x, 0)'
      BY <3>1 DEF OwnPackets, NoTimerAfter
    <3>3. QED
      BY <2>0, <2>1, <3>2 DEF Shown
  <2>3. CASE \E p : p.event = "mode" /\ (inbox'[x] = inbox[x] \/ inbox'[x] = Append(inbox[x], p))
    BY <1>0, <2>0, <2>1, <2>3, ShownKept
  <2>4. \A m : ModePacket(NoCall, m).event = "mode"
    BY DEF ModePacket
  <2>5. inbox'[x] = <<>> \/ \E p : p.event = "mode" /\ (inbox'[x] = inbox[x] \/ inbox'[x] = Append(inbox[x], p))
    BY <1>9, <2>4 DEF Drops, Joins
  <2>6. QED
    BY <2>2, <2>3, <2>5
<1>10. ASSUME Rests PROVE Packets'
  <2> SUFFICES ASSUME NEW e \in Calls, NEW x \in Devices PROVE Shown(e, x)'
    BY DEF Packets
  <2>0. UNCHANGED <<request, timers, stage, leg, agentTimer, inbox>>
    BY <1>10 DEF Rests, SameCalls, SameDisplays
  <2>1. (Showing(e, x)' <=> Showing(e, x)) /\ (Confirmed(e, x)' <=> Confirmed(e, x))
    BY <2>0 DEF Showing, Confirmed, Targets
  <2>2. QED
    BY <1>4, <2>0, <2>1
<1>11. QED
  BY <1>0, <1>1, <1>2, <1>3, <1>5, <1>6, <1>7, <1>8, <1>9, <1>10, StepKinds

-----------------------------------------------------------------------------
(* What a display shows, and what it is about to show.  Place 0 is the     *)
(* display itself, place k its k-th packet on the way.                     *)

Places(d) == 0..Len(inbox[d])
Shows(d, k) == k = 0 \/ inbox[d][k].event = "state"
TimerAt(d, k) == IF k = 0 THEN agentTimer[d] ELSE inbox[d][k].timer

\* Behind place i the display is sent the default timer, at place k at the latest.
Defaulted(d, i, k) == \E j \in (i + 1)..k : Shows(d, j) /\ TimerAt(d, j) = NoTimer

\* The last timer is t, and the sequences do not go back on the way to it.
Screen(d, t) ==
  /\ \A k \in Places(d) : Shows(d, k) => TimerAt(d, k).seq =< t.seq \/ Defaulted(d, k, Len(inbox[d]))
  /\ \A k \in Places(d) : Shows(d, k) /\ NoTimerAfter(d, k) => TimerAt(d, k) = t
  /\ \A i, k \in Places(d) : i < k /\ Shows(d, i) /\ Shows(d, k) =>
       TimerAt(d, i).seq =< TimerAt(d, k).seq \/ Defaulted(d, i, k)

\* The timer that was sent last: that of the call that is at it, or the one on record.
Top(d, t) == \/ \E c \in Calls : Showing(c, d) /\ t = timers[c][d]
             \/ t = cached[d].timer /\ \A c \in Calls : ~Showing(c, d)

Screens == \A d \in Devices, t \in Timer : ~lossy[d] /\ Top(d, t) => Screen(d, t)

LEMMA PlaceFacts ==
  ASSUME TypeOK, NEW d \in Devices
  PROVE  /\ inbox[d] \in Seq(Packet) /\ Len(inbox[d]) \in Nat
         /\ \A k \in Places(d) : k \in Nat /\ TimerAt(d, k) \in Timer /\ TimerAt(d, k).seq \in Nat
<1>1. inbox[d] \in Seq(Packet) /\ agentTimer[d] \in Timer
  BY DEF TypeOK
<1>2. \A k \in Places(d) : k \in Nat /\ TimerAt(d, k) \in Timer
  <2>1. \A k \in 1..Len(inbox[d]) : inbox[d][k] \in Packet /\ inbox[d][k].timer \in Timer
    <3>1. \A k \in 1..Len(inbox[d]) : inbox[d][k] \in Packet
      BY <1>1
    <3>2. \A q \in Packet : q.timer \in Timer
      BY DEF Packet
    <3>3. QED
      BY <3>1, <3>2
  <2>2. \A k \in Places(d) : k \in Nat /\ (k = 0 \/ k \in 1..Len(inbox[d]))
    BY <1>1 DEF Places
  <2>3. QED
    BY <1>1, <2>1, <2>2 DEF TimerAt
<1>3. QED
  BY <1>1, <1>2 DEF Timer

\* No timer is sent to d, which shows what it showed.
LEMMA ScreenKept ==
  ASSUME TypeOK, NEW d \in Devices, NEW t, Screen(d, t), agentTimer'[d] = agentTimer[d],
         NEW p, p.event = "mode", inbox'[d] = inbox[d] \/ inbox'[d] = Append(inbox[d], p)
  PROVE  Screen(d, t)'
<1> DEFINE n == Len(inbox[d])
<1>1. inbox[d] \in Seq(Packet) /\ n \in Nat
  BY PlaceFacts
<1>2. /\ Len(inbox'[d]) \in {n, n + 1}
      /\ \A k \in 1..n : inbox'[d][k] = inbox[d][k]
      /\ \A k \in 1..Len(inbox'[d]) : inbox'[d][k].event = "state" => k \in 1..n
  <2>1. CASE inbox'[d] = inbox[d]
    BY <1>1, <2>1
  <2>2. CASE inbox'[d] = Append(inbox[d], p)
    BY <1>1, <2>2
  <2>3. QED
    BY <2>1, <2>2
<1>3. \A k \in Places(d)' : Shows(d, k)' => k \in Places(d) /\ Shows(d, k)
  BY <1>1, <1>2 DEF Places, Shows
<1>4. \A k \in Places(d) : k \in Places(d)' /\ (Shows(d, k)' <=> Shows(d, k)) /\ TimerAt(d, k)' = TimerAt(d, k)
  BY <1>1, <1>2 DEF Places, Shows, TimerAt
<1>5. \A i \in Places(d), k \in Places(d) : Defaulted(d, i, k) => Defaulted(d, i, k)'
  <2> SUFFICES ASSUME NEW i \in Places(d), NEW k \in Places(d), NEW j \in (i + 1)..k, Shows(d, j), TimerAt(d, j) = NoTimer
               PROVE  Shows(d, j)' /\ TimerAt(d, j)' = NoTimer
    BY DEF Defaulted
  <2>1. j \in Places(d)
    BY <1>1 DEF Places
  <2>2. QED
    BY <1>4, <2>1
<1>6. \A k \in Places(d) : Defaulted(d, k, n) => Defaulted(d, k, Len(inbox[d]))'
  <2> SUFFICES ASSUME NEW k \in Places(d), NEW j \in (k + 1)..n, Shows(d, j), TimerAt(d, j) = NoTimer
               PROVE  j \in (k + 1)..Len(inbox'[d]) /\ Shows(d, j)' /\ TimerAt(d, j)' = NoTimer
    BY DEF Defaulted
  <2>1. j \in Places(d) /\ j \in (k + 1)..Len(inbox'[d])
    BY <1>1, <1>2 DEF Places
  <2>2. QED
    BY <1>4, <2>1
<1>7. \A k \in Places(d) : NoTimerAfter(d, k)' => NoTimerAfter(d, k)
  <2> SUFFICES ASSUME NEW k \in Places(d), NoTimerAfter(d, k)', NEW j \in (k + 1)..n
               PROVE  inbox[d][j].event # "state"
    BY DEF NoTimerAfter
  <2>1. k \in 0..n /\ j \in 1..n /\ j \in (k + 1)..Len(inbox'[d])
    BY <1>1, <1>2 DEF Places
  <2>2. inbox'[d][j].event # "state"
    BY <2>1 DEF NoTimerAfter
  <2>3. QED
    BY <1>2, <2>1, <2>2
<1> HIDE DEF n
<1>8. \A k \in Places(d)' : Shows(d, k)' => TimerAt(d, k)'.seq =< t.seq \/ Defaulted(d, k, Len(inbox[d]))'
  BY <1>3, <1>4, <1>6 DEF Screen, n
<1>9. \A k \in Places(d)' : Shows(d, k)' /\ NoTimerAfter(d, k)' => TimerAt(d, k)' = t
  BY <1>3, <1>4, <1>7 DEF Screen
<1>10. \A i, k \in Places(d)' : i < k /\ Shows(d, i)' /\ Shows(d, k)' =>
         TimerAt(d, i)'.seq =< TimerAt(d, k)'.seq \/ Defaulted(d, i, k)'
  BY <1>3, <1>4, <1>5 DEF Screen
<1>11. QED
  BY <1>8, <1>9, <1>10 DEF Screen

\* Behind u, the timer t is sent to d.
LEMMA ScreenSent ==
  ASSUME TypeOK, NEW d \in Devices, NEW u \in Timer, Screen(d, u), agentTimer'[d] = agentTimer[d],
         NEW t \in Timer, u.seq =< t.seq \/ t = NoTimer,
         NEW p, p.event = "state", p.timer = t, inbox'[d] = Append(inbox[d], p)
  PROVE  Screen(d, t)'
<1>0. PICK n \in Nat : n = Len(inbox[d])
  BY PlaceFacts
<1>1. inbox[d] \in Seq(Packet) /\ n = Len(inbox[d]) /\ u.seq \in Nat /\ t.seq \in Nat
  BY <1>0, PlaceFacts DEF Timer
<1>2. /\ Len(inbox'[d]) = n + 1 /\ inbox'[d][n + 1] = p
      /\ \A k \in 1..n : inbox'[d][k] = inbox[d][k]
  BY <1>1
<1>3. /\ \A k \in Places(d)' : k \in Places(d) \/ k = n + 1
      /\ n + 1 \in Places(d)' /\ Shows(d, n + 1)' /\ TimerAt(d, n + 1)' = t
  BY <1>1, <1>2 DEF Places, Shows, TimerAt
<1>4. \A k \in Places(d) : (Shows(d, k)' <=> Shows(d, k)) /\ TimerAt(d, k)' = TimerAt(d, k) /\ k \in 0..n
  BY <1>1, <1>2 DEF Places, Shows, TimerAt
<1>5. \A i \in Places(d), k \in Places(d) : Defaulted(d, i, k) => Defaulted(d, i, k)' /\ Defaulted(d, i, n + 1)'
  <2> SUFFICES ASSUME NEW i \in Places(d), NEW k \in Places(d), NEW j \in (i + 1)..k, Shows(d, j), TimerAt(d, j) = NoTimer
               PROVE  j \in (i + 1)..(n + 1) /\ Shows(d, j)' /\ TimerAt(d, j)' = NoTimer
    BY DEF Defaulted
  <2>1. j \in Places(d) /\ j \in (i + 1)..(n + 1)
    BY <1>1, <1>4 DEF Places
  <2>2. QED
    BY <1>4, <2>1
<1>6. n \in Places(d) /\ \A k \in Places(d) : Shows(d, k) => TimerAt(d, k).seq =< u.seq \/ Defaulted(d, k, n)
  BY <1>1 DEF Screen, Places
<1>7. \A k \in Places(d) : t = NoTimer => Defaulted(d, k, n + 1)'
  <2> SUFFICES ASSUME NEW k \in Places(d), t = NoTimer
               PROVE  n + 1 \in (k + 1)..(n + 1) /\ Shows(d, n + 1)' /\ TimerAt(d, n + 1)' = NoTimer
    BY DEF Defaulted
  <2>1. n + 1 \in (k + 1)..(n + 1)
    BY <1>1, <1>4
  <2>2. QED
    BY <1>3, <2>1
<1>8. \A k \in Places(d) : Shows(d, k) => TimerAt(d, k)'.seq =< t.seq \/ Defaulted(d, k, n + 1)'
  <2> SUFFICES ASSUME NEW k \in Places(d), Shows(d, k), ~Defaulted(d, k, n + 1)' PROVE TimerAt(d, k)'.seq =< t.seq
    OBVIOUS
  <2>1. TimerAt(d, k).seq =< u.seq /\ u.seq =< t.seq
    BY <1>5, <1>6, <1>7
  <2>2. TimerAt(d, k).seq \in Nat /\ TimerAt(d, k)' = TimerAt(d, k)
    BY <1>4, PlaceFacts
  <2>3. QED
    BY <1>1, <2>1, <2>2
<1>9. \A k \in Places(d) : ~NoTimerAfter(d, k)'
  <2> SUFFICES ASSUME NEW k \in Places(d) PROVE \E j \in (k + 1)..Len(inbox'[d]) : inbox'[d][j].event = "state"
    BY DEF NoTimerAfter
  <2>1. n + 1 \in (k + 1)..Len(inbox'[d])
    BY <1>1, <1>2, <1>4
  <2>2. QED
    BY <1>2, <2>1
<1>10. \A k \in Places(d)' : Shows(d, k)' => TimerAt(d, k)'.seq =< t.seq \/ Defaulted(d, k, Len(inbox[d]))'
  <2>1. \A k \in Places(d) : Defaulted(d, k, n + 1)' => Defaulted(d, k, Len(inbox[d]))'
    BY <1>2 DEF Defaulted
  <2>2. t.seq =< t.seq
    BY <1>1
  <2>3. QED
    BY <1>3, <1>4, <1>8, <2>1, <2>2
<1>11. \A k \in Places(d)' : Shows(d, k)' /\ NoTimerAfter(d, k)' => TimerAt(d, k)' = t
  BY <1>3, <1>9
<1>12. ASSUME NEW i \in Places(d)', NEW k \in Places(d)', i < k, Shows(d, i)', Shows(d, k)'
       PROVE  TimerAt(d, i)'.seq =< TimerAt(d, k)'.seq \/ Defaulted(d, i, k)'
  <2>1. i \in Places(d)
    BY <1>1, <1>3, <1>4, <1>12
  <2>2. CASE k \in Places(d)
    BY <1>4, <1>5, <1>12, <2>1, <2>2 DEF Screen
  <2>3. CASE k = n + 1
    BY <1>3, <1>4, <1>8, <1>12, <2>1, <2>3
  <2>4. QED
    BY <1>3, <2>2, <2>3
<1>13. QED
  BY <1>10, <1>11, <1>12 DEF Screen

\* The display takes the packet at the head of its inbox.
LEMMA ScreenTaken ==
  ASSUME TypeOK, NEW d \in Devices, NEW t, Screen(d, t), inbox[d] # <<>>, inbox'[d] = Tail(inbox[d]),
         agentTimer'[d] = IF inbox[d][1].event = "mode" THEN agentTimer[d] ELSE inbox[d][1].timer
  PROVE  Screen(d, t)'
<1> DEFINE n == Len(inbox[d])
           place(k) == IF k = 0 /\ inbox[d][1].event = "mode" THEN 0 ELSE k + 1
<1>1. inbox[d] \in Seq(Packet) /\ n \in Nat \ {0} /\ inbox[d][1].event \in {"mode", "state"}
  <2>1. inbox[d] \in Seq(Packet)
    BY PlaceFacts
  <2>2. n \in Nat \ {0} /\ inbox[d][1] \in Packet
    BY <2>1, TailFacts
  <2>3. QED
    BY <2>1, <2>2 DEF Packet
<1>2. /\ Len(inbox'[d]) = n - 1
      /\ \A k \in 1..Len(inbox'[d]) : k + 1 \in 1..n /\ inbox'[d][k] = inbox[d][k + 1]
  BY <1>1, TailFacts
<1>3. \A k \in Places(d)' : /\ k \in Nat /\ place(k) \in Places(d) /\ place(k) \in Nat
                            /\ Shows(d, k)' <=> Shows(d, place(k))
                            /\ TimerAt(d, k)' = TimerAt(d, place(k))
  <2> SUFFICES ASSUME NEW k \in Places(d)'
               PROVE  /\ k \in Nat /\ place(k) \in Places(d) /\ place(k) \in Nat
                      /\ Shows(d, k)' <=> Shows(d, place(k))
                      /\ TimerAt(d, k)' = TimerAt(d, place(k))
    OBVIOUS
  <2>1. CASE k = 0
    BY <1>1, <1>2, <2>1 DEF Places, Shows, TimerAt
  <2>2. CASE k # 0
    <3>1. k \in 1..Len(inbox'[d])
      BY <1>1, <1>2, <2>2 DEF Places
    <3>2. QED
      BY <1>1, <1>2, <2>2, <3>1 DEF Places, Shows, TimerAt
  <2>3. QED
    BY <2>1, <2>2
\* A place of before that shows a timer behind one of those that are left is left.
<1>4. \A i \in Places(d)' : \A j \in (place(i) + 1)..n : Shows(d, j) =>
         /\ j - 1 \in (i + 1)..(n - 1) /\ j - 1 \in Places(d)' /\ place(j - 1) = j
  <2> SUFFICES ASSUME NEW i \in Places(d)', NEW j \in (place(i) + 1)..n, Shows(d, j)
               PROVE  j - 1 \in (i + 1)..(n - 1) /\ j - 1 \in Places(d)' /\ place(j - 1) = j
    OBVIOUS
  <2>1. i \in 0..(n - 1) /\ i \in Nat
    BY <1>1, <1>2 DEF Places
  <2>2. j \in Nat /\ j >= 1 /\ j =< n
    BY <1>1, <2>1
  <2>3. j # 1
    BY <1>1, <2>1, <2>2 DEF Shows
  <2>4. j - 1 \in (i + 1)..(n - 1)
    BY <1>1, <2>1, <2>2, <2>3
  <2>5. j - 1 \in Places(d)' /\ j - 1 # 0
    BY <1>1, <1>2, <2>1, <2>4 DEF Places
  <2>6. QED
    BY <2>2, <2>4, <2>5
<1>5. \A i, k \in Places(d)' : i < k => place(i) < place(k)
  BY <1>3
<1> HIDE DEF place, n
<1>6. \A i, k \in Places(d)' : Shows(d, i)' /\ Shows(d, k)' /\ i < k /\ Defaulted(d, place(i), place(k)) => Defaulted(d, i, k)'
  <2> SUFFICES ASSUME NEW i \in Places(d)', NEW k \in Places(d)', i < k,
                      NEW j \in (place(i) + 1)..place(k), Shows(d, j), TimerAt(d, j) = NoTimer
               PROVE  \E l \in (i + 1)..k : Shows(d, l)' /\ TimerAt(d, l)' = NoTimer
    BY DEF Defaulted
  <2>1. j \in (place(i) + 1)..n
    <3>1. place(k) \in 0..n /\ place(i) \in Nat
      BY <1>3 DEF Places, n
    <3>2. QED
      BY <1>1, <3>1
  <2>2. j - 1 \in (i + 1)..(n - 1) /\ j - 1 \in Places(d)' /\ place(j - 1) = j
    BY <1>4, <2>1
  <2>3. j - 1 =< k
    BY <1>1, <1>3, <2>1 DEF place
  <2>4. j - 1 \in (i + 1)..k /\ Shows(d, j - 1)' /\ TimerAt(d, j - 1)' = NoTimer
    BY <1>1, <1>3, <2>2, <2>3
  <2>5. QED
    BY <2>4
<1>7. \A k \in Places(d)' : Defaulted(d, place(k), n) => Defaulted(d, k, Len(inbox[d]))'
  <2> SUFFICES ASSUME NEW k \in Places(d)', NEW j \in (place(k) + 1)..n, Shows(d, j), TimerAt(d, j) = NoTimer
               PROVE  \E l \in (k + 1)..Len(inbox'[d]) : Shows(d, l)' /\ TimerAt(d, l)' = NoTimer
    BY DEF Defaulted
  <2>1. j - 1 \in (k + 1)..(n - 1) /\ j - 1 \in Places(d)' /\ place(j - 1) = j
    BY <1>4
  <2>2. Shows(d, j - 1)' /\ TimerAt(d, j - 1)' = NoTimer
    BY <1>3, <2>1
  <2>3. QED
    BY <1>2, <2>1, <2>2
<1>8. \A k \in Places(d)' : NoTimerAfter(d, k)' => NoTimerAfter(d, place(k))
  <2> SUFFICES ASSUME NEW k \in Places(d)', NoTimerAfter(d, k)', NEW j \in (place(k) + 1)..n, inbox[d][j].event = "state"
               PROVE  FALSE
    BY DEF NoTimerAfter, n
  <2>1. Shows(d, j)
    BY DEF Shows
  <2>2. j - 1 \in (k + 1)..(n - 1) /\ j - 1 \in Places(d)' /\ place(j - 1) = j
    BY <1>4, <2>1
  <2>3. j - 1 \in 1..Len(inbox'[d]) /\ inbox'[d][j - 1] = inbox[d][j]
    <3>1. k \in Nat /\ j - 1 \in 1..Len(inbox'[d])
      BY <1>1, <1>2, <1>3, <2>2
    <3>2. (j - 1) + 1 = j
      BY <1>1, <1>3
    <3>3. QED
      BY <1>2, <3>1, <3>2
  <2>4. QED
    BY <1>2, <2>2, <2>3 DEF NoTimerAfter
<1>9. \A k \in Places(d)' : Shows(d, k)' => TimerAt(d, k)'.seq =< t.seq \/ Defaulted(d, k, Len(inbox[d]))'
  BY <1>3, <1>7 DEF Screen, n
<1>10. \A k \in Places(d)' : Shows(d, k)' /\ NoTimerAfter(d, k)' => TimerAt(d, k)' = t
  BY <1>3, <1>8 DEF Screen
<1>11. \A i, k \in Places(d)' : i < k /\ Shows(d, i)' /\ Shows(d, k)' =>
         TimerAt(d, i)'.seq =< TimerAt(d, k)'.seq \/ Defaulted(d, i, k)'
  BY <1>3, <1>5, <1>6 DEF Screen
<1>12. QED
  BY <1>9, <1>10, <1>11 DEF Screen

LEMMA StepScreens == Core /\ TimersCurrent /\ Legs /\ Records /\ Screens /\ [Next]_vars => Screens'
<1> SUFFICES ASSUME Core, TimersCurrent, Legs, Records, Screens, [Next]_vars,
                    NEW d \in Devices, NEW t \in Timer, ~lossy'[d], Top(d, t)'
             PROVE  Screen(d, t)'
  BY DEF Screens
<1>0. TypeInv /\ TypeOK /\ PersistQueues /\ Queues /\ ~lossy[d]
  BY LossyKept DEF Core, TypeInv
<1>1. /\ cached[d].timer \in Timer /\ relational[d] \in Timer /\ (\A c \in Calls : timers[c][d] \in Timer)
      /\ \A u \in Timer : Top(d, u) => Screen(d, u)
  BY <1>0 DEF TypeOK, StoredRecord, Screens
\* Nothing is sent to d but perhaps a mode.
<1>2. ASSUME Top(d, t), agentTimer'[d] = agentTimer[d],
             inbox'[d] = inbox[d] \/ \E c, m : inbox'[d] = Append(inbox[d], ModePacket(c, m))
      PROVE  Screen(d, t)'
  <2>1. \A c, m : ModePacket(c, m).event = "mode"
    BY DEF ModePacket
  <2>2. \E p : p.event = "mode" /\ (inbox'[d] = inbox[d] \/ inbox'[d] = Append(inbox[d], p))
    BY <1>2, <2>1
  <2>3. QED
    BY <1>0, <1>1, <1>2, <2>2, ScreenKept
<1>3. ASSUME SameCalls, cached'[d].timer = cached[d].timer
      PROVE  Top(d, t)
  BY <1>3 DEF Top, SameCalls, Showing, Targets
\* While c runs, no other call shows a timer on its displays.
<1>4. ASSUME NEW c \in Calls, Running(c), d \in Targets(c)
      PROVE  \A e \in Calls \ {c} : ~Showing(e, d)
  BY <1>0, <1>4, ShowingRuns, Exclusive
<1>5. ASSUME NEW c \in Calls, Moves(c)
      PROVE  Screen(d, t)'
  <2>0. /\ inbox' = inbox /\ agentTimer' = agentTimer /\ timers' = timers /\ cached'[d].timer = cached[d].timer
        /\ ~Showing(c, d)' /\ \A e \in Calls \ {c} : Showing(e, d)' <=> Showing(e, d)
    BY <1>5 DEF Moves, SameRecords, SameDisplays, OnlyCall, Showing, Targets
  <2>1. CASE ~Showing(c, d)
    <3>1. Top(d, t)
      BY <2>0, <2>1 DEF Top
    <3>2. QED
      BY <1>2, <2>0, <3>1
  <2>2. CASE Showing(c, d)
    <3>1. Running(c) /\ d \in Targets(c) /\ stage[c] \in {"state", "saving_timer"}
      BY <2>2, ShowingRuns DEF Showing, TimerStages
    <3>2. t = cached[d].timer
      BY <1>4, <2>0, <3>1 DEF Top
    <3>3. LegOK(c, d) /\ leg[c][d] # "failed"
      BY <1>0 DEF Legs, LegOK
    <3>4. stage[c] # "state"
      BY <1>5, <3>1, <3>3 DEF Moves, Answered, LegOK
    <3>5. stage[c] = "saving_timer" /\ leg[c][d] = "saved"
      BY <1>5, <3>1, <3>3, <3>4 DEF Moves, AllSaved, LegOK
    <3>6. cached[d].timer = timers[c][d]
      BY <1>0, <3>1, <3>5 DEF Records, Saved
    <3>7. Top(d, t)
      BY <2>2, <3>2, <3>6 DEF Top
    <3>8. QED
      BY <1>2, <2>0, <3>7
  <2>3. QED
    BY <2>1, <2>2
<1>6. ASSUME NEW c \in Calls, NEW m \in Modes, SendsMode(c, m)
      PROVE  Screen(d, t)'
  <2>1. /\ agentTimer' = agentTimer /\ cached'[d].timer = cached[d].timer
        /\ inbox'[d] = inbox[d] \/ inbox'[d] = Append(inbox[d], ModePacket(c, m))
    BY <1>6 DEF SendsMode, SameDisplays, SameRecords, Emits
  <2>2. ~Showing(c, d) /\ ~Showing(c, d)'
    BY <1>6 DEF SendsMode, Showing, TimerStages
  <2>3. \A e \in Calls \ {c} : (Showing(e, d)' <=> Showing(e, d)) /\ timers'[e] = timers[e]
    BY <1>6 DEF SendsMode, OnlyCall, Showing, Targets
  <2>4. Top(d, t)
    BY <2>1, <2>2, <2>3 DEF Top
  <2>5. QED
    BY <1>2, <2>1, <2>4
<1>7. ASSUME NEW c \in Calls, SendsTimer(c)
      PROVE  Screen(d, t)'
  <2>0. /\ agentTimer' = agentTimer /\ cached'[d].timer = cached[d].timer /\ timers' = timers
        /\ Targets(c)' = Targets(c) /\ stage'[c] = "state" /\ stage[c] \in {"mode", "saving_mode"} /\ IsTimerCall(c)
        /\ inbox'[d] = IF d \in Targets(c) /\ connected[d] THEN Append(inbox[d], StatePacket(c, timers[c][d])) ELSE inbox[d]
    BY <1>7 DEF SendsTimer, SameDisplays, SameRecords, Emits, Targets
  <2>1. \A e \in Calls \ {c} : Showing(e, d)' <=> Showing(e, d)
    BY <1>7 DEF SendsTimer, OnlyCall, Showing, Targets
  <2>2. ~Showing(c, d) /\ (Showing(c, d)' <=> d \in Targets(c))
    BY <2>0 DEF Showing, TimerStages
  <2>3. CASE d \notin Targets(c)
    <3>1. Top(d, t)
      BY <2>0, <2>1, <2>2, <2>3 DEF Top
    <3>2. QED
      BY <1>2, <2>0, <2>3, <3>1
  <2>4. CASE d \in Targets(c)
    <3>1. Running(c) /\ Resolved(c, d)
      BY <2>0 DEF Running, Resolved
    <3>2. \A e \in Calls \ {c} : ~Showing(e, d)
      BY <1>4, <2>4, <3>1
    <3>3. t = timers[c][d] /\ Top(d, cached[d].timer)
      BY <2>0, <2>1, <2>2, <2>4, <3>2 DEF Top
    <3>4. t = ResolvedTimer(c, d, incoming[c], mode[c])
      BY <2>4, <3>1, <3>3 DEF TimersCurrent, TimerCurrent
    <3>5. t.seq >= cached[d].timer.seq
      BY <1>0, <3>4, ResolvedTimerAhead
    <3>6. cached[d].timer.seq =< t.seq
      BY <1>1, <3>5 DEF Timer
    <3>7. connected[d]
      BY <1>0 DEF Legs
    <3>8. StatePacket(c, timers[c][d]).event = "state" /\ StatePacket(c, timers[c][d]).timer = t
      BY <3>3 DEF StatePacket
    <3>9. QED
      BY <1>0, <1>1, <2>0, <2>4, <3>3, <3>6, <3>7, <3>8, ScreenSent
  <2>5. QED
    BY <2>3, <2>4
<1>8. ASSUME NEW c \in Calls, StartsSaving(c)
      PROVE  Screen(d, t)'
  <2>0. /\ agentTimer' = agentTimer /\ cached'[d].timer = cached[d].timer /\ timers' = timers
        /\ inbox' = inbox /\ Targets(c)' = Targets(c)
        /\ stage'[c] = IF stage[c] = "mode" THEN "saving_mode" ELSE "saving_timer"
        /\ stage[c] \in {"mode", "state"}
    BY <1>8 DEF StartsSaving, SameDisplays, SameRecords, Targets, Answered
  <2>1. \A e \in Calls \ {c} : Showing(e, d)' <=> Showing(e, d)
    BY <1>8 DEF StartsSaving, OnlyCall, Showing, Targets
  <2>2. Showing(c, d)' <=> Showing(c, d)
    BY <2>0 DEF Showing, TimerStages
  <2>3. Top(d, t)
    BY <2>0, <2>1, <2>2 DEF Top
  <2>4. QED
    BY <1>2, <2>0, <2>3
<1>9. ASSUME NEW c \in Calls, NEW x \in Devices, NEW u \in Timer, Posts(c, x, u)
      PROVE  Screen(d, t)'
  <2>0. /\ agentTimer' = agentTimer /\ request' = request /\ x \in Targets(c) /\ Running(c)
        /\ stage[c] = "posting" /\ stage'[c] = "succeeded"
        /\ \A e \in Calls \ {c} : stage'[e] = stage[e] /\ timers'[e] = timers[e]
    BY <1>9 DEF Posts, SameDisplays, Running
  <2>1. \A e \in Calls \ {c} : Showing(e, d)' <=> Showing(e, d)
    BY <2>0 DEF Showing, Targets
  <2>2. ~Showing(c, d)' /\ ~Showing(c, d)
    BY <2>0 DEF Showing, TimerStages
  <2>3. CASE d # x
    <3>1. inbox'[d] = inbox[d] /\ cached'[d].timer = cached[d].timer
      BY <1>9, <2>3 DEF Posts
    <3>2. Top(d, t)
      BY <2>0, <2>1, <2>2, <3>1 DEF Top
    <3>3. QED
      BY <1>2, <2>0, <3>1, <3>2
  <2>4. CASE d = x
    <3>1. \A e \in Calls : ~Showing(e, d)
      BY <1>4, <2>0, <2>2, <2>4
    <3>2. Top(d, cached[d].timer) /\ t = u
      BY <1>9, <2>1, <2>2, <2>4, <3>1 DEF Top, Posts
    <3>3. cached[d].timer.seq =< u.seq \/ u = NoTimer
      <4>1. u = NoTimer \/ u = ResolvedTimer(c, d, incoming[c], cached[d].deviceMode)
        BY <1>9, <2>4 DEF Posts
      <4>2. ResolvedTimer(c, d, incoming[c], cached[d].deviceMode).seq >= cached[d].timer.seq
        BY <1>0, ResolvedTimerAhead
      <4>3. u = NoTimer \/ u.seq >= cached[d].timer.seq
        BY <4>1, <4>2
      <4>4. QED
        BY <1>1, <4>3 DEF Timer
    <3>4. inbox'[d] = Append(inbox[d], StatePacket(NoCall, u))
      BY <1>0, <1>9, <2>4 DEF Posts, Legs
    <3>5. StatePacket(NoCall, u).event = "state" /\ StatePacket(NoCall, u).timer = u
      BY DEF StatePacket
    <3>6. Screen(d, u)'
      BY <1>0, <1>1, <2>0, <3>2, <3>3, <3>4, <3>5, ScreenSent
    <3>7. QED
      BY <3>2, <3>6
  <2>5. QED
    BY <2>3, <2>4
<1>10. ASSUME NEW c \in Calls, NEW x \in Devices, GivesUp(c, x)
       PROVE  Screen(d, t)'
  <2>1. inbox' = inbox /\ agentTimer' = agentTimer /\ SameCalls /\ cached'[d].timer = cached[d].timer
    BY <1>10 DEF GivesUp, SameDisplays, SameRecords
  <2>2. QED
    BY <1>2, <1>3, <2>1
<1>11. ASSUME NEW c \in Calls, NEW x \in Devices, Saves(c, x)
       PROVE  Screen(d, t)'
  <2>0. inbox' = inbox /\ agentTimer' = agentTimer /\ SameCalls /\ x \in Targets(c)
        /\ stage[c] \in {"saving_mode", "saving_timer"}
    BY <1>11 DEF Saves, SameDisplays
  <2>1. CASE d # x \/ stage[c] = "saving_mode"
    <3>1. cached'[d].timer = cached[d].timer
      BY <1>11, <2>1 DEF Saves
    <3>2. QED
      BY <1>2, <1>3, <2>0, <3>1
  <2>2. CASE d = x /\ stage[c] = "saving_timer"
    <3>1. Showing(c, d) /\ Showing(c, d)'
      BY <2>0, <2>2 DEF Showing, TimerStages, SameCalls, Targets
    <3>2. Top(d, t)
      BY <2>0, <3>1 DEF Top, SameCalls, Showing, Targets
    <3>3. QED
      BY <1>2, <2>0, <3>2
  <2>3. QED
    BY <2>0, <2>1, <2>2
<1>12. ASSUME NEW x \in Devices, Receives(x)
       PROVE  Screen(d, t)'
  <2>0. Top(d, t)
    BY <1>3, <1>12 DEF Receives, SameRecords
  <2>1. CASE d # x
    <3>1. inbox'[d] = inbox[d] /\ agentTimer'[d] = agentTimer[d]
      BY <1>12, <2>1 DEF Receives
    <3>2. QED
      BY <1>2, <2>0, <3>1
  <2>2. CASE d = x
    <3>1. /\ inbox[d] # <<>> /\ inbox'[d] = Tail(inbox[d])
          /\ agentTimer'[d] = IF inbox[d][1].event = "mode" THEN agentTimer[d] ELSE inbox[d][1].timer
      BY <1>12, <2>2 DEF Receives
    <3>2. Screen(d, t)
      BY <1>1, <2>0
    <3>3. QED
      BY <1>0, <3>1, <3>2, ScreenTaken
  <2>3. QED
    BY <2>1, <2>2
<1>13. ASSUME NEW x \in Devices, Drops(x)
       PROVE  Screen(d, t)'
  <2>1. Top(d, t)
    BY <1>3, <1>13 DEF Drops, SameRecords
  <2>2. d # x
    BY <1>13 DEF Drops
  <2>3. inbox'[d] = inbox[d] /\ agentTimer'[d] = agentTimer[d]
    BY <1>13, <2>2 DEF Drops
  <2>4. QED
    BY <1>2, <2>1, <2>3
<1>14. ASSUME NEW x \in Devices, NEW m \in Modes, Joins(x, m)
       PROVE  Screen(d, t)'
  <2>1. Top(d, t)
    BY <1>3, <1>14 DEF Joins, SameRecords
  <2>2. agentTimer'[d] = agentTimer[d] /\ (inbox'[d] = inbox[d] \/ inbox'[d] = Append(inbox[d], ModePacket(NoCall, m)))
    BY <1>14 DEF Joins
  <2>3. QED
    BY <1>2, <2>1, <2>2
<1>15. ASSUME Rests PROVE Screen(d, t)'
  <2>1. Top(d, t)
    BY <1>3, <1>15 DEF Rests, SameRecords
  <2>2. agentTimer'[d] = agentTimer[d] /\ inbox'[d] = inbox[d]
    BY <1>15 DEF Rests, SameDisplays
  <2>3. QED
    BY <1>2, <2>1, <2>2
<1>16. QED
  BY <1>0, <1>5, <1>6, <1>7, <1>8, <1>9, <1>10, <1>11, <1>12, <1>13, <1>14, <1>15, StepKinds

-----------------------------------------------------------------------------
(* The inductive invariant.                                                *)

IInv == Core /\ TimersCurrent /\ Legs /\ Records /\ Packets /\ Screens

LEMMA InitIInv == Init => IInv
<1> SUFFICES ASSUME Init PROVE IInv
  OBVIOUS
<1>1. TypeInv /\ TypeOK
  BY InitTypeInv DEF TypeInv
<1>2. /\ \A c \in Calls : stage[c] = "idle"
      /\ \A c \in Calls, d \in Devices : leg[c][d] = "none"
      /\ cmdQueue = <<>> /\ Len(cmdQueue) = 0
  BY DEF Init
<1>3. \A d \in Devices : inbox[d] = <<>> /\ Len(inbox[d]) = 0 /\ persistQueue[d] = <<>> /\ Len(persistQueue[d]) = 0
  BY DEF Init
<1>4. \A d \in Devices : snapshot[d] = NoMode /\ agentTimer[d] = NoTimer /\ relational[d] = NoTimer
  BY DEF Init
<1>5. \A d \in Devices : cached[d].timer = NoTimer
  <2>1. PICK m \in Modes : cached = [d \in Devices |-> [deviceMode |-> m, pref |-> NoMode, timer |-> NoTimer]]
    BY DEF Init
  <2>2. QED
    BY <2>1
<1>6. \A d \in Devices : connected[d]
  BY Zenon DEF Init
<1>7. PersistQueues
  <2> SUFFICES ASSUME NEW d \in Devices PROVE PersistQueueOK(d)
    BY DEF PersistQueues
  <2>1. Len(persistQueue[d]) = 0 /\ snapshot[d] = NoMode
    BY <1>3, <1>4
  <2>2. QED
    BY <2>1 DEF PersistQueueOK
<1>8. Queues
  BY <1>2 DEF Queues, Enqueued, Running, Before
<1>9. TimersCurrent
  BY <1>2 DEF TimersCurrent, TimerCurrent, Resolved
<1>10. Legs
  BY <1>2, <1>6 DEF Legs, LegOK
<1>11. Records
  BY <1>2, <1>4, <1>5 DEF Records, RecordsAgree, Saved
<1>12. Packets
  <2> SUFFICES ASSUME NEW c \in Calls, NEW d \in Devices PROVE Shown(c, d)
    BY DEF Packets
  <2>1. Len(inbox[d]) = 0 /\ ~Confirmed(c, d)
    BY <1>2, <1>3 DEF Confirmed, Showing, TimerStages
  <2>2. QED
    BY <2>1 DEF Shown, OwnPackets
<1>13. Screens
  <2> SUFFICES ASSUME NEW d \in Devices, NEW t \in Timer, Top(d, t) PROVE Screen(d, t)
    BY DEF Screens
  <2>1. t = NoTimer
    BY <1>2, <1>5 DEF Top, Showing, TimerStages
  <2>2. \A k \in Places(d) : k = 0
    BY <1>3 DEF Places
  <2>3. TimerAt(d, 0) = t /\ t.seq =< t.seq
    BY <1>4, <2>1, NoTimerType DEF TimerAt
  <2>4. QED
    BY <2>2, <2>3 DEF Screen
<1>14. QED
  BY <1>1, <1>7, <1>8, <1>9, <1>10, <1>11, <1>12, <1>13 DEF IInv, Core

LEMMA StepIInv == IInv /\ [Next]_vars => IInv'
<1> SUFFICES ASSUME IInv, [Next]_vars PROVE IInv'
  OBVIOUS
<1>1. Core /\ TypeInv /\ PersistQueues /\ Queues /\ TimersCurrent /\ Legs /\ Records /\ Packets /\ Screens
  BY DEF IInv, Core
<1>2. TypeInv' /\ PersistQueues' /\ Queues'
  BY <1>1, StepTypeInv, StepPersistQueues, StepQueues
<1>3. TimersCurrent' /\ Legs'
  BY <1>1, StepTimersCurrent, StepLegs
<1>4. Records' /\ Packets' /\ Screens'
  BY <1>1, StepRecords, StepPackets, StepScreens
<1>5. QED
  BY <1>2, <1>3, <1>4 DEF IInv, Core

LEMMA Invariance == Spec => []IInv
<1>1. QED
  BY InitIInv, StepIInv, PTL DEF Spec

-----------------------------------------------------------------------------
(* The theorems.                                                           *)

\* Every variable of the command pipeline keeps its type: what the queues, the
\* packets and the records hold was put there by a request of some page.
THEOREM CommandTypesCorrect == Spec => []TypeOK
<1>1. IInv => TypeOK
  BY DEF IInv, Core, TypeInv
<1>2. QED
  BY <1>1, Invariance, PTL

\* withDeviceCommandQueues: no two operations that went through the command
\* queue are under way for the same display, whichever calls were admitted
\* while others waited.
THEOREM OperationsAreExclusive ==
  Spec => [](\A c, e \in Calls : c # e /\ Running(c) /\ Running(e) => Targets(c) \cap Targets(e) = {})
<1>1. IInv => \A c, e \in Calls : c # e /\ Running(c) /\ Running(e) => Targets(c) \cap Targets(e) = {}
  BY Exclusive DEF IInv, Core, TypeInv
<1>2. QED
  BY <1>1, Invariance, PTL

\* At rest a display that lost nothing shows the timer that both copies in the
\* database hold: the last timer that was sent is that of the call which has
\* the display, and its write to the record is the last one.
THEOREM RestingTimersAgree == Spec => []TimersAgreeAtRest
<1>1. ASSUME IInv PROVE TimersAgreeAtRest
  <2> SUFFICES ASSUME NEW d \in Devices, Quiet(d), ~lossy[d]
               PROVE  agentTimer[d] = cached[d].timer /\ agentTimer[d] = relational[d]
    BY DEF TimersAgreeAtRest
  <2>1. TypeOK /\ Records /\ Screens
    BY <1>1 DEF IInv, Core, TypeInv
  <2>2. cached[d].timer = relational[d] /\ cached[d].timer \in Timer
    BY <2>1 DEF Records, RecordsAgree, TypeOK, StoredRecord
  <2>3. \A c \in Calls : ~Showing(c, d)
    BY DEF Quiet, Showing, TimerStages
  <2>4. Screen(d, cached[d].timer)
    BY <2>1, <2>2, <2>3 DEF Screens, Top
  <2>5. inbox[d] = <<>> /\ Len(inbox[d]) = 0
    BY DEF Quiet
  <2>6. 0 \in Places(d) /\ Shows(d, 0) /\ NoTimerAfter(d, 0) /\ TimerAt(d, 0) = agentTimer[d]
    BY <2>5 DEF Places, Shows, NoTimerAfter, TimerAt
  <2>7. agentTimer[d] = cached[d].timer
    BY <2>4, <2>6 DEF Screen
  <2>8. QED
    BY <2>2, <2>7
<1>2. QED
  BY <1>1, Invariance, PTL

\* Whatever writes fail and however calls overlap, the reset sequence on record
\* for a display does not go back unless a state POST clears the record: a
\* timer is written while its call has the display to itself, so that it is
\* still the one that resolveTimerCommandState made of the records.
THEOREM StoredResetsHold == Spec => StoredResetsNeverRewind
<1>1. ASSUME IInv, [Next]_vars
      PROVE  \A d \in Devices : StoredSequence(d) =< StoredSequence(d)' \/ Clearing(d)
  <2> SUFFICES ASSUME NEW d \in Devices, ~Clearing(d) PROVE StoredSequence(d) =< StoredSequence(d)'
    OBVIOUS
  <2>1. Core /\ TimersCurrent /\ TypeOK
    BY <1>1 DEF IInv, Core, TypeInv
  <2>2. cached[d].timer.seq \in Nat /\ relational[d].seq \in Nat
    BY <2>1 DEF TypeOK, StoredRecord, Timer
  <2>3. StoredSequence(d)' = Larger(cached'[d].timer.seq, relational'[d].seq)
    BY DEF StoredSequence, Larger
  <2>4. CASE cached'[d].timer = cached[d].timer /\ relational'[d] = relational[d]
    <3>1. Larger(cached[d].timer.seq, relational[d].seq) \in Nat
      BY <2>2, LargerBound
    <3>2. StoredSequence(d)' = StoredSequence(d) /\ StoredSequence(d) \in Nat
      BY <2>3, <2>4, <3>1 DEF StoredSequence
    <3>3. QED
      BY <3>2
  <2>5. CASE \E c \in Calls, m \in Modes :
               /\ cached'[d].timer \in {cached[d].timer, ResolvedTimer(c, d, incoming[c], m)}
               /\ relational'[d] \in {relational[d], ResolvedTimer(c, d, incoming[c], m)}
    BY <2>1, <2>3, <2>5, ResolvedTimerCounts
  <2>6. QED
    BY <1>1, <2>1, <2>4, <2>5, RecordStep
<1>2. IInv /\ [Next]_vars => [\A d \in Devices : StoredSequence(d) =< StoredSequence(d)' \/ Clearing(d)]_<<cached, relational>>
  BY <1>1
<1>3. QED
  BY <1>2, Invariance, PTL DEF Spec, StoredResetsNeverRewind

\* A reset that is sent again while it is the last one counted does not count
\* again, whichever of the two copies had been written the first time:
\* resolvePrimaryResetMetadata looks at the newer copy.
THEOREM DuplicateResetsHold == Spec => DuplicateResetsCountOnce
<1>1. ASSUME IInv, [Next]_vars
      PROVE  \A d \in Devices : StoredSequence(d)' > StoredSequence(d) =>
               \/ LastReset(cached[d].timer, relational[d])' # LastReset(cached[d].timer, relational[d])
               \/ PageAhead(d)
  <2> SUFFICES ASSUME NEW d \in Devices, StoredSequence(d)' > StoredSequence(d),
                      LastReset(cached[d].timer, relational[d])' = LastReset(cached[d].timer, relational[d])
               PROVE  PageAhead(d)
    OBVIOUS
  <2>1. Core /\ TimersCurrent /\ TypeOK
    BY <1>1 DEF IInv, Core, TypeInv
  <2>2. cached[d].timer.seq \in Nat /\ relational[d].seq \in Nat
    BY <2>1 DEF TypeOK, StoredRecord, Timer
  <2>3. StoredSequence(d)' = Larger(cached'[d].timer.seq, relational'[d].seq)
    BY DEF StoredSequence, Larger
  <2>4. LastReset(cached'[d].timer, relational'[d]) = LastReset(cached[d].timer, relational[d])
    BY DEF LastReset
  <2>5. ~(cached'[d].timer = cached[d].timer /\ relational'[d] = relational[d])
    BY <2>2, <2>3, LargerBound DEF StoredSequence
  <2>6. ~(cached'[d].timer = NoTimer /\ relational'[d] = NoTimer)
    BY <2>2, <2>3, LargerBound, NoTimerType DEF StoredSequence, Larger
  <2>7. PICK c \in Calls, m \in Modes :
          /\ d \in Targets(c) /\ stage[c] # "idle"
          /\ cached'[d].timer \in {cached[d].timer, ResolvedTimer(c, d, incoming[c], m)}
          /\ relational'[d] \in {relational[d], ResolvedTimer(c, d, incoming[c], m)}
    BY <1>1, <2>1, <2>5, <2>6, RecordStep
  <2>8. incoming[c].seq >= Larger(cached'[d].timer.seq, relational'[d].seq)
    BY <2>1, <2>3, <2>4, <2>7, ResolvedTimerCounts
  <2>9. QED
    BY <2>3, <2>7, <2>8 DEF PageAhead
<1>2. IInv /\ [Next]_vars =>
        [\A d \in Devices : StoredSequence(d)' > StoredSequence(d) =>
               \/ LastReset(cached[d].timer, relational[d])' # LastReset(cached[d].timer, relational[d])
               \/ PageAhead(d)]_<<cached, relational>>
  BY <1>1
<1>3. QED
  BY <1>2, Invariance, PTL DEF Spec, DuplicateResetsCountOnce

\* The sequence that a display shows does not go back either, unless it is sent
\* the default timer or lost something: packets arrive in the order in which
\* they were sent, and that is the order in which the timers were resolved.
THEOREM ShownResetsHold == Spec => ShownResetsNeverRewind
<1>1. ASSUME IInv, [Next]_vars
      PROVE  \A d \in Devices : ~lossy'[d] => agentTimer[d].seq =< agentTimer'[d].seq \/ agentTimer'[d] = NoTimer
  <2> SUFFICES ASSUME NEW d \in Devices, ~lossy'[d], agentTimer'[d] # NoTimer
               PROVE  agentTimer[d].seq =< agentTimer'[d].seq
    OBVIOUS
  <2>1. Core /\ TypeInv /\ TypeOK /\ PersistQueues /\ Screens
    BY <1>1 DEF IInv, Core, TypeInv
  <2>2. ~lossy[d] /\ agentTimer[d].seq =< agentTimer[d].seq
    <3>1. agentTimer[d].seq \in Nat
      BY <2>1 DEF TypeOK, Timer
    <3>2. QED
      BY <1>1, <2>1, <3>1, LossyKept
  <2>3. CASE agentTimer'[d] = agentTimer[d]
    BY <2>2, <2>3
  <2>4. CASE Receives(d) /\ agentTimer'[d] # agentTimer[d]
    <3>1. inbox[d] # <<>> /\ inbox[d][1].event # "mode" /\ agentTimer'[d] = inbox[d][1].timer
      BY <2>4 DEF Receives
    <3>2. inbox[d] \in Seq(Packet) /\ Len(inbox[d]) \in Nat \ {0} /\ inbox[d][1] \in Packet
      BY <2>1, <3>1, TailFacts DEF TypeOK
    <3>3. Shows(d, 0) /\ Shows(d, 1) /\ 0 \in Places(d) /\ 1 \in Places(d)
      BY <3>1, <3>2 DEF Shows, Places, Packet
    <3>4. TimerAt(d, 0) = agentTimer[d] /\ TimerAt(d, 1) = agentTimer'[d]
      BY <3>1 DEF TimerAt
    <3>5. \E t \in Timer : Top(d, t)
      <4>1. cached[d].timer \in Timer /\ \A c \in Calls : timers[c][d] \in Timer
        BY <2>1 DEF TypeOK, StoredRecord
      <4>2. QED
        BY <4>1 DEF Top
    <3>6. \E t \in Timer : Screen(d, t)
      BY <2>1, <2>2, <3>5 DEF Screens
    <3>7. TimerAt(d, 0).seq =< TimerAt(d, 1).seq \/ Defaulted(d, 0, 1)
      BY <3>3, <3>6 DEF Screen
    <3>8. ~Defaulted(d, 0, 1)
      BY <3>4 DEF Defaulted
    <3>9. QED
      BY <3>4, <3>7, <3>8
  <2>5. agentTimer'[d] = agentTimer[d] \/ Receives(d)
    <3>1. ASSUME NEW x \in Devices, Receives(x) PROVE agentTimer'[d] = agentTimer[d] \/ Receives(d)
      BY <3>1 DEF Receives
    <3>2. ASSUME \/ \E c \in Calls : Moves(c) \/ SendsTimer(c) \/ StartsSaving(c)
                 \/ \E c \in Calls, m \in Modes : SendsMode(c, m)
                 \/ \E c \in Calls, x \in Devices, t \in Timer : Posts(c, x, t)
                 \/ \E c \in Calls, x \in Devices : GivesUp(c, x) \/ Saves(c, x)
                 \/ \E x \in Devices : Drops(x)
                 \/ \E x \in Devices, m \in Modes : Joins(x, m)
                 \/ Rests
          PROVE  agentTimer' = agentTimer
      BY <3>2 DEF Moves, SendsTimer, StartsSaving, SendsMode, Posts, GivesUp, Saves, Drops, Joins, Rests, SameDisplays
    <3>3. QED
      BY <1>1, <2>1, <3>1, <3>2, StepKinds
  <2>6. QED
    BY <2>3, <2>4, <2>5
<1>2. IInv /\ [Next]_vars =>
        [\A d \in Devices : ~lossy'[d] => \/ agentTimer[d].seq =< agentTimer'[d].seq
                                          \/ agentTimer'[d] = NoTimer]_agentTimer
  BY <1>1
<1>3. QED
  BY <1>2, Invariance, PTL DEF Spec, ShownResetsNeverRewind

\* When set_timer or a synchronized set_timer answers success, every target
\* shows the timer of that call: a call has the display to itself from the
\* moment it is admitted until it is answered, and packets of calls that were
\* given up were sent before.
THEOREM SuccessHolds == Spec => SuccessMeansShown
<1>1. ASSUME IInv, [Next]_vars
      PROVE  \A c \in Calls : (stage'[c] = "succeeded" /\ stage[c] # "succeeded" /\ IsTimerCall(c))
               => \A d \in Targets(c) : agentTimer'[d] = timers[c][d]
  <2> SUFFICES ASSUME NEW c \in Calls, stage'[c] = "succeeded", stage[c] # "succeeded", IsTimerCall(c)
               PROVE  \A d \in Targets(c) : agentTimer'[d] = timers[c][d]
    OBVIOUS
  <2>1. TypeInv /\ TypeOK /\ Kinds /\ PersistQueues /\ Packets
    BY <1>1 DEF IInv, Core, TypeInv
  <2>2. CASE Moves(c)
    <3>1. stage[c] = "saving_timer" /\ AllOk(c, "saved") /\ agentTimer' = agentTimer
      BY <2>2 DEF Moves, SameDisplays
    <3>2. \A d \in Targets(c) : d \in Devices /\ Confirmed(c, d)
      BY <2>1, <3>1, RequestFacts DEF Confirmed, Showing, TimerStages, AllOk
    <3>3. QED
      BY <2>1, <3>1, <3>2 DEF Packets, Shown
  <2>3. ~(\E e \in Calls, d \in Devices, t \in Timer : Posts(e, d, t))
    BY <2>1 DEF Posts, Kinds, KindOK, IsPost, IsTimerCall
  <2>4. ~(\E e \in Calls \ {c} : Moves(e)) /\ ~(\E e \in Calls : SendsTimer(e) \/ StartsSaving(e))
    BY DEF Moves, SendsTimer, StartsSaving, OnlyCall
  <2>5. ~(\E e \in Calls, m \in Modes : SendsMode(e, m))
    BY DEF SendsMode, OnlyCall
  <2>6. ~SameCalls
    BY DEF SameCalls
  <2>7. QED
    BY <1>1, <2>1, <2>2, <2>3, <2>4, <2>5, <2>6, StepKinds DEF GivesUp, Saves, Receives, Drops, Joins, Rests
<1>2. IInv /\ [Next]_vars =>
        [\A c \in Calls : (stage'[c] = "succeeded" /\ stage[c] # "succeeded" /\ IsTimerCall(c))
               => \A d \in Targets(c) : agentTimer'[d] = timers[c][d]]_stage
  BY <1>1
<1>3. QED
  BY <1>2, Invariance, PTL DEF Spec, SuccessMeansShown

-----------------------------------------------------------------------------
(* No call is forgotten: what a call waits for has it in its queue.        *)

LegOut(c, d) == stage[c] \in {"mode", "state"} /\ d \in Targets(c) => leg[c][d] # "waiting"

WritesQueued(d) ==
  \A c \in Calls : /\ Persisting(c, d) => WaitsForRecord(c, d)
                   /\ LegOut(c, d)

Waits == /\ \A c \in Calls : stage[c] = "queued" => Enqueued(c)
         /\ \A d \in Devices : WritesQueued(d)

\* A step that adds nobody to those who wait.
LEMMA QueuedKept ==
  ASSUME Waits, cmdQueue' = cmdQueue, \A e \in Calls : stage'[e] = "queued" => stage[e] = "queued"
  PROVE  \A e \in Calls : stage'[e] = "queued" => Enqueued(e)'
  BY DEF Waits, Enqueued

\* A call that ends leaves the others in the queue.
LEMMA QueuedLeft ==
  ASSUME TypeOK, Waits, NEW c \in Calls, NEW r \in {"succeeded", "failed"}, Finish(c, r)
  PROVE  \A e \in Calls : stage'[e] = "queued" => Enqueued(e)'
<1> SUFFICES ASSUME NEW e \in Calls, stage'[e] = "queued" PROVE Enqueued(e)'
  OBVIOUS
<1>1. e # c /\ stage[e] = "queued"
  BY FinishEffect
<1>2. PICK k \in 1..Len(cmdQueue) : cmdQueue[k] = e
  BY <1>1 DEF Waits, Enqueued
<1>3. cmdQueue \in Seq(Calls) /\ cmdQueue' = Without(cmdQueue, c)
  BY FinishEffect DEF TypeOK
<1>4. \E i \in 1..Len(cmdQueue') : cmdQueue'[i] = cmdQueue[k]
  BY <1>1, <1>2, <1>3, WithoutOrder, SMTT(20)
<1>5. QED
  BY <1>2, <1>4 DEF Enqueued

LEMMA StepQueued ==
  ASSUME TypeInv, Waits, [Next]_vars
  PROVE  \A e \in Calls : stage'[e] = "queued" => Enqueued(e)'
<1> DEFINE Goal == \A e \in Calls : stage'[e] = "queued" => Enqueued(e)'
<1>0. TypeOK
  BY DEF TypeInv
<1> HIDE DEF Goal
<1>1. ASSUME NEW c \in Calls, NEW r \in Requests, Submit(c, r)
      PROVE  Goal
  <2>1. \A e \in Calls \ {c} : stage'[e] = stage[e]
    BY <1>0, <1>1 DEF Submit, TypeOK
  <2>2. \/ stage'[c] # "queued" /\ cmdQueue' = cmdQueue
        \/ cmdQueue' = Append(cmdQueue, c)
    BY <1>0, <1>1 DEF Submit, TypeOK
  <2>3. CASE stage'[c] # "queued" /\ cmdQueue' = cmdQueue
    BY <2>1, <2>3, QueuedKept DEF Goal
  <2>4. CASE cmdQueue' = Append(cmdQueue, c)
    <3>1. /\ Len(cmdQueue) \in Nat /\ Len(cmdQueue') = Len(cmdQueue) + 1
          /\ \A i \in 1..Len(cmdQueue) : cmdQueue'[i] = cmdQueue[i]
          /\ cmdQueue'[Len(cmdQueue) + 1] = c
      BY <1>0, <2>4, AppendFacts DEF TypeOK
    <3>2. /\ \A i \in 1..Len(cmdQueue) : i \in 1..Len(cmdQueue')
          /\ Len(cmdQueue) + 1 \in 1..Len(cmdQueue')
      BY <3>1
    <3>3. QED
      BY <2>1, <3>1, <3>2 DEF Goal, Waits, Enqueued
  <2>5. QED
    BY <2>2, <2>3, <2>4
<1>2. ASSUME NEW c \in Calls, NEW r \in {"succeeded", "failed"}, Finish(c, r)
      PROVE  Goal
  BY <1>0, <1>2, QueuedLeft DEF Goal
<1>3. ASSUME NEW c \in Calls, cmdQueue' = cmdQueue,
             NEW s \in Stages \ {"queued"}, stage' = [stage EXCEPT ![c] = s]
      PROVE  Goal
  BY <1>0, <1>3, QueuedKept DEF Goal, TypeOK
<1>4. ASSUME NEW c \in Calls, Begin(c) \/ ReadMode(c) \/ Resolve(c)
      PROVE  Goal
  BY <1>3, <1>4 DEF Begin, ReadMode, Resolve, Stages
<1>5. ASSUME NEW c \in Calls, ModeAnswered(c)
      PROVE  Goal
  BY <1>2, <1>3, <1>5 DEF ModeAnswered, Stages
<1>6. ASSUME NEW c \in Calls, ModeSaved(c)
      PROVE  Goal
  BY <1>2, <1>3, <1>6 DEF ModeSaved, Stages
<1>7. ASSUME NEW c \in Calls, StateAnswered(c)
      PROVE  Goal
  BY <1>2, <1>3, <1>7 DEF StateAnswered, Stages
<1>8. ASSUME NEW c \in Calls, WriteColumn(c) \/ TimerSaved(c) \/ PostState(c)
      PROVE  Goal
  BY <1>2, <1>8 DEF WriteColumn, TimerSaved, PostState
<1>9. ASSUME UNCHANGED <<cmdQueue, stage>>
      PROVE  Goal
  BY <1>9, QueuedKept DEF Goal
<1>10. ASSUME NEW c \in Calls, NEW d \in Devices, Timeout(c, d)
       PROVE  Goal
  BY <1>9, <1>10 DEF Timeout
<1>11. ASSUME NEW d \in Devices, \/ PersistRead(d) \/ WriteMode(d) \/ WriteTimer(d) \/ Deliver(d)
                                 \/ Disconnect(d) \/ HelloRead(d) \/ HelloJoin(d)
       PROVE  Goal
  BY <1>9, <1>11 DEF PersistRead, WriteMode, WriteTimer, Deliver, Disconnect, HelloRead, HelloJoin
<1>12. CASE UNCHANGED vars
  BY <1>9, <1>12 DEF vars, Goal
<1>13. QED
  BY <1>1, <1>4, <1>5, <1>6, <1>7, <1>8, <1>10, <1>11, <1>12, NextCases DEF Goal

\* Nobody new waits for the record of d.
LEMMA WritesKept ==
  ASSUME NEW d \in Devices, WritesQueued(d), persistQueue'[d] = persistQueue[d],
         \A e \in Calls : (Persisting(e, d)' => Persisting(e, d)) /\ LegOut(e, d)'
  PROVE  WritesQueued(d)'
  BY DEF WritesQueued, WaitsForRecord

\* c begins to wait for it.
LEMMA WritesGrow ==
  ASSUME TypeOK, NEW d \in Devices, WritesQueued(d), NEW c \in Calls,
         persistQueue'[d] = Append(persistQueue[d], c),
         \A e \in Calls \ {c} : Persisting(e, d)' => Persisting(e, d),
         \A e \in Calls : LegOut(e, d)'
  PROVE  WritesQueued(d)'
<1> DEFINE q == persistQueue[d]
           w == persistQueue'[d]
<1>1. q \in Seq(Calls) /\ w = Append(q, c)
  BY DEF TypeOK
<1> HIDE DEF q, w
<1>2. /\ \A i \in 1..Len(q) : i \in 1..Len(w) /\ w[i] = q[i]
      /\ Len(q) + 1 \in 1..Len(w) /\ w[Len(q) + 1] = c
  BY <1>1, AppendFacts
<1>3. ASSUME NEW e \in Calls, Persisting(e, d)'
      PROVE  \E i \in 1..Len(w) : w[i] = e
  <2>1. CASE e = c
    BY <1>2, <2>1
  <2>2. CASE e # c
    <3>1. \E i \in 1..Len(q) : q[i] = e
      BY <1>3, <2>2 DEF WritesQueued, WaitsForRecord, q
    <3>2. QED
      BY <1>2, <3>1
  <2>3. QED
    BY <2>1, <2>2
<1>4. QED
  BY <1>3 DEF WritesQueued, WaitsForRecord, w

\* The head has what it waited for.
LEMMA WritesLeave ==
  ASSUME TypeOK, NEW d \in Devices, WritesQueued(d), persistQueue[d] # <<>>,
         persistQueue'[d] = Tail(persistQueue[d]),
         NEW c \in Calls, c = Head(persistQueue[d]), ~Persisting(c, d)',
         \A e \in Calls : (Persisting(e, d)' => Persisting(e, d)) /\ LegOut(e, d)'
  PROVE  WritesQueued(d)'
<1> DEFINE q == persistQueue[d]
           w == persistQueue'[d]
<1>1. q \in Seq(Calls) /\ q # <<>> /\ w = Tail(q) /\ c = Head(q)
  BY DEF TypeOK
<1> HIDE DEF w
<1>2. /\ Len(q) \in Nat \ {0} /\ Head(q) = q[1]
      /\ \A i \in 2..Len(q) : i - 1 \in 1..Len(w) /\ w[i - 1] = q[i]
  BY <1>1
<1>3. ASSUME NEW e \in Calls, Persisting(e, d)'
      PROVE  \E i \in 1..Len(w) : w[i] = e
  <2>0. e # c
    BY <1>3
  <2>1. PICK i \in 1..Len(q) : q[i] = e
    BY <1>3 DEF WritesQueued, WaitsForRecord
  <2>2. i # 1
    BY <1>1, <1>2, <2>0, <2>1
  <2>3. i \in 2..Len(q)
    BY <1>2, <2>2
  <2>4. QED
    BY <1>2, <2>1, <2>3
<1>4. QED
  BY <1>3 DEF WritesQueued, WaitsForRecord, w

\* A step of c that begins no write.
LEMMA CallWrites ==
  ASSUME Waits, NEW c \in Calls, persistQueue' = persistQueue,
         \A e \in Calls \ {c} : stage'[e] = stage[e] /\ leg'[e] = leg[e] /\ request'[e] = request[e],
         stage'[c] \notin {"saving_mode", "saving_timer", "posting"},
         stage'[c] \in {"mode", "state"} => \A d \in Devices : leg'[c][d] # "waiting",
         NEW d \in Devices
  PROVE  WritesQueued(d)'
<1>1. \A e \in Calls \ {c} : Persisting(e, d)' => Persisting(e, d)
  BY DEF Persisting, Targets
<1>2. ~Persisting(c, d)'
  BY DEF Persisting
<1>3. \A e \in Calls : LegOut(e, d)'
  BY DEF Waits, WritesQueued, LegOut, Targets
<1>4. QED
  BY <1>1, <1>2, <1>3, WritesKept DEF Waits

\* One leg of some call is answered or given up.
LEMMA LegWrites ==
  ASSUME TypeOK, Waits, NEW c \in Calls, NEW d \in Devices, NEW s, s # "waiting",
         leg' = leg \/ leg' = [leg EXCEPT ![c][d] = s],
         UNCHANGED <<persistQueue, request, stage>>, NEW x \in Devices
  PROVE  WritesQueued(x)'
<1>1. \A e \in Calls : leg'[e][x] = "waiting" => leg[e][x] = "waiting"
  <2>1. CASE leg' = [leg EXCEPT ![c][d] = s]
    <3>1. \A e \in Calls : leg'[e][x] = IF e = c /\ x = d THEN s ELSE leg[e][x]
      BY <2>1 DEF TypeOK
    <3>2. QED
      BY <3>1
  <2>2. QED
    BY <2>1
<1>2. \A e \in Calls : Persisting(e, x)' => Persisting(e, x)
  BY <1>1 DEF Persisting, Targets
<1>3. \A e \in Calls : LegOut(e, x)'
  BY <1>1 DEF Waits, WritesQueued, LegOut, Targets
<1>4. QED
  BY <1>2, <1>3, WritesKept DEF Waits

\* The acknowledged legs of c begin to wait.
LEMMA AcknowledgedWrites ==
  ASSUME TypeOK, Waits, NEW c \in Calls, PersistAcknowledged(c), stage[c] \in {"mode", "state"},
         NEW s \in {"saving_mode", "saving_timer"}, stage' = [stage EXCEPT ![c] = s],
         request' = request, NEW d \in Devices
  PROVE  WritesQueued(d)'
<1>1. /\ persistQueue'[d] = IF d \in Targets(c) /\ leg[c][d] = "ok"
                            THEN Append(persistQueue[d], c) ELSE persistQueue[d]
      /\ leg'[c][d] = IF d \in Targets(c) /\ leg[c][d] = "ok" THEN "waiting" ELSE leg[c][d]
      /\ \A e \in Calls \ {c} : leg'[e] = leg[e]
  BY PersistEffect
<1>2. stage'[c] = s /\ \A e \in Calls \ {c} : stage'[e] = stage[e]
  BY DEF TypeOK
<1>3. WritesQueued(d) /\ \A e \in Calls : LegOut(e, d)
  BY DEF Waits, WritesQueued
<1>4. \A e \in Calls \ {c} : Persisting(e, d)' => Persisting(e, d)
  BY <1>1, <1>2 DEF Persisting, Targets
<1>5. \A e \in Calls : LegOut(e, d)'
  BY <1>1, <1>2, <1>3 DEF LegOut, Targets
<1>6. CASE d \in Targets(c) /\ leg[c][d] = "ok"
  BY <1>1, <1>3, <1>4, <1>5, <1>6, WritesGrow
<1>7. CASE ~(d \in Targets(c) /\ leg[c][d] = "ok")
  <2>1. ~Persisting(c, d)'
    BY <1>1, <1>2, <1>3, <1>7 DEF Persisting, LegOut, Targets
  <2>2. QED
    BY <1>1, <1>3, <1>4, <1>5, <1>7, <2>1, WritesKept
<1>8. QED
  BY <1>6, <1>7

\* The head of the persistence queue of d has written.
LEMMA HeadWrites ==
  ASSUME TypeOK, PersistQueues, Waits, NEW d \in Devices, snapshot[d] # NoMode, LeavePersistQueue(d),
         UNCHANGED <<stage, request>>, NEW x \in Devices
  PROVE  WritesQueued(x)'
<1>0. PICK c \in Calls : c = Head(persistQueue[d])
  BY HeadFacts
<1>1. persistQueue[d] # <<>> /\ stage[c] \in {"saving_mode", "saving_timer"}
  BY <1>0, HeadFacts
<1>2. persistQueue'[d] = Tail(persistQueue[d]) /\ (x # d => persistQueue'[x] = persistQueue[x])
  BY DEF LeavePersistQueue, TypeOK
<1>3. leg'[c][d] = "saved" /\ \A e \in Calls : leg'[e][x] = IF e = c /\ x = d THEN "saved" ELSE leg[e][x]
  BY <1>0, LeaveLegs
<1>4. \A e \in Calls : Persisting(e, x)' => Persisting(e, x)
  BY <1>3 DEF Persisting, Targets
<1>5. WritesQueued(x) /\ \A e \in Calls : LegOut(e, x)'
  BY <1>3 DEF Waits, WritesQueued, LegOut, Targets
<1>6. ~Persisting(c, d)'
  BY <1>1, <1>3 DEF Persisting
<1>7. CASE x = d
  BY <1>0, <1>1, <1>2, <1>4, <1>5, <1>6, <1>7, WritesLeave
<1>8. CASE x # d
  BY <1>2, <1>4, <1>5, <1>8, WritesKept
<1>9. QED
  BY <1>7, <1>8

LEMMA FinishWrites ==
  ASSUME TypeOK, Waits, NEW c \in Calls, NEW r \in {"succeeded", "failed"}, Finish(c, r),
         UNCHANGED <<persistQueue, leg, request>>, NEW d \in Devices
  PROVE  WritesQueued(d)'
<1>1. stage'[c] = r /\ \A e \in Calls \ {c} : stage'[e] = stage[e]
  BY FinishEffect
<1>2. QED
  BY <1>1, CallWrites

\* A call whose legs are sent anew.
LEMMA SentWrites ==
  ASSUME TypeOK, Waits, NEW c \in Calls, NEW s \in {"mode", "state"}, stage' = [stage EXCEPT ![c] = s],
         UNCHANGED <<persistQueue, request>>, \A e \in Calls \ {c} : leg'[e] = leg[e],
         \A d \in Devices : leg'[c][d] # "waiting", NEW d \in Devices
  PROVE  WritesQueued(d)'
<1>1. stage'[c] = s /\ \A e \in Calls \ {c} : stage'[e] = stage[e]
  BY DEF TypeOK
<1>2. QED
  BY <1>1, CallWrites

LEMMA StepWrites ==
  ASSUME TypeInv, PersistQueues, Waits, [Next]_vars, NEW d \in Devices
  PROVE  WritesQueued(d)'
<1>0. TypeOK /\ Kinds /\ WritesQueued(d) /\ \A e \in Calls : LegOut(e, d)
  BY DEF TypeInv, Waits, WritesQueued
<1>1. ASSUME NEW c \in Calls, NEW r \in Requests, Submit(c, r)
      PROVE  WritesQueued(d)'
  <2>1. \A e \in Calls \ {c} : stage'[e] = stage[e] /\ request'[e] = request[e] /\ leg'[e] = leg[e]
    BY <1>0, <1>1 DEF Submit, TypeOK
  <2>2. persistQueue' = persistQueue /\ stage'[c] \in {"failed", "queued", "mode"}
    BY <1>0, <1>1 DEF Submit, TypeOK
  <2>3. stage'[c] = "mode" => \A x \in Devices : leg'[c][x] # "waiting"
    <3>1. stage'[c] = "mode" => leg' = [leg EXCEPT ![c] = [x \in Devices |->
                                          IF x \in r.targets THEN "sent" ELSE "none"]]
      BY <1>0, <1>1 DEF Submit, TypeOK
    <3>2. QED
      BY <1>0, <3>1 DEF TypeOK
  <2>4. QED
    BY <2>1, <2>2, <2>3, CallWrites
<1>2. ASSUME NEW c \in Calls, Begin(c)
      PROVE  WritesQueued(d)'
  <2>1. UNCHANGED <<request, leg>> /\ \A e \in Calls \ {c} : stage'[e] = stage[e]
    BY <1>0, <1>2 DEF Begin, TypeOK, callVars
  <2>2. CASE ~IsPost(request[c])
    <3>1. persistQueue' = persistQueue /\ stage'[c] \in {"reading", "resolving"}
      BY <1>0, <1>2, <2>2 DEF Begin, TypeOK
    <3>2. QED
      BY <2>1, <3>1, CallWrites
  <2>3. CASE IsPost(request[c])
    <3>0. PICK p \in Devices : p = request[c].primary
      BY <1>0, RequestFacts
    <3>1. /\ stage'[c] = "posting" /\ persistQueue'[p] = Append(persistQueue[p], c)
          /\ d # p => persistQueue'[d] = persistQueue[d]
      BY <1>0, <1>2, <2>3, <3>0 DEF Begin, TypeOK
    <3>2. \A e \in Calls \ {c} : Persisting(e, d)' => Persisting(e, d)
      BY <2>1 DEF Persisting, Targets
    <3>3. \A e \in Calls : LegOut(e, d)'
      BY <1>0, <2>1, <3>1 DEF LegOut, Targets
    <3>4. CASE d = p
      BY <1>0, <3>1, <3>2, <3>3, <3>4, WritesGrow
    <3>5. CASE d # p
      <4>1. ~Persisting(c, d)'
        BY <2>1, <3>0, <3>1, <3>5 DEF Persisting
      <4>2. QED
        BY <1>0, <3>1, <3>2, <3>3, <3>5, <4>1, WritesKept
    <3>6. QED
      BY <3>4, <3>5
  <2>4. QED
    BY <2>2, <2>3
<1>3. ASSUME NEW c \in Calls, ReadMode(c)
      PROVE  WritesQueued(d)'
  <2>1. /\ UNCHANGED <<persistQueue, request, leg>> /\ stage'[c] = "resolving"
        /\ \A e \in Calls \ {c} : stage'[e] = stage[e]
    BY <1>0, <1>3 DEF ReadMode, TypeOK
  <2>2. QED
    BY <2>1, CallWrites
<1>4. ASSUME NEW c \in Calls, Resolve(c)
      PROVE  WritesQueued(d)'
  <2>1. mode[c] \in Modes /\ SendMode(c, mode[c])
    BY <1>0, <1>4 DEF Resolve, Kinds, KindOK, ModeStages
  <2>2. (\A e \in Calls \ {c} : leg'[e] = leg[e]) /\ \A x \in Devices : leg'[c][x] # "waiting"
    BY <1>0, <2>1, SendModeEffect
  <2>3. UNCHANGED <<persistQueue, request>> /\ stage' = [stage EXCEPT ![c] = "mode"]
    BY <1>4 DEF Resolve
  <2>4. QED
    BY <1>0, <2>2, <2>3, SentWrites
<1>5. ASSUME NEW c \in Calls, SendState(c, timers[c]), stage' = [stage EXCEPT ![c] = "state"],
             UNCHANGED <<persistQueue, request>>
      PROVE  WritesQueued(d)'
  <2>1. timers[c] \in [Devices -> Timer]
    BY <1>0 DEF TypeOK
  <2>2. (\A e \in Calls \ {c} : leg'[e] = leg[e]) /\ \A x \in Devices : leg'[c][x] # "waiting"
    BY <1>0, <1>5, <2>1, SendStateEffect
  <2>3. QED
    BY <1>0, <1>5, <2>2, SentWrites
<1>6. ASSUME NEW c \in Calls, ModeAnswered(c)
      PROVE  WritesQueued(d)'
  <2>1. request' = request /\ stage[c] = "mode"
    BY <1>6 DEF ModeAnswered, callVars
  <2>2. CASE SendState(c, timers[c]) /\ stage' = [stage EXCEPT ![c] = "state"] /\ UNCHANGED persistQueue
    BY <1>5, <2>1, <2>2
  <2>3. CASE Finish(c, "failed") /\ UNCHANGED <<persistQueue, leg>>
    BY <1>0, <2>1, <2>3, FinishWrites
  <2>4. CASE PersistAcknowledged(c) /\ stage' = [stage EXCEPT ![c] = "saving_mode"]
    BY <1>0, <2>1, <2>4, AcknowledgedWrites
  <2>5. QED
    BY <1>6, <2>2, <2>3, <2>4 DEF ModeAnswered
<1>7. ASSUME NEW c \in Calls, ModeSaved(c)
      PROVE  WritesQueued(d)'
  <2>1. UNCHANGED <<persistQueue, request>>
    BY <1>7 DEF ModeSaved, callVars
  <2>2. CASE stage' = [stage EXCEPT ![c] = "column"] /\ UNCHANGED leg
    <3>1. stage'[c] = "column" /\ \A e \in Calls \ {c} : stage'[e] = stage[e]
      BY <1>0, <2>2 DEF TypeOK
    <3>2. QED
      BY <2>1, <2>2, <3>1, CallWrites
  <2>3. CASE SendState(c, timers[c]) /\ stage' = [stage EXCEPT ![c] = "state"]
    BY <1>5, <2>1, <2>3
  <2>4. CASE \E r \in {"succeeded", "failed"} : Finish(c, r) /\ UNCHANGED leg
    BY <1>0, <2>1, <2>4, FinishWrites
  <2>5. QED
    BY <1>7, <2>2, <2>3, <2>4 DEF ModeSaved
<1>8. ASSUME NEW c \in Calls, StateAnswered(c)
      PROVE  WritesQueued(d)'
  <2>1. request' = request /\ stage[c] = "state"
    BY <1>8 DEF StateAnswered, callVars
  <2>2. CASE Finish(c, "failed") /\ UNCHANGED <<persistQueue, leg>>
    BY <1>0, <2>1, <2>2, FinishWrites
  <2>3. CASE PersistAcknowledged(c) /\ stage' = [stage EXCEPT ![c] = "saving_timer"]
    BY <1>0, <2>1, <2>3, AcknowledgedWrites
  <2>4. QED
    BY <1>8, <2>2, <2>3 DEF StateAnswered
<1>9. ASSUME NEW c \in Calls, WriteColumn(c) \/ TimerSaved(c)
      PROVE  WritesQueued(d)'
  <2>1. /\ UNCHANGED <<persistQueue, request, leg>>
        /\ \E r \in {"succeeded", "failed"} : Finish(c, r)
    BY <1>9 DEF WriteColumn, TimerSaved, callVars
  <2>2. QED
    BY <1>0, <2>1, FinishWrites
<1>10. ASSUME NEW c \in Calls, PostState(c)
       PROVE  WritesQueued(d)'
  <2>0. PICK p \in Devices : p = request[c].primary
    BY <1>0, RequestFacts
  <2>1. /\ UNCHANGED <<request, leg>> /\ stage[c] = "posting"
        /\ persistQueue[p] # <<>> /\ Head(persistQueue[p]) = c
        /\ persistQueue' = [persistQueue EXCEPT ![p] = Tail(persistQueue[p])]
        /\ \E r \in {"succeeded", "failed"} : Finish(c, r)
    BY <1>10, <2>0 DEF PostState
  <2>2. stage'[c] \in {"succeeded", "failed"} /\ \A e \in Calls \ {c} : stage'[e] = stage[e]
    BY <1>0, <2>1, FinishEffect
  <2>3. persistQueue'[p] = Tail(persistQueue[p]) /\ (d # p => persistQueue'[d] = persistQueue[d])
    BY <1>0, <2>1 DEF TypeOK
  <2>4. ~Persisting(c, d)' /\ \A e \in Calls : Persisting(e, d)' => Persisting(e, d)
    BY <2>1, <2>2 DEF Persisting, Targets
  <2>5. \A e \in Calls : LegOut(e, d)'
    BY <1>0, <2>1, <2>2 DEF LegOut, Targets
  <2>6. CASE d = p
    BY <1>0, <2>1, <2>3, <2>4, <2>5, <2>6, WritesLeave
  <2>7. CASE d # p
    BY <1>0, <2>3, <2>4, <2>5, <2>7, WritesKept
  <2>8. QED
    BY <2>6, <2>7
<1>11. ASSUME NEW c \in Calls, NEW x \in Devices, Timeout(c, x)
       PROVE  WritesQueued(d)'
  <2>1. UNCHANGED <<persistQueue, request, stage>> /\ leg' = [leg EXCEPT ![c][x] = "failed"]
    BY <1>11 DEF Timeout, callVars
  <2>2. QED
    BY <1>0, <2>1, LegWrites
<1>12. ASSUME NEW x \in Devices, WriteMode(x) \/ WriteTimer(x)
       PROVE  WritesQueued(d)'
  <2>1. UNCHANGED <<stage, request>> /\ LeavePersistQueue(x) /\ snapshot[x] # NoMode
    BY <1>12 DEF WriteMode, WriteTimer, callVars
  <2>2. QED
    BY <1>0, <2>1, HeadWrites
<1>13. ASSUME UNCHANGED <<persistQueue, request, stage, leg>>
       PROVE  WritesQueued(d)'
  <2>1. \A e \in Calls : (Persisting(e, d)' => Persisting(e, d)) /\ LegOut(e, d)'
    BY <1>0, <1>13 DEF Persisting, LegOut, Targets
  <2>2. QED
    BY <1>0, <1>13, <2>1, WritesKept
<1>14. ASSUME NEW x \in Devices, Deliver(x)
       PROVE  WritesQueued(d)'
  <2>1. UNCHANGED <<persistQueue, request, stage>>
    BY <1>14 DEF Deliver, callVars
  <2>2. leg' = leg \/ \E c \in Calls, s \in {"ok", "failed"} : leg' = [leg EXCEPT ![c][x] = s]
    BY <1>14 DEF Deliver
  <2>3. ASSUME NEW c \in Calls, NEW s \in {"ok", "failed"}, leg' = [leg EXCEPT ![c][x] = s]
        PROVE  WritesQueued(d)'
    BY <1>0, <2>1, <2>3, LegWrites
  <2>4. QED
    BY <1>13, <2>1, <2>2, <2>3
<1>15. ASSUME NEW x \in Devices, PersistRead(x) \/ Disconnect(x) \/ HelloRead(x) \/ HelloJoin(x)
       PROVE  WritesQueued(d)'
  BY <1>13, <1>15 DEF PersistRead, Disconnect, HelloRead, HelloJoin, callVars
<1>16. CASE UNCHANGED vars
  BY <1>13, <1>16 DEF vars, callVars
<1>17. QED
  BY <1>1, <1>2, <1>3, <1>4, <1>6, <1>7, <1>8, <1>9, <1>10, <1>11, <1>12, <1>14, <1>15, <1>16,
     NextCases

LEMMA InitWaits == Init => Waits
  BY DEF Init, Waits, WritesQueued, Persisting, LegOut

LEMMA WaitsAlways == Spec => [](IInv /\ Waits)
<1>1. IInv /\ Waits /\ [Next]_vars => Waits'
  BY StepQueued, StepWrites DEF Waits, IInv, Core, TypeInv
<1>2. QED
  BY <1>1, InitWaits, InitIInv, StepIInv, PTL DEF Spec

\* The first call of a queue, or of those that share a display with c, may run.
LEMMA QueuedWaits ==
  ASSUME IInv, Waits, NEW c \in Calls, stage[c] = "queued"
  PROVE  MayGoOn(c) \/ WaitsForOlder(c)
<1>1. PICK j \in 1..Len(cmdQueue) : cmdQueue[j] = c
  BY DEF Waits, Enqueued
<1>2. CASE Runnable(c)
  BY <1>2 DEF MayGoOn, JobReady
<1>3. CASE ~Runnable(c)
  <2>1. PICK i \in 1..(j - 1) : Targets(cmdQueue[i]) \cap Targets(c) # {}
    BY <1>1, <1>3 DEF Runnable
  <2>2. cmdQueue \in Seq(Calls) /\ Len(cmdQueue) \in Nat
    BY DEF IInv, Core, TypeInv, TypeOK
  <2>3. i \in 1..Len(cmdQueue) /\ i < j /\ cmdQueue[i] \in Calls
    BY <2>2
  <2>4. Admitted(cmdQueue[i])
    BY <2>3 DEF IInv, Core, Queues, Enqueued
  <2>5. Outstanding(cmdQueue[i])
    BY <2>4 DEF Outstanding, Admitted, Running
  <2>6. QED
    BY <1>1, <2>1, <2>3, <2>5 DEF WaitsForOlder
<1>4. QED
  BY <1>2, <1>3

LEMMA EachWaits ==
  ASSUME IInv, Waits, NEW c \in Calls, Outstanding(c)
  PROVE  \/ MayGoOn(c) \/ WaitsForOlder(c)
         \/ \E d \in Targets(c) : d \in Devices /\ WaitsForRecord(c, d)
<1>0. TypeOK /\ stage[c] \in Stages /\ Targets(c) \subseteq Devices /\ request[c].primary \in Targets(c)
  BY RequestFacts DEF IInv, Core, TypeInv, TypeOK
<1>1. CASE stage[c] = "queued"
  BY <1>1, QueuedWaits
<1>2. CASE stage[c] \in {"reading", "resolving", "column"}
  BY <1>2 DEF MayGoOn
<1>3. CASE stage[c] \in {"mode", "state"}
  BY <1>3 DEF MayGoOn, JobReady, Answered
<1>4. CASE stage[c] \in {"saving_mode", "saving_timer"}
  <2>1. CASE AllSaved(c)
    BY <2>1 DEF MayGoOn, JobReady
  <2>2. CASE ~AllSaved(c)
    <3>1. PICK d \in Targets(c) : leg[c][d] = "waiting"
      BY <1>4, <2>2 DEF AllSaved
    <3>2. d \in Devices /\ Persisting(c, d)
      BY <1>0, <1>4, <3>1 DEF Persisting
    <3>3. WaitsForRecord(c, d)
      BY <3>2 DEF Waits, WritesQueued
    <3>4. QED
      BY <3>2, <3>3
  <2>3. QED
    BY <2>1, <2>2
<1>5. CASE stage[c] = "posting"
  <2>1. request[c].primary \in Devices /\ Persisting(c, request[c].primary)
    BY <1>0, <1>5 DEF Persisting
  <2>2. WaitsForRecord(c, request[c].primary)
    BY <2>1 DEF Waits, WritesQueued
  <2>3. QED
    BY <1>0, <2>1, <2>2
<1>6. QED
  BY <1>0, <1>1, <1>2, <1>3, <1>4, <1>5 DEF Outstanding, Stages

\* A persistence queue that holds anything moves.
LEMMA HeadMoves ==
  ASSUME IInv, NEW d \in Devices, persistQueue[d] # <<>>
  PROVE  HeadMayGoOn(d)
<1>1. persistQueue[d] \in Seq(Calls) /\ PersistQueueOK(d)
  BY DEF IInv, Core, TypeInv, TypeOK, PersistQueues
<1>2. 1 \in 1..Len(persistQueue[d]) /\ Head(persistQueue[d]) = persistQueue[d][1]
  BY <1>1
<1>3. Persisting(Head(persistQueue[d]), d)
  BY <1>1, <1>2 DEF PersistQueueOK
<1>4. QED
  BY <1>3 DEF HeadMayGoOn, Persisting

\* The safety half of EveryCallIsAnswered: a call that is not answered yet has a
\* step due, or the queue that it waits for knows of it.
THEOREM CallsAreRemembered == Spec => []NoCallIsForgotten
<1>1. IInv /\ Waits => NoCallIsForgotten
  BY EachWaits DEF NoCallIsForgotten
<1>2. QED
  BY <1>1, WaitsAlways, PTL

\* And the command and persistence queues do not block one another: the oldest
\* call in the command queue is under way or can start, and whatever is in a
\* persistence queue has a head that can read or write.
THEOREM QueuesDoNotJam == Spec => []QueuesNeverJam
<1>1. ASSUME IInv, Waits PROVE QueuesNeverJam
  <2> SUFFICES ASSUME \A c \in Calls : ~MayGoOn(c), \A d \in Devices : ~HeadMayGoOn(d),
                      NEW c \in Calls, Outstanding(c)
               PROVE  FALSE
    BY DEF QueuesNeverJam
  <2>1. \A d \in Devices, e \in Calls : ~WaitsForRecord(e, d)
    BY <1>1, HeadMoves DEF WaitsForRecord, IInv, Core, TypeInv, TypeOK
  <2>2. \A e \in Calls : Outstanding(e) => WaitsForOlder(e)
    BY <1>1, <2>1, EachWaits
  <2>3. Len(cmdQueue) >= 1 /\ cmdQueue \in Seq(Calls)
    BY <1>1, <2>2 DEF WaitsForOlder, IInv, Core, TypeInv, TypeOK
  <2>4. 1 \in 1..Len(cmdQueue) /\ cmdQueue[1] \in Calls
    BY <2>3
  <2>5. Admitted(cmdQueue[1])
    BY <1>1, <2>4 DEF IInv, Core, Queues, Enqueued
  <2>6. Outstanding(cmdQueue[1])
    BY <2>5 DEF Outstanding, Admitted, Running
  <2>7. PICK i, j \in 1..Len(cmdQueue) : i < j /\ cmdQueue[j] = cmdQueue[1]
    BY <2>2, <2>4, <2>6 DEF WaitsForOlder
  <2>8. j = 1
    BY <1>1, <2>4, <2>7 DEF IInv, Core, Queues
  <2>9. QED
    BY <2>3, <2>7, <2>8
<1>2. QED
  BY <1>1, WaitsAlways, PTL
-----------------------------------------------------------------------------
(* The calls of the command queue are operations of DeviceSerialization.   *)

phases == [c \in Calls |-> QueuePhase(c)]
needs == [c \in Calls |-> IF Admitted(c) THEN Targets(c) ELSE {}]
aheads == [c \in Calls |-> {e \in Calls : Before(e, c)}]

LEMMA PhaseFacts ==
  ASSUME TypeInv, NEW c \in Calls
  PROVE  /\ QueuePhase(c) = "queued" <=> stage[c] = "queued"
         /\ QueuePhase(c) = "active" <=> Running(c)
         /\ Admitted(c) <=> QueuePhase(c) \in {"queued", "active"}
         /\ Admitted(c) => UsesQueue(c)
<1>1. KindOK(c)
  BY DEF TypeInv, Kinds
<1>2. Admitted(c) => UsesQueue(c)
  BY <1>1 DEF Admitted, Running, UsesQueue, KindOK, TimerStages, IsTimerCall, IsPost
<1>3. QED
  BY <1>2 DEF QueuePhase, Admitted, Running, IsTimerCall

\* The abstract queue sees nothing of a step that leaves the phases alone.
LEMMA QueueUnmoved ==
  ASSUME TypeInv, TypeInv', UNCHANGED cmdQueue,
         \A e \in Calls : /\ QueuePhase(e)' = QueuePhase(e)
                          /\ Admitted(e) => request'[e] = request[e]
  PROVE  UNCHANGED Serialization!vars
<1>1. \A e \in Calls : Admitted(e)' <=> Admitted(e)
  <2>1. \A e \in Calls : Admitted(e) <=> QueuePhase(e) \in {"queued", "active"}
    BY DEF QueuePhase, Admitted, Running, IsTimerCall
  <2>2. \A e \in Calls : Admitted(e)' <=> QueuePhase(e)' \in {"queued", "active"}
    BY DEF QueuePhase, Admitted, Running, IsTimerCall
  <2>3. QED
    BY <2>1, <2>2
<1>2. \A e \in Calls : Admitted(e) => Targets(e)' = Targets(e)
  BY DEF Targets
<1>3. phases' = phases /\ needs' = needs
  BY <1>1, <1>2 DEF phases, needs
<1>4. aheads' = aheads
  BY DEF aheads, Before
<1>5. QED
  BY <1>3, <1>4 DEF Serialization!vars, phases, needs, aheads

\* A call moves on within its phase.
LEMMA QueueStep ==
  ASSUME TypeInv, TypeInv', NEW c \in Calls, UNCHANGED <<cmdQueue, request>>,
         \A e \in Calls \ {c} : stage'[e] = stage[e], QueuePhase(c)' = QueuePhase(c)
  PROVE  UNCHANGED Serialization!vars
<1>1. \A e \in Calls \ {c} : QueuePhase(e)' = QueuePhase(e)
  BY DEF QueuePhase, Running, IsTimerCall, UsesQueue
<1>2. QED
  BY <1>1, QueueUnmoved

\* A request that comes to the queue has everything outstanding ahead of it.
LEMMA QueueRequested ==
  ASSUME TypeInv, TypeInv', Queues, Waits, NEW c \in Calls, stage[c] = "idle", stage'[c] = "queued",
         cmdQueue' = Append(cmdQueue, c),
         \A e \in Calls \ {c} : stage'[e] = stage[e] /\ request'[e] = request[e]
  PROVE  \E D \in SUBSET Devices : Serialization!Request(c, D)
<1> DEFINE n == Len(cmdQueue)
           w == cmdQueue'
<1>0. TypeOK /\ TypeOK' /\ cmdQueue \in Seq(Calls)
  BY DEF TypeInv, TypeOK
<1>1. Targets(c)' \subseteq Devices
  BY <1>0, CommandAssumption DEF TypeOK, RequestOK, Targets
<1>2. /\ QueuePhase(c) = "idle" /\ QueuePhase(c)' = "queued" /\ ~Admitted(c) /\ Admitted(c)'
      /\ \A e \in Calls \ {c} : /\ QueuePhase(e)' = QueuePhase(e)
                                /\ Admitted(e)' <=> Admitted(e)
                                /\ Targets(e)' = Targets(e)
  BY DEF QueuePhase, Admitted, Running, IsTimerCall, UsesQueue, Targets
<1>3. /\ n \in Nat /\ Len(w) = n + 1 /\ w[n + 1] = c
      /\ \A i \in 1..n : w[i] = cmdQueue[i] /\ i \in 1..Len(w) /\ i # n + 1
  BY <1>0, AppendFacts
<1>4. \A i \in 1..Len(w) : i \in 1..n \/ i = n + 1
  BY <1>3
<1>5. \A e \in Calls : Enqueued(e) <=> Admitted(e)
  BY DEF Queues, Waits, Admitted
<1>6. \A i \in 1..n : cmdQueue[i] # c
  BY <1>2, <1>5 DEF Enqueued
<1> HIDE DEF n, w
<1>7. \A e \in Calls : Before(e, c)' <=> Admitted(e)
  <2> SUFFICES ASSUME NEW e \in Calls PROVE Before(e, c)' <=> Enqueued(e)
    BY <1>5
  <2>1. ASSUME Before(e, c)' PROVE Enqueued(e)
    <3>1. PICK i, j \in 1..Len(w) : i < j /\ w[i] = e /\ w[j] = c
      BY <2>1 DEF Before, w
    <3>2. i \in 1..n
      BY <1>3, <1>4, <3>1
    <3>3. QED
      BY <1>3, <3>1, <3>2 DEF Enqueued, n
  <2>2. ASSUME Enqueued(e) PROVE Before(e, c)'
    <3>1. PICK i \in 1..n : cmdQueue[i] = e
      BY <2>2 DEF Enqueued, n
    <3>2. i \in 1..Len(w) /\ n + 1 \in 1..Len(w) /\ i < n + 1 /\ w[i] = e /\ w[n + 1] = c
      BY <1>3, <3>1
    <3>3. QED
      BY <3>2 DEF Before, w
  <2>3. QED
    BY <2>1, <2>2
<1>8. \A e \in Calls, f \in Calls \ {c} : Before(e, f)' <=> Before(e, f)
  <2> SUFFICES ASSUME NEW e \in Calls, NEW f \in Calls \ {c} PROVE Before(e, f)' <=> Before(e, f)
    OBVIOUS
  <2>1. ASSUME Before(e, f)' PROVE Before(e, f)
    <3>1. PICK i, j \in 1..Len(w) : i < j /\ w[i] = e /\ w[j] = f
      BY <2>1 DEF Before, w
    <3>2. j \in 1..n /\ i \in 1..n
      BY <1>3, <1>4, <3>1
    <3>3. QED
      BY <1>3, <3>1, <3>2 DEF Before, n
  <2>2. ASSUME Before(e, f) PROVE Before(e, f)'
    <3>1. PICK i, j \in 1..n : i < j /\ cmdQueue[i] = e /\ cmdQueue[j] = f
      BY <2>2 DEF Before, n
    <3>2. QED
      BY <1>3, <3>1 DEF Before, w
  <2>3. QED
    BY <2>1, <2>2
<1>9. phases[c] = "idle" /\ phases' = [phases EXCEPT ![c] = "queued"]
  BY <1>2 DEF phases
<1>10. needs' = [needs EXCEPT ![c] = Targets(c)']
  BY <1>2 DEF needs
<1>11. Serialization!Outstanding = {e \in Calls : Admitted(e)}
  BY PhaseFacts DEF Serialization!Outstanding
<1>12. aheads' = [aheads EXCEPT ![c] = Serialization!Outstanding]
  BY <1>7, <1>8, <1>11 DEF aheads
<1>13. PICK D \in SUBSET Devices : D = Targets(c)'
  BY <1>1
<1>14. Serialization!Request(c, D)
  BY <1>9, <1>10, <1>12, <1>13 DEF Serialization!Request, phases, needs, aheads
<1>15. QED
  BY <1>14

\* A call that is answered before it comes to the queue.
LEMMA QueueRefused ==
  ASSUME TypeInv, TypeInv', NEW c \in Calls, stage[c] = "idle", stage'[c] = "failed",
         cmdQueue' = cmdQueue,
         \A e \in Calls \ {c} : stage'[e] = stage[e] /\ request'[e] = request[e]
  PROVE  Serialization!Refuse(c) \/ UNCHANGED Serialization!vars
<1>1. /\ QueuePhase(c) = "idle" /\ QueuePhase(c)' \in {"idle", "finished"}
      /\ ~Admitted(c) /\ ~Admitted(c)'
      /\ \A e \in Calls \ {c} : /\ QueuePhase(e)' = QueuePhase(e)
                                /\ Admitted(e)' <=> Admitted(e)
                                /\ Targets(e)' = Targets(e)
  BY DEF QueuePhase, Admitted, Running, IsTimerCall, UsesQueue, Targets
<1>2. phases[c] = "idle" /\ phases' = [phases EXCEPT ![c] = QueuePhase(c)']
  BY <1>1 DEF phases
<1>3. needs' = needs
  BY <1>1 DEF needs
<1>4. aheads' = aheads
  BY DEF aheads, Before
<1>5. CASE QueuePhase(c)' = "finished"
  BY <1>2, <1>3, <1>4, <1>5 DEF Serialization!Refuse, phases, needs, aheads
<1>6. CASE QueuePhase(c)' = "idle"
  <2>1. phases' = phases
    BY <1>1, <1>6 DEF phases
  <2>2. QED
    BY <1>3, <1>4, <2>1 DEF Serialization!vars, phases, needs, aheads
<1>7. QED
  BY <1>1, <1>5, <1>6

\* A queued call starts when nothing older needs its displays.
LEMMA QueueBegun ==
  ASSUME TypeInv, TypeInv', Queues, NEW c \in Calls, stage[c] = "queued", Runnable(c),
         UNCHANGED <<cmdQueue, request>>, \A e \in Calls \ {c} : stage'[e] = stage[e], Running(c)'
  PROVE  Serialization!Begin(c)
<1>1. /\ QueuePhase(c) = "queued" /\ QueuePhase(c)' = "active" /\ Admitted(c) /\ Admitted(c)'
      /\ \A e \in Calls \ {c} : /\ QueuePhase(e)' = QueuePhase(e)
                                /\ Admitted(e)' <=> Admitted(e)
      /\ \A e \in Calls : Targets(e)' = Targets(e)
  <2>1. /\ QueuePhase(c) = "queued" /\ Admitted(c) /\ Admitted(c)' /\ QueuePhase(c)' = "active"
    BY DEF QueuePhase, Admitted, Running, IsTimerCall
  <2>2. QED
    BY <2>1 DEF QueuePhase, Admitted, Running, IsTimerCall, UsesQueue, Targets
<1>2. PICK k \in 1..Len(cmdQueue) : /\ cmdQueue[k] = c
                                    /\ \A i \in 1..(k - 1) : Targets(cmdQueue[i]) \cap Targets(c) = {}
  BY DEF Runnable
<1>3. \A e \in Calls : Before(e, c) => Targets(e) \cap Targets(c) = {}
  <2> SUFFICES ASSUME NEW e \in Calls, Before(e, c) PROVE Targets(e) \cap Targets(c) = {}
    OBVIOUS
  <2>1. PICK i, j \in 1..Len(cmdQueue) : i < j /\ cmdQueue[i] = e /\ cmdQueue[j] = c
    BY DEF Before
  <2>2. j = k
    BY <1>2, <2>1 DEF Queues
  <2>3. i \in 1..(k - 1)
    BY <2>1, <2>2 DEF TypeInv, TypeOK
  <2>4. QED
    BY <1>2, <2>1, <2>3
<1>4. phases[c] = "queued" /\ phases' = [phases EXCEPT ![c] = "active"]
  BY <1>1 DEF phases
<1>5. needs' = needs
  BY <1>1 DEF needs
<1>6. aheads' = aheads
  BY DEF aheads, Before
<1>7. \A p \in aheads[c] : needs[p] \cap needs[c] = {}
  BY <1>1, <1>3 DEF aheads, needs
<1>8. QED
  BY <1>4, <1>5, <1>6, <1>7 DEF Serialization!Begin, phases, needs, aheads

\* A call that is answered leaves the queue to the others, in their order.
LEMMA QueueEnded ==
  ASSUME TypeInv, TypeInv', Queues, NEW c \in Calls, NEW r \in {"succeeded", "failed"}, Finish(c, r),
         request' = request, Running(c)
  PROVE  Serialization!End(c)
<1> DEFINE q == cmdQueue
           w == cmdQueue'
<1>0. TypeOK
  BY DEF TypeInv
<1>1. stage'[c] = r /\ \A e \in Calls \ {c} : stage'[e] = stage[e]
  BY <1>0, FinishEffect
<1>2. Admitted(c) /\ UsesQueue(c) /\ QueuePhase(c) = "active"
  BY PhaseFacts DEF Admitted
<1>3. /\ QueuePhase(c)' = "finished" /\ ~Admitted(c)'
      /\ \A e \in Calls \ {c} : /\ QueuePhase(e)' = QueuePhase(e)
                                /\ Admitted(e)' <=> Admitted(e)
      /\ \A e \in Calls : Targets(e)' = Targets(e)
  BY <1>1, <1>2 DEF QueuePhase, Admitted, Running, IsTimerCall, UsesQueue, Targets
<1>4. /\ q \in Seq(Calls) /\ w = Without(q, c) /\ Len(q) \in Nat
      /\ \A i, j \in 1..Len(q) : q[i] = q[j] => i = j
  BY <1>0, FinishEffect DEF Queues, TypeOK
<1> HIDE DEF q, w
<1>5. \A i \in 1..Len(w) : w[i] # c
  BY <1>4, WithoutOrder, SMTT(20)
<1>6. \A i, j \in 1..Len(w) : i < j => \E k, l \in 1..Len(q) : k < l /\ w[i] = q[k] /\ w[j] = q[l]
  BY <1>4, WithoutOrder, SMTT(20)
<1>7. \A k \in 1..Len(q) : q[k] # c => \E i \in 1..Len(w) : w[i] = q[k]
  BY <1>4, WithoutOrder, SMTT(20)
<1>8. Len(w) \in Nat
  BY <1>4, WithoutOrder, SMTT(20)
<1>9. ASSUME NEW e \in Calls, NEW f \in Calls, Before(e, f)'
      PROVE  e # c /\ f # c /\ Before(e, f)
  <2>1. PICK i, j \in 1..Len(w) : i < j /\ w[i] = e /\ w[j] = f
    BY <1>9 DEF Before, w
  <2>2. PICK k, l \in 1..Len(q) : k < l /\ w[i] = q[k] /\ w[j] = q[l]
    BY <1>6, <2>1
  <2>3. QED
    BY <1>5, <2>1, <2>2 DEF Before, q
<1>10. ASSUME NEW e \in Calls \ {c}, NEW f \in Calls \ {c}, Before(e, f)
       PROVE  Before(e, f)'
  <2>1. PICK k, l \in 1..Len(q) : k < l /\ q[k] = e /\ q[l] = f
    BY <1>10 DEF Before, q
  <2>2. PICK i \in 1..Len(w) : w[i] = e
    BY <1>7, <2>1
  <2>3. PICK j \in 1..Len(w) : w[j] = f
    BY <1>7, <2>1
  <2>4. i # j
    BY <1>4, <2>1, <2>2, <2>3
  <2>5. ~(j < i)
    <3> SUFFICES ASSUME j < i PROVE FALSE
      OBVIOUS
    <3>1. PICK m, n \in 1..Len(q) : m < n /\ w[j] = q[m] /\ w[i] = q[n]
      BY <1>6
    <3>2. m = l /\ n = k
      BY <1>4, <2>1, <2>2, <2>3, <3>1
    <3>3. QED
      BY <1>4, <2>1, <3>1, <3>2
  <2>6. i < j
    BY <1>8, <2>4, <2>5
  <2>7. QED
    BY <2>2, <2>3, <2>6 DEF Before, w
<1>11. phases[c] = "active" /\ phases' = [phases EXCEPT ![c] = "finished"]
  BY <1>2, <1>3 DEF phases
<1>12. needs' = [needs EXCEPT ![c] = {}]
  BY <1>3 DEF needs
<1>13. aheads' = [p \in Calls |-> IF p = c THEN {} ELSE aheads[p] \ {c}]
  BY <1>9, <1>10 DEF aheads
<1>14. QED
  BY <1>11, <1>12, <1>13 DEF Serialization!End, phases, needs, aheads

\* The calls that set a mode are not in the queue when they are answered.
LEMMA QueuePassed ==
  ASSUME TypeInv, TypeInv', Queues, NEW c \in Calls, NEW r \in {"succeeded", "failed"}, Finish(c, r),
         request' = request, ~UsesQueue(c), stage[c] \notin {"queued", "reading", "resolving", "posting"}
  PROVE  UNCHANGED Serialization!vars
<1>0. TypeOK
  BY DEF TypeInv
<1>1. stage'[c] = r /\ \A e \in Calls \ {c} : stage'[e] = stage[e]
  BY <1>0, FinishEffect
<1>2. ~Admitted(c) /\ ~Enqueued(c)
  BY PhaseFacts DEF Queues
<1>3. cmdQueue' = cmdQueue
  BY <1>2, <1>0, FinishEffect DEF Without, Enqueued
<1>4. QueuePhase(c) = "idle" /\ QueuePhase(c)' = "idle"
  BY <1>1, <1>2 DEF QueuePhase, Admitted, Running, IsTimerCall, UsesQueue
<1>5. QED
  BY <1>1, <1>3, <1>4, QueueStep

LEMMA QueueFinished ==
  ASSUME TypeInv, TypeInv', Queues, NEW c \in Calls, NEW r \in {"succeeded", "failed"}, Finish(c, r),
         request' = request,
         stage[c] \in {"mode", "saving_mode", "column", "state", "saving_timer", "posting"}
  PROVE  [Serialization!Next]_(Serialization!vars)
<1>1. CASE Running(c)
  BY <1>1, QueueEnded DEF Serialization!Next
<1>2. CASE ~Running(c)
  <2>1. KindOK(c)
    BY DEF TypeInv, Kinds
  <2>2. request[c] \in Requests /\ RequestOK(request[c])
    BY RequestFacts DEF TypeInv
  <2>3. ~UsesQueue(c)
    BY <1>2, <2>1, <2>2 DEF Running, KindOK, UsesQueue, IsTimerCall, IsPost, RequestOK
  <2>4. QED
    BY <1>2, <2>3, QueuePassed DEF Running
<1>3. QED
  BY <1>1, <1>2

LEMMA RefinesInit == Init => Serialization!Init
<1> SUFFICES ASSUME Init PROVE Serialization!Init
  OBVIOUS
<1>1. \A c \in Calls : stage[c] = "idle"
  BY DEF Init
<1>2. \A c \in Calls : QueuePhase(c) = "idle" /\ ~Admitted(c)
  BY <1>1 DEF QueuePhase, Admitted, Running, IsTimerCall, UsesQueue
<1>3. cmdQueue = <<>> /\ Len(cmdQueue) = 0
  BY DEF Init
<1>4. \A c, e \in Calls : ~Before(e, c)
  BY <1>3 DEF Before
<1>5. QED
  BY <1>2, <1>4 DEF Serialization!Init

LEMMA RefinesNext == IInv /\ Waits /\ [Next]_vars => [Serialization!Next]_(Serialization!vars)
<1> SUFFICES ASSUME IInv, Waits, [Next]_vars PROVE [Serialization!Next]_(Serialization!vars)
  OBVIOUS
<1>0. TypeInv /\ TypeInv' /\ TypeOK /\ Queues /\ \A c \in Calls : KindOK(c)
  BY StepTypeInv DEF IInv, Core, TypeInv, Kinds
<1> DEFINE Goal == [Serialization!Next]_(Serialization!vars)
<1>1. ASSUME NEW c \in Calls, NEW r \in Requests, Submit(c, r)
      PROVE  Goal
  <2>1. stage[c] = "idle" /\ \A e \in Calls \ {c} : stage'[e] = stage[e] /\ request'[e] = request[e]
    BY <1>0, <1>1 DEF Submit, TypeOK
  <2>2. \/ stage'[c] = "failed" /\ cmdQueue' = cmdQueue
        \/ stage'[c] = "mode" /\ r.kind \in {"set_mode", "sync_mode"} /\ cmdQueue' = cmdQueue
        \/ stage'[c] = "queued" /\ cmdQueue' = Append(cmdQueue, c)
    BY <1>0, <1>1 DEF Submit, TypeOK
  <2>3. request'[c] = r
    BY <1>0, <1>1 DEF Submit, TypeOK
  <2>4. CASE stage'[c] = "failed" /\ cmdQueue' = cmdQueue
    BY <1>0, <2>1, <2>4, QueueRefused DEF Serialization!Next
  <2>5. CASE stage'[c] = "queued" /\ cmdQueue' = Append(cmdQueue, c)
    BY <1>0, <2>1, <2>5, QueueRequested DEF Serialization!Next
  <2>6. CASE stage'[c] = "mode" /\ r.kind \in {"set_mode", "sync_mode"} /\ cmdQueue' = cmdQueue
    <3>1. /\ \A e \in Calls : QueuePhase(e)' = QueuePhase(e)
          /\ ~Admitted(c)
      BY <2>1, <2>3, <2>6 DEF QueuePhase, Admitted, Running, IsTimerCall, UsesQueue
    <3>2. QED
      BY <1>0, <2>1, <2>6, <3>1, QueueUnmoved
  <2>7. QED
    BY <2>2, <2>4, <2>5, <2>6
<1>2. ASSUME NEW c \in Calls, Begin(c)
      PROVE  Goal
  <2>1. /\ stage[c] = "queued" /\ Runnable(c) /\ UNCHANGED <<cmdQueue, request>>
        /\ \A e \in Calls \ {c} : stage'[e] = stage[e]
    BY <1>0, <1>2 DEF Begin, TypeOK
  <2>2. stage'[c] \in {"posting", "reading", "resolving"}
    BY <1>0, <1>2 DEF Begin, TypeOK
  <2>3. Running(c)'
    BY <2>2 DEF Running
  <2>4. QED
    BY <1>0, <2>1, <2>3, QueueBegun DEF Serialization!Next
<1>3. ASSUME NEW c \in Calls, NEW s \in Stages, stage' = [stage EXCEPT ![c] = s],
             UNCHANGED <<cmdQueue, request>>,
             \/ /\ IsTimerCall(c) /\ Running(c)
                /\ s \in {"resolving", "mode", "saving_mode", "state", "saving_timer"}
             \/ ~UsesQueue(c) /\ stage[c] \in {"mode", "saving_mode"} /\ s \in {"saving_mode", "column"}
      PROVE  Goal
  <2>1. stage'[c] = s /\ \A e \in Calls \ {c} : stage'[e] = stage[e]
    BY <1>0, <1>3 DEF TypeOK
  <2>2. QueuePhase(c)' = QueuePhase(c)
    BY <1>3, <2>1 DEF QueuePhase, Running, IsTimerCall, UsesQueue
  <2>3. QED
    BY <1>0, <1>3, <2>1, <2>2, QueueStep
<1>4. ASSUME NEW c \in Calls, ReadMode(c) \/ Resolve(c)
      PROVE  Goal
  <2>1. KindOK(c)
    BY <1>0
  <2>2. IsTimerCall(c) /\ Running(c)
    BY <1>4, <2>1 DEF ReadMode, Resolve, KindOK, Running
  <2>3. UNCHANGED <<cmdQueue, request>> /\ \E s \in {"resolving", "mode"} : stage' = [stage EXCEPT ![c] = s]
    BY <1>4 DEF ReadMode, Resolve
  <2>4. QED
    BY <1>3, <2>2, <2>3 DEF Stages
<1>5. ASSUME NEW c \in Calls, ModeAnswered(c)
      PROVE  Goal
  <2>1. request' = request /\ stage[c] = "mode"
    BY <1>5 DEF ModeAnswered, callVars
  <2>2. (IsTimerCall(c) /\ Running(c)) \/ ~UsesQueue(c)
    <3>1. KindOK(c) /\ request[c] \in Requests /\ RequestOK(request[c])
      BY <1>0, RequestFacts
    <3>2. QED
      BY <2>1, <3>1 DEF KindOK, IsPost, RequestOK, IsTimerCall, Running, UsesQueue
  <2>3. CASE /\ request[c].kind = "set_timer" /\ stage' = [stage EXCEPT ![c] = "state"] /\ UNCHANGED cmdQueue
    <3>1. IsTimerCall(c) /\ Running(c)
      BY <2>1, <2>3 DEF IsTimerCall, Running
    <3>2. QED
      BY <1>3, <2>1, <2>3, <3>1 DEF Stages
  <2>4. CASE Finish(c, "failed")
    BY <1>0, <2>1, <2>4, QueueFinished
  <2>5. CASE stage' = [stage EXCEPT ![c] = "saving_mode"] /\ UNCHANGED cmdQueue
    BY <1>3, <2>1, <2>2, <2>5 DEF Stages
  <2>6. QED
    BY <1>5, <2>3, <2>4, <2>5 DEF ModeAnswered
<1>6. ASSUME NEW c \in Calls, ModeSaved(c)
      PROVE  Goal
  <2>1. request' = request /\ stage[c] = "saving_mode"
    BY <1>6 DEF ModeSaved, callVars
  <2>2. CASE request[c].kind = "set_mode" /\ stage' = [stage EXCEPT ![c] = "column"] /\ UNCHANGED cmdQueue
    <3>1. ~UsesQueue(c)
      BY <2>2 DEF UsesQueue
    <3>2. QED
      BY <1>3, <2>1, <2>2, <3>1 DEF Stages
  <2>3. CASE request[c].kind = "sync_timer" /\ stage' = [stage EXCEPT ![c] = "state"] /\ UNCHANGED cmdQueue
    <3>1. IsTimerCall(c) /\ Running(c)
      BY <2>1, <2>3 DEF IsTimerCall, Running
    <3>2. QED
      BY <1>3, <2>1, <2>3, <3>1 DEF Stages
  <2>4. CASE \E r \in {"succeeded", "failed"} : Finish(c, r)
    BY <1>0, <2>1, <2>4, QueueFinished
  <2>5. QED
    BY <1>6, <2>2, <2>3, <2>4 DEF ModeSaved
<1>7. ASSUME NEW c \in Calls, StateAnswered(c)
      PROVE  Goal
  <2>1. request' = request /\ stage[c] = "state"
    BY <1>7 DEF StateAnswered, callVars
  <2>2. KindOK(c)
    BY <1>0
  <2>3. IsTimerCall(c) /\ Running(c)
    BY <2>1, <2>2 DEF KindOK, TimerStages, Running
  <2>4. CASE Finish(c, "failed")
    BY <1>0, <2>1, <2>4, QueueFinished
  <2>5. CASE stage' = [stage EXCEPT ![c] = "saving_timer"] /\ UNCHANGED cmdQueue
    BY <1>3, <2>1, <2>3, <2>5 DEF Stages
  <2>6. QED
    BY <1>7, <2>4, <2>5 DEF StateAnswered
<1>8. ASSUME NEW c \in Calls, WriteColumn(c) \/ TimerSaved(c) \/ PostState(c)
      PROVE  Goal
  <2>1. request' = request /\ stage[c] \in {"column", "saving_timer", "posting"}
    BY <1>8 DEF WriteColumn, TimerSaved, PostState, callVars
  <2>2. \E r \in {"succeeded", "failed"} : Finish(c, r)
    BY <1>8 DEF WriteColumn, TimerSaved, PostState
  <2>3. QED
    BY <1>0, <2>1, <2>2, QueueFinished
<1>9. ASSUME UNCHANGED <<cmdQueue, stage, request>>
      PROVE  Goal
  <2>1. \A e \in Calls : QueuePhase(e)' = QueuePhase(e)
    BY <1>9 DEF QueuePhase, Running, IsTimerCall, UsesQueue
  <2>2. QED
    BY <1>0, <1>9, <2>1, QueueUnmoved
<1>10. ASSUME NEW c \in Calls, NEW d \in Devices, Timeout(c, d)
       PROVE  Goal
  BY <1>9, <1>10 DEF Timeout, callVars
<1>11. ASSUME NEW d \in Devices, \/ PersistRead(d) \/ WriteMode(d) \/ WriteTimer(d) \/ Deliver(d)
                                 \/ Disconnect(d) \/ HelloRead(d) \/ HelloJoin(d)
       PROVE  Goal
  BY <1>9, <1>11 DEF PersistRead, WriteMode, WriteTimer, Deliver, Disconnect, HelloRead, HelloJoin, callVars
<1>12. CASE UNCHANGED vars
  BY <1>9, <1>12 DEF vars, callVars
<1> HIDE DEF Goal
<1>13. QED
  BY <1>1, <1>2, <1>4, <1>5, <1>6, <1>7, <1>8, <1>10, <1>11, <1>12, NextCases DEF Goal

\* The command queue of the routes, kept here as one sequence of calls, keeps
\* the promise of the per-device queues: whoever shares a display takes turns
\* in the order of arrival, until the request is answered.  CommandQueue proves
\* the same of the chains of promises that the sequence stands for.
THEOREM CommandsAreSerialized == Spec => CommandsSerialize
<1>1. QED
  BY RefinesInit, RefinesNext, WaitsAlways, PTL DEF Spec, CommandsSerialize, Serialization!Spec
=============================================================================
