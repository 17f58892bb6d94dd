---------------------------- MODULE Agent_proofs ----------------------------
(***************************************************************************)
(* What runs on the display, for any number of requests, versions,        *)
(* overlays and troubles.                                                  *)
(*                                                                         *)
(*   NetworkRecovery  Safe: nothing but main() runs until main() is done    *)
(*                    (Volatile); a recovery that waits for the status was  *)
(*                    started in mode online and nothing has put the        *)
(*                    display in setup mode since (RecoveryMode); in the    *)
(*                    midst of the handlers only a retry that has yet to    *)
(*                    end may show another banner (Announced).  Ahead: a    *)
(*                    display in setup mode has a way back.                 *)
(*   SoftwareUpdate   LockInv, LinksInv: as long as the power has not       *)
(*                    failed while a script had the links in its hands, at  *)
(*                    most one script moves them, and it knows where they   *)
(*                    were before, which is where it is well to leave them  *)
(*                    (Good); ArchiveInv: a version that was never     *)
(*                    downloaded twice at once has one whole archive.       *)
(*   Presentation     HornInv: what the kiosk shows, the answers on their   *)
(*                    way to it and what is on disk stand in a line.        *)
(***************************************************************************)
EXTENDS NetworkRecovery, SoftwareUpdate, Presentation, TLAPS

-----------------------------------------------------------------------------
(* NetworkRecovery: what is at rest, and what setup mode announces.        *)

Volatile ==
  agent # "run" => /\ recovery = "idle" /\ retry = "idle"
                   /\ ~socket /\ ~portal
                   /\ \A p \in Posts : post[p].stage = "none"

RecoveryMode == recovery = "status" => paired /\ mode = "online"

Announced ==
  (agent \in {"ap", "run"} /\ paired /\ mode = "setup")
    => banner = "setup" \/ retry \in {"stop", "connect", "connected"}

BootMode == agent = "ap" => mode = "setup"

Safe == Volatile /\ RecoveryMode /\ BootMode /\ RetryIsPending /\ Announced

-----------------------------------------------------------------------------
\* The parts of TypeOK: the states of the handlers, the flags, the rest.
StatesOK ==
  /\ mode \in {"setup", "pairing", "online"}
  /\ banner \in {"online", "offline", "setup", "reconnecting"}
  /\ profiles \in {"none", "wrong", "right"}
  /\ radio \in {"idle", "wifi", "released", "ap"}
  /\ agent \in {"off", "status", "ap", "run"}
  /\ recovery \in {"idle", "status", "ap"}
  /\ retry \in {"idle", "check", "stop", "connect", "connected", "ap"}

FlagsOK ==
  /\ paired \in BOOLEAN /\ portal \in BOOLEAN
  /\ inProgress \in BOOLEAN /\ recoveryTimer \in BOOLEAN /\ retryTimer \in BOOLEAN
  /\ socket \in BOOLEAN /\ welcome \in BOOLEAN
  /\ client \in BOOLEAN /\ stranded \in BOOLEAN

Airs == [wifi : BOOLEAN, second : BOOLEAN, server : BOOLEAN]

DataOK ==
  /\ post \in [Posts -> [stage : {"none", "sent", "connect", "ap", "done"}, right : BOOLEAN]]
  /\ air \in Airs
  /\ troubles \in 0..MaxTroubles

LEMMA TypeParts == TypeOK <=> StatesOK /\ FlagsOK /\ DataOK
  BY DEF TypeOK, StatesOK, FlagsOK, DataOK, Airs

LEMMA Flip ==
  ASSUME NEW a \in Airs, NEW part \in {"wifi", "second", "server"}
  PROVE  [a EXCEPT ![part] = ~a[part]] \in Airs
<1>1. PICK b \in BOOLEAN : b = ~a[part]
  OBVIOUS
<1>2. [a EXCEPT ![part] = b] \in Airs
  BY DEF Airs
<1>3. QED
  BY <1>1, <1>2, Zenon

LEMMA InitTypeOK == Init => TypeOK
<1> SUFFICES ASSUME Init PROVE StatesOK /\ FlagsOK /\ DataOK
  BY TypeParts
<1>1. StatesOK /\ FlagsOK
  BY DEF Init, StatesOK, FlagsOK
<1>2. post \in [Posts -> [stage : {"none", "sent", "connect", "ap", "done"}, right : BOOLEAN]]
  BY DEF Init, NoPost
<1>3. air \in Airs /\ troubles \in 0..MaxTroubles
  BY NetworkAssumption DEF Init, Airs
<1>4. QED
  BY <1>1, <1>2, <1>3 DEF DataOK

\* The handlers are where they can be.
LEMMA NextStatesOK == StatesOK /\ [Next]_vars => StatesOK'
<1> SUFFICES ASSUME StatesOK, [Next]_vars PROVE StatesOK'
  OBVIOUS
<1> USE DEF StatesOK, files, recoveryVars, retryVars, linkVars, worldVars
<1>1. CASE MainStep
  <2>1. CASE Boot
    BY <2>1 DEF Boot, EnterSetup, ApRelease
  <2>2. CASE BootStatus
    BY <2>2 DEF BootStatus, EnterSetup, ApRelease
  <2>3. CASE BootSetup
    BY <2>3 DEF BootSetup, SetupEntered, SetupThrows, ApStarts, ApFails, Trouble, RetryTimerFrom
  <2>4. QED
    BY <1>1, <2>1, <2>2, <2>3 DEF MainStep
<1>2. CASE RecoveryFires \/ RecoveryStep
  <2>1. CASE RecoveryFires
    BY <2>1 DEF RecoveryFires
  <2>2. CASE RecoveryStatus
    BY <2>2 DEF RecoveryStatus, EnterSetup, ApRelease
  <2>3. CASE RecoverySetup
    BY <2>3 DEF RecoverySetup, SetupEntered, SetupThrows, ApStarts, ApFails, Trouble,
                RetryTimerFrom, Strand
  <2>4. QED
    BY <1>2, <2>1, <2>2, <2>3 DEF RecoveryStep
<1>3. CASE RetryFires \/ RetryStep
  <2>1. CASE RetryFires
    BY <2>1 DEF RetryFires
  <2>2. CASE RetryCheck
    BY <2>2 DEF RetryCheck, RetryEnds
  <2>3. CASE RetryStop
    BY <2>3 DEF RetryStop, ApStop
  <2>4. CASE RetryConnected
    BY <2>4 DEF RetryConnected
  <2>5. CASE RetryOnline
    BY <2>5 DEF RetryOnline, RetryEnds
  <2>6. CASE RetryTimesOut
    BY <2>6 DEF RetryTimesOut, ApRelease, Trouble
  <2>7. CASE RetrySetup
    BY <2>7 DEF RetrySetup, RetryEnds, ApStarts, ApFails, Trouble
  <2>8. QED
    BY <1>3, <2>1, <2>2, <2>3, <2>4, <2>5, <2>6, <2>7 DEF RetryStep
<1>4. CASE SocketStep \/ ConnectError
  <2>1. CASE Connect
    BY <2>1 DEF Connect, Strand
  <2>2. CASE Disconnect
    BY <2>2 DEF Disconnect, Schedule
  <2>3. CASE Welcomed
    BY <2>3 DEF Welcomed, PairingComplete
  <2>4. CASE ConnectError
    BY <2>4 DEF ConnectError, Schedule
  <2>5. QED
    BY <1>4, <2>1, <2>2, <2>3, <2>4 DEF SocketStep
<1>5. CASE WifiJoins \/ World
  <2>1. CASE WifiJoins
    BY <2>1 DEF WifiJoins
  <2>2. CASE Restart
    BY <2>2 DEF Restart, NoPost, Trouble
  <2>3. CASE Claimed
    BY <2>3 DEF Claimed, PairingComplete
  <2>4. CASE WifiChanges
    BY <2>4 DEF WifiChanges, Trouble
  <2>5. CASE ReachChanges
    BY <2>5 DEF ReachChanges, Trouble
  <2>6. CASE ClientChanges
    BY <2>6 DEF ClientChanges
  <2>7. QED
    BY <1>5, <2>1, <2>2, <2>3, <2>4, <2>5, <2>6 DEF World
<1>6. ASSUME NEW p \in Posts, PortalPost(p) \/ PortalStep(p) PROVE StatesOK'
  <2>1. CASE PortalPost(p)
    BY <2>1 DEF PortalPost
  <2>2. CASE PortalStop(p)
    BY <2>2 DEF PortalStop, ApStop
  <2>3. CASE PortalConnected(p)
    BY <2>3 DEF PortalConnected
  <2>4. CASE PortalRefused(p)
    BY <2>4 DEF PortalRefused, ApRelease, Trouble
  <2>5. CASE PortalSetup(p)
    BY <2>5 DEF PortalSetup, ApStarts, ApFails, Trouble
  <2>6. QED
    BY <1>6, <2>1, <2>2, <2>3, <2>4, <2>5 DEF PortalStep
<1>7. CASE UNCHANGED vars
  BY <1>7 DEF vars
<1>8. QED
  BY <1>1, <1>2, <1>3, <1>4, <1>5, <1>6, <1>7 DEF Next

\* The flags are Boolean.
LEMMA NextFlagsOK == FlagsOK /\ [Next]_vars => FlagsOK'
<1> SUFFICES ASSUME FlagsOK, [Next]_vars PROVE FlagsOK'
  OBVIOUS
<1> USE DEF FlagsOK, files, recoveryVars, retryVars, linkVars, worldVars
<1>1. CASE MainStep
  <2>1. CASE Boot
    BY <2>1 DEF Boot, EnterSetup, ApRelease
  <2>2. CASE BootStatus
    BY <2>2 DEF BootStatus, EnterSetup, ApRelease
  <2>3. CASE BootSetup
    BY <2>3 DEF BootSetup, SetupEntered, SetupThrows, ApStarts, ApFails, Trouble, RetryTimerFrom
  <2>4. QED
    BY <1>1, <2>1, <2>2, <2>3 DEF MainStep
<1>2. CASE RecoveryFires \/ RecoveryStep
  <2>1. CASE RecoveryFires
    BY <2>1 DEF RecoveryFires
  <2>2. CASE RecoveryStatus
    BY <2>2 DEF RecoveryStatus, EnterSetup, ApRelease
  <2>3. CASE RecoverySetup
    BY <2>3 DEF RecoverySetup, SetupEntered, SetupThrows, ApStarts, ApFails, Trouble,
                RetryTimerFrom, Strand
  <2>4. QED
    BY <1>2, <2>1, <2>2, <2>3 DEF RecoveryStep
<1>3. CASE RetryFires \/ RetryStep
  <2>1. CASE RetryFires
    BY <2>1 DEF RetryFires
  <2>2. CASE RetryCheck
    BY <2>2 DEF RetryCheck, RetryEnds
  <2>3. CASE RetryStop
    BY <2>3 DEF RetryStop, ApStop
  <2>4. CASE RetryConnected
    BY <2>4 DEF RetryConnected
  <2>5. CASE RetryOnline
    BY <2>5 DEF RetryOnline, RetryEnds
  <2>6. CASE RetryTimesOut
    BY <2>6 DEF RetryTimesOut, ApRelease, Trouble
  <2>7. CASE RetrySetup
    BY <2>7 DEF RetrySetup, RetryEnds, ApStarts, ApFails, Trouble
  <2>8. QED
    BY <1>3, <2>1, <2>2, <2>3, <2>4, <2>5, <2>6, <2>7 DEF RetryStep
<1>4. CASE SocketStep \/ ConnectError
  <2>1. CASE Connect
    BY <2>1 DEF Connect, Strand
  <2>2. CASE Disconnect
    BY <2>2 DEF Disconnect, Schedule
  <2>3. CASE Welcomed
    BY <2>3 DEF Welcomed, PairingComplete
  <2>4. CASE ConnectError
    BY <2>4 DEF ConnectError, Schedule
  <2>5. QED
    BY <1>4, <2>1, <2>2, <2>3, <2>4 DEF SocketStep
<1>5. CASE WifiJoins \/ World
  <2>1. CASE WifiJoins
    BY <2>1 DEF WifiJoins
  <2>2. CASE Restart
    BY <2>2 DEF Restart, NoPost, Trouble
  <2>3. CASE Claimed
    BY <2>3 DEF Claimed, PairingComplete
  <2>4. CASE WifiChanges
    BY <2>4 DEF WifiChanges, Trouble
  <2>5. CASE ReachChanges
    BY <2>5 DEF ReachChanges, Trouble
  <2>6. CASE ClientChanges
    BY <2>6 DEF ClientChanges
  <2>7. QED
    BY <1>5, <2>1, <2>2, <2>3, <2>4, <2>5, <2>6 DEF World
<1>6. ASSUME NEW p \in Posts, PortalPost(p) \/ PortalStep(p) PROVE FlagsOK'
  <2>1. CASE PortalPost(p)
    BY <2>1 DEF PortalPost
  <2>2. CASE PortalStop(p)
    BY <2>2 DEF PortalStop, ApStop
  <2>3. CASE PortalConnected(p)
    BY <2>3 DEF PortalConnected
  <2>4. CASE PortalRefused(p)
    BY <2>4 DEF PortalRefused, ApRelease, Trouble
  <2>5. CASE PortalSetup(p)
    BY <2>5 DEF PortalSetup, ApStarts, ApFails, Trouble
  <2>6. QED
    BY <1>6, <2>1, <2>2, <2>3, <2>4, <2>5 DEF PortalStep
<1>7. CASE UNCHANGED vars
  BY <1>7 DEF vars
<1>8. QED
  BY <1>1, <1>2, <1>3, <1>4, <1>5, <1>6, <1>7 DEF Next

\* Requests, networks and the count of troubles.
LEMMA NextDataOK == DataOK /\ [Next]_vars => DataOK'
<1> SUFFICES ASSUME DataOK, [Next]_vars PROVE DataOK'
  OBVIOUS
<1> USE NetworkAssumption DEF DataOK, files, recoveryVars, retryVars, linkVars, worldVars
<1>1. CASE MainStep
  <2>1. CASE Boot
    BY <2>1 DEF Boot, EnterSetup, ApRelease
  <2>2. CASE BootStatus
    BY <2>2 DEF BootStatus, EnterSetup, ApRelease
  <2>3. CASE BootSetup
    BY <2>3 DEF BootSetup, SetupEntered, SetupThrows, ApStarts, ApFails, Trouble, RetryTimerFrom
  <2>4. QED
    BY <1>1, <2>1, <2>2, <2>3 DEF MainStep
<1>2. CASE RecoveryFires \/ RecoveryStep
  <2>1. CASE RecoveryFires
    BY <2>1 DEF RecoveryFires
  <2>2. CASE RecoveryStatus
    BY <2>2 DEF RecoveryStatus, EnterSetup, ApRelease
  <2>3. CASE RecoverySetup
    BY <2>3 DEF RecoverySetup, SetupEntered, SetupThrows, ApStarts, ApFails, Trouble,
                RetryTimerFrom, Strand
  <2>4. QED
    BY <1>2, <2>1, <2>2, <2>3 DEF RecoveryStep
<1>3. CASE RetryFires \/ RetryStep
  <2>1. CASE RetryFires
    BY <2>1 DEF RetryFires
  <2>2. CASE RetryCheck
    BY <2>2 DEF RetryCheck, RetryEnds
  <2>3. CASE RetryStop
    BY <2>3 DEF RetryStop, ApStop
  <2>4. CASE RetryConnected
    BY <2>4 DEF RetryConnected
  <2>5. CASE RetryOnline
    BY <2>5 DEF RetryOnline, RetryEnds
  <2>6. CASE RetryTimesOut
    BY <2>6 DEF RetryTimesOut, ApRelease, Trouble
  <2>7. CASE RetrySetup
    BY <2>7 DEF RetrySetup, RetryEnds, ApStarts, ApFails, Trouble
  <2>8. QED
    BY <1>3, <2>1, <2>2, <2>3, <2>4, <2>5, <2>6, <2>7 DEF RetryStep
<1>4. CASE SocketStep \/ ConnectError
  <2>1. CASE Connect
    BY <2>1 DEF Connect, Strand
  <2>2. CASE Disconnect
    BY <2>2 DEF Disconnect, Schedule
  <2>3. CASE Welcomed
    BY <2>3 DEF Welcomed, PairingComplete
  <2>4. CASE ConnectError
    BY <2>4 DEF ConnectError, Schedule
  <2>5. QED
    BY <1>4, <2>1, <2>2, <2>3, <2>4 DEF SocketStep
<1>5. CASE WifiJoins \/ World
  <2>1. CASE WifiJoins
    BY <2>1 DEF WifiJoins
  <2>2. CASE Restart
    BY <2>2 DEF Restart, NoPost, Trouble
  <2>3. CASE Claimed
    BY <2>3 DEF Claimed, PairingComplete
  <2>4. CASE WifiChanges
    <3>1. air' \in Airs
      BY <2>4, Flip, Zenon DEF WifiChanges, DataOK
    <3>2. QED
      BY <2>4, <3>1 DEF WifiChanges, Trouble
  <2>5. CASE ReachChanges
    <3>1. air' \in Airs
      BY <2>5, Flip, Zenon DEF ReachChanges, DataOK
    <3>2. QED
      BY <2>5, <3>1 DEF ReachChanges, Trouble
  <2>6. CASE ClientChanges
    BY <2>6 DEF ClientChanges
  <2>7. QED
    BY <1>5, <2>1, <2>2, <2>3, <2>4, <2>5, <2>6 DEF World
<1>6. ASSUME NEW p \in Posts, PortalPost(p) \/ PortalStep(p) PROVE DataOK'
  <2>1. CASE PortalPost(p)
    BY <2>1 DEF PortalPost
  <2>2. CASE PortalStop(p)
    BY <2>2 DEF PortalStop, ApStop
  <2>3. CASE PortalConnected(p)
    BY <2>3 DEF PortalConnected
  <2>4. CASE PortalRefused(p)
    BY <2>4 DEF PortalRefused, ApRelease, Trouble
  <2>5. CASE PortalSetup(p)
    BY <2>5 DEF PortalSetup, ApStarts, ApFails, Trouble
  <2>6. QED
    BY <1>6, <2>1, <2>2, <2>3, <2>4, <2>5 DEF PortalStep
<1>7. CASE UNCHANGED vars
  BY <1>7 DEF vars
<1>8. QED
  BY <1>1, <1>2, <1>3, <1>4, <1>5, <1>6, <1>7 DEF Next

LEMMA NextTypeOK == TypeOK /\ [Next]_vars => TypeOK'
<1>1. TypeOK' <=> StatesOK' /\ FlagsOK' /\ DataOK'
  BY DEF TypeOK, StatesOK, FlagsOK, DataOK, Airs
<1>2. QED
  BY <1>1, TypeParts, NextStatesOK, NextFlagsOK, NextDataOK

-----------------------------------------------------------------------------
LEMMA InitSafe == Init => Safe
  BY DEF Init, NoPost, Safe, Volatile, RecoveryMode, BootMode, RetryIsPending, Announced

\* What each action does to the parts of Safe.  RecoveryStatus and Connect write a
\* banner: the mode decides.  Recovery, retry and boot end with a timer set, or the
\* run is stranded.
LEMMA NextSafe == Safe /\ [Next]_vars => Safe'
<1> SUFFICES ASSUME Safe, [Next]_vars PROVE Safe'
  OBVIOUS
<1> USE DEF Safe, Volatile, RecoveryMode, BootMode, RetryIsPending, Announced, files,
            recoveryVars, retryVars, linkVars, worldVars
<1>1. CASE MainStep
  <2>1. CASE Boot
    BY <2>1 DEF Boot, EnterSetup, ApRelease
  <2>2. CASE BootStatus
    BY <2>2 DEF BootStatus, EnterSetup, ApRelease
  <2>3. CASE BootSetup
    <3> USE <2>3 DEF BootSetup
    <3>1. Volatile'
      BY DEF SetupThrows, ApFails
    <3>2. RecoveryMode' /\ BootMode' /\ Announced'
      OBVIOUS
    <3>3. RetryIsPending'
      BY DEF RetryTimerFrom
    <3>4. QED
      BY <3>1, <3>2, <3>3
  <2>4. QED
    BY <1>1, <2>1, <2>2, <2>3 DEF MainStep
<1>2. CASE RecoveryFires \/ RecoveryStep
  <2>1. CASE RecoveryFires
    BY <2>1 DEF RecoveryFires
  <2>2. CASE RecoveryStatus
    BY <2>2 DEF RecoveryStatus, EnterSetup, ApRelease
  <2>3. CASE RecoverySetup
    BY <2>3 DEF RecoverySetup, SetupEntered, SetupThrows, ApStarts, ApFails, Trouble,
                RetryTimerFrom, Strand
  <2>4. QED
    BY <1>2, <2>1, <2>2, <2>3 DEF RecoveryStep
<1>3. CASE RetryFires \/ RetryStep
  <2>1. CASE RetryFires
    BY <2>1 DEF RetryFires
  <2>2. CASE RetryCheck
    BY <2>2 DEF RetryCheck, RetryEnds
  <2>3. CASE RetryStop
    BY <2>3 DEF RetryStop, ApStop
  <2>4. CASE RetryConnected
    BY <2>4 DEF RetryConnected
  <2>5. CASE RetryOnline
    BY <2>5 DEF RetryOnline, RetryEnds
  <2>6. CASE RetryTimesOut
    BY <2>6 DEF RetryTimesOut, ApRelease, Trouble
  <2>7. CASE RetrySetup
    BY <2>7 DEF RetrySetup, RetryEnds, ApStarts, ApFails, Trouble
  <2>8. QED
    BY <1>3, <2>1, <2>2, <2>3, <2>4, <2>5, <2>6, <2>7 DEF RetryStep
<1>4. CASE SocketStep \/ ConnectError
  <2>1. CASE Connect
    BY <2>1 DEF Connect, Strand
  <2>2. CASE Disconnect
    BY <2>2 DEF Disconnect, Schedule
  <2>3. CASE Welcomed
    BY <2>3 DEF Welcomed, PairingComplete
  <2>4. CASE ConnectError
    BY <2>4 DEF ConnectError, Schedule
  <2>5. QED
    BY <1>4, <2>1, <2>2, <2>3, <2>4 DEF SocketStep
<1>5. CASE WifiJoins \/ World
  <2>1. CASE WifiJoins
    BY <2>1 DEF WifiJoins
  <2>2. CASE Restart
    BY <2>2 DEF Restart, NoPost, Trouble
  <2>3. CASE Claimed
    BY <2>3 DEF Claimed, PairingComplete
  <2>4. CASE WifiChanges
    BY <2>4 DEF WifiChanges, Trouble
  <2>5. CASE ReachChanges
    BY <2>5 DEF ReachChanges, Trouble
  <2>6. CASE ClientChanges
    BY <2>6 DEF ClientChanges
  <2>7. QED
    BY <1>5, <2>1, <2>2, <2>3, <2>4, <2>5, <2>6 DEF World
<1>6. ASSUME NEW p \in Posts, PortalPost(p) \/ PortalStep(p) PROVE Safe'
  <2>1. CASE PortalPost(p)
    BY <2>1 DEF PortalPost
  <2>2. CASE PortalStop(p)
    BY <2>2 DEF PortalStop, ApStop
  <2>3. CASE PortalConnected(p)
    BY <2>3 DEF PortalConnected
  <2>4. CASE PortalRefused(p)
    BY <2>4 DEF PortalRefused, ApRelease, Trouble
  <2>5. CASE PortalSetup(p)
    BY <2>5 DEF PortalSetup, ApStarts, ApFails, Trouble
  <2>6. QED
    BY <1>6, <2>1, <2>2, <2>3, <2>4, <2>5 DEF PortalStep
<1>7. CASE UNCHANGED vars
  BY <1>7 DEF vars
<1>8. QED
  BY <1>1, <1>2, <1>3, <1>4, <1>5, <1>6, <1>7 DEF Next

-----------------------------------------------------------------------------
\* The variables have their types, for any requests and any number of troubles.
THEOREM NetworkTypeCorrect == Spec => []TypeOK
<1>1. QED
  BY InitTypeOK, NextTypeOK, PTL DEF Spec

\* The invariant that the two theorems below rest on.
THEOREM NetworkInvariance == Spec => []Safe
<1>1. QED
  BY InitSafe, NextSafe, PTL DEF Spec

\* startMaintenanceWifiRecovery and the finally block of the retry: a paired display in
\* setup mode tries its WiFi again, unless its run is stranded.
THEOREM RetryPending == Spec => []RetryIsPending
<1>1. Safe => RetryIsPending
  BY DEF Safe
<1>2. QED
  BY <1>1, NetworkInvariance, PTL

\* enterWifiSetupMode and the retry: a paired display in setup mode says so.
THEOREM SetupAnnounced == Spec => []SetupIsAnnounced
<1>1. Safe => SetupIsAnnounced
  BY DEF Safe, Announced, SetupIsAnnounced, Idle
<1>2. QED
  BY <1>1, NetworkInvariance, PTL

-----------------------------------------------------------------------------
\* What lies ahead of a display that is at rest and not online.

\* A retry has found a saved WiFi; and without one the access point is up, being
\* started, or stopped for a request of the portal that will save one.
RetryHasProfile == retry \in {"stop", "connect", "connected", "ap"} => profiles # "none"

PointUnlessProfile ==
  (agent = "run" /\ paired /\ mode = "setup" /\ profiles = "none")
    => \/ radio = "ap" \/ recovery = "ap" \/ stranded
       \/ \E p \in Posts : post[p].stage = "connect"

PairedMode == paired => mode # "pairing"

Ahead == RecoveryNotShutOut /\ RetryHasProfile /\ PointUnlessProfile /\ PairedMode

LEMMA InitAhead == Init => Ahead
  BY DEF Init, Ahead, RecoveryNotShutOut, RetryHasProfile, PointUnlessProfile, PairedMode

LEMMA NextAhead == TypeOK /\ Safe /\ Ahead /\ [Next]_vars => Ahead'
<1> SUFFICES ASSUME TypeOK, Safe, Ahead, [Next]_vars PROVE Ahead'
  OBVIOUS
<1>0. Volatile /\ post \in [Posts -> [stage : {"none", "sent", "connect", "ap", "done"}, right : BOOLEAN]]
  BY DEF Safe, TypeOK
<1> USE DEF Ahead, RecoveryNotShutOut, RetryHasProfile, PointUnlessProfile, PairedMode, files,
            recoveryVars, retryVars, linkVars, worldVars
<1>1. CASE MainStep
  <2>1. CASE Boot
    BY <1>0, <2>1 DEF Boot, EnterSetup, ApRelease
  <2>2. CASE BootStatus
    BY <1>0, <2>2 DEF BootStatus, EnterSetup, ApRelease
  <2>3. CASE BootSetup
    BY <1>0, <2>3 DEF BootSetup, SetupEntered, SetupThrows, ApStarts, ApFails, Trouble
  <2>4. QED
    BY <1>1, <2>1, <2>2, <2>3 DEF MainStep
<1>2. CASE RecoveryFires \/ RecoveryStep
  <2>1. CASE RecoveryFires
    BY <2>1 DEF RecoveryFires
  <2>2. CASE RecoveryStatus
    BY <2>2 DEF RecoveryStatus, EnterSetup, ApRelease
  <2>3. CASE RecoverySetup
    BY <2>3 DEF RecoverySetup, SetupEntered, SetupThrows, ApStarts, ApFails, Trouble,
                RetryTimerFrom, Strand
  <2>4. QED
    BY <1>2, <2>1, <2>2, <2>3 DEF RecoveryStep
<1>3. CASE RetryFires \/ RetryStep
  <2>1. CASE RetryFires
    BY <2>1 DEF RetryFires
  <2>2. CASE RetryCheck
    BY <2>2 DEF RetryCheck, RetryEnds
  <2>3. CASE RetryStop
    BY <2>3 DEF RetryStop, ApStop
  <2>4. CASE RetryConnected
    BY <2>4 DEF RetryConnected
  <2>5. CASE RetryOnline
    BY <2>5 DEF RetryOnline, RetryEnds
  <2>6. CASE RetryTimesOut
    BY <2>6 DEF RetryTimesOut, ApRelease, Trouble
  <2>7. CASE RetrySetup
    BY <2>7 DEF RetrySetup, RetryEnds, ApStarts, ApFails, Trouble
  <2>8. QED
    BY <1>3, <2>1, <2>2, <2>3, <2>4, <2>5, <2>6, <2>7 DEF RetryStep
<1>4. CASE SocketStep \/ ConnectError
  <2>1. CASE Connect
    BY <2>1 DEF Connect, Strand
  <2>2. CASE Disconnect
    BY <2>2 DEF Disconnect, Schedule
  <2>3. CASE Welcomed
    BY <2>3 DEF Welcomed, PairingComplete
  <2>4. CASE ConnectError
    BY <2>4 DEF ConnectError, Schedule
  <2>5. QED
    BY <1>4, <2>1, <2>2, <2>3, <2>4 DEF SocketStep
<1>5. CASE WifiJoins \/ World
  <2>1. CASE WifiJoins
    BY <2>1 DEF WifiJoins, CanJoin
  <2>2. CASE Restart
    BY <2>2 DEF Restart, Trouble
  <2>3. CASE Claimed
    BY <2>3 DEF Claimed, PairingComplete
  <2>4. CASE WifiChanges
    BY <2>4 DEF WifiChanges, Trouble
  <2>5. CASE ReachChanges
    BY <2>5 DEF ReachChanges, Trouble
  <2>6. CASE ClientChanges
    BY <2>6 DEF ClientChanges
  <2>7. QED
    BY <1>5, <2>1, <2>2, <2>3, <2>4, <2>5, <2>6 DEF World
<1>6. ASSUME NEW p \in Posts, PortalPost(p) \/ PortalStep(p) PROVE Ahead'
  <2>1. CASE PortalPost(p)
    BY <1>0, <2>1 DEF PortalPost
  <2>2. CASE PortalStop(p)
    BY <1>0, <2>2 DEF PortalStop, ApStop
  <2>3. CASE PortalConnected(p)
    BY <1>0, <2>3 DEF PortalConnected
  <2>4. CASE PortalRefused(p)
    BY <1>0, <2>4 DEF PortalRefused, ApRelease, Trouble
  <2>5. CASE PortalSetup(p)
    BY <1>0, <2>5 DEF PortalSetup, ApStarts, ApFails, Trouble
  <2>6. QED
    BY <1>6, <2>1, <2>2, <2>3, <2>4, <2>5 DEF PortalStep
<1>7. CASE UNCHANGED vars
  BY <1>7 DEF vars
<1>8. QED
  BY <1>1, <1>2, <1>3, <1>4, <1>5, <1>6, <1>7 DEF Next

LEMMA AheadAlways == Spec => [](TypeOK /\ Safe /\ Ahead)
<1>1. QED
  BY InitAhead, NextAhead, NetworkTypeCorrect, NetworkInvariance, PTL DEF Spec

\* clearNetworkRecovery clears recoveryInProgress while a recovery runs; it is never the
\* other way round, that the flag stays set and scheduleNetworkRecovery does nothing.
THEOREM RecoveryIsNotShutOut == Spec => []RecoveryNotShutOut
<1>1. Ahead => RecoveryNotShutOut
  BY DEF Ahead
<1>2. QED
  BY <1>1, AheadAlways, PTL

\* recoverToWifiSetup, the retry and the socket's events together: an unreachable display
\* at rest always has something ahead that is going to move it, unless it is stranded.
THEOREM WayBackAhead == Spec => []WayBackIsAhead
<1>1. TypeOK /\ Safe /\ Ahead => WayBackIsAhead
  <2> SUFFICES ASSUME TypeOK, Safe, Ahead, Idle, paired, ~Reachable, ~stranded
               PROVE  RetryAhead \/ SocketAhead
    BY DEF WayBackIsAhead
  <2>1. agent = "run" /\ retry = "idle" /\ recovery = "idle" /\ ~inProgress
    BY DEF Idle, Ahead, RecoveryNotShutOut
  <2>2. CASE mode = "setup"
    <3>1. retryTimer
      BY <2>1, <2>2 DEF Safe, RetryIsPending
    <3>2. profiles # "none"
      <4>1. radio # "ap" /\ \A p \in Posts : post[p].stage # "connect"
        BY DEF Reachable, Idle
      <4>2. QED
        BY <2>1, <2>2, <4>1 DEF Ahead, PointUnlessProfile
    <3>3. QED
      BY <2>2, <3>1, <3>2 DEF RetryAhead
  <2>3. CASE mode # "setup"
    BY <2>1, <2>3 DEF SocketAhead, TypeOK, Ahead, PairedMode
  <2>4. QED
    BY <2>2, <2>3
<1>2. QED
  BY <1>1, AheadAlways, PTL

\* The same of a display whose WiFi is back: what is ahead of it is the retry, its socket,
\* or a recovery.
THEOREM OnlineAhead == Spec => []OnlineIsAhead
<1>1. TypeOK /\ Safe /\ Ahead => OnlineIsAhead
  <2> SUFFICES ASSUME TypeOK, Safe, Ahead, Idle, WifiIsBack, ~stranded
               PROVE  RetryAhead \/ SocketAhead
    BY DEF OnlineIsAhead
  <2>1. /\ agent = "run" /\ retry = "idle" /\ recovery = "idle" /\ ~inProgress
        /\ paired /\ profiles = "right"
    BY DEF Idle, Ahead, RecoveryNotShutOut, WifiIsBack
  <2>2. CASE mode = "setup"
    BY <2>1, <2>2 DEF Safe, RetryIsPending, RetryAhead
  <2>3. CASE mode # "setup"
    BY <2>1, <2>3 DEF SocketAhead, TypeOK, Ahead, PairedMode
  <2>4. QED
    BY <2>2, <2>3
<1>2. QED
  BY <1>1, AheadAlways, PTL

-----------------------------------------------------------------------------
(* SoftwareUpdate: types.                                                  *)

Fetching == {"download", "downloaded", "validated"}

\* A request that writes or hands over a file has a version.
RequestsNameVersions == \A r \in Updates : requests[r].at \in Fetching => requests[r].version \in Versions

UpdateTypeInv == UpdateTypeOK /\ RequestsNameVersions

LEMMA InitUpdateTypeInv == UpdateInit => UpdateTypeInv
<1> SUFFICES ASSUME UpdateInit PROVE UpdateTypeInv
  OBVIOUS
<1>1. {interrupted, unchecked} \subseteq BOOLEAN
  BY Zenon DEF UpdateInit
<1>2. QED
  BY <1>1, UpdateAssumption DEF UpdateInit, UpdateTypeInv, UpdateTypeOK, RequestsNameVersions, Fetching, UpdateStates, UpdateRequests, NoRequest,
       Release, Contents, ScriptStages, NoScript, UpdateStages

\* What a script's step does to the scripts.
LEMMA GotoType ==
  ASSUME UpdateTypeInv, NEW v \in Versions, NEW stage \in ScriptStages, Goto(v, stage)
  PROVE  /\ script' \in [Versions -> [at : ScriptStages, previous : Versions]]
         /\ script'[v].at = stage /\ script'[v].previous = script[v].previous
         /\ \A w \in Versions \ {v} : script'[w] = script[w]
BY DEF UpdateTypeInv, UpdateTypeOK, Goto

LEMMA ExitType ==
  ASSUME UpdateTypeInv, NEW v \in Versions, ExitScript(v)
  PROVE  /\ script' \in [Versions -> [at : ScriptStages, previous : Versions]]
         /\ script'[v] = NoScript /\ script'[v].at = "idle"
         /\ \A w \in Versions \ {v} : script'[w] = script[w]
BY UpdateAssumption DEF UpdateTypeInv, UpdateTypeOK, ExitScript, NoScript, ScriptStages

\* A process of the agent that starts has no requests.
LEMMA AgentStartsType ==
  ASSUME UpdateTypeInv, current' \in Versions, AgentStarts
  PROVE  /\ running' \in Release /\ {update', savedUpdate'} \subseteq UpdateStates
         /\ requests' \in [Updates -> UpdateRequests] /\ RequestsNameVersions'
         /\ current' \in releases' => running' = current'
<1>1. running' \in Release /\ (current' \in releases' => running' = current')
  BY DEF AgentStarts, Release
<1>2. requests' \in [Updates -> UpdateRequests] /\ RequestsNameVersions'
  BY DEF AgentStarts, RequestsNameVersions, UpdateRequests, NoRequest, UpdateStages, Release, Fetching
<1>3. savedUpdate \in UpdateStates
  BY DEF UpdateTypeInv, UpdateTypeOK
<1>4. update' \in UpdateStates
  <2>1. CASE running' = 0 \/ savedUpdate.current = running'
    BY <1>3, <2>1 DEF AgentStarts
  <2>2. CASE ~(running' = 0 \/ savedUpdate.current = running')
    <3>1. update' = [savedUpdate EXCEPT !.status = "idle", !.current = running']
      BY <2>2 DEF AgentStarts
    <3>2. running' \in Versions
      BY <1>1, <2>2 DEF Release
    <3>3. QED
      BY <1>3, <3>1, <3>2 DEF UpdateStates
  <2>3. QED
    BY <2>1, <2>2
<1>5. QED
  BY <1>1, <1>2, <1>4 DEF AgentStarts

\* A request that is over.
LEMMA DropRequestType ==
  ASSUME UpdateTypeInv, NEW r \in Updates, requests' = [requests EXCEPT ![r] = NoRequest]
  PROVE  requests' \in [Updates -> UpdateRequests] /\ RequestsNameVersions'
BY DEF UpdateTypeInv, UpdateTypeOK, RequestsNameVersions, UpdateRequests, NoRequest, UpdateStages, Release, Fetching

\* An install that fails.
LEMMA InstallFailsType ==
  ASSUME UpdateTypeInv, NEW r \in Updates, InstallFails(r)
  PROVE  /\ {update', savedUpdate'} \subseteq UpdateStates
         /\ requests' \in [Updates -> UpdateRequests] /\ RequestsNameVersions'
BY DropRequestType DEF UpdateTypeInv, UpdateTypeOK, InstallFails, UpdateStates

-----------------------------------------------------------------------------
(* The lock: one script at a time is past it, and a rollback that is about *)
(* to move its link has one.                                               *)

LockInv ==
  /\ \A v, w \in Versions : HoldsLock(v) /\ HoldsLock(w) => v = w
  /\ \A v \in Versions : script[v].at = "backSwap" => backLink # 0

LEMMA StepUpdateTypeInv == UpdateTypeInv /\ LockInv /\ [UpdateNext]_updateVars => UpdateTypeInv'
<1> SUFFICES ASSUME UpdateTypeInv, LockInv, [UpdateNext]_updateVars PROVE UpdateTypeInv'
  OBVIOUS
<1> USE DEF UpdateTypeInv, UpdateTypeOK
<1> USE DEF agentKeeps, beyondScript, scriptKeeps, agentVarsSU, diskVarsSU, boundsSU, historySU
<1>1. ASSUME NEW v \in Versions, PublishRelease(v) PROVE UpdateTypeInv'
  BY <1>1 DEF PublishRelease, Release, RequestsNameVersions
<1>2. ASSUME NEW r \in Updates, CheckForUpdates(r) PROVE UpdateTypeInv'
  <2>1. requests' \in [Updates -> UpdateRequests] /\ RequestsNameVersions'
    BY <1>2 DEF CheckForUpdates, RequestsNameVersions, UpdateRequests, NoRequest, UpdateStages, Release, Fetching
  <2>2. update' \in UpdateStates /\ updates' \in 0..MaxUpdates
    BY <1>2, UpdateAssumption DEF CheckForUpdates, Receive, UpdateStates
  <2>3. QED
    BY <1>2, <2>1, <2>2 DEF CheckForUpdates
<1>3. ASSUME NEW r \in Updates, ManifestAnswered(r) PROVE UpdateTypeInv'
  <2>1. {update', savedUpdate'} \subseteq UpdateStates
    BY <1>3 DEF ManifestAnswered, UpdateStates, ManifestLatest
  <2>2. requests' \in [Updates -> UpdateRequests] /\ RequestsNameVersions'
    BY <1>3, DropRequestType DEF ManifestAnswered
  <2>3. mishaps' \in 0..MaxMishaps
    BY <1>3, UpdateAssumption DEF ManifestAnswered, Mishap
  <2>4. QED
    BY <1>3, <2>1, <2>2, <2>3 DEF ManifestAnswered
<1>4. ASSUME NEW r \in Updates, NEW v \in Versions, RefuseInstall(r, v) PROVE UpdateTypeInv'
  <2>1. updates' \in 0..MaxUpdates
    BY <1>4, UpdateAssumption DEF RefuseInstall, Receive
  <2>2. QED
    BY <1>4, <2>1, InstallFailsType DEF RefuseInstall
<1>5. ASSUME NEW r \in Updates, NEW v \in Versions, InstallUpdate(r, v) PROVE UpdateTypeInv'
  <2>1. update' \in UpdateStates
    BY <1>5 DEF InstallUpdate, UpdateStates
  <2>2. ASSUME NEW x \in Updates
        PROVE  /\ requests'[x] \in UpdateRequests
               /\ requests'[x].at \in Fetching => requests'[x].version \in Versions
    <3>1. CASE x = r
      BY <1>5, <3>1 DEF InstallUpdate, UpdateRequests, UpdateStages, Release
    <3>2. CASE x # r /\ requests'[x] = [requests[x] EXCEPT !.torn = TRUE]
      <4>1. requests[x] \in UpdateRequests
        OBVIOUS
      <4>2. /\ requests'[x].at = requests[x].at /\ requests'[x].version = requests[x].version
            /\ requests'[x] = [at |-> requests[x].at, version |-> requests[x].version,
                              file |-> requests[x].file, torn |-> TRUE]
        BY <3>2, <4>1 DEF UpdateRequests
      <4>3. QED
        BY <4>1, <4>2 DEF UpdateRequests, RequestsNameVersions
    <3>3. CASE requests'[x] = requests[x]
      BY <3>3 DEF RequestsNameVersions
    <3>4. QED
      BY <1>5, <3>1, <3>2, <3>3 DEF InstallUpdate
  <2>3. requests' \in [Updates -> UpdateRequests] /\ RequestsNameVersions'
    BY <1>5, <2>2 DEF InstallUpdate, RequestsNameVersions
  <2>4. archives' \in [Versions -> [part : Contents, archive : Contents]]
    BY <1>5 DEF InstallUpdate, Contents
  <2>5. updates' \in 0..MaxUpdates /\ overlapped' \subseteq Versions
    BY <1>5, UpdateAssumption DEF InstallUpdate, Receive
  <2>6. QED
    BY <1>5, <2>1, <2>3, <2>4, <2>5 DEF InstallUpdate
<1>6. ASSUME NEW r \in Updates, DownloadFile(r) PROVE UpdateTypeInv'
  <2>1. requests[r].version \in Versions
    BY <1>6 DEF DownloadFile, RequestsNameVersions, Fetching
  <2>2. requests' \in [Updates -> UpdateRequests] /\ RequestsNameVersions'
    BY <1>6, <2>1 DEF DownloadFile, RequestsNameVersions, UpdateRequests, UpdateStages
  <2>3. archives' \in [Versions -> [part : Contents, archive : Contents]]
    BY <1>6, <2>1 DEF DownloadFile, Contents
  <2>4. QED
    BY <1>6, <2>2, <2>3 DEF DownloadFile
<1>7. ASSUME NEW r \in Updates, DownloadFails(r) PROVE UpdateTypeInv'
  <2>1. update' \in UpdateStates
    BY <1>7 DEF DownloadFails, UpdateStates
  <2>2. ASSUME NEW x \in Updates
        PROVE  /\ requests'[x] \in UpdateRequests
               /\ requests'[x].at \in Fetching => requests'[x].version \in Versions
    <3>1. CASE requests'[x] = NoRequest
      BY <3>1 DEF UpdateRequests, NoRequest, UpdateStages, Release, Fetching
    <3>2. CASE requests'[x] = [requests[x] EXCEPT !.file = "gone"]
      BY <3>2 DEF UpdateRequests, RequestsNameVersions
    <3>3. CASE requests'[x] = requests[x]
      BY <3>3 DEF RequestsNameVersions
    <3>4. QED
      BY <1>7, <3>1, <3>2, <3>3 DEF DownloadFails
  <2>3. requests' \in [Updates -> UpdateRequests] /\ RequestsNameVersions'
    BY <1>7, <2>2 DEF DownloadFails, RequestsNameVersions
  <2>4. archives' \in [Versions -> [part : Contents, archive : Contents]]
    BY <1>7 DEF DownloadFails, Contents
  <2>5. mishaps' \in 0..MaxMishaps
    BY <1>7, UpdateAssumption DEF DownloadFails, Mishap
  <2>6. QED
    BY <1>7, <2>1, <2>3, <2>4, <2>5 DEF DownloadFails
<1>8. ASSUME NEW r \in Updates, RenameArchive(r) PROVE UpdateTypeInv'
  <2> DEFINE v == requests[r].version
  <2>1. CASE archives[v].part = "none"
    BY <1>8, <2>1, InstallFailsType DEF RenameArchive
  <2>2. CASE archives[v].part # "none"
    <3>1. v \in Versions
      BY <1>8 DEF RenameArchive, RequestsNameVersions, Fetching
    <3>2. archives' \in [Versions -> [part : Contents, archive : Contents]]
      BY <1>8, <2>2, <3>1 DEF RenameArchive, Contents
    <3>3. ASSUME NEW x \in Updates
          PROVE  /\ requests'[x] \in UpdateRequests
                 /\ requests'[x].at \in Fetching => requests'[x].version \in Versions
      <4>1. CASE requests'[x] = [requests[r] EXCEPT !.at = "validated"]
        BY <3>1, <4>1 DEF UpdateRequests, UpdateStages
      <4>2. CASE requests'[x] = [requests[x] EXCEPT !.file = "gone"]
        BY <4>2 DEF UpdateRequests, RequestsNameVersions
      <4>3. CASE requests'[x] = [requests[x] EXCEPT !.file = "archive"]
        BY <4>3 DEF UpdateRequests, RequestsNameVersions
      <4>4. CASE requests'[x] = requests[x]
        BY <4>4 DEF RequestsNameVersions
      <4>5. QED
        BY <1>8, <2>2, <4>1, <4>2, <4>3, <4>4 DEF RenameArchive
    <3>4. requests' \in [Updates -> UpdateRequests] /\ RequestsNameVersions'
      BY <1>8, <2>2, <3>3 DEF RenameArchive, RequestsNameVersions
    <3>5. QED
      BY <1>8, <2>2, <3>2, <3>4 DEF RenameArchive
  <2>3. QED
    BY <2>1, <2>2
<1>9. ASSUME NEW r \in Updates, StartScript(r) PROVE UpdateTypeInv'
  <2> DEFINE v == requests[r].version
  <2>1. CASE Readable(v) /\ script[v] = NoScript
    <3>1. {update', savedUpdate'} \subseteq UpdateStates
      <4>1. update \in UpdateStates
        OBVIOUS
      <4>2. update' = [update EXCEPT !.status = "installing"] /\ savedUpdate' = update'
        BY <1>9, <2>1 DEF StartScript
      <4>3. QED
        BY <4>1, <4>2 DEF UpdateStates
    <3>2. requests' \in [Updates -> UpdateRequests] /\ RequestsNameVersions'
      BY <1>9, <2>1, DropRequestType DEF StartScript
    <3>3. script' \in [Versions -> [at : ScriptStages, previous : Versions]]
      BY <1>9, <2>1 DEF StartScript, ScriptStages
    <3>4. QED
      BY <1>9, <3>1, <3>2, <3>3 DEF StartScript
  <2>2. CASE ~(Readable(v) /\ script[v] = NoScript)
    BY <1>9, <2>2, InstallFailsType DEF StartScript
  <2>3. QED
    BY <2>1, <2>2
<1>10. ASSUME NEW v \in Versions,
              ScriptUnpacks(v) \/ ScriptMigrates(v) \/ ScriptInstalls(v) \/ HealthCheck(v)
       PROVE  UpdateTypeInv'
  <2>1. script' \in [Versions -> [at : ScriptStages, previous : Versions]]
    BY <1>10, GotoType, ExitType
    DEF ScriptUnpacks, ScriptMigrates, ScriptInstalls, ScriptAborts, HealthCheck, ScriptStages
  <2>2. mishaps' \in 0..MaxMishaps
    BY <1>10, UpdateAssumption
    DEF ScriptUnpacks, ScriptMigrates, ScriptInstalls, ScriptAborts, HealthCheck, Mishap
  <2>3. {interrupted', unchecked'} \subseteq BOOLEAN
    BY <1>10, Zenon DEF ScriptUnpacks, ScriptMigrates, ScriptInstalls, ScriptAborts, HealthCheck
  <2>4. QED
    BY <1>10, <2>1, <2>2, <2>3
    DEF ScriptUnpacks, ScriptMigrates, ScriptInstalls, HealthCheck, RequestsNameVersions
<1>11. ASSUME NEW v \in Versions, ScriptPlaces(v) \/ PruneReleases(v) PROVE UpdateTypeInv'
  <2>1. script' \in [Versions -> [at : ScriptStages, previous : Versions]]
    BY <1>11, GotoType, ExitType DEF ScriptPlaces, PruneReleases, ScriptStages
  <2>2. releases' \subseteq Versions
    BY <1>11 DEF ScriptPlaces, PruneReleases, Pruned
  <2>3. QED
    BY <1>11, <2>1, <2>2 DEF ScriptPlaces, PruneReleases, RequestsNameVersions
<1>12. ASSUME NEW v \in Versions, ScriptLinks(v) PROVE UpdateTypeInv'
  <2>1. script' \in [Versions -> [at : ScriptStages, previous : Versions]]
    BY <1>12, ExitType DEF ScriptLinks, ScriptStages
  <2>2. nextLink' \in Release
    BY <1>12 DEF ScriptLinks, LinkTo, Release
  <2>3. QED
    BY <1>12, <2>1, <2>2 DEF ScriptLinks, RequestsNameVersions
<1>13. ASSUME NEW v \in Versions, ScriptSwaps(v) \/ RollBackSwaps(v) PROVE UpdateTypeInv'
  <2>1. script' \in [Versions -> [at : ScriptStages, previous : Versions]]
    BY <1>13, GotoType, ExitType DEF ScriptSwaps, RollBackSwaps, ScriptStages
  <2>2. current' \in Versions /\ {nextLink', backLink'} \subseteq Release
    BY <1>13 DEF LockInv, ScriptSwaps, RollBackSwaps, Release
  <2>3. QED
    BY <1>13, <2>1, <2>2 DEF ScriptSwaps, RollBackSwaps, RequestsNameVersions
<1>14. ASSUME NEW v \in Versions, RollBack(v) PROVE UpdateTypeInv'
  <2>1. script' \in [Versions -> [at : ScriptStages, previous : Versions]]
    BY <1>14, GotoType, ExitType DEF RollBack, ScriptStages
  <2>2. backLink' \in Release
    BY <1>14 DEF RollBack, LinkTo, Release
  <2>3. QED
    BY <1>14, <2>1, <2>2 DEF RollBack, RequestsNameVersions
<1>15. ASSUME NEW v \in Versions, ScriptRestarts(v) \/ RollBackRestarts(v) PROVE UpdateTypeInv'
  <2>1. script' \in [Versions -> [at : ScriptStages, previous : Versions]]
    BY <1>15, GotoType, ExitType DEF ScriptRestarts, ScriptAborts, RollBackRestarts, ScriptStages
  <2>2. current' \in Versions /\ AgentStarts
    BY <1>15 DEF ScriptRestarts, RollBackRestarts
  <2>3. mishaps' \in 0..MaxMishaps
    BY <1>15, UpdateAssumption DEF ScriptRestarts, ScriptAborts, RollBackRestarts, Mishap
  <2>4. {interrupted', unchecked'} \subseteq BOOLEAN
    BY <1>15, Zenon DEF ScriptRestarts, ScriptAborts, RollBackRestarts
  <2>5. QED
    BY <1>15, <2>1, <2>2, <2>3, <2>4, AgentStartsType DEF ScriptRestarts, RollBackRestarts
<1>16. CASE PowerFails
  <2>1. script' \in [Versions -> [at : ScriptStages, previous : Versions]]
    BY <1>16, UpdateAssumption DEF PowerFails, NoScript, ScriptStages
  <2>2. current' \in Versions /\ AgentStarts
    BY <1>16 DEF PowerFails
  <2>3. mishaps' \in 0..MaxMishaps
    BY <1>16, UpdateAssumption DEF PowerFails, Mishap
  <2>4. {interrupted', unchecked'} \subseteq BOOLEAN
    BY <1>16, Zenon DEF PowerFails
  <2>5. QED
    BY <1>16, <2>1, <2>2, <2>3, <2>4, AgentStartsType DEF PowerFails
<1>17. CASE UNCHANGED updateVars
  BY <1>17 DEF updateVars, RequestsNameVersions
<1>18. QED
  BY <1>1, <1>2, <1>3, <1>4, <1>5, <1>6, <1>7, <1>8, <1>9, <1>10, <1>11, <1>12, <1>13, <1>14,
     <1>15, <1>16, <1>17 DEF UpdateNext

LEMMA InitLockInv == UpdateInit => LockInv
BY DEF UpdateInit, LockInv, HoldsLock, NoScript

\* Only the script that holds the lock moves, or one that has none to hold.
LEMMA StepLockInv == UpdateTypeInv /\ LockInv /\ [UpdateNext]_updateVars => LockInv'
<1> SUFFICES ASSUME UpdateTypeInv, LockInv, [UpdateNext]_updateVars PROVE LockInv'
  OBVIOUS
<1> USE DEF agentKeeps, beyondScript, scriptKeeps, agentVarsSU, diskVarsSU, boundsSU, historySU
<1>1. CASE UNCHANGED <<script, backLink>>
  BY <1>1 DEF LockInv, HoldsLock
<1>2. ASSUME NEW v \in Versions, HoldsLock(v),
             \A w \in Versions \ {v} : script'[w] = script[w],
             script'[v].at = "backSwap" => backLink' # 0
      PROVE  LockInv'
  BY <1>2 DEF LockInv, HoldsLock
<1>3. ASSUME NEW r \in Updates, StartScript(r) PROVE LockInv'
  <2> DEFINE v == requests[r].version
  <2>1. CASE Readable(v) /\ script[v] = NoScript
    <3>1. v \in Versions
      BY <1>3 DEF UpdateTypeInv, StartScript, RequestsNameVersions, Fetching
    <3>2. /\ script'[v].at = "started" /\ backLink' = backLink
          /\ \A w \in Versions \ {v} : script'[w] = script[w]
      BY <1>3, <2>1, <3>1 DEF StartScript, UpdateTypeInv, UpdateTypeOK
    <3>3. QED
      BY <3>1, <3>2 DEF LockInv, HoldsLock
  <2>2. CASE ~(Readable(v) /\ script[v] = NoScript)
    BY <1>1, <1>3, <2>2 DEF StartScript
  <2>3. QED
    BY <2>1, <2>2
<1>4. ASSUME NEW v \in Versions, ScriptUnpacks(v) PROVE LockInv'
  <2>1. backLink' = backLink /\ \A w \in Versions \ {v} : script'[w] = script[w]
    BY <1>4, GotoType, ExitType DEF ScriptUnpacks, ScriptStages
  <2>2. \/ script'[v].at = "idle"
        \/ script'[v].at = "place" /\ \A w \in Versions : ~HoldsLock(w)
    BY <1>4, GotoType, ExitType DEF ScriptUnpacks, ScriptStages
  <2>3. QED
    BY <2>1, <2>2 DEF LockInv, HoldsLock
<1>5. ASSUME NEW v \in Versions,
             ScriptPlaces(v) \/ ScriptMigrates(v) \/ ScriptSwaps(v) \/ ScriptInstalls(v)
               \/ ScriptRestarts(v) \/ HealthCheck(v) \/ PruneReleases(v) \/ RollBackSwaps(v)
               \/ RollBackRestarts(v)
      PROVE  LockInv'
  <2>1. HoldsLock(v)
    BY <1>5 DEF HoldsLock, ScriptPlaces, ScriptMigrates, ScriptSwaps, ScriptInstalls, ScriptRestarts,
                HealthCheck, PruneReleases, RollBackSwaps, RollBackRestarts
  <2>2. \/ ExitScript(v)
        \/ \E stage \in {"migrate", "link", "install", "restart", "health", "prune", "back",
                         "backRestart"} : Goto(v, stage)
    BY <1>5 DEF ScriptPlaces, ScriptMigrates, ScriptSwaps, ScriptInstalls, ScriptAborts, ScriptRestarts,
                HealthCheck, PruneReleases, RollBackSwaps, RollBackRestarts
  <2>3. script'[v].at # "backSwap" /\ \A w \in Versions \ {v} : script'[w] = script[w]
    BY <2>2, GotoType, ExitType DEF ScriptStages
  <2>4. QED
    BY <1>2, <2>1, <2>3
<1>6. ASSUME NEW v \in Versions, ScriptLinks(v) PROVE LockInv'
  <2>1. script'[v].at # "backSwap" /\ \A w \in Versions \ {v} : script'[w] = script[w]
    BY <1>6, ExitType DEF ScriptLinks, UpdateTypeInv, UpdateTypeOK
  <2>2. QED
    BY <1>2, <1>6, <2>1 DEF ScriptLinks, HoldsLock
<1>7. ASSUME NEW v \in Versions, RollBack(v) PROVE LockInv'
  <2>1. script[v].previous \in Versions /\ backLink \in Release
    BY DEF UpdateTypeInv, UpdateTypeOK
  <2>2. script'[v].at = "backSwap" => backLink' # 0
    BY <1>7, <2>1, ExitType, UpdateAssumption DEF RollBack, LinkTo
  <2>3. \A w \in Versions \ {v} : script'[w] = script[w]
    BY <1>7, GotoType, ExitType DEF RollBack, ScriptStages
  <2>4. QED
    BY <1>2, <1>7, <2>2, <2>3 DEF RollBack, HoldsLock
<1>8. CASE PowerFails
  BY <1>8 DEF PowerFails, LockInv, HoldsLock, NoScript
<1>9. CASE UNCHANGED updateVars
  BY <1>1, <1>9 DEF updateVars
<1>10. ASSUME NEW r \in Updates,
              \/ CheckForUpdates(r) \/ ManifestAnswered(r) \/ DownloadFile(r) \/ DownloadFails(r)
              \/ RenameArchive(r)
              \/ \E v \in Versions : RefuseInstall(r, v) \/ InstallUpdate(r, v)
       PROVE  LockInv'
  BY <1>1, <1>10 DEF CheckForUpdates, ManifestAnswered, DownloadFile, DownloadFails, RenameArchive,
                     RefuseInstall, InstallUpdate
<1>11. ASSUME NEW v \in Versions, PublishRelease(v) PROVE LockInv'
  BY <1>1, <1>11 DEF PublishRelease
<1>12. QED
  BY <1>3, <1>4, <1>5, <1>6, <1>7, <1>8, <1>9, <1>10, <1>11 DEF UpdateNext

\* The agent, the archives, the script and the links have their types in
\* every reachable state, whatever fails.
THEOREM UpdateTypeCorrect == UpdateSpec => []UpdateTypeOK
<1>1. UpdateTypeInv => UpdateTypeOK
  BY DEF UpdateTypeInv
<1>2. QED
  BY InitUpdateTypeInv, InitLockInv, StepUpdateTypeInv, StepLockInv, <1>1, PTL DEF UpdateSpec

-----------------------------------------------------------------------------
(* The links.  Before a power cut in the midst of them, what a script at   *)
(* each stage knows of the link and of the process.                        *)

\* Releases that the link may be left on: one that works, unless a script has
\* left it on one that nobody has found healthy.
Good == {w \in releases : unchecked \/ w \in Working}

Moved == {"install", "restart", "health", "back", "backSwap"}

\* What holds at the stages of the script of version v.
ScriptKnows(v) ==
  LET at == script[v].at
  IN /\ at \in {"migrate", "link", "swap", "prune"} \cup Moved => v \in releases
     /\ at \in {"swap"} \cup Moved => script[v].previous \in Good
     /\ at = "swap" => nextLink = v /\ script[v].previous = current
     /\ at \in {"install", "restart", "health"} => current = v
     /\ at = "health" => running = v
     /\ at = "prune" => current = v /\ running = v /\ v \in Working
     /\ at = "backSwap" => backLink = script[v].previous

LinksSound ==
  /\ (\A v \in Versions : script[v].at \notin Moved) => current \in Good
  /\ (\A v \in Versions : script[v].at # "swap") => nextLink = 0
  /\ (\A v \in Versions : script[v].at # "backSwap") => backLink = 0
  /\ \A v \in Versions : ScriptKnows(v)

LinksInv == ~interrupted => LinksSound

LEMMA InitLinksInv == UpdateInit => LinksInv
BY UpdateAssumption DEF UpdateInit, LinksInv, LinksSound, ScriptKnows, Good, Moved, NoScript

\* The step of the script that holds the lock, from what it knows.
LEMMA HolderStep ==
  ASSUME UpdateTypeInv, LockInv, NEW v \in Versions, HoldsLock(v),
         \A w \in Versions \ {v} : script'[w] = script[w],
         ScriptKnows(v)',
         script'[v].at \notin Moved => current' \in Good',
         script'[v].at # "swap" => nextLink' = 0,
         script'[v].at # "backSwap" => backLink' = 0
  PROVE  LinksSound'
<1>1. \A w \in Versions \ {v} : ~HoldsLock(w)
  BY DEF LockInv
<1>2. \A w \in Versions \ {v} : script'[w].at \in {"idle", "started"}
  BY <1>1 DEF HoldsLock
<1>3. \A w \in Versions \ {v} : ScriptKnows(w)'
  BY <1>2 DEF ScriptKnows, Moved
<1>4. QED
  BY <1>2, <1>3 DEF LinksSound, Moved

\* While the holder is not at these stages, the links are at rest.
LEMMA HolderKnows ==
  ASSUME LockInv, LinksSound, NEW v \in Versions, HoldsLock(v)
  PROVE  /\ ScriptKnows(v)
         /\ script[v].at \notin Moved => current \in Good
         /\ script[v].at # "swap" => nextLink = 0
         /\ script[v].at # "backSwap" => backLink = 0
<1>1. \A w \in Versions \ {v} : ~HoldsLock(w)
  BY DEF LockInv
<1>2. \A w \in Versions \ {v} : script[w].at \in {"idle", "started"}
  BY <1>1 DEF HoldsLock
<1>3. QED
  BY <1>2 DEF LinksSound, Moved

\* A script that exits with the link on its release.
LEMMA Aborted ==
  ASSUME UpdateTypeInv, LockInv, NEW v \in Versions, HoldsLock(v), NEW release, ScriptAborts(v, release),
         v \in releases, current = v, nextLink = 0, backLink = 0,
         UNCHANGED <<releases, current, nextLink, backLink>>
  PROVE  LinksSound'
<1>1. script'[v].at = "idle" /\ \A w \in Versions \ {v} : script'[w] = script[w]
  BY ExitType DEF ScriptAborts
<1>2. ScriptKnows(v)' /\ current' \in Good'
  BY <1>1 DEF ScriptKnows, Good, Moved, ScriptAborts
<1>3. QED
  BY <1>1, <1>2, HolderStep

LEMMA StepLinksInv == UpdateTypeInv /\ LockInv /\ LinksInv /\ [UpdateNext]_updateVars => LinksInv'
<1> SUFFICES ASSUME UpdateTypeInv, LockInv, LinksInv, [UpdateNext]_updateVars, ~interrupted'
             PROVE  LinksSound'
  BY DEF LinksInv
<1> USE DEF agentKeeps, beyondScript, scriptKeeps, agentVarsSU, diskVarsSU, boundsSU, historySU, Moved
<1>0. ~interrupted
  BY DEF UpdateNext, updateVars, PowerFails, PublishRelease, CheckForUpdates, ManifestAnswered,
         DownloadFile, DownloadFails, RenameArchive, StartScript, RefuseInstall, InstallUpdate,
         ScriptUnpacks, ScriptPlaces, ScriptMigrates, ScriptLinks, ScriptSwaps, ScriptInstalls,
         ScriptRestarts, HealthCheck, PruneReleases, RollBack, RollBackSwaps, RollBackRestarts
<1>s. LinksSound
  BY <1>0 DEF LinksInv
<1>t. /\ script \in [Versions -> [at : ScriptStages, previous : Versions]]
      /\ \A v \in Versions : v # 0
  BY UpdateAssumption DEF UpdateTypeInv, UpdateTypeOK
<1>1. CASE UNCHANGED <<script, releases, current, nextLink, backLink, running, unchecked>>
  BY <1>1, <1>s DEF LinksSound, ScriptKnows, Good
<1>2. ASSUME NEW v \in Versions, script[v].at \in {"idle", "started"},
             script'[v].at \in {"idle", "started"} \/ (script'[v].at = "place"),
             \A w \in Versions \ {v} : script'[w] = script[w],
             UNCHANGED <<releases, current, nextLink, backLink, running, unchecked>>
      PROVE  LinksSound'
  BY <1>2, <1>s DEF LinksSound, ScriptKnows, Good
<1>3. ASSUME NEW r \in Updates, StartScript(r) PROVE LinksSound'
  <2> DEFINE v == requests[r].version
  <2>1. CASE Readable(v) /\ script[v] = NoScript
    <3>1. v \in Versions
      BY <1>3 DEF UpdateTypeInv, StartScript, RequestsNameVersions, Fetching
    <3>2. /\ script'[v].at = "started" /\ script[v].at = "idle"
          /\ \A w \in Versions \ {v} : script'[w] = script[w]
          /\ UNCHANGED <<releases, current, nextLink, backLink, running, unchecked>>
      BY <1>3, <1>t, <2>1, <3>1 DEF StartScript, NoScript
    <3>3. QED
      BY <1>2, <3>1, <3>2
  <2>2. CASE ~(Readable(v) /\ script[v] = NoScript)
    BY <1>1, <1>3, <2>2 DEF StartScript
  <2>3. QED
    BY <2>1, <2>2
<1>4. ASSUME NEW v \in Versions, ScriptUnpacks(v) PROVE LinksSound'
  <2>1. /\ script[v].at = "started" /\ \A w \in Versions \ {v} : script'[w] = script[w]
        /\ script'[v].at \in {"idle", "place"}
        /\ UNCHANGED <<releases, current, nextLink, backLink, running, unchecked>>
    BY <1>4, GotoType, ExitType DEF ScriptUnpacks, ScriptStages
  <2>2. QED
    BY <1>2, <2>1
<1>5. ASSUME NEW v \in Versions, ScriptPlaces(v) PROVE LinksSound'
  <2>1. HoldsLock(v) /\ script[v].at = "place"
    BY <1>5 DEF ScriptPlaces, HoldsLock
  <2>2. current \in Good /\ nextLink = 0 /\ backLink = 0
    BY <1>s, <2>1, HolderKnows
  <2>3. /\ script'[v].at \in {"idle", "migrate"} /\ \A w \in Versions \ {v} : script'[w] = script[w]
        /\ releases' = releases \cup {v} /\ UNCHANGED <<current, nextLink, backLink, running, unchecked>>
    BY <1>5, GotoType, ExitType DEF ScriptPlaces, ScriptStages
  <2>4. ScriptKnows(v)' /\ current' \in Good'
    BY <2>2, <2>3 DEF ScriptKnows, Good
  <2>5. QED
    BY <2>1, <2>2, <2>3, <2>4, HolderStep
<1>6. ASSUME NEW v \in Versions, ScriptMigrates(v) PROVE LinksSound'
  <2>1. HoldsLock(v) /\ script[v].at = "migrate"
    BY <1>6 DEF ScriptMigrates, HoldsLock
  <2>2. current \in Good /\ nextLink = 0 /\ backLink = 0 /\ v \in releases
    BY <1>s, <2>1, HolderKnows DEF ScriptKnows
  <2>3. /\ script'[v].at \in {"idle", "link"} /\ \A w \in Versions \ {v} : script'[w] = script[w]
        /\ UNCHANGED <<releases, current, nextLink, backLink, running, unchecked>>
    BY <1>6, GotoType, ExitType DEF ScriptMigrates, ScriptStages
  <2>4. ScriptKnows(v)' /\ current' \in Good'
    BY <2>2, <2>3 DEF ScriptKnows, Good
  <2>5. QED
    BY <2>1, <2>2, <2>3, <2>4, HolderStep
<1>7. ASSUME NEW v \in Versions, ScriptLinks(v) PROVE LinksSound'
  <2>1. HoldsLock(v) /\ script[v].at = "link"
    BY <1>7 DEF ScriptLinks, HoldsLock
  <2>2. current \in Good /\ nextLink = 0 /\ backLink = 0 /\ v \in releases
    BY <1>s, <2>1, HolderKnows DEF ScriptKnows
  <2>3. /\ script' = [script EXCEPT ![v] = [at |-> "swap", previous |-> current]]
        /\ nextLink' = v /\ UNCHANGED <<releases, current, backLink, running, unchecked>>
    BY <1>7, <2>2 DEF ScriptLinks, LinkRefused, LinkTo
  <2>4. /\ script'[v].at = "swap" /\ script'[v].previous = current
        /\ \A w \in Versions \ {v} : script'[w] = script[w]
    BY <1>t, <2>3
  <2>5. ScriptKnows(v)' /\ current' \in Good'
    BY <2>2, <2>3, <2>4 DEF ScriptKnows, Good
  <2>6. QED
    BY <2>1, <2>2, <2>3, <2>4, <2>5, HolderStep
<1>8. ASSUME NEW v \in Versions, ScriptSwaps(v) PROVE LinksSound'
  <2>1. HoldsLock(v) /\ script[v].at = "swap"
    BY <1>8 DEF ScriptSwaps, HoldsLock
  <2>2. nextLink = v /\ backLink = 0 /\ v \in releases /\ script[v].previous \in Good
    BY <1>s, <2>1, HolderKnows DEF ScriptKnows
  <2>3. Goto(v, "install") /\ current' = v /\ nextLink' = 0 /\ UNCHANGED <<releases, backLink, running, unchecked>>
    BY <1>8, <1>t, <2>2 DEF ScriptSwaps
  <2>4. /\ script'[v].at = "install" /\ script'[v].previous = script[v].previous
        /\ \A w \in Versions \ {v} : script'[w] = script[w]
    BY <2>3, GotoType DEF ScriptStages
  <2>5. ScriptKnows(v)'
    BY <2>2, <2>3, <2>4 DEF ScriptKnows, Good
  <2>6. QED
    BY <2>1, <2>2, <2>3, <2>4, <2>5, HolderStep
<1>9. ASSUME NEW v \in Versions, ScriptRestarts(v) PROVE LinksSound'
  <2>1. HoldsLock(v) /\ script[v].at = "restart"
    BY <1>9 DEF ScriptRestarts, HoldsLock
  <2>2. /\ nextLink = 0 /\ backLink = 0 /\ v \in releases /\ script[v].previous \in Good
        /\ current = v
    BY <1>s, <2>1, HolderKnows DEF ScriptKnows
  <2>3. AgentStarts /\ UNCHANGED <<releases, current, nextLink, backLink>>
    BY <1>9 DEF ScriptRestarts
  <2>4. CASE Goto(v, "health") /\ unchecked' = unchecked
    <3>1. current' \in Versions
      BY <2>3 DEF UpdateTypeInv, UpdateTypeOK
    <3>2. running' = v
      BY <2>2, <2>3, <3>1, AgentStartsType
    <3>3. /\ script'[v].at = "health" /\ script'[v].previous = script[v].previous
          /\ \A w \in Versions \ {v} : script'[w] = script[w]
      BY <2>4, GotoType DEF ScriptStages
    <3>4. ScriptKnows(v)'
      BY <2>2, <2>3, <2>4, <3>2, <3>3 DEF ScriptKnows, Good
    <3>5. QED
      BY <2>1, <2>2, <2>3, <3>3, <3>4, HolderStep
  <2>5. CASE ScriptAborts(v, current)
    BY <2>1, <2>2, <2>3, <2>5, Aborted
  <2>6. QED
    BY <1>9, <2>4, <2>5 DEF ScriptRestarts
<1>19. ASSUME NEW v \in Versions, ScriptInstalls(v) PROVE LinksSound'
  <2>1. HoldsLock(v) /\ script[v].at = "install"
    BY <1>19 DEF ScriptInstalls, HoldsLock
  <2>2. /\ nextLink = 0 /\ backLink = 0 /\ v \in releases /\ script[v].previous \in Good
        /\ current = v
    BY <1>s, <2>1, HolderKnows DEF ScriptKnows
  <2>3. UNCHANGED <<releases, current, nextLink, backLink, running>>
    BY <1>19 DEF ScriptInstalls
  <2>4. CASE Goto(v, "restart") /\ unchecked' = unchecked
    <3>1. /\ script'[v].at = "restart" /\ script'[v].previous = script[v].previous
          /\ \A w \in Versions \ {v} : script'[w] = script[w]
      BY <2>4, GotoType DEF ScriptStages
    <3>2. ScriptKnows(v)'
      BY <2>2, <2>3, <2>4, <3>1 DEF ScriptKnows, Good
    <3>3. QED
      BY <2>1, <2>2, <2>3, <3>1, <3>2, HolderStep
  <2>5. CASE ScriptAborts(v, v)
    BY <2>1, <2>2, <2>3, <2>5, Aborted
  <2>6. QED
    BY <1>19, <2>4, <2>5 DEF ScriptInstalls
<1>20. ASSUME NEW v \in Versions, RollBackRestarts(v) PROVE LinksSound'
  <2>1. HoldsLock(v) /\ script[v].at = "backRestart"
    BY <1>20 DEF RollBackRestarts, HoldsLock
  <2>2. nextLink = 0 /\ backLink = 0 /\ current \in Good
    BY <1>s, <2>1, HolderKnows
  <2>3. ExitScript(v) /\ UNCHANGED <<releases, current, nextLink, backLink, unchecked>>
    BY <1>20 DEF RollBackRestarts
  <2>4. script'[v].at = "idle" /\ \A w \in Versions \ {v} : script'[w] = script[w]
    BY <2>3, ExitType
  <2>5. ScriptKnows(v)' /\ current' \in Good'
    BY <2>2, <2>3, <2>4 DEF ScriptKnows, Good
  <2>6. QED
    BY <2>1, <2>2, <2>3, <2>4, <2>5, HolderStep
<1>10. ASSUME NEW v \in Versions, HealthCheck(v) PROVE LinksSound'
  <2>1. HoldsLock(v) /\ script[v].at = "health"
    BY <1>10 DEF HealthCheck, HoldsLock
  <2>2. /\ nextLink = 0 /\ backLink = 0 /\ v \in releases /\ script[v].previous \in Good
        /\ current = v /\ running = v
    BY <1>s, <2>1, HolderKnows DEF ScriptKnows
  <2>3. /\ \/ Goto(v, "prune") /\ v \in Working
           \/ Goto(v, "back") /\ unchecked' = unchecked
        /\ UNCHANGED <<releases, current, nextLink, backLink, running>>
    BY <1>10, <2>2 DEF HealthCheck
  <2>4. /\ \/ script'[v].at = "back" /\ unchecked' = unchecked
           \/ script'[v].at = "prune" /\ v \in Working
        /\ script'[v].previous = script[v].previous
        /\ \A w \in Versions \ {v} : script'[w] = script[w]
    BY <2>3, GotoType DEF ScriptStages
  <2>5. ScriptKnows(v)' /\ (script'[v].at = "prune" => current' \in Good')
    BY <2>2, <2>3, <2>4 DEF ScriptKnows, Good
  <2>6. QED
    BY <2>1, <2>2, <2>3, <2>4, <2>5, HolderStep
<1>11. ASSUME NEW v \in Versions, PruneReleases(v) PROVE LinksSound'
  <2>1. HoldsLock(v) /\ script[v].at = "prune"
    BY <1>11 DEF PruneReleases, HoldsLock
  <2>2. nextLink = 0 /\ backLink = 0 /\ v \in releases /\ current = v /\ v \in Working
    BY <1>s, <2>1, HolderKnows DEF ScriptKnows
  <2>3. v \in releases'
    BY <1>11, <2>2 DEF PruneReleases, Pruned
  <2>4. /\ script'[v].at = "idle" /\ \A w \in Versions \ {v} : script'[w] = script[w]
        /\ UNCHANGED <<current, nextLink, backLink, running, unchecked>>
    BY <1>11, ExitType DEF PruneReleases
  <2>5. ScriptKnows(v)' /\ current' \in Good'
    BY <2>2, <2>3, <2>4 DEF ScriptKnows, Good
  <2>6. QED
    BY <2>1, <2>2, <2>4, <2>5, HolderStep
<1>12. ASSUME NEW v \in Versions, RollBack(v) PROVE LinksSound'
  <2>1. HoldsLock(v) /\ script[v].at = "back"
    BY <1>12 DEF RollBack, HoldsLock
  <2>2. nextLink = 0 /\ backLink = 0 /\ v \in releases /\ script[v].previous \in Good
    BY <1>s, <2>1, HolderKnows DEF ScriptKnows
  <2>3. /\ Goto(v, "backSwap") /\ backLink' = script[v].previous
        /\ UNCHANGED <<releases, current, nextLink, running, unchecked>>
    BY <1>12, <2>2 DEF RollBack, LinkRefused, LinkTo
  <2>4. /\ script'[v].at = "backSwap" /\ script'[v].previous = script[v].previous
        /\ \A w \in Versions \ {v} : script'[w] = script[w]
    BY <2>3, GotoType DEF ScriptStages
  <2>5. ScriptKnows(v)'
    BY <2>2, <2>3, <2>4 DEF ScriptKnows, Good
  <2>6. QED
    BY <2>1, <2>2, <2>3, <2>4, <2>5, HolderStep
<1>13. ASSUME NEW v \in Versions, RollBackSwaps(v) PROVE LinksSound'
  <2>1. HoldsLock(v) /\ script[v].at = "backSwap"
    BY <1>13 DEF RollBackSwaps, HoldsLock
  <2>2. nextLink = 0 /\ backLink \in Good
    BY <1>s, <2>1, HolderKnows DEF ScriptKnows
  <2>3. /\ Goto(v, "backRestart") /\ current' = backLink /\ backLink' = 0
        /\ UNCHANGED <<releases, nextLink, running, unchecked>>
    BY <1>13 DEF RollBackSwaps
  <2>4. script'[v].at = "backRestart" /\ \A w \in Versions \ {v} : script'[w] = script[w]
    BY <2>3, GotoType DEF ScriptStages
  <2>5. ScriptKnows(v)' /\ current' \in Good'
    BY <2>2, <2>3, <2>4 DEF ScriptKnows, Good
  <2>6. QED
    BY <2>1, <2>2, <2>3, <2>4, <2>5, HolderStep
<1>14. CASE PowerFails
  <2>1. \A v \in Versions : script[v].at \notin {"swap"} \cup Moved
    BY <1>14 DEF PowerFails, LinksInHand
  <2>2. current \in Good /\ nextLink = 0 /\ backLink = 0
    BY <1>s, <2>1 DEF LinksSound
  <2>3. /\ \A v \in Versions : script'[v].at = "idle"
        /\ UNCHANGED <<releases, current, nextLink, backLink, unchecked>>
    BY <1>14 DEF PowerFails, NoScript
  <2>4. QED
    BY <2>2, <2>3 DEF LinksSound, ScriptKnows, Good
<1>15. CASE UNCHANGED updateVars
  BY <1>1, <1>15 DEF updateVars
<1>16. ASSUME NEW r \in Updates,
              \/ CheckForUpdates(r) \/ ManifestAnswered(r) \/ DownloadFile(r) \/ DownloadFails(r)
              \/ RenameArchive(r)
              \/ \E v \in Versions : RefuseInstall(r, v) \/ InstallUpdate(r, v)
       PROVE  LinksSound'
  BY <1>1, <1>16 DEF CheckForUpdates, ManifestAnswered, DownloadFile, DownloadFails, RenameArchive,
                     RefuseInstall, InstallUpdate
<1>17. ASSUME NEW v \in Versions, PublishRelease(v) PROVE LinksSound'
  BY <1>1, <1>17 DEF PublishRelease
<1>18. QED
  BY <1>3, <1>4, <1>5, <1>6, <1>7, <1>8, <1>9, <1>10, <1>11, <1>12, <1>13, <1>14, <1>15, <1>16,
     <1>17, <1>19, <1>20 DEF UpdateNext

\* Once no script is at work, the link names a release that is there, which
\* neither a rollback nor a pruning takes away, and that release works unless a
\* script exited after it had moved the link and before it asked for the
\* services' health (apply-pi-update.sh:57-63 under "set -e") and no release has
\* been found healthy since; all this unless the power failed with the links
\* in a script's hands.
THEOREM WorkingReleaseStays == UpdateSpec => []ActiveReleaseWorks
<1>1. LinksInv => ActiveReleaseWorks
  BY DEF LinksInv, LinksSound, ActiveReleaseWorks, NoScripts, NoScript, Moved, Good
<1>2. QED
  BY InitUpdateTypeInv, InitLockInv, InitLinksInv, StepUpdateTypeInv, StepLockInv, StepLinksInv, <1>1, PTL
  DEF UpdateSpec

\* A script that reports success prunes the old releases while the link and
\* the running agent are of its version.
THEOREM SuccessIsActive == UpdateSpec => SuccessMeansActive
<1>1. ASSUME UpdateTypeInv, LockInv, LinksInv
      PROVE  \A v \in Versions : PruneReleases(v) /\ ~interrupted => current = v /\ running = v
  BY <1>1 DEF LinksInv, LinksSound, ScriptKnows, PruneReleases
<1>2. UpdateTypeInv /\ LockInv /\ LinksInv =>
        [\A v \in Versions : PruneReleases(v) /\ ~interrupted => current = v /\ running = v]_updateVars
  BY <1>1
<1>3. QED
  BY InitUpdateTypeInv, InitLockInv, InitLinksInv, StepUpdateTypeInv, StepLockInv, StepLinksInv, <1>2, PTL
  DEF UpdateSpec, SuccessMeansActive

-----------------------------------------------------------------------------
(* The archive.  One download at a time writes the files of a version that *)
(* two downloads have never written at once.                               *)

ArchiveSound(v) ==
  /\ \A r, s \in Downloads(v) : r = s
  /\ \A r \in Downloads(v) : /\ requests[r].file = "part" /\ ~requests[r].torn
                             /\ requests[r].at = "downloaded" => archives[v].part = "whole"
  /\ archives[v].archive # "torn"
  /\ script[v].at = "started" => archives[v].archive = "whole"

ArchiveInv == \A v \in Versions \ overlapped : ArchiveSound(v)

LEMMA InitArchiveInv == UpdateInit => ArchiveInv
BY DEF UpdateInit, ArchiveInv, ArchiveSound, Downloads, NoRequest, NoScript

\* A version of which no download begins or goes on.
LEMMA ArchiveKept ==
  ASSUME NEW v \in Versions, ArchiveSound(v),
         \A r \in Updates : requests'[r].at \in {"download", "downloaded"} /\ requests'[r].version = v
                              => requests'[r] = requests[r],
         archives'[v] = archives[v],
         script'[v].at = "started" => script[v].at = "started"
  PROVE  ArchiveSound(v)'
<1>1. \A r \in Downloads(v)' : r \in Downloads(v) /\ requests'[r] = requests[r]
  BY DEF Downloads
<1>2. QED
  BY <1>1 DEF ArchiveSound

LEMMA StepArchiveInv == UpdateTypeInv /\ ArchiveInv /\ [UpdateNext]_updateVars => ArchiveInv'
<1> SUFFICES ASSUME UpdateTypeInv, ArchiveInv, [UpdateNext]_updateVars PROVE ArchiveInv'
  OBVIOUS
<1> USE DEF agentKeeps, beyondScript, scriptKeeps, agentVarsSU, diskVarsSU, boundsSU, historySU
<1>t. /\ requests \in [Updates -> UpdateRequests]
      /\ archives \in [Versions -> [part : Contents, archive : Contents]]
      /\ script \in [Versions -> [at : ScriptStages, previous : Versions]]
  BY DEF UpdateTypeInv, UpdateTypeOK
<1>1. ASSUME UNCHANGED <<archives, overlapped>>,
             \/ requests' = requests
             \/ \A r \in Updates : requests'[r] = NoRequest
             \/ \E r \in Updates : /\ requests'[r].at \in {"idle", "manifest"}
                                   /\ \A x \in Updates \ {r} : requests'[x] = requests[x],
             \A v \in Versions : script'[v].at = "started" => script[v].at = "started"
      PROVE  ArchiveInv'
  <2> SUFFICES ASSUME NEW v \in Versions \ overlapped PROVE ArchiveSound(v)'
    BY <1>1 DEF ArchiveInv
  <2>1. ArchiveSound(v) /\ archives'[v] = archives[v]
    BY <1>1 DEF ArchiveInv
  <2>2. \A r \in Updates : requests'[r].at \in {"download", "downloaded"} => requests'[r] = requests[r]
    BY <1>1 DEF NoRequest
  <2>3. QED
    BY <1>1, <2>1, <2>2, ArchiveKept
<1>2. ASSUME NEW v \in Versions,
             ScriptUnpacks(v) \/ ScriptPlaces(v) \/ ScriptMigrates(v) \/ ScriptLinks(v)
               \/ ScriptSwaps(v) \/ ScriptInstalls(v) \/ HealthCheck(v) \/ PruneReleases(v)
               \/ RollBack(v) \/ RollBackSwaps(v)
      PROVE  ArchiveInv'
  <2>1. UNCHANGED <<archives, overlapped, requests>>
    BY <1>2 DEF ScriptUnpacks, ScriptPlaces, ScriptMigrates, ScriptLinks, ScriptSwaps, ScriptInstalls,
                ScriptAborts, HealthCheck, PruneReleases, RollBack, RollBackSwaps
  <2>2. \/ ExitScript(v)
        \/ \E stage \in {"place", "migrate", "link", "install", "restart", "health", "prune", "back",
                         "backSwap", "backRestart"} : Goto(v, stage)
        \/ script' = [script EXCEPT ![v] = [at |-> "swap", previous |-> current]]
    BY <1>2 DEF ScriptUnpacks, ScriptPlaces, ScriptMigrates, ScriptLinks, ScriptSwaps, ScriptInstalls,
                ScriptAborts, HealthCheck, PruneReleases, RollBack, RollBackSwaps
  <2>3. script'[v].at # "started" /\ \A w \in Versions \ {v} : script'[w] = script[w]
    BY <1>t, <2>2, GotoType, ExitType DEF ScriptStages
  <2>4. QED
    BY <1>1, <2>1, <2>3
<1>3. ASSUME NEW v \in Versions, ScriptRestarts(v) \/ RollBackRestarts(v) PROVE ArchiveInv'
  <2>1. UNCHANGED <<archives, overlapped>> /\ \A r \in Updates : requests'[r] = NoRequest
    BY <1>3 DEF ScriptRestarts, RollBackRestarts, AgentStarts
  <2>2. script'[v].at # "started" /\ \A w \in Versions \ {v} : script'[w] = script[w]
    BY <1>3, GotoType, ExitType DEF ScriptRestarts, ScriptAborts, RollBackRestarts, ScriptStages
  <2>3. QED
    BY <1>1, <2>1, <2>2
<1>4. CASE PowerFails
  BY <1>1, <1>4 DEF PowerFails, AgentStarts, NoScript
<1>5. ASSUME NEW r \in Updates,
             CheckForUpdates(r) \/ ManifestAnswered(r) \/ \E v \in Versions : RefuseInstall(r, v)
      PROVE  ArchiveInv'
  <2>1. UNCHANGED <<archives, overlapped, script>>
    BY <1>5 DEF CheckForUpdates, ManifestAnswered, RefuseInstall
  <2>2. requests' = [requests EXCEPT ![r] = NoRequest]
        \/ requests' = [requests EXCEPT ![r] = [NoRequest EXCEPT !.at = "manifest"]]
    BY <1>5 DEF CheckForUpdates, ManifestAnswered, RefuseInstall, InstallFails
  <2>3. /\ requests'[r].at \in {"idle", "manifest"}
        /\ \A x \in Updates \ {r} : requests'[x] = requests[x]
    BY <1>t, <2>2 DEF NoRequest
  <2>4. QED
    BY <1>1, <2>1, <2>3
<1>6. ASSUME NEW r \in Updates, NEW v \in Versions, InstallUpdate(r, v) PROVE ArchiveInv'
  <2>1. /\ requests[r] = NoRequest /\ script' = script
        /\ requests'[r] = [at |-> "download", version |-> v, file |-> "part", torn |-> FALSE]
        /\ \A x \in Updates \ {r} : x \notin Writers(v, "part") => requests'[x] = requests[x]
        /\ \A x \in Updates \ {r} : /\ requests'[x].at = requests[x].at
                                    /\ requests'[x].version = requests[x].version
    BY <1>6, <1>t DEF InstallUpdate, Receive, UpdateRequests
  <2>2. /\ archives'[v].archive = archives[v].archive
        /\ \A w \in Versions \ {v} : archives'[w] = archives[w]
    BY <1>6, <1>t DEF InstallUpdate
  <2>3. overlapped \subseteq overlapped' /\ (Downloads(v) # {} => v \in overlapped')
    BY <1>6 DEF InstallUpdate
  <2> SUFFICES ASSUME NEW w \in Versions, w \notin overlapped' PROVE ArchiveSound(w)'
    BY DEF ArchiveInv
  <2>4. ArchiveSound(w)
    BY <2>3 DEF ArchiveInv
  <2>5. CASE w # v
    <3>1. \A x \in Updates : requests'[x].version = w => requests'[x] = requests[x]
      BY <2>1, <2>5 DEF Writers
    <3>2. QED
      BY <2>1, <2>2, <2>4, <2>5, <3>1, ArchiveKept
  <2>6. CASE w = v
    <3>1. Downloads(v) = {}
      BY <2>3, <2>6
    <3>2. \A x \in Downloads(v)' : x = r
      BY <2>1, <3>1 DEF Downloads
    <3>3. QED
      BY <2>1, <2>2, <2>4, <2>6, <3>2 DEF ArchiveSound
  <2>7. QED
    BY <2>5, <2>6
<1>7. ASSUME NEW r \in Updates, DownloadFile(r) PROVE ArchiveInv'
  <2> DEFINE v == requests[r].version
  <2>1. v \in Versions /\ r \in Downloads(v) /\ overlapped' = overlapped /\ script' = script
    BY <1>7 DEF DownloadFile, UpdateTypeInv, RequestsNameVersions, Fetching, Downloads
  <2>2. /\ requests'[r] = [requests[r] EXCEPT !.at = "downloaded"]
        /\ \A x \in Updates \ {r} : requests'[x] = requests[x]
    BY <1>7, <1>t DEF DownloadFile
  <2> SUFFICES ASSUME NEW w \in Versions \ overlapped PROVE ArchiveSound(w)'
    BY <2>1 DEF ArchiveInv
  <2>3. ArchiveSound(w)
    BY DEF ArchiveInv
  <2>4. CASE w # v
    <3>1. archives'[w] = archives[w]
      BY <1>7, <1>t, <2>1, <2>4 DEF DownloadFile
    <3>2. requests'[r].version # w
      BY <1>t, <2>2, <2>4 DEF UpdateRequests
    <3>3. QED
      BY <2>1, <2>2, <2>3, <3>1, <3>2, ArchiveKept
  <2>5. CASE w = v
    <3>1. /\ requests[r].file = "part" /\ ~requests[r].torn
          /\ \A x \in Downloads(v) : x = r
      BY <2>1, <2>3, <2>5 DEF ArchiveSound
    <3>2. archives'[w].part = "whole" /\ archives'[w].archive = archives[w].archive
      BY <1>7, <1>t, <2>1, <2>5, <3>1 DEF DownloadFile
    <3>3. /\ \A x \in Downloads(w)' : x = r
          /\ requests'[r].file = "part" /\ ~requests'[r].torn
      BY <1>t, <2>2, <2>5, <3>1 DEF Downloads, UpdateRequests
    <3>4. QED
      BY <2>1, <2>3, <2>5, <3>2, <3>3 DEF ArchiveSound
  <2>6. QED
    BY <2>4, <2>5
<1>8. ASSUME NEW r \in Updates, DownloadFails(r) PROVE ArchiveInv'
  <2> DEFINE v == requests[r].version
  <2>1. v \in Versions /\ r \in Downloads(v) /\ overlapped' = overlapped /\ script' = script
    BY <1>8 DEF DownloadFails, UpdateTypeInv, RequestsNameVersions, Fetching, Downloads
  <2>2. /\ requests'[r] = NoRequest
        /\ \A x \in Updates \ {r} : x \notin Writers(v, "part") => requests'[x] = requests[x]
        /\ \A x \in Updates \ {r} : /\ requests'[x].at = requests[x].at
                                    /\ requests'[x].version = requests[x].version
    BY <1>8, <1>t DEF DownloadFails, UpdateRequests
  <2>3. /\ archives'[v].archive = archives[v].archive
        /\ \A w \in Versions \ {v} : archives'[w] = archives[w]
    BY <1>8, <1>t, <2>1 DEF DownloadFails
  <2> SUFFICES ASSUME NEW w \in Versions \ overlapped PROVE ArchiveSound(w)'
    BY <2>1 DEF ArchiveInv
  <2>4. ArchiveSound(w)
    BY DEF ArchiveInv
  <2>5. CASE w # v
    <3>1. \A x \in Updates : requests'[x].at \in {"download", "downloaded"} /\ requests'[x].version = w
            => requests'[x] = requests[x]
      BY <2>2, <2>5 DEF Writers, NoRequest
    <3>2. QED
      BY <2>1, <2>3, <2>4, <2>5, <3>1, ArchiveKept
  <2>6. CASE w = v
    <3>1. \A x \in Downloads(v) : x = r
      BY <2>1, <2>4, <2>6 DEF ArchiveSound
    <3>2. Downloads(w)' = {}
      BY <2>2, <2>6, <3>1 DEF Downloads, NoRequest
    <3>3. archives'[w].archive = archives[w].archive
      BY <2>3, <2>6
    <3>4. QED
      BY <2>1, <2>4, <3>2, <3>3 DEF ArchiveSound
  <2>7. QED
    BY <2>5, <2>6
<1>9. ASSUME NEW r \in Updates, RenameArchive(r) PROVE ArchiveInv'
  <2> DEFINE v == requests[r].version
  <2>1. v \in Versions /\ r \in Downloads(v) /\ overlapped' = overlapped /\ script' = script
    BY <1>9 DEF RenameArchive, UpdateTypeInv, RequestsNameVersions, Fetching, Downloads
  <2>2. CASE archives[v].part = "none"
    <3>1. requests' = [requests EXCEPT ![r] = NoRequest] /\ archives' = archives
      BY <1>9, <2>2 DEF RenameArchive, InstallFails
    <3>2. requests'[r].at = "idle" /\ \A x \in Updates \ {r} : requests'[x] = requests[x]
      BY <1>t, <3>1 DEF NoRequest
    <3>3. QED
      BY <1>1, <2>1, <3>1, <3>2
  <2>3. CASE archives[v].part # "none"
    <3>0. requests' = [x \in Updates |->
                         IF x = r THEN [requests[r] EXCEPT !.at = "validated"]
                         ELSE IF x \in Writers(v, "archive") THEN [requests[x] EXCEPT !.file = "gone"]
                         ELSE IF x \in Writers(v, "part") THEN [requests[x] EXCEPT !.file = "archive"]
                         ELSE requests[x]]
      BY <1>9, <2>3 DEF RenameArchive
    <3>a. \A x \in Updates \ {r} :
            x \notin Writers(v, "archive") /\ x \notin Writers(v, "part") => requests'[x] = requests[x]
      BY <3>0
    <3>b. ASSUME NEW x \in Updates \ {r}
          PROVE  requests'[x].at = requests[x].at /\ requests'[x].version = requests[x].version
      <4>1. requests[x] \in UpdateRequests
        BY <1>t
      <4>2. \/ requests'[x] = [requests[x] EXCEPT !.file = "gone"]
            \/ requests'[x] = [requests[x] EXCEPT !.file = "archive"]
            \/ requests'[x] = requests[x]
        BY <3>0
      <4>3. QED
        BY <4>1, <4>2 DEF UpdateRequests
    <3>c. requests'[r].at = "validated"
      BY <1>t, <3>0 DEF UpdateRequests
    <3>1. /\ requests'[r].at = "validated"
          /\ \A x \in Updates \ {r} :
               x \notin Writers(v, "archive") /\ x \notin Writers(v, "part") => requests'[x] = requests[x]
          /\ \A x \in Updates \ {r} : /\ requests'[x].at = requests[x].at
                                      /\ requests'[x].version = requests[x].version
      BY <3>a, <3>b, <3>c
    <3>2. /\ archives'[v].archive = archives[v].part
          /\ \A w \in Versions \ {v} : archives'[w] = archives[w]
      BY <1>9, <1>t, <2>1, <2>3 DEF RenameArchive
    <3> SUFFICES ASSUME NEW w \in Versions \ overlapped PROVE ArchiveSound(w)'
      BY <2>1 DEF ArchiveInv
    <3>3. ArchiveSound(w)
      BY DEF ArchiveInv
    <3>4. CASE w # v
      <4>1. \A x \in Updates :
              requests'[x].at \in {"download", "downloaded"} /\ requests'[x].version = w
                => requests'[x] = requests[x]
        BY <3>1, <3>4 DEF Writers
      <4>2. QED
        BY <2>1, <3>2, <3>3, <3>4, <4>1, ArchiveKept
    <3>5. CASE w = v
      <4>1. archives[v].part # "torn" /\ \A x \in Downloads(v) : x = r
        BY <1>9, <2>1, <3>3, <3>5 DEF ArchiveSound, RenameArchive
      <4>2. Downloads(w)' = {}
        BY <3>1, <3>5, <4>1 DEF Downloads
      <4>3. archives'[w].archive = "whole"
        BY <1>t, <2>1, <2>3, <3>2, <3>5, <4>1 DEF Contents
      <4>4. QED
        BY <4>2, <4>3 DEF ArchiveSound
    <3>6. QED
      BY <3>4, <3>5
  <2>4. QED
    BY <2>2, <2>3
<1>10. ASSUME NEW r \in Updates, StartScript(r) PROVE ArchiveInv'
  <2> DEFINE v == requests[r].version
  <2>1. /\ v \in Versions
        /\ requests' = [requests EXCEPT ![r] = NoRequest] /\ UNCHANGED <<archives, overlapped>>
    BY <1>10 DEF StartScript, InstallFails, UpdateTypeInv, RequestsNameVersions, Fetching
  <2>2. requests'[r].at = "idle" /\ \A x \in Updates \ {r} : requests'[x] = requests[x]
    BY <1>t, <2>1 DEF NoRequest
  <2>3. CASE ~(Readable(v) /\ script[v] = NoScript)
    BY <1>1, <1>10, <2>1, <2>2, <2>3 DEF StartScript
  <2>4. CASE Readable(v) /\ script[v] = NoScript
    <3>1. \A w \in Versions \ {v} : script'[w] = script[w]
      BY <1>10, <1>t, <2>4 DEF StartScript
    <3> SUFFICES ASSUME NEW w \in Versions \ overlapped PROVE ArchiveSound(w)'
      BY <2>1 DEF ArchiveInv
    <3>2. ArchiveSound(w)
      BY DEF ArchiveInv
    <3>3. \A x \in Updates : requests'[x].at \in {"download", "downloaded"} => requests'[x] = requests[x]
      BY <2>2
    <3>4. CASE w # v
      BY <2>1, <3>1, <3>2, <3>3, <3>4, ArchiveKept
    <3>5. CASE w = v
      <4>1. \A x \in Downloads(w)' : x \in Downloads(w) /\ requests'[x] = requests[x]
        BY <3>3 DEF Downloads
      <4>2. archives' = archives /\ archives[w].archive = "whole"
        BY <2>1, <2>4, <3>5 DEF Readable
      <4>3. QED
        BY <3>2, <4>1, <4>2 DEF ArchiveSound
    <3>6. QED
      BY <3>4, <3>5
  <2>5. QED
    BY <2>3, <2>4
<1>11. ASSUME NEW v \in Versions, PublishRelease(v) PROVE ArchiveInv'
  BY <1>1, <1>11 DEF PublishRelease
<1>12. CASE UNCHANGED updateVars
  BY <1>1, <1>12 DEF updateVars
<1>13. QED
  BY <1>2, <1>3, <1>4, <1>5, <1>6, <1>7, <1>8, <1>9, <1>10, <1>11, <1>12 DEF UpdateNext

\* The archive that a script is started with (update-manager.ts: installUpdate)
\* is whole until the script reads it, unless two downloads of its version
\* overlapped.
THEOREM ArchivesAreWhole == UpdateSpec => []ArchiveWholeUnlessOverlapped
<1>1. ArchiveInv => ArchiveWholeUnlessOverlapped
  BY DEF ArchiveInv, ArchiveSound, ArchiveWholeUnlessOverlapped
<1>2. QED
  BY InitUpdateTypeInv, InitLockInv, InitArchiveInv, StepUpdateTypeInv, StepLockInv, StepArchiveInv, <1>1, PTL
  DEF UpdateSpec

-----------------------------------------------------------------------------
(* Presentation: types.  What is under way, or shown, was made before.     *)

Made(o) == o \in Overlays /\ o.startedAt <= made

OverlayTypeInv ==
  /\ PresentationTypeOK
  /\ \A i \in DOMAIN push : Made(push[i])
  /\ \A i \in DOMAIN polls : Made(polls[i])
  /\ Made(onDisk) /\ Made(onScreen) /\ Made(endTimer)

LEMMA InitOverlayTypeInv == PresentationInit => OverlayTypeInv
<1> SUFFICES ASSUME PresentationInit PROVE OverlayTypeInv
  OBVIOUS
<1>1. NoOverlay \in Overlays /\ NoOverlay.startedAt = 0
  <2>1. FALSE \in BOOLEAN
    BY Zenon
  <2>2. QED
    BY <2>1, PresentationAssumption DEF NoOverlay, Overlays, OverlayTypes
<1>2. unended \in BOOLEAN /\ disordered \in BOOLEAN
  BY Zenon DEF PresentationInit
<1>3. QED
  BY <1>1, <1>2, PresentationAssumption
  DEF PresentationInit, OverlayTypeInv, PresentationTypeOK, Made, Nothing

LEMMA NewOverlay ==
  ASSUME made \in Nat, made < MaxOverlays, NEW type \in OverlayTypes
  PROVE  NormalizedOverlay(type) \in Overlays /\ NormalizedOverlay(type).startedAt = made + 1
<1>1. (type # "clear") \in BOOLEAN
  BY Zenon
<1>2. made + 1 \in 0..MaxOverlays
  BY PresentationAssumption
<1>3. QED
  BY <1>1, <1>2 DEF NormalizedOverlay, Overlays

\* What is left of the polls after one has arrived.
LEMMA PollsLeft ==
  ASSUME OverlayTypeInv, NEW i \in 1..MaxPolls, PollArrives(i)
  PROVE  /\ polls' \in Seq(Overlays) /\ Len(polls') = Len(polls) - 1
         /\ \A j \in 1..(Len(polls) - 1) : polls'[j] = polls[IF j < i THEN j ELSE j + 1]
<1>1. polls \in Seq(Overlays) /\ DOMAIN polls = 1..Len(polls) /\ Len(polls) \in Nat /\ i \in 1..Len(polls)
  BY DEF OverlayTypeInv, PresentationTypeOK, PollArrives
<1>2. \A j \in 1..(Len(polls) - 1) : polls[IF j < i THEN j ELSE j + 1] \in Overlays
  BY <1>1
<1>3. polls' = [j \in 1..(Len(polls) - 1) |-> polls[IF j < i THEN j ELSE j + 1]]
  BY DEF PollArrives
<1>4. QED
  BY <1>1, <1>2, <1>3

LEMMA StepOverlayTypeInv == OverlayTypeInv /\ [PresentationNext]_presentationVars => OverlayTypeInv'
<1> SUFFICES ASSUME OverlayTypeInv, [PresentationNext]_presentationVars PROVE OverlayTypeInv'
  OBVIOUS
<1> USE DEF OverlayTypeInv, PresentationTypeOK, Made
<1>n. NoOverlay \in Overlays /\ NoOverlay.startedAt = 0 /\ made \in Nat
  <2>1. FALSE \in BOOLEAN
    BY Zenon
  <2>2. QED
    BY <2>1, PresentationAssumption DEF NoOverlay, Overlays, OverlayTypes
<1>b. /\ (unended \/ endTimer # NoOverlay) \in BOOLEAN
      /\ FALSE \in BOOLEAN /\ TRUE \in BOOLEAN
      /\ \A i : (disordered \/ i # 1) \in BOOLEAN
  BY Zenon
<1>1. ASSUME NEW type \in OverlayTypes, SendPresentation(type) PROVE OverlayTypeInv'
  <2>1. /\ made < MaxOverlays /\ made' = made + 1
        /\ push' = Append(push, NormalizedOverlay(type))
        /\ awaited' = [overlay |-> NormalizedOverlay(type), fate |-> "sent"]
        /\ UNCHANGED <<onDisk, endTimer, polls, onScreen>>
    BY <1>1 DEF SendPresentation
  <2>2. NormalizedOverlay(type) \in Overlays /\ NormalizedOverlay(type).startedAt = made + 1
    BY <1>n, <2>1, NewOverlay
  <2>s. \A o \in Overlays : o.startedAt \in Nat
    BY DEF Overlays
  <2>m. \A o \in Overlays : o.startedAt <= made => o.startedAt <= made'
    BY <1>n, <2>1, <2>s
  <2>3. push' \in Seq(Overlays) /\ \A i \in DOMAIN push' : push'[i] \in Overlays /\ push'[i].startedAt <= made'
    <3>1. push' \in Seq(Overlays) /\ Len(push') = Len(push) + 1
          /\ push'[Len(push) + 1] = NormalizedOverlay(type)
          /\ \A i \in 1..Len(push) : push'[i] = push[i]
      BY <2>1, <2>2
    <3>2. \A i \in 1..Len(push) : push'[i] \in Overlays /\ push'[i].startedAt <= made'
      BY <2>m, <3>1
    <3>3. push'[Len(push) + 1].startedAt <= made'
      BY <1>n, <2>1, <2>2, <3>1
    <3>4. QED
      BY <2>2, <3>1, <3>2, <3>3
  <2>o. onDisk' = onDisk /\ onScreen' = onScreen /\ endTimer' = endTimer /\ polls' = polls
    BY <2>1
  <2>4. /\ onDisk'.startedAt <= made' /\ onScreen'.startedAt <= made' /\ endTimer'.startedAt <= made'
        /\ \A i \in DOMAIN polls' : polls'[i] \in Overlays /\ polls'[i].startedAt <= made'
    BY <2>m, <2>o
  <2>5. made' \in 0..MaxOverlays
    BY <2>1, PresentationAssumption
  <2>6. PresentationTypeOK'
    BY <1>1, <2>1, <2>2, <2>3, <2>5 DEF SendPresentation
  <2>7. QED
    BY <2>3, <2>4, <2>6 DEF Made
<1>2. CASE SendTimesOut
  BY <1>2, <1>n, PresentationAssumption DEF SendTimesOut, Nothing
<1>3. CASE ApplyOverlay
  <2>1. Head(push) \in Overlays /\ Head(push) = push[1] /\ Made(Head(push))
        /\ Tail(push) \in Seq(Overlays) /\ \A i \in DOMAIN Tail(push) : Made(Tail(push)[i])
    BY <1>3 DEF ApplyOverlay
  <2>2. awaited' \in [overlay : Overlays, fate : {"none", "sent", "applied", "refused"}]
    BY <1>3 DEF ApplyOverlay, OverlayAcknowledged
  <2>3. endTimer' \in Overlays /\ Made(endTimer)' /\ Made(onDisk)'
    BY <1>3, <1>n, <2>1 DEF ApplyOverlay
  <2>4. QED
    BY <1>3, <1>b, <2>1, <2>2, <2>3 DEF ApplyOverlay
<1>4. CASE ApplyFails
  <2>1. /\ Tail(push) \in Seq(Overlays) /\ \A i \in DOMAIN Tail(push) : Made(Tail(push)[i])
    BY <1>4 DEF ApplyFails
  <2>2. awaited' \in [overlay : Overlays, fate : {"none", "sent", "applied", "refused"}]
    BY <1>4 DEF ApplyFails, OverlayAcknowledged
  <2>3. upsets' \in 0..MaxUpsets
    BY <1>4, PresentationAssumption DEF ApplyFails
  <2>4. QED
    BY <1>4, <1>n, <1>b, <2>1, <2>2, <2>3 DEF ApplyFails
<1>5. CASE AnswerPresentation
  <2>1. upsets' \in 0..MaxUpsets /\ persisted' \in Overlays
    BY <1>5, PresentationAssumption DEF AnswerPresentation
  <2>2. QED
    BY <1>5, <1>n, <2>1 DEF AnswerPresentation, Nothing
<1>6. CASE EndFires
  <2>1. made' = made + 1 /\ made' \in 0..MaxOverlays
    BY <1>6, PresentationAssumption DEF EndFires
  <2>2. onDisk' \in Overlays /\ onDisk'.startedAt = made'
    BY <1>6, <1>b, <2>1 DEF EndFires, Overlays
  <2>3. QED
    BY <1>6, <1>n, <2>1, <2>2, SMTT(30) DEF EndFires, Overlays
<1>7. CASE OverlayAgentRestarts
  <2>1. upsets' \in 0..MaxUpsets
    BY <1>7, PresentationAssumption DEF OverlayAgentRestarts
  <2>2. QED
    BY <1>7, <1>n, <1>b, <2>1 DEF OverlayAgentRestarts
<1>8. CASE PollReads
  <2>1. readings' \in 0..MaxReadings
    BY <1>8, PresentationAssumption DEF PollReads
  <2>2. polls' \in Seq(Overlays) /\ \A i \in DOMAIN polls' : Made(polls'[i])
    BY <1>8 DEF PollReads
  <2>3. QED
    BY <1>8, <2>1, <2>2 DEF PollReads
<1>9. CASE SlideTurns
  BY <1>9 DEF SlideTurns
<1>10. CASE KioskReloads
  <2>1. upsets' \in 0..MaxUpsets
    BY <1>10, PresentationAssumption DEF KioskReloads
  <2>2. QED
    BY <1>10, <1>n, <1>b, <2>1 DEF KioskReloads
<1>11. ASSUME NEW i \in 1..MaxPolls, PollArrives(i) PROVE OverlayTypeInv'
  <2>1. polls[i] \in Overlays /\ Made(polls[i]) /\ polls[i].startedAt \in 0..MaxOverlays
    BY <1>11 DEF PollArrives, Overlays
  <2>2. polls' \in Seq(Overlays) /\ \A j \in DOMAIN polls' : Made(polls'[j])
    <3>1. polls \in Seq(Overlays) /\ i \in 1..Len(polls) /\ Len(polls) \in Nat
      BY <1>11 DEF PollArrives
    <3>2. polls' \in Seq(Overlays) /\ DOMAIN polls' = 1..(Len(polls) - 1)
          /\ \A j \in 1..(Len(polls) - 1) : polls'[j] = polls[IF j < i THEN j ELSE j + 1]
      BY <1>11, <3>1, PollsLeft
    <3>3. \A j \in 1..(Len(polls) - 1) : (IF j < i THEN j ELSE j + 1) \in DOMAIN polls
      BY <3>1
    <3>4. QED
      BY <3>2, <3>3
  <2>3. sounded' \in [0..MaxOverlays -> 0..2]
    BY <1>11, <2>1 DEF PollArrives
  <2>4. slide' \in 0..1
    BY <1>11 DEF PollArrives, SlideAfter
  <2>5. QED
    BY <1>11, <1>b, <2>1, <2>2, <2>3, <2>4 DEF PollArrives
<1>12. CASE UNCHANGED presentationVars
  BY <1>12 DEF presentationVars
<1>13. QED
  BY <1>1, <1>2, <1>3, <1>4, <1>5, <1>6, <1>7, <1>8, <1>9, <1>10, <1>11, <1>12 DEF PresentationNext

\* Every variable of the overlays has its type.
THEOREM PresentationTypeCorrect == PresentationSpec => []PresentationTypeOK
<1>1. OverlayTypeInv => PresentationTypeOK
  BY DEF OverlayTypeInv
<1>2. QED
  BY InitOverlayTypeInv, StepOverlayTypeInv, <1>1, PTL DEF PresentationSpec

-----------------------------------------------------------------------------
(* The timer of the agent.                                                 *)

LEMMA StepEnd == EndBelongsToOverlay /\ [PresentationNext]_presentationVars => EndBelongsToOverlay'
<1> SUFFICES ASSUME EndBelongsToOverlay, [PresentationNext]_presentationVars PROVE EndBelongsToOverlay'
  OBVIOUS
<1> USE DEF EndBelongsToOverlay, Lasts
<1>n. ~NoOverlay.active
  BY DEF NoOverlay
<1>1. CASE UNCHANGED <<endTimer, onDisk, unended>>
  BY <1>1
<1>2. CASE ApplyOverlay
  BY <1>2 DEF ApplyOverlay
<1>3. CASE ApplyFails
  BY <1>3, <1>n DEF ApplyFails
<1>4. CASE EndFires
  BY <1>4, <1>n DEF EndFires
<1>5. CASE OverlayAgentRestarts
  BY <1>5, <1>n DEF OverlayAgentRestarts
<1>6. ASSUME \/ \E type \in OverlayTypes : SendPresentation(type)
             \/ SendTimesOut \/ AnswerPresentation \/ PollReads \/ SlideTurns \/ KioskReloads
             \/ \E i \in 1..MaxPolls : PollArrives(i)
      PROVE  UNCHANGED <<endTimer, onDisk, unended>>
  BY <1>6 DEF SendPresentation, SendTimesOut, AnswerPresentation, PollReads, SlideTurns,
              KioskReloads, PollArrives
<1>7. QED
  BY <1>1, <1>2, <1>3, <1>4, <1>5, <1>6 DEF PresentationNext, presentationVars

\* The agent's timer (socket-client.ts: applyPresentationOverlay) ends the
\* overlay that is on the display and no other, and every overlay with a
\* duration has one, whatever is sent, restarted or fails to be written.
THEOREM EndsBelong == PresentationSpec => []EndBelongsToOverlay
<1>1. PresentationInit => EndBelongsToOverlay
  BY DEF PresentationInit, EndBelongsToOverlay, NoOverlay
<1>2. QED
  BY <1>1, StepEnd, PTL DEF PresentationSpec

-----------------------------------------------------------------------------
(* The horn.  What the kiosk shows, the answers on their way to it and what *)
(* is on disk stand in a line, in which an overlay has one stretch; what is *)
(* still on its way to the agent has neither been in the line nor sounded.  *)

Line(k) == IF k = 0 THEN onScreen ELSE IF k <= Len(polls) THEN polls[k] ELSE onDisk
Places == 0..(Len(polls) + 1)

OneStretch ==
  \A i, k \in Places : i <= k /\ Line(i).startedAt = Line(k).startedAt
    => \A j \in i..k : Line(j) = Line(i)

\* Whatever has sounded and is in the line is on the screen already.
SoundedIsShown ==
  \A k \in Places : sounded[Line(k).startedAt] = 0 \/ Line(k).startedAt = onScreen.startedAt

PushedIsNew ==
  /\ \A i \in DOMAIN push : /\ sounded[push[i].startedAt] = 0
                            /\ \A k \in Places : Line(k).startedAt # push[i].startedAt
  /\ \A i, j \in DOMAIN push : push[i].startedAt = push[j].startedAt => i = j

SoundedAtMostOnce ==
  \A n \in 0..MaxOverlays : sounded[n] <= 1 /\ (n > made => sounded[n] = 0)

HornSound == OneStretch /\ SoundedIsShown /\ PushedIsNew /\ SoundedAtMostOnce
HornInv == ~disordered => HornSound

LEMMA InitHornInv == PresentationInit => HornInv
<1> SUFFICES ASSUME PresentationInit PROVE HornSound
  BY DEF HornInv
<1>1. \A k \in Places : Line(k) = NoOverlay
  <2>1. Len(polls) = 0
    BY DEF PresentationInit
  <2>2. QED
    BY <2>1 DEF PresentationInit, Line, Places
<1>2. NoOverlay.startedAt = 0 /\ \A n \in 0..MaxOverlays : sounded[n] = 0
  BY DEF PresentationInit, NoOverlay
<1>3. 0 \in 0..MaxOverlays
  BY PresentationAssumption
<1>4. push = <<>> /\ onScreen = NoOverlay
  BY DEF PresentationInit
<1>5. OneStretch
  <2> SUFFICES ASSUME NEW i \in Places, NEW k \in Places, NEW j \in i..k
               PROVE  Line(j) = Line(i)
    BY DEF OneStretch
  <2>1. Len(polls) = 0
    BY DEF PresentationInit
  <2>2. j \in Places
    BY <2>1 DEF Places
  <2>3. QED
    BY <1>1, <2>2
<1>6. SoundedIsShown
  BY <1>1, <1>4 DEF SoundedIsShown
<1>7. PushedIsNew
  <2>1. DOMAIN push = {}
    BY <1>4
  <2>2. QED
    BY <2>1 DEF PushedIsNew
<1>8. SoundedAtMostOnce
  BY <1>2 DEF SoundedAtMostOnce
<1>9. QED
  BY <1>5, <1>6, <1>7, <1>8 DEF HornSound

\* The line holds overlays that were made.
LEMMA LineMade ==
  ASSUME OverlayTypeInv
  PROVE  /\ Len(polls) \in Nat /\ made \in Nat /\ made <= MaxOverlays /\ MaxOverlays \in Nat
         /\ \A k \in Places : /\ Line(k) \in Overlays /\ Line(k).startedAt \in 0..MaxOverlays
                              /\ Line(k).startedAt <= made
<1>1. Len(polls) \in Nat /\ made \in Nat /\ made <= MaxOverlays /\ MaxOverlays \in Nat
  BY PresentationAssumption DEF OverlayTypeInv, PresentationTypeOK
<1>2. \A o \in Overlays : o.startedAt \in 0..MaxOverlays
  BY DEF Overlays
<1>3. ASSUME NEW k \in Places PROVE Line(k) \in Overlays /\ Line(k).startedAt <= made
  <2>1. CASE k = 0
    BY <2>1 DEF Line, OverlayTypeInv, Made
  <2>2. CASE k # 0 /\ k <= Len(polls)
    <3>1. k \in DOMAIN polls
      BY <1>1, <2>2 DEF Places, OverlayTypeInv, PresentationTypeOK
    <3>2. QED
      BY <2>2, <3>1 DEF Line, OverlayTypeInv, Made
  <2>3. CASE k # 0 /\ ~(k <= Len(polls))
    BY <2>3 DEF Line, OverlayTypeInv, Made
  <2>4. QED
    BY <2>1, <2>2, <2>3
<1>4. QED
  BY <1>1, <1>2, <1>3

\* Steps that leave the line and the horn alone.
LEMMA LineKept ==
  ASSUME HornSound, UNCHANGED <<polls, onScreen, onDisk, sounded>>,
         made' = made,
         \/ push' = push \/ push' = <<>>
         \/ push # <<>> /\ push \in Seq(Overlays) /\ push' = Tail(push)
  PROVE  HornSound'
<1>1. OneStretch' /\ SoundedIsShown' /\ SoundedAtMostOnce' /\ Places' = Places /\ \A k : Line(k)' = Line(k)
  BY DEF HornSound, OneStretch, SoundedIsShown, SoundedAtMostOnce, Places, Line
<1>2. PushedIsNew'
  <2>1. CASE push' = push \/ push' = <<>>
    BY <1>1, <2>1 DEF HornSound, PushedIsNew, Places, Line
  <2>2. CASE push # <<>> /\ push \in Seq(Overlays) /\ push' = Tail(push)
    <3>1. \A i \in DOMAIN push' : i + 1 \in DOMAIN push /\ push'[i] = push[i + 1] /\ i \in Nat
      BY <2>2
    <3>2. \A i \in DOMAIN push' : /\ sounded'[push'[i].startedAt] = 0
                                  /\ \A k \in Places : Line(k).startedAt # push'[i].startedAt
      BY <3>1 DEF HornSound, PushedIsNew
    <3>3. \A i, j \in DOMAIN push' : push'[i].startedAt = push'[j].startedAt => i = j
      <4> SUFFICES ASSUME NEW i \in DOMAIN push', NEW j \in DOMAIN push',
                          push'[i].startedAt = push'[j].startedAt
                   PROVE  i = j
        OBVIOUS
      <4>1. i + 1 = j + 1
        BY <3>1 DEF HornSound, PushedIsNew
      <4>2. QED
        BY <3>1, <4>1
    <3>4. QED
      BY <1>1, <3>2, <3>3 DEF PushedIsNew
  <2>3. QED
    BY <2>1, <2>2
<1>3. QED
  BY <1>1, <1>2 DEF HornSound

\* A new overlay comes to the end of the line.
LEMMA LineEnds ==
  ASSUME OverlayTypeInv, HornSound, UNCHANGED <<polls, onScreen, sounded>>,
         sounded[onDisk'.startedAt] = 0,
         \A k \in Places : Line(k).startedAt # onDisk'.startedAt
  PROVE  OneStretch' /\ SoundedIsShown'
<1>0. Len(polls) \in Nat
  BY LineMade
<1>1. /\ Places' = Places /\ Len(polls) + 1 \in Places /\ Line(Len(polls) + 1)' = onDisk'
      /\ \A k \in 0..Len(polls) : Line(k)' = Line(k)
  BY <1>0 DEF Places, Line
<1>2. OneStretch'
  <2> SUFFICES ASSUME NEW i \in Places, NEW k \in Places, i <= k,
                      Line(i)'.startedAt = Line(k)'.startedAt, NEW j \in i..k
               PROVE  Line(j)' = Line(i)'
    BY <1>1 DEF OneStretch
  <2>1. CASE k <= Len(polls)
    <3>1. i \in 0..Len(polls) /\ j \in 0..Len(polls) /\ k \in 0..Len(polls)
      BY <1>0, <2>1 DEF Places
    <3>2. Line(i)' = Line(i) /\ Line(j)' = Line(j) /\ Line(k)' = Line(k)
      BY <1>1, <3>1
    <3>3. QED
      BY <3>2 DEF HornSound, OneStretch
  <2>2. CASE ~(k <= Len(polls))
    <3>1. k = Len(polls) + 1
      BY <1>0, <2>2 DEF Places
    <3>2. i = k
      <4>1. SUFFICES ASSUME i # k PROVE FALSE
        OBVIOUS
      <4>2. i \in 0..Len(polls)
        BY <1>0, <3>1, <4>1 DEF Places
      <4>3. Line(i).startedAt = onDisk'.startedAt
        BY <1>1, <3>1, <4>2
      <4>4. QED
        BY <4>3
    <3>3. j = i
      BY <1>0, <3>1, <3>2
    <3>4. QED
      BY <3>3
  <2>3. QED
    BY <2>1, <2>2
<1>3. SoundedIsShown'
  <2> SUFFICES ASSUME NEW k \in Places
               PROVE  sounded[Line(k)'.startedAt] = 0 \/ Line(k)'.startedAt = onScreen.startedAt
    BY <1>1 DEF SoundedIsShown
  <2>1. CASE k <= Len(polls)
    <3>1. Line(k)' = Line(k)
      BY <1>0, <1>1, <2>1 DEF Places
    <3>2. QED
      BY <3>1 DEF HornSound, SoundedIsShown
  <2>2. CASE ~(k <= Len(polls))
    <3>1. k = Len(polls) + 1
      BY <1>0, <2>2 DEF Places
    <3>2. QED
      BY <1>1, <3>1
  <2>3. QED
    BY <2>1, <2>2
<1>4. QED
  BY <1>2, <1>3

LEMMA StepHornInv == OverlayTypeInv /\ HornInv /\ [PresentationNext]_presentationVars => HornInv'
<1> SUFFICES ASSUME OverlayTypeInv, HornInv, [PresentationNext]_presentationVars, ~disordered'
             PROVE  HornSound'
  BY DEF HornInv
<1>0. HornSound
  BY DEF HornInv, PresentationNext, presentationVars, SendPresentation, SendTimesOut, ApplyOverlay,
         ApplyFails, AnswerPresentation, EndFires, OverlayAgentRestarts, PollReads, PollArrives,
         SlideTurns, KioskReloads
<1>t. /\ Len(polls) \in Nat /\ made \in Nat /\ made <= MaxOverlays /\ MaxOverlays \in Nat
      /\ \A k \in Places : /\ Line(k) \in Overlays /\ Line(k).startedAt \in 0..MaxOverlays
                           /\ Line(k).startedAt <= made
  BY LineMade
<1>p. push \in Seq(Overlays) /\ polls \in Seq(Overlays) /\ sounded \in [0..MaxOverlays -> 0..2]
  BY DEF OverlayTypeInv, PresentationTypeOK
<1>1. ASSUME NEW type \in OverlayTypes, SendPresentation(type) PROVE HornSound'
  <2> DEFINE o == NormalizedOverlay(type)
  <2>1. /\ made < MaxOverlays /\ made' = made + 1 /\ push' = Append(push, o)
        /\ UNCHANGED <<polls, onScreen, onDisk, sounded>>
    BY <1>1 DEF SendPresentation
  <2>2. o \in Overlays /\ o.startedAt = made + 1
    BY <1>t, <2>1, NewOverlay
  <2>3. Places' = Places /\ \A k : Line(k)' = Line(k)
    BY <2>1 DEF Places, Line
  <2>4. OneStretch' /\ SoundedIsShown'
    <3> HIDE DEF o
    <3>1. OneStretch'
      BY <1>0, <2>3 DEF HornSound, OneStretch
    <3>2. SoundedIsShown'
      BY <1>0, <2>1, <2>3 DEF HornSound, SoundedIsShown
    <3>3. QED
      BY <3>1, <3>2
  <2>5. SoundedAtMostOnce'
    BY <1>0, <1>t, <2>1 DEF HornSound, SoundedAtMostOnce
  <2>6. PushedIsNew'
    <3> HIDE DEF o
    <3>1. /\ Len(push) \in Nat /\ DOMAIN push = 1..Len(push)
          /\ DOMAIN push' = 1..(Len(push) + 1) /\ push'[Len(push) + 1] = o
          /\ \A i \in 1..Len(push) : push'[i] = push[i]
      BY <1>p, <2>1, <2>2
    <3>2. \A i \in 1..Len(push) : push[i].startedAt <= made
      BY <3>1 DEF OverlayTypeInv, Made
    <3>3. sounded[o.startedAt] = 0 /\ \A k \in Places : Line(k).startedAt # o.startedAt
      BY <1>0, <1>t, <2>1, <2>2 DEF HornSound, SoundedAtMostOnce
    <3>4. \A i \in DOMAIN push' : /\ sounded[push'[i].startedAt] = 0
                                  /\ \A k \in Places : Line(k).startedAt # push'[i].startedAt
      BY <1>0, <3>1, <3>3 DEF HornSound, PushedIsNew
    <3>5. \A i \in 1..Len(push) : push'[i].startedAt # o.startedAt
      BY <1>t, <2>2, <3>1, <3>2
    <3>6. \A i, j \in DOMAIN push' : push'[i].startedAt = push'[j].startedAt => i = j
      BY <1>0, <3>1, <3>5 DEF HornSound, PushedIsNew
    <3>7. QED
      BY <2>1, <2>3, <3>4, <3>6 DEF PushedIsNew
  <2>7. QED
    BY <2>4, <2>5, <2>6 DEF HornSound
<1>2. CASE ApplyOverlay
  <2>1. /\ push # <<>> /\ push' = Tail(push) /\ onDisk' = push[1] /\ 1 \in DOMAIN push
        /\ UNCHANGED <<polls, onScreen, sounded, made>>
    BY <1>2, <1>p DEF ApplyOverlay
  <2>2. /\ sounded[onDisk'.startedAt] = 0
        /\ \A k \in Places : Line(k).startedAt # onDisk'.startedAt
    BY <1>0, <2>1 DEF HornSound, PushedIsNew
  <2>3. OneStretch' /\ SoundedIsShown'
    BY <1>0, <2>1, <2>2, LineEnds
  <2>4. SoundedAtMostOnce'
    BY <1>0, <2>1 DEF HornSound, SoundedAtMostOnce
  <2>5. PushedIsNew'
    <3>1. \A i \in DOMAIN push' : i + 1 \in DOMAIN push /\ push'[i] = push[i + 1] /\ i \in Nat \ {0}
      BY <1>p, <2>1
    <3>2. \A i \in DOMAIN push' : push'[i].startedAt # push[1].startedAt
      <4> SUFFICES ASSUME NEW i \in DOMAIN push', push'[i].startedAt = push[1].startedAt PROVE FALSE
        OBVIOUS
      <4>1. i + 1 = 1
        BY <1>0, <2>1, <3>1 DEF HornSound, PushedIsNew
      <4>2. QED
        BY <3>1, <4>1
    <3>3. \A k \in Places : Line(k)' = Line(k) \/ Line(k)' = push[1]
      BY <2>1 DEF Line
    <3>4. \A i \in DOMAIN push' : /\ sounded'[push'[i].startedAt] = 0
                                  /\ \A k \in Places : Line(k)'.startedAt # push'[i].startedAt
      BY <1>0, <2>1, <3>1, <3>2, <3>3 DEF HornSound, PushedIsNew
    <3>5. \A i, j \in DOMAIN push' : push'[i].startedAt = push'[j].startedAt => i = j
      <4> SUFFICES ASSUME NEW i \in DOMAIN push', NEW j \in DOMAIN push',
                          push'[i].startedAt = push'[j].startedAt
                   PROVE  i = j
        OBVIOUS
      <4>1. i + 1 = j + 1
        BY <1>0, <3>1 DEF HornSound, PushedIsNew
      <4>2. QED
        BY <3>1, <4>1
    <3>6. Places' = Places
      BY <2>1 DEF Places
    <3>7. QED
      BY <3>4, <3>5, <3>6 DEF PushedIsNew
  <2>6. QED
    BY <2>3, <2>4, <2>5 DEF HornSound
<1>3. CASE EndFires
  <2>1. /\ made < MaxOverlays /\ made' = made + 1 /\ onDisk'.startedAt = made + 1
        /\ UNCHANGED <<push, polls, onScreen, sounded>>
    <3>1. endTimer \in Overlays
      BY DEF OverlayTypeInv, PresentationTypeOK
    <3>2. QED
      BY <1>3, <3>1 DEF EndFires, Overlays
  <2>2. sounded[onDisk'.startedAt] = 0 /\ \A k \in Places : Line(k).startedAt # onDisk'.startedAt
    BY <1>0, <1>t, <2>1 DEF HornSound, SoundedAtMostOnce
  <2>3. OneStretch' /\ SoundedIsShown'
    BY <1>0, <2>1, <2>2, LineEnds
  <2>4. SoundedAtMostOnce'
    BY <1>0, <1>t, <2>1 DEF HornSound, SoundedAtMostOnce
  <2>5. PushedIsNew'
    <3>1. \A i \in DOMAIN push : push[i].startedAt # made + 1
      <4>1. \A i \in DOMAIN push : push[i] \in Overlays /\ push[i].startedAt <= made
        BY DEF OverlayTypeInv, Made
      <4>2. \A o \in Overlays : o.startedAt \in Nat
        BY DEF Overlays
      <4>3. QED
        BY <1>t, <4>1, <4>2
    <3>2. \A k \in Places : Line(k)' = Line(k) \/ Line(k)' = onDisk'
      BY <2>1 DEF Line
    <3>3. Places' = Places
      BY <2>1 DEF Places
    <3>4. \A i \in DOMAIN push : \A k \in Places : Line(k)'.startedAt # push[i].startedAt
      BY <1>0, <2>1, <3>1, <3>2 DEF HornSound, PushedIsNew
    <3>5. QED
      BY <1>0, <2>1, <3>3, <3>4 DEF HornSound, PushedIsNew
  <2>6. QED
    BY <2>3, <2>4, <2>5 DEF HornSound
<1>4. CASE PollReads
  <2>1. /\ polls' = Append(polls, onDisk) /\ Len(polls') = Len(polls) + 1
        /\ UNCHANGED <<push, onScreen, onDisk, sounded, made>>
    BY <1>4, <1>p DEF PollReads, OverlayTypeInv, PresentationTypeOK
  <2> DEFINE Before(k) == IF k <= Len(polls) + 1 THEN k ELSE Len(polls) + 1
  <2>2. ASSUME NEW k \in Places' PROVE Before(k) \in Places /\ Line(k)' = Line(Before(k))
    <3>1. k \in 0..(Len(polls) + 2)
      BY <2>1, <2>2 DEF Places
    <3>2. CASE k <= Len(polls)
      BY <1>p, <1>t, <2>1, <3>1, <3>2 DEF Line, Places
    <3>3. CASE k = Len(polls) + 1
      BY <1>p, <1>t, <2>1, <3>1, <3>3 DEF Line, Places
    <3>4. CASE k = Len(polls) + 2
      BY <1>p, <1>t, <2>1, <3>1, <3>4 DEF Line, Places
    <3>5. QED
      BY <1>t, <3>1, <3>2, <3>3, <3>4
  <2>3. Places' \subseteq Nat
    BY <1>t, <2>1 DEF Places
  <2>4. OneStretch'
    <3> SUFFICES ASSUME NEW i \in Places', NEW k \in Places', i <= k,
                        Line(i)'.startedAt = Line(k)'.startedAt, NEW j \in i..k
                 PROVE  Line(j)' = Line(i)'
      BY DEF OneStretch
    <3>1. j \in Places'
      BY <1>t, <2>1 DEF Places
    <3>2. Before(i) <= Before(k) /\ Before(j) \in Before(i)..Before(k)
      BY <1>t, <2>3, <3>1
    <3>3. /\ Before(i) \in Places /\ Before(k) \in Places
          /\ Line(i)' = Line(Before(i)) /\ Line(j)' = Line(Before(j)) /\ Line(k)' = Line(Before(k))
      BY <2>2, <3>1
    <3> HIDE DEF Before
    <3>4. QED
      BY <1>0, <3>2, <3>3 DEF HornSound, OneStretch
  <2>5. SoundedIsShown' /\ PushedIsNew'
    <3> HIDE DEF Before
    <3>1. SoundedIsShown'
      BY <1>0, <2>1, <2>2 DEF HornSound, SoundedIsShown
    <3>2. PushedIsNew'
      BY <1>0, <2>1, <2>2 DEF HornSound, PushedIsNew
    <3>3. QED
      BY <3>1, <3>2
  <2>6. SoundedAtMostOnce'
    BY <1>0, <2>1 DEF HornSound, SoundedAtMostOnce
  <2>7. QED
    BY <2>4, <2>5, <2>6 DEF HornSound
<1>5. ASSUME NEW i \in 1..MaxPolls, PollArrives(i) PROVE HornSound'
  <2> DEFINE o == polls[1]
             n == o.startedAt
  <2>i. i = 1
    BY <1>5, Zenon DEF PollArrives
  <2>1. i = 1 /\ Len(polls) >= 1 /\ 1 \in Places /\ 0 \in Places /\ Line(1) = o /\ Line(0) = onScreen
    <3>1. 1 \in DOMAIN polls
      BY <1>5, <2>i DEF PollArrives
    <3>2. Len(polls) >= 1
      BY <1>p, <3>1
    <3>3. QED
      BY <1>t, <2>i, <3>2 DEF Places, Line
  <2>2. /\ onScreen' = o /\ UNCHANGED <<push, onDisk, made>>
        /\ sounded' = [sounded EXCEPT ![n] = IF SoundsHorn(o) /\ @ < 2 THEN @ + 1 ELSE @]
    BY <1>5, <2>1 DEF PollArrives
  <2>3. /\ Len(polls') = Len(polls) - 1
        /\ \A j \in 1..(Len(polls) - 1) : polls'[j] = polls[j + 1]
    BY <1>5, <2>1, PollsLeft
  <2>4. n \in 0..MaxOverlays /\ n <= made
    BY <1>t, <2>1
  <2>5. ASSUME NEW k \in Places' PROVE k \in Nat /\ k + 1 \in Places /\ Line(k)' = Line(k + 1)
    <3>1. k \in 0..Len(polls)
      BY <1>t, <2>3, <2>5 DEF Places
    <3>2. k \in Nat /\ k + 1 \in Places
      BY <1>t, <3>1 DEF Places
    <3>3. CASE k = 0
      BY <2>1, <2>2, <3>3 DEF Line
    <3>4. CASE k # 0 /\ k <= Len(polls) - 1
      <4>1. k \in 1..(Len(polls) - 1) /\ k <= Len(polls') /\ k + 1 <= Len(polls) /\ k + 1 # 0
        BY <1>t, <2>3, <3>2, <3>4
      <4>2. Line(k)' = polls'[k] /\ Line(k + 1) = polls[k + 1]
        BY <3>4, <4>1 DEF Line
      <4>3. QED
        BY <2>3, <3>2, <4>1, <4>2
    <3>5. CASE k # 0 /\ k = Len(polls)
      <4>1. ~(k <= Len(polls')) /\ ~(k + 1 <= Len(polls)) /\ k + 1 # 0
        BY <1>t, <2>3, <3>2, <3>5
      <4>2. Line(k)' = onDisk' /\ Line(k + 1) = onDisk
        BY <3>5, <4>1 DEF Line
      <4>3. QED
        BY <2>2, <3>2, <4>2
    <3>6. QED
      <4>1. k = 0 \/ (k # 0 /\ k <= Len(polls) - 1) \/ (k # 0 /\ k = Len(polls))
        BY <1>t, <3>1
      <4>2. QED
        BY <3>2, <3>3, <3>4, <3>5, <4>1
  \* An overlay that is not on the screen has not sounded.
  <2>6. o # onScreen => sounded[n] = 0
    <3>1. n = onScreen.startedAt => o = onScreen
      BY <1>0, <2>1 DEF HornSound, OneStretch
    <3>2. sounded[n] = 0 \/ n = onScreen.startedAt
      BY <1>0, <2>1 DEF HornSound, SoundedIsShown
    <3>3. QED
      BY <3>1, <3>2
  <2> HIDE DEF o, n
  <2>7. /\ \A m \in 0..MaxOverlays : m # n => sounded'[m] = sounded[m]
        /\ sounded'[n] <= 1
    <3>1. sounded[n] <= 1
      BY <1>0, <2>4 DEF HornSound, SoundedAtMostOnce
    <3>2. SoundsHorn(o) => sounded[n] = 0
      BY <2>6 DEF SoundsHorn
    <3>3. QED
      BY <1>p, <2>2, <2>4, <3>1, <3>2
  <2>8. OneStretch'
    <3> SUFFICES ASSUME NEW a \in Places', NEW k \in Places', a <= k,
                        Line(a)'.startedAt = Line(k)'.startedAt, NEW j \in a..k
                 PROVE  Line(j)' = Line(a)'
      BY DEF OneStretch
    <3>1. j \in Places' /\ a \in Nat /\ k \in Nat /\ j \in Nat
      BY <1>t, <2>3 DEF Places
    <3>2. /\ a + 1 \in Places /\ k + 1 \in Places /\ a + 1 <= k + 1 /\ j + 1 \in (a + 1)..(k + 1)
          /\ Line(a)' = Line(a + 1) /\ Line(j)' = Line(j + 1) /\ Line(k)' = Line(k + 1)
      BY <2>5, <3>1
    <3>3. QED
      BY <1>0, <3>2 DEF HornSound, OneStretch
  <2>9. SoundedIsShown'
    <3> SUFFICES ASSUME NEW k \in Places', Line(k)'.startedAt # n
                 PROVE  sounded'[Line(k)'.startedAt] = 0
      BY <2>2 DEF SoundedIsShown, n
    <3>1. k \in Nat /\ k + 1 \in Places /\ Line(k)' = Line(k + 1)
      BY <2>5
    <3>2. sounded'[Line(k)'.startedAt] = sounded[Line(k + 1).startedAt]
      BY <1>t, <2>7, <3>1
    <3>3. Line(k + 1).startedAt # onScreen.startedAt
      <4>1. SUFFICES ASSUME Line(k + 1).startedAt = onScreen.startedAt PROVE FALSE
        OBVIOUS
      <4>2. 0 <= k + 1 /\ 1 \in 0..(k + 1)
        BY <3>1
      <4>3. Line(1) = Line(0)
        BY <1>0, <2>1, <3>1, <4>1, <4>2 DEF HornSound, OneStretch
      <4>4. QED
        BY <2>1, <3>1, <4>1, <4>3 DEF n
    <3>4. QED
      BY <1>0, <3>1, <3>2, <3>3 DEF HornSound, SoundedIsShown
  <2>10. PushedIsNew'
    <3>1. \A j \in DOMAIN push : push[j].startedAt # n
      BY <1>0, <2>1 DEF HornSound, PushedIsNew, n
    <3>2. \A j \in DOMAIN push : push[j].startedAt \in 0..MaxOverlays
      <4>1. \A j \in DOMAIN push : push[j] \in Overlays
        BY <1>p
      <4>2. \A q \in Overlays : q.startedAt \in 0..MaxOverlays
        BY DEF Overlays
      <4>3. QED
        BY <4>1, <4>2
    <3>3. \A j \in DOMAIN push : sounded'[push[j].startedAt] = 0
      BY <1>0, <2>7, <3>1, <3>2 DEF HornSound, PushedIsNew
    <3>4. \A j \in DOMAIN push : \A k \in Places' : Line(k)'.startedAt # push[j].startedAt
      BY <1>0, <2>5 DEF HornSound, PushedIsNew
    <3>5. QED
      BY <1>0, <2>2, <3>3, <3>4 DEF HornSound, PushedIsNew
  <2>11. SoundedAtMostOnce'
    BY <1>0, <1>t, <2>2, <2>4, <2>7 DEF HornSound, SoundedAtMostOnce
  <2>12. QED
    BY <2>8, <2>9, <2>10, <2>11 DEF HornSound
<1>6. CASE SendTimesOut \/ ApplyFails \/ AnswerPresentation \/ OverlayAgentRestarts \/ SlideTurns
             \/ UNCHANGED presentationVars
  <2>1. /\ UNCHANGED <<polls, onScreen, onDisk, sounded>> /\ made' = made
        /\ \/ push' = push \/ push' = <<>>
           \/ push # <<>> /\ push \in Seq(Overlays) /\ push' = Tail(push)
    BY <1>6, <1>p DEF SendTimesOut, ApplyFails, AnswerPresentation, OverlayAgentRestarts, SlideTurns,
                      presentationVars
  <2>2. QED
    BY <1>0, <2>1, LineKept
<1>7. CASE KioskReloads
  BY <1>7 DEF KioskReloads
<1>8. QED
  BY <1>1, <1>2, <1>3, <1>4, <1>5, <1>6, <1>7 DEF PresentationNext

\* However often the kiosk is given an overlay, its horn sounds once at most
\* (the effects of PresentationOverlay.tsx), as long as the answers come in
\* order and the kiosk is not reloaded.
THEOREM HornSoundsOnce == PresentationSpec => []HornOncePerCommand
<1>1. HornInv => HornOncePerCommand
  BY DEF HornInv, HornSound, SoundedAtMostOnce, HornOncePerCommand
<1>2. QED
  BY InitOverlayTypeInv, InitHornInv, StepOverlayTypeInv, StepHornInv, <1>1, PTL DEF PresentationSpec
=============================================================================
