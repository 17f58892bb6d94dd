-------------------------- MODULE NetworkRecovery --------------------------
(***************************************************************************)
(* How a display stays reachable when its network goes away.               *)
(*                                                                         *)
(* The agent (apps/pi-agent) reaches the server over the WiFi of the venue *)
(* or over a second interface.  A paired display that has been without the *)
(* server for a minute and finds its WiFi down becomes an access point     *)
(* with a setup portal, where a technician can enter another WiFi.  From   *)
(* there it tries the saved WiFi every two minutes.  The radio is shared:  *)
(* it is an access point or a client, and main(), the recovery, the retry  *)
(* and every request of the portal switch it, each across several awaits.  *)
(*                                                                         *)
(* Abstractions: an access point is stopped in one step and started in     *)
(* two, the release of the interface and the outcome; everything awaited   *)
(* but a connection to a WiFi takes seconds, so that no timer (of one or   *)
(* two minutes) fires meanwhile; files can be written; a power cycle       *)
(* leaves the radio to NetworkManager.  Factory resets are in Pairing.     *)
(* What the display shows, apart from the banner, is left out, and so are  *)
(* routes that no page calls (setup/complete, wifi/forget and those of the *)
(* local API).                                                             *)
(***************************************************************************)
EXTENDS Naturals

CONSTANTS Posts,      \* requests to connect, sent from the portal in one run of the agent
          MaxTroubles \* bound on what goes wrong: see Trouble

ASSUME NetworkAssumption == MaxTroubles \in Nat

VARIABLES
  paired,     \* device.json: pairedAt
  mode,       \* config.json: setup, pairing or online
  banner,     \* state.json: connectivity.status
  profiles,   \* what NetworkManager has saved: none, wrong (no WiFi here) or right
  radio,      \* wlan0: idle (managed), wifi (connected), released (not managed), ap
  portal,     \* the captive portal listens
  agent,      \* main(): off, status or ap (awaiting that), run
  recovery,   \* recoverToWifiSetup: idle, or what it awaits: status, ap
  inProgress, \* recoveryInProgress
  recoveryTimer,
  retry,      \* retrySavedWifiFromMaintenanceAp: idle, or what it awaits
  retryTimer, \* maintenanceRetryTimer
  post,       \* per request of the portal: its stage and whether the password is right
  socket,     \* the socket is connected
  welcome,    \* the answer to its hello, pairing:complete, is under way
  air,        \* the world: the venue's WiFi, the second interface, the server
  client,     \* a technician has joined the access point
  troubles,
  stranded    \* history of this run: the last retry was given up, see Strand

files == <<paired, mode, banner>>
recoveryVars == <<recovery, inProgress, recoveryTimer>>
retryVars == <<retry, retryTimer>>
linkVars == <<socket, welcome>>
worldVars == <<air, client>>
vars == <<files, profiles, radio, portal, agent, recoveryVars, retryVars, post, linkVars,
          worldVars, troubles, stranded>>

NoPost == [stage |-> "none", right |-> FALSE]

Init ==
  /\ air = [wifi |-> TRUE, second |-> FALSE, server |-> TRUE]
  /\ \/ \* as installed
        paired = FALSE /\ mode = "setup" /\ profiles = "none" /\ radio = "idle"
     \/ \* in the field
        paired = TRUE /\ mode = "online" /\ profiles = "right" /\ radio \in {"idle", "wifi"}
  /\ banner = "online"
  /\ portal = FALSE /\ agent = "off"
  /\ recovery = "idle" /\ inProgress = FALSE /\ recoveryTimer = FALSE
  /\ retry = "idle" /\ retryTimer = FALSE
  /\ post = [p \in Posts |-> NoPost]
  /\ socket = FALSE /\ welcome = FALSE
  /\ client = FALSE /\ troubles = 0 /\ stranded = FALSE

\* Something that need not happen: a network or the server comes or goes, the agent
\* is restarted, an access point or the portal does not start, a connection that could
\* be made is not made in time.
Trouble == troubles < MaxTroubles /\ troubles' = troubles + 1

\* getStatus: connected, with an address
WifiConnected == radio = "wifi"

ServerInReach == air.server /\ (WifiConnected \/ air.second)

\* NetworkManager can connect, given a profile.
CanJoin(profile) == profile = "right" /\ air.wifi /\ radio \in {"idle", "wifi"}

-----------------------------------------------------------------------------
\* The access point (setup-ap.ts) and the setup mode (setup-mode.ts)

\* Mutant of ApStop: the interface stays with hostapd.
ApStopUnmanaged ==
  /\ radio' = IF radio = "ap" THEN "released" ELSE radio
  /\ client' = FALSE

\* SetupAP.stop: services stopped, the interface is given back to NetworkManager.
ApStop ==
  /\ radio' = IF radio \in {"ap", "released"} THEN "idle" ELSE radio
  /\ client' = FALSE

\* SetupAP.start up to releaseApInterface.
ApRelease == radio' = "released" /\ client' = FALSE

\* The rest of it: hostapd and dnsmasq run, or something failed, which is
\* reported and leaves the interface as it is.
ApStarts == radio' = "ap" /\ UNCHANGED troubles
ApFails == UNCHANGED radio /\ Trouble

\* enterWifiSetupMode up to its first await.
EnterSetup ==
  /\ mode' = "setup" /\ banner' = "setup"
  /\ ApRelease

\* enterWifiSetupMode from there: the access point and the portal are up, or it throws.
SetupEntered == ApStarts /\ portal' = TRUE
SetupThrows ==
  \/ ApFails /\ UNCHANGED portal
  \/ ~portal /\ UNCHANGED portal /\ radio' = "ap" /\ Trouble

\* startMaintenanceWifiRecovery, called when retry is r: the timer afterwards.
RetryTimerFrom(r) == retryTimer \/ (r = "idle" /\ paired)

\* In setup mode, and nothing in this run is going to switch the radio by itself.
Strand(lost) == stranded' = (stranded \/ lost)

-----------------------------------------------------------------------------
\* main() (index.ts)

Boot ==
  /\ agent = "off"
  /\ \/ /\ ~paired /\ mode # "setup"
        /\ mode' = "pairing" /\ agent' = "run"
        /\ UNCHANGED <<banner, radio, client>>
     \/ /\ ~paired /\ mode = "setup"
        /\ EnterSetup /\ agent' = "ap"
     \/ /\ paired /\ agent' = "status"
        /\ UNCHANGED <<mode, banner, radio, client>>
  /\ UNCHANGED <<paired, profiles, portal, recoveryVars, retryVars, post, linkVars, air,
                 troubles, stranded>>

BootStatus ==
  /\ agent = "status"
  /\ IF WifiConnected
     THEN /\ mode' = "online" /\ banner' = "online" /\ agent' = "run"
          /\ UNCHANGED <<radio, client>>
     ELSE EnterSetup /\ agent' = "ap"
  /\ UNCHANGED <<paired, profiles, portal, recoveryVars, retryVars, post, linkVars, air,
                 troubles, stranded>>

\* Mutant of BootSetup: a failure is logged and the agent goes on.
BootSetupGoesOn ==
  /\ agent = "ap" /\ agent' = "run"
  /\ \/ SetupEntered /\ retryTimer' = RetryTimerFrom(retry)
     \/ SetupThrows /\ UNCHANGED retryTimer
  /\ UNCHANGED <<files, profiles, recoveryVars, retry, post, linkVars, worldVars, stranded>>

\* A failure ends the process; systemd starts it again.
BootSetup ==
  /\ agent = "ap"
  /\ \/ SetupEntered /\ agent' = "run" /\ retryTimer' = RetryTimerFrom(retry)
     \/ SetupThrows /\ agent' = "off" /\ UNCHANGED retryTimer
  /\ UNCHANGED <<files, profiles, recoveryVars, retry, post, linkVars, worldVars, stranded>>

\* systemctl restart, an uncaught exception or a power cycle.
Restart ==
  /\ agent # "off" /\ Trouble
  /\ agent' = "off"
  /\ \/ radio' = "idle"
     \/ /\ radio = "wifi" \/ agent # "run" \* cleanup is installed at the end of main()
        /\ UNCHANGED radio
  /\ client' = FALSE /\ portal' = FALSE
  /\ recovery' = "idle" /\ inProgress' = FALSE /\ recoveryTimer' = FALSE
  /\ retry' = "idle" /\ retryTimer' = FALSE
  /\ post' = [p \in Posts |-> NoPost]
  /\ socket' = FALSE /\ welcome' = FALSE /\ stranded' = FALSE
  /\ UNCHANGED <<files, profiles, air>>

-----------------------------------------------------------------------------
\* Automatic recovery (network-recovery.ts)

\* Whatever is awaited is a connection to a WiFi, which may take minutes.
NothingBrief == /\ recovery = "idle" /\ retry \in {"idle", "connect"}
                /\ \A p \in Posts : post[p].stage \notin {"sent", "ap"}

\* scheduleNetworkRecovery
Schedule == recoveryTimer' = (recoveryTimer \/ (~inProgress /\ paired /\ mode = "online"))

\* The timer fires and recoverToWifiSetup runs up to its first await.
RecoveryFires ==
  /\ agent = "run" /\ recoveryTimer /\ NothingBrief
  /\ recoveryTimer' = FALSE
  /\ IF ~inProgress /\ paired /\ mode = "online"
     THEN inProgress' = TRUE /\ recovery' = "status"
     ELSE UNCHANGED <<inProgress, recovery>>
  /\ UNCHANGED <<files, profiles, radio, portal, agent, retryVars, post, linkVars, worldVars,
                 troubles, stranded>>

\* The WiFi is kept if it is connected, whatever happened to the socket meanwhile.
RecoveryStatus ==
  /\ recovery = "status"
  /\ IF WifiConnected
     THEN /\ banner' = "offline" /\ inProgress' = FALSE /\ recovery' = "idle"
          /\ UNCHANGED <<mode, radio, client>>
     ELSE /\ EnterSetup /\ recovery' = "ap"
          /\ UNCHANGED inProgress
  /\ UNCHANGED <<paired, profiles, portal, agent, recoveryTimer, retryVars, post, linkVars,
                 air, troubles, stranded>>

RecoverySetup ==
  /\ recovery = "ap"
  /\ recovery' = "idle" /\ inProgress' = FALSE
  /\ \/ /\ SetupEntered
        /\ retryTimer' = RetryTimerFrom(retry)
        /\ UNCHANGED stranded
     \/ /\ SetupThrows
        /\ UNCHANGED retryTimer
        /\ Strand(mode = "setup" /\ (profiles = "none" \/ (~retryTimer /\ retry = "idle")))
  /\ UNCHANGED <<files, profiles, agent, recoveryTimer, retry, post, linkVars, worldVars>>

\* Mutant of RetryEnds: no finally block.
RetryEndsForGood(m) == retry' = "idle" /\ UNCHANGED retryTimer

\* The finally block of retrySavedWifiFromMaintenanceAp, in mode m.
RetryEnds(m) == /\ retry' = "idle"
                /\ retryTimer' = (retryTimer \/ (m = "setup" /\ paired))

RetryFires ==
  /\ agent = "run" /\ retryTimer /\ NothingBrief
  /\ retryTimer' = FALSE
  /\ retry' = IF retry = "idle" /\ paired /\ mode = "setup" THEN "check" ELSE retry
  /\ UNCHANGED <<files, profiles, radio, portal, agent, recoveryVars, post, linkVars,
                 worldVars, troubles, stranded>>

\* hasConnectedClients, getSavedWifiProfiles
RetryCheck ==
  /\ retry = "check"
  /\ IF client \/ profiles = "none"
     THEN RetryEnds(mode) /\ UNCHANGED banner
     ELSE retry' = "stop" /\ banner' = "reconnecting" /\ UNCHANGED retryTimer
  /\ UNCHANGED <<paired, mode, profiles, radio, portal, agent, recoveryVars, post, linkVars,
                 worldVars, troubles, stranded>>

RetryStop ==
  /\ retry = "stop"
  /\ ApStop /\ retry' = "connect"
  /\ UNCHANGED <<files, profiles, portal, agent, recoveryVars, retryTimer, post, linkVars, air,
                 troubles, stranded>>

\* reconnectSavedWifi has seen a connection; getStatus is asked for its name.
RetryConnected ==
  /\ retry = "connect" /\ WifiConnected
  /\ retry' = "connected"
  /\ UNCHANGED <<files, profiles, radio, portal, agent, recoveryVars, retryTimer, post,
                 linkVars, worldVars, troubles, stranded>>

RetryOnline ==
  /\ retry = "connected"
  /\ mode' = "online" /\ banner' = "online" /\ portal' = FALSE
  /\ stranded' = FALSE
  /\ RetryEnds("online")
  /\ UNCHANGED <<paired, profiles, radio, agent, recoveryVars, post, linkVars, worldVars,
                 troubles>>

\* Mutant of RetryTimesOut: the banner is left.
RetryTimesOutSilently ==
  /\ retry = "connect"
  /\ IF CanJoin(profiles) THEN Trouble ELSE UNCHANGED troubles
  /\ ApRelease /\ retry' = "ap"
  /\ UNCHANGED <<paired, mode, banner, profiles, portal, agent, recoveryVars, retryTimer, post,
                 linkVars, air, stranded>>

\* 45 seconds have passed, or the interface stayed unmanaged.
RetryTimesOut ==
  /\ retry = "connect"
  /\ IF CanJoin(profiles) THEN Trouble ELSE UNCHANGED troubles
  /\ banner' = "setup"
  /\ ApRelease /\ retry' = "ap"
  /\ UNCHANGED <<paired, mode, profiles, portal, agent, recoveryVars, retryTimer, post,
                 linkVars, air, stranded>>

RetrySetup ==
  /\ retry = "ap"
  /\ ApStarts \/ ApFails
  /\ RetryEnds(mode)
  /\ UNCHANGED <<files, profiles, portal, agent, recoveryVars, post, linkVars, worldVars,
                 stranded>>

-----------------------------------------------------------------------------
\* The captive portal (captive-portal.ts)

\* POST /api/wifi/connect; connectToWifiFromPortal starts a quarter of a second later.
PortalPost(p) ==
  /\ portal /\ radio = "ap" /\ client /\ post[p].stage = "none"
  /\ \E right \in BOOLEAN : post' = [post EXCEPT ![p] = [stage |-> "sent", right |-> right]]
  /\ UNCHANGED <<files, profiles, radio, portal, agent, recoveryVars, retryVars, linkVars,
                 worldVars, troubles, stranded>>

PortalStop(p) ==
  /\ post[p].stage = "sent"
  /\ ApStop
  /\ post' = [post EXCEPT ![p].stage = "connect"]
  /\ UNCHANGED <<files, profiles, portal, agent, recoveryVars, retryVars, linkVars, air,
                 troubles, stranded>>

PortalConnected(p) ==
  /\ post[p].stage = "connect" /\ post[p].right /\ CanJoin("right")
  /\ radio' = "wifi" /\ profiles' = "right"
  /\ mode' = IF paired THEN "online" ELSE "pairing"
  /\ banner' = "online"
  /\ retryTimer' = FALSE /\ portal' = FALSE /\ stranded' = FALSE
  /\ post' = [post EXCEPT ![p].stage = "done"]
  /\ UNCHANGED <<paired, agent, recoveryVars, retry, linkVars, worldVars, troubles>>

\* connectFromProfile leaves the profile it has made.
PortalRefused(p) ==
  /\ post[p].stage = "connect"
  /\ IF post[p].right /\ CanJoin("right") THEN Trouble ELSE UNCHANGED troubles
  /\ profiles' = IF post[p].right THEN "right"
                 ELSE IF profiles = "none" THEN "wrong" ELSE profiles
  /\ ApRelease
  /\ post' = [post EXCEPT ![p].stage = "ap"]
  /\ UNCHANGED <<files, portal, agent, recoveryVars, retryVars, linkVars, air, stranded>>

\* Whether the access point is back is not looked at.
PortalSetup(p) ==
  /\ post[p].stage = "ap"
  /\ ApStarts \/ ApFails
  /\ post' = [post EXCEPT ![p].stage = "done"]
  /\ UNCHANGED <<files, profiles, portal, agent, recoveryVars, retryVars, linkVars, worldVars,
                 stranded>>

-----------------------------------------------------------------------------
\* The socket (socket-client.ts)

\* The connect event: clearNetworkRecovery, then hello.
Connect ==
  /\ agent = "run" /\ ~socket /\ ServerInReach
  /\ socket' = TRUE /\ welcome' = paired
  /\ recoveryTimer' = FALSE /\ retryTimer' = FALSE /\ inProgress' = FALSE
  /\ banner' = IF mode = "setup" THEN banner ELSE "online"
  /\ Strand(paired /\ mode = "setup" /\ retry = "idle" /\ recovery # "ap")
  /\ UNCHANGED <<paired, mode, profiles, radio, portal, agent, recovery, retry, post,
                 worldVars, troubles>>

\* The disconnect event.
Disconnect ==
  /\ socket /\ ~ServerInReach
  /\ socket' = FALSE /\ welcome' = FALSE
  /\ Schedule
  /\ UNCHANGED <<files, profiles, radio, portal, agent, recovery, inProgress, retryVars, post,
                 worldVars, troubles, stranded>>

\* The events connect_error and reconnect_error, when they set the timer.
ConnectError ==
  /\ agent = "run" /\ ~socket /\ ~ServerInReach
  /\ ~recoveryTimer
  /\ Schedule /\ recoveryTimer'
  /\ UNCHANGED <<files, profiles, radio, portal, agent, recovery, inProgress, retryVars, post,
                 linkVars, worldVars, troubles, stranded>>

\* applyPairingComplete: sent after every hello of a display that has an owner ...
PairingComplete ==
  /\ paired' = TRUE /\ mode' = "online" /\ stranded' = FALSE
  /\ UNCHANGED <<banner, profiles, radio, portal, agent, recoveryVars, retryVars, post, socket,
                 worldVars, troubles>>

Welcomed == socket /\ welcome /\ welcome' = FALSE /\ PairingComplete

\* ... and when a user claims the display.
Claimed == socket /\ ~paired /\ UNCHANGED welcome /\ PairingComplete

-----------------------------------------------------------------------------
\* The world

\* NetworkManager connects by itself to a WiFi it knows.
WifiJoins ==
  /\ radio = "idle" /\ CanJoin(profiles)
  /\ radio' = "wifi"
  /\ UNCHANGED <<files, profiles, portal, agent, recoveryVars, retryVars, post, linkVars,
                 worldVars, troubles, stranded>>

WifiChanges ==
  /\ Trouble
  /\ air' = [air EXCEPT !.wifi = ~air.wifi]
  /\ radio' = IF radio = "wifi" THEN "idle" ELSE radio
  /\ UNCHANGED <<files, profiles, portal, agent, recoveryVars, retryVars, post, linkVars,
                 client, stranded>>

\* The second interface or the server comes or goes.
ReachChanges ==
  /\ Trouble
  /\ \E part \in {"second", "server"} : air' = [air EXCEPT ![part] = ~air[part]]
  /\ UNCHANGED <<files, profiles, radio, portal, agent, recoveryVars, retryVars, post, linkVars,
                 client, stranded>>

ClientChanges ==
  /\ client' = ~client /\ (client' => radio = "ap")
  /\ UNCHANGED <<files, profiles, radio, portal, agent, recoveryVars, retryVars, post, linkVars,
                 air, troubles, stranded>>

-----------------------------------------------------------------------------
MainStep == Boot \/ BootStatus \/ BootSetup
RecoveryStep == RecoveryStatus \/ RecoverySetup
RetryStep == \/ RetryCheck \/ RetryStop \/ RetryConnected \/ RetryOnline
             \/ RetryTimesOut \/ RetrySetup
PortalStep(p) == PortalStop(p) \/ PortalConnected(p) \/ PortalRefused(p) \/ PortalSetup(p)
SocketStep == Connect \/ Disconnect \/ Welcomed
World == Restart \/ Claimed \/ WifiChanges \/ ReachChanges \/ ClientChanges

Next == \/ MainStep \/ RecoveryFires \/ RecoveryStep \/ RetryFires \/ RetryStep
        \/ SocketStep \/ ConnectError \/ WifiJoins \/ World
        \/ \E p \in Posts : PortalPost(p) \/ PortalStep(p)

Spec == Init /\ [][Next]_vars

\* systemd restarts the agent, commands return, timers fire, the socket
\* reconnects without end, NetworkManager joins a WiFi it knows.  Nobody has to
\* join the access point, use the portal or claim the display.
Fairness ==
  /\ WF_vars(MainStep) /\ WF_vars(RecoveryFires) /\ WF_vars(RecoveryStep)
  /\ WF_vars(RetryFires) /\ WF_vars(RetryStep)
  /\ WF_vars(SocketStep) /\ WF_vars(ConnectError) /\ WF_vars(WifiJoins)
  /\ \A p \in Posts : WF_vars(PortalStep(p))

FairSpec == Spec /\ Fairness

-----------------------------------------------------------------------------
TypeOK ==
  /\ paired \in BOOLEAN
  /\ mode \in {"setup", "pairing", "online"}
  /\ banner \in {"online", "offline", "setup", "reconnecting"}
  /\ profiles \in {"none", "wrong", "right"}
  /\ radio \in {"idle", "wifi", "released", "ap"}
  /\ portal \in BOOLEAN
  /\ agent \in {"off", "status", "ap", "run"}
  /\ recovery \in {"idle", "status", "ap"}
  /\ inProgress \in BOOLEAN /\ recoveryTimer \in BOOLEAN
  /\ retry \in {"idle", "check", "stop", "connect", "connected", "ap"}
  /\ retryTimer \in BOOLEAN
  /\ post \in [Posts -> [stage : {"none", "sent", "connect", "ap", "done"}, right : BOOLEAN]]
  /\ socket \in BOOLEAN /\ welcome \in BOOLEAN
  /\ air \in [wifi : BOOLEAN, second : BOOLEAN, server : BOOLEAN]
  /\ client \in BOOLEAN
  /\ troubles \in 0..MaxTroubles
  /\ stranded \in BOOLEAN

\* No handler is between two of its steps.
Idle == /\ agent = "run" /\ recovery = "idle" /\ retry = "idle"
        /\ \A p \in Posts : post[p].stage \in {"none", "done"}

\* A paired display in setup mode will try its WiFi again, whoever has switched the
\* radio in between, unless the run is stranded: its recovery failed, or it reached
\* the server without leaving setup mode.
RetryIsPending ==
  (agent = "run" /\ paired /\ mode = "setup")
    => retryTimer \/ retry # "idle" \/ recovery = "ap" \/ stranded

\* A paired display that is in setup mode says so: no handler leaves another banner.
SetupIsAnnounced == (Idle /\ paired /\ mode = "setup") => banner = "setup"

\* On its access point a display can be reached by SSH also when the portal is down.
Reachable == socket \/ WifiConnected \/ radio = "ap"

\* A paired display can be reached again and again, by its network or by its access
\* point, unless it is stranded.
ReachableUnlessStranded == []<>(paired => Reachable \/ stranded)

\* When the venue's WiFi is back for good, is saved, and nobody uses the access point, a
\* paired display is online in the end, whatever happened before, unless it is stranded.
WifiIsBack == paired /\ profiles = "right" /\ air.wifi /\ air.server /\ ~client
SavedWifiComesBack ==
  <>[]WifiIsBack => <>[](socket /\ mode = "online") \/ <>[]stranded

\* recoveryInProgress is set only while recoverToWifiSetup runs: whatever clears it or
\* overtakes it, it is not left behind and does not shut out the next recovery.
RecoveryNotShutOut == inProgress => recovery # "idle"

\* What is going to move a paired display at rest that is not online, each with its
\* condition: in setup mode the retry of a WiFi that is saved, else its socket, which has
\* the server in reach or sets the timer of a recovery that can run.
RetryAhead == mode = "setup" /\ retryTimer /\ profiles # "none"
SocketAhead == mode = "online" /\ (ServerInReach \/ recoveryTimer \/ ~inProgress)

\* A paired display that cannot be reached is never left to itself: a handler is at
\* work, or a retry, a connection or a recovery is ahead, unless the run is stranded.
WayBackIsAhead ==
  (Idle /\ paired /\ ~Reachable /\ ~stranded) => RetryAhead \/ SocketAhead

\* Nor is one that can be reached, but is not online although its WiFi is back.
OnlineIsAhead ==
  (Idle /\ WifiIsBack /\ ~(socket /\ mode = "online") /\ ~stranded) => RetryAhead \/ SocketAhead

\* The access point is started when there is no WiFi, and restored after a retry that
\* failed: a paired display does not stay unreachable.
ReachableAgain == []<>(paired => Reachable)

\* The banner OFFLINE ends with the outage.
OfflineEndsWithOutage == (Idle /\ socket) => banner # "offline"
=============================================================================
