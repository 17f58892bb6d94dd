# Shotclock platform: a verification project

TLA+ models, TLC runs and TLAPS proofs for the code of this repository: a
server (`apps/server-web`, Next.js with a Socket.IO server and Prisma), the
agent on each LED display (`apps/pi-agent`), the page the display shows
(`apps/pi-kiosk`) and the libraries they share (`packages/`).

## 1. The system

| Component | Code | State | Operations |
|---|---|---|---|
| Per-device queues | `lib/device-command.ts` | two Maps from display to the last promise | `runSerializedDeviceCommands`, `runSerializedDevicePersistence` |
| Device commands | `command/route.ts`, `sync-command/route.ts`, `state/route.ts`, `lib/device-command.ts` | `Device` (mode, displayState), `DisplayState` | set_mode, set_timer, presentation, maintenance; POST state |
| Device sockets | `socket/server.ts`, `socket/handlers/device-handler.ts`, `server.ts` | rooms, `Device.status`, `isOnline` | hello, heartbeat, disconnect, update status, stale sweeper |
| Pairing | `device-status/[deviceId]/pairing`, `pair/[pairingCode]`, agent `socket-client.ts`, `pairing-code.ts`, `identity.ts`, `factory-reset.ts` | owner, code, status, token; `device.json`, `pairing.json` | register, poll, claim, complete, new code, factory reset |
| Agent: boot and WiFi setup | `index.ts`, `setup-mode.ts`, `setup-ap.ts`, `captive-portal.ts` | `config.json` mode, access point, setup state | boot, enter setup, connect from the portal |
| Agent: network recovery | `network-recovery.ts` | timers, `recoveryInProgress` | schedule, recover to setup, retry the saved WiFi |
| Agent: stores | `state-store.ts`, `config-store.ts`, `identity.ts` | JSON files | load, save |
| Agent: WiFi, offline mode, local API | `wifi-manager.ts`, `offline-mode.ts`, `local-api.ts` | - | wrappers of nmcli, HTTP for the kiosk |
| Updates | `update-manager.ts`, `scripts/apply-pi-update.sh`, `api/updates` | download state, releases on disk | check, install, swap, roll back |
| Timer library | `packages/shared/src/timer`, `packages/sports-core` | timer, score, wrestling match | pure functions and small classes |
| Display geometry | `packages/display-core` | profile, viewport | pure functions |
| Accounts | `lib/auth.ts`, `api/auth`, `api/admin/users`, `api/account`, `scripts/manage-user.ts` | users, their roles and session versions; cookies | log in, register, disable, reset, change the password |
| Rate limiter | `lib/request-security.ts` | Map of buckets | `enforceRateLimit` |
| Players and preloads | `api/devices/[deviceId]/pitchkount/players`, `practice-board/preloads` | two lists of rows for each user | create, update, delete, prune |
| Media | `api/devices/[deviceId]/media` | rows and files | upload, activate, delete |
| Overlays | `GamePresentationControls.tsx`, agent `socket-client.ts`, kiosk `PresentationOverlay.tsx` | the overlay on disk, the agent's timer, what the kiosk shows | send, clear, end after a duration |
| Sport pages | `basketball/page.tsx`, `SportControlPage.tsx`, `SelectedDevicesProvider.tsx` | React state: timer, mode, a 250 ms timeout | clock, score, preview, layout, branding |
| Practice board page | `practice-board/page.tsx` | plan, board, unsaved changes | periods, clock, weather, preloads |
| PitchKount page | `pitchkount/page.tsx` | totals, card, photo | count, edit, save and apply a pitcher |
| Settings page | `settings/page.tsx`, `config/route.ts`, `sport-display-layout/route.ts` | calibration, its previews, modes, advertisements | drag, save, set a mode, change an advertisement |
| Kiosk | `apps/pi-kiosk` | what it polled last, slide, page of the schedule | polls the local API and draws |

How they interact: a page of the dashboard sends an HTTP request to a route; the
route pushes an event to the room of one display or of several and waits at most
2500 ms for the acknowledgements; what was acknowledged is stored. The agent
writes what it is pushed to `state.json`, from which the kiosk draws. The agent
speaks to the server over one socket (hello, heartbeat) and, until it is paired,
over HTTP as well (register the code, ask whether it is paired). The server is
one Node process: a handler runs without interruption from one `await` to the
next, and between two of them any other handler may run.

What is hard: handlers that read a record, wait and write; two requests for
overlapping sets of displays; answers that are lost or come late, where the
server gives up and the packet still arrives; two copies of the timer of which
one may fail to be written; a display that drops off, restarts or is reset while
a handler is at work for it; pages that change at once what they show and roll it
back by a value from before the request; closures that hold the state of the moment
they were made in, and act after an upload; an update whose script may be cut off
between any two commands; and that what must happen (an answer, a pairing) does.
`PROJECT.json` lists each such hazard at its line.

What makes each component correct:

* queues: exclusion per display, first come first served, no blocked queue, no leak;
* commands: the reset sequence (by which displays rotate advertisements) never
  goes back and never counts a repeated reset; success means that every display
  shows it; display and database agree once everything is at rest; every request
  is answered;
* pairing: an owner is never replaced by another, a claim is not undone, a
  claimed display learns of it, and the code on the screen works;
* recovery and setup: the display is reachable again, by its WiFi or by its
  access point, whatever fails; updates: the release that the link names is there
  and works, and "installed successfully" is true;
* accounts: there is always an active administrator, and a session does not outlive
  the password it was got with;
* rate limiter: a bounded number of requests in a stretch of time, and displays that
  share an address do not shut each other out;
* pages: once nothing is under way, the page shows what the display has; a press is
  neither lost nor counted twice; a save leaves the period that is on alone; sending
  one thing does not change another;
* overlays: an end belongs to the overlay that is on, a horn sounds once.

## 2. The modules

### DeviceSerialization and CommandQueue

`CommandQueue` is the promise chain of `runSerializedDeviceCommands`
(`lib/device-command.ts:527-555`); the persistence queue (`501-518`) is the same
chain with one display. `Enqueue` is the synchronous prologue (read the tails,
become the tails), `Start` the reaction of the promises that were read, `Settle`
the end of the operation, returning or throwing, `Cleanup` the `finally` block.
`tails` is the Map, `awaited` the promises a call has read. `ticket` is a history
variable: the order of the prologues. `DeviceSerialization` is what the callers
rely on: operations with a display in common run one at a time in the order of
their requests; an operation knows which outstanding ones are `ahead` of it.
`Implements` in `CommandQueue` is the refinement.

### DeviceCommands

The routes for mode and timer, one or several displays, with both queues, the
packets under way, the two copies of the timer (`cached` is
`Device.displayState`, `relational` is `DisplayState.timerState`) and the mode
column. A call walks through `stage`; `leg` says for each of its displays what
became of it. `cmdQueue` stands for the chains of promises, as one sequence of calls: a
call may run when no older call shares a display with it. Both are shown to implement the
same specification, `DeviceSerialization` (`Implements` for the chains,
`CommandsSerialize` for the sequence, where a call is queued, active from its `Begin` and
finished when it is answered).

| Action | Code |
|---|---|
| `Submit` | arrival, connectivity check, 409; set_mode dispatches at once |
| `Begin`, `ReadMode`, `Resolve` | the operation of set_timer: its mode, `resolveTimerCommandState` for each target, mode:set |
| `ModeAnswered`, `ModeSaved`, `StateAnswered`, `TimerSaved` | continuations of `Promise.all` over acknowledgements and writes |
| `Timeout` | the 2500 ms of `emitDeviceCommand` |
| `PersistRead`, `WriteMode`, `WriteTimer` | the persistence queue's operation; each write may fail and is only logged |
| `WriteColumn` | the second, unqueued write of set_mode |
| `PostState` | the transaction of POST state and the state:update after it |
| `Deliver` | `mode:set` and `state:update` of the agent, with a lost or negative answer |
| `Disconnect`, `HelloRead`, `HelloJoin` | connection lost; hello of a paired display |

Continuations run before the next I/O event, as in Node: an action that stands
for an event has the guard `Idle`. A mode is abstracted to what the code tells
apart (sport modes by layout, layouts that rotate on resets, other modes); a
timer to its reset metadata and the call it came from.

Left out: presentation commands (`Presentation`), update_config (`DisplaySettings`),
reboot and ping, capability checks, audit, access control, failing reads.

### Pairing

One display with its server record, its socket, its registration over HTTP and
the users who type its code. Each handler that reads, waits and writes is two
actions (`HelloRead`/`HelloWrite`, `BeatRead`/`BeatWrite`, `RegisterRead`/
`RegisterWrite`, `ClaimFind`/`ClaimWrite`, `CloseCheck`/`CloseWrite`); the claim
is the only write with a condition. `PollStart`, `PollFails`, `Ask` and `Told`
are `startPairingReconciliation`, `Complete` is `applyPairingComplete` from the
socket, `Drop` and `Restart` lose the connection and what is on it,
`FoundOffline` is the minute timer, `CommandFindsNone` the check that every
command starts with, and `Reset...` the factory reset on both sides.

`crossed` is a history variable, true once a claim was written while a handler
was between its read of an ownerless record and its write, or once an owned
record was marked offline while the display did not know of its owner or still
had a code under way. Those are the races in which the code loses a claim, and
the properties say that they are the only ones.

Left out: routes that nobody calls (`POST /api/pair`, `POST /api/devices`),
rate limits, a token that does not match, labels and profiles; two displays with
the same random code.

### NetworkRecovery

The radio of one display and everything that switches it: `main()` (`Boot...`),
the recovery after a minute without the server (`RecoveryFires`,
`RecoveryStatus`, `RecoverySetup`), the retry of the saved WiFi every two minutes
(`Retry...`), the requests of the captive portal (`Portal...`), one at a time or
several at once. `EnterSetup` and `SetupEntered`/`SetupThrows` are the two halves
of `enterWifiSetupMode`, `ApRelease` and `ApStarts`/`ApFails` those of
`SetupAP.start`. `Connect`, `Disconnect`, `ConnectError`, `Welcomed` and `Claimed`
are the socket's events as far as they touch the mode, the banner or the timers.
`air` is the world: the venue's WiFi, a second interface and the server; `radio`
is what `wlan0` is at the moment, `released` when the interface was taken from
NetworkManager and hostapd does not run.

`stranded` is a history variable: this run of the agent is in setup mode and
nothing in it will switch the radio by itself any more. It becomes true in two
places, both in the code: a recovery that fails after the mode was saved, and a
connection over a second interface that stops the retry (`clearNetworkRecovery`)
while the mode stays setup. The properties say that these are the only ones.

Abstractions: `SetupAP.stop` is one step; awaited commands take seconds, so that
no timer of one or two minutes fires while one is awaited, except connections to
a WiFi (`NothingBrief`), which may take longer than a timer; so there is one
recovery at a time. Files can be written. Left out: what the kiosk shows apart
from the banner, and routes that no page calls (`setup/complete`, `wifi/forget`,
those of the local API).

### ControlPage

The page of a game: basketball, and the one of volleyball and wrestling. `shown` and
`clock` are what React holds, `stored` what the server has of each display, `calls`
the requests under way with what their closures captured.

| Action | Code |
|---|---|
| `BasketballDeviceLoads`, `SportDeviceLoads`, `DeviceLoadFails`, `MediaLoads` | `fetchDevice`, `fetchMediaAssets` and what the page takes over |
| `FireModeUpdate` | the 250 ms timeout of the effect, with the mode of the rendering that set it (`ScheduleMode`) |
| `SwitchPreview`, `EditBasketballBranding`, `EditSportBranding`, `UploadLogo`, `LogoUploaded` | `switchPreviewMode`, the branding fields, `uploadScoreboardLogo` |
| `ChangeLayoutType`, `ChangeAdMode`, `ChangeAdPosition` | the optimistic changes of the layout, which cancel the timeout and roll back |
| `PressTimer` | score and time (shown at once), start, pause, reset (shown when answered) |
| `StoreCall`, `AnswerCall`, `FailCall` | the server stores or refuses; the answer is applied, in any order |

A display that shows no game has no layout in its mode (`IdleMode`); `LoadedLayout` is what
the page takes then, the layout that the server keeps of the last game.

`ActiveTargets` is the selection that the page commands. `modeUpset` and `timerUpset`
are history variables: a command failed, or an answer was overtaken, and page and
server have not agreed since. The page has nothing that puts either right, so the
properties say that these are the only ways they come apart. `alone` marks a command
that met no start, pause or reset: a score takes along the clock that the page shows,
so one that met a start hands the old clock on to every score under way with it.

### PracticeSchedule and PracticeBoard

`PracticeSchedule` is pure: which page of the schedule, or which period, a display
shows of a board at a time (`PracticeBoardMode.tsx`, of which
`PracticeBoardPreview.tsx` is a copy). `PracticeBoard` is the page that edits and runs
the board. `Dispatch` is `dispatchBoard`, `StoreBoard`/`AnswerBoard`/`FailBoard` are
what becomes of it; `StartDrill`, `RestartDrill`, `ResumeDrill`, `StopDrill`,
`AdvanceDrill`, `PreviousDrill` and `CompletePractice` are the buttons of the clock;
`AddDrill`, `UpdateDrill`, `RemoveDrill`, `EditAssignments` and `MoveDrill` edit the
plan; `Ask`, `Found` and `NotFound` are weather and logo, which send the board of the
press when they arrive; `LoadPreload`, `SyncPreloadToDisplay`, `SavePreload`,
`DeletePreload` and their answers (`PreloadNotKept`, `PreloadNotDeleted` when they are
refused) are the saved boards. `misled` is a history
variable: page and display have not agreed since a load that was not sent, an edit
during a send, a failure, or sends that crossed.

### PitchKount

The page that counts pitches. `RecordPitch`, `Step`, `ResetTotals`, `SendCard` and
`RemovePhoto` go through `SendState` (show, send, take back); `UploadHeadshot`/
`HeadshotStored` send the totals of the press; `LoadPlayer`, `SyncPlayer`,
`ApplyThisProfile`, `SavePlayer`, `DeletePlayer` are the saved pitchers; several deletions
may be under way, since only the buttons of the profile acted on last are disabled, and
each of them may fail (`PlayerNotDeleted`), as may the fetch of the list after it
(`LoadSavedPlayers`). `tally` is
what the operator has been told or has loaded, `draft` that the page shows a card or a
profile that was never sent, `astray` that a photo took a pitch back, two commands were
under way at once, another pitcher was loaded under one, or an answer was lost.

### SavedLists

The server's side of both lists: `Create...`, `Find...`/`UpdateRow` and
`Delete...Row` are the routes, `PruneRead` and `PruneDelete` the two queries that cut
the list down to its limit. `unpruned` are the owners of whom a prune failed while
they were beyond the limit.

### Presentation

An overlay from the button to the horn: `SendPresentation`, `SendTimesOut`,
`AnswerPresentation` (page and route), `ApplyOverlay`, `ApplyFails`, `EndFires`,
`OverlayAgentRestarts` (agent), `PollReads`, `PollArrives`, `SlideTurns`,
`KioskReloads` (kiosk). Polls are under way together and may arrive out of order
(`disordered`).

### Accounts

A browser has a cookie and one request under way (`job`), at a stage named for what
the route does next; the administrators' list may be stale, so any action is offered.

| Action | Code |
|---|---|
| `VerifyLogin`, `FinishLogin` | `auth/login`: the row is read and scrypt awaited, then `createSession` reads it again |
| `Register` | `auth/register` |
| `CheckPassword`, `ChangePassword`, `RenewSession` | `account/password` |
| `AdmitAction`, `CountAdministrators`, `UpdateUser` | PATCH `admin/users/[userId]`: check, count, update |
| `AdmitUser`, `InsertUser` | POST `admin/users` |
| `ManageUser` | `scripts/manage-user.ts` |

`disableRace` is true once two such requests were both past the count when one of them
wrote; `crossed` marks a login that had checked a password before it was changed.

### RateLimiter

Fixed windows counted down, the Map that drops expired buckets when it is large
(`WithinBounds`), and the displays of one address that register every five seconds
(`RegisterCode`, `Turn`). `Share` says that there is room in a window for a display
which asks at every `Slowest`-th turn.

### SoftwareUpdate

From a published release to the one that runs: the server's manifest, the
`UpdateManager` with several requests at once, and `apply-pi-update.sh`, one action for
each of its commands that may be the last before the power fails.

| Action | Code |
|---|---|
| `PublishRelease`, `ManifestLatest` | `api/updates` |
| `CheckForUpdates`, `ManifestAnswered`, `RefuseInstall`, `InstallUpdate` | `checkForUpdates`, `installUpdate` up to its first await |
| `DownloadFile`, `DownloadFails`, `RenameArchive`, `StartScript` | the stream, its verification, the rename of `.part`, `validateArchive` and systemd-run |
| `AgentStarts` | `loadState` and the constructor |
| `ScriptUnpacks` ... `PruneReleases` | `flock`, checksum, unpacking; `mv`; migration; `ln -s` and `mv -Tf`; units; restart; health check; pruning |
| `ScriptAborts` | the exit, under `set -e`, where a command between the link and the health check fails |
| `RollBack`, `RollBackSwaps`, `RollBackRestarts` | the branch of a failed health check |
| `PowerFails` | everything in memory is gone, links and files are as they were |

`requests` says which name the file has that a download writes: two downloads of a
version share `.part`, a rename takes the open file along. `interrupted`,
`overlapped` and `unchecked` are history variables: a power cut with the links in the
script's hands; such downloads; and a script that left the link on a release whose health
nobody has asked for, with none found healthy since.

### DisplaySettings

The settings page with the route that stores a configuration and the agent's
`config:update`. `StartDrag`, `MoveDrag`, `EndDrag` and `ResetOrRotate` move the box,
`QueuePreview`, `PreviewTimer`, `TenthPasses` and `FlushPreview` are the 100 ms
throttle; `Save`, `StoreConfig`, `PushConfig`, `SaveAnswered` and `SaveFails` a save;
`ChooseMode`, `ShowTestPattern`, `ShowMode` and `ModeAnswered` the modes;
`StartAdChange`, `ChangeAd`, `ListAds`, `KeepLayout` and `LayoutKept` an advertisement
from the press to the mode that has it. `ShowMode` also has the write that fails and is
only warned about. Saves, modes, previews and changes of advertisements overlap freely;
`disturbed` and `apart` are history variables for the events in which that goes wrong:
a configuration was lost, came after a later one that had passed it (`Overtaken`), or
ended a later preview (`EndsPreview`); a mode was set elsewhere or lost, came after a
later one, or met a change of advertisements that began without it. `Coming`, `Told` and
`ToldLayouts` are what those under way will still bring to the display and to the page.

### MCPlatform and MCAccounts

The components from ControlPage to DisplaySettings share no state: a page talks to
the server by commands, and what becomes of a command is in DeviceCommands, so each of
them has its own small server. `MCPlatform` checks them in one run, one at a time:
`focus` says which of them moves, the others stay in one initial state. That is the sum
of their state spaces and not the product. `MCAccounts` is `Accounts` alone.

## 3. The runs

| Run | Module and configuration | Shows |
|---|---|---|
| queue | CommandQueue, MCCommandQueue | order, no leak, no blocking, refinement |
| commands_single | MCDeviceCommands, MCCommandsSingle | reset sequence and timer of one display, two faults; no call is forgotten |
| commands_group | MCDeviceCommands, MCCommandsGroup | partial failure over two displays, every request answered, one command at a time on each display (refinement) |
| commands_mode | MCDeviceCommands, MCCommandsMode | violation: stored mode and shown mode differ |
| pairing | MCPairing, MCPairing | ownership, that the display learns of it, and that the code on its screen works, also after a reset |
| pairing_code_reuse | Pairing, MCPairingCodeReuse | violation: one code, two successful claims |
| network | NetworkRecovery, MCNetwork | the display stays reachable and comes back |
| network_stuck | NetworkRecovery, MCNetworkStuck | violation: no WiFi, no access point, no retry |
| network_banner | NetworkRecovery, MCNetworkBanner | violation: OFFLINE on a connected display |
| platform | MCPlatform, MCPlatform | pages, overlays, lists, accounts, limiter, updates and settings, one at a time |
| update_rollback | SoftwareUpdate, MCUpdateRollback | violation: a failed installation that is not rolled back |
| accounts_last_admin | MCAccounts, MCLastAdministrator | violation: two administrators disable each other |

Properties, by what they are about:

* `TailsReleased`, `EveryOperationReturns`, `Implements`: the queues.
* `CommandsSerialize`: the commands, with all that they write and send, keep the order
  and the exclusion that the queues promise; `NoCallIsForgotten`: a
  call without an answer can go on or stands in a queue that still has it.
* `StoredResetsNeverRewind`, `ShownResetsNeverRewind`, `DuplicateResetsCountOnce`:
  the reset sequence in the database and on the display.
* `TimersAgreeAtRest`: display, cached copy and relational copy are the same once
  nothing is outstanding, unless an answer, a connection or a write was lost there.
* `SuccessMeansShown`, `EveryCallIsAnswered`: what an operator is told.
* `OwnedHasNoCode`, `OwnerNeverSwitches`, `PairedAgentIsOwned`, `UncrossedClaimLasts`:
  who owns a display.
* `OwnedAgentLearns`, `DisplayedCodeWorks`: what pairing must eventually do.
* `RetryIsPending`: a paired display in setup mode will try its WiFi again, or is stranded.
* `SetupIsAnnounced`: no handler leaves a banner that hides the setup mode.
* `ReachableUnlessStranded`: again and again there is a socket, a WiFi or an access point.
* `SavedWifiComesBack`: a WiFi that is back for good is used in the end.
* `PageTimerAgrees`, `PageModeAgrees`: a game's page and its displays at rest.
* `ScoreKeepsTheClock`: a score that is sent neither starts nor stops the clock.
* `SavesKeepThePeriod`, `CleanPageIsSent`, `SchedulePageHasPeriods`: a save of the
  plan leaves the running period alone, a page without unsaved changes is what the
  display has, and no page of the schedule is empty.
* `PitchesCountedOnce`: no pitch is lost or counted twice, whatever was refused, drafted
  or loaded in between.
* `ListWithinLimit`: however saves interleave, a list is back within its limit.
* `EndBelongsToOverlay`, `HornOncePerCommand`: overlays and their timer.
* `AdministratorUnlessRaced`, `SessionsFollowThePassword`: accounts.
* `AtMostTwiceTheLimit`, `EveryDisplayGetsThrough`: the limiter and those it limits.
* `ActiveReleaseWorks`: whenever no script is at work, the link names a release that is
  there, and one that works unless a script exited after it moved the link without the
  health check; `SuccessMeansActive`, `ArchiveWholeUnlessOverlapped`: what is reported as
  installed is what runs, from an archive that is whole.
* `SettingsReachTheDisplay`: saves, modes and previews that keep their order leave page,
  server and display in agreement, however they overlap; `AdsKeepTheMode`: an upload does
  not change the kind of mode.

The type invariants of all modules, `MutualExclusion` of the queues and most of the safety
halves of the liveness properties are proved (section 4), and no run repeats them.

Bounds. Three calls suffice for the queues' interesting case: one call that waits for two
others over different displays, which itself is waited for; the proofs cover any number.
`MaxFaults` counts timeouts of a packet that is still under way, lost or negative answers,
dropped connections and failed writes; two faults cover a failed write followed by a lost
answer. `Events` has two resets, so that one can be repeated with and without another in
between. In `Pairing`, `MaxCodes`, `MaxDrops`, `MaxFaults`, `MaxResets` and `MaxInbox` bound
the codes generated, lost connections and restarts, failed HTTP requests and lost
acknowledgements, factory resets, and messages under way. `MCPairing` splits these bounds
into two scenarios of one run: faults and two users without a reset, a reset and two codes
with one user (the module says what else each leaves out, and why no fairness is lost by
it). In `NetworkRecovery`, two requests of the portal can meet each other and the retry;
`MaxTroubles` counts whatever need not happen (a network or the server comes or goes, a
restart, something that does not start in time), and three are enough for an outage, a
failure of the recovery from it, and a second outage or the return of the first network
(four pass as well, in more than three minutes).

In the platform run, two presses (`MaxPresses`) and one failure (`MaxLosses`) let two
requests of a page cross and one be refused, on three games (`MCGames`: a page without
selection, one with, one with two displays; one of them on displays that show no game yet).
Practice starts with a period of each unit planned and one running, pages of two, three
acts, one failure, one lookup; while another part moves, the display has no plan.
`MaxPitches` 2 reaches the bound of a total. `ListLimit` 1 with three entries and two owners
reaches two prunes at once over a list that is two beyond the limit. Three overlays, two
polls at a time and one upset: a horn, its successor, its end. Three requests of two
browsers with three users. `Limit` 3 and `Window` 5 with two displays at an address and
`MaxBuckets` 1, so that the Map must forget. Three versions, one of which does not work, two
requests under way, four in all, one mishap besides what the release that does not work
makes fail, and `KeptReleases` 2 (so that three releases suffice to prune one). `MCSittings`
are the combinations of what an operator does on the settings page that fit the time.

`CHECK_DEADLOCK FALSE` everywhere: the requests of an instance are finitely many, and
a display with nothing to do is at rest. `CallSymmetry` in commands_single permutes
calls, which no definition tells apart; the run checks no liveness.

Fairness. Weak fairness of promise reactions and queries (Node runs them), of
acknowledgement timers, of the agent's five-second timer and its endless
reconnection (`reconnectionAttempts: Infinity`), of messages on a connection
that stays up. No fairness of users, of connections dropping, of the minute
timer, of WiFi setup, of a restart. For the network: weak fairness of `main()` and
its restart by systemd (`Restart=always`), of awaited commands, of the timers, of
the socket's reconnection and of NetworkManager's autoconnect; none of people, of
networks, or of anything that counts as a trouble. The components of the platform run
have no liveness property and no fairness: what must happen there is stated for the
moment when nothing is under way, and `EveryDisplayGetsThrough` bounds a wait.

Violations. `commands_mode`: set_mode is not in the command queue, so it can run
between the mode:set and the persistence of a set_timer; the database then holds
the timer's mode and the display the other, until its next hello sets it back.
`pairing_code_reuse`: a hello that read the record before the first claim writes
the code back after it and clears the owner; a second user's claim of that code
succeeds, and both are told so. `network_stuck`: `recoverToWifiSetup` saves the mode
setup first and only logs when the access point fails; with that mode neither the
recovery nor the retry is ever scheduled again in that run, and the interface is not
given back to NetworkManager. `network_banner`: the recovery awaits the WiFi status
and then writes OFFLINE, though the socket has come back meanwhile.
`accounts_last_admin`: PATCH counts the active administrators and disables one in a
second query; two requests that both count two both go on, and none is left. Only
the maintenance script can then make one. `update_rollback`: after the link has been moved,
`apply-pi-update.sh` installs units and restarts the services under `set -e`; when one of
these commands fails (a service of the new release cannot be started, say), the script
exits before the health check and the rollback, and the link stays on that release,
though `docs/PRODUCTION_HANDOFF.md` says that failed installations roll back.

`DisplayedCodeWorks` has an exception, `Locked`: a hello that is under way while
a factory reset deletes the record creates a record without a token and with the
old code. If that code is claimed, the display can neither connect nor register.

What else the exceptions of the properties say of the code, which no document contradicts: a
weather report or a logo that arrives after a change of period takes the change back
(`fresh` in `SavesKeepThePeriod`); a photo that arrives after a pitch takes the pitch back
(`astray`); a login that had checked the old password before a change gets a session after
it (`crossed`); a horn whose answers come out of order sounds again (`disordered`); an
upload that ends sets back a mode set meanwhile (`crossed` in `AdsKeepTheMode`); a write of
a mode that fails is answered as a success, and a save that is pushed during a drag ends the
preview (`apart` and `disturbed`); two answers of a game's page that arrive in the other
order leave it with the older timer (`timerUpset`); a link `current.next` that a power cut
left behind makes the next update link another version (`interrupted`).

## 4. The proofs

`CommandQueue_proofs` proves, for any set of displays and of calls, the type
invariant, `MutualExclusion`, `TailsReleased` and the refinement. The invariant
`IInv` says what the Map and the promises mean: tickets are handed out in order
(`TicketsOrder`); an entry of the Map belongs to a call on that display that has
not removed it (`TailOwned`) and is not before any unsettled call on it
(`TailIsLast`); the tail that a waiting call has read is not before any unsettled
earlier call on that display (`AwaitedIsLast`); and whatever shares a display with
a started call and came before it has settled (`Ordered`). Exclusion needs
this chain because a call waits only for the last tail, not for every earlier call.
With `AwaitedIsEarlier` (what a call waits for arrived before it) it proves that the
queues never wait in a circle (`NoCircularWait`) and never stand still
(`SomeoneGoesFirst`: the earliest of the calls that wait is waiting for calls that run,
or for none).

`DeviceCommands_proofs` proves the type invariant, that two operations on a display
exclude each other (`OperationsAreExclusive`), `TimersAgreeAtRest`,
`StoredResetsNeverRewind`, `DuplicateResetsCountOnce`, `ShownResetsNeverRewind` and
`SuccessMeansShown` for any displays, calls, requests, modes, resets and number of
faults. Its `IInv` says what each stage of a call leaves behind, in parts that rest on
one another. `Kinds`, `PersistQueues` and `Queues`: which request can be at which
stage and what the two queues hold, hence a running call has its displays to itself.
`TimersCurrent`: therefore the timer it resolved before its awaits is the one the
records would still give. `Legs`: what was sent has its packet on the way, what failed
is a loss. `Records`: the two copies agree unless a write failed. `Packets` and
`Screens`: behind the packet of a running call there is no other timer on the way, and
along the way to a display the reset sequence rises up to the timer sent last. The
exclusion is what the rest needs: without it a call could persist a timer that it
resolved from an older record.

A second invariant, `Waits`, says that what waits is in the queue it waits for: a queued
call in `cmdQueue`, an acknowledged one in the persistence queue of each display whose
write is outstanding. It proves `NoCallIsForgotten` and `QueuesNeverJam`: the two kinds of
queue do not wait for each other in a ring, because the oldest call of the command queue
is under way or may begin, and the head of a persistence queue can always read or write.
And it proves `CommandsSerialize`, step by step: an arrival is `Request` or `Refuse`, a
`Begin` is `Begin`, the answer of a call that came through the queue is `End` (the others
keep their order when it leaves), and everything else is a stutter.

`Pairing_proofs` proves the type invariant, `OwnedHasNoCode`, `OwnerNeverSwitches`,
`PairedAgentIsOwned` and `UncrossedClaimLasts` for any users and bounds.
`CodeInv`: a code and an owner exclude each other, and a user that has found the
display has found it by a code; hence a conditional claim never meets an owner.
`CrossInv`: as long as nothing crossed, the display is `Fresh` (nothing anywhere
says that it has an owner) or `Lasting` (it has one, and no handler under way is
going to clear it). `Unreset`: before a factory reset a record has its token, an owner, a
connection or a hello has its record, and a display that is not paired is in mode
pairing. Hence `OwnerCanBeLearned` (what tells a display of its owner can still be asked
for) and `LockedOnlyByReset`.

The limiter is proved in the same module, for any limit, window, addresses and finitely
many displays: its types, `AtMostTwiceTheLimit` and `EveryDisplayGetsThrough`.
`AdmittedInv`: what was admitted since the window under way began is no more than its
bucket counts, and what is older was admitted in one window. `WaitInv`: a display that
asked within the window and was let through has not waited longer than the window; one
that has not asked since the window began meets a bucket in which the others have
counted no more than one request each for every turn, so that `Share` leaves it room.
The sums over ages are a recursive function;
facts about them are proved from a least counterexample (`NumberFacts`). The proof gives a wait of a
window and one turn of the display's own, which is what the property says.

`Agent_proofs` is about what runs on the display. Of NetworkRecovery it proves the type
invariant, `RetryIsPending` and `SetupIsAnnounced` for any number of requests and of
troubles. `Safe` is the inductive invariant: nothing but `main()` runs until `main()` is
done (`Volatile`), a recovery that awaits the WiFi status found the display in mode online
and nothing has put it in setup mode since (`RecoveryMode`), so that its OFFLINE does not
hide a setup mode; and in the midst of the handlers only a retry that has yet to end may
show another banner (`Announced`). `Ahead` adds which timers and profiles go with which
mode: `RecoveryNotShutOut` (the flag of a recovery is not left behind), `WayBackIsAhead` and
`OnlineIsAhead` (a display that cannot be reached, or is not online although its WiFi is
back, has the step that will change it ahead, unless it is stranded).

`Accounts_proofs` proves the type invariant, `AdministratorUnlessRaced` and
`SessionsFollowThePassword` for any browsers, accounts, passwords and number of
requests. For the administrators, `AnotherStays`: a request that is past the count and
about to disable an administrator leaves another one; a second such request for that
other one is the race. The theorem assumes that the maintenance script is not run with
the role `user`, with which it can make the last administrator a user (the run has
`ScriptRoles = {"super"}` for the same reason). For the sessions, the theorem excepts the
session of a login that was past its check when the password was changed, which the code
gives: `SessionInv` says that a session names a user
that exists, at a version no higher than the row's; at the row's version it was got
with the row's password or is marked as crossed; and a login past its check holds the
password that is in force or is marked. Every step that writes a password increments
the version (`Rising`), so no older cookie is at the version again.

Of SoftwareUpdate, `Agent_proofs` proves the type invariant, `ActiveReleaseWorks`,
`SuccessMeansActive` and `ArchiveWholeUnlessOverlapped` for any versions, requests and
number of mishaps. `LockInv`: at most one script is past the lock. `LinksInv`: unless
the power failed with the links in hand, no link of an earlier script lies around, and
at each stage the script that has the lock knows what the link names: before its swap a
release that works unless `unchecked`, its own version until the health check, the release before
from the rollback on; and every such release is there, because pruning spares both. A
script that exits on the way leaves `unchecked`, which the next health check that
succeeds takes back.
`ArchiveInv`: of a version that was never downloaded twice at once there is one
download, whose file is still `.part` and has not been truncated.

Of Presentation, `Agent_proofs` proves the type invariant, `EndBelongsToOverlay` (inductive as it
stands) and `HornOncePerCommand` for any number of overlays, polls and upsets. That a
change of what the kiosk is given sounds a horn once is no property of the kiosk alone:
an overlay that came back after another one would sound again. `HornInv`: what the
kiosk shows, the answers on their way to it and what is on disk stand in a line, in
which each overlay has one stretch (`OneStretch`); what has sounded and is in the line
is on the screen already (`SoundedIsShown`); what is on its way to the agent has
neither sounded nor been in the line (`PushedIsNew`).

`Dashboard_proofs` is about the pages and the lists, for every number of displays, presses,
writes and failures: the types of PitchKount, SavedLists, DisplaySettings and ControlPage,
`PitchesCountedOnce`, `ListWithinLimit`, `SettingsReachTheDisplay`, `AdsKeepTheMode`,
`PageTimerAgrees`, `ScoreKeepsTheClock` and `PageModeAgrees`. `PitchInv`: unless something
went astray, what the operator was told is what the page and the display have, as far as
they are no draft, or there is one command under way, which carries it and would put it
back. `ListInv`: an owner beyond the limit has a request under way that has not pruned yet
and will find the list as long as it is (`Prunes`). `CalibrationInv` follows a saved box
from the page over the request and the push to the display. `ModeInv` has a chain for each
two of page, server and display (`ModeChain`, `LayoutChain`, `SyncChain`): where they
differ, a request is under way that makes them equal or makes way for one that does. The
theorem on it excepts what `disturbed` and `apart` name. `TypeAgree`: a change of the
advertisements that nothing crossed has the kind of mode that the display shows. For a
game's page, `TimerInv`: the timer stored last is that of the command whose answer knows
that it overtook the others (`LastStored`), and commands that are alone hand on the clock
they met; `LayoutInv`: one change of the layout is under way at a time and carries what the
page shows; `ModeOnItsWay`: the mode shown waits in the timeout, is in the command that left
last, or is stored.

`PracticeBoard_proofs` proves the types of PracticeBoard, `SchedulePageHasPeriods`,
`SavesKeepThePeriod` and `CleanPageIsSent`, for any boards, limits, page sizes and bounds.
Most of it is about sequences: the periods of a unit are a recursive function over the
plan (`UnitPrefixes`), whose facts come from least counterexamples; a plan in the order
in which it is sent is its own `Serialized`; no edit (adding, removing, moving, changing)
gives a unit more periods than it may have, so that a period that is on is not cut off
when the plan is sent; and the pages of each unit, counted apart, hold every period and
are never empty. `PracticeData` is the inductive invariant of the data: every board on
the page, on the display, under way or saved is `Sound`. `FreshInv`: what is under way
and fresh was built from a board that says the same of the period as the display does,
and goes on saying it as time passes (`PeriodLasts`). `CleanInv`: of a page that has not
been misled at most one command is under way; it carries what the page shows, and what
it would put back is what the display has.

The theorems rest on the assumptions the modules declare (`QueueAssumption`,
`PairingAssumption`, `AccountsAssumption`, `UpdateAssumption` and so on), which TLC
evaluates in the runs, and nothing else apart from the script's role above. What they
say of the code's constants is weak: limits are positive, `Requests` is not empty,
the displays behind the limiter are finitely many. `StartAssumption` says what a
display may hold when the practice page is opened: a board as the page sends it
(`Sound`), since nothing else sends one.

Only model-checked: liveness (`EveryOperationReturns`, `EveryCallIsAnswered`,
`OwnedAgentLearns`, `DisplayedCodeWorks`, `ReachableUnlessStranded`,
`SavedWifiComesBack`), which needs fairness and ENABLED. What it rests on besides
fairness, that whoever waits has a step ahead and that nobody waits in a ring, is proved:
`SomeoneGoesFirst` for the first, `NoCallIsForgotten` and `QueuesNeverJam` for the second,
`OwnerCanBeLearned` and `LockedOnlyByReset` for pairing, `WayBackIsAhead` and
`OnlineIsAhead` for the last two. Every other property of the passing runs is a theorem.

## 5. What is left

Not modelled, and why:

* the timer library, scores and the wrestling match: pure functions of one page,
  without concurrency; what pages and routes do with their results is modelled;
* display geometry: arithmetic on real-valued rectangles;
* `reconnect-device-mode.ts` and capabilities: what an old display may refuse is left
  out of the command pipeline, so the adaptation of a mode to it is too;
* `POST /api/pair` and `POST /api/devices`: no page and no agent sends them;
* reboot and ping: a packet and an answer, nothing is stored;
* scanning and forgetting networks, and `OfflineMode`, which is constructed and never
  called; the routes of the portal and of the local API that no page calls; what the
  kiosk shows while the portal is at work, apart from the banner;
* files: a write of a store succeeds or throws; the stores write in place, and what a
  power cut may leave of a file is not modelled; media files and their serving;
* audit, validation of fields, the text of messages.

Next: the media of a display with their files, and the reads of the command routes that
fail (`persistTimerCommand` rejecting while another display is still being written).
