--------------------------- MODULE SoftwareUpdate ---------------------------
(***************************************************************************)
(* From a published release to the release that a display runs.            *)
(*                                                                         *)
(* UpdateManager (apps/pi-agent/src/update-manager.ts) asks the server for *)
(* the newest release, downloads it and starts scripts/apply-pi-update.sh  *)
(* as a systemd unit named by the version.  Requests come over the socket  *)
(* and over the local API, nothing keeps two of them apart.  The script    *)
(* unpacks the archive, moves the link /opt/shotclock/current, restarts    *)
(* the services, and moves the link back when they are not healthy.  Under *)
(* "set -e" it exits wherever a command fails, also between the link and   *)
(* the question for the services' health.  The power may fail between any  *)
(* two of its commands.                                                    *)
(*                                                                         *)
(* An archive is whole or torn: two downloads of a version write the same  *)
(* file.  A release is a version; whether it works is a constant.  Left    *)
(* out: progress and broadcasts, unsafe archives (a download that fails),  *)
(* the migration's effect, files of the system apart from links and        *)
(* releases.                                                               *)
(***************************************************************************)
EXTENDS Naturals, FiniteSets

CONSTANTS
  Versions,     \* in the order of sort -V
  Working,      \* those that can be installed and whose services come up
  Shipped,      \* the version a display comes with
  Updates,      \* requests that may be under way together
  KeptReleases, \* 3 in the script
  MaxUpdates,   \* bound on requests
  MaxMishaps    \* bound on failures and power cuts

ASSUME UpdateAssumption ==
  /\ Versions \subseteq Nat \ {0} /\ Working \subseteq Versions /\ Shipped \in Working
  /\ KeptReleases \in Nat \ {0, 1} /\ MaxUpdates \in Nat /\ MaxMishaps \in Nat

VARIABLES
  published,   \* the releases in the table FirmwareRelease
  newest,      \* the one with the latest date, 0 if there is none
  update,      \* state of the UpdateManager
  savedUpdate, \* update-state.json
  requests,    \* what checkForUpdates and installUpdate are awaiting
  archives,    \* .part and .tar.gz of each version
  script,      \* the unit of each version, and what it does next
  releases,    \* directories of /opt/shotclock/releases
  current,     \* target of /opt/shotclock/current
  nextLink,    \* target of current.next, 0 if there is none
  backLink,    \* target of current.rollback
  running,     \* the version of the agent's process, 0 if it cannot start
  updates, mishaps,
  interrupted, \* history: the power failed while the links were in the script's hands
  overlapped,  \* history: versions that two downloads have written at once
  unchecked    \* history: a script has left the link on a release whose health nobody
               \* has asked for, and none has been found healthy since

agentVarsSU == <<update, savedUpdate, requests, archives>>
diskVarsSU == <<releases, current, nextLink, backLink>>
boundsSU == <<updates, mishaps>>
historySU == <<interrupted, overlapped, unchecked>>
updateVars == <<published, newest, agentVarsSU, script, diskVarsSU, running, boundsSU, historySU>>

Release == Versions \cup {0}
Contents == {"none", "torn", "whole"}
UpdateStates == [status : {"idle", "checking", "downloading", "installing", "error"},
                 latest : Release, current : Versions]
UpdateStages == {"idle", "manifest", "download", "downloaded", "validated"}

\* "file" is the name of the file that a download writes; "torn" says that
\* another download has truncated it since.
UpdateRequests == [at : UpdateStages, version : Release,
                   file : {"part", "archive", "gone"}, torn : BOOLEAN]
NoRequest == [at |-> "idle", version |-> 0, file |-> "gone", torn |-> FALSE]

ScriptStages == {"idle", "started", "place", "migrate", "link", "swap", "install", "restart",
                 "health", "back", "backSwap", "backRestart", "prune"}
NoScript == [at |-> "idle", previous |-> Shipped]

UpdateInit ==
  /\ published = {} /\ newest = 0
  /\ update = [status |-> "idle", latest |-> 0, current |-> Shipped]
  /\ savedUpdate = update
  /\ requests = [r \in Updates |-> NoRequest]
  /\ archives = [v \in Versions |-> [part |-> "none", archive |-> "none"]]
  /\ script = [v \in Versions |-> NoScript]
  /\ releases = {Shipped} /\ current = Shipped /\ nextLink = 0 /\ backLink = 0
  /\ running = Shipped
  /\ updates = 0 /\ mishaps = 0 /\ interrupted = FALSE /\ overlapped = {}
  /\ unchecked = FALSE

Mishap == mishaps < MaxMishaps /\ mishaps' = mishaps + 1

-----------------------------------------------------------------------------
(* The server.                                                             *)

\* POST /api/updates/releases; the version is unique.
PublishRelease(v) ==
  /\ v \notin published
  /\ published' = published \cup {v} /\ newest' = v
  /\ UNCHANGED <<agentVarsSU, script, diskVarsSU, running, boundsSU, historySU>>

\* GET /api/updates/manifest: the newest of the releases.
ManifestLatest == newest

-----------------------------------------------------------------------------
(* The agent.                                                              *)

agentKeeps == <<published, newest, script, diskVarsSU, running>>

Receive(r) ==
  /\ running # 0 /\ requests[r] = NoRequest /\ updates < MaxUpdates /\ updates' = updates + 1

\* checkForUpdates, up to the fetch.
CheckForUpdates(r) ==
  /\ Receive(r)
  /\ update' = [update EXCEPT !.status = "checking"]
  /\ requests' = [requests EXCEPT ![r] = [NoRequest EXCEPT !.at = "manifest"]]
  /\ UNCHANGED <<agentKeeps, savedUpdate, archives, mishaps, historySU>>

\* The manifest comes, or an error or nothing within 15 s.
ManifestAnswered(r) ==
  /\ requests[r].at = "manifest"
  /\ \/ update' = [update EXCEPT !.status = "idle", !.latest = ManifestLatest] /\ UNCHANGED mishaps
     \/ update' = [update EXCEPT !.status = "error"] /\ Mishap
  /\ savedUpdate' = update'
  /\ requests' = [requests EXCEPT ![r] = NoRequest]
  /\ UNCHANGED <<agentKeeps, archives, updates, historySU>>

\* The catch block of installUpdate.
InstallFails(r) ==
  /\ update' = [update EXCEPT !.status = "error"]
  /\ savedUpdate' = update'
  /\ requests' = [requests EXCEPT ![r] = NoRequest]

Writers(v, file) ==
  {r \in Updates : requests[r].at = "download" /\ requests[r].version = v /\ requests[r].file = file}
Downloads(v) == {r \in Updates : requests[r].at \in {"download", "downloaded"} /\ requests[r].version = v}

\* installUpdate, up to the download: only the latest version it knows of.
RefuseInstall(r, v) ==
  /\ Receive(r)
  /\ update.latest # v
  /\ InstallFails(r)
  /\ UNCHANGED <<agentKeeps, archives, mishaps, historySU>>

InstallUpdate(r, v) ==
  /\ Receive(r)
  /\ update.latest = v
  /\ update' = [update EXCEPT !.status = "downloading"]
  /\ requests' = [x \in Updates |->
       IF x = r THEN [at |-> "download", version |-> v, file |-> "part", torn |-> FALSE]
       ELSE IF x \in Writers(v, "part") THEN [requests[x] EXCEPT !.torn = TRUE]
       ELSE requests[x]]
  /\ archives' = [archives EXCEPT ![v].part = "torn"]
  /\ overlapped' = IF Downloads(v) = {} THEN overlapped ELSE overlapped \cup {v}
  /\ UNCHANGED <<agentKeeps, savedUpdate, mishaps, interrupted, unchecked>>

\* The last byte is written, and size and checksum of the stream are right.
\* The file is what the writers have made of it.
DownloadFile(r) ==
  LET j == requests[r]
  IN /\ j.at = "download"
     /\ requests' = [requests EXCEPT ![r].at = "downloaded"]
     /\ archives' = IF j.torn \/ j.file = "gone" THEN archives
          ELSE IF j.file = "part" THEN [archives EXCEPT ![j.version].part = "whole"]
          ELSE [archives EXCEPT ![j.version].archive = "whole"]
     /\ UNCHANGED <<agentKeeps, update, savedUpdate, boundsSU, historySU>>

\* Mutant: the file that is removed is the archive of an earlier download.
DownloadFailsOnArchive(r) ==
  LET v == requests[r].version
  IN /\ requests[r].at = "download" /\ Mishap
     /\ InstallFails(r)
     /\ archives' = [archives EXCEPT ![v].archive = "none"]
     /\ UNCHANGED <<agentKeeps, updates, historySU>>

\* The stream breaks or has the wrong size: the file of that name is removed.
DownloadFails(r) ==
  LET v == requests[r].version
  IN /\ requests[r].at = "download" /\ Mishap
     /\ update' = [update EXCEPT !.status = "error"]
     /\ savedUpdate' = update'
     /\ requests' = [x \in Updates |->
          IF x = r THEN NoRequest
          ELSE IF x \in Writers(v, "part") THEN [requests[x] EXCEPT !.file = "gone"]
          ELSE requests[x]]
     /\ archives' = [archives EXCEPT ![v].part = "none"]
     /\ UNCHANGED <<agentKeeps, updates, historySU>>

\* rename: who still writes the file, writes it under its new name.
RenameArchive(r) ==
  LET v == requests[r].version
  IN /\ requests[r].at = "downloaded"
     /\ IF archives[v].part = "none" THEN InstallFails(r) /\ UNCHANGED archives
        ELSE /\ archives' = [archives EXCEPT ![v] = [part |-> "none", archive |-> archives[v].part]]
             /\ requests' = [x \in Updates |->
                  IF x = r THEN [requests[r] EXCEPT !.at = "validated"]
                  ELSE IF x \in Writers(v, "archive") THEN [requests[x] EXCEPT !.file = "gone"]
                  ELSE IF x \in Writers(v, "part") THEN [requests[x] EXCEPT !.file = "archive"]
                  ELSE requests[x]]
             /\ UNCHANGED <<update, savedUpdate>>
     /\ UNCHANGED <<agentKeeps, boundsSU, historySU>>

\* validateArchive: tar can list the archive.
Readable(v) == archives[v].archive = "whole"

\* systemd-run fails on a unit that is still there.
StartScript(r) ==
  LET v == requests[r].version
  IN /\ requests[r].at = "validated"
     /\ IF Readable(v) /\ script[v] = NoScript
        THEN /\ update' = [update EXCEPT !.status = "installing"]
             /\ savedUpdate' = update'
             /\ requests' = [requests EXCEPT ![r] = NoRequest]
             /\ script' = [script EXCEPT ![v].at = "started"]
        ELSE InstallFails(r) /\ UNCHANGED script
     /\ UNCHANGED <<published, newest, archives, diskVarsSU, running, boundsSU, historySU>>

\* A process of the agent starts; loadState, and the constructor.
AgentStarts ==
  /\ running' = IF current' \in releases' THEN current' ELSE 0
  /\ requests' = [r \in Updates |-> NoRequest]
  /\ update' = IF running' = 0 \/ savedUpdate.current = running' THEN savedUpdate
               ELSE [savedUpdate EXCEPT !.status = "idle", !.current = running']
  /\ savedUpdate' = update'

-----------------------------------------------------------------------------
(* apply-pi-update.sh.                                                     *)

beyondScript == <<published, newest, updates, interrupted, overlapped>>
scriptKeeps == <<beyondScript, unchecked>>
Goto(v, stage) == script' = [script EXCEPT ![v].at = stage]
ExitScript(v) == script' = [script EXCEPT ![v] = NoScript]

HoldsLock(v) == script[v].at \notin {"idle", "started"}

\* Mutant: without the lock.
ScriptUnpacksUnlocked(v) ==
  /\ script[v].at = "started"
  /\ IF archives[v].archive # "whole" THEN ExitScript(v) ELSE Goto(v, "place")
  /\ UNCHANGED <<scriptKeeps, agentVarsSU, diskVarsSU, running, mishaps>>

\* flock -n, sha256sum, unpacking, the tests and the packages.
ScriptUnpacks(v) ==
  /\ script[v].at = "started"
  /\ \/ /\ IF (\E w \in Versions : HoldsLock(w)) \/ archives[v].archive # "whole"
           THEN ExitScript(v) ELSE Goto(v, "place")
        /\ UNCHANGED mishaps
     \/ ExitScript(v) /\ Mishap
  /\ UNCHANGED <<scriptKeeps, agentVarsSU, diskVarsSU, running>>

\* test ! -e "$destination"; mv.
ScriptPlaces(v) ==
  /\ script[v].at = "place"
  /\ IF v \in releases THEN ExitScript(v) ELSE Goto(v, "migrate")
  /\ releases' = releases \cup {v}
  /\ UNCHANGED <<scriptKeeps, agentVarsSU, current, nextLink, backLink, running, mishaps>>

\* manage-device-secrets.sh may fail; the directory stays.
ScriptMigrates(v) ==
  /\ script[v].at = "migrate"
  /\ \/ Goto(v, "link") /\ UNCHANGED mishaps
     \/ ExitScript(v) /\ Mishap
  /\ UNCHANGED <<scriptKeeps, agentVarsSU, diskVarsSU, running>>

\* ln -s: into the directory that a link left behind points to, if there is
\* one; refused if the link points nowhere.
LinkTo(old, target) == IF old = 0 THEN target ELSE old
LinkRefused(old) == old # 0 /\ old \notin releases

ScriptLinks(v) ==
  /\ script[v].at = "link"
  /\ IF LinkRefused(nextLink) THEN ExitScript(v) /\ UNCHANGED nextLink
     ELSE /\ script' = [script EXCEPT ![v] = [at |-> "swap", previous |-> current]]
          /\ nextLink' = LinkTo(nextLink, v)
  /\ UNCHANGED <<scriptKeeps, agentVarsSU, releases, current, backLink, running, mishaps>>

\* mv -Tf, which fails if the link is gone.
ScriptSwaps(v) ==
  /\ script[v].at = "swap"
  /\ IF nextLink = 0 THEN ExitScript(v) /\ UNCHANGED current
                      ELSE Goto(v, "install") /\ current' = nextLink
  /\ nextLink' = 0
  /\ UNCHANGED <<scriptKeeps, agentVarsSU, releases, backLink, running, mishaps>>

\* A command fails after the link has been moved: the script exits, and the
\* rollback is not reached.  A release may make it fail, or some mishap.
ScriptAborts(v, release) ==
  /\ ExitScript(v) /\ unchecked' = TRUE
  /\ \/ release \notin Working /\ UNCHANGED mishaps
     \/ Mishap

\* The unit files of the new release, daemon-reload, and the timer of the backup.
ScriptInstalls(v) ==
  /\ script[v].at = "install"
  /\ \/ Goto(v, "restart") /\ UNCHANGED <<unchecked, mishaps>>
     \/ ScriptAborts(v, v)
  /\ UNCHANGED <<beyondScript, agentVarsSU, diskVarsSU, running>>

\* systemctl restart of what the link names.  It fails when a service cannot
\* be started (its ExecStartPre fails, for instance); systemd goes on trying.
ScriptRestarts(v) ==
  /\ script[v].at = "restart"
  /\ \/ Goto(v, "health") /\ UNCHANGED <<unchecked, mishaps>>
     \/ ScriptAborts(v, current)
  /\ UNCHANGED <<beyondScript, archives, diskVarsSU>>
  /\ AgentStarts

\* The restart after a rollback; the script exits whether it fails or not.
RollBackRestarts(v) ==
  /\ script[v].at = "backRestart"
  /\ ExitScript(v)
  /\ UNCHANGED <<scriptKeeps, archives, diskVarsSU, mishaps>>
  /\ AgentStarts

\* Twenty seconds later.
HealthCheck(v) ==
  /\ script[v].at = "health"
  /\ \/ running \in Working /\ Goto(v, "prune") /\ unchecked' = FALSE /\ UNCHANGED mishaps
     \/ running \notin Working /\ Goto(v, "back") /\ UNCHANGED <<unchecked, mishaps>>
     \/ running \in Working /\ Goto(v, "back") /\ UNCHANGED unchecked /\ Mishap
  /\ UNCHANGED <<beyondScript, agentVarsSU, diskVarsSU, running>>

\* Mutant: the rollback is announced and no more.
RollBackNothing(v) ==
  /\ script[v].at = "back"
  /\ ExitScript(v)
  /\ UNCHANGED <<scriptKeeps, agentVarsSU, diskVarsSU, running, mishaps>>

RollBack(v) ==
  /\ script[v].at = "back"
  /\ IF LinkRefused(backLink) THEN ExitScript(v) /\ UNCHANGED backLink
     ELSE Goto(v, "backSwap") /\ backLink' = LinkTo(backLink, script[v].previous)
  /\ UNCHANGED <<scriptKeeps, agentVarsSU, releases, current, nextLink, running, mishaps>>

RollBackSwaps(v) ==
  /\ script[v].at = "backSwap"
  /\ current' = backLink /\ backLink' = 0
  /\ Goto(v, "backRestart")
  /\ UNCHANGED <<scriptKeeps, agentVarsSU, releases, nextLink, running, mishaps>>

\* prune_old_releases: the oldest, but neither the destination nor the
\* previous one, until KeptReleases are left.
Pruned(v, previous) ==
  LET surplus == IF Cardinality(releases) <= KeptReleases THEN 0
                 ELSE Cardinality(releases) - KeptReleases
      spare == releases \ {v, previous}
  IN releases \ {w \in spare : Cardinality({x \in spare : x < w}) < surplus}

PruneReleases(v) ==
  /\ script[v].at = "prune"
  /\ releases' = Pruned(v, script[v].previous)
  /\ ExitScript(v)
  /\ UNCHANGED <<scriptKeeps, agentVarsSU, current, nextLink, backLink, running, mishaps>>

-----------------------------------------------------------------------------
(* The power fails and returns: the links and the files are as they were.  *)

LinksInHand == \E v \in Versions :
  script[v].at \in {"swap", "install", "restart", "health", "back", "backSwap"}

PowerFails ==
  /\ Mishap
  /\ interrupted' = (interrupted \/ LinksInHand)
  /\ script' = [v \in Versions |-> NoScript]
  /\ UNCHANGED diskVarsSU
  /\ AgentStarts
  /\ UNCHANGED <<published, newest, archives, updates, overlapped, unchecked>>

-----------------------------------------------------------------------------
UpdateNext ==
  \/ PowerFails
  \/ \E r \in Updates :
       \/ CheckForUpdates(r) \/ ManifestAnswered(r)
       \/ DownloadFile(r) \/ DownloadFails(r) \/ RenameArchive(r) \/ StartScript(r)
       \/ \E v \in Versions : RefuseInstall(r, v) \/ InstallUpdate(r, v)
  \/ \E v \in Versions :
       \/ PublishRelease(v)
       \/ ScriptUnpacks(v) \/ ScriptPlaces(v) \/ ScriptMigrates(v) \/ ScriptLinks(v)
       \/ ScriptSwaps(v) \/ ScriptInstalls(v) \/ ScriptRestarts(v) \/ HealthCheck(v)
       \/ PruneReleases(v) \/ RollBack(v) \/ RollBackSwaps(v) \/ RollBackRestarts(v)

UpdateSpec == UpdateInit /\ [][UpdateNext]_updateVars

-----------------------------------------------------------------------------
UpdateTypeOK ==
  /\ published \subseteq Versions /\ newest \in Release
  /\ {update, savedUpdate} \subseteq UpdateStates
  /\ requests \in [Updates -> UpdateRequests]
  /\ archives \in [Versions -> [part : Contents, archive : Contents]]
  /\ script \in [Versions -> [at : ScriptStages, previous : Versions]]
  /\ releases \subseteq Versions /\ current \in Versions
  /\ {nextLink, backLink, running} \subseteq Release
  /\ updates \in 0..MaxUpdates /\ mishaps \in 0..MaxMishaps
  /\ {interrupted, unchecked} \subseteq BOOLEAN /\ overlapped \subseteq Versions

NoScripts == \A v \in Versions : script[v] = NoScript

\* "Failed installations roll back automatically" (PRODUCTION_HANDOFF.md:103):
\* when no script is at work, the link names a release that is there and
\* works, unless the power failed while the script had the links in its hands.
FailedInstallsRollBack == NoScripts /\ ~interrupted => current \in releases \cap Working

\* What does hold.  Whatever fails, the link names a release that is there: no
\* script leaves it in the air, and none prunes what it names.  And that release
\* works, unless a script has exited between the link and the health check and
\* no release has been found healthy since.
ActiveReleaseWorks ==
  NoScripts /\ ~interrupted => current \in releases /\ (unchecked \/ current \in Working)

\* "Update $version installed successfully", says the script, and it is what
\* the link names: nobody else has moved it since.  (A current.next that a
\* power cut left behind makes the script install another version.)
SuccessMeansActive ==
  [][\A v \in Versions : PruneReleases(v) /\ ~interrupted => current = v /\ running = v]_updateVars

\* The archive that the script is started with is whole when it reads it,
\* unless two downloads of its version overlapped, which is what the
\* script's own checksum is for.
ArchiveWholeUnlessOverlapped ==
  \A v \in Versions : script[v].at = "started" /\ v \notin overlapped => archives[v].archive = "whole"

=============================================================================
