----------------------------- MODULE SelfUpdate -----------------------------
(***************************************************************************)
(* The update of the Drone by itself: app/common/self_update.py.           *)
(*                                                                         *)
(* A worker, one at a time in a process, asks for the latest release,      *)
(* installs the Ports client's files of it, then the files of the app, and *)
(* schedules a restart.  Files are copied over the installed ones one by   *)
(* one, so whatever ends the worker leaves trees of mixed releases; what   *)
(* counts as installed is the file VERSION.  The architecture is one that  *)
(* the Ports client is built for, and releases are not taken back.         *)
(***************************************************************************)
EXTENDS Naturals

CONSTANTS
  PortsFile, AppFile, ContentFile,   \* files of the three trees; "VERSION" is one of AppFile
  UpdateBounds                       \* [release, restart, fail, toggle: numbers]

VARIABLES
  latest,      \* the latest release
  autoUpdate,  \* DRONE_AUTO_UPDATE_FILE
  ports, app,  \* the release that each installed file is of
  updater,     \* the update worker
  restarting,  \* whether a restart is scheduled
  reported,    \* DRONE_UPDATE_STATUS_FILE
  updatesLeft
updateVars == <<latest, autoUpdate, ports, app, updater, restarting, reported, updatesLeft>>

AllOf(S, v) == [f \in S |-> v]
Dev == 0       \* a source deployment has no version
NoUpdater == [at |-> "idle", automatic |-> FALSE, current |-> Dev, target |-> Dev, files |-> {}, done |-> {}]

\* _installed_drone_version.
Installed == app["VERSION"]

At(step) == updater.at = step
Ends(status) == updater' = NoUpdater /\ reported' = status
SpendUpdate(name) == updatesLeft[name] > 0 /\ updatesLeft' = [updatesLeft EXCEPT ![name] = @ - 1]

-----------------------------------------------------------------------------
\* request_drone_update_check, by hand or by the poller.
RequestCheck(automatic) ==
  /\ At("idle") /\ (automatic => autoUpdate)
  /\ updater' = [NoUpdater EXCEPT !.at = "check", !.automatic = automatic] /\ reported' = "queued"
  /\ UNCHANGED <<latest, autoUpdate, ports, app, restarting, updatesLeft>>

\* _run_drone_auto_update_check_once: what is installed is read before the
\* release is asked for, and every file is then taken from that release.
Disabled == updater.automatic /\ ~autoUpdate
Check ==
  /\ At("check")
  /\ IF Disabled THEN Ends("disabled")
     ELSE updater' = [updater EXCEPT !.at = "found", !.current = Installed, !.target = latest] /\ reported' = "checking"
  /\ UNCHANGED <<latest, autoUpdate, ports, app, restarting, updatesLeft>>

Outdated == updater.current = Dev \/ updater.current < updater.target
Found ==
  /\ At("found")
  /\ CASE ~Outdated -> Ends("current")
       [] Outdated /\ Disabled -> Ends("disabled")
       [] OTHER -> updater' = [updater EXCEPT !.at = "stage"] /\ reported' = "downloading"
  /\ UNCHANGED <<latest, autoUpdate, ports, app, restarting, updatesLeft>>

\* _download_latest_drone_app: each archive is downloaded and validated in a
\* stage, then overlaid.
Tree == {"ports", "app", "content"}
FilesOf(tree) == CASE tree = "ports" -> PortsFile [] tree = "app" -> AppFile [] tree = "content" -> ContentFile

\* Mutant: the app goes first.
AppFirst(done) == IF {"app", "content"} \subseteq done THEN "ports" ELSE IF "app" \in done THEN "content" ELSE "app"
NextTree(done) == IF "ports" \notin done THEN "ports" ELSE IF "app" \notin done THEN "app" ELSE "content"

Stage ==
  /\ At("stage") /\ updater.done # Tree
  /\ updater' = [updater EXCEPT !.at = NextTree(updater.done), !.files = FilesOf(NextTree(updater.done))]
  /\ UNCHANGED <<latest, autoUpdate, ports, app, restarting, reported, updatesLeft>>

\* _overlay_drone_release_tree, in the order the directories happen to have.
Overlay ==
  /\ updater.at \in Tree
  /\ IF updater.files = {}
     THEN updater' = [updater EXCEPT !.at = "stage", !.done = @ \cup {updater.at}] /\ UNCHANGED <<ports, app>>
     ELSE \E f \in updater.files :
            /\ updater' = [updater EXCEPT !.files = @ \ {f}]
            /\ IF At("ports") THEN ports' = [ports EXCEPT ![f] = updater.target] /\ UNCHANGED app
               ELSE app' = [app EXCEPT ![f] = updater.target] /\ UNCHANGED ports
  /\ UNCHANGED <<latest, autoUpdate, restarting, reported, updatesLeft>>

\* The history is written, and the restart is scheduled.
Installs ==
  /\ At("stage") /\ updater.done = Tree /\ Ends("restart_scheduled") /\ restarting' = TRUE
  /\ UNCHANGED <<latest, autoUpdate, ports, app, updatesLeft>>

\* Anything but the first look at the setting may fail, and ends the worker.
Fails ==
  /\ updater.at \notin {"idle", "check"} /\ SpendUpdate("fail") /\ Ends("error")
  /\ UNCHANGED <<latest, autoUpdate, ports, app, restarting>>

-----------------------------------------------------------------------------
\* The restart comes a while later, or the process dies; either may find
\* another worker at work.
RestartDrone ==
  /\ updater' = NoUpdater /\ restarting' = FALSE
  /\ IF restarting THEN UNCHANGED updatesLeft ELSE SpendUpdate("restart")
  /\ UNCHANGED <<latest, autoUpdate, ports, app, reported>>

Release ==
  /\ SpendUpdate("release") /\ latest' = latest + 1
  /\ UNCHANGED <<autoUpdate, ports, app, updater, restarting, reported>>

Toggle ==     \* set_drone_auto_update_enabled
  /\ SpendUpdate("toggle") /\ autoUpdate' = ~autoUpdate
  /\ UNCHANGED <<latest, ports, app, updater, restarting, reported>>

UpdateInit ==
  /\ updatesLeft \in UpdateBounds
  /\ latest = 1 /\ autoUpdate = TRUE
  /\ \E v \in {Dev, 1} : ports = AllOf(PortsFile, v) /\ app = AllOf(AppFile \cup ContentFile, v)
  /\ updater = NoUpdater /\ restarting = FALSE /\ reported = "idle"

UpdateNext ==
  \/ (\E automatic \in BOOLEAN : RequestCheck(automatic))
  \/ Check \/ Found \/ Stage \/ Overlay \/ Installs \/ Fails
  \/ RestartDrone \/ Release \/ Toggle

UpdateSpec == UpdateInit /\ [][UpdateNext]_updateVars

-----------------------------------------------------------------------------
\* The web UI is never current while the Ports client is stale: whatever fails
\* and whenever the process dies, no Ports file is older than VERSION says, so
\* a check that finds nothing to do leaves no old one behind.
PortsNeverLag == \A f \in PortsFile : ports[f] >= Installed

\* The same of the app itself.  Not held by the code: VERSION is copied among
\* the other files.
AppIsWhole == At("idle") => \A f \in AppFile \cup ContentFile : app[f] >= Installed

\* What is inductive: a worker's release is between what is installed and the
\* latest one, and when it takes the files of the app, the Ports client is of it.
UpdateWorker == [at : {"idle", "check", "found", "stage"} \cup Tree, automatic : BOOLEAN, current : Nat, target : Nat,
           files : SUBSET (PortsFile \cup AppFile \cup ContentFile), done : SUBSET Tree]
UpdateTypes ==
  /\ latest \in Nat /\ ports \in [PortsFile -> Nat] /\ app \in [AppFile \cup ContentFile -> Nat]
  /\ updater \in UpdateWorker

Between == updater.at \notin {"idle", "check"} => Installed <= updater.target /\ updater.target <= latest
FirstPorts ==
  /\ updater.at \in {"idle", "check", "found"} => updater.done = {}
  /\ updater.at \in {"app", "content"} => "ports" \in updater.done
  /\ "ports" \in updater.done => \A f \in PortsFile : ports[f] >= updater.target
  /\ At("ports") => updater.files \subseteq PortsFile /\ \A f \in PortsFile \ updater.files : ports[f] >= updater.target
  /\ updater.at \in {"app", "content"} => updater.files \subseteq AppFile \cup ContentFile

UpdateInv == UpdateTypes /\ Installed <= latest /\ Between /\ FirstPorts /\ PortsNeverLag

=============================================================================
