--------------------------- MODULE FrontendControl ---------------------------
(***************************************************************************)
(* What a Drone does to EmulationStation: it changes its settings and      *)
(* restores backups of the configuration while EmulationStation is         *)
(* stopped, and restarts it through the service's control worker, which is *)
(* a process of its own.  EmulationStation keeps what it read at its start *)
(* and writes it back when it stops.  app/device/device_control.py,        *)
(* app/device/config_backup.py and the helpers they run.  This is the      *)
(* Drone that runs as root; one that does not leaves every sequence to the *)
(* control worker, which takes one request after another.  The init        *)
(* script, tried where no request can be written, is left out.             *)
(***************************************************************************)
EXTENDS Naturals

CONSTANTS
  Backup,         \* the backups that may be made
  NoBackup,
  FrontendBounds  \* how many requests, edits and faults; see FrontendInit

VARIABLES
  es,           \* EmulationStation: it is up; what it holds in memory
  esFile,       \* what es_settings.cfg and gamelist.xml say
  meant,        \* what each of them was last set to, by a person or a request
  esLock,       \* who holds _ES_LIFECYCLE_LOCK
  esCalls,      \* two requests of the Drone's, and how far each is
  control,      \* the request and the result file of a restart
  controlWorker,
  backups,      \* config_backups rows, the tarballs and the threads that build them
  frontendLeft
frontendVars == <<es, esFile, meant, esLock, esCalls, control, controlWorker, backups, frontendLeft>>

Setting == {"mode", "collections"}
Field == Setting \cup {"gamelist"}
Choice == {0, 1}
Call == {1, 2}
Nobody == 0
Resting == [pc |-> "idle", op |-> "none", value |-> 0, of |-> NoBackup]
NoRow == [row |-> "none", tar |-> FALSE, thread |-> "none", holds |-> [f \in Field |-> 0]]

FrontendInit ==
  /\ esFile = [f \in Field |-> 0] /\ es = [up |-> TRUE, mem |-> esFile] /\ meant = esFile
  /\ esLock = Nobody /\ esCalls = [c \in Call |-> Resting]
  /\ control = [request |-> FALSE, result |-> "none"] /\ controlWorker = "idle"
  /\ backups = [b \in Backup |-> NoRow]
  /\ frontendLeft \in FrontendBounds

Use(what) == frontendLeft[what] > 0 /\ frontendLeft' = [frontendLeft EXCEPT ![what] = @ - 1]
Belated == frontendLeft.late > 0
At(c, pc) == esCalls[c].pc = pc
Go(c, pc) == esCalls' = [esCalls EXCEPT ![c].pc = pc]
Ends(c) == esCalls' = [esCalls EXCEPT ![c] = Resting]
esState == <<es, esFile, meant>>

\* EmulationStation stops: what it holds goes to its files.
Stopped == es' = [es EXCEPT !.up = FALSE] /\ esFile' = IF es.up THEN es.mem ELSE esFile
\* A start finds it running, or it reads its files.
Started == es' = IF es.up THEN es ELSE [up |-> TRUE, mem |-> esFile]

-----------------------------------------------------------------------------
\* A person in EmulationStation: a setting is saved at once, a game's record
\* when EmulationStation stops.
EditSetting(f, v) ==
  /\ es.up /\ Use("edits")
  /\ es' = [es EXCEPT !.mem[f] = v] /\ meant' = [meant EXCEPT ![f] = v]
  /\ esFile' = IF f \in Setting THEN es'.mem ELSE esFile
  /\ UNCHANGED <<esLock, esCalls, control, controlWorker, backups>>

-----------------------------------------------------------------------------
\* A request: the screen mode, the collections, a backup to restore, the
\* restart after a share changed, the restart that the user asks for.
Ask(c, op, v, b) ==
  /\ At(c, "idle") /\ Use("requests")
  /\ (op = "restore") <=> (b # NoBackup)
  /\ (op = "restore" => backups[b].row = "complete" /\ backups[b].tar)
  /\ (op = "restart" => Belated)
  /\ esCalls' = [esCalls EXCEPT ![c] = [pc |-> IF op = "restart" THEN "request" ELSE "lock",
                                        op |-> op, value |-> v, of |-> b]]
  /\ UNCHANGED <<esState, esLock, control, controlWorker, backups>>

\* Mutant: the helpers do not wait for each other.
NoLock(c) == TRUE
Serialized(c) == esLock = Nobody

\* Under the lock, where the helper also sees that a screen mode is set already
\* and leaves it alone.
TakeLock(c) ==
  /\ At(c, "lock") /\ Serialized(c)
  /\ IF esCalls[c].op = "mode" /\ esFile["mode"] = esCalls[c].value
     THEN /\ Ends(c) /\ meant' = [meant EXCEPT !["mode"] = esCalls[c].value] /\ UNCHANGED esLock
     ELSE /\ esLock' = c /\ UNCHANGED meant
          /\ Go(c, IF esCalls[c].op = "reload" THEN "request" ELSE "stop")
  /\ UNCHANGED <<es, esFile, control, controlWorker, backups, frontendLeft>>

StopEs(c) ==
  /\ At(c, "stop") /\ Go(c, "write") /\ Stopped
  /\ UNCHANGED <<meant, esLock, control, controlWorker, backups, frontendLeft>>

Release(c) == esLock' = IF esLock = c THEN Nobody ELSE esLock

\* One field is rewritten in the file as it is now, or the files that the
\* backup holds are laid over it.
Changed(c, in) ==
  CASE esCalls[c].op = "mode" -> [in EXCEPT !["mode"] = esCalls[c].value]
    [] esCalls[c].op = "collections" -> [in EXCEPT !["collections"] = esCalls[c].value]
    [] OTHER -> backups[esCalls[c].of].holds

WriteFiles(c) ==
  /\ At(c, "write")
  /\ esCalls[c].op = "restore" => backups[esCalls[c].of].tar
  /\ esFile' = Changed(c, esFile) /\ meant' = Changed(c, meant) /\ Go(c, "start")
  /\ UNCHANGED <<es, esLock, control, controlWorker, backups, frontendLeft>>

\* The tarball is gone, or cannot be read: the error leaves the helper, and
\* EmulationStation stopped.
CannotRead(c) ==
  /\ At(c, "write") /\ esCalls[c].op = "restore"
  /\ IF backups[esCalls[c].of].tar THEN Belated /\ Use("faults") ELSE UNCHANGED frontendLeft
  /\ Ends(c) /\ Release(c)
  /\ UNCHANGED <<esState, control, controlWorker, backups>>

StartEs(c) ==
  /\ At(c, "start") /\ Started /\ Ends(c) /\ Release(c)
  /\ UNCHANGED <<esFile, meant, control, controlWorker, backups, frontendLeft>>

\* It does not come up, at no attempt.
StartFails(c) ==
  /\ At(c, "start") /\ ~es.up /\ Use("faults") /\ Ends(c) /\ Release(c)
  /\ UNCHANGED <<esState, control, controlWorker, backups>>

-----------------------------------------------------------------------------
\* A restart through the control worker: the old result is deleted, the
\* request written, the result awaited.
RequestRestart(c) ==
  /\ At(c, "request") /\ control' = [request |-> TRUE, result |-> "none"] /\ Go(c, "await")
  /\ UNCHANGED <<esState, esLock, controlWorker, backups, frontendLeft>>

TakeRequest ==
  /\ controlWorker = "idle" /\ control.request
  /\ control' = [request |-> FALSE, result |-> "none"] /\ controlWorker' = "stop"
  /\ UNCHANGED <<esState, esLock, esCalls, backups, frontendLeft>>

WorkerStopsEs ==
  /\ controlWorker = "stop" /\ controlWorker' = "start" /\ Stopped
  /\ UNCHANGED <<meant, esLock, esCalls, control, backups, frontendLeft>>

WorkerStartsEs ==
  /\ controlWorker = "start" /\ controlWorker' = "idle"
  /\ \/ Started /\ control' = [control EXCEPT !.result = "ok"] /\ UNCHANGED frontendLeft
     \/ ~es.up /\ Use("faults") /\ control' = [control EXCEPT !.result = "failed"] /\ UNCHANGED es
  /\ UNCHANGED <<esFile, meant, esLock, esCalls, backups>>

\* The result is read and deleted, whoever it answers; the caller that was
\* awaited too long withdraws what is left of its request.
HearResult(c) ==
  /\ At(c, "await") /\ control.result # "none"
  /\ control' = [control EXCEPT !.result = "none"] /\ Ends(c) /\ Release(c)
  /\ UNCHANGED <<esState, controlWorker, backups, frontendLeft>>

GiveUpWaiting(c) ==
  /\ At(c, "await") /\ control.result = "none" /\ (controlWorker = "idle" => control.request)
  /\ (controlWorker # "idle" => Belated)
  /\ Use("faults") /\ control' = [control EXCEPT !.request = FALSE] /\ Ends(c) /\ Release(c)
  /\ UNCHANGED <<esState, controlWorker, backups>>

-----------------------------------------------------------------------------
\* Backups: any_creating is asked, the row inserted, a thread builds the
\* tarball, renames it into place and completes the row.
AskToBackUp(b) ==
  /\ backups[b] = NoRow /\ (\A o \in Backup : backups[o].row # "creating") /\ Use("requests")
  /\ backups' = [backups EXCEPT ![b].row = "asked"]
  /\ UNCHANGED <<esState, esLock, esCalls, control, controlWorker>>

BeginBackup(b) ==
  /\ backups[b].row = "asked"
  /\ backups' = [backups EXCEPT ![b] = [@ EXCEPT !.row = "creating", !.thread = "build"]]
  /\ UNCHANGED <<esState, esLock, esCalls, control, controlWorker, frontendLeft>>

\* The files are read as they are, whatever EmulationStation has in memory.
BuildTarball(b) ==
  /\ backups[b].thread = "build"
  /\ backups' = [backups EXCEPT ![b] = [@ EXCEPT !.tar = TRUE, !.holds = esFile, !.thread = "complete"]]
  /\ UNCHANGED <<esState, esLock, esCalls, control, controlWorker, frontendLeft>>

EndBackup(b) ==
  /\ \/ backups[b].thread = "complete" /\ UNCHANGED frontendLeft
     \/ backups[b].thread = "build" /\ Use("faults")
  /\ LET ended == IF backups[b].thread = "complete" THEN "complete" ELSE "error"
     IN  backups' = [backups EXCEPT ![b] = [backups[b] EXCEPT !.thread = "none",
                                                               !.row = IF @ = "creating" THEN ended ELSE @]]
  /\ UNCHANGED <<esState, esLock, esCalls, control, controlWorker>>

\* The tarball first, then the row; a build goes on.
DeleteBackup(b) ==
  /\ backups[b].row \in {"creating", "complete", "error"} /\ Use("requests")
  /\ backups' = [backups EXCEPT ![b] = [@ EXCEPT !.tar = FALSE, !.row = "deleted"]]
  /\ UNCHANGED <<esState, esLock, esCalls, control, controlWorker>>

-----------------------------------------------------------------------------
\* The Drone restarts: the requests it was serving end where they were.  With
\* late the control worker may be in the middle of a restart.
RestartDrone ==
  /\ Use("crashes") /\ (controlWorker # "idle" \/ control.request => Belated)
  /\ esCalls' = [c \in Call |-> Resting] /\ esLock' = Nobody
  /\ backups' = [b \in Backup |-> [backups[b] EXCEPT !.thread = "none",
                                                    !.row = IF @ = "asked" THEN "none" ELSE @]]
  /\ UNCHANGED <<esState, control, controlWorker>>

FrontendNext ==
  \/ \E f \in Field, v \in Choice : EditSetting(f, v)
  \/ \E c \in Call, v \in Choice : \E op \in {"mode", "collections"} : Ask(c, op, v, NoBackup)
  \/ \E c \in Call : \/ \E op \in {"reload", "restart"} : Ask(c, op, 0, NoBackup)
                     \/ \E b \in Backup : Ask(c, "restore", 0, b)
                     \/ TakeLock(c) \/ StopEs(c) \/ WriteFiles(c) \/ CannotRead(c)
                     \/ StartEs(c) \/ StartFails(c)
                     \/ RequestRestart(c) \/ HearResult(c) \/ GiveUpWaiting(c)
  \/ TakeRequest \/ WorkerStopsEs \/ WorkerStartsEs
  \/ \E b \in Backup : \/ AskToBackUp(b) \/ BeginBackup(b) \/ BuildTarball(b)
                       \/ EndBackup(b) \/ DeleteBackup(b)
  \/ RestartDrone

-----------------------------------------------------------------------------
\* When nothing is being done to EmulationStation and it runs, it runs with
\* what each setting was last set to, by a person or by a request, and would
\* write no other: a change that was written while it was running with the
\* old value is lost when it stops (device_control.py:462-467).
AppliedIsKept ==
  (es.up /\ esLock = Nobody /\ controlWorker = "idle" /\ ~control.request)
    => es.mem = meant

\* AppliedIsKept by induction, without late: what EmulationStation would write
\* is what was meant, and while it is stopped its files say so; a helper that
\* has stopped it holds the lock, and so does the one that awaits the control
\* worker, so that nobody starts it before the helper has written.
Phase == {"idle", "lock", "stop", "write", "start", "request", "await"}
CallType == [Call -> [pc : Phase, op : {"none", "mode", "collections", "reload", "restore"},
                      value : Choice, of : Backup \cup {NoBackup}]]
BackupType == [Backup -> [row : {"none", "asked", "creating", "complete", "error", "deleted"}, tar : BOOLEAN,
                          thread : {"none", "build", "complete"}, holds : [Field -> Choice]]]
FrontendTypes ==
  /\ es \in [up : BOOLEAN, mem : [Field -> Choice]]
  /\ esFile \in [Field -> Choice] /\ meant \in [Field -> Choice]
  /\ esCalls \in CallType
  /\ control \in [request : BOOLEAN, result : {"none", "ok", "failed"}]
  /\ controlWorker \in {"idle", "stop", "start"} /\ backups \in BackupType
  /\ frontendLeft \in [{"requests", "edits", "faults", "crashes", "late"} -> Nat] /\ frontendLeft["late"] = 0

HoldsLock(c) ==
  /\ esCalls[c].op = "restore" => esCalls[c].of \in Backup
  /\ esCalls[c].pc = "lock" => esCalls[c].op # "none"
  /\ esCalls[c].pc \in {"stop", "write"} => esCalls[c].op \in {"mode", "collections", "restore"}
  /\ esCalls[c].pc \in {"stop", "write", "start", "request", "await"} => esLock = c
  /\ esCalls[c].pc \in {"write", "start"} => ~es.up

FrontendInv ==
  /\ FrontendTypes
  /\ IF es.up THEN es.mem = meant /\ \A f \in Setting : esFile[f] = meant[f] ELSE esFile = meant
  /\ \A c \in Call : HoldsLock(c)
  /\ controlWorker # "idle" \/ control.request => \E c \in Call : esLock = c /\ At(c, "await")
  /\ controlWorker # "idle" => ~control.request
  /\ control.result # "none" => controlWorker = "idle" /\ ~control.request

\* Not so: EmulationStation runs when nothing is being done to it.  A tarball
\* that cannot be read leaves it stopped, and so does a restart of the Drone
\* (apply_config_backup.py docstring of restore_config_backup).
ScreenComesBack == (esLock = Nobody /\ controlWorker = "idle" /\ ~control.request) => es.up

\* Not so: one build at a time (config_backup.py docstring); two requests may
\* both have asked.  Nor does a build that a restart cut short ever end.
OneBuildAtATime == \A a, b \in Backup : backups[a].row = "creating" /\ backups[b].row = "creating" => a = b
BuildsHaveThreads == \A b \in Backup : backups[b].row = "creating" => backups[b].thread # "none"
==============================================================================
