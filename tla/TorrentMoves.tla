---------------------------- MODULE TorrentMoves ----------------------------
(***************************************************************************)
(* The move of a finished torrent's files to another disk: the move_job    *)
(* of app/transfer/torrent_manager.py.                                     *)
(*                                                                         *)
(* A request looks at the row and, a while later, puts a job on it.  The   *)
(* _move_worker takes one file at a time: it marks the file under the      *)
(* lock, moves it without and records the outcome under the lock again.    *)
(* Every section under the lock ends by saving, so what a restart finds is *)
(* the job as it is, and whatever the move had done to the disks by then.  *)
(*                                                                         *)
(* And the removal of a .torrent file that could not be unlinked when its  *)
(* torrent was deleted: its identity is kept, and a later tick unlinks     *)
(* what has that identity, by a rename to a private name, and nothing that *)
(* was dropped onto the name meanwhile.                                    *)
(***************************************************************************)
EXTENDS Naturals, Sequences, FiniteSets, SequencesExt

CONSTANTS
  Item,      \* the files of the torrent
  NoItem,
  Name,      \* the names they may have at the destination
  NameOf,    \* [Item -> Name]; two files of different directories may share one
  Before,    \* names that the destination already has files of, of somebody else
  Crashes,   \* bound on restarts
  Requests,  \* bound on requests
  Drops,     \* bound on what others do to the name of the .torrent file
  Late       \* whether they do it between two system calls that are one here

VARIABLES
  moveJob,   \* the row's move_job
  moveAsked, \* jobs of requests that have looked at the row
  moveStep,  \* what the worker is doing outside the lock
  payload,   \* the files still in the download directory
  target,    \* the files at the destination, by name and collision number
  moveRow,   \* [listed: the row's files, kept: whether the row is in the list]
  moveDrive, \* whether the destination is there
  dropped,   \* history: files deleted because the user asked for the cleanup
  torrentFile, \* the name in the watched folder, the private one, the removal
  moveLeft   \* what is left of the bounds
moving == <<moveJob, moveAsked, moveStep, payload, target, moveRow, moveDrive, dropped>>
moveVars == <<moving, torrentFile, moveLeft>>

Spot == Name \X (1 .. Cardinality(Item) + 1)
Nobody == [of |-> NoItem, whole |-> TRUE]          \* a file of somebody else
Absent == [of |-> NoItem, whole |-> FALSE]
NoJob == [st |-> "none", seq |-> 0, rest |-> <<>>, current |-> NoItem, moved |-> {}, errors |-> {}, cleanup |-> FALSE]
AtRest == [at |-> "idle", seq |-> 0, item |-> NoItem, to |-> <<CHOOSE n \in Name : TRUE, 1>>, ok |-> FALSE]

\* The inode of the .torrent file, those of files dropped onto its name, and a
\* named pipe.
None == 0
Mine == 1
Pipe == Drops + 2
Regular(n) == n \notin {None, Pipe}

MoveInit ==
  /\ moveJob = NoJob /\ moveAsked = {} /\ moveStep = AtRest /\ payload = Item
  /\ target = [s \in Spot |-> IF s[1] \in Before /\ s[2] = 1 THEN Nobody ELSE Absent]
  /\ moveRow = [listed |-> Item, kept |-> TRUE]
  /\ moveDrive = TRUE /\ dropped = {} /\ torrentFile = [name |-> Mine, aside |-> None, tomb |-> None, pc |-> "idle", held |-> None, failed |-> FALSE, lost |-> {}]
  /\ moveLeft \in {[crash |-> Crashes, request |-> Requests, drops |-> 0, deletes |-> 0],
                   [crash |-> Crashes, request |-> 0, drops |-> Drops, deletes |-> 2]}

-----------------------------------------------------------------------------
(* The request, move_files: files the row knows, whatever became of them.   *)
Active(job) == job.st \in {"queued", "moving"}

AskMove(selected, cleanup) ==
  /\ moveLeft.request > 0 /\ moveRow.kept /\ ~Active(moveJob)
  /\ selected # <<>> /\ ToSet(selected) \subseteq moveRow.listed
  /\ moveAsked' = moveAsked \cup
       {[NoJob EXCEPT !.st = "queued", !.seq = moveLeft.request, !.rest = selected, !.cleanup = cleanup]}
  /\ moveLeft' = [moveLeft EXCEPT !.request = @ - 1]
  /\ UNCHANGED <<moveJob, moveStep, payload, target, moveRow, moveDrive, dropped, torrentFile>>

\* It does not ask again whether a job is there by now.
RequestMove ==
  /\ \E job \in moveAsked :
       moveAsked' = moveAsked \ {job} /\ moveJob' = IF moveRow.kept THEN job ELSE moveJob
  /\ UNCHANGED <<moveStep, payload, target, moveRow, moveDrive, dropped, torrentFile, moveLeft>>

\* remove_from_list asks about a migration, not about a move.
RemoveRow ==
  /\ moveRow.kept /\ moveRow' = [moveRow EXCEPT !.kept = FALSE]
  /\ UNCHANGED <<moveJob, moveAsked, moveStep, payload, target, moveDrive, dropped, torrentFile, moveLeft>>

-----------------------------------------------------------------------------
(* The worker, _move_tick.                                                  *)

\* The file that was under way when the process died takes the plain name
\* again; any other one the first free number.
FreeSpot(n) == CHOOSE s \in Spot : /\ s[1] = n /\ target[s] = Absent
                                   /\ \A k \in 1 .. s[2] - 1 : target[<<n, k>>] # Absent
Target(i) == IF moveJob.current = i THEN <<NameOf[i], 1>> ELSE FreeSpot(NameOf[i])

BeginMove ==
  /\ moveStep.at = "idle" /\ moveRow.kept /\ Active(moveJob) /\ moveJob.rest # <<>>
  /\ LET i == Head(moveJob.rest)
     IN /\ moveJob' = [moveJob EXCEPT !.st = "moving", !.current = i]
        /\ moveStep' = IF moveDrive THEN [at |-> "move", seq |-> moveJob.seq, item |-> i, to |-> Target(i), ok |-> FALSE]
                       ELSE [AtRest EXCEPT !.at = "missing", !.seq = moveJob.seq]
  /\ UNCHANGED <<moveAsked, payload, target, moveRow, moveDrive, dropped, torrentFile, moveLeft>>

\* Whether the row still has the job that the worker took the file from.
Current == moveRow.kept /\ moveJob.seq = moveStep.seq

\* Without its destination the job fails and keeps what it has left to do.
DestinationGone ==
  /\ moveStep.at = "missing" /\ moveStep' = AtRest
  /\ moveJob' = IF Current THEN [moveJob EXCEPT !.st = "failed", !.current = NoItem] ELSE moveJob
  /\ UNCHANGED <<moveAsked, payload, target, moveRow, moveDrive, dropped, torrentFile, moveLeft>>

\* shutil.move: a rename, or between disks a copy and an unlink, each of which
\* may fail.
Moves(c, p, at, ok) ==
  /\ target' = [target EXCEPT ![moveStep.to] = c] /\ payload' = p
  /\ moveStep' = [moveStep EXCEPT !.at = at, !.ok = ok]
MoveFile ==
  /\ LET i == moveStep.item
         Copy(whole) == [of |-> i, whole |-> whole]
     IN \/ /\ moveStep.at = "move"
           /\ IF i \in payload THEN \/ Moves(Copy(TRUE), payload \ {i}, "record", TRUE)
                                    \/ Moves(Copy(FALSE), payload, "copy", FALSE)
              ELSE Moves(target[moveStep.to], payload, "record", FALSE)
        \/ /\ moveStep.at = "copy"
           /\ \/ Moves(Copy(TRUE), payload, "unlink", FALSE)
              \/ Moves(Copy(FALSE), payload, "record", FALSE)
        \/ /\ moveStep.at = "unlink"
           /\ \/ Moves(Copy(TRUE), payload \ {i}, "record", TRUE)
              \/ Moves(Copy(TRUE), payload, "record", FALSE)
  /\ UNCHANGED <<moveJob, moveAsked, moveRow, moveDrive, dropped, torrentFile, moveLeft>>

\* Mutant: the cleanup does not ask for errors.
CleansUpAnyway(job) == job.cleanup
CleansUp(job) == job.cleanup /\ job.errors = {}

\* _finalize_move_job_locked: with the cleanup, and no error, everything the
\* torrent has left on the disk goes, and its row with it.
Finalized(job, row) ==
  \E clean \in {CleansUp(job), FALSE} :    \* the payload cannot be removed
     /\ moveJob' = [job EXCEPT !.st = IF job.moved = {} THEN "failed" ELSE "complete"]
     /\ moveRow' = [listed |-> IF clean THEN row.listed ELSE row.listed \ job.moved, kept |-> ~clean]
     /\ payload' = IF clean THEN payload \ row.listed ELSE payload
     /\ dropped' = IF clean /\ job.errors = {} THEN dropped \cup (row.listed \ job.moved) ELSE dropped

RecordMove ==
  /\ moveStep.at = "record" /\ moveStep' = AtRest
  /\ IF ~Current THEN UNCHANGED <<moveJob, moveRow, payload, dropped>>
     ELSE LET i == moveStep.item
              job == [moveJob EXCEPT !.rest = Tail(@), !.current = NoItem,
                                     !.moved = IF moveStep.ok THEN @ \cup {i} ELSE @,
                                     !.errors = IF moveStep.ok THEN @ ELSE @ \cup {i}]
          IN IF job.rest = <<>> THEN Finalized(job, moveRow)
             ELSE moveJob' = job /\ UNCHANGED <<moveRow, payload, dropped>>
  /\ UNCHANGED <<moveAsked, target, moveDrive, torrentFile, moveLeft>>

\* _restore_state keeps current_file.
MoveRestart ==
  /\ moveLeft.crash > 0 /\ moveLeft' = [moveLeft EXCEPT !.crash = @ - 1]
  /\ moveStep' = AtRest /\ moveAsked' = {}
  /\ moveJob' = IF Active(moveJob) THEN [moveJob EXCEPT !.st = "queued"] ELSE moveJob
  /\ UNCHANGED <<payload, target, moveRow, moveDrive, dropped, torrentFile>>

Drive == moveDrive' = ~moveDrive /\ UNCHANGED <<moveJob, moveAsked, moveStep, payload, target, moveRow, dropped, torrentFile, moveLeft>>

-----------------------------------------------------------------------------
(* The .torrent file.                                                       *)
Goes(pc) == [torrentFile EXCEPT !.pc = pc]
AtFile(pc) == torrentFile.pc = pc
Lose(n) == torrentFile.lost \cup ({n} \ {None})
FileStep == UNCHANGED <<moving, moveLeft>>

\* The torrent is deleted: its file is unlinked, or noted when that fails, with
\* the identity of what has the name by then.
DeleteTorrent ==
  /\ AtFile("idle") /\ torrentFile.tomb = None /\ torrentFile.name = Mine
  /\ moveLeft.deletes > 0 /\ moveLeft' = [moveLeft EXCEPT !.deletes = @ - 1]
  /\ \/ torrentFile' = [torrentFile EXCEPT !.name = None, !.lost = Lose(Mine)]
     \/ torrentFile' = IF Late THEN Goes("queue") ELSE [torrentFile EXCEPT !.tomb = Mine]
  /\ UNCHANGED moving

_queue_pending_removal_torrent_file ==
  /\ AtFile("queue")
  /\ torrentFile' = [torrentFile EXCEPT !.tomb = torrentFile.name, !.pc = "idle"]
  /\ FileStep

\* A tick opens the file without waiting for a writer and takes its identity
\* from what it holds: another file, or no file at all, ends the removal.
SameFile(n) == Regular(n) /\ n = torrentFile.tomb
OpenFile ==
  /\ AtFile("idle") /\ torrentFile.tomb # None
  /\ torrentFile' = IF SameFile(torrentFile.name)
                    THEN [torrentFile EXCEPT !.pc = "unlink", !.held = torrentFile.name]
                    ELSE [torrentFile EXCEPT !.tomb = None]
  /\ FileStep

\* It cannot be opened for the moment.
OpenFails ==
  /\ AtFile("idle") /\ torrentFile.tomb # None
  /\ moveLeft.deletes > 0 /\ moveLeft' = [moveLeft EXCEPT !.deletes = @ - 1]
  /\ UNCHANGED <<moving, torrentFile>>

Finishes(r) == [r EXCEPT !.pc = "idle", !.held = None, !.failed = FALSE, !.tomb = IF r.failed THEN @ ELSE None]

\* The unlink of the name is intercepted: what is held goes by way of a private
\* name, and anything else that has the name stays.
Guarded ==
  /\ AtFile("unlink")
  /\ torrentFile' = IF torrentFile.name = torrentFile.held THEN Goes("aside") ELSE Finishes(torrentFile)
  /\ FileStep

\* Mutant: it is unlinked by its name, which was looked at before.
UnlinksByName == [torrentFile EXCEPT !.lost = Lose(torrentFile.name), !.name = None, !.pc = "idle"]
Aside == [torrentFile EXCEPT !.aside = torrentFile.name, !.name = None, !.pc = "check"]
RenameAside ==
  /\ AtFile("aside")
  /\ torrentFile' = IF torrentFile.name = None THEN Finishes(torrentFile) ELSE Aside
  /\ FileStep

\* Is it the one that is held?  Its unlink may fail again.
CheckAside ==
  /\ AtFile("check")
  /\ IF torrentFile.aside # torrentFile.held
     THEN torrentFile' = Goes("restore") /\ UNCHANGED moveLeft
     ELSE \/ /\ torrentFile' = Finishes([torrentFile EXCEPT !.lost = Lose(torrentFile.aside), !.aside = None])
             /\ UNCHANGED moveLeft
          \/ /\ moveLeft.deletes > 0 /\ moveLeft' = [moveLeft EXCEPT !.deletes = @ - 1]
             /\ torrentFile' = [torrentFile EXCEPT !.pc = "restore", !.failed = TRUE]
  /\ UNCHANGED moving

\* It is put back if the name is vacant; a rename replaces what is there.
PutsBack == [torrentFile EXCEPT !.lost = Lose(torrentFile.name), !.name = torrentFile.aside, !.aside = None]
RestoreAside ==
  /\ \/ /\ AtFile("restore")
        /\ torrentFile' = IF torrentFile.name # None THEN Finishes(torrentFile)
                          ELSE IF Late THEN Goes("put back") ELSE Finishes(PutsBack)
     \/ AtFile("put back") /\ torrentFile' = Finishes(PutsBack)
  /\ FileStep

\* Somebody drops a file onto the name, or takes the one there away.
Drop ==
  /\ moveLeft.drops > 0 /\ moveLeft' = [moveLeft EXCEPT !.drops = @ - 1]
  /\ torrentFile' \in {[torrentFile EXCEPT !.name = n] : n \in {moveLeft.drops + 1, Pipe, None}}
  /\ UNCHANGED moving

\* The tombstone is saved; a file at the private name stays there.
FileRestart ==
  /\ ~AtFile("idle") /\ moveLeft.crash > 0 /\ moveLeft' = [moveLeft EXCEPT !.crash = @ - 1]
  /\ torrentFile' = [torrentFile EXCEPT !.pc = "idle", !.held = None, !.failed = FALSE, !.aside = None]
  /\ UNCHANGED moving

MoveNext ==
  \/ \E selected \in SetToSeqs(Item) \cup {<<i>> : i \in Item}, cleanup \in BOOLEAN :
       AskMove(selected, cleanup)
  \/ RequestMove \/ RemoveRow \/ BeginMove \/ DestinationGone \/ MoveFile \/ RecordMove \/ MoveRestart \/ Drive
  \/ DeleteTorrent \/ _queue_pending_removal_torrent_file \/ OpenFile \/ OpenFails \/ Guarded \/ RenameAside
  \/ CheckAside \/ RestoreAside \/ Drop \/ FileRestart

MoveSpec == MoveInit /\ [][MoveNext]_moveVars

-----------------------------------------------------------------------------
\* No file of the torrent is lost by a move: each is where it was, or whole
\* at the destination, unless the cleanup that was asked for deleted it after
\* every file of the job had arrived.
NoFileIsLost ==
  \A i \in Item : i \in payload \cup dropped \/ \E s \in Spot : target[s] = [of |-> i, whole |-> TRUE]

\* Of the files that have the name one after the other the Drone deletes the
\* torrent's own alone.  Not held with Late: a file dropped between the look for
\* a vacant name and the rename is replaced, and one dropped between the unlink
\* that failed and the look at its identity is deleted for it.
OnlyMineIsDeleted == torrentFile.lost \subseteq {Mine}

FilesAreSafe == NoFileIsLost /\ OnlyMineIsDeleted

\* A move replaces nothing but what an interrupted move of the same file left.
\* Not held by the code: the resumed file forgets its collision number.
OthersStay ==
  [][\A s \in Spot : target[s] # Absent => target'[s].of = target[s].of]_moveVars
=============================================================================
