-------------------------- MODULE TorrentMigration --------------------------
(***************************************************************************)
(* The migration of an unfinished torrent to a new download directory: the *)
(* migration_job of app/transfer/torrent_manager.py.                       *)
(*                                                                         *)
(* The worker stops the download, copies one file at a time, lets the tick *)
(* add the download again at the destination, compares what aria2 reports  *)
(* with what it reported before, and then deletes the originals one by     *)
(* one.  The tick runs in another thread and applies answers that it asked *)
(* for earlier.  Every section under the lock ends by saving.              *)
(***************************************************************************)
EXTENDS Naturals, Sequences, FiniteSets, SequencesExt

CONSTANTS
  Part,       \* the files of the payload, aria2's control file among them
  NoPart,
  Gid, NoGid, \* aria2's ids
  MigrationBounds  \* [crash, slow, fail, fetch, command: numbers; alien: BOOLEAN]

VARIABLES
  job,        \* the row's migration_job
  row,        \* [gid, at: its download_dir, bytes: what aria2 last reported, status]
  downloads,  \* aria2's downloads of this torrent, by gid
  copies,     \* what lies at "src" and at "dst" of each file
  worker,     \* what the move worker is doing outside the lock
  poll,       \* what the tick has asked for
  removals,   \* _pending_removal_gids
  reached,    \* history: how much of each file was ever on disk
  late,       \* history: whether a migration began with an add or a removal under way
  spare        \* what is left of the bounds
vars == <<job, row, downloads, copies, worker, poll, removals, reached, late, spare>>

\* A file is absent, torn (a copy that was cut off), has some or more of its
\* pieces, or belongs to somebody else.
Amount(c) == CASE c = "some" -> 1 [] c = "more" -> 2 [] OTHER -> 0
NoJob == [st |-> "none", phase |-> "", gid |-> NoGid, rest |-> <<>>, moved |-> <<>>, cleanup |-> <<>>,
          current |-> NoPart, tries |-> 0, seen |-> NoGid, base |-> 0]
AtRest == [at |-> "idle", part |-> NoPart, gid |-> NoGid]
NoPoll == [op |-> "none", gid |-> NoGid, at |-> "src", bytes |-> 0, forced |-> FALSE]
NoDownload == [st |-> "gone", at |-> "src"]
Parts == SetToSeq(Part)

Alive == {g \in Gid : downloads[g].st # "gone"}
\* _migration_active, _migration_blocks_download.
MigrationActive == job.st \in {"stopping", "queued", "moving", "verifying", "cleanup"}
\* Mutant: a row that waits for the copy, or is copied, may be added to aria2.
BlocksLess == job.st \in {"stopping", "cleanup", "failed"}
Blocks == job.st \in {"stopping", "queued", "moving", "cleanup", "failed"}

\* The progress aria2 reports of a directory: that of the least complete file.
Progress(at) == CHOOSE n \in 0 .. 2 : /\ \E p \in Part : Amount(copies[at][p]) = n
                                      /\ \A p \in Part : Amount(copies[at][p]) >= n

Init ==
  /\ job = NoJob
  /\ row = [gid |-> NoGid, at |-> "src", bytes |-> 1, status |-> "queued", forced |-> FALSE]
  /\ downloads = [g \in Gid |-> NoDownload]
  /\ copies = [src |-> [p \in Part |-> "some"], dst |-> [p \in Part |-> "none"]]
  /\ worker = AtRest /\ poll = NoPoll /\ removals = {}
  /\ reached = [p \in Part |-> 1] /\ late = FALSE
  /\ spare \in MigrationBounds

-----------------------------------------------------------------------------
(* The commands.                                                            *)
May == spare.command > 0 /\ spare' = [spare EXCEPT !.command = @ - 1]

\* migrate_partial: a copy at the destination of one of its files is a conflict.
Migrate ==
  /\ May /\ ~MigrationActive /\ job.st # "failed"
  /\ row.status # "complete" /\ row.at = "src"
  /\ \E p \in Part : copies.src[p] # "none"
  /\ \A p \in Part : copies.src[p] # "none" => copies.dst[p] = "none"
  /\ job' = [NoJob EXCEPT !.st = IF row.gid # NoGid THEN "stopping" ELSE "queued", !.phase = "copying",
                          !.gid = row.gid, !.base = row.bytes,
                          !.rest = SelectSeq(Parts, LAMBDA p : copies.src[p] # "none")]
  /\ row' = [row EXCEPT !.status = "queued"]
  /\ late' = (late \/ poll.op \in {"add", "added"} \/ removals # {})
  /\ UNCHANGED <<downloads, copies, worker, poll, removals, reached>>

\* retry_partial_migration.
Retry ==
  /\ May /\ job.st = "failed"
  /\ CASE job.phase = "verifying" ->
            /\ job' = [job EXCEPT !.st = "verifying", !.tries = 0, !.seen = NoGid]
            /\ row' = [row EXCEPT !.at = "dst", !.gid = NoGid, !.status = "queued"]
       [] job.phase = "cleanup" -> job' = [job EXCEPT !.st = "cleanup"] /\ UNCHANGED row
       [] OTHER -> job.rest # <<>> /\ job' = [job EXCEPT !.st = "queued"] /\ UNCHANGED row
  /\ UNCHANGED <<downloads, copies, worker, poll, removals, reached, late>>

\* cancel does not ask about a migration.
Cancel ==
  /\ May /\ row.status # "complete"
  /\ row' = [row EXCEPT !.gid = NoGid, !.status = "queued", !.forced = FALSE]
  /\ removals' = removals \cup ({row.gid} \ {NoGid})
  /\ UNCHANGED <<job, downloads, copies, worker, poll, reached, late>>

\* force_start, of a row without a download.
ForceStart ==
  /\ May /\ ~Blocks /\ ~MigrationActive /\ row.status = "queued" /\ row.gid = NoGid
  /\ row' = [row EXCEPT !.forced = TRUE]
  /\ UNCHANGED <<job, downloads, copies, worker, poll, removals, reached, late>>

-----------------------------------------------------------------------------
(* The worker, _migration_tick.                                             *)
Gone(S) == [g \in Gid |-> IF g \in S THEN NoDownload ELSE downloads[g]]
Slow == spare.slow > 0 /\ spare' = [spare EXCEPT !.slow = @ - 1]
Fails == spare.fail > 0 /\ spare' = [spare EXCEPT !.fail = @ - 1]

\* First the download goes; without an answer it is tried again.
Stop ==
  /\ worker.at = "idle" /\ job.gid # NoGid /\ job.st \in {"stopping", "queued", "moving"}
  /\ downloads' = Gone({job.gid})
  /\ \/ worker' = [AtRest EXCEPT !.at = "stopped"] /\ UNCHANGED spare
     \/ Slow /\ UNCHANGED worker
  /\ UNCHANGED <<job, row, copies, poll, removals, reached, late>>

Stopped ==
  /\ worker.at = "stopped" /\ worker' = AtRest
  /\ row' = [row EXCEPT !.gid = NoGid] /\ job' = [job EXCEPT !.gid = NoGid, !.st = "queued"]
  /\ UNCHANGED <<downloads, copies, poll, removals, reached, late, spare>>

BeginCopy ==
  /\ worker.at = "idle" /\ job.gid = NoGid /\ job.st \in {"stopping", "queued", "moving"} /\ job.rest # <<>>
  /\ worker' = [AtRest EXCEPT !.at = IF job.current = Head(job.rest) THEN "again" ELSE "copy",
                              !.part = Head(job.rest)]
  /\ job' = [job EXCEPT !.current = Head(job.rest), !.st = "moving"]
  /\ UNCHANGED <<row, downloads, copies, poll, removals, reached, late, spare>>

\* A target that is there is somebody else's, unless this file was under way.
Writes(c, at) == copies' = [copies EXCEPT !.dst[worker.part] = c] /\ worker' = [worker EXCEPT !.at = at]
CopyFile ==
  /\ LET there == copies.dst[worker.part]
         source == copies.src[worker.part]
     IN \/ /\ worker.at = "again" /\ Writes("none", "copy") /\ UNCHANGED spare
        \/ /\ worker.at = "copy" /\ there # "none" /\ Writes(there, "failed") /\ UNCHANGED spare
        \/ /\ worker.at = "copy" /\ there = "none" /\ source # "none" /\ Writes("torn", "copying") /\ UNCHANGED spare
        \/ /\ worker.at = "copying" /\ Writes(source, "copied") /\ UNCHANGED spare
        \/ /\ worker.at \in {"copy", "copying"} /\ Fails /\ Writes(there, "failed")
        \/ /\ worker.at = "copy" /\ there = "none" /\ source = "none" /\ Writes(there, "failed") /\ UNCHANGED spare
  /\ UNCHANGED <<job, row, downloads, poll, removals, reached, late>>

EndCopy ==
  /\ worker.at \in {"copied", "failed"} /\ worker' = AtRest
  /\ LET moved == Append(job.moved, worker.part)
     IN IF worker.at = "failed"
        THEN job' = [job EXCEPT !.st = "failed"] /\ UNCHANGED row
        ELSE IF Len(job.rest) > 1
        THEN /\ job' = [job EXCEPT !.st = "queued", !.rest = Tail(@), !.moved = moved, !.current = NoPart]
             /\ UNCHANGED row
        ELSE /\ job' = [job EXCEPT !.st = "verifying", !.phase = "verifying", !.rest = <<>>, !.moved = moved,
                                   !.current = NoPart, !.tries = 0, !.seen = NoGid, !.cleanup = moved]
             /\ row' = [row EXCEPT !.at = "dst", !.gid = NoGid, !.status = "queued"]
  /\ UNCHANGED <<downloads, copies, poll, removals, reached, late, spare>>

\* _migration_verify_tick: what aria2 says of the download at the destination.
\* The total is comparable and the hash is the same by the shape of the model.
Verify ==
  /\ worker.at = "idle" /\ job.st = "verifying" /\ row.gid # NoGid /\ job.seen = row.gid
  /\ LET kept == IF job.base = 0 THEN row.bytes > 0 ELSE row.bytes >= job.base
     IN IF kept THEN /\ job' = [job EXCEPT !.st = "cleanup", !.phase = "cleanup"]
                     /\ UNCHANGED <<row, worker>>
        ELSE IF job.tries < 2 THEN job' = [job EXCEPT !.tries = @ + 1] /\ UNCHANGED <<row, worker>>
        ELSE /\ job' = [job EXCEPT !.st = "failed", !.phase = "verifying", !.tries = 3]
             /\ row' = [row EXCEPT !.gid = NoGid, !.at = "src", !.status = "queued"]
             /\ worker' = [AtRest EXCEPT !.at = "remove", !.gid = row.gid]
  /\ UNCHANGED <<downloads, copies, poll, removals, reached, late, spare>>

RemoveFailed ==
  /\ worker.at = "remove" /\ worker' = AtRest
  /\ downloads' = Gone({worker.gid})
  /\ \/ UNCHANGED <<removals, spare>>
     \/ Slow /\ removals' = removals \cup {worker.gid}
  /\ UNCHANGED <<job, row, copies, poll, reached, late>>

\* _migration_cleanup_tick; an original that cannot be deleted is spare.
CleanUp ==
  /\ worker.at = "idle" /\ job.st = "cleanup" /\ job.cleanup # <<>>
  /\ \/ copies' = [copies EXCEPT !.src[Head(job.cleanup)] = "none"] /\ UNCHANGED spare
     \/ Fails /\ UNCHANGED copies
  /\ worker' = [AtRest EXCEPT !.at = "cleaned", !.part = Head(job.cleanup)]
  /\ UNCHANGED <<job, row, downloads, poll, removals, reached, late>>
Cleaned ==
  /\ worker.at = "cleaned" /\ worker' = AtRest
  /\ job' = [job EXCEPT !.cleanup = IF @ # <<>> /\ Head(@) = worker.part THEN Tail(@) ELSE @]
  /\ UNCHANGED <<row, downloads, copies, poll, removals, reached, late, spare>>
Finish ==
  /\ worker.at = "idle" /\ job.st = "cleanup" /\ job.cleanup = <<>>
  /\ job' = [job EXCEPT !.st = "complete", !.phase = "complete"]
  /\ UNCHANGED <<row, downloads, copies, worker, poll, removals, reached, late, spare>>

MigrationStep == Stop \/ Stopped \/ BeginCopy \/ CopyFile \/ EndCopy \/ Verify \/ RemoveFailed \/ CleanUp \/ Cleaned \/ Finish

-----------------------------------------------------------------------------
(* The tick, as far as this row is concerned.                               *)
PollBegins ==
  /\ poll.op = "none" /\ ~Blocks
  /\ \/ /\ row.status = "queued" /\ row.gid = NoGid
        /\ poll' = [NoPoll EXCEPT !.op = "add", !.at = row.at, !.forced = row.forced]
     \/ /\ row.gid # NoGid
        /\ poll' = [NoPoll EXCEPT !.op = "ask", !.gid = row.gid]
  /\ UNCHANGED <<job, row, downloads, copies, worker, removals, reached, late, spare>>

\* aria2 has one download of a torrent: another add of it gives the gid of
\* the one there is, wherever that one writes.
PollAdds ==
  /\ poll.op = "add"
  /\ IF Alive # {}
     THEN \E g \in Alive : poll' = [poll EXCEPT !.op = "added", !.gid = g, !.forced = FALSE] /\ UNCHANGED downloads
     ELSE \E g \in Gid \ ({row.gid, job.gid, job.seen, worker.gid} \cup removals) :
            /\ poll' = [poll EXCEPT !.op = "added", !.gid = g]
            /\ downloads' = [downloads EXCEPT ![g] = [st |-> IF poll.forced THEN "active" ELSE "paused",
                                                      at |-> poll.at]]
  /\ UNCHANGED <<job, row, copies, worker, removals, reached, late, spare>>

PollAsks ==
  /\ poll.op = "ask"
  /\ poll' = [poll EXCEPT !.op = IF poll.gid \in Alive THEN "told" ELSE "unknown", !.at = downloads[poll.gid].at,
                          !.bytes = IF poll.gid \in Alive THEN Progress(downloads[poll.gid].at) ELSE 0]
  /\ UNCHANGED <<job, row, downloads, copies, worker, removals, reached, late, spare>>

\* Phase C and D: the row as it is by now takes the answer; a download of a
\* row that migrates is not started.
PollApplies ==
  /\ poll.op \in {"added", "told", "unknown"}
  /\ row' = CASE poll.op = "added" -> [row EXCEPT !.gid = poll.gid, !.forced = FALSE,
                                                 !.status = IF poll.forced \/ ~Blocks THEN "downloading" ELSE @]
              [] poll.op = "told" -> [row EXCEPT !.bytes = poll.bytes]
              [] OTHER -> [row EXCEPT !.gid = NoGid, !.status = IF @ = "downloading" THEN "queued" ELSE @]
  /\ job' = IF poll.op = "told" /\ job.st = "verifying" /\ poll.gid = row.gid
            THEN [job EXCEPT !.seen = poll.gid] ELSE job
  /\ downloads' = [g \in Gid |-> IF g = poll.gid /\ poll.op = "added" /\ ~Blocks /\ g \in Alive
                                 THEN [downloads[g] EXCEPT !.st = "active"] ELSE downloads[g]]
  /\ poll' = NoPoll
  /\ UNCHANGED <<copies, worker, removals, reached, late, spare>>

\* Phase E: removals, and a download that the row does not know, which is
\* kept if it is further than the row and no migration runs.
PollTidies ==
  /\ poll.op = "none"
  /\ \/ /\ removals # {} /\ removals' = {} /\ downloads' = Gone(removals) /\ UNCHANGED row
     \/ \E g \in Alive \ ({row.gid} \cup removals) :
          IF Progress(downloads[g].at) > row.bytes /\ ~MigrationActive
          THEN /\ row' = [row EXCEPT !.gid = g, !.bytes = Progress(downloads[g].at)]
               /\ removals' = removals \cup ({row.gid} \ {NoGid}) /\ UNCHANGED downloads
          ELSE removals' = removals \cup {g} /\ UNCHANGED <<row, downloads>>
  /\ UNCHANGED <<job, copies, worker, poll, reached, late, spare>>

Poll == PollBegins \/ PollAdds \/ PollAsks \/ PollApplies \/ PollTidies

-----------------------------------------------------------------------------
(* The world.                                                               *)

\* An active download brings a file on where it writes, once.
Fetch(g, p) ==
  /\ downloads[g].st = "active" /\ spare.fetch > 0 /\ spare' = [spare EXCEPT !.fetch = @ - 1]
  /\ LET at == downloads[g].at
     IN /\ copies[at][p] = "some" /\ copies' = [copies EXCEPT ![at][p] = "more"]
        /\ reached' = [reached EXCEPT ![p] = 2]
  /\ UNCHANGED <<job, row, downloads, worker, poll, removals, late>>

\* Somebody else puts a file where one of the payload will go.
Intrusion(p) ==
  /\ spare.alien /\ spare' = [spare EXCEPT !.alien = FALSE] /\ copies.dst[p] = "none"
  /\ copies' = [copies EXCEPT !.dst[p] = "other"]
  /\ UNCHANGED <<job, row, downloads, worker, poll, removals, reached, late>>

Restart ==
  /\ spare.crash > 0 /\ spare' = [spare EXCEPT !.crash = @ - 1]
  /\ downloads' = [g \in Gid |-> NoDownload] /\ worker' = AtRest /\ poll' = NoPoll
  /\ row' = [row EXCEPT !.gid = NoGid, !.forced = FALSE, !.status = IF @ = "downloading" THEN "queued" ELSE @]
  /\ job' = IF job.st \notin {"stopping", "queued", "moving", "verifying"} THEN job
            ELSE [job EXCEPT !.gid = NoGid, !.st = IF @ = "verifying" THEN @ ELSE "queued"]
  /\ UNCHANGED <<copies, removals, reached, late>>

Next ==
  \/ Migrate \/ Retry \/ Cancel \/ ForceStart
  \/ MigrationStep \/ Poll \/ Restart
  \/ \E p \in Part : Intrusion(p) \/ \E g \in Gid : Fetch(g, p)

Spec == Init /\ [][Next]_vars

-----------------------------------------------------------------------------
\* What was downloaded is not lost by a migration: each file keeps, at one of
\* the two places, all that was ever on disk of it, through failures, restarts
\* and commands.  A migration that begins with an add or a removal under way
\* is left out: see the README.
ProgressIsKept ==
  late \/ \A p \in Part : Amount(copies.src[p]) >= reached[p] \/ Amount(copies.dst[p]) >= reached[p]

\* Not held by the code: a migration leaves alone what somebody else put at
\* the destination.  A retry takes a conflicting file for its own cut copy.
OthersStay == [][\A p \in Part : copies.dst[p] = "other" => copies'.dst[p] = "other"]_vars

\* Not held by the code: originals are deleted only when the download that
\* was compared is the one at the destination.  A tick's old add is taken for it.
VerifiedAtDestination ==
  [][job.st = "verifying" /\ job'.st = "cleanup" => downloads[row.gid].at = "dst"]_vars
=============================================================================
