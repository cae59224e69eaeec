---------------------------- MODULE PeerTransfer ----------------------------
(***************************************************************************)
(* One asset pulled from a peer: the _download_*_from_peer functions of    *)
(* app/transfer/peer_download.py with the signed inventories of            *)
(* transfer/signed_inventory.py and the transports that are tried in turn. *)
(*                                                                         *)
(* A file arrives in <name>.part and takes its name when it is complete.   *)
(* Jobs for one asset share that .part: it is opened for writing, which    *)
(* empties it, it is read and renamed by its path, and a job that has it   *)
(* open goes on writing to it whatever it is called by then.  So files are *)
(* inodes, and names refer to them.                                        *)
(*                                                                         *)
(* At the other side, the notifications about uploads: UploadBatches of    *)
(* app/transfer/transfer_batch.py, as _stream_file of web/handlers_peer.py *)
(* uses it.  The two sides share no state.                                 *)
(***************************************************************************)
EXTENDS Naturals, Sequences, FiniteSets, Functions

CONSTANTS
  AssetFile,        \* the names the asset's files may take
  Marker,           \* the file a folder is known by; the only one of another asset
  Manifest,         \* [version -> the files a folder has in it]
  SizeOf,           \* [version -> the number of chunks of its files]
  Inode,            \* ids of files, natural numbers
  TransferSetting,  \* what may happen, see TransferInit
  Peer,
  Upload,           \* requests of peers for a file
  Uploader          \* [Upload -> Peer]

VARIABLES
  transfer,   \* the setting, with what is left of its bounds
  offered,    \* the version that the peer has
  hold,       \* how the peer has it: "own", "lent" (a reference into a share), "building", "gone"
  bytes,      \* what is in each inode: the version of each chunk, 0 for a hole
  parts,      \* the .part of each name, 0 if there is none
  installed,  \* the file of each name, 0 if there is none
  listed,     \* the names with a row in config_backups, or linked in the gamelist
  fetches,    \* the jobs
  batches,     \* _open: the batch of each peer, [open, picked, outcomes, generation]
  timers,      \* timers that run, and callbacks of those that have fired
  sending,     \* where each upload is
  entries,     \* history: the finished entries, [of, picked, outcomes]
  opened       \* history: how many batches were opened
transferVars == <<transfer, offered, hold, bytes, parts, installed, listed, fetches>>

Release == DOMAIN SizeOf
Whole(v) == [i \in 1 .. SizeOf[v] |-> v]

\* build_fingerprint samples a file: its size, its start and its end.
Sampled(content) == IF content = <<>> THEN <<0>> ELSE <<Len(content), content[1], content[Len(content)]>>

\* How the kinds of assets are pulled: whether a signed inventory is asked
\* for, what counts as there already, whether a TLS failure is met with a
\* fresh certificate, what is done with a .part of the wrong size, how the
\* content is recognised, and what is recorded in the end.
Pull(signed, present, again, size, print, after) ==
  [signed |-> signed, present |-> present, again |-> again, size |-> size, print |-> print, after |-> after]
FolderPull == Pull(TRUE, "marker", FALSE, "none", "none", "none")
RomPull == Pull(TRUE, "content", TRUE, "drop", "sampled", "none")
BiosPull == Pull(TRUE, "name", TRUE, "drop", "full", "none")
MoviePull == Pull(FALSE, "name", TRUE, "keep", "sampled", "none")
MusicPull == Pull(FALSE, "name", FALSE, "drop", "sampled", "none")
BackupPull == Pull(FALSE, "nothing", TRUE, "drop", "none", "row")
SavePull == Pull(FALSE, "name", FALSE, "none", "sampled", "none")
ArtworkPull == Pull(FALSE, "nothing", FALSE, "none", "none", "link")

Policy ==
  CASE transfer.kind = "folder" -> FolderPull [] transfer.kind = "rom" -> RomPull
    [] transfer.kind = "bios" -> BiosPull [] transfer.kind = "movie" -> MoviePull
    [] transfer.kind = "music" -> MusicPull [] transfer.kind = "backup" -> BackupPull
    [] transfer.kind = "save" -> SavePull
    [] transfer.kind = "artwork" -> ArtworkPull
IsFolder == transfer.kind = "folder"

NoFetch == [st |-> "new", pc |-> "check", expect |-> 0, over |-> FALSE, route |-> 1, retried |-> FALSE, inv |-> 0,
            rest |-> {}, name |-> Marker, from |-> 0, open |-> 0, n |-> 0, cancel |-> FALSE]
Job == DOMAIN fetches
Running(j) == fetches[j].st = "running"
At(j, pc) == Running(j) /\ fetches[j].pc = pc
Go(j, f) == fetches' = [fetches EXCEPT ![j] = f]
SpendTransfer(what) == transfer[what] > 0 /\ transfer' = [transfer EXCEPT ![what] = @ - 1]

TransferInit ==
  /\ transfer \in TransferSetting /\ offered = 1 /\ hold = "own"
  /\ bytes = [i \in Inode |-> <<>>]
  /\ parts = [f \in AssetFile |-> 0] /\ installed = [f \in AssetFile |-> 0] /\ listed = {}
  /\ fetches = [j \in 1 .. transfer.jobs |-> NoFetch]

-----------------------------------------------------------------------------
(* Ends.  A failed attempt is made again over the next transport, unless   *)
(* the job is cancelled (TransportSelector.fetch).                         *)
Unlinked(f) == [parts EXCEPT ![f] = 0]
Reopened(f) == [f EXCEPT !.pc = "check", !.route = @ + 1, !.retried = FALSE, !.inv = 0, !.open = 0, !.n = 0]
Closed(f, outcome) == [NoFetch EXCEPT !.st = outcome]
Failed(j) ==
  LET f == fetches[j] IN
  Go(j, IF f.cancel THEN Closed(f, "cancelled")
        ELSE IF f.route < transfer.routes THEN Reopened(f) ELSE Closed(f, "failed"))

(* A job, from what _enqueue_local_asset was told of the asset.  Only the   *)
(* enqueue of a kind decides what the job knows: artwork comes without a   *)
(* size and a fingerprint, a backup with its size alone.                   *)
Enqueue(j, kinds, expect, over) ==
  /\ transfer.kind \in kinds
  /\ fetches[j].st = "new" /\ Cardinality({k \in Job : Running(k)}) < transfer.workers
  /\ Go(j, [NoFetch EXCEPT !.st = "running", !.expect = expect, !.over = over])
  /\ UNCHANGED <<transfer, offered, hold, bytes, parts, installed, listed>>

EnqueueRom(j, expect, over) == Enqueue(j, {"rom", "folder"}, expect, over)
EnqueueBios(j, expect, over) == Enqueue(j, {"bios"}, expect, over)
EnqueueArtwork(j, over) == Enqueue(j, {"artwork"}, 0, over)
EnqueueSave(j, expect, over) == Enqueue(j, {"save"}, expect, over)
EnqueueMovie(j, expect, over) == Enqueue(j, {"movie"}, expect, over)
EnqueueMusic(j, expect, over) == Enqueue(j, {"music"}, expect, over)
EnqueueConfigBackup(j, size, over) == Enqueue(j, {"backup"}, size, over)

Request(j) ==
  \E expect \in transfer.expect, over \in transfer.over :
    \/ EnqueueRom(j, expect, over) \/ EnqueueBios(j, expect, over)
    \/ expect = 0 /\ EnqueueArtwork(j, over)
    \/ EnqueueSave(j, expect, over) \/ EnqueueMovie(j, expect, over)
    \/ EnqueueMusic(j, expect, over) \/ EnqueueConfigBackup(j, expect, over)

-----------------------------------------------------------------------------
(* The peer's side: the version a request is answered with, 0 for 404.     *)
(* A system or a BIOS file that is only a reference into another Drone's   *)
(* share is not passed on, neither signed nor sent, and a backup that is   *)
(* still being built is not there yet.                                     *)
OwnOnly == IF hold = "own" THEN offered ELSE 0
InItsRoot == IF hold = "gone" THEN 0 ELSE offered
PeerInventory == OwnOnly
PeerRom == OwnOnly
PeerBios == OwnOnly
PeerArtwork == OwnOnly
PeerMovie == InItsRoot
PeerMusic == InItsRoot
PeerSave == InItsRoot
PeerConfigBackup == IF hold = "building" THEN 0 ELSE InItsRoot

Answered ==
  CASE transfer.kind \in {"rom", "folder"} -> PeerRom [] transfer.kind = "bios" -> PeerBios
    [] transfer.kind = "artwork" -> PeerArtwork [] transfer.kind = "movie" -> PeerMovie
    [] transfer.kind = "music" -> PeerMusic [] transfer.kind = "save" -> PeerSave
    [] transfer.kind = "backup" -> PeerConfigBackup

\* _stream_file: as many chunks as the file had, of the file it opened or of
\* what that was overwritten with meanwhile.
Streams(f) == IF f.n < SizeOf[f.from] THEN {v \in {f.from, offered} : f.n < SizeOf[v]} ELSE {}

\* What counts as there already.  A ROM is looked for by its content among
\* all files of its system, those that only arrive included.
Looks(i, v) == i # 0 /\ Sampled(bytes[i]) = Sampled(Whole(v))
Present(f) ==
  CASE Policy.present = "marker" -> installed[Marker] # 0 /\ (f.expect = 0 \/ Looks(installed[Marker], f.expect))
    [] Policy.present = "content" -> installed[Marker] # 0 \/ (f.expect # 0 /\ Looks(parts[Marker], f.expect))
    [] Policy.present = "name" -> installed[Marker] # 0
    [] OTHER -> FALSE

\* Backups and artwork take a name that nothing has (collision_safe_target).
NamesFor(f) == IF Policy.present = "nothing" /\ ~f.over THEN {n \in AssetFile : installed[n] = 0} ELSE {Marker}

Check(j) ==
  LET f == fetches[j] IN
  /\ At(j, "check")
  /\ IF ~f.over /\ Present(f)
     THEN Go(j, Closed(f, "skipped"))
     ELSE \E name \in NamesFor(f) :
            Go(j, [f EXCEPT !.pc = IF Policy.signed THEN "inventory" ELSE "open", !.rest = {name}, !.name = name])
  /\ UNCHANGED <<transfer, offered, hold, bytes, parts, installed, listed>>

\* Mutant: the files of a folder come in any order.
AnyFile(rest) == rest

\* The marker comes last.
NextFile(rest) == IF rest = {Marker} THEN rest ELSE rest \ {Marker}

\* fetch_inventory: the peer reads and signs what it has now.
FetchInventory(j) ==
  LET f == fetches[j]
      rest == IF IsFolder THEN Manifest[PeerInventory] ELSE f.rest
  IN
  /\ At(j, "inventory") /\ PeerInventory # 0
  /\ \E name \in NextFile(rest) : Go(j, [f EXCEPT !.pc = "open", !.inv = PeerInventory, !.rest = rest, !.name = name])
  /\ UNCHANGED <<transfer, offered, hold, bytes, parts, installed, listed>>

Unused == {i \in Inode : i \notin Range(parts) \cup Range(installed) \cup {fetches[j].open : j \in Job}}

\* The response is there before the .part is opened, and emptied.  Nothing in
\* the code keeps two jobs off one .part; shared, a bound, says whether two
\* get there.
Filling(name) == {j \in Job : fetches[j].name = name /\ \E pc \in {"read", "verify", "install"} : At(j, pc)}
Open(j) ==
  LET f == fetches[j] IN
  /\ At(j, "open") /\ Answered # 0 /\ (transfer.shared \/ Filling(f.name) = {})
  /\ LET i == IF parts[f.name] # 0 THEN parts[f.name] ELSE CHOOSE k \in Unused : TRUE IN
       /\ parts' = [parts EXCEPT ![f.name] = i] /\ bytes' = [bytes EXCEPT ![i] = <<>>]
       /\ Go(j, [f EXCEPT !.pc = "read", !.from = Answered, !.open = i, !.n = 0])
  /\ UNCHANGED <<transfer, offered, hold, installed, listed>>

\* A job writes at its own place; what lies before it may be a hole.
Written(content, n, v) ==
  [i \in 1 .. (IF Len(content) > n THEN Len(content) ELSE n) |->
     IF i = n THEN v ELSE IF i <= Len(content) THEN content[i] ELSE 0]

Read(j) ==
  LET f == fetches[j] IN
  /\ At(j, "read") /\ ~f.cancel
  /\ \E v \in Streams(f) :
       IF f.inv # 0 /\ f.n + 1 > SizeOf[f.inv]
       THEN parts' = Unlinked(f.name) /\ Failed(j) /\ UNCHANGED bytes
       ELSE /\ bytes' = [bytes EXCEPT ![f.open] = Written(@, f.n + 1, v)]
            /\ Go(j, [f EXCEPT !.n = @ + 1]) /\ UNCHANGED parts
  /\ UNCHANGED <<transfer, offered, hold, installed, listed>>

\* The response ends, perhaps too early.
EndOfFile(j) ==
  LET f == fetches[j] IN
  /\ At(j, "read") /\ ~f.cancel
  /\ \/ f.n >= SizeOf[f.from] /\ UNCHANGED transfer
     \/ f.n < SizeOf[f.from] /\ SpendTransfer("faults")
  /\ Go(j, [f EXCEPT !.pc = "verify", !.open = 0])
  /\ UNCHANGED <<offered, hold, bytes, parts, installed, listed>>

\* The connection breaks.  A TLS failure is tried once more with a fresh
\* certificate.  Some handlers leave the .part that is there.
Leaves(f, tls) == Policy.again /\ ~tls /\ (f.pc = "open" \/ (f.retried /\ ~Policy.signed))
Break(j, tls) ==
  LET f == fetches[j] IN
  /\ Running(j) /\ f.pc \in {"inventory", "open", "read"} /\ SpendTransfer("faults")
  /\ parts' = IF f.pc = "inventory" \/ Leaves(f, tls) THEN parts ELSE Unlinked(f.name)
  /\ IF tls /\ Policy.again /\ ~f.retried /\ f.pc # "inventory"
     THEN Go(j, [f EXCEPT !.pc = "open", !.retried = TRUE, !.open = 0])
     ELSE Failed(j)
  /\ UNCHANGED <<offered, hold, bytes, installed, listed>>

\* The peer has no such asset, or does not pass it on: the next transport.
NotFound(j) ==
  LET f == fetches[j] IN
  /\ \/ At(j, "inventory") /\ PeerInventory = 0 /\ UNCHANGED parts
     \/ At(j, "open") /\ Answered = 0 /\ parts' = IF Leaves(f, FALSE) THEN parts ELSE Unlinked(f.name)
  /\ Failed(j)
  /\ UNCHANGED <<transfer, offered, hold, bytes, installed, listed>>

\* cancel sets an event, which is looked at before every chunk.
Cancel(j) ==
  /\ Running(j) /\ ~fetches[j].cancel /\ SpendTransfer("cancels")
  /\ Go(j, [fetches[j] EXCEPT !.cancel = TRUE])
  /\ UNCHANGED <<offered, hold, bytes, parts, installed, listed>>

Cancelled(j) ==
  LET f == fetches[j] IN
  /\ At(j, "read") /\ f.cancel
  /\ parts' = Unlinked(f.name) /\ Go(j, Closed(f, "cancelled"))
  /\ UNCHANGED <<transfer, offered, hold, bytes, installed, listed>>

\* verify_file and the checks against the catalogue of the requester, all of
\* the .part as it is now.  The size is what this job has written.
Recognised(content, v) ==
  CASE Policy.print = "sampled" -> Sampled(content) = Sampled(Whole(v))
    [] Policy.print = "full" -> content = Whole(v)
    [] OTHER -> TRUE

Genuine(f) == Policy.signed => parts[f.name] # 0 /\ bytes[parts[f.name]] = Whole(f.inv)
SizeIsRight(f) == Policy.size = "none" \/ f.expect = 0 \/ f.n = SizeOf[f.expect]
ContentIsRight(f) == parts[f.name] # 0 /\ (f.expect = 0 \/ Recognised(bytes[parts[f.name]], f.expect))

Verify(j) ==
  LET f == fetches[j]
      kept == Genuine(f) /\ ~SizeIsRight(f) /\ Policy.size = "keep"
  IN
  /\ At(j, "verify")
  /\ IF Genuine(f) /\ SizeIsRight(f) /\ ContentIsRight(f)
     THEN Go(j, [f EXCEPT !.pc = "install"]) /\ UNCHANGED parts
     ELSE Failed(j) /\ parts' = IF kept THEN parts ELSE Unlinked(f.name)
  /\ UNCHANGED <<transfer, offered, hold, bytes, installed, listed>>

Install(j) ==
  LET f == fetches[j]
      rest == f.rest \ {f.name}
  IN
  /\ At(j, "install")
  /\ IF parts[f.name] = 0
     THEN Failed(j) /\ UNCHANGED <<parts, installed>>
     ELSE /\ installed' = [installed EXCEPT ![f.name] = parts[f.name]] /\ parts' = Unlinked(f.name)
          /\ IF rest = {} THEN Go(j, [f EXCEPT !.pc = "finish"])
             ELSE \E name \in NextFile(rest) :
                    Go(j, [f EXCEPT !.pc = "open", !.rest = rest, !.name = name, !.retried = FALSE])
  /\ UNCHANGED <<transfer, offered, hold, bytes, listed>>

\* A folder of the wrong size fails as it is; one whose marker is not the one
\* expected loses it.  A link in the gamelist may fail.
Finish(j) ==
  LET f == fetches[j]
      sizeDiffers == IsFolder /\ f.expect # 0 /\ SizeOf[f.expect] # SizeOf[f.inv]
      printDiffers == IsFolder /\ f.expect # 0 /\ ~Looks(installed[Marker], f.expect)
  IN
  /\ At(j, "finish")
  /\ \/ sizeDiffers /\ transfer.sized /\ Failed(j) /\ UNCHANGED <<installed, listed>>
     \/ /\ ~(sizeDiffers /\ transfer.sized) /\ printDiffers
        /\ installed' = [installed EXCEPT ![Marker] = 0] /\ Failed(j) /\ UNCHANGED listed
     \/ /\ ~(sizeDiffers /\ transfer.sized) /\ ~printDiffers
        /\ Go(j, Closed(f, "completed")) /\ UNCHANGED installed
        /\ \/ Policy.after \in {"row", "link"} /\ listed' = listed \cup {f.name}
           \/ Policy.after \in {"none", "link"} /\ UNCHANGED listed
  /\ UNCHANGED <<transfer, offered, hold, bytes, parts>>

\* A restart queues what ran again, from its start; the .parts stay.
TransferCrash ==
  /\ SpendTransfer("crashes")
  /\ fetches' = [j \in Job |->
       IF Running(j) THEN [NoFetch EXCEPT !.st = "running", !.expect = fetches[j].expect, !.over = fetches[j].over]
       ELSE fetches[j]]
  /\ UNCHANGED <<offered, hold, bytes, parts, installed, listed>>

\* The peer's asset becomes another version.
Upgrade ==
  /\ SpendTransfer("upgrades") /\ offered' \in Release \ {offered}
  /\ UNCHANGED <<hold, bytes, parts, installed, listed, fetches>>

\* The peer's operator deletes it, mounts a share over it, builds it anew.
Withdraw ==
  /\ SpendTransfer("upgrades") /\ hold' \in transfer.holds \ {hold}
  /\ UNCHANGED <<offered, bytes, parts, installed, listed, fetches>>

TransferNext ==
  \/ \E j \in Job :
       \/ Request(j) \/ NotFound(j) \/ Check(j) \/ FetchInventory(j) \/ Open(j) \/ Read(j) \/ EndOfFile(j)
       \/ \E tls \in BOOLEAN : Break(j, tls)
       \/ Cancel(j) \/ Cancelled(j) \/ Verify(j) \/ Install(j) \/ Finish(j)
  \/ TransferCrash \/ Upgrade \/ Withdraw

TransferSpec == TransferInit /\ [][TransferNext]_transferVars

-----------------------------------------------------------------------------
\* What a signed asset shows under its name is whole, whatever cut its jobs
\* off and however two of them take turns at its files, and a folder that shows
\* its marker has all its files: the check that skips a folder because of its
\* marker never sees half a folder.  Not so for two jobs that fill one .part
\* (bound: shared): the one that is done renames it while the other writes on.
PresentMeansWhole ==
  Policy.signed =>
    /\ \A f \in AssetFile : installed[f] # 0 => \E v \in Release : bytes[installed[f]] = Whole(v)
    /\ IsFolder /\ installed[Marker] # 0 =>
         \A f \in Manifest[bytes[installed[Marker]][1]] : installed[f] # 0

\* Not held by the code: a folder with a marker is of one version.  A folder
\* that is pulled over an older one, and cut off, keeps the older marker.
FolderIsOfOneVersion ==
  IsFolder /\ installed[Marker] # 0 /\ ~(\E j \in Job : Running(j)) =>
    \A f \in Manifest[bytes[installed[Marker]][1]] : bytes[installed[f]] = bytes[installed[Marker]]

\* Not held by the code: a backup that was pulled has a row.  A crash between
\* the rename and the row leaves one that has none.
BackupsAreListed ==
  transfer.kind = "backup" /\ ~(\E j \in Job : Running(j)) => \A f \in AssetFile : installed[f] # 0 => f \in listed

\* Not held by the code: a job says "already exists" of what is there.  A ROM
\* whose .part was complete when the Drone stopped is found to exist, as that
\* .part, by every later job.
SkippedIsThere ==
  [][\A j \in Job : fetches'[j].st = "skipped" /\ Running(j) => installed[Marker] # 0]_transferVars

-----------------------------------------------------------------------------
(* The uploads.  Handlers of a peer's requests begin and finish them; when *)
(* none is in flight a timer is started, and if the peer stays quiet its   *)
(* callback closes the batch and tells about it.  A timer that has fired   *)
(* can no longer be cancelled: its callback may wait for the lock while    *)
(* uploads begin and finish.                                               *)

uploadVars == <<batches, timers, sending, entries, opened>>

NoUploads == [open |-> FALSE, id |-> 0, picked |-> {}, outcomes |-> {}, generation |-> 0]
OpenCount(b) == Cardinality(b.picked \ b.outcomes)

\* begin: a running timer is cancelled.
Waived(p) == {t \in timers : t.of # p \/ t.fired}
BeginUpload(u) ==
  LET p == Uploader[u]
      b == IF batches[p].open THEN batches[p] ELSE [NoUploads EXCEPT !.open = TRUE, !.id = opened + 1]
  IN /\ sending[u] = "asked" /\ sending' = [sending EXCEPT ![u] = "sending"]
     /\ opened' = IF batches[p].open THEN opened ELSE opened + 1
     /\ batches' = [batches EXCEPT ![p] = [b EXCEPT !.generation = @ + 1, !.picked = @ \cup {u}]]
     /\ timers' = Waived(p)
     /\ UNCHANGED entries

\* finish, for an upload that went through or failed; an outcome counts in the
\* batch that is open by then, once.
FinishUpload(u) ==
  LET p == Uploader[u]
      b == [batches[p] EXCEPT !.outcomes = @ \cup {u}]
  IN /\ sending[u] = "sending" /\ sending' = [sending EXCEPT ![u] = "over"]
     /\ IF ~batches[p].open THEN UNCHANGED <<batches, timers>>
        ELSE IF OpenCount(b) > 0 THEN batches' = [batches EXCEPT ![p] = b] /\ UNCHANGED timers
        ELSE /\ batches' = [batches EXCEPT ![p] = [b EXCEPT !.generation = @ + 1]]
             /\ timers' = timers \cup {[of |-> p, id |-> b.id, generation |-> b.generation + 1, fired |-> FALSE]}
     /\ UNCHANGED <<entries, opened>>

Quiet ==
  /\ \E t \in timers : ~t.fired /\ timers' = (timers \ {t}) \cup {[t EXCEPT !.fired = TRUE]}
  /\ UNCHANGED <<batches, sending, entries, opened>>

\* Mutant: any callback of the batch closes it.
ClosesLate(t) == batches[t.of].open /\ batches[t.of].id = t.id

\* _close.
Closes(t) ==
  LET b == batches[t.of]
  IN b.open /\ b.id = t.id /\ b.generation = t.generation /\ OpenCount(b) = 0
Close ==
  /\ \E t \in timers :
       /\ t.fired /\ timers' = timers \ {t}
       /\ IF Closes(t)
          THEN /\ entries' = entries \cup {[of |-> t.of, id |-> t.id, picked |-> batches[t.of].picked,
                                           outcomes |-> batches[t.of].outcomes]}
               /\ batches' = [batches EXCEPT ![t.of] = NoUploads]
          ELSE UNCHANGED <<entries, batches>>
  /\ UNCHANGED <<sending, opened>>

UploadInit ==
  /\ batches = [p \in Peer |-> NoUploads] /\ timers = {} /\ entries = {} /\ opened = 0
  /\ sending = [u \in Upload |-> "asked"]

UploadNext == (\E u \in Upload : BeginUpload(u) \/ FinishUpload(u)) \/ Quiet \/ Close

UploadSpec == UploadInit /\ [][UploadNext]_uploadVars

-----------------------------------------------------------------------------
\* Every upload that is over is counted once, in a finished entry or in the
\* batch that is still open, and no entry is finished over the head of an
\* upload in flight.
EveryUploadCountsOnce ==
  /\ \A u \in Upload : sending[u] = "over" =>
       Cardinality({e \in entries : u \in e.outcomes})
         + Cardinality({p \in Peer : batches[p].open /\ u \in batches[p].outcomes}) = 1
  /\ \A e \in entries : e.outcomes = e.picked
=============================================================================
