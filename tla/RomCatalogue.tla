---------------------------- MODULE RomCatalogue ----------------------------
(***************************************************************************)
(* The catalogue of ROMs: one poll (_poll_rom_metadata_once) scans the     *)
(* gamelist.xml of every system and then hashes what has no fingerprint,   *)
(* in app/roms/rom_scanner.py, over the tables of                          *)
(* app/storage/rom_metadata_store.py.                                      *)
(*                                                                         *)
(* A system whose gamelist.xml has the MD5 that was stored with it is not  *)
(* looked at again: its rows are carried over.  So a stored MD5 promises   *)
(* that the rows of its system are all there, whatever is deleted, purged  *)
(* or cut off while a poll works on what it has read at its start.         *)
(*                                                                         *)
(* Between two polls app/roms/rom_fs_watcher.py wakes the poller when      *)
(* something changes in a directory that inotify watches; it has to add    *)
(* every directory that comes up by itself.                                *)
(***************************************************************************)
EXTENDS Naturals, FiniteSets, Sequences

CONSTANTS
  System,        \* the systems, in no order
  Game,          \* the ROMs
  SystemOf,      \* [Game -> System]
  NoGame,
  Folders,       \* how many directories there are below the root of the ROMs
  CatalogueBounds  \* how often what happens, see CatalogueInit

VARIABLES
  shelf,       \* gamelist.xml of each system: its edition, for the MD5, and its games
  romFiles,    \* size and mtime of each ROM on disk, or NoFile
  romRows,     \* rom_cache_entries: size, mtime and whether it has a fingerprint, or NoRom
  gate,        \* asset_gamelists: the edition stored for each system, 0 if none
  scanState,   \* cache_state: scan_in_progress, last_full_scan_at, rom_classifier_version is current
  preserved,   \* preserved_rom_fingerprint: the size and mtime of ROMs with a fingerprint
  romPoll,        \* the poll that runs
  remover,     \* a request in delete_rom
  folders,     \* the path of each directory, and whether something changed since the last wake
  watcher,     \* RomFilesystemWatcher: inotify's watches and events, and _wd_to_path
  catalogueLeft
catalogue == <<shelf, romFiles, romRows, gate, scanState, preserved, romPoll, remover>>
catalogueVars == <<catalogue, folders, watcher, catalogueLeft>>
tables == <<romRows, gate, scanState, preserved>>

NoFile == [size |-> 0, mtime |-> 0]
RomRow(file, hashed) == [size |-> file.size, mtime |-> file.mtime, hashed |-> hashed]
NoRom == RomRow(NoFile, FALSE)
NoFiles == [g \in Game |-> NoFile]
Rows(s, rows) == {g \in Game : SystemOf[g] = s /\ rows[g] # NoRom}
NoRows == [g \in Game |-> NoRom]
NoGate == [s \in System |-> 0]

\* What a poll has in hand: the rows and MD5s it read, what it wrote since,
\* what it will write; the systems and games it still has to look at.
NoPoll == [pc |-> "idle", existing |-> NoRows, gates |-> NoGate, kept |-> NoFiles, stale |-> FALSE,
           resuming |-> FALSE, written |-> NoRows, next |-> NoRows, seen |-> NoGate, todo |-> {}, system |-> 0,
           edition |-> 0, games |-> {}, listing |-> NoFiles, new |-> FALSE, any |-> FALSE, state |-> <<>>]

\* A directory has its watch descriptor for good; its path is the names down
\* from the root.
Folder == 0 .. Folders
Root == 0
NoPath == <<0>>

CatalogueInit ==
  /\ catalogueLeft \in CatalogueBounds
  /\ shelf = [s \in System |-> [edition |-> 1, games |-> {g \in Game : SystemOf[g] = s}]]
  /\ romFiles = [g \in Game |-> [size |-> 1, mtime |-> 1]] /\ romRows = NoRows /\ gate = NoGate
  /\ scanState = [scanning |-> FALSE, full |-> FALSE, current |-> FALSE]
  /\ preserved = NoFiles /\ romPoll = NoPoll
  /\ remover = [pc |-> "idle", game |-> NoGame]
  /\ folders = [path |-> [d \in Folder |-> IF d = Root THEN <<>> ELSE NoPath], unseen |-> FALSE]
  /\ watcher = [on |-> FALSE, armed |-> {}, base |-> [d \in Folder |-> NoPath], events |-> <<>>, pending |-> FALSE]

Unwatched == UNCHANGED <<folders, watcher>>
Count(what) == catalogueLeft[what] > 0 /\ catalogueLeft' = [catalogueLeft EXCEPT ![what] = @ - 1]
Now(p) == romPoll' = p
Persist(rows, stamps, state) == romRows' = rows /\ gate' = stamps /\ scanState' = state

-----------------------------------------------------------------------------
(* The scan.                                                                *)
LoadCache ==
  /\ romPoll.pc = "idle" /\ Count("polls")
  /\ Now([NoPoll EXCEPT !.pc = "scan", !.existing = romRows, !.gates = gate, !.kept = preserved, !.written = romRows,
                        !.stale = ~scanState.current, !.resuming = scanState.scanning, !.todo = System])
  /\ UNCHANGED <<shelf, romFiles, tables, remover>>

\* The MD5 is of the bytes that are read here.  A system that cannot be read
\* is passed over, and so is one without a gamelist.xml.
CarriesOver(p, s) == ~p.stale /\ p.gates[s] = shelf[s].edition /\ Rows(s, p.existing) # {}
ReadGamelist(s) ==
  LET rest == [romPoll EXCEPT !.todo = @ \ {s}] IN
  /\ romPoll.pc = "scan" /\ s \in romPoll.todo
  /\ IF CarriesOver(romPoll, s)
     THEN Now([rest EXCEPT !.seen[s] = shelf[s].edition,
                           !.next = [g \in Game |-> IF SystemOf[g] = s THEN romPoll.existing[g] ELSE @[g]]])
     ELSE Now([rest EXCEPT !.pc = "list", !.system = s, !.edition = shelf[s].edition])
  /\ UNCHANGED <<shelf, romFiles, tables, remover, catalogueLeft>>

PassOver(s) ==
  /\ romPoll.pc = "scan" /\ s \in romPoll.todo /\ Count("unreadable")
  /\ Now([romPoll EXCEPT !.todo = @ \ {s}])
  /\ UNCHANGED <<shelf, romFiles, tables, remover>>

\* list_gamelist_rom_metadata reads the file again, and stats its ROMs.
ListGames ==
  LET games == {g \in shelf[romPoll.system].games : romFiles[g] # NoFile} IN
  /\ romPoll.pc = "list"
  /\ Now([romPoll EXCEPT !.pc = "index", !.games = games, !.listing = [g \in Game |-> IF g \in games THEN romFiles[g] ELSE NoFile]])
  /\ UNCHANGED <<shelf, romFiles, tables, remover, catalogueLeft>>

Reuses(p, g) ==
  \/ p.existing[g].hashed /\ p.existing[g].size = p.listing[g].size
  \/ p.kept[g] = p.listing[g]

IndexGame(g) ==
  /\ romPoll.pc = "index" /\ g \in romPoll.games
  /\ Now([romPoll EXCEPT !.games = @ \ {g}, !.any = TRUE, !.new = @ \/ ~Reuses(romPoll, g),
                      !.next[g] = RomRow(romPoll.listing[g], Reuses(romPoll, g))])
  /\ UNCHANGED <<shelf, romFiles, tables, remover, catalogueLeft>>

\* Mutant: the MD5 is noted before the games are in.
SeenEarly(p) == IF p.pc = "index" THEN [p.seen EXCEPT ![p.system] = p.edition] ELSE p.seen
Seen(p) == p.seen

SystemIndexed ==
  /\ romPoll.pc = "index" /\ romPoll.games = {}
  /\ Now([romPoll EXCEPT !.pc = "scan", !.seen[romPoll.system] = romPoll.edition, !.system = 0, !.edition = 0,
                      !.listing = NoFiles])
  /\ UNCHANGED <<shelf, romFiles, tables, remover, catalogueLeft>>

\* _persist_rom_metadata_cache, a transaction: the rows that differ from what
\* the poll knows to be written, and the MD5s it has.
Differing(p) == {g \in Game : p.next[g] # NoRom /\ p.written[g] # p.next[g]}
Upserted(p) == [g \in Game |-> IF g \in Differing(p) THEN p.next[g] ELSE romRows[g]]
Checkpointed(p) == [p EXCEPT !.written = [g \in Game |-> IF g \in Differing(p) THEN p.next[g] ELSE @[g]]]

CheckpointScan ==
  /\ romPoll.pc \in {"index", "scan"} /\ romPoll.any /\ (romPoll.new \/ romPoll.resuming)
  /\ Persist(Upserted(romPoll), Seen(romPoll), [scanState EXCEPT !.scanning = TRUE])
  /\ Now(Checkpointed(romPoll))
  /\ UNCHANGED <<shelf, romFiles, preserved, remover, catalogueLeft>>

\* Rows of games that are not there any more go with the last write.
FinishScan ==
  /\ romPoll.pc = "scan" /\ romPoll.todo = {}
  /\ Persist([g \in Game |-> IF romPoll.next[g] = NoRom /\ romPoll.written[g] # NoRom THEN NoRom ELSE Upserted(romPoll)[g]],
             Seen(romPoll), [scanning |-> FALSE, full |-> TRUE, current |-> TRUE])
  /\ Now([NoPoll EXCEPT !.pc = "scanned"])
  /\ UNCHANGED <<shelf, romFiles, preserved, remover, catalogueLeft>>

-----------------------------------------------------------------------------
(* The hashing, _hash_rom_metadata_batches: what it has read at its start   *)
(* is what it writes back.                                                  *)
LoadPending ==
  /\ romPoll.pc = "scanned"
  /\ LET pending == {g \in Game : romRows[g] # NoRom /\ ~romRows[g].hashed}
     IN Now(IF pending = {} THEN NoPoll
            ELSE [NoPoll EXCEPT !.pc = "hash", !.existing = romRows, !.gates = gate, !.games = pending, !.state = scanState])
  /\ UNCHANGED <<shelf, romFiles, tables, remover, catalogueLeft>>

HashGame(g) ==
  /\ romPoll.pc = "hash" /\ g \in romPoll.games
  /\ Now([romPoll EXCEPT !.games = @ \ {g},
                      !.next[g] = IF romFiles[g] = NoFile THEN @ ELSE [romPoll.existing[g] EXCEPT !.hashed = TRUE]])
  /\ UNCHANGED <<shelf, romFiles, tables, remover, catalogueLeft>>

\* A checkpoint, a full batch, or the end, perhaps for lack of time.
WriteHashes ==
  /\ romPoll.pc = "hash" /\ romPoll.next # NoRows
  /\ Persist([g \in Game |-> IF romPoll.next[g] # NoRom THEN romPoll.next[g] ELSE romRows[g]], romPoll.gates, romPoll.state)
  /\ Now([romPoll EXCEPT !.next = NoRows])
  /\ UNCHANGED <<shelf, romFiles, preserved, remover, catalogueLeft>>

EndPoll ==
  /\ romPoll.pc = "hash" /\ romPoll.next = NoRows
  /\ Now(NoPoll)
  /\ UNCHANGED <<shelf, romFiles, tables, remover, catalogueLeft>>

-----------------------------------------------------------------------------
(* Requests, and what else changes the files.                               *)

\* delete_rom: the row is looked up, the file unlinked, its entry taken out
\* of gamelist.xml, and the row deleted.
Delete(g) ==
  /\ remover.pc = "idle" /\ romRows[g] # NoRom /\ Count("deletes")
  /\ remover' = [pc |-> "entry", game |-> g]
  /\ romFiles' = [romFiles EXCEPT ![g] = NoFile]
  /\ UNCHANGED <<shelf, tables, romPoll>>

RemoveEntry ==
  LET s == SystemOf[remover.game] IN
  /\ remover.pc = "entry" /\ remover' = [remover EXCEPT !.pc = "row"]
  /\ shelf' = IF remover.game \in shelf[s].games
              THEN [shelf EXCEPT ![s] = [edition |-> @.edition + 1, games |-> @.games \ {remover.game}]] ELSE shelf
  /\ UNCHANGED <<romFiles, tables, romPoll, catalogueLeft>>

DeleteRow ==
  /\ remover.pc = "row" /\ remover' = [pc |-> "idle", game |-> NoGame]
  /\ romRows' = [romRows EXCEPT ![remover.game] = NoRom]
  /\ UNCHANGED <<shelf, romFiles, gate, scanState, preserved, romPoll, catalogueLeft>>

\* _purge_asset_cache_keep_fingerprint, which asks nobody whether a poll runs.
Purge ==
  /\ Count("purges") /\ (catalogueLeft.anytime \/ romPoll.pc = "idle")
  /\ preserved' = [g \in Game |-> IF romRows[g].hashed THEN [size |-> romRows[g].size, mtime |-> romRows[g].mtime] ELSE NoFile]
  /\ romRows' = NoRows /\ gate' = NoGate
  /\ scanState' = [scanState EXCEPT !.scanning = FALSE, !.full = FALSE]
  /\ UNCHANGED <<shelf, romFiles, romPoll, remover>>

\* A ROM is installed, anew or over an older one, and listed.
InstallRom(g, size) ==
  /\ remover.game # g /\ Count("installs")
  /\ romFiles' = [romFiles EXCEPT ![g] = [size |-> size, mtime |-> shelf[SystemOf[g]].edition + 1]]
  /\ shelf' = [shelf EXCEPT ![SystemOf[g]] = [edition |-> @.edition + 1, games |-> @.games \cup {g}]]
  /\ UNCHANGED <<tables, romPoll, remover>>

\* A game is taken out of gamelist.xml by somebody else, EmulationStation say.
Unlist(g) ==
  LET s == SystemOf[g] IN
  /\ g \in shelf[s].games /\ Count("unlists")
  /\ shelf' = [shelf EXCEPT ![s] = [edition |-> @.edition + 1, games |-> @.games \ {g}]]
  /\ UNCHANGED <<romFiles, tables, romPoll, remover>>

CatalogueCrash ==
  /\ Count("crashes") /\ (romPoll.pc # "idle" \/ remover.pc # "idle")
  /\ romPoll' = NoPoll /\ remover' = [pc |-> "idle", game |-> NoGame]
  /\ UNCHANGED <<shelf, romFiles, tables>>

-----------------------------------------------------------------------------
(* The watcher.                                                             *)
Exists(d) == folders.path[d] # NoPath
Under(p) == {d \in Folder : Exists(d) /\ Len(folders.path[d]) >= Len(p) /\ SubSeq(folders.path[d], 1, Len(p)) = p}

\* _add_watch_tree: inotify takes as many as the kernel has room for.
\* Mutant: the directory alone is watched, without what came with it.
JustIt(p) == {d \in Under(p) : folders.path[d] = p}
InTree(p) == Under(p)
Arms(ds) ==
  IF Cardinality(watcher.armed \cup ds) <= catalogueLeft.watches THEN ds
  ELSE CHOOSE few \in SUBSET ds : Cardinality(watcher.armed \cup few) = catalogueLeft.watches
AddTree(p) ==
  LET ds == Arms(InTree(p)) IN
  [watcher EXCEPT !.armed = @ \cup ds, !.base = [d \in Folder |-> IF d \in ds THEN folders.path[d] ELSE @[d]]]

StartWatcher ==
  /\ ~watcher.on /\ catalogueLeft.changes > 0
  /\ watcher' = [AddTree(<<>>) EXCEPT !.on = TRUE]
  /\ UNCHANGED <<catalogue, folders, catalogueLeft>>

\* What the kernel reports of a change in ds, for those it watches, unless its
\* queue is full.
Event(kind, d, name) == [kind |-> kind, of |-> d, name |-> name]
Reported(es) == SelectSeq(es, LAMBDA e : e.of \in watcher.armed)
Changes(paths, es, gone) ==
  /\ Count("changes")
  /\ folders' = [path |-> paths, unseen |-> watcher.on]
  /\ watcher' = [watcher EXCEPT !.events = @ \o Reported(es), !.armed = @ \ gone]
  /\ UNCHANGED catalogue

Overflow ==
  /\ watcher.events # <<>> /\ Count("overflows")
  /\ watcher' = [watcher EXCEPT !.events = <<Event("overflow", Root, 0)>>]
  /\ UNCHANGED <<catalogue, folders>>

Vacant(p) == \A d \in Folder : folders.path[d] # p
MakeFolder(d, in, name) ==
  LET p == folders.path[in] \o <<name>> IN
  /\ ~Exists(d) /\ watcher.base[d] = NoPath /\ Exists(in) /\ Vacant(p)
  /\ Changes([folders.path EXCEPT ![d] = p], <<Event("made", in, name)>>, {})

WriteFile(d) == Exists(d) /\ Changes(folders.path, <<Event("file", d, 0)>>, {})

In(d) == CHOOSE p \in Folder : folders.path[p] = SubSeq(folders.path[d], 1, Len(folders.path[d]) - 1)
RemoveFolder(d) ==
  /\ d # Root /\ Exists(d) /\ Under(folders.path[d]) = {d}
  /\ Changes([folders.path EXCEPT ![d] = NoPath], <<Event("self", d, 0), Event("file", In(d), 0)>>, {d})

\* A directory is renamed with all that is below it.
RenameFolder(d, name) ==
  LET old == folders.path[d]
      new == SubSeq(old, 1, Len(old) - 1) \o <<name>>
      Renamed(p) == new \o SubSeq(p, Len(old) + 1, Len(p))
  IN /\ d # Root /\ Exists(d) /\ Vacant(new) /\ catalogueLeft.renames
     /\ Changes([c \in Folder |-> IF c \in Under(old) THEN Renamed(folders.path[c]) ELSE folders.path[c]],
                <<Event("made", In(d), name), Event("self", d, 0)>>, {})

\* _read_and_process_events: a directory that comes up under a known one is
\* watched with all that is in it; one that goes or moves is forgotten.
Heard(e) ==
  CASE e.kind = "self" -> [watcher EXCEPT !.base[e.of] = NoPath]
    [] e.kind = "made" /\ watcher.base[e.of] # NoPath -> AddTree(watcher.base[e.of] \o <<e.name>>)
    [] OTHER -> watcher
ReadEvent ==
  /\ watcher.events # <<>>
  /\ watcher' = [Heard(Head(watcher.events)) EXCEPT !.events = Tail(@), !.pending = TRUE]
  /\ UNCHANGED <<catalogue, folders, catalogueLeft>>

\* It has been quiet for a while, or it has been long enough.
OnChange ==
  /\ watcher.pending /\ watcher' = [watcher EXCEPT !.pending = FALSE]
  /\ folders' = [folders EXCEPT !.unseen = FALSE]
  /\ UNCHANGED <<catalogue, catalogueLeft>>

WatcherNext ==
  \/ StartWatcher \/ Overflow \/ ReadEvent \/ OnChange
  \/ \E d \in Folder, name \in 1 .. 2 : RenameFolder(d, name) \/ (\E in \in Folder : MakeFolder(d, in, name))
  \/ \E d \in Folder : WriteFile(d) \/ RemoveFolder(d)

CatalogueStep ==
  \/ LoadCache \/ ListGames \/ SystemIndexed \/ CheckpointScan \/ FinishScan
  \/ \E s \in System : ReadGamelist(s) \/ PassOver(s)
  \/ LoadPending \/ WriteHashes \/ EndPoll
  \/ \E g \in Game : IndexGame(g) \/ HashGame(g) \/ Delete(g) \/ Unlist(g) \/ (\E size \in 1 .. 2 : InstallRom(g, size))
  \/ RemoveEntry \/ DeleteRow \/ Purge \/ CatalogueCrash

CatalogueNext == (CatalogueStep /\ Unwatched) \/ WatcherNext

CatalogueSpec == CatalogueInit /\ [][CatalogueNext]_catalogueVars

-----------------------------------------------------------------------------
\* What the MD5 gate passes over is complete: while the stored MD5 of a system
\* with rows is that of its gamelist.xml, every game listed in it that has a
\* file has a row.  Otherwise a game would be missing from the catalogue until
\* somebody edits that gamelist.xml.
SkippedIsComplete ==
  \A s \in System :
    gate[s] = shelf[s].edition /\ Rows(s, romRows) # {} /\ scanState.current =>
      \A g \in shelf[s].games : romFiles[g] # NoFile => romRows[g] # NoRom

\* A change below the root is never lost on the watcher: until it wakes the
\* poller, it has an event to read or has read one.  Not held with renames: a
\* renamed directory is entered under its new path and then forgotten, so that
\* directories that come up in it are not watched; nor with overflows, or when
\* the kernel has no room for a watch on every directory.
ChangesAreHeard == folders.unseen => watcher.events # <<>> \/ watcher.pending

CatalogueIsComplete == SkippedIsComplete /\ ChangesAreHeard

\* Not held by the code: once a full scan is over, rows are of listed games.
\* The checkpoint of a scan stores the MD5 of a system whose old rows it has
\* not deleted yet; if the Drone stops then, the next scan carries them over.
NoGhosts ==
  \A s \in System :
    gate[s] = shelf[s].edition /\ scanState = [scanning |-> FALSE, full |-> TRUE, current |-> TRUE] =>
      Rows(s, romRows) \subseteq shelf[s].games
=============================================================================
