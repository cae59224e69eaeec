----------------------------- MODULE GamelistEdits -----------------------------
(***************************************************************************)
(* The gamelist.xml of a system, which scrapes, uploads, downloads, edits  *)
(* and clean-ups of it all rewrite whole: one lock in the process, images  *)
(* fetched outside it, and a list of what artwork is missing that is kept  *)
(* for two minutes.  app/roms/rom_artwork_apply.py, rom_artwork_gamelist.py*)
(* and gamelist.py, app/roms/scrapers.py, app/web/handlers_artwork.py.     *)
(***************************************************************************)
EXTENDS Naturals, FiniteSets

CONSTANTS
  Rom, Namesake,      \* the ROMs; those whose file is called like another's
  ArtField,           \* some of ARTWORK_FIELDS
  Editor,             \* requests and jobs, one task each
  Offered,            \* the image that a scraper's details have for a field
  GamelistBounds      \* how many tasks of a kind, faults and crashes; see GamelistInit

VARIABLES
  list,          \* gamelist.xml: the entries, and whether the file is whole
  roms,          \* the ROMs that are there
  listLock,      \* _GAMELIST_WRITE_LOCK
  editors,       \* the tasks
  intended,      \* what the entries are by the edits that were answered, one after the other
  lister,        \* a listing of the missing artwork: how far, what it saw
  missing,       \* _missing_artwork_cache
  gamelistLeft
gamelistVars == <<list, roms, listLock, editors, intended, lister, missing, gamelistLeft>>

None == "none"
NoEntry == [there |-> FALSE, art |-> [f \in ArtField |-> None]]
NoTask == [pc |-> "free", task |-> None, rom |-> CHOOSE g \in Rom : TRUE, art |-> [f \in ArtField |-> None],
           tree |-> [g \in Rom |-> NoEntry], gone |-> {}, over |-> FALSE]
NoList == [known |-> FALSE, of |-> {}]

GamelistInit ==
  /\ \E g \in Rom : list = [entries |-> [r \in Rom |-> IF r = g THEN [NoEntry EXCEPT !.there = TRUE] ELSE NoEntry],
                            whole |-> TRUE]
  /\ roms = Rom /\ listLock = None /\ editors = [e \in Editor |-> NoTask] /\ intended = list.entries
  /\ lister = [pc |-> "free", of |-> {}] /\ missing = NoList
  /\ gamelistLeft \in GamelistBounds

Use(what) == gamelistLeft[what] > 0 /\ gamelistLeft' = [gamelistLeft EXCEPT ![what] = @ - 1]
Set(e, task) == editors' = [editors EXCEPT ![e] = task]
In(e, pc) == editors[e].pc = pc
listing == <<lister, missing>>
\* A request has a thread of its own.
Fresh(e) == In(e, "free") /\ e = CHOOSE f \in Editor : In(f, "free")

-----------------------------------------------------------------------------
\* The entry of a ROM is that with its path, or one of a file of its name.
Target(entries, g) ==
  IF entries[g].there \/ ~\E h \in Namesake[g] : entries[h].there THEN g
  ELSE CHOOSE h \in Namesake[g] : entries[h].there

\* The same image for two fields is a duplicate; so it is to have none.
Lacking(entry) == {f \in ArtField : entry.art[f] = None}
Duplicated(entry) == \E f, h \in ArtField : f # h /\ entry.art[f] = entry.art[h] /\ entry.art[f] # None
Incomplete(entry) == Lacking(entry) # {} \/ Duplicated(entry)

\* What a task makes of the entries: an entry is created when there is none;
\* an empty field of an edit clears the element.
With(entry, art) == [there |-> TRUE, art |-> [f \in ArtField |-> IF art[f] = None THEN entry.art[f] ELSE art[f]]]

Outcome(entries, t) ==
  IF t.task = "remove" THEN [entries EXCEPT ![t.rom] = NoEntry]
  ELSE IF t.task = "sweep" THEN [g \in Rom |-> IF g \in t.gone THEN NoEntry ELSE entries[g]]
  ELSE IF t.task = "clear" THEN [entries EXCEPT ![t.rom] = [NoEntry EXCEPT !.there = TRUE]]
  ELSE [entries EXCEPT ![Target(entries, t.rom)] = With(@, t.art)]

-----------------------------------------------------------------------------
\* One field with an image that came with the request, from a peer or from a
\* form; an entry edited or removed.
Request(e, g) ==
  /\ Fresh(e) /\ Use("requests")
  /\ \/ \E f \in ArtField : Set(e, [NoTask EXCEPT !.pc = "lock", !.task = "apply", !.rom = g, !.art[f] = e])
     \/ \E task \in {"remove", "clear"} : Set(e, [NoTask EXCEPT !.pc = "lock", !.task = task, !.rom = g])
  /\ UNCHANGED <<list, roms, listLock, intended, listing>>

\* A scrape reads the list without the lock; of what it reads it takes which
\* fields to fetch.
BeginScrape(e, g, over) ==
  /\ Fresh(e) /\ g \in roms /\ Use("scrapes")
  /\ IF list.whole
     THEN Set(e, [NoTask EXCEPT !.pc = "fetch", !.task = "scrape", !.rom = g, !.over = over, !.tree = list.entries])
     ELSE Set(e, [NoTask EXCEPT !.pc = "done"])
  /\ UNCHANGED <<list, roms, listLock, intended, listing>>

ToFetch(t) == IF t.over THEN ArtField ELSE Lacking(t.tree[Target(t.tree, t.rom)])
\* No image is used for two fields of the game.
Selected(t) == {f \in ToFetch(t) : \A h \in ToFetch(t) : Offered[h] = Offered[f] => h = f \/ f = CHOOSE k \in {f, h} : TRUE}

\* The site is reached for all, for one or for none of them.
Downloads(t) == {Selected(t), {}} \cup {{f} : f \in Selected(t)}

\* The images are fetched and written; without any the scrape is over.
Fetch(e) ==
  /\ In(e, "fetch")
  /\ \E got \in Downloads(editors[e]) :
       LET art == [f \in ArtField |-> IF f \in got THEN Offered[f] ELSE None] IN
       Set(e, [editors[e] EXCEPT !.pc = IF got = {} THEN "done" ELSE "lock", !.art = art])
  /\ UNCHANGED <<list, roms, listLock, intended, listing, gamelistLeft>>

\* Entries whose ROM is not there are removed together: those of the list of
\* missing artwork, looked up in the file system.
BeginSweep(e) ==
  /\ Fresh(e) /\ missing.known /\ Use("sweeps")
  /\ Set(e, [NoTask EXCEPT !.pc = "lock", !.task = "sweep", !.gone = missing.of \ roms])
  /\ UNCHANGED <<list, roms, listLock, intended, listing>>

-----------------------------------------------------------------------------
\* Mutant: a scrape writes the tree that it read before it fetched.
TreeItHad(t) == IF t.task = "scrape" THEN t.tree ELSE list.entries
\* Under the lock the list is read again.
ReadAgain(t) == list.entries

Lock(e) ==
  /\ In(e, "lock") /\ listLock = None
  /\ LET t == editors[e] IN
     IF list.whole /\ (t.task = "remove" => list.entries[t.rom].there)
                   /\ (t.task = "sweep" => \E g \in t.gone : list.entries[g].there)
     THEN listLock' = e /\ Set(e, [t EXCEPT !.pc = "write", !.tree = Outcome(ReadAgain(t), t)])
     ELSE Set(e, [NoTask EXCEPT !.pc = "done"]) /\ UNCHANGED listLock
  /\ UNCHANGED <<list, roms, intended, listing, gamelistLeft>>

\* The file is written in place: meanwhile it is cut short.
BeginWrite(e) ==
  /\ In(e, "write") /\ list' = [list EXCEPT !.whole = FALSE] /\ Set(e, [editors[e] EXCEPT !.pc = "writing"])
  /\ UNCHANGED <<roms, listLock, intended, listing, gamelistLeft>>

EndWrite(e) ==
  /\ In(e, "writing") /\ listLock' = None
  /\ list' = [whole |-> TRUE, entries |-> editors[e].tree] /\ intended' = Outcome(intended, editors[e])
  /\ Set(e, [editors[e] EXCEPT !.pc = "clear"])
  /\ UNCHANGED <<roms, listing, gamelistLeft>>

\* Then what was listed is forgotten: by the function itself, or, after artwork
\* from LaunchBox, by the handler that called it, also if nothing was updated.
Forget(e) ==
  /\ In(e, "clear") /\ missing' = NoList /\ Set(e, [NoTask EXCEPT !.pc = "done"])
  /\ UNCHANGED <<list, roms, listLock, intended, lister, gamelistLeft>>

-----------------------------------------------------------------------------
\* A listing of what is missing reads without the lock; a list that cannot be
\* read has nothing missing.
BeginList ==
  /\ lister.pc = "free" /\ ~missing.known /\ Use("lists")
  /\ lister' = [pc |-> "seen", of |-> IF list.whole THEN {g \in Rom : list.entries[g].there /\ Incomplete(list.entries[g])}
                                      ELSE {}]
  /\ UNCHANGED <<list, roms, listLock, editors, intended, missing>>

EndList ==
  /\ lister.pc = "seen" /\ lister' = [pc |-> "free", of |-> {}]
  /\ missing' = [known |-> TRUE, of |-> lister.of]
  /\ UNCHANGED <<list, roms, listLock, editors, intended, gamelistLeft>>

Expire ==
  /\ missing.known /\ missing' = NoList
  /\ UNCHANGED <<list, roms, listLock, editors, intended, lister, gamelistLeft>>

\* A ROM is installed or goes.
RomComesOrGoes(g) ==
  /\ Use("roms") /\ roms' = IF g \in roms THEN roms \ {g} ELSE roms \cup {g}
  /\ UNCHANGED <<list, listLock, editors, intended, listing>>

Restart ==
  /\ Use("crashes") /\ editors' = [e \in Editor |-> IF In(e, "free") THEN editors[e] ELSE [NoTask EXCEPT !.pc = "done"]]
  /\ listLock' = None /\ lister' = [pc |-> "free", of |-> {}] /\ missing' = NoList
  /\ UNCHANGED <<list, roms, intended>>

GamelistNext ==
  \/ \E e \in Editor, g \in Rom : Request(e, g) \/ \E over \in BOOLEAN : BeginScrape(e, g, over)
  \/ \E e \in Editor : Fetch(e) \/ BeginSweep(e) \/ Lock(e) \/ BeginWrite(e) \/ EndWrite(e) \/ Forget(e)
  \/ BeginList \/ EndList \/ Expire \/ Restart
  \/ \E g \in Rom : RomComesOrGoes(g)

GamelistSpec == GamelistInit /\ [][GamelistNext]_gamelistVars

-----------------------------------------------------------------------------
\* No edit that was answered is lost to another, however long the other's
\* images took to come: the list is that of the edits one after the other
\* (rom_artwork_apply.py:216-219 and the comments of the other writers).
NoEditIsLost == list.whole => list.entries = intended

\* NoEditIsLost by induction: the task that has begun to write holds the lock,
\* and writes what its edit makes of the edits that were answered before it; a
\* list that is whole is that of the edits that were answered.
IsTask(t) == t \in [pc : {t.pc}, task : {t.task}, rom : {t.rom}, art : {t.art}, tree : {t.tree},
                    gone : {t.gone}, over : {t.over}]
EditsInv ==
  /\ list \in [entries : {list.entries}, whole : BOOLEAN] /\ NoEditIsLost
  /\ DOMAIN editors = Editor /\ \A e \in Editor : IsTask(editors[e])
  /\ \A e \in Editor : In(e, "write") \/ In(e, "writing") =>
       listLock = e /\ editors[e].tree = Outcome(intended, editors[e])
  /\ \A e \in Editor : In(e, "writing") => ~list.whole

\* Not so with a crash: the file that is being written is the only one.
ListIsWhole == listLock = None => list.whole

\* Not so: what a scrape was not told to override is replaced when it came
\* while the scrape fetched its images; an entry that was removed comes back.
ExistingIsKept ==
  \A e \in Editor :
    (In(e, "write") /\ editors[e].task = "scrape" /\ ~editors[e].over) =>
      \A g \in Rom, f \in ArtField :
        (list.entries[g].there /\ list.entries[g].art[f] # None) => editors[e].tree[g].art[f] = list.entries[g].art[f]

\* Not so: a ROM that is installed between the look and the lock loses its
\* entry.
SweepSparesRoms ==
  \A e \in Editor : (In(e, "writing") /\ editors[e].task = "sweep") => editors[e].gone \cap roms = {}

\* Not so: a listing that began before an edit is kept after it.
ListedIsMissing ==
  (missing.known /\ list.whole /\ \A e \in Editor : ~In(e, "clear")) =>
    missing.of = {g \in Rom : list.entries[g].there /\ Incomplete(list.entries[g])}
==============================================================================
