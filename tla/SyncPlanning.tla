------------------------------ MODULE SyncPlanning ------------------------------
(***************************************************************************)
(* Copying what a peer has: a request walks through the pages of the       *)
(* peer's inventory, while the peer's library may change, and queues what  *)
(* is not here yet; a preview walks the same way and queues nothing.       *)
(* app/web/handlers_network.py (the requester), handlers_peer.py and       *)
(* app/storage/rom_metadata_store.py (the peer's pages).                   *)
(***************************************************************************)
EXTENDS Naturals, FiniteSets

CONSTANTS
  Entries,      \* how many ROMs the peer may list: 1 .. Entries, as it sorts them
  ContentOf,    \* the content of each: two may be the same
  EntrySystem,     \* the system of each
  Libraries,    \* what the peer may have of its own at first
  Borrowed,     \* those of systems that the peer has by reference to another Drone
  PageSize, MaxJobs,
  Walk,         \* requests
  SyncBounds    \* how many walks, changes and downloads; see SyncInit

VARIABLES
  shelf,        \* the peer: what it has; the rows of its cache; the cache may be read
  here,         \* this Drone: the contents it has; those whose artwork its user chose
  queue,        \* how often each entry is queued or being downloaded
  artQueue,     \* the artwork jobs, and whether they may replace what the user chose
  tried,        \* the contents that were ever queued
  walks,
  lost,         \* artwork that the user chose and a job replaced
  syncLeft
syncVars == <<shelf, here, queue, artQueue, tried, walks, lost, syncLeft>>

Asset == 1..Entries
Content == {ContentOf[i] : i \in Asset}
SystemId == {EntrySystem[i] : i \in Asset}
NoWalk == [pc |-> "idle", dry |-> FALSE, over |-> FALSE, scopes |-> {}, scope |-> {}, offset |-> 0, total |-> 0,
           page |-> {}, known |-> {}, arted |-> {}, indexed |-> {}, queued |-> 0, arts |-> 0, cut |-> FALSE, steady |-> TRUE,
           from |-> {}, item |-> 0, wanted |-> FALSE]

SyncInit ==
  /\ \E own \in Libraries : shelf = [own |-> own, rows |-> own \cup Borrowed, ready |-> TRUE]
  /\ \E c \in SUBSET Content : c \subseteq {ContentOf[1]} /\ here = [has |-> c, chosen |-> {}]
  /\ queue = [i \in Asset |-> 0] /\ artQueue = {} /\ tried = {} /\ walks = [w \in Walk |-> NoWalk] /\ lost = {}
  /\ syncLeft \in SyncBounds

Use(what) == syncLeft[what] > 0 /\ syncLeft' = [syncLeft EXCEPT ![what] = @ - 1]
Put(w, walk) == walks' = [walks EXCEPT ![w] = walk]
Walking(w) == walks[w].pc \notin {"idle", "done"}

-----------------------------------------------------------------------------
\* The peer pages through the rows of its cache, sorted within a system and in
\* turns between systems, or through what a scan finds in the order of the
\* disk; what it has by reference it never offers, and its summary lists only
\* the systems that it has itself.
OnOffer == IF shelf.ready THEN shelf.rows \ Borrowed ELSE shelf.own
Listed(scope) == {i \in OnOffer : EntrySystem[i] \in scope}
Turn(i) == Cardinality({j \in OnOffer : EntrySystem[j] = EntrySystem[i] /\ (IF shelf.ready THEN j < i ELSE j > i)})
Precedes(i, j) == Turn(i) < Turn(j) \/ (Turn(i) = Turn(j) /\ EntrySystem[i] < EntrySystem[j])
Rank(i, scope) == Cardinality({j \in Listed(scope) : Precedes(j, i)})
PageAt(scope, offset) == {i \in Listed(scope) : Rank(i, scope) >= offset /\ Rank(i, scope) < offset + PageSize}
Summary == {EntrySystem[i] : i \in OnOffer}

\* The library changes: a ROM comes or goes, and the cache follows by a scan,
\* or is being built again.
Disturb == walks' = [w \in Walk |-> IF Walking(w) THEN [walks[w] EXCEPT !.steady = FALSE] ELSE walks[w]]

PeerChanges ==
  /\ Use("changes") /\ Disturb
  /\ \/ \E i \in Asset \ Borrowed :
          LET own == IF i \in shelf.own THEN shelf.own \ {i} ELSE shelf.own \cup {i} IN
          \/ shelf' = [shelf EXCEPT !.own = own]
          \/ shelf' = [shelf EXCEPT !.own = own, !.rows = own \cup Borrowed]
     \/ shelf' = [shelf EXCEPT !.ready = ~@, !.rows = shelf.own \cup Borrowed]
  /\ UNCHANGED <<here, queue, artQueue, tried, lost>>

-----------------------------------------------------------------------------
\* A request, or a preview of one, of all systems: they are walked through one
\* by one as the peer's summary lists them, or all at once if it does not come.
\* Two that walk at once (bound: both) may both find a download not pending and
\* queue it twice: LookUp and Consider are apart.
Ask(w, dry, over) ==
  /\ walks[w].pc = "idle" /\ w = (CHOOSE v \in Walk : walks[v].pc = "idle") /\ Use("walks")
  /\ syncLeft.both \/ \A v \in Walk : ~Walking(v)
  /\ \E scopes \in {{{s} : s \in Summary}, {SystemId}} :
       Put(w, [NoWalk EXCEPT !.pc = "scope", !.dry = dry, !.over = over, !.scopes = scopes, !.from = OnOffer])
  /\ UNCHANGED <<shelf, here, queue, artQueue, tried, lost>>

NextScope(w) ==
  /\ walks[w].pc = "scope"
  /\ LET left == walks[w].scopes IN
     IF left = {} THEN Put(w, [walks[w] EXCEPT !.pc = "done"])
     ELSE LET scope == CHOOSE s \in left : TRUE IN
          Put(w, [walks[w] EXCEPT !.pc = "fetch", !.scope = scope, !.scopes = left \ {scope}, !.offset = 0])
  /\ UNCHANGED <<shelf, here, queue, artQueue, tried, lost, syncLeft>>

\* One page: the first says how many there are; one without any is the last.
FetchPage(w) ==
  /\ walks[w].pc = "fetch"
  /\ LET walk == walks[w]
         page == PageAt(walk.scope, walk.offset) IN
     Put(w, [walk EXCEPT !.total = IF walk.offset = 0 THEN Cardinality(Listed(walk.scope)) ELSE @, !.page = page,
                         !.pc = IF page = {} THEN "scope" ELSE "items"])
  /\ UNCHANGED <<shelf, here, queue, artQueue, tried, lost, syncLeft>>

\* What is here is looked up once for a system, a thumbprint and then a path;
\* what is queued is looked up for every item.
ContentsIn(s) == {ContentOf[i] : i \in {j \in Asset : EntrySystem[j] = s}}
Known(walk, s) == (IF s \in walk.indexed THEN walk.known ELSE here.has) \cap ContentsIn(s)
Arted(walk, s) == (IF s \in walk.indexed THEN walk.arted ELSE here.chosen) \cap ContentsIn(s)
\* Mutant: a pending download is looked for by its path only.
PendingPath(i) == queue[i] > 0
Pending(i) == \E j \in Asset : queue[j] > 0 /\ EntrySystem[j] = EntrySystem[i] /\ ContentOf[j] = ContentOf[i]
Wanted(walk, i) == (ContentOf[i] \notin Known(walk, EntrySystem[i]) \/ walk.over) /\ ~Pending(i)

\* A preview's manager queues nothing.
Enqueue(w, i) ==
  IF walks[w].dry THEN UNCHANGED <<queue, tried>>
  ELSE queue' = [queue EXCEPT ![i] = @ + 1] /\ tried' = tried \cup {ContentOf[i]}

\* The artwork of an item that has some, unless it is here already.
ArtWanted(walk, i) == walk.over \/ ContentOf[i] \notin Arted(walk, EntrySystem[i])
EnqueueArt(w, i) ==
  artQueue' = IF walks[w].dry \/ ~ArtWanted(walks[w], i) THEN artQueue
              ELSE artQueue \cup {[of |-> ContentOf[i], over |-> walks[w].over]}

\* SYNC_BULK_MAX_JOBS counts both, and is looked at before every item.
AtCap(walk) == walk.queued + walk.arts >= MaxJobs
One(yes) == IF yes THEN 1 ELSE 0

\* An item is looked up, here and among the jobs, and then queued.
LookUp(w) ==
  /\ walks[w].pc = "items" /\ walks[w].page # {} /\ ~AtCap(walks[w])
  /\ LET walk == walks[w]
         i == CHOOSE j \in walk.page : \A k \in walk.page : k = j \/ Precedes(j, k) \/ ~Precedes(k, j)
         s == EntrySystem[i] IN
       Put(w, [walk EXCEPT !.pc = "queue", !.item = i, !.wanted = Wanted(walk, i), !.page = @ \ {i}, !.offset = @ + 1,
                           !.indexed = @ \cup {s}, !.known = @ \cup Known(walk, s), !.arted = @ \cup Arted(walk, s)])
  /\ UNCHANGED <<shelf, here, queue, artQueue, tried, lost, syncLeft>>

Consider(w) ==
  /\ walks[w].pc = "queue"
  /\ LET walk == walks[w] IN
       /\ IF walk.wanted THEN Enqueue(w, walk.item) ELSE UNCHANGED <<queue, tried>>
       /\ EnqueueArt(w, walk.item)
       /\ Put(w, [walk EXCEPT !.pc = "items", !.item = 0, !.wanted = FALSE, !.queued = @ + One(walk.wanted),
                              !.arts = @ + One(ArtWanted(walk, walk.item))])
  /\ UNCHANGED <<shelf, here, lost, syncLeft>>

\* The cap is reached with items left: the answer says so.
CutShort(w) ==
  /\ walks[w].pc = "items" /\ walks[w].page # {} /\ AtCap(walks[w])
  /\ Put(w, [walks[w] EXCEPT !.pc = "done", !.cut = TRUE, !.page = {}])
  /\ UNCHANGED <<shelf, here, queue, artQueue, tried, lost, syncLeft>>

\* A page that was short, or all that there were at first, ends the scope.
Last(walk) == walk.offset >= walk.total \/ walk.offset % PageSize # 0

PageDone(w) ==
  /\ walks[w].pc = "items" /\ walks[w].page = {}
  /\ Put(w, [walks[w] EXCEPT !.pc = IF Last(walks[w]) THEN "scope" ELSE "fetch"])
  /\ UNCHANGED <<shelf, here, queue, artQueue, tried, lost, syncLeft>>

-----------------------------------------------------------------------------
\* The queue works meanwhile: a download ends well or not, artwork replaces
\* what it finds; and the user chooses artwork.
Download(i) ==
  /\ queue[i] > 0 /\ Use("downloads") /\ queue' = [queue EXCEPT ![i] = @ - 1]
  /\ \/ here' = [here EXCEPT !.has = @ \cup {ContentOf[i]}]
     \/ UNCHANGED here
  /\ UNCHANGED <<shelf, artQueue, tried, walks, lost>>

DownloadArt ==
  /\ syncLeft.art > 0 /\ UNCHANGED syncLeft
  /\ \E job \in artQueue : artQueue' = artQueue \ {job} /\
       lost' = IF job.over THEN lost ELSE lost \cup ({job.of} \cap here.chosen)
  /\ UNCHANGED <<shelf, here, queue, tried, walks>>

ChooseArt ==
  /\ Use("art") /\ \E c \in here.has : here' = [here EXCEPT !.chosen = @ \cup {c}]
  /\ UNCHANGED <<shelf, queue, artQueue, tried, walks, lost>>

SyncNext ==
  \/ PeerChanges \/ DownloadArt \/ ChooseArt
  \/ \E w \in Walk, dry, over \in BOOLEAN : Ask(w, dry, over)
  \/ \E w \in Walk : FetchPage(w) \/ LookUp(w) \/ Consider(w) \/ CutShort(w) \/ PageDone(w) \/ NextScope(w)
  \/ \E i \in Asset : Download(i)

SyncSpec == SyncInit /\ [][SyncNext]_syncVars

-----------------------------------------------------------------------------
\* A walk through a library that stays as it is queues everything that is not
\* here, unless it says that it was cut short (docstring of
\* _handle_admin_local_sync_bulk); nothing is queued twice, by one walk or by
\* the next, and nothing that the peer itself has by reference
\* (handlers_peer.py:442-446).  Of two walks at once, which both excludes, each
\* may queue what the other has just looked for.
EverythingOnce ==
  /\ \A w \in Walk : (walks[w].pc = "done" /\ ~walks[w].dry /\ walks[w].steady /\ ~walks[w].cut) =>
       \A i \in walks[w].from : ContentOf[i] \in here.has \cup tried
  /\ \A i, j \in Asset : (queue[i] > 0 /\ queue[j] > 0 /\ EntrySystem[i] = EntrySystem[j] /\ ContentOf[i] = ContentOf[j]) =>
       i = j /\ queue[i] = 1
  /\ \A i \in Borrowed : queue[i] = 0

\* Not so for a library that changes: an entry that goes makes the next page
\* pass over another.
NoneIsPassedOver ==
  \A w \in Walk : (walks[w].pc = "done" /\ ~walks[w].dry /\ ~walks[w].cut /\ shelf.ready) =>
    \A i \in walks[w].from \cap OnOffer : ContentOf[i] \in here.has \cup tried

\* Not so with two entries of one content: the request finds its own first
\* download pending, the preview has none (handlers_network.py:1759-1760).
PreviewMatches ==
  \A v, w \in Walk :
    (/\ walks[v].pc = "done" /\ walks[w].pc = "done" /\ walks[v].dry /\ ~walks[w].dry
     /\ walks[v].steady /\ walks[w].steady /\ walks[v].over = walks[w].over /\ walks[v].from = walks[w].from
     /\ walks[v].known = walks[w].known /\ walks[w].queued = Cardinality({i \in Asset : queue[i] > 0})) =>
    walks[v].queued = walks[w].queued

\* Not so: artwork that the user chooses between the walk and the download is
\* replaced although the request overwrites nothing.
ArtworkIsSpared == lost = {}
==============================================================================
