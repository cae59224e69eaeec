--------------------------- MODULE DroneServices ---------------------------
(***************************************************************************)
(* The services of a Drone beside its queue, one instance each.  They run  *)
(* in one process but share no state that these modules model, so a        *)
(* behaviour is about one of them (focus): x1, x2, ... are that service's  *)
(* variables.  Hardware readings and the configuration guard keep names of *)
(* their own, for the sake of their action properties.                     *)
(***************************************************************************)
EXTENDS Naturals, HardwareReadings, ConfigGuard

CONSTANTS
  Focus,
  Item, NoItem, Name, NameOf, Before, Crashes, Requests, Drops, Late,
  Part, NoPart, Gid, NoGid, MigrationBounds,
  Peer, Upload, Uploader,
  Drone, NoDrone, Matter, IsEvent, IsBackup, MailBounds,
  PortsFile, AppFile, ContentFile, UpdateBounds,
  AssetFile, Marker, Manifest, SizeOf, Inode, TransferSetting,
  System, Game, SystemOf, NoGame, Folders, CatalogueBounds,
  Source, NoSource, ShareBounds,
  Client, NoClient, Address, ExportBounds,
  Sharer, Own, Caller, Healer, MaxAttempts, SameAddress, VpnBounds,
  Entry, Album, ScrapeBounds,
  Path, Film, NoFilm, Picture, NoPicture, PictureOf, ShowPicture, Stock, LibraryBounds,
  Worker, NoWorker, DeckBounds,
  Layout, Dangerous, Launcher, Program, NoProgram, KeyBounds,
  AuthKey, NoKey, KeyPeer, Here, Origin, TailnetBounds,
  Backup, NoBackup, FrontendBounds,
  IdleBounds,
  PollerKind, Poller, LifecycleBounds,
  Token, Login, AccessBounds,
  Rom, Namesake, ArtField, Editor, Offered, GamelistBounds,
  Entries, ContentOf, EntrySystem, Libraries, Borrowed, PageSize, MaxJobs, Walk, SyncBounds,
  Route, Order, Named, Secure, Cert, Original, NoCert, Metadata, Dialer, Pairer, RouteBounds,
  NoPeer, NoSystem, Collection, Narrow, Recent, RequestBounds,
  OperationBounds,
  Requester, Installer, SunBounds

ASSUME EditorAssumption == "none" \notin Editor
ASSUME FrontendAssumption == FrontendBounds \subseteq [{"requests", "edits", "faults", "crashes", "late"} -> Nat]
ASSUME TailnetAssumption ==
  /\ Here \notin KeyPeer /\ NoKey \notin AuthKey
  /\ TailnetBounds \subseteq [{"calls", "looks", "failures", "checks", "changes", "faults", "crashes", "late"} -> Nat]
ASSUME ExportAssumption ==
  ExportBounds \subseteq [{"requests", "changes", "prepare", "export", "unexport", "crashes"} -> Nat]
ASSUME SourceAssumption == NoSource \notin Source
ASSUME AccessAssumption ==
  AccessBounds \subseteq [{"passwords", "faults", "crashes", "deletions", "clones", "late"} -> Nat]
ASSUME DeckAssumption ==
  /\ NoWorker \notin Worker
  /\ DeckBounds \subseteq [{"requests", "tests", "failures", "crashes", "restarts", "applies", "stuck", "late"} -> Nat]
ASSUME KeyAssumption == KeyBounds \subseteq [{"presses", "switches", "unplugs", "launches", "race", "late"} -> Nat]
ASSUME RouteAssumption ==
  /\ Order \in [Route -> Nat] /\ Metadata \subseteq SUBSET Route
  /\ RouteBounds \subseteq [{"calls", "pairs", "changes", "faults", "late"} -> Nat]
ASSUME UpdateAssumption == "VERSION" \in AppFile
ASSUME SunAssumption ==
  /\ Installer \notin Requester
  /\ SunBounds \subseteq [requests : Nat, faults : Nat, edits : Nat, crashes : Nat, late : BOOLEAN, torn : BOOLEAN]

VARIABLES
  focus,      \* the service that the behaviour is about
  x1, x2, x3, x4, x5, x6, x7, x8, x9, x10, x11, x12

vars == <<focus, readingVars, guardVars, x1, x2, x3, x4, x5, x6, x7, x8, x9, x10, x11, x12>>

Moves == INSTANCE TorrentMoves WITH
  moveJob <- x1, moveAsked <- x2, moveStep <- x3, payload <- x4, target <- x5, moveRow <- x6, moveDrive <- x7,
  dropped <- x8, torrentFile <- x9, moveLeft <- x10
Migration == INSTANCE TorrentMigration WITH
  job <- x1, row <- x2, downloads <- x3, copies <- x4, worker <- x5, poll <- x6, removals <- x7, reached <- x8,
  late <- x9, spare <- x10
Mail == INSTANCE MailRelay WITH
  mail <- x1, audit <- x2, queue <- x3, poller <- x4, importing <- x5, revoker <- x6, paired <- x7, recorded <-
  x8, inbox <- x9, excused <- x10, mailLeft <- x11
Update == INSTANCE SelfUpdate WITH
  latest <- x1, autoUpdate <- x2, ports <- x3, app <- x4, updater <- x5, restarting <- x6, reported <- x7,
  updatesLeft <- x8
Pulling == INSTANCE PeerTransfer WITH
  transfer <- x1, offered <- x2, hold <- x3, bytes <- x4, parts <- x5, installed <- x6, listed <- x7, fetches <-
  x8, batches <- x1, timers <- x2, sending <- x3, entries <- x4, opened <- x5
Catalogue == INSTANCE RomCatalogue WITH
  shelf <- x1, romFiles <- x2, romRows <- x3, gate <- x4, scanState <- x5, preserved <- x6, romPoll <- x7,
  remover <- x8, folders <- x9, watcher <- x10, catalogueLeft <- x11
Shares == INSTANCE NetworkShares WITH
  share <- x1, section <- x2, mounted <- x3, linked <- x4, overlay <- x5, gamelistOnly <- x6, enabling <- x7,
  disabling <- x8, biosJob <- x9, watch <- x10, replay <- x11, sharesLeft <- x12
Exports == INSTANCE NfsExports WITH
  clients <- x1, grant <- x2, exports <- x3, granting <- x4, forgetting <- x5, restored <- x6, exportsLeft <- x7
Vpn == INSTANCE VpnTunnel WITH
  vpn <- x1, tunnel <- x2, caller <- x3, reviser <- x4, sharing <- x5, pulled <- x6, clock <- x7, stopped <- x8,
  health <- x9, healer <- x10, rgs <- x11, vpnLeft <- x12
Scrapes == INSTANCE ScrapeJobs WITH
  library <- x1, pictured <- x2, jobs <- x3, items <- x4, scrapers <- x5, scrapeLeft <- x6
Library == INSTANCE MediaLibrary WITH
  shelves <- x1, index <- x2, gone <- x3, rows <- x4, pictures <- x5, scraping <- x6, removing <- x7,
  libraryLeft <- x8
Deck == INSTANCE StreamDeck WITH
  deck <- x1, tooling <- x2, workers <- x3, child <- x4, drone <- x5, holder <- x6, repairing <- x7, testing <-
  x8, port <- x9, deckLeft <- x10, applying <- x11, document <- x1, slot <- x2, reader <- x3, timers <- x4,
  acting <- x5, ran <- x6, emulators <- x7, launches <- x8, keysLeft <- x9
Tailnet == INSTANCE TailnetNode WITH
  node <- x1, tailnetShare <- x2, peers <- x3, oauth <- x4, tailnetCall <- x5, credentials <- x6, repaired <-
  x7, withdrawn <- x8, tailnetLeft <- x9
Frontend == INSTANCE FrontendControl WITH
  es <- x1, esFile <- x2, meant <- x3, esLock <- x4, esCalls <- x5, control <- x6, controlWorker <- x7, backups
  <- x8, frontendLeft <- x9
Idle == INSTANCE IdleAutomation WITH
  game <- x1, touch <- x2, automation <- x3, idleEdits <- x4, idlePoll <- x5, armed <- x6, failures <- x7,
  volume <- x8, wifi <- x9, tries <- x10, idleLeft <- x11
Server == INSTANCE ServerLifecycle WITH
  server <- x1, era <- x2, bound <- x3, liveTls <- x4, latched <- x5, pollerGen <- x6, pollers <- x7, lan <- x8,
  crews <- x9, lifecycleLeft <- x10
Access == INSTANCE AdminAccess WITH
  credentials <- x1, passwordFile <- x2, drawn <- x3, boot <- x4, logins <- x5, sessions <- x6, changing <- x7,
  chosen <- x8, denied <- x9, accessLeft <- x10
Gamelist == INSTANCE GamelistEdits WITH
  list <- x1, roms <- x2, listLock <- x3, editors <- x4, intended <- x5, lister <- x6, missing <- x7,
  gamelistLeft <- x8
Sync == INSTANCE SyncPlanning WITH
  shelf <- x1, here <- x2, queue <- x3, artQueue <- x4, tried <- x5, walks <- x6, lost <- x7, syncLeft <- x8
Routes == INSTANCE PeerRoutes WITH
  row <- x1, pinFile <- x2, answers <- x3, peerCert <- x4, held <- x5, remembered <- x6, unresolved <- x7,
  callers <- x8, pairers <- x9, told <- x10, routeLeft <- x11
Requesting == INSTANCE PortsRequests WITH
  queue <- x1, here <- x2, chosen <- x3, rows <- x4, films <- x5, action <- x6, followed <- x7, batch <- x8,
  poll <- x9, requestLeft <- x10
Operations == INSTANCE PortsOperations WITH
  section <- x1, entered <- x2, entering <- x3, work <- x4, question <- x5, drone <- x6, shown <- x7, peers <-
  x8, probes <- x9, generation <- x10, agreed <- x11, operationLeft <- x12
Sunshine == INSTANCE SunshineInstall WITH
  staging <- x1, tree <- x2, script <- x3, receipt <- x4, service <- x5, job <- x6, hand <- x7, harmed <- x8,
  serial <- x9, sunLeft <- x10

Init ==
  /\ focus \in Focus
  /\ ReadingInit /\ (focus # "hardware" => stored = NoEvidence /\ reading.components = NoEvidence /\ ~reading.ambiguous)
  /\ GuardInit /\ (focus # "guard" => content = [f \in File |-> NoValue])
  /\ \/ /\ focus \in {"hardware", "guard"}
        /\ x1 = 0 /\ x2 = 0 /\ x3 = 0 /\ x4 = 0 /\ x5 = 0 /\ x6 = 0 /\ x7 = 0 /\ x8 = 0 /\ x9 = 0 /\ x10 = 0 /\ x11 = 0 /\
           x12 = 0
     \/ focus = "moves" /\ Moves!MoveInit /\ x11 = 0 /\ x12 = 0
     \/ focus = "migration" /\ Migration!Init /\ x11 = 0 /\ x12 = 0
     \/ /\ focus = "uploads" /\ Pulling!UploadInit
        /\ x6 = 0 /\ x7 = 0 /\ x8 = 0 /\ x9 = 0 /\ x10 = 0 /\ x11 = 0 /\ x12 = 0
     \/ focus = "mail" /\ Mail!MailInit /\ x12 = 0
     \/ focus = "update" /\ Update!UpdateInit /\ x9 = 0 /\ x10 = 0 /\ x11 = 0 /\ x12 = 0
     \/ focus = "transfer" /\ Pulling!TransferInit /\ x9 = 0 /\ x10 = 0 /\ x11 = 0 /\ x12 = 0
     \/ focus = "catalogue" /\ Catalogue!CatalogueInit /\ x12 = 0
     \/ focus = "shares" /\ Shares!ShareInit
     \/ focus = "exports" /\ Exports!ExportInit /\ x8 = 0 /\ x9 = 0 /\ x10 = 0 /\ x11 = 0 /\ x12 = 0
     \/ focus = "vpn" /\ Vpn!VpnInit
     \/ focus = "scrapes" /\ Scrapes!ScrapeInit /\ x7 = 0 /\ x8 = 0 /\ x9 = 0 /\ x10 = 0 /\ x11 = 0 /\ x12 = 0
     \/ focus = "library" /\ Library!LibraryInit /\ x9 = 0 /\ x10 = 0 /\ x11 = 0 /\ x12 = 0
     \/ focus = "deck" /\ Deck!DeckInit /\ x12 = 0
     \/ focus = "keys" /\ Deck!KeyInit /\ x10 = 0 /\ x11 = 0 /\ x12 = 0
     \/ focus = "tailnet" /\ Tailnet!TailnetInit /\ x10 = 0 /\ x11 = 0 /\ x12 = 0
     \/ focus = "frontend" /\ Frontend!FrontendInit /\ x10 = 0 /\ x11 = 0 /\ x12 = 0
     \/ focus = "idle" /\ Idle!IdleInit /\ x12 = 0
     \/ focus = "server" /\ Server!LifecycleInit /\ x11 = 0 /\ x12 = 0
     \/ focus = "access" /\ Access!AccessInit /\ x11 = 0 /\ x12 = 0
     \/ focus = "gamelist" /\ Gamelist!GamelistInit /\ x9 = 0 /\ x10 = 0 /\ x11 = 0 /\ x12 = 0
     \/ focus = "sync" /\ Sync!SyncInit /\ x9 = 0 /\ x10 = 0 /\ x11 = 0 /\ x12 = 0
     \/ focus = "routes" /\ Routes!RouteInit /\ x12 = 0
     \/ focus = "requests" /\ Requesting!RequestInit /\ x11 = 0 /\ x12 = 0
     \/ focus = "operations" /\ Operations!OperationInit
     \/ focus = "sunshine" /\ Sunshine!SunInit /\ x11 = 0 /\ x12 = 0

Next ==
  \/ /\ focus = "hardware" /\ ReadingNext
     /\ UNCHANGED <<focus, guardVars, x1, x2, x3, x4, x5, x6, x7, x8, x9, x10, x11, x12>>
  \/ focus = "moves" /\ Moves!MoveNext /\ UNCHANGED <<focus, readingVars, guardVars, x11, x12>>
  \/ focus = "migration" /\ Migration!Next /\ UNCHANGED <<focus, readingVars, guardVars, x11, x12>>
  \/ /\ focus = "uploads" /\ Pulling!UploadNext
     /\ UNCHANGED <<focus, readingVars, guardVars, x6, x7, x8, x9, x10, x11, x12>>
  \/ focus = "mail" /\ Mail!MailNext /\ UNCHANGED <<focus, readingVars, guardVars, x12>>
  \/ /\ focus = "guard" /\ GuardNext
     /\ UNCHANGED <<focus, readingVars, x1, x2, x3, x4, x5, x6, x7, x8, x9, x10, x11, x12>>
  \/ focus = "update" /\ Update!UpdateNext /\ UNCHANGED <<focus, readingVars, guardVars, x9, x10, x11, x12>>
  \/ focus = "transfer" /\ Pulling!TransferNext /\ UNCHANGED <<focus, readingVars, guardVars, x9, x10, x11, x12>>
  \/ focus = "catalogue" /\ Catalogue!CatalogueNext /\ UNCHANGED <<focus, readingVars, guardVars, x12>>
  \/ focus = "shares" /\ Shares!ShareNext /\ UNCHANGED <<focus, readingVars, guardVars>>
  \/ focus = "exports" /\ Exports!ExportNext /\ UNCHANGED <<focus, readingVars, guardVars, x8, x9, x10, x11, x12>>
  \/ focus = "vpn" /\ Vpn!VpnNext /\ UNCHANGED <<focus, readingVars, guardVars>>
  \/ /\ focus = "scrapes" /\ Scrapes!ScrapeNext
     /\ UNCHANGED <<focus, readingVars, guardVars, x7, x8, x9, x10, x11, x12>>
  \/ focus = "library" /\ Library!LibraryNext /\ UNCHANGED <<focus, readingVars, guardVars, x9, x10, x11, x12>>
  \/ focus = "deck" /\ Deck!DeckNext /\ UNCHANGED <<focus, readingVars, guardVars, x12>>
  \/ focus = "keys" /\ Deck!KeyNext /\ UNCHANGED <<focus, readingVars, guardVars, x10, x11, x12>>
  \/ focus = "tailnet" /\ Tailnet!TailnetNext /\ UNCHANGED <<focus, readingVars, guardVars, x10, x11, x12>>
  \/ focus = "frontend" /\ Frontend!FrontendNext /\ UNCHANGED <<focus, readingVars, guardVars, x10, x11, x12>>
  \/ focus = "idle" /\ Idle!IdleNext /\ UNCHANGED <<focus, readingVars, guardVars, x12>>
  \/ focus = "server" /\ Server!LifecycleNext /\ UNCHANGED <<focus, readingVars, guardVars, x11, x12>>
  \/ focus = "access" /\ Access!AccessNext /\ UNCHANGED <<focus, readingVars, guardVars, x11, x12>>
  \/ focus = "gamelist" /\ Gamelist!GamelistNext /\ UNCHANGED <<focus, readingVars, guardVars, x9, x10, x11, x12>>
  \/ focus = "sync" /\ Sync!SyncNext /\ UNCHANGED <<focus, readingVars, guardVars, x9, x10, x11, x12>>
  \/ focus = "routes" /\ Routes!RouteNext /\ UNCHANGED <<focus, readingVars, guardVars, x12>>
  \/ focus = "requests" /\ Requesting!RequestNext /\ UNCHANGED <<focus, readingVars, guardVars, x11, x12>>
  \/ focus = "operations" /\ Operations!OperationNext /\ UNCHANGED <<focus, readingVars, guardVars>>
  \/ focus = "sunshine" /\ Sunshine!SunNext /\ UNCHANGED <<focus, readingVars, guardVars, x11, x12>>

Spec == Init /\ [][Next]_vars

-----------------------------------------------------------------------------
(* The properties of the services, see their modules.                      *)

\* Torrents: a move of files loses none, a removal deletes none of another, and a
\* migration of a partial download keeps what was downloaded.
PayloadsAreKept ==
  /\ focus = "moves" => Moves!FilesAreSafe
  /\ focus = "migration" => Migration!ProgressIsKept

\* Transfers between Drones: a request queues everything that is not here, once;
\* what is there is whole; and an upload is counted in one batch, once.
TransfersAreTrue ==
  /\ focus = "sync" => Sync!EverythingOnce
  /\ focus = "transfer" => Pulling!PresentMeansWhole
  /\ focus = "uploads" => Pulling!EveryUploadCountsOnce

\* Mail: what there is to tell is not forgotten, and it is mailed once.
MailIsKept ==
  /\ focus = "mail" => Mail!NothingIsForgotten
  /\ focus = "mail" => Mail!MailedOnce

\* What Drone installs: the Ports client never lags behind the app, and Drone keeps to
\* its own Sunshine service, and knows it again.
InstallsAreContained ==
  /\ focus = "update" => Update!PortsNeverLag
  /\ focus = "sunshine" => Sunshine!SunshineIsContained

\* The libraries: a system that a scan passes over is complete, and no change is lost on
\* the watcher; of movies and music, the breakdown of a scrape adds up, and artwork
\* outlives all but its last row.
LibrariesAreTrue ==
  /\ focus = "catalogue" => Catalogue!CatalogueIsComplete
  /\ focus = "scrapes" => Scrapes!BreakdownAddsUp
  /\ focus = "library" => Library!PicturesAreThere

\* Shares: what a reference set up is owned by its record, and an active
\* authorization is in the export table.
SharesAreOwned ==
  /\ focus = "shares" => Shares!NothingIsLeftBehind
  /\ focus = "exports" => Exports!ActiveIsExported

\* A revocation spares newer tunnels, and RGS runs where it is noted to.
TunnelStaysRight == focus = "vpn" => Vpn!TunnelStaysRight

\* The Stream Deck: once disabled it is left alone, a held key does what it showed,
\* and a launch finds no other game.
DeckDoesAsMeant ==
  /\ focus = "deck" => Deck!DisabledIsStopped
  /\ focus = "keys" => Deck!HeldIsMeant
  /\ focus = "keys" => Deck!OneEmulator

\* An auth key stays that of the Drone it was pasted on.
KeysKeepTheirOrigin == focus = "tailnet" => Tailnet!KeysKeepTheirOrigin

\* What was applied to EmulationStation is kept.
AppliedIsKept == focus = "frontend" => Frontend!AppliedIsKept

\* An idle period sets the volume once and exits a game twice at most.
EachPeriodOnce == focus = "idle" => Idle!EachPeriodOnce

\* The server: what it started is over when its owner has retired it, and its password
\* and sessions are the operator's.
ServerIsTheOperators ==
  /\ focus = "server" => Server!NothingOutlivesItsServer
  /\ focus = "access" => Access!AccessIsTheOperators

\* No edit of a gamelist is lost to another.
NoEditIsLost == focus = "gamelist" => Gamelist!NoEditIsLost

\* Peers: a call for a peer reaches that peer and nobody in its place, and its pin is
\* the same in its row and in its file.
PeersAreThemselves ==
  /\ focus = "routes" => Routes!RoutesLeadToThePeer
  /\ focus = "routes" => Routes!PinsAgree

\* The Ports client: what the request screen says of downloads and games is so, and
\* the screens do what the user meant and show what came of it.
ScreensTellTheTruth ==
  /\ focus = "requests" => Requesting!ScreenIsTrue
  /\ focus = "operations" => Operations!OperationsAreMeant
=============================================================================
