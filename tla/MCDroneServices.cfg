SPECIFICATION Spec
CONSTANTS
  k1 = k1
  k2 = k2
  k3 = k3
  i1 = i1
  i2 = i2
  n1 = n1
  n2 = n2
  p1 = p1
  p2 = p2
  g1 = g1
  g2 = g2
  g3 = g3
  u1 = u1
  u2 = u2
  u3 = u3
  u4 = u4
  pa = pa
  pb = pb
  da = da
  db = db
  e1 = e1
  m1 = m1
  m2 = m2
  c1 = c1
  c2 = c2
  s1 = s1
  s2 = s2
  mk = mk
  f1 = f1
  f2 = f2
  r1 = r1
  r2 = r2
  r3 = r3
  sa = sa
  sb = sb
  a1 = a1
  a2 = a2
  user = user
  mender = mender
  b1 = b1
  b2 = b2
  NoKey = NoKey
  NoWorker = NoWorker
  NoProgram = NoProgram
  NoFilm = NoFilm
  NoPicture = NoPicture
  NoItem = NoItem
  NoPart = NoPart
  NoGid = NoGid
  NoDrone = NoDrone
  NoGame = NoGame
  NoSource = NoSource
  NoClient = NoClient
  Own = Own
  Focus = {"hardware", "moves", "migration", "uploads", "mail", "guard", "update", "transfer", "catalogue", "shares", "exports", "vpn", "scrapes", "library", "deck", "keys", "tailnet", "frontend", "idle", "server", "access", "gamelist", "sync", "routes", "requests", "operations", "sunshine"}
  Primary = {"dmi_product_uuid", "platform_serial"}
  Secondary = {"dmi_board_serial"}
  Digest = {1, 2}
  Item = {i1, i2}
  Name = {n1, n2}
  NameOf <- NamesOf
  Before = {}
  Crashes = 1
  Requests = 2
  Drops = 3
  Late = FALSE
  Part = {p1, p2}
  Gid = {g1, g2, g3}
  MigrationBounds <- Migrations
  Peer = {pa, pb}
  Upload = {u1, u2, u3, u4}
  Uploader <- Uploaders
  Drone = {da, db}
  Matter = {e1, m1, m2}
  IsEvent = {e1}
  IsBackup = {m1}
  MailBounds <- MailFaults
  File = {c1, c2}
  Generated = {c2}
  Session = {s1, s2}
  Value = {"u", "v1", "v2"}
  NoValue = "none"
  ValueOf <- Values
  Overlap = FALSE
  Torn = FALSE
  Edits = 1
  Faults = 1
  PortsFile = {"launcher", "client"}
  AppFile = {"VERSION", "main"}
  ContentFile = {"images"}
  UpdateBounds <- Updates
  AssetFile = {mk, f1, f2}
  Marker = mk
  Manifest <- Files
  SizeOf <- Sizes
  Inode = {1, 2, 3, 4, 5, 6, 7}
  TransferSetting <- Pulls
  System = {sa, sb}
  Game = {r1, r2, r3}
  SystemOf <- Systems
  Folders = 2
  CatalogueBounds <- Catalogues
  Source = {pa, pb}
  ShareBounds <- References
  Client = {pa, pb}
  Address = {a1, a2}
  ExportBounds <- Grants
  Sharer = {pa}
  Caller = {user, mender}
  Healer = mender
  MaxAttempts = 2
  SameAddress = FALSE
  VpnBounds <- Tunnels
  Entry = {e1, m1, i1}
  Album <- Albums
  ScrapeBounds <- ScrapeRuns
  Path = {p1, p2, r1}
  Film = {f1, f2}
  Picture = {i1, i2}
  PictureOf <- Pictures
  ShowPicture = i2
  Stock <- OnShelves
  LibraryBounds <- Shelvings
  Worker = {u1, u2, u3}
  DeckBounds <- Decks
  Layout <- Layouts
  Dangerous = {"reboot", "shutdown"}
  Launcher = {"worker", "drone"}
  Program = {g1, g2}
  KeyBounds <- KeyUses
  AuthKey = {k1, k2, k3}
  KeyPeer = {pa, pb}
  Here = "here"
  Origin <- Origins
  TailnetBounds <- Enrollments
  Backup = {b1, b2}
  NoBackup = NoBackup
  FrontendBounds <- Frontends
  IdleBounds <- Evenings
  PollerKind = {"mail"}
  Poller = {u1, u2}
  LifecycleBounds <- Lifetimes
  Token = {k1, k2}
  Login = {c1, c2}
  AccessBounds <- Accesses
  Rom = {r1, r2}
  Namesake <- Namesakes
  ArtField = {"image", "marquee"}
  Editor = {u1, u2}
  Offered <- Images
  GamelistBounds <- Gamelists
  Entries = 5
  ContentOf <- SyncContents
  EntrySystem <- SyncSystems
  Libraries <- PeersLibraries
  Borrowed = {5}
  PageSize = 2
  MaxJobs = 4
  Walk = {c1, c2}
  SyncBounds <- Syncs
  Route = {"tail", "host", "ip", "plain"}
  Order <- RouteOrder
  Named = {"host"}
  Secure = {"tail", "host", "ip"}
  Cert = {"A", "B"}
  Original = "A"
  NoCert = "none"
  Metadata <- PeersRoutes
  Dialer = {c1}
  Pairer = {p1}
  RouteBounds <- Routing
  NoPeer = "nobody"
  NoSystem = "none"
  Collection <- PeersGames
  Narrow = {2}
  Recent = 3
  RequestBounds <- Askings
  OperationBounds <- Operatings
  Requester = {w1, w2}
  Installer = "job"
  SunBounds <- Installs
INVARIANTS PayloadsAreKept TransfersAreTrue MailIsKept InstallsAreContained LibrariesAreTrue SharesAreOwned TunnelStaysRight DeckDoesAsMeant KeysKeepTheirOrigin AppliedIsKept EachPeriodOnce ServerIsTheOperators NoEditIsLost PeersAreThemselves ScreensTellTheTruth
PROPERTY MissingIsNeverNew SettingsAreBorrowed
CHECK_DEADLOCK FALSE
