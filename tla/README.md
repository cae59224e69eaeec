# Batocera Drone: TLA+ models and proofs

A *Drone* is a Python service that runs next to Batocera (a game console Linux)
on each machine of a household or of a few friends.  Drones find each other on
the LAN or on a Tailscale tailnet, pair, exchange ROMs, play together, and run
downloads, torrents, mail, VPN, network shares and integrations for their host.
There is no central server: what is true of the swarm is what each Drone has on
its disk.  This directory holds TLA+ specifications of the parts whose state
machines are hard to test, the TLC configurations that check them and the
theorems about them that TLAPS proves.  Paths below are relative to the
repository; line numbers of every definition are in `PROJECT.json` (`map`).

    tlc -workers 2 -config MCSwarmMembershipSerial.cfg MCSwarmMembership.tla
    tlc -workers 2 -config MCDroneServices.cfg MCDroneServices.tla
    tlapm SwarmMembership_proofs.tla

## 1. The system

### 1.1 How it runs

One process per Drone (`app/main.py`, `app/drone_api.py`): an HTTPS server that
handles every request in a thread of its own, and long-lived threads beside it:
the peer health loop, discovery, the ROM scanner and the file watcher, download
workers, the torrent tick, the multiplayer sweep, the mail sender, the update
poller, the VPN supervisor.  State is kept in SQLite (a key-value table,
`app/storage/state_store.py`, and one database per catalogue) and in JSON files
that are replaced by rename.  Each component has a lock of its own; no lock is
held across a network call, with the exceptions named below.  The process is
restarted by updates, by an identity change and by power failures, which on this
kind of device are an everyday event.

### 1.2 Components

For each: state | operations | who it talks to | what is hard | what makes it right.

**Swarm membership** (`transfer/swarm_membership.py`). State: one record per
Drone (add or remove, epoch, origin, card), mint clock, `departed`, dirty and
forwarded generations. Operations: approve, local removal, accept records,
reconcile with the paired rows, propagate. Talks to paired peers over HTTP and
to the paired-peer store. Hard: unordered gossip, stale writers of the row map,
bad clocks, a crash between two files. Right when: a removal holds against any
gossip; a pin moves only by pairing; only the operator or the member itself
removes; records that a Drone mints are accepted by its peers; rows and records
converge.

**Paired peers** (`transfer/local_network.py`, `peer_workers.py`,
`network_identity.py`). State: paired rows, forgotten marks, pinned
certificates, discovered and reachability caches. Operations: announce,
discover, save, refresh, forget, probe. Hard: every writer loads and saves the
whole map. Right when: a row is never lost to an unrelated writer for good.

**Pairing and peer requests** (`transfer/peer_connectivity.py`,
`web/handlers_peer.py`, `web/handlers_network.py`, `web/server_tls.py`). State:
pairing code, certificate files. Operations: pair (both directions), authenticate
a peer by its client certificate, tailnet sweep. Hard: both sides act at once,
and check and save are apart.

**Hardware evidence** (`common/hardware_identity.py`). Pure: two readings of
hardware identifiers give *same*, *different* or *ambiguous*. Hard: identifiers
come and go. Right when: a loss of identifiers never looks like a new machine.

**Identity provisioning** (`common/identity_provisioning.py`,
`common/device_identity.py`, `transfer/swarm_reset.py`, `transfer/drone_tls.py`).
State: binding, journal, marker, authorization, device id file, key and
certificate, retired ids. Operations: verify at start, provision after a hardware
change, resume, adopt, rebind when authorized, resolve, rotate. Hard: eight
durable steps with power cuts, imaged disks that run twice. Right when: no two
machines serve with one identity, a copy keeps nothing of its source's trust, the
source is never replaced, and what was cut off finishes.

**Tailnet node** (`device/tailnet_service.py`, `install_tailscale.sh`). State:
the daemon, the node's prefs, enrolment keys shared among Drones. Operations:
preflight, hold, reset, release, join, key rotation. Hard: another service starts
the daemon.

**Download queue** (`transfer/download_manager.py`, `transfer/transfer_batch.py`,
`web/handlers_downloads.py`). State: jobs, cancellation events, batches, the saved
queue. Operations: enqueue, claim, progress, finish, cancel, pause, resume, retry,
clear, restore. Hard: workers against commands, deferred persistence, restart.
Right when: one worker per job, nothing revives, what was acknowledged is saved,
each batch reports once and truthfully, the queue drains.

**Peer transfer** (`transfer/peer_download.py`, `signed_inventory.py`,
`transfer_batch.py`, `web/handlers_network.py`, `handlers_peer.py`). State: `.part`
files and their inodes, installed files, inventories with a key, batches of uploads with
a timer. Operations: walk a peer's inventory and queue what is missing, pull a
ROM, a folder game, a BIOS file or artwork over the routes of a peer, begin and
finish an upload. Hard: jobs that share a `.part`, a peer that upgrades half way, a
library that changes between two pages, a timer that fires while an upload begins. Right
when: what is present is whole, each entry is queued once, each upload counts once.

**Multiplayer** (`multiplayer/`). State: host session (players, wave, version),
guest replicas, invitations, plans, running games, configuration journal.
Operations: create, invite, respond, ready, launch, report, probe, leave, cancel,
recover. Hard: host and guests over a network that loses replies and executes
requests after their timeout, a sweep that races requests, late reports of an
earlier launch.  Right when: a guest launches only what its user confirmed, a
session that is over leaves nothing running on its host and is heard of, a version
means one state everywhere, nobody is said to play who does not, who left stays
out, and a start comes to an end.

The **configuration guard** (`multiplayer/config_guard.py`) journals the emulator
settings that a session borrows; **Sunshine** (`multiplayer/dependencies.py`) is
installed on request as a user service known by a receipt.

**Torrents** (`transfer/torrent_manager.py`, `aria2_runtime.py`). State: queue
rows with aria2 ids, pending removals, move and migration jobs; aria2's downloads. Operations: the
worker's tick in its steps, add, cancel, pause, delete, move, migrate, settings. Hard: the lock is
released around each aria2 call, and ids do not outlive the daemon. Right when: what was removed
stays removed, aria2 holds nothing that nobody knows of, no payload and no progress
is lost.

**Mail and notifications** (`device/smtp_manager.py`, `storage/mail_queue_store.py`,
`storage/audit_store.py`). State: events, mail queue, configuration with its owner; a Drone
without an account relays to the Drone that owns it. Hard: a crash after sending, lost
answers, relays in both directions. Right when: nothing is forgotten, and nothing is mailed twice unless it
was cut off within a send.

**Self update** (`common/self_update.py`). State: the installed trees, `VERSION`. Hard:
a restart in the middle of copying. **VPN** (`device/vpn_manager.py`,
`rgs_service.py`). State: credentials with their origin, one process found in `/proc`. Hard: a
revocation answered late, self-healing beside the user's own connects. **Network shares**
(`device/network_share_manager.py`, `network_es_overlay.py`,
`nfs_export_manager.py`). State: a record per reference or authorization, mounts, BIOS links, an
EmulationStation overlay, the export table. Hard: jobs, watchdog and boot replay side by side.
**ROM catalogue** (`roms/rom_scanner.py`, `rom_fs_watcher.py`,
`storage/rom_metadata_store.py`). State: rows, the MD5 that lets a scan pass over a
system, inotify watches. Hard: deletions and purges in the middle of a poll, folders that change
while they are walked. **Artwork and game lists** (`roms/rom_artwork_apply.py`,
`gamelist.py`, `web/handlers_artwork.py`). State: `gamelist.xml`, edited by read-modify-write.
**Movies and music** (`movies/`, `music/`). State: index, metadata rows, shared artwork, scrape
jobs. **Device control, backups, automation** (`device/device_control.py`,
`config_backup.py`, `automation.py`). State: the settings EmulationStation writes at its stop, backup
rows and tarballs, the idle poller's arming. **Tailnet keys** (`device/tailnet_service.py`). State: own and
imported auth keys, enrolment. **Stream Deck** (`integrations/streamdeck/`). State: the worker
process and its lock, documents and profiles, keys that are held. **Web server and
authentication** (`drone_api.py`, `common/runtime_state.py`, `common/auth.py`,
`web/handlers_system.py`). State: servers, pollers and their generation; password, sessions.
**Ports client** (`src/ports-client/`). State: what its screens show and what they
have asked for. **OpenAPI description**, **user interface**,
**transports**, **scripts**: the frame around the above.

### 1.3 How they interact

    operator, peers ──HTTP──▶ handlers ──▶ membership ◀─▶ paired rows ◀── discovery, tailnet sweep
                                 │              ▲
                                 │         reset at provisioning
                                 ▼              │
                         download queue    identity provisioning ──▶ certificate, tailnet node
                           │      ▲              ▲
                     peer transfer └ ROM scanner └─ hardware evidence
                                 │
                            multiplayer (needs paired peers, ROM catalogue, device control)

Identity provisioning runs first at every start and decides whether the rest may
serve.  It clears membership, paired rows and credentials through
`swarm_reset.py`, and holds the node.  Membership changes the paired rows and is
changed by pairing; downloads, torrents and multiplayer read the paired rows.

## 2. Modules

| Module | Models | Proofs |
|---|---|---|
| `SwarmMembership` | the rules of a membership block (heal, order of records, acceptance, reconciliation, approval, removal), and one Drone's membership and paired rows, its threads, a crash; other Drones are the environment | `SwarmMembership_proofs` |
| `HardwareIdentity` | comparison of hardware readings | `DroneIdentity_proofs` |
| `HardwareReadings` | the same, over every pair of readings, a reading shrinking step by step | `DroneIdentity_proofs` |
| `DroneIdentity` | provisioning on several machines whose disks are imaged, moved and cut off; uses `HardwareIdentity` | `DroneIdentity_proofs` |
| `DownloadQueue` | the queue, its workers, requests, batches, the saved queue | `DownloadQueue_proofs` |
| `MultiplayerSession` | states, moves and settling of a session, as functions of its players; one session at its host and its guests, over a network | `MultiplayerSession_proofs` |
| `TorrentQueue` | rows, the tick in its steps, commands, aria2 and its restarts, the watched folder | |
| `TorrentMoves`, `TorrentMigration` | the move of finished files and of a partial download, file by file; the unlinking of `.torrent` files | |
| `MailRelay` | events and mail jobs of an owner and its satellites | |
| `ConfigGuard`, `OwnSettings` | borrowed emulator settings, and the abstract specification they implement | `ServiceRecords_proofs` |
| `PeerTransfer`, `SyncPlanning` | one asset pulled from a peer, and batches of uploads; what a bulk request queues | |
| `SelfUpdate`, `SunshineInstall` | what Drone installs: itself with the Ports client; a streaming host | `SunshineInstall`, `DroneServices_proofs` |
| `RomCatalogue` | scans and the file watcher | |
| `GamelistEdits` | concurrent edits of a game list | `DroneServices_proofs` |
| `NetworkShares`, `NfsExports` | references to a peer's library at the one that mounts and at the one that exports | `ServiceRecords_proofs` |
| `VpnTunnel` | the tunnel and its credentials | `DroneServices_proofs` |
| `TailnetNode` | the node and the auth keys shared among Drones | `DroneServices_proofs` |
| `ScrapeJobs`, `MediaLibrary` | bulk scrapes; index, rows and artwork of movies and music | |
| `StreamDeck` | the worker process; one key, its hold, and game launches | `ServiceConduct_proofs` |
| `FrontendControl`, `IdleAutomation` | EmulationStation's settings and backups; the idle poller | `DroneServices_proofs` |
| `ServerLifecycle`, `AdminAccess` | servers and pollers of a process; password and sessions | `ServiceRecords_proofs` |
| `PeerRoutes` | routes to a peer, pairing and the certificate pin | `ServiceConduct_proofs` |
| `PortsRequests`, `PortsOperations` | the screens of the Ports client | |
| `DroneServices` | one instance of each module from `TorrentMoves` on, and of `HardwareReadings` | |

`MC...` modules give the constants their values.

### 2.1 SwarmMembership

`db` is the disk: the `swarm_membership` payload (`records`, `clock`, `departed`,
`dirty`, `forwarded`), the rows, the forgotten marks and the pinned certificate
files.  `lock` is `_membership_lock`; `thr[t]` is what thread `t` is in the middle
of.  A locked block (`_with_state`) is two actions: `Enter` takes the lock and
loads the rows, the action named after the operation commits the payload and the
rows.  In between, writers that do not take the lock (`save_paired_peer`,
`forget_peer`, `record_discovered_peer`) may load and store the map of rows; each
of them is a load and a store too.  So a stale snapshot is stored over a newer map
exactly where the code does it.  Network exchanges happen between actions.
A block writes the certificate and the row of one peer after the other and the payload last, so a
crash inside it (`StoredInPart`) leaves any of its peers stored and the payload as it was; a pairing or
a removal may be cut off between certificate and row in the same way (`DropCertificate`).
A round of propagation (`Propagate` to `Propagated`) asks the peers that were due one by one; what
happens to them meanwhile is met when their turn comes.  The scheme and URL checks of a received
card, which only refuse more (swarm_membership.py:366), and the bound of four rounds in a row are left out.

`MaxEpoch`, `Ahead`, `FarClock` and `LegitCap` stand for the constants of the
code that bound epochs and recognise a poisoned clock.  `MaxClock` bounds how
often this Drone mints and `MaxCrash` its crashes; the theorems hold for any
`MaxClock` up to `FarClock`, which is 5 000 000 in the code.

### 2.2 HardwareIdentity and HardwareReadings

`Compare` is `compare_hardware`: primary identifiers decide alone if any is
comparable, secondary ones otherwise.  A missing identifier is no evidence.

### 2.3 DroneIdentity

`disk[d]` is what survives: binding, journal, marker, authorization, key,
certificate, id file, the swarm's trust, and the Tailscale node.  `where[m]` is the
disk in machine `m`, `proc[m]` the memory of its Drone process, `daemon[m]` whether
tailscaled runs.  Each durable write of `verify_or_provision`, `_provision`,
`reset_swarm_state`, `resolve` and of a rotation is one action, so that `Crash`
may fall between any two.  Random values are tokens that name the machine that drew
them; trust, sessions and nodes carry the installation that acquired them
(history variables `home`, `excused`, `rebound` are for the properties only).

What can happen is given by `site`, chosen in `Init`: how many disk images,
moves, crashes, failing steps and requests there are, which readings the hardware
gives, and whether there is Tailscale, a device id fixed by the environment, or
an installation older than bindings.  One run so covers seven settings, each deep
in one kind of trouble; crossing all of them is out of reach.

### 2.4 DownloadQueue

Each block under the manager's lock is one action.  `event` are the
`threading.Event`s of `_cancel_events`, `stored` the saved queue, `depth` and
`dirty` the deferral of `batch_persistence`.  Bell entries leave the lock in
`outbox` and are written by `Emit`, in any order between lists.  `Crash` restarts
from `stored` through `_restore_state`.  `left` is the setting with its remaining
bounds: one of four, each with two workers or two bulk requests, up to three
commands, a reconnect, a crash, or artwork that follows a ROM.

### 2.5 MultiplayerSession

`host` and `player` are the host's record of the session, `watch` what
`SessionStore.set_local` keeps about a player and does not replicate.
`thread[t]` is what a thread of the host is in the middle of: the start worker,
the retry, End session, housekeeping, or whoever evaluates the launch or fails
the session ("judge").  `guest[g]` is a guest's replica with its invitation, its
plan and its game, `busy[g]` its launch worker, `call[g]` the requests its user
and its worker wait for.  The network is `updates` (snapshots under way), `late`
(requests that the guest gave up on and the host may still handle), `stray`
(offers that wait for the guest's lock) and `link`.

A block under `session_lock` is one action where it makes no exchange, and where
it does, it is split and the lock is a predicate over who is inside: `Locked`
on the host (launching, a retry, End), `GuestLocked` on a guest (ready, leave and a confirmation
wait for the host under it, the worker launches under it).  Offers go out without
it: `Post` reads the session, `Offer` is what the guest does, `Mark` writes the
outcome to whatever the player has become by then.  Every change goes through
`Mutate`, which moves the version only if something changed.

An exit of the game may fail (`Closings`, `Exits`, bounded by `stuck`): `cleanup_host_resources` and, on a
guest, a launch that failed swallow the error, so the session still becomes COMPLETED or FAILED with the game open, and
says "cleanup failed" in its diagnostics (`attention`, a version of its own). With `Mute` it does
not say that either: `exit_game` does not look at whether emukill ended the game (lifecycle.py:397).
A guest's confirmation asks the host under the guest's lock (`Confirm`) and then takes the offer it had
read (`Take`), also one voided meanwhile (protocol.py:410). A report of a launch that cannot be
verified is answered and not applied.

`left` is the setting with its remaining bounds, chosen in `Init`: how far the
session is (`stage`), which guests take part, and how many starts, retries,
invitations, removals, changes of mind, departures, ends, lost messages, broken
links, failed launches, exits, crashes, restarts and sweeps there may be.  A
session in stage `playing` is in the state that a start which nothing disturbs
ends in.  Simplified: the mechanism is one that Drone launches on every machine;
slots, secrets, automatic confirmation, and the expiry of invitations are left
out; a session that expires ends as by End.

### 2.6 The services

`DroneServices` instantiates each service as a module of its own.  They run in one
process, but share no state that is modelled, so nothing is gained by interleaving them: a
behaviour is about one, chosen in `Init` (`focus`), and `x1` ... `x12` are the variables of that one,
renamed in the `INSTANCE`.  `HardwareReadings` and `ConfigGuard` are extended and keep names of their own
(the properties of the guard are those that its proofs name).  Each service has its bounds in a
constant (`MailBounds`, `ShareBounds`, ...), a set of records that say how often what may happen;
`Init` picks one and every action that spends a bound says so.

In every module a section under a lock is one action; what the code does between two
sections, a call over the network, a system call on which another program may act, or a durable write
after which a crash matters, is an action of its own.

- **TorrentQueue.** `rows` is `_torrents`, `gids` and `hashes` the pending removals, `aria` what the
  daemon has, `tick` the step of the worker's loop with the answers it holds, `todo` calls that
  commands make after they let go of the lock. `TickScan` to `TickAdopt` are the steps of `_tick`. A call
  may fail, time out, or time out and take effect later (`Lands`, where the setting is `late`). Whatever a command
  removes counts as gone; `Covered` are those of which the tick can still be told: a known hash that no
  running drain holds. A `strict` setting counts the others too.
- **TorrentMoves, TorrentMigration.** One action per file and phase; every section ends by saving, so
  that a restart finds the job as it is and the disks as the last system call left them. A file is
  absent, torn, partly there or whole.
- **MailRelay.** Two Drones, each an owner or a satellite; a row or job is known by its path through
  the Drones that relayed it. A send may be cut off, an answer lost, sharing revoked, an account replaced.
- **ConfigGuard.** `apply`, `restore` and the sweep over watched files, with the process dying between
  journal, backup and file, and, with `Torn`, between the two saves of a restore. `OwnSettings` says what is promised: the owner's values change only by an
  intervention. The refinement maps `value` to the content of a file unless a journal has its original.
- **PeerTransfer.** Files are inodes, names refer to them, a job that has `.part` open writes to it
  whatever it is called by then. `workers` jobs run at a time, of one or more jobs for the same asset; unless `shared`,
  the second waits while another fills the `.part` that it would open (`Filling`). The batches of uploads are the timer of
  `peer_workers.py`. **SyncPlanning** is the walk over pages; its cap counts assets and artwork, and with
  `both` a second walk may begin before the first has queued what it found.
- **SelfUpdate.** One action per copied file; `VERSION` is one of the files. **SunshineInstall.** A
  script is an inode and a text, the receipt a MAC of both under the key of the installed tree.
- **RomCatalogue.** A poll's steps with what it read at its start; `gate` is the stored MD5 of each
  system. The watcher's walk adds one watch at a time while folders are created.
- **GamelistEdits.** Edits as read-modify-write; `intended` is what the edits that were answered make,
  one after the other.
- **NetworkShares, NfsExports.** Requests, jobs, watchdog and boot replay with the lock of a peer
  (`section`); the kernel's table outlives the process.
- **VpnTunnel, TailnetNode.** Credentials with the peer they came from, a peer asked about a
  revocation without the lock, stops that fail and are tried again. A tunnel may be imported without credentials, and a
  connect to Proton is tried with a suffix on the user's name first (`Suffix`, `Launch`).
- **ScrapeJobs, MediaLibrary.** A job's thread, its progress row and the item outcomes; index, rows
  and the pictures that several rows name.
- **StreamDeck.** The lifecycle lock and the worker's own `runtime.lock`. `Apply` looks whether the
  integration is enabled and switches RetroArch's port on without the lifecycle lock (manager.py:694); restoring the
  port may fail, which the code swallows (`RestoreFails`). `on_key` and the detaching of a deck in their
  two sections each, hold timers, documents swapped meanwhile.
- **FrontendControl, IdleAutomation.** EmulationStation writes what it holds in memory when it
  stops; the poller decides on what it saw and acts later.
- **ServerLifecycle, AdminAccess.** Listeners that fail to bind, pollers that sleep through a stop;
  logins that race a change of password.
- **PeerRoutes.** Routes tried in order against a pin; pairing writes pin and row.
- **PortsRequests, PortsOperations.** A screen's one worker, the queue poll, and the render thread.

Where a behaviour the code does not exclude breaks the property (see the disagreements below), a bound of
the setting (`late`, `race`, `hangs`, `strict`, `shared`, `both`, `Overlap`, `Torn`, `torn`, `Mute`, ...) lets it happen, and the passing
run has it at zero (or FALSE). Raising it shows the disagreement.

Properties that a module states and the code does not hold are kept there, each with a comment
that begins "Not held by the code".

## 3. What the runs show

Passing runs (TLC explores every state, no error):

| Run | Shows | Bounds |
|---|---|---|
| `membership_serial` | Operations that do not overlap: `PinMovesOnlyByPairing`, `RemovalIsAuthorized`, `TypeOK` | three Drones, two mints, one crash, old rows, three wire records |
| `membership_threads` | The health loop against a request thread: `TombstoneHolds`, `MintedWithinReach`; rows and records converge (`RemovedPeerLeaves`, `MemberReturns`) | one peer, two threads, three mints, one crash, two wire records |
| `identity_safe` | A copy becomes another Drone without the trust and node of its source, and the source stays itself: `IdentityHasOneHome` (an identity stays where its hardware was recorded; a retired id does not come back), `NoSharedIdentity`, `NothingIsInherited`, `OriginalIsNeverReplaced` | seven settings, two machines |
| `identity_finishes` | A provisioning cut off twice ends with a serving Drone | two crashes, one move |
| `download_queue` | `JobsAreKept` (one worker per job; what was acknowledged is saved), `BatchesTellTheTruth`, `BatchesFinish`, `QueueDrains` | four settings, two jobs, two workers, up to two requests |
| `multiplayer_session` | `LaunchIsConsented`, `SaidIsSo` (an ended session has closed its game or says that it could not; a version means one state), `PlayedBeforePromoted` | seventeen settings: a start and one disturbance, one of them an exit that fails, two who play, the lobby |
| `multiplayer_ends` | A start ends (`StartingEnds`); the guests of a session that is over hear of it (`GuestsHearTheEnd`) | three settings in which housekeeping sweeps for ever |
| `torrent_queue` | `RemovedStaysRemoved` (what was removed while its hash was known and no drain held it); whatever aria2 has is known to the queue in the end (`HiddenComesToLight`) | one content, three rows, five ids, ten settings of up to two commands and one fault; `strict` is FALSE, `late` only where a magnet is added |
| `drone_services` | every other service, see below | per service, in `MCDroneServices` |

What `drone_services` shows, service by service (a grouped property is the conjunction of what is named; each
part has a mutant of its own in its module):

| Property | Says | Bounds that matter |
|---|---|---|
| `PayloadsAreKept` | a file to be moved is always somewhere whole, and nobody else's is deleted (`FilesAreSafe`); no byte of a partial download that was on disk is lost (`ProgressIsKept`) | two files; a crash, a failing call, a slow answer, a foreign file |
| `TransfersAreTrue` | what the peer has and we lack is queued, once (`EverythingOnce`); what is present is whole and of the bytes that were signed (`PresentMeansWhole`); an upload counts in one batch (`EveryUploadCountsOnce`) | five entries in pages of two, two walks (not `both`); two jobs for one asset on two workers, but not on one `.part` at once (not `shared`), a crash, an upgrade of the peer; four uploads of two peers |
| `MailIsKept` | an event is mailed, waits or is on its way (`NothingIsForgotten`); twice only if a send was cut off (`MailedOnce`) | two Drones, two matters, a crash, a lost answer, a change of account |
| `SettingsAreBorrowed` | `ConfigGuard` implements `OwnSettings` | two files, two sessions one after the other, an edit, a death of the process anywhere but between the two saves of a restore (`Torn`) |
| `InstallsAreContained` | the Ports client is never older than the app (`PortsNeverLag`); Sunshine's start, stop and removal touch no other service (`SunshineIsContained`) | a release, a restart, a failure; four requests, two edits by an administrator |
| `SharesAreOwned` | whatever a reference set up has a record that takes it down (`NothingIsLeftBehind`); an active authorization is exported (`ActiveIsExported`) | two peers, two requests, a crash |
| `TunnelStaysRight` | a late revocation spares the user's newer tunnel; RGS runs where it is noted to | three saves, two connects, a restart |
| `LibrariesAreTrue` | a system that a scan passes over has all its rows, and no change goes unheard (`RomCatalogue!CatalogueIsComplete`); the breakdown of a scrape adds up to its entries (`BreakdownAddsUp`); a row's picture is there (`PicturesAreThere`) | three ROMs, two polls and one of: deletion, purge, crash, unreadable list; four changes of folders; two jobs, a crash, a stop; two films sharing a picture |
| `DeckDoesAsMeant` | a disabled deck is left alone, and RetroArch's port is off or the answer says that it is not (`DisabledIsStopped`); a held key does what it showed (`HeldIsMeant`); one emulator at a time (`OneEmulator`) | three requests, two workers, an Apply beside them that does not end behind a Disable, a restore that fails; three presses, a profile switch, an unplugged deck |
| `KeysKeepTheirOrigin` | an auth key is shared only by the Drone it was pasted on | three keys, two peers, two calls |
| `AppliedIsKept` | a setting or backup that was applied is not overwritten by EmulationStation | three requests, one edit at the screen |
| `EachPeriodOnce` | the idle automations act once per idle period, and give up after two failures | one or two games, three faults |
| `ServerIsTheOperators` | no poller or listener acts for a server that is gone (`NothingOutlivesItsServer`); after a change of password only the operator has access (`AccessIsTheOperators`) | two servers, a failing bind; four passwords, two crashes |
| `NoEditIsLost` | a game list is what the answered edits make of it, one after the other | two edits and sweeps, a crash |
| `PeersAreThemselves` | a call reaches the pinned peer (`RoutesLeadToThePeer`); row and pin name one certificate (`PinsAgree`) | four routes, two calls or two pairings, a change of certificate |
| `ScreensTellTheTruth` | what a screen says of a request became of it (`ScreenIsTrue`); nothing is done that was not asked for (`OperationsAreMeant`) | four presses, a failure, a queue that moves on |
| `MissingIsNeverNew` | losing identifiers never turns the same machine into a new one | two primary and one secondary kind, two digests: every reading |

Two Drones' worth of epochs and one wrong record per kind are enough for the
membership rules because acceptance of a record depends on one row, one stored
record and one received record of the same Drone at a time.  Two machines are
enough for a disk and its copy; the theorems of
`DroneIdentity_proofs` say the rest for any number of both, any readings and any bounds.  Two jobs are enough for
queue order and for a batch of two; a second worker is what makes two holders of
one job possible.  Guests do not talk to each other, so a second one matters
only where the session settles over several players: those settings have two
guests and one fault, the others one guest and more faults.

One torrent suffices because rows share nothing but the slots; a second row of it is the
interesting case and is within bounds. The services' bounds were raised until each mutant was found and the run
stayed within minutes: each setting has two actors, or one actor and one or two faults, because the properties
relate two overlapping steps.

Runs that end in a violation, each of one sentence of the repository:

| Run | The repository says | The code does |
|---|---|---|
| `forgotten_tailnet_peer` | tests/test_unit.py:444: forgetting a tailnet peer suppresses automatic repair until it is restored | `record_local_removal` reconciles before it stores the tombstone, so the row is rebuilt from the stored add, its save clears the mark, and the next tailnet sweep pairs the peer again |
| `held_node_stays_down` | identity_provisioning.py:924: bring back a node taken offline while holding | the marker is unlinked before a release that needs the daemon, which the marker kept from starting |
| `resumed_job_cancelled` | download_manager.py:902: a paused download lands in 'paused' instead of 'cancelled' so resume_job can re-run it | `resume_job` leaves the cancellation event set, so the resumed job is cancelled |

Disagreements met while modelling that no run stands for. TLC refutes the named definition, which is kept in its
module, or the listed property once the setting's bound is raised; `PROJECT.json` (`findings`) has them all with the
sentence of the repository. The ones a maintainer would want first:

- `FailedIsClean` (`MultiplayerSession`).  lifecycle.py:338 has a session that fails stop what it
  started; `settle_live` moves it to FAILED inside the handler of the last guest's leave, where nobody calls
  `fail_session`, and the host's game stays open.
- `EndedLeavesNoGame` (`MultiplayerSession`).  multiplayer.md:208 has End close the game; the retry of a session
  that failed in this way forgets that it was launched, and End leaves the game running.
- `SaidIsSo` (`MultiplayerSession`, with `Mute`).  The same page; where `exit_game` does not raise although the game stays
  (lifecycle.py:397 looks at no answer), the session is COMPLETED, nothing is said, and the game runs.
- `SettingsAreBorrowed` (`ConfigGuard`, with `Torn`).  config_guard.py:354 has what an emulator writes late swept; `_restore`
  drops the journal (:399) and remembers what it missed afterwards (:401), so a process that dies in between
  leaves the join credential that the emulator writes then for good.
- `PresentMeansWhole` (`PeerTransfer`, with `shared`) and `EverythingOnce` (`SyncPlanning`, with `both`).  Two bulk requests that
  overlap queue a download twice (handlers_network.py:1587), and the pool has three workers: both jobs write one `.part`, and the one that
  is done first renames it while the other still writes.
- `RemovedStaysRemoved` (`TorrentQueue`, with `strict`, or with `late` beyond adding a magnet).  A row removed before its hash is known,
  or a removal while a drain holds the same hash, leaves nothing by which a later tick could tell the download that then shows up in
  aria2 (torrent_manager.py:3224), which is adopted as a new row.
- `DisabledIsStopped` (`StreamDeck`, with `late`).  `apply` (manager.py:694) reads `enabled` and switches RetroArch's port on
  without the lifecycle lock, so it may end behind a Disable that was answered; a removal swallows a failing restore and does not say so
  (:491, whereas Disable's answer carries it).
- `GossipKeepsPins` (`SwarmMembership`).  README.md:107 says that gossip never
  replaces a pinned fingerprint.  `_apply_add` checks the row it has read, and
  `save_paired_peer` loads again and overwrites a pairing stored in between.
- `AuthorizationUsedOnce` (`DroneIdentity`).  identity_provisioning.py:507 speaks of
  one upcoming hardware change.  A crash between the saved binding and the unlinked
  authorization leaves it for another machine.
- `multiplayer/lifecycle.py:244`, `:860`.  The outcome of an offer is written to a player that has left
  meanwhile; a player that is found again in the lobby comes back unready in a session that stays READY.
- `DownloadingIsRegistered`, `VpnIsRespected` (`TorrentQueue`).  A tick applies an answer to a row that was
  cancelled meanwhile; one that read the settings early starts aria2 outside the tunnel.
- `AppIsWhole` (`SelfUpdate`).  `VERSION` may be copied before the rest, and what is missing is never repaired.
- `SkippedIsComplete` (`RomCatalogue`).  A purge in the middle of a poll leaves systems that later polls pass over;
  renamed folders, queue overflows and an exhausted watch limit lose changes (`ChangesAreHeard`).
- `RevokedIsDown`, `BootstrapOverridesNothing` (`VpnTunnel`, `TailnetNode`), the two saves of an import of a tailnet
  key or of an SMTP account, after the first of which it counts as the Drone's own.
- `HeldIsMeant`, `OneEmulator` (Stream Deck) in the orders named with the findings; one of them is a document that is loaded
  between the two sections of detaching a deck (runtime.py:313).
- The restart button takes no `_ES_LIFECYCLE_LOCK`; a login that has checked the old password opens its
  session after the others were revoked; the gameplay spool is never drained (`drone_api.py:81`).

Every property of a passing run has a mutant, and so has every part of a grouped one: a plausible bug in
one mapped definition under which the run fails.  They stand next to the definitions they
change, marked `Mutant:`.

### Fairness

Safety runs use none.  `SwarmMembership!FairSpec`: threads that are in the middle
of an operation go on; the lock is granted in the end (strong fairness, as
Python's locks are not fair but are released at once by every holder); an exchange
ends because every request has a timeout; the health loop comes round again
(`peer_workers.py`).  Requests and crashes have no fairness.
`DroneIdentity!FairSpec`: a started process goes on, and a machine with power is
started again; there is no fairness of faults, images or requests.
`DownloadQueue!FairSpec`: worker threads go on, transfers end because sockets have
timeouts, delays elapse, a request handler ends; users owe nothing.
`TorrentQueue!FairSpec`: the worker's loop goes round (it catches what a tick raises), calls to aria2 time out,
and no retry delay lasts for ever; users and downloads owe nothing.
`MultiplayerSession!FairSpec`: the host's threads go on, its sweep comes round and
its clock passes the launch deadline (`multiplayer/worker.py` runs the sweep in a
loop); a guest's worker and its polls go on, and a request is answered or times
out; users, links and failures owe nothing.  Fairness is
spelt out with enabling conditions instead of `WF_`, because TLC evaluates `ENABLED`
of a large action slowly; each condition implies that the action is enabled.

Deadlock is not checked where bounds stop the system (`CHECK_DEADLOCK FALSE`
in every configuration but those of the membership): with no command, crash or
token left, everything may be done.

## 4. What is proved

For every value of the constants that satisfies the named assumptions.

`SwarmMembership_proofs`: `TypeCorrect`, `MintsStayWithinReach`, `TombstonesHold`,
`RemovalsAreAuthorized`, `ClockIsLocal`, `PinsMoveOnlyByPairing`.  The inductive invariant `IInv` strengthens `TypeOK` with four
facts. (a) The clock on disk never exceeds `MaxClock`, hence never `FarClock`, so
the heal that every load performs changes nothing: without it a load could lower
the clock below epochs already minted. (b) A record that is not marked remote (the flag of adds taken over from gossip) has an epoch within `Ahead` of the clock. (c) No tombstone is marked
remote: a removal is only accepted within the bound of the clock, so that an
approval that outranks it stays in reach too. (d) A thread that will write a row
holds one. Each action is one
lemma or one step; the four rules that rewrite
records (`Reconcile`, `Accepted`, `Approve`, `LocalRemoval`) have lemmas about
what they preserve, cited wherever a block commits. The action properties are conjuncts of
`DiskStep`, which every action keeps under `IInv`: the clock (`ClockStep`), the tombstones (`TombstoneStep`), and
that a new tombstone has either the operator of this Drone or a received record behind it that the removed peer signed
(`AuthorizedStep`). `PinsMoveOnlyByPairing` has the hypothesis `OneThread`, because with two threads it is
false: a row that is stored unlocked may be older than the pairing that it overwrites (run `membership_serial` checks it with
one thread, and the mutants of that run break it). What it needs beyond `IInv` is `SerialInv`: while the only thread is
in the middle of an operation, the rows that it has read are those on the disk, and the fingerprint it is
about to store is that of the row, unless it pairs.  Assumptions: `SelfAssumption`,
`InputAssumption` (wire records carry no local mark), `BoundAssumption`,
`ThreadAssumption` and those that bound the rules.

`DroneIdentity_proofs` has first what `Compare` promises of any readings: `MissingNeverNew` (losing identifiers never turns *same*
into *different*), `OwnHardwareIsNeverNew` (two partial readings of one machine are
never *different*) and `OtherHardwareIsNeverSame`, by cases on which kind of
identifier is comparable. Then provisioning, for any number of machines, disks, images, moves, crashes, failing steps
and requests: `IdentitiesHaveOneHome`, `CopiesInheritNothing`, `OriginalsAreNeverReplaced`. The hypothesis of the three is
`UniqueHardware`: no two machines own the same identifier, which is the limit that the repository documents (README.md:174, "identical
virtual hardware"). Readings may be partial, ambiguous, or empty at any start. The inductive invariant `IdentityInv` has three parts,
which speak in terms of two sets: `Native`, the installations that a machine may use, because their hardware was recorded
there, or none was and only its disk has them in use; and `Rightful`, the pairs of an installation and a hardware that may be recorded of it.

- `Shapes`: types; no disk is in two machines; a token that nobody drew has no home.
- `DisksKnow`, of every disk, in a machine or on the shelf: a binding with hardware is rightful, one without, and without a
  journal, is of an installation that only this disk has in use; pins, roster, credentials and sessions are those of the binding
  or gone, the node too unless its check is pending; a disk with neither binding, journal nor keys has no trace of a swarm.
- `MachinesKnow`, of every machine: what its process knows of its disk at the step that it is at. `VerifyKnows`, `MigrateKnows`, `JournalKnows`,
  `ProvisionKnows`, `ResetKnows`, `BoundKnows` and `ServeKnows` are each about one stretch of the code; the steps that write a key
  or a certificate are shared by three of the callers, so what is known there depends on where the process goes next.

What the run checks is far from inductive: that a clone serves without inherited trust follows from the order of its erasures, and
that order is what `ResetKnows` keeps across crashes and resumed runs. A step of one machine changes its own disk and process, and
is proved as a step from one disk and process to another; the lemma `LocalStep` lifts it to all
machines, since no two machines draw the same token. Imaging, moving and switching off are proved for the
fleet. `OriginalsAreNeverReplaced` follows from `IdentityInv` and `OwnHardwareIsNeverNew`, because validation is the only step
that judges. Assumptions: `IdentityAssumption`, `SiteAssumption` (a device id fixed by the environment is nobody's random draw).

`MultiplayerSession_proofs`. For any number of players: `SettlingIsLegal` (settling never
asks for a move that `SessionStore.mutate` refuses), `SettledIsTrue` (a start settles
only when nobody is waited for, as RUNNING only when everybody who takes part plays)
and `ReadyIsTrue`. For any number of guests, starts, retries, ends, lost, late and repeated
messages, exits that fail, crashes and restarts, without a hypothesis: `SessionTypes`, `LaunchesAreConsented`; with one, `~Mute`:
`WhatIsSaidIsSo`, that a session which ended has closed the game of its last start or says in its diagnostics that it could not, and that
a version means one state. `~Mute` is that an exit which fails raises; the code does not ensure it, and with `Mute` the first half is false (see the findings).
The inductive invariant `SessionInv` has, besides the types (`HostTypes`, `GuestTypes`, `NetTypes`, finer than those TLC
checks: a player who is unreachable, and no other, has kept the status it is found in again), three facts. `EndWaits`: End
and a start worker that has begun to launch exclude each other, which is what keeps the host's game
from outliving End. `SnapshotsAgree`: whatever carries a version, a guest's replica, a snapshot under
way, an answer that waits, is no newer than the host's record and the same as it if it has its version; every
action that writes the host's record therefore shows that it advances (`Advances`: the version never falls,
and while it stays so do the states). `LauncherIsAlone`: while a guest's worker has work, no
request of its user waits for the host, the guest is not over and its plan, if any, is the one that the work was taken from
and is consumed. Assumption: `SessionAssumption`. `PlayedBeforePromoted` relates the transition of a player to reports of an
earlier wave and stays with TLC.

`ServiceRecords_proofs`, about services that keep records of what they gave, took or borrowed: `SettingsComeBack`, that the guard implements `OwnSettings`, for any files,
sessions, values, edits and faults: every step is, seen through the map, an intervention of the
owner or nothing at all.  The inductive invariant `GuardInv` strengthens the type with five facts.
(a) `OneClaim`: at most one session has to do with a file, so what one puts back is never what
another put there. (b) `TxnHolds`: a file that a transaction is about is in the journal, which is
written first; without it a death between two writes could lose an original. (c) `Late`: a
session's value in a generated file came from its emulator, and the session still knows of that file.
(d) `GeneratedOrig`: what the journal would put back in a generated file is nothing, or is yet to be swept.
(e) `Processed`: a file that a restore without errors is done with no longer needs its journal,
which is why the journal may be deleted at the end. One lemma per action keeps them; `Unnoticed` says that a step that
changes neither a file nor what its journal has is invisible to its owner.  Assumptions: `GuardAssumption` (sessions set
different values, because credentials are drawn at random, and none of them is "no setting").  Hypotheses: `~Overlap`, no session watches a file
that an ended one still looks for, and `~Torn`, the process does not die between the two saves of a restore while the emulator
of a file that this restore missed has written it or still may.  The code ensures neither, and without either the theorem is false (see the findings).

And in the same module, with the frame of the services described below:

- `SharesStayOwned` (`NfsExports!ExportInv`, `NetworkShares!ShareInv`): from the moment an authorization has exported its
  addresses until its record says so, nobody takes them out of the table, because an address that another active
  authorization names is spared; and mounts, links and overlay have a record of their own peer, because a step that
  sets one up holds the peer's section and has seen its record, and one that deletes the record has taken
  all three down. The hypothesis is that the kernel takes every export (`export` is 0): an export
  that fails is taken back, also from another authorization that shares the address. Assumptions: `ExportAssumption`, `SourceAssumption`.
- `ServerStaysTheOperators` (`ServerLifecycle!LifecycleInv`, `AdminAccess!AccessInv`): every running poller that is not retired
  is of the present database and the only one of its kind, every bound port belongs to a listener that its server knows of, and
  only the threads of the present generation of the local network are not quiet; no credential on its way to a session is older than the last
  change of password that ended. The hypothesis is that no login overlaps a change (`late` is 0): one that does opens its session after
  the others were revoked (see the findings). Assumption: `AccessAssumption`.

`DownloadQueue_proofs`: `QueueTypes`, `JobsKept`, `BatchesTruthful`, for any number of jobs, workers, bulk requests, batches,
commands and crashes.  `IInv` has five parts. `TypeInv` is finer than the type that TLC checks: a job's
state is bound to the fields that go with it. `WorkerInv`: slots are taken in order, and a job
that was never enqueued is neither in the queue nor in the saved one; a worker
that transfers has a job that is downloading, so a job that is taken from the queue is with no other worker. `SaveInv`: unless
the queue is marked `dirty`, every job is in the saved queue as its user was told (`Kept`); the depth of deferral is
the number of bulk requests that are open, so that the last one to close saves. `BatchInv`: what a batch counts is
what it has recorded, what it has recorded has ended, and what was selected for it are the jobs that it owns, unless a crash
cut it off; `TellInv`: an entry for the bell is in one place only, with the thread that took it from the lock, or rung. Without
`TellInv`, two lists that leave the lock one after the other could ring one end twice.  Assumptions:
`QueueAssumption`, `SettingAssumption`.

`DroneServices_proofs`: theorems about seven of the services, each for all values of that service's constants, and all with the
same frame. `focus` never changes (`FocusStays`), so a step of the composition is a step of the
service in focus, and the service's inductive invariant, which stands in its own module, is kept by each of its
actions.

- `EditsAreSerial` (`GamelistEdits!EditsInv`): a task that has begun to write holds the lock, and writes what its edit
  makes of the edits answered before it; a list that is whole is that of the edits that were answered. Artwork fetched
  before the lock is looked at again under it, which is where the proof needs `ReadAgain`. Assumption: `EditorAssumption`.
- `AppliedStays` (`FrontendControl!FrontendInv`): whoever stops or starts EmulationStation holds the lifecycle
  lock, the worker serves the request that holds it, and the frontend is down while settings are written. The hypothesis
  is that `late` is 0 in every setting: nobody presses the restart button, which takes no lock, no caller gives up and no
  process ends while the control worker is in the middle of a restart, and a tarball that is there can be read. With `late`
  above 0 the worker or the button starts or stops EmulationStation under another's hands, and TLC finds the overwritten
  setting (see the findings). Assumption: `FrontendAssumption`.
- `KeysStay` (`TailnetNode!TailnetInv`): an import holds the credentials' lock from the first of its two saves to the second, and a
  key on its way is one that the peer it came from had pasted. The hypothesis is that no process ends between these two saves
  (`late` is 0): after such an end an imported key counts as pasted here (see the findings). Assumption: `TailnetAssumption`.
- `PeriodsAreDoneOnce` (`IdleAutomation!IdleInv`): what was tried in a period armed the stamp of that period, tries
  of an exit never outnumber its failures while it is not armed, and two failures arm it. No hypothesis.
- `InstallsStayContained` (`SelfUpdate!UpdateInv`, `SunshineInstall!SunInv`): the release that a worker installs is between
  what is installed and the latest one, and every Ports file is of it before the first file of the app is taken; whoever
  installs, starts or removes Sunshine has it for itself, a script of Drone's is known by its receipt except between the
  two writes, and a thread that is about to enable, run or unlink the script has seen that it is Drone's. The lemmas about
  Sunshine, one for each action, are in its module. The hypothesis on `SunBounds` (`late`, `torn` FALSE) is the setting of the run: no
  request overlaps a start, the administrator edits the script while nobody relies on what was read of it, and no crash falls
  between script and receipt; the code excludes none of these (see the findings). Assumptions: `UpdateAssumption`
  (`VERSION` is a file of the app), `SunAssumption`.

- `LateStopsSpareNewTunnels`, `TunnelsStayRight` (`VpnTunnel!VpnInv`): `RetryKnows` says of a retry, wherever it is kept, that what it
  would still stop has credentials no newer than those that were revoked: it names a process number that is not given again within
  its boot, or, if it never saw one, a time before which the tunnel was started. `RgsKnows` says that the address RGS is noted on, or is about to be, is that of a tunnel
  that was up once, so that it does not come back once it is lost. The first has no hypothesis. The second has `~SameAddress`: if the provider gives
  an address again, a service that was started in between is taken to run on it (the code compares addresses).

`ServiceConduct_proofs`, about services whose requests overtake each other, with the same frame:

- `DeckObeys` (`StreamDeck!DeckInv`, `KeyInv`): one worker has the runtime lock, and every step of a request that disables or
  removes the integration knows that it is off, from the stop on that no worker of this Drone lives, and at its end that the
  port is off or that the answer says it could not be restored; an Apply that has looked is of an integration that stays enabled; a press that is under way is of the document that its
  timer was made from; and a launch that has passed the check finds no other game, because the games that are starting
  are those of the one launch that waits for its confirmation. No game is running and starting at once, a part of the
  invariant that the proof asked for. The hypotheses (`late`, `race` are 0) are that no Apply that found the integration enabled
  ends behind a Disable or a removal, that a removal restores the port, that Drone does not stop while a worker or the port
  is half started, that nothing is loaded, switched or unplugged between the two sections of `on_key`, nor loaded between those of a detach, and that no launch is given up on that may still
  start; each fails in the code (see the findings). So the theorem does not say that a Disable holds against any requests: it says that these
  are all the ways in which it does not. Assumptions: `DeckAssumption`, `KeyAssumption`.
- `CallsReachThePeer` (`PeerRoutes!RouteInv`), without a hypothesis: a call carries only addresses that it was given and has
  not yet tried, and `CallsKnow` says what a call that has tried some of them knows of the others. The proof
  showed that a call is "steady" only if also no name expired and no pairing moved the pin or the row while it ran; the
  actions that do so now disturb the calls under way, as those of the network did.
- `PeersStayThemselves` (`PinKnows`, in the proofs): pairings exclude each other, and each knows what the pin was before it and what it
  made of it. Hypotheses: pairings and removals do not overlap (`late`) and no row fails to be saved after its pin
  (`faults`); the code serializes neither. Assumption: `RouteAssumption`.

Only model-checked: everything temporal with fairness (`RemovedPeerLeaves`,
`MemberReturns`, `InterruptedProvisioningFinishes`, `BatchesFinish`, `QueueDrains`,
`StartingEnds`, `GuestsHearTheEnd`, `HiddenComesToLight`),
because liveness and `ENABLED` are out of the prover's reach; what `PinMovesOnlyByPairing`, `SaidIsSo`, `SettingsAreBorrowed`, `AppliedIsKept`,
`KeysKeepTheirOrigin`, `TunnelStaysRight`, `SharesAreOwned`, `ServerIsTheOperators`, `DeckDoesAsMeant` and `PeersAreThemselves` say without their
hypotheses is false, as TLC shows; `PlayedBeforePromoted`, `NoSharedIdentity`, all of `TorrentQueue`, and the
other services (`PayloadsAreKept`, `TransfersAreTrue`, `MailIsKept`, `LibrariesAreTrue`,
`ScreensTellTheTruth`).

`NoSharedIdentity` is not a theorem because its half about certificates is false beyond the settings of the run. With two images and two
failing steps (`Setting(2, 0, 0, 2, 0, 4, Steady, FALSE)`) TLC finds, after 54 steps: a disk is imaged; the
clone's provisioning fails after the old pair is gone, `ensure_certificate` issues a new certificate, and `record_certificate_rotation`
writes it into the binding that is still the original's; this disk is imaged back onto the original's, its
journal is damaged, and so the original verifies with that certificate while the clone's resumed run
keeps the valid pair. Both then serve with one certificate, where README.md:167 has a clone create its own. The search takes longer than
a run should, so it is none; within the settings of the run (one image, one failing step) the property holds. The half about device ids held
wherever it was checked.

`RemovedStaysRemoved` stays with TLC: the tick of
`TorrentQueue` adopts what aria2 has with a fold over a sequence of downloads, and what a fold does for
every sequence takes an induction over data, which is out of the prover's reach too.

## 5. The plan

1. `SwarmMembership`, `HardwareIdentity`: done, with proofs.
2. `DroneIdentity`, `DownloadQueue`, `MultiplayerSession`, `TorrentQueue` and the services: done, checked.
   `ConfigGuard`, `DroneIdentity`, `DownloadQueue`, `MultiplayerSession`, `GamelistEdits`, `FrontendControl`, `TailnetNode`, `IdleAutomation`,
   `SelfUpdate`, `SunshineInstall`, `VpnTunnel`, `NfsExports`, `NetworkShares`, `ServerLifecycle`, `AdminAccess`, `StreamDeck`, `PeerRoutes`:
   proved. To be proved: the other services, of which the upload batches
   are the smallest.
3. An abstract specification of multiplayer, in which the session is one state that moves
   forward and a guest's replica is an earlier value of it.
4. `SwarmGossip`: several Drones with the rules of `SwarmMembership`; what
   `handlers_peer.py:124` and the removal promise of README.md:107 need.
5. Access quarantine, media keys, the gameplay history (once something drains it), and hazards that no
   property covers yet: a generation that both a rotation and a start load (drone_tls.py:119), a
   crash before the authorization is unlinked (identity_provisioning.py:1188, see `AuthorizationUsedOnce`), a pairing
   of a forgotten peer (handlers_peer.py:124), progress after a cancel (download_manager.py:330), the reports of
   an earlier launch (multiplayer/lifecycle.py:688).

## 6. What is not modelled

Matching of game identities and emulator adapters (pure, sequential, covered by
unit tests), the OpenAPI table, web pages, the login screen and the render loop of the Ports
client, parsers of vendored formats, and I/O with the host.  Of the modelled components: progress
numbers, legacy payload formats other than those that change behaviour, retention limits
(25 recent jobs, 20 retired ids), audit wording, two certificate rotations at
once, externally managed tailnets, quarantine of access by failed logins, the speech and media keys of the Stream
Deck, previews of artwork.  The clock heal of the membership (swarm_membership.py:532) has no run of its own:
`ClockIsLocal` is proved for it.

Smaller differences: an administrator's request to provision publishes READY at once (identity_provisioning.py:852, 986) and the process is replaced
about a second later (self_update.py:635), whereas the model restarts it without that second; `FrontendControl` is the Drone
that runs as root, while one that does not (device_control.py:476, config_backup.py:438) leaves each sequence to the control worker, which takes one
after the other, and the init script tried where no request can be written (device_control.py:352) is left out; the cache of
missing artwork, which artwork from LaunchBox clears in the handler (handlers_artwork.py:231), also if nothing was updated,
is cleared as part of the edit.

`PROJECT.json` lists each component with what is left out of it.
