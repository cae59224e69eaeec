-------------------------- MODULE MCDroneServices --------------------------
(* Instances of the services: what may happen, one thing or two at a time.  *)
EXTENDS DroneServices, TLC

CONSTANTS
  k1, k2, k3, i1, i2, n1, n2, p1, p2, g1, g2, g3, u1, u2, u3, u4, pa, pb, da, db, e1, m1, m2, c1, c2, s1, s2,
  mk, f1, f2, r1, r2, r3, sa, sb, a1, a2, user, mender, b1, b2

NamesOf == i1 :> n1 @@ i2 :> n2

\* One fault of a kind, or two of different kinds.
Steady == [crash |-> 0, slow |-> 0, fail |-> 0, fetch |-> 0, command |-> 2, alien |-> FALSE]
Migrations ==
  {[Steady EXCEPT !.crash = 1, !.slow = 1], [Steady EXCEPT !.fetch = 1],
   [Steady EXCEPT !.fail = 1, !.slow = 1, !.fetch = 1], [Steady EXCEPT !.alien = TRUE]}

Uploaders == u1 :> pa @@ u2 :> pa @@ u3 :> pa @@ u4 :> pb

Calm == [owner |-> db, newcomer |-> NoDrone, tells |-> {e1, m1}, config |-> 0, crash |-> 0, fail |-> 0, lost |-> 0, unpair |-> 0]
MailFaults ==
  {[Calm EXCEPT !.crash = 1, !.lost = 1, !.tells = {e1, m2}], [Calm EXCEPT !.fail = 1, !.crash = 1],
   [Calm EXCEPT !.config = 1, !.lost = 1, !.tells = {e1, m2}], [Calm EXCEPT !.config = 1, !.unpair = 1],
   [Calm EXCEPT !.config = 1, !.crash = 1], [Calm EXCEPT !.newcomer = da, !.config = 1, !.lost = 1]}

Values == s1 :> "v1" @@ s2 :> "v2"

Updates == {[release |-> 2, restart |-> 1, fail |-> 1, toggle |-> 1]}

\* One kind of asset at a time; a release of the peer has one file more than the other.
Files == <<{mk, f1}, {mk, f1, f2}>>
Sizes == <<2, 3>>
Pull == [kind |-> "folder", jobs |-> 1, workers |-> 1, routes |-> 1, expect |-> {0, 1, 2}, over |-> {FALSE}, sized |-> TRUE,
         shared |-> FALSE, faults |-> 1, cancels |-> 0, crashes |-> 1, upgrades |-> 1, holds |-> {"own"}]
Both == [Pull EXCEPT !.jobs = 2, !.workers = 2, !.expect = {0}, !.faults = 0]
Pulls ==
  {[Pull EXCEPT !.jobs = 2, !.expect = {0, 1}], [Both EXCEPT !.crashes = 0], [Both EXCEPT !.upgrades = 0],
    [Pull EXCEPT !.kind = "rom", !.cancels = 1], [Pull EXCEPT !.kind = "bios", !.holds = {"own", "lent"}]}

Systems == r1 :> sa @@ r2 :> sa @@ r3 :> sb
Scans == [polls |-> 2, unreadable |-> 0, deletes |-> 0, purges |-> 0, installs |-> 1, unlists |-> 0, crashes |-> 1, anytime |-> FALSE,
          changes |-> 0, renames |-> FALSE, overflows |-> 0, watches |-> 4]
Catalogues ==
  {Scans, [Scans EXCEPT !.deletes = 1, !.installs = 0], [Scans EXCEPT !.purges = 1, !.unlists = 1, !.installs = 0, !.crashes = 0],
   [Scans EXCEPT !.unreadable = 1, !.installs = 0], [Scans EXCEPT !.polls = 0, !.installs = 0, !.crashes = 0, !.changes = 4]}

References == {[requests |-> 2, crashes |-> 1, failures |-> 0], [requests |-> 1, crashes |-> 0, failures |-> 1]}

Grants == {[requests |-> 2, changes |-> 1, prepare |-> 1, export |-> 0, unexport |-> 1, crashes |-> 1]}

Unmoved == [saves |-> 0, connects |-> 0, suffixes |-> 0, failures |-> 0, ticks |-> 0, restarts |-> 0, turns |-> 0, looks |-> 0]
Tunnels == {[Unmoved EXCEPT !.saves = 3, !.connects = 2, !.failures = 1, !.ticks = 1, !.restarts = 1],
            [Unmoved EXCEPT !.saves = 1, !.connects = 2, !.turns = 3, !.looks = 2],
            [Unmoved EXCEPT !.saves = 2, !.connects = 2, !.suffixes = 1, !.failures = 1]}

Albums == {{e1, m1}, {i1}}
Job == [jobs |-> 2, music |-> TRUE, stops |-> 0, outages |-> 0, crashes |-> 0, hangs |-> 0, edits |-> 0]
ScrapeRuns ==
  {[Job EXCEPT !.stops = 1, !.outages = 1], [Job EXCEPT !.music = FALSE, !.outages = 1, !.edits = 1],
   [Job EXCEPT !.crashes = 1, !.stops = 1]}

Pictures == p1 :> i1 @@ p2 :> i1 @@ r1 :> i2
OnShelves == p1 :> f1 @@ p2 :> f2 @@ r1 :> NoFilm
Movies == f1 :> "movie" @@ f2 :> "movie"
Show == f1 :> "episode" @@ f2 :> "extra"
Shelf == [kind |-> Movies, music |-> FALSE, overlap |-> FALSE, clock |-> 1, syncs |-> 2, scrapes |-> 2, deletes |-> 2, moves |-> 1, crashes |-> 0]
Shelvings == {Shelf, [Shelf EXCEPT !.scrapes = 1, !.deletes = 1, !.moves = 2, !.crashes = 1],
              [Shelf EXCEPT !.kind = Show, !.syncs = 1]}

Lifecycle == [requests |-> 3, tests |-> 0, failures |-> 0, crashes |-> 1, restarts |-> 1, applies |-> 1, stuck |-> 1, late |-> 0]
Decks == {Lifecycle, [Lifecycle EXCEPT !.tests = 1, !.failures = 1, !.applies = 0, !.stuck = 0]}

Layouts == <<<<"reboot", "volume">>, <<"shutdown", "reboot">>>>
Presses == [presses |-> 3, switches |-> 1, unplugs |-> 1, launches |-> 0, race |-> 0, late |-> 0]
KeyUses == {Presses, [Presses EXCEPT !.presses = 0, !.launches = 3]}

Origins == k1 :> pa @@ k2 :> pb @@ k3 :> "here"
Calls == [calls |-> 2, looks |-> 1, checks |-> 1, changes |-> 1, failures |-> 0, faults |-> 0, crashes |-> 0, late |-> 0]
Enrollments ==
  {Calls, [Calls EXCEPT !.calls = 1, !.changes = 0, !.failures = 1, !.faults = 1, !.crashes = 1],
   [Calls EXCEPT !.calls = 1, !.looks = 0, !.failures = 1, !.faults = 2, !.crashes = 1]}

EsUse == [requests |-> 3, edits |-> 1, faults |-> 0, crashes |-> 0, late |-> 0]
Frontends == {[EsUse EXCEPT !.requests = 2, !.edits = 2], [EsUse EXCEPT !.faults = 1], [EsUse EXCEPT !.crashes = 1]}

Evening == [touches |-> 1, games |-> 1, edits |-> 1, faults |-> 2, crashes |-> 0, late |-> 0]
Evenings ==
  {Evening, [Evening EXCEPT !.faults = 3, !.touches = 0], [Evening EXCEPT !.edits = 0, !.crashes = 1],
   [Evening EXCEPT !.games = 2, !.touches = 0, !.edits = 0, !.faults = 3]}

Twice == [servers |-> 2, faults |-> 1, deaths |-> 0, ticks |-> 0, turns |-> 0]
Lifetimes ==
  {[Twice EXCEPT !.ticks = 2], [Twice EXCEPT !.turns = 2], [Twice EXCEPT !.servers = 1, !.ticks = 1, !.deaths = 1],
   [Twice EXCEPT !.faults = 0, !.turns = 1, !.deaths = 1]}

Passwords == [passwords |-> 4, faults |-> 1, crashes |-> 2, deletions |-> 1, clones |-> 0, late |-> 0]
Accesses == {Passwords, [Passwords EXCEPT !.clones = 1, !.deletions = 0]}

Namesakes == r1 :> {} @@ r2 :> {r1}
Images == "image" :> "shot" @@ "marquee" :> "logo"
Editing == [requests |-> 1, scrapes |-> 1, sweeps |-> 0, lists |-> 0, roms |-> 0, crashes |-> 0]
Gamelists ==
  {Editing, [Editing EXCEPT !.scrapes = 2, !.requests = 0], [Editing EXCEPT !.scrapes = 0, !.requests = 2],
   [Editing EXCEPT !.scrapes = 0, !.requests = 0, !.sweeps = 1, !.lists = 1, !.roms = 2, !.crashes = 1],
   [Editing EXCEPT !.scrapes = 0, !.sweeps = 1, !.lists = 1, !.roms = 1]}

SyncContents == 1 :> "a" @@ 2 :> "a" @@ 3 :> "b" @@ 4 :> "c" @@ 5 :> "d"
SyncSystems == 1 :> 1 @@ 2 :> 1 @@ 3 :> 1 @@ 4 :> 2 @@ 5 :> 2
PeersLibraries == {{1, 2, 3, 4}, {2, 4}}
Walks == [walks |-> 2, changes |-> 0, downloads |-> 1, art |-> 0, both |-> FALSE]
Syncs == {Walks, [Walks EXCEPT !.walks = 1, !.changes = 1], [Walks EXCEPT !.walks = 1, !.art = 2]}

RouteOrder == "tail" :> 1 @@ "host" :> 2 @@ "ip" :> 3 @@ "plain" :> 4
PeersRoutes == {{"tail", "host", "ip", "plain"}, {"plain"}}
NoRouting == [calls |-> 0, pairs |-> 0, changes |-> 0, faults |-> 0, late |-> 0]
Routing ==
  {[NoRouting EXCEPT !.calls = 2, !.changes = 1], [NoRouting EXCEPT !.pairs = 2, !.changes = 1],
   [NoRouting EXCEPT !.calls = 1, !.pairs = 1]}

PeersGames == <<pa, sa>> :> {1, 2} @@ <<pb, sa>> :> {2} @@ <<pa, sb>> :> {3} @@ <<pb, sb>> :> {}
Asking == [presses |-> 3, leaves |-> 0, work |-> 4, clears |-> 0, failures |-> 0, polls |-> 1]
Askings ==
  {Asking, [Asking EXCEPT !.presses = 4, !.failures = 1, !.work = 0, !.polls = 0],
   [Asking EXCEPT !.failures = 1, !.work = 1], [Asking EXCEPT !.leaves = 1, !.work = 1],
   [Asking EXCEPT !.clears = 1, !.work = 3]}

Operating == [presses |-> 3, leaves |-> 0, failures |-> 0, others |-> 1, probes |-> 0, race |-> 0]
Undisturbed == [Operating EXCEPT !.others = 0]
Operatings ==
  {Operating, [Undisturbed EXCEPT !.presses = 4], [Undisturbed EXCEPT !.leaves = 1],
   [Undisturbed EXCEPT !.failures = 1], [Undisturbed EXCEPT !.presses = 2, !.probes = 2]}

Installs == {[requests |-> 4, faults |-> 1, edits |-> 2, crashes |-> 1, late |-> FALSE, torn |-> FALSE]}
=============================================================================
