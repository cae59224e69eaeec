---------------------------- MODULE ServerLifecycle ----------------------------
(***************************************************************************)
(* How a Drone's servers come and go in one process: create_server starts  *)
(* the pollers, binds the listeners and starts the workers of the local    *)
(* network, may fail at each of these, and may be called again for another *)
(* userdata root.  app/drone_api.py, app/common/runtime_state.py,          *)
(* app/web/server_tls.py, app/transfer/peer_workers.py.                    *)
(***************************************************************************)
EXTENDS Naturals

CONSTANTS
  PollerKind,      \* the forever-loops that create_server starts
  Poller,          \* their threads
  LifecycleBounds  \* how many servers, faults and turns; see LifecycleInit

VARIABLES
  server,        \* create_server: how far it is, the listeners in its list, the swarm is enabled
  era,           \* which userdata root, and so which database, the process uses
  bound,         \* the ports that are taken, and by whom
  liveTls,       \* _LIVE_TLS_SERVERS
  latched,       \* the *_STARTED flags of the pollers
  pollerGen,     \* _POLLER_GENERATION
  pollers,
  lan,           \* the stop event of the local network, and its generation
  crews,         \* each generation's threads
  lifecycleLeft
lifecycleVars ==
  <<server, era, bound, liveTls, latched, pollerGen, pollers, lan, crews, lifecycleLeft>>

Listener == {"main", "compat", "peer", "plain"}
Following == [main |-> "compat", compat |-> "peer", peer |-> "plain", plain |-> "lan"]
Crew == 1..3
Hand == {"discovery", "health", "retry"}
Joined == {"discovery", "health"}
NoPoller == [pc |-> "none", kind |-> "none", of |-> 0, gen |-> 0, began |-> 0]

LifecycleInit ==
  /\ server = [pc |-> "idle", listeners |-> {}, swarm |-> TRUE] /\ era = 1
  /\ bound = [l \in Listener |-> "free"] /\ liveTls = {} /\ latched = {}
  /\ pollerGen = 0 /\ pollers = [p \in Poller |-> NoPoller]
  /\ lan = [event |-> "none", crew |-> 0] /\ crews = [c \in Crew |-> [h \in Hand |-> "none"]]
  /\ lifecycleLeft \in LifecycleBounds

Use(what) == lifecycleLeft[what] > 0 /\ lifecycleLeft' = [lifecycleLeft EXCEPT ![what] = @ - 1]
At(pc) == server.pc = pc
Go(pc) == server' = [server EXCEPT !.pc = pc]
listening == <<bound, liveTls>>
polling == <<latched, pollerGen, pollers>>
network == <<lan, crews>>

-----------------------------------------------------------------------------
\* create_server: without its certificate nothing is begun.  A Drone whose
\* identity is held keeps away from the swarm.
Create(swarm) ==
  /\ server.pc \in {"idle", "failed"} /\ Use("servers")
  /\ server' = [pc |-> "services", listeners |-> {}, swarm |-> swarm]
  /\ UNCHANGED <<era, listening, polling, network>>

\* Mutant: a poller that learns its generation when it is first scheduled.
LearntLater(k) == 0
\* The generation is bound before the thread exists.
Generation(k) == pollerGen + 1

Unused == {p \in Poller : pollers[p] = NoPoller}

StartPoller(k) ==
  /\ At("services") /\ server.swarm /\ k \notin latched /\ latched' = latched \cup {k}
  /\ Unused # {}
  /\ pollers' = [pollers EXCEPT ![CHOOSE p \in Unused : TRUE] =
                   [pc |-> "born", kind |-> k, of |-> era, gen |-> Generation(k), began |-> era]]
  /\ UNCHANGED <<server, era, listening, pollerGen, network, lifecycleLeft>>

PollersStarted ==
  /\ At("services") /\ (server.swarm => PollerKind \subseteq latched) /\ Go("main")
  /\ UNCHANGED <<era, listening, polling, network, lifecycleLeft>>

\* The listeners, one by one.  A port in use stops the main one, the others
\* are done without; so is one whose TLS context cannot be loaded.
Bind(l) ==
  /\ At(l) /\ (l = "peer" => server.swarm)
  /\ bound[l] = "free" /\ bound' = [bound EXCEPT ![l] = "ours"]
  /\ server' = [server EXCEPT !.listeners = @ \cup {l}, !.pc = Following[l]]
  /\ UNCHANGED <<era, liveTls, polling, network, lifecycleLeft>>

Skip(l) ==
  /\ At(l) /\ l # "main" /\ Go(Following[l])
  /\ IF bound[l] # "free" \/ (l = "peer" /\ ~server.swarm) THEN UNCHANGED lifecycleLeft ELSE Use("faults")
  /\ UNCHANGED <<era, listening, polling, network>>

\* Mutant: the main listener enters the list after its TLS context is loaded.
RecordedLast == {}
Recorded == {"main"}

CannotBind ==
  /\ At("main")
  /\ \/ bound["main"] # "free" /\ Go("failing") /\ UNCHANGED <<bound, lifecycleLeft>>
     \/ /\ bound["main"] = "free" /\ Use("faults") /\ bound' = [bound EXCEPT !["main"] = "ours"]
        /\ server' = [server EXCEPT !.pc = "failing", !.listeners = Recorded]
  /\ UNCHANGED <<era, liveTls, polling, network>>

\* A neighbour takes a port, or gives it back.
Neighbour(l) ==
  /\ \/ bound[l] = "free" /\ Use("faults") /\ bound' = [bound EXCEPT ![l] = "theirs"]
     \/ bound[l] = "theirs" /\ bound' = [bound EXCEPT ![l] = "free"] /\ UNCHANGED lifecycleLeft
  /\ UNCHANGED <<server, era, liveTls, polling, network>>

-----------------------------------------------------------------------------
\* The listeners are registered; the workers of the local network are started
\* unless a generation lives, and an old generation is stopped first.
LanRuns == lan.event = "live" /\ crews[lan.crew]["discovery"] # "gone"

Register ==
  /\ At("lan") /\ liveTls' = liveTls \cup {<<era, l>> : l \in server.listeners \ {"plain"}}
  /\ Go(IF ~server.swarm \/ LanRuns THEN "serving" ELSE "stop")
  /\ UNCHANGED <<era, bound, polling, network, lifecycleLeft>>

\* Mutant: the health worker is not waited for.
DiscoveryOnly == {"discovery"}
Awaited == Joined
Quiet == \A c \in Crew \cap {lan.crew}, h \in Awaited : crews[c][h] \in {"none", "gone"}

\* The event is set, discovery and health are joined; one that takes too long
\* keeps its generation for another attempt, and create_server fails.
SignalStop ==
  /\ lan.event = "live" /\ server.pc \in {"stop", "serving", "closed", "failed"} /\ lan' = [lan EXCEPT !.event = "set"]
  /\ UNCHANGED <<server, era, listening, polling, crews, lifecycleLeft>>

StartLan ==
  /\ At("stop") /\ lan.event # "live" /\ Quiet
  /\ \E c \in Crew :
       /\ \A h \in Hand : crews[c][h] = "none"
       /\ \A d \in Crew : (\A h \in Hand : crews[d][h] = "none") => c <= d
       /\ lan' = [event |-> "live", crew |-> c]
       /\ crews' = [crews EXCEPT ![c] = [h \in Hand |-> "waiting"]]
  /\ Go("serving")
  /\ UNCHANGED <<era, listening, polling, lifecycleLeft>>

CannotStop ==
  /\ At("stop") /\ lan.event = "set" /\ ~Quiet /\ Use("faults") /\ Go("failing")
  /\ UNCHANGED <<era, listening, polling, network>>

\* Whatever fails, what was bound is given up.
Abandon ==
  /\ At("failing")
  /\ liveTls' = liveTls \ {<<era, l>> : l \in server.listeners}
  /\ bound' = [l \in Listener |-> IF l \in server.listeners THEN "free" ELSE bound[l]]
  /\ server' = [server EXCEPT !.pc = "failed", !.listeners = {}]
  /\ UNCHANGED <<era, polling, network, lifecycleLeft>>

-----------------------------------------------------------------------------
\* The owner: shuts the server down, stops the workers, retires the pollers,
\* and only then turns to another userdata root.
Close ==
  /\ At("serving")
  /\ bound' = [l \in Listener |-> IF l \in server.listeners THEN "free" ELSE bound[l]]
  /\ server' = [server EXCEPT !.pc = "closed", !.listeners = {}]
  /\ UNCHANGED <<era, liveTls, polling, network, lifecycleLeft>>

Down == server.pc \in {"closed", "failed"}

LanStopped ==
  /\ Down /\ lan.event = "set" /\ Quiet /\ lan' = [lan EXCEPT !.event = "none"]
  /\ UNCHANGED <<server, era, listening, polling, crews, lifecycleLeft>>

Retire ==
  /\ Down /\ lan.event = "none" /\ Go("retired")
  /\ pollerGen' = pollerGen + 1 /\ latched' = {}
  /\ UNCHANGED <<era, listening, pollers, network, lifecycleLeft>>

SelectRoot ==
  /\ At("retired") /\ Go("idle") /\ era' = era + 1
  /\ UNCHANGED <<listening, polling, network, lifecycleLeft>>

-----------------------------------------------------------------------------
\* A poller's thread: asleep, and at work unless it is retired when it wakes.
Enter(p) ==
  /\ pollers[p].pc = "born"
  /\ pollers' = [pollers EXCEPT ![p].pc = "asleep", ![p].gen = IF @ = 0 THEN pollerGen + 1 ELSE @]
  /\ UNCHANGED <<server, era, listening, latched, pollerGen, network, lifecycleLeft>>

Retired(p) == pollers[p].gen # pollerGen + 1

Wake(p) ==
  /\ pollers[p].pc = "asleep"
  /\ IF Retired(p) THEN UNCHANGED lifecycleLeft ELSE Use("ticks")
  /\ pollers' = [pollers EXCEPT ![p] = IF Retired(p) THEN NoPoller ELSE [@ EXCEPT !.pc = "working", !.began = era]]
  /\ UNCHANGED <<server, era, listening, latched, pollerGen, network>>

\* Its work is over; an error that nothing catches ends it, latched as it is.
Rest(p) ==
  /\ pollers[p].pc = "working"
  /\ \/ pollers' = [pollers EXCEPT ![p].pc = "asleep"] /\ UNCHANGED lifecycleLeft
     \/ pollers' = [pollers EXCEPT ![p] = NoPoller] /\ Use("deaths")
  /\ UNCHANGED <<server, era, listening, latched, pollerGen, network>>

\* The threads of the local network wait for their event.
Stops(c) == lan.crew # c \/ lan.event # "live"

Turn(c, h) ==
  /\ \/ /\ crews[c][h] = "waiting"
        /\ crews' = [crews EXCEPT ![c][h] = IF Stops(c) THEN "gone" ELSE "writing"]
        /\ IF Stops(c) THEN UNCHANGED lifecycleLeft ELSE Use("turns")
     \/ crews[c][h] = "writing" /\ crews' = [crews EXCEPT ![c][h] = "waiting"] /\ UNCHANGED lifecycleLeft
     \/ /\ crews[c][h] = "writing" /\ h = "discovery" /\ Use("deaths")
        /\ crews' = [crews EXCEPT ![c][h] = "gone"]
  /\ UNCHANGED <<server, era, listening, polling, lan>>

LifecycleNext ==
  \/ \E s \in BOOLEAN : Create(s)
  \/ \E k \in PollerKind : StartPoller(k)
  \/ PollersStarted \/ CannotBind \/ Register \/ SignalStop \/ StartLan \/ CannotStop \/ Abandon
  \/ \E l \in Listener : Bind(l) \/ Skip(l) \/ Neighbour(l)
  \/ Close \/ LanStopped \/ Retire \/ SelectRoot
  \/ \E p \in Poller : Enter(p) \/ Wake(p) \/ Rest(p)
  \/ \E c \in Crew, h \in Hand : Turn(c, h)

LifecycleSpec == LifecycleInit /\ [][LifecycleNext]_lifecycleVars

-----------------------------------------------------------------------------
\* What wakes after its server's owner retired it does nothing: no poller
\* works in a database that a later server selected (runtime_state.py:36-41).
RetiredIsQuiet == \A p \in Poller : pollers[p].pc = "working" => pollers[p].began = pollers[p].of

\* However often create_server is called, and fails, one poller of a kind is
\* not retired.
OnePollerOfAKind ==
  \A p, q \in Poller :
    (/\ p # q /\ pollers[p].kind = pollers[q].kind /\ pollers[p].kind # "none") =>
      \E r \in {p, q} : pollers[r].gen # 0 /\ Retired(r)

\* A create_server that failed leaves no port bound, so a retry can bind it,
\* and no listener registered (drone_api.py:2705-2707).
FailedLeavesNothing ==
  At("failed") => /\ \A l \in Listener : bound[l] # "ours"
                  /\ \A l \in Listener : <<era, l>> \notin liveTls

\* Once stop_local_network_workers has returned its generation's discovery and
\* health write no more, and no two generations do (peer_workers.py docstring
\* of stop_local_network_workers).
StoppedIsQuiet ==
  /\ lan.event = "none" => \A c \in Crew, h \in Joined : crews[c][h] \in {"none", "gone"}
  /\ \A c, d \in Crew : (\E g, h \in Joined : /\ crews[c][g] = "writing" /\ crews[d][h] = "writing") => c = d

NothingOutlivesItsServer == RetiredIsQuiet /\ OnePollerOfAKind /\ FailedLeavesNothing /\ StoppedIsQuiet

LifecycleTypes ==
  /\ server \in [pc : {"idle", "services", "main", "compat", "peer", "plain", "lan", "stop", "serving", "failing",
                     "failed", "closed", "retired"},
                listeners : SUBSET Listener, swarm : BOOLEAN]
  /\ era \in Nat /\ pollerGen \in Nat /\ bound \in [Listener -> {"free", "ours", "theirs"}]
  /\ pollers \in [Poller -> [pc : {"none", "born", "asleep", "working"}, kind : {"none"} \cup PollerKind,
                           of : Nat, gen : Nat, began : Nat]]
  /\ lan \in [event : {"none", "live", "set"}, crew : {0} \cup Crew]
  /\ crews \in [Crew -> [Hand -> {"none", "waiting", "writing", "gone"}]]

\* A poller that is not retired serves the present database and is latched, so
\* that there is no second one of its kind; at "retired" there is none at all.
PollersServe ==
  /\ \A p \in Poller : pollers[p] # NoPoller =>
       /\ pollers[p].gen \in 1..(pollerGen + 1) /\ pollers[p].kind \in PollerKind /\ pollers[p].pc # "none"
       /\ ~Retired(p) => pollers[p].of = era /\ pollers[p].kind \in latched /\ ~At("retired")
  /\ \A p, q \in Poller : p # q /\ pollers[p] # NoPoller /\ pollers[q] # NoPoller /\ ~Retired(p) /\ ~Retired(q)
       => pollers[p].kind # pollers[q].kind

\* A port that is taken is in the list of the server, until its list is empty;
\* what is registered for this root is a server's that got as far, and that
\* still has it in its list if it may fail yet.
ListenersAreListed ==
  /\ \A l \in Listener : bound[l] = "ours" => l \in server.listeners
  /\ server.pc \in {"idle", "services", "main", "failed", "closed", "retired"} => server.listeners = {}
  /\ \A t \in liveTls : t \in Nat \X Listener /\ t[1] <= era
  /\ \A l \in Listener : <<era, l>> \in liveTls =>
       /\ server.pc \in {"stop", "serving", "failing", "closed", "retired"}
       /\ server.pc \in {"stop", "failing"} => l \in server.listeners

\* Only the threads of the present generation are not quiet.
CrewsAreQuiet ==
  \A c \in Crew, h \in Joined : lan.event = "none" \/ c # lan.crew => crews[c][h] \in {"none", "gone"}

\* What lasts.
LifecycleInv == LifecycleTypes /\ RetiredIsQuiet /\ PollersServe /\ ListenersAreListed /\ CrewsAreQuiet

\* Not so: the retries of the same generation, which pair with tailnet peers
\* and enroll, are not joined and may write after the stop has returned.
RetriesAreQuiet == lan.event = "none" => \A c \in Crew : crews[c]["retry"] # "writing"

\* Not so with a death: a poller that was started runs until it is retired.
LatchedRuns == \A k \in latched : \E p \in Poller : pollers[p].kind = k /\ pollers[p].pc # "none"
==============================================================================
