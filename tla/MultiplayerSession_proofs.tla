--------------------- MODULE MultiplayerSession_proofs ---------------------
(***************************************************************************)
(* Theorems about the multiplayer session: what settling it means, for any *)
(* number of players, and what holds of it at its host and its guests,     *)
(* whatever is lost, late or repeated and whoever crashes.                 *)
(***************************************************************************)
EXTENDS MultiplayerSession, FiniteSetTheorems, TLAPS

-----------------------------------------------------------------------------
(* What the settling rules do, for any number of players.                  *)

\* A record of a player: its fields are all the rules read.
Player == [st : PlayerStatus, ready : BOOLEAN, from : PlayerStatus \cup {"none"}]

\* settle_lobby and settle_live move a session only as TRANSITIONS allows, so
\* that SessionStore.mutate never refuses what they settle.
THEOREM SettlingIsLegal ==
  ASSUME NEW G, NEW p \in [G -> Player], NEW s \in SessionState, NEW ready \in BOOLEAN
  PROVE  /\ SettleLobby(s, ready, p) = s \/ SettleLobby(s, ready, p) \in Transitions[s]
         /\ SettleLive(s, p) = s \/ SettleLive(s, p) \in Transitions[s]
<1>1. SettleLobby(s, ready, p) = s \/ SettleLobby(s, ready, p) \in Transitions[s]
  <2>1. CASE s \notin PreStart
    BY <2>1 DEF SettleLobby
  <2>2. CASE s \in PreStart
    <3>1. SettleLobby(s, ready, p) \in {"LOBBY", "READY"}
      BY <2>2 DEF SettleLobby, PreStart
    <3>2. Transitions["LOBBY"] = {"READY", "STOPPING", "FAILED"} /\ "LOBBY" \in Transitions["READY"]
      BY DEF Transitions, SessionState, PreStart, Live, Over
    <3> QED BY <2>2, <3>1, <3>2 DEF PreStart
  <2> QED BY <2>1, <2>2
<1>2. SettleLive(s, p) = s \/ SettleLive(s, p) \in Transitions[s]
  <2>1. CASE s \notin Live
    BY <2>1 DEF SettleLive
  <2>2. CASE s \in Live
    <3>1. SettleLive(s, p) \in {s, "RUNNING", "DEGRADED"} \/ (s = "STARTING" /\ SettleLive(s, p) = "FAILED")
      BY DEF SettleLive
    <3>2. /\ {"RUNNING", "DEGRADED", "FAILED"} \subseteq Transitions["STARTING"]
          /\ "DEGRADED" \in Transitions["RUNNING"]
          /\ "RUNNING" \in Transitions["DEGRADED"]
      BY DEF Transitions, SessionState, PreStart, Live, Over
    <3> QED BY <2>2, <3>1, <3>2 DEF Live
  <2> QED BY <2>1, <2>2
<1> QED BY <1>1, <1>2

\* A session that settles has nobody left to wait for, and RUNNING is said of it
\* only when everybody who takes part plays; a start fails only when nobody does.
THEOREM SettledIsTrue ==
  ASSUME NEW G, NEW p \in [G -> Player], NEW s \in SessionState, SettleLive(s, p) # s
  PROVE  /\ \A g \in G : p[g].st \notin Departed => ~LaunchPending(p[g])
         /\ SettleLive(s, p) = "RUNNING" =>
              /\ \A g \in G : p[g].st \in Departed \cup {"running"}
              /\ \E g \in G : p[g].st = "running"
         /\ SettleLive(s, p) = "FAILED" => s = "STARTING" /\ \A g \in G : p[g].st # "running"
<1> DEFINE guests == {g \in DOMAIN p : p[g].st \notin Departed}
           running == In(p, "running")
<1>1. DOMAIN p = G
  OBVIOUS
<1>2. running = {g \in G : p[g].st = "running"}
  BY <1>1 DEF In
<1>3. s \in Live /\ ~(\E g \in guests : LaunchPending(p[g]))
  BY DEF SettleLive
<1>4. SettleLive(s, p) = IF running # {} THEN (IF running = guests THEN "RUNNING" ELSE "DEGRADED")
                         ELSE IF s = "STARTING" THEN "FAILED" ELSE s
  BY <1>3 DEF SettleLive
<1>5. SettleLive(s, p) = "RUNNING" => running # {} /\ running = guests
  BY <1>4
<1>6. SettleLive(s, p) = "FAILED" => running = {} /\ s = "STARTING"
  BY <1>4
<1> QED BY <1>1, <1>2, <1>3, <1>5, <1>6

\* READY is said of a lobby in which the host and everybody who joined are ready,
\* at the moment it is settled.
THEOREM ReadyIsTrue ==
  ASSUME NEW G, NEW p \in [G -> Player], NEW s \in PreStart, NEW ready \in BOOLEAN
  PROVE  SettleLobby(s, ready, p) = "READY" <=>
           /\ ready
           /\ \E g \in G : p[g].st = "joined"
           /\ \A g \in G : p[g].st = "joined" => p[g].ready
<1>1. In(p, "joined") = {g \in G : p[g].st = "joined"}
  BY DEF In
<1> QED BY <1>1 DEF SettleLobby

-----------------------------------------------------------------------------
(* The invariant: the shapes of the records; who may not launch while End  *)
(* is pressed; that every snapshot, wherever it is, is of this session's   *)
(* past or its present; and that a guest's record keeps still while its    *)
(* worker launches.                                                        *)

Replica == [version : Nat, state : SessionState, mine : PlayerStatus]
HostRecord ==
  [state : SessionState, version : Nat \ {0}, ready : BOOLEAN, wave : Nat, overdue : BOOLEAN, launched : BOOLEAN,
   game : BOOLEAN, attention : BOOLEAN, push : BOOLEAN, unsent : BOOLEAN, told : SUBSET Guest]
PlayerRecord == [st : PlayerStatus, ready : BOOLEAN, from : Expected \cup {"running", "none"}]
WatchRecord == [offered : Nat, silent : BOOLEAN, missed : BOOLEAN]
\* Only a thread that has asked a guest has its answer.
ThreadRecord ==
  {x \in [pc : {"idle", "queued", "launching", "sending", "evaluating", "failing", "recovering", "ending"},
          todo : SUBSET Guest, to : Guest \cup {NoGuest}, wave : Nat, answer : {"none", "ok", "refused", "missed"}] :
     x.answer # "none" => x.to # NoGuest}
Request == {"accept", "ready", "decline"} \cup Leaving \cup Reporting
CallRecord ==
  [kind : Request \cup {"none"}, ok : BOOLEAN, wave : Nat,
   at : {"none", "asked", "checked", "answered", "failed"}, reply : Replica]

\* The number of an offer is whatever CHOOSE finds.
IsPlan(p) == p \in [offer : {p.offer}, wave : Nat, version : Nat, consumed : BOOLEAN]
IsGuest(x) ==
  /\ x \in [invitation : {"none", "pending", "accepted", "declined", "cancelled"}, invited : Nat, version : Nat,
            state : SessionState, mine : PlayerStatus, ended : BOOLEAN, reopenable : BOOLEAN, departed : BOOLEAN,
            launch : {"", "awaiting", "launching", "running", "failed", "expired"}, plan : {x.plan}, played : Nat,
            game : BOOLEAN, recovery : {"none", "failure", "leave"},
            after : SUBSET {"suspend", "finish", "reset", "reopen"}, booting : BOOLEAN]
  /\ IsPlan(x.plan)
IsBusy(b) ==
  /\ b \in [taking : {b.taking}, queued : {b.queued}, work : {b.work}, report : Nat, started : BOOLEAN]
  /\ IsPlan(b.taking)
  /\ b.work \in [offer : {b.work.offer}, wave : Nat]

\* A player who was lost has kept what it is to be found in again.
ArePlayers(p) == p \in [Guest -> PlayerRecord] /\ \A g \in Guest : p[g].st = "unreachable" => p[g].from # "none"

\* What a user, and a worker, may be waiting for.
IsCall(c, kinds) == c \in CallRecord /\ c.kind \in kinds \cup {"none"} /\ (c.kind = "none" => c.at = "none")
UserRequest == {"accept", "ready", "decline", "leave"}
WorkerRequest == {"success", "failure", "quit", "leave"}
Kinds(l) == IF l = "user" THEN UserRequest ELSE WorkerRequest

HostFine ==
  /\ host \in HostRecord /\ ArePlayers(player)
  /\ \A g \in Guest : player[g].from # "none" => player[g].st = "unreachable"
HostTypes == HostFine /\ watch \in [Guest -> WatchRecord] /\ thread \in [Thread -> ThreadRecord]
GuestsFine == guest = [g \in Guest |-> guest[g]] /\ \A g \in Guest : IsGuest(guest[g])
BusyFine == busy = [g \in Guest |-> busy[g]] /\ \A g \in Guest : IsBusy(busy[g])
CallsFine ==
  /\ call \in [Guest -> [Line -> CallRecord]]
  /\ \A g \in Guest : IsCall(call[g].user, UserRequest) /\ IsCall(call[g].worker, WorkerRequest)
GuestTypes == GuestsFine /\ BusyFine /\ CallsFine
NetTypes ==
  /\ updates \in [Guest -> SUBSET Replica] /\ stray \in [Guest -> SUBSET Nat]
  /\ late = [g \in Guest |-> late[g]] /\ \A g \in Guest : \A c \in late[g] : c \in CallRecord /\ c.kind \in Request
  /\ "guests" \in DOMAIN left /\ left.guests \subseteq Guest

EndWaits ==
  /\ thread["start"].pc = "launching" => thread["end"].pc # "ending" /\ host.state # "COMPLETED"
  /\ ~Mute => EndedIsClean

ReplicaOf(x) == [version |-> x.version, state |-> x.state, mine |-> x.mine]
AgreesWith(h, p, s, g) ==
  s.version <= h.version /\ (s.version = h.version => s.state = h.state /\ s.mine = p[g].st)
Agrees(s, g) == AgreesWith(host, player, s, g)
SnapshotsAgree ==
  \A g \in Guest :
    /\ Agrees(ReplicaOf(guest[g]), g)
    /\ \A s \in updates[g] : Agrees(s, g)
    /\ \A l \in Line : call[g][l].at = "answered" => Agrees(call[g][l].reply, g)

AloneAt(g) ==
  busy[g].work # NoWork =>
    /\ ~Asking(g) /\ busy[g].taking = NoPlan /\ ~guest[g].booting /\ ~guest[g].ended
    /\ guest[g].plan # NoPlan => guest[g].plan.consumed /\ guest[g].plan.offer = busy[g].work.offer
LauncherIsAlone == \A g \in Guest : AloneAt(g)

SessionInv == HostTypes /\ GuestTypes /\ NetTypes /\ EndWaits /\ SnapshotsAgree /\ LauncherIsAlone

-----------------------------------------------------------------------------
(* The host's record moves: its version never falls, and while it stays the *)
(* state and what the players are stay too.                                *)

Advances ==
  /\ host'.version >= host.version
  /\ host'.version = host.version => host'.state = host.state /\ \A g \in Guest : player'[g].st = player[g].st

LEMMA MutateAdvances ==
  ASSUME NEW h \in HostRecord, NEW p, HostFine, ArePlayers(p), h.version \in {host.version, host.version + 1}, Mutate(h, p)
  PROVE  /\ HostFine' /\ Advances
         /\ host'.state = h.state /\ host'.game = h.game /\ host'.launched = h.launched /\ host'.attention = h.attention
<1> DEFINE q == [g \in Guest |-> IF p[g].st = "unreachable" THEN p[g] ELSE [p[g] EXCEPT !.from = "none"]]
           changed == <<h.state, h.ready, q>> # <<host.state, host.ready, player>>
<1>1. host' = [h EXCEPT !.version = IF changed THEN @ + 1 ELSE @] /\ player' = q
  BY DEF Mutate
<1>2. h.version \in Nat \ {0} /\ host.version \in Nat \ {0}
  BY DEF HostFine, HostRecord
<1>3. host' \in HostRecord
  BY <1>1, <1>2 DEF HostRecord
<1>4. /\ host'.version = IF changed THEN h.version + 1 ELSE h.version
      /\ host'.state = h.state /\ host'.game = h.game /\ host'.launched = h.launched /\ host'.attention = h.attention
  BY <1>1 DEF HostRecord
<1>5. ASSUME NEW g \in Guest
      PROVE  /\ q[g] \in PlayerRecord /\ q[g].st = p[g].st
             /\ q[g].st = "unreachable" => q[g].from # "none"
             /\ q[g].from # "none" => q[g].st = "unreachable"
  BY <1>5 DEF ArePlayers, PlayerRecord
<1>6. ArePlayers(player')
  BY <1>1, <1>5 DEF ArePlayers
<1>7. Advances
  <2>1. host'.version >= host.version
    BY <1>2, <1>4
  <2>2. ASSUME host'.version = host.version PROVE h.state = host.state /\ q = player
    BY <1>2, <1>4, <2>2
  <2> HIDE DEF q, changed
  <2> QED BY <1>1, <1>4, <2>1, <2>2 DEF Advances
<1> HIDE DEF q, changed
<1>8. \A g \in Guest : player'[g].from # "none" => player'[g].st = "unreachable"
  BY <1>1, <1>5
<1> QED BY <1>3, <1>4, <1>6, <1>7, <1>8 DEF HostFine

\* What agreed before agrees after.
LEMMA AgreesOn ==
  ASSUME NEW g \in Guest, NEW s, s.version \in Nat, HostFine, HostFine', Advances, Agrees(s, g)
  PROVE  AgreesWith(host', player', s, g)
<1>1. host.version \in Nat /\ host'.version \in Nat
  BY DEF HostFine, HostRecord
<1> QED BY <1>1 DEF Agrees, AgreesWith, Advances

LEMMA SnapshotAgrees ==
  ASSUME NEW g \in Guest, NEW h \in HostRecord, NEW p, ArePlayers(p)
  PROVE  Snapshot(h, p, g) \in Replica /\ AgreesWith(h, p, Snapshot(h, p, g), g)
<1>1. p[g].st \in PlayerStatus
  BY DEF ArePlayers, PlayerRecord
<1>2. h.version \in Nat /\ h.state \in SessionState
  BY DEF HostRecord
<1> QED BY <1>1, <1>2 DEF Snapshot, AgreesWith, Replica

LEMMA StandingStill ==
  ASSUME UNCHANGED <<host, player>>, HostFine
  PROVE  HostFine' /\ Advances
<1>1. host.version \in Nat
  BY DEF HostFine, HostRecord
<1> QED BY <1>1 DEF HostFine, Advances, ArePlayers

\* settle_lobby and settle_live name states, and end nothing.
LEMMA SettleStates ==
  ASSUME NEW s \in SessionState, NEW ready, NEW p
  PROVE  /\ SettleLobby(s, ready, p) \in SessionState /\ (SettleLobby(s, ready, p) = "COMPLETED" => s = "COMPLETED")
         /\ SettleLive(s, p) \in SessionState /\ (SettleLive(s, p) = "COMPLETED" => s = "COMPLETED")
<1>1. SettleLobby(s, ready, p) \in {s, "LOBBY", "READY"}
  BY DEF SettleLobby
<1>2. SettleLive(s, p) \in {s, "RUNNING", "DEGRADED", "FAILED"}
  BY DEF SettleLive
<1>3. {"LOBBY", "READY", "RUNNING", "DEGRADED", "FAILED"} \subseteq SessionState
  BY DEF SessionState, PreStart, Live, Over
<1> QED BY <1>1, <1>2, <1>3

-----------------------------------------------------------------------------
(* What a guest's record becomes.                                          *)

\* A record of the same replica, or of the snapshot it has taken.
Same(x, y) == IsGuest(y) /\ ReplicaOf(y) = ReplicaOf(x)
Takes(x, y, s) == IsGuest(y) /\ (ReplicaOf(y) = ReplicaOf(x) \/ ReplicaOf(y) = ReplicaOf(s))
\* What a worker that launches relies on is left alone, or its offer is void.
Steady(x, y) == y.plan \in {x.plan, NoPlan} /\ (y.ended => x.ended) /\ y.booting = x.booting

LEMMA NoPlanIsPlan == IsPlan(NoPlan)
BY DEF IsPlan, NoPlan

LEMMA StoredFine ==
  ASSUME NEW x, IsGuest(x), NEW s \in Replica
  PROVE  Takes(x, Stored(x, s), s) /\ Steady(x, Stored(x, s)) /\ Stored(x, s).recovery = x.recovery
<1>1. CASE ~(x.version > 0 /\ s.version > x.version)
  BY <1>1 DEF Stored, Takes, Steady
<1>2. CASE x.version > 0 /\ s.version > x.version
  <2> DEFINE y == [x EXCEPT !.version = s.version, !.state = s.state, !.mine = s.mine]
  <2>1. Stored(x, s) = y
    BY <1>2 DEF Stored
  <2>2. s.version \in Nat /\ s.state \in SessionState /\ s.mine \in PlayerStatus
    BY DEF Replica
  <2>3. IsGuest(y)
    BY <2>2 DEF IsGuest
  <2>4. ReplicaOf(y) = ReplicaOf(s) /\ y.plan = x.plan /\ y.ended = x.ended /\ y.booting = x.booting /\ y.recovery = x.recovery
    BY <2>2 DEF IsGuest, ReplicaOf
  <2> HIDE DEF y
  <2> QED BY <2>1, <2>3, <2>4 DEF Takes, Steady
<1> QED BY <1>1, <1>2

LEMMA UpdatedFine ==
  ASSUME NEW x, IsGuest(x), NEW s \in Replica
  PROVE  Takes(x, Updated(x, s), s) /\ Steady(x, Updated(x, s))
<1> DEFINE y == Stored(x, s)
<1>1. IsGuest(y) /\ Takes(x, y, s) /\ Steady(x, y)
  BY StoredFine DEF Takes
<1> HIDE DEF y
<1>2. CASE x.version > 0
  <2>1. Updated(x, s) = IF y = x THEN x ELSE [y EXCEPT !.after = @ \cup Consequence(y)]
    BY <1>2 DEF Updated, y
  <2>2. Consequence(y) \subseteq {"suspend", "finish", "reset", "reopen"}
    BY DEF Consequence
  <2> DEFINE z == [y EXCEPT !.after = @ \cup Consequence(y)]
  <2>3. IsGuest(z) /\ ReplicaOf(z) = ReplicaOf(y) /\ z.plan = y.plan /\ z.ended = y.ended /\ z.booting = y.booting
    <3>1. z.after \subseteq {"suspend", "finish", "reset", "reopen"}
      BY <1>1, <2>2 DEF IsGuest
    <3> DEFINE c == y.after \cup Consequence(y)
    <3>2. z = [y EXCEPT !.after = c] /\ c \in SUBSET {"suspend", "finish", "reset", "reopen"}
      BY <1>1, <2>2 DEF IsGuest
    <3> HIDE DEF c, z
    <3> QED BY <1>1, <3>2 DEF IsGuest, ReplicaOf
  <2> HIDE DEF z
  <2>4. CASE y = x
    BY <1>1, <2>1, <2>4
  <2>5. CASE y # x
    <3>1. Updated(x, s) = z
      BY <2>1, <2>5 DEF z
    <3> QED BY <1>1, <2>3, <3>1 DEF Takes, Steady
  <2> QED BY <2>4, <2>5
<1>3. CASE ~(x.version > 0)
  <2>1. Updated(x, s) \in {x, [x EXCEPT !.invitation = "cancelled"]}
    BY <1>3 DEF Updated
  <2>2. IsGuest([x EXCEPT !.invitation = "cancelled"]) /\ ReplicaOf([x EXCEPT !.invitation = "cancelled"]) = ReplicaOf(x)
    BY DEF IsGuest, ReplicaOf
  <2>3. Steady(x, [x EXCEPT !.invitation = "cancelled"]) /\ Steady(x, x)
    BY DEF Steady, IsGuest
  <2> QED BY <2>1, <2>2, <2>3 DEF Takes
<1> QED BY <1>2, <1>3

LEMMA AskedFine ==
  ASSUME NEW x, IsGuest(x), NEW s \in Replica
  PROVE  Same(x, Asked(x, s)) /\ Steady(x, Asked(x, s))
<1> DEFINE y == [x EXCEPT !.invitation = "pending", !.invited = s.version]
<1>1. s.version \in Nat
  BY DEF Replica
<1>2. IsGuest(y) /\ ReplicaOf(y) = ReplicaOf(x) /\ y.plan = x.plan /\ y.ended = x.ended /\ y.booting = x.booting
  BY <1>1 DEF IsGuest, ReplicaOf
<1> HIDE DEF y
<1>3. Asked(x, s) \in {x, y}
  BY DEF Asked, y
<1> QED BY <1>2, <1>3 DEF Same, Steady

LEMMA OfferedFine ==
  ASSUME NEW x, IsGuest(x), NEW wave \in Nat, NEW queued
  PROVE  Same(x, Offered(x, wave, queued))
<1>1. CASE ~Welcome(x)
  BY <1>1 DEF Offered, Same
<1>2. CASE Welcome(x)
  <2> DEFINE new == CHOOSE n \in 1 .. Cardinality(queued) + 1 : n \notin queued
             plan == [offer |-> new, wave |-> wave, version |-> x.version, consumed |-> FALSE]
             y == [x EXCEPT !.launch = "awaiting", !.recovery = "none", !.plan = plan]
  <2> HIDE DEF new
  <2>1. Offered(x, wave, queued) = y
    BY <1>2 DEF Offered, new
  <2>2. IsPlan(plan)
    BY DEF IsGuest, IsPlan
  <2> HIDE DEF plan
  <2>3. IsGuest(y) /\ ReplicaOf(y) = ReplicaOf(x)
    BY <2>2 DEF IsGuest, ReplicaOf
  <2> QED BY <2>1, <2>3 DEF Same
<1> QED BY <1>1, <1>2

LEMMA CleanedFine ==
  ASSUME NEW x, IsGuest(x), NEW reopenable \in BOOLEAN, NEW departed \in BOOLEAN
  PROVE  Same(x, Cleaned(x, reopenable, departed))
<1> DEFINE l == IF x.launch = "failed" THEN "failed" ELSE ""
           d == x.departed \/ departed
           r == reopenable /\ ~departed /\ ((x.ended /\ x.reopenable) \/ (~x.ended /\ ~x.departed))
           y == [x EXCEPT !.plan = NoPlan, !.launch = l, !.ended = TRUE, !.departed = d, !.reopenable = r]
<1>1. Cleaned(x, reopenable, departed) = y
  <2>1. /\ "launch" \in DOMAIN x /\ "departed" \in DOMAIN x /\ "reopenable" \in DOMAIN x /\ "plan" \in DOMAIN x
        /\ "ended" \in DOMAIN x
    BY DEF IsGuest
  <2> QED BY <2>1 DEF Cleaned
<1>2. l \in {"failed", ""} /\ d \in BOOLEAN /\ r \in BOOLEAN
  OBVIOUS
<1> HIDE DEF l, d, r
<1>3. IsGuest(y) /\ ReplicaOf(y) = ReplicaOf(x)
  BY <1>2, NoPlanIsPlan DEF IsGuest, ReplicaOf
<1> QED BY <1>1, <1>3 DEF Same

LEMMA ResetFine ==
  ASSUME NEW x, IsGuest(x), NEW reopen \in BOOLEAN
  PROVE  Same(x, Reset(x, reopen)) /\ Steady(x, Reset(x, reopen))
<1> DEFINE y == [x EXCEPT !.plan = NoPlan, !.launch = "", !.recovery = "none"]
           z == [y EXCEPT !.ended = FALSE, !.reopenable = FALSE, !.played = 0]
<1>1. IsGuest(y) /\ ReplicaOf(y) = ReplicaOf(x) /\ y.plan = NoPlan /\ y.ended = x.ended /\ y.booting = x.booting
  BY NoPlanIsPlan DEF IsGuest, ReplicaOf
<1>2. Reset(x, reopen) = IF reopen THEN z ELSE y
  BY DEF Reset
<1> HIDE DEF y
<1>3. IsGuest(z) /\ ReplicaOf(z) = ReplicaOf(y) /\ z.plan = y.plan /\ z.ended = FALSE /\ z.booting = y.booting
  BY <1>1 DEF IsGuest, ReplicaOf
<1> HIDE DEF z
<1> QED BY <1>1, <1>2, <1>3 DEF Same, Steady

LEMMA FailLaunchFine ==
  ASSUME NEW x, IsGuest(x), NEW close
  PROVE  Same(x, FailLaunch(x, close))
<1> DEFINE b == x.game /\ ~close
           y == [x EXCEPT !.launch = "failed", !.plan = NoPlan, !.recovery = "failure", !.game = b]
<1>1. FailLaunch(x, close) = y
  BY DEF FailLaunch, IsGuest
<1>2. b \in BOOLEAN
  OBVIOUS
<1> HIDE DEF b
<1>3. IsGuest(y) /\ ReplicaOf(y) = ReplicaOf(x)
  BY <1>2, NoPlanIsPlan DEF IsGuest, ReplicaOf
<1> QED BY <1>1, <1>3 DEF Same

LEMMA AdoptedFine ==
  ASSUME NEW x, IsGuest(x), NEW s \in Replica
  PROVE  LET y == [Adopted(x, s) EXCEPT !.invitation = "accepted"]
         IN  Takes(x, y, s) /\ Steady(x, y)
<1> DEFINE z == [x EXCEPT !.version = s.version, !.state = s.state, !.mine = s.mine, !.ended = FALSE,
                 !.reopenable = FALSE, !.departed = FALSE, !.launch = "", !.plan = NoPlan, !.played = 0]
           w == Adopted(x, s)
           y == [w EXCEPT !.invitation = "accepted"]
<1>1. s.version \in Nat /\ s.state \in SessionState /\ s.mine \in PlayerStatus
  BY DEF Replica
<1>2. IsGuest(z) /\ ReplicaOf(z) = ReplicaOf(s) /\ z.plan = NoPlan /\ z.ended = FALSE /\ z.booting = x.booting
  BY <1>1, NoPlanIsPlan DEF IsGuest, ReplicaOf
<1>3. w \in {x, z}
  BY DEF Adopted
<1> HIDE DEF z, w
<1>4. Takes(x, w, s) /\ Steady(x, w)
  BY <1>2, <1>3 DEF Takes, Steady
<1>5. IsGuest(y) /\ ReplicaOf(y) = ReplicaOf(w) /\ y.plan = w.plan /\ y.ended = w.ended /\ y.booting = w.booting
  BY <1>4 DEF Takes, IsGuest, ReplicaOf
<1> HIDE DEF y
<1>6. Takes(x, y, s) /\ Steady(x, y)
  BY <1>4, <1>5 DEF Takes, Steady
<1> QED BY <1>6 DEF y, w

LEMMA ToldFine ==
  ASSUME NEW x, IsGuest(x), NEW c, IsCall(c, WorkerRequest), c.kind # "none", NEW started
  PROVE  /\ Takes(x, Told(x, c, started), c.reply)
         /\ c.at # "answered" => ReplicaOf(Told(x, c, started)) = ReplicaOf(x)
         /\ c.kind = "success" /\ c.at = "answered" => Steady(x, Told(x, c, started))
<1> DEFINE heard == c.at = "answered"
           y == IF heard THEN Stored(x, c.reply) ELSE x
           z == [y EXCEPT !.recovery = "none"]
<1>0. c.reply \in Replica /\ c.kind \in WorkerRequest
  BY DEF IsCall, CallRecord
<1>1. Takes(x, y, c.reply) /\ Steady(x, y) /\ (~heard => y = x)
  BY <1>0, StoredFine DEF Takes, Steady
<1>2. Told(x, c, started) = CASE c.kind = "success" -> IF heard THEN y ELSE FailLaunch(x, started)
        [] c.kind = "quit" -> Cleaned(y, FALSE, TRUE)
        [] c.kind \in {"failure", "leave"} -> IF heard /\ y.recovery = c.kind THEN z ELSE y
  BY DEF Told
<1> HIDE DEF y
<1>3. CASE c.kind = "success"
  <2>1. Told(x, c, started) = IF heard THEN y ELSE FailLaunch(x, started)
    BY <1>2, <1>3
  <2> HIDE DEF heard
  <2> QED BY <1>1, <2>1, <1>3, FailLaunchFine DEF Takes, Same, heard
<1>4. CASE c.kind = "quit"
  <2>1. Told(x, c, started) = Cleaned(y, FALSE, TRUE)
    BY <1>2, <1>4
  <2>2. Same(y, Cleaned(y, FALSE, TRUE))
    BY <1>1, CleanedFine DEF Takes
  <2> QED BY <1>1, <2>1, <2>2, <1>4 DEF Takes, Same
<1>5. CASE c.kind \in {"failure", "leave"}
  <2>1. Told(x, c, started) \in {y, z}
    BY <1>2, <1>5
  <2>2. IsGuest(z) /\ ReplicaOf(z) = ReplicaOf(y)
    BY <1>1 DEF Takes, IsGuest, ReplicaOf
  <2> HIDE DEF z
  <2> QED BY <1>1, <2>1, <2>2, <1>5 DEF Takes
<1> QED BY <1>0, <1>3, <1>4, <1>5 DEF WorkerRequest

LEMMA ConcludedFine ==
  ASSUME NEW x, IsGuest(x), NEW c, IsCall(c, UserRequest), c.kind # "none"
  PROVE  /\ Takes(x, Concluded(x, c), c.reply)
         /\ c.at # "answered" => ReplicaOf(Concluded(x, c)) = ReplicaOf(x)
         /\ c.kind # "leave" => Steady(x, Concluded(x, c))
<1> DEFINE y == IF c.at = "answered" THEN Stored(x, c.reply) ELSE x
           z == [Adopted(x, c.reply) EXCEPT !.invitation = "accepted"]
<1>0. c.reply \in Replica /\ c.kind \in UserRequest
  BY DEF IsCall, CallRecord
<1>1. Takes(x, y, c.reply) /\ Steady(x, y) /\ (c.at # "answered" => y = x)
  BY <1>0, StoredFine DEF Takes, Steady
<1>2. Takes(x, z, c.reply) /\ Steady(x, z)
  BY <1>0, AdoptedFine
<1>3. Takes(x, x, c.reply) /\ Steady(x, x)
  BY DEF Takes, Steady
<1>4. Concluded(x, c) = CASE c.kind = "accept" ->
             IF c.at = "answered" /\ c.reply.state \in PreStart /\ c.reply.mine = "joined" THEN z ELSE x
        [] c.kind = "decline" -> x
        [] c.kind = "ready" -> y
        [] c.kind = "leave" -> Cleaned(y, FALSE, TRUE)
  BY DEF Concluded
<1> HIDE DEF y, z
<1>5. CASE c.kind = "accept"
  <2>1. Concluded(x, c) = IF c.at = "answered" /\ c.reply.state \in PreStart /\ c.reply.mine = "joined" THEN z ELSE x
    BY <1>4, <1>5
  <2> QED BY <1>2, <1>3, <2>1
<1>6. CASE c.kind = "decline"
  BY <1>3, <1>4, <1>6
<1>7. CASE c.kind = "ready"
  BY <1>1, <1>4, <1>7
<1>8. CASE c.kind = "leave"
  <2>1. Concluded(x, c) = Cleaned(y, FALSE, TRUE)
    BY <1>4, <1>8
  <2>2. Same(y, Cleaned(y, FALSE, TRUE))
    BY <1>1, CleanedFine DEF Takes
  <2> QED BY <1>1, <2>1, <2>2, <1>8 DEF Takes, Same
<1> QED BY <1>0, <1>5, <1>6, <1>7, <1>8 DEF UserRequest

LEMMA BootedFine ==
  ASSUME NEW x, IsGuest(x), NEW exits
  PROVE  Same(x, [Booted(x, exits) EXCEPT !.booting = FALSE])
<1> DEFINE w == [x EXCEPT !.recovery = "leave"]
           b == Booted(x, exits)
           y == [b EXCEPT !.booting = FALSE]
<1>1. Same(x, w)
  BY DEF Same, IsGuest, ReplicaOf
<1> HIDE DEF w
<1>2. Same(x, Cleaned(w, FALSE, TRUE))
  BY <1>1, CleanedFine DEF Same
<1>3. b \in {x, FailLaunch(x, exits), Cleaned(w, FALSE, TRUE)}
  BY DEF Booted, w
<1> HIDE DEF b
<1>4. Same(x, b)
  BY <1>2, <1>3, FailLaunchFine DEF Same
<1>5. IsGuest(y) /\ ReplicaOf(y) = ReplicaOf(b)
  BY <1>4 DEF Same, IsGuest, ReplicaOf
<1> HIDE DEF y
<1>6. Same(x, y)
  BY <1>4, <1>5 DEF Same
<1> QED BY <1>6 DEF y, b

-----------------------------------------------------------------------------
(* What the steps have in common.                                          *)

LEMMA SnapshotsKeep ==
  ASSUME SessionInv, HostFine', Advances,
         \A g \in Guest : \/ ReplicaOf(guest'[g]) = ReplicaOf(guest[g])
                          \/ AgreesWith(host', player', ReplicaOf(guest'[g]), g),
         \A g \in Guest : \A s \in updates'[g] : s \in updates[g] \/ AgreesWith(host', player', s, g),
         \A g \in Guest : \A l \in Line : call'[g][l].at = "answered"
            => call'[g][l] = call[g][l] \/ AgreesWith(host', player', call'[g][l].reply, g)
  PROVE  SnapshotsAgree'
<1>1. ASSUME NEW g \in Guest PROVE AgreesWith(host', player', ReplicaOf(guest'[g]), g)
  <2>1. ReplicaOf(guest[g]).version \in Nat
    BY DEF SessionInv, GuestTypes, GuestsFine, IsGuest, ReplicaOf
  <2> QED BY <2>1, AgreesOn DEF SessionInv, SnapshotsAgree, HostTypes
<1>2. ASSUME NEW g \in Guest, NEW s \in updates'[g] PROVE AgreesWith(host', player', s, g)
  <2>1. s \in updates[g] => s.version \in Nat
    BY DEF SessionInv, NetTypes, Replica
  <2> QED BY <2>1, AgreesOn DEF SessionInv, SnapshotsAgree, HostTypes
<1>3. ASSUME NEW g \in Guest, NEW l \in Line, call'[g][l].at = "answered"
      PROVE  AgreesWith(host', player', call'[g][l].reply, g)
  <2>1. call[g][l].reply.version \in Nat
    BY DEF SessionInv, GuestTypes, CallsFine, CallRecord, Replica
  <2> QED BY <1>3, <2>1, AgreesOn DEF SessionInv, SnapshotsAgree, HostTypes
<1> QED BY <1>1, <1>2, <1>3 DEF SnapshotsAgree, Agrees

LEMMA SteadyAlone ==
  ASSUME NEW g \in Guest, AloneAt(g), busy'[g].work # NoWork => busy'[g].work = busy[g].work /\ busy'[g].taking = busy[g].taking,
         Steady(guest[g], guest'[g]), Asking(g)' => Asking(g)
  PROVE  AloneAt(g)'
BY DEF AloneAt, Steady, NoPlan

LEMMA RestingAlone == ASSUME NEW g \in Guest, busy'[g].work = NoWork PROVE AloneAt(g)'
BY DEF AloneAt

LEMMA UnlockedRests ==
  ASSUME NEW g \in Guest, ~GuestLocked(g)
  PROVE  busy[g].work = NoWork /\ busy[g].taking = NoPlan /\ ~Asking(g)
BY DEF GuestLocked

\* A step of the host alone.
LEMMA HostStep ==
  ASSUME SessionInv, HostTypes', Advances, EndWaits', NetTypes', UNCHANGED <<playing, updates>>
  PROVE  SessionInv'
<1>1. guest' = guest /\ busy' = busy /\ call' = call /\ updates' = updates
  BY DEF playing
<1>2. GuestTypes'
  BY <1>1 DEF SessionInv, GuestTypes, GuestsFine, BusyFine, CallsFine
<1>3. SnapshotsAgree'
  BY <1>1, SnapshotsKeep DEF HostTypes
<1>4. LauncherIsAlone'
  BY <1>1 DEF SessionInv, LauncherIsAlone, AloneAt, Asking
<1> QED BY <1>2, <1>3, <1>4 DEF SessionInv

\* A step of one guest alone.
LEMMA GuestStep ==
  ASSUME SessionInv, UNCHANGED <<host, player, thread>>, watch' \in [Guest -> WatchRecord], NetTypes',
         NEW g \in Guest, BusyFine', CallsFine', AloneAt(g)',
         NEW y, guest' = [guest EXCEPT ![g] = y], IsGuest(y), Agrees(ReplicaOf(y), g),
         \A h \in Guest : updates'[h] \subseteq updates[h],
         \A h \in Guest : h # g => busy'[h] = busy[h] /\ call'[h] = call[h],
         \A l \in Line : call'[g][l].at = "answered" => call'[g][l] = call[g][l]
  PROVE  SessionInv'
<1>1. HostTypes' /\ HostFine' /\ Advances
  BY StandingStill DEF SessionInv, HostTypes
<1>2. \A h \in Guest : guest'[h] = IF h = g THEN y ELSE guest[h]
  BY DEF SessionInv, GuestTypes, GuestsFine
<1>3. GuestTypes'
  <2>1. guest' = [h \in Guest |-> guest'[h]]
    BY DEF SessionInv, GuestTypes, GuestsFine
  <2> QED BY <1>2, <2>1 DEF SessionInv, GuestTypes, GuestsFine
<1>4. EndWaits'
  BY DEF SessionInv, EndWaits, EndedIsClean
<1>5. AgreesWith(host', player', ReplicaOf(y), g)
  BY DEF Agrees
<1>6. SnapshotsAgree'
  <2>1. \A h \in Guest : \/ ReplicaOf(guest'[h]) = ReplicaOf(guest[h])
                         \/ AgreesWith(host', player', ReplicaOf(guest'[h]), h)
    BY <1>2, <1>5
  <2>2. \A h \in Guest : \A l \in Line : call'[h][l].at = "answered" => call'[h][l] = call[h][l]
    OBVIOUS
  <2> QED BY <1>1, <2>1, <2>2, SnapshotsKeep
<1>7. LauncherIsAlone'
  <2>1. ASSUME NEW h \in Guest, h # g PROVE AloneAt(h)'
    BY <1>2, <2>1 DEF SessionInv, LauncherIsAlone, AloneAt, Asking
  <2> QED BY <2>1 DEF LauncherIsAlone
<1> QED BY <1>1, <1>3, <1>4, <1>6, <1>7 DEF SessionInv

LEMMA SendFine ==
  ASSUME CallsFine, NEW g \in Guest, NEW l \in Line, NEW c, c \in CallRecord,
         IsCall(c, Kinds(l)), Send(g, l, c)
  PROVE  /\ CallsFine'
         /\ \A h \in Guest : \A k \in Line : call'[h][k] = IF h = g /\ k = l THEN c ELSE call[h][k]
         /\ \A h \in Guest : h # g => call'[h] = call[h]
<1>1. /\ \A h \in Guest : \A k \in Line : call'[h][k] = IF h = g /\ k = l THEN c ELSE call[h][k]
      /\ \A h \in Guest : h # g => call'[h] = call[h]
  BY DEF CallsFine, Send
<1>2. call' \in [Guest -> [Line -> CallRecord]]
  BY DEF CallsFine, Send
<1>3. ASSUME NEW h \in Guest PROVE IsCall(call'[h].user, UserRequest) /\ IsCall(call'[h].worker, WorkerRequest)
  BY <1>1 DEF CallsFine, Line, Kinds
<1> QED BY <1>1, <1>2, <1>3 DEF CallsFine

LEMMA NoCallFine == NoCall \in CallRecord /\ IsCall(NoCall, UserRequest) /\ IsCall(NoCall, WorkerRequest) /\ NoCall.at = "none"
<1>1. NoCall.reply \in Replica
  BY DEF NoCall, Replica, SessionState, PreStart, PlayerStatus, Departed
<1>2. NoCall \in CallRecord
  BY <1>1 DEF NoCall, CallRecord
<1> QED BY <1>2 DEF IsCall, NoCall

LEMMA CallFine ==
  ASSUME NEW kind \in Request, NEW ok \in BOOLEAN, NEW wave \in Nat
  PROVE  /\ Call(kind, ok, wave) \in CallRecord /\ Call(kind, ok, wave).kind = kind /\ Call(kind, ok, wave).at = "asked"
         /\ kind # "none"
<1>1. NoCall \in CallRecord
  BY NoCallFine
<1>2. kind # "none"
  BY DEF Request, Leaving, Reporting
<1> QED BY <1>1, <1>2 DEF Call, CallRecord

-----------------------------------------------------------------------------
(* The invariant holds when a session begins.                              *)

LEMMA VersionFine ==
  ASSUME NEW s \in Setting
  PROVE  /\ Version(s) \in Nat \ {0} /\ State(s) \in SessionState /\ State(s) # "COMPLETED"
         /\ \A g \in Guest : Found0(s, g) \in PlayerRecord /\ Found0(s, g).from = "none" /\ Found0(s, g).st # "unreachable"
<1>1. s.stage \in {"invited", "joined", "ready", "playing"} /\ s.guests \subseteq Guest
  BY SessionAssumption
<1>2. Cardinality(s.guests) \in Nat
  BY <1>1, SessionAssumption, FS_Subset, FS_CardinalityType
<1>3. Version(s) \in Nat \ {0}
  BY <1>1, <1>2 DEF Version
<1>4. State(s) \in SessionState /\ State(s) # "COMPLETED"
  BY DEF State, SessionState, PreStart, Live
<1>5. ASSUME NEW g \in Guest
      PROVE  Found0(s, g) \in PlayerRecord /\ Found0(s, g).from = "none" /\ Found0(s, g).st # "unreachable"
  <2>1. Found0(s, g) \in {[Invited EXCEPT !.st = "declined"], Invited, Joined, [Joined EXCEPT !.ready = TRUE],
                          [Joined EXCEPT !.ready = TRUE, !.st = "running"]}
    BY <1>1 DEF Found0
  <2>2. Invited \in PlayerRecord /\ Joined \in PlayerRecord /\ Invited.from = "none" /\ Joined.from = "none"
    BY DEF Invited, Joined, PlayerRecord, PlayerStatus, Departed, Expected
  <2>3. ASSUME NEW x \in PlayerRecord, x.from = "none", NEW st \in {"declined", "running"}
        PROVE  LET y == [x EXCEPT !.st = st]
               IN  y \in PlayerRecord /\ y.from = "none" /\ y.st # "unreachable"
    BY <2>3 DEF PlayerRecord, PlayerStatus, Departed, Gone
  <2>4. LET y == [Joined EXCEPT !.ready = TRUE]
        IN  /\ y \in PlayerRecord /\ y.from = "none" /\ y.st # "unreachable"
            /\ [y EXCEPT !.st = "running"] = [Joined EXCEPT !.ready = TRUE, !.st = "running"]
    BY <2>2 DEF PlayerRecord, Joined
  <2>5. Invited.st # "unreachable" /\ Joined.st # "unreachable"
    BY DEF Invited, Joined
  <2> QED BY <2>1, <2>2, <2>3, <2>4, <2>5
<1> QED BY <1>3, <1>4, <1>5

LEMMA SessionBegins == Init => SessionInv
<1> SUFFICES ASSUME Init PROVE SessionInv
  OBVIOUS
<1>0. left \in Setting /\ left.guests \subseteq Guest /\ "guests" \in DOMAIN left /\ left.stage \in {"invited", "joined", "ready", "playing"}
  BY SessionAssumption DEF Init
<1>1. /\ Version(left) \in Nat \ {0} /\ State(left) \in SessionState /\ State(left) # "COMPLETED"
      /\ \A g \in Guest : player[g] = Found0(left, g) /\ Found0(left, g) \in PlayerRecord
                          /\ Found0(left, g).from = "none" /\ Found0(left, g).st # "unreachable"
  BY <1>0, VersionFine DEF Init
<1>2. HostFine
  <2>1. host \in HostRecord
    BY <1>1 DEF Init, HostRecord
  <2>2. player \in [Guest -> PlayerRecord]
    BY <1>1 DEF Init
  <2> QED BY <1>1, <2>1, <2>2 DEF HostFine, ArePlayers
<1>3. HostTypes
  <2>1. watch \in [Guest -> WatchRecord]
    BY DEF Init, WatchRecord, Unwatched
  <2>2. Idle \in ThreadRecord
    BY DEF Idle, ThreadRecord
  <2> QED BY <1>2, <2>1, <2>2 DEF Init, HostTypes
<1>4. host.version = Version(left) /\ host.state = State(left) /\ host.launched = host.game
  BY DEF Init
<1>5. ASSUME NEW g \in Guest PROVE IsGuest(guest[g]) /\ Agrees(ReplicaOf(guest[g]), g)
  <2> DEFINE x == [Outside EXCEPT !.invitation = "accepted", !.invited = 1, !.version = Version(left),
                           !.state = State(left), !.mine = Found0(left, g).st]
             y == [Outside EXCEPT !.invitation = "pending", !.invited = 1]
             z == [x EXCEPT !.launch = "running", !.played = 1, !.game = TRUE]
  <2>1. Found0(left, g).st \in PlayerStatus
    BY <1>1 DEF PlayerRecord
  <2>2. IsGuest(Outside) /\ ReplicaOf(Outside).version = 0
    BY NoPlanIsPlan DEF IsGuest, Outside, ReplicaOf, PlayerStatus, Departed, SessionState, PreStart
  <2>3. IsGuest(y) /\ ReplicaOf(y) = ReplicaOf(Outside)
    BY <2>2 DEF IsGuest, ReplicaOf
  <2>4. IsGuest(x) /\ ReplicaOf(x) = [version |-> Version(left), state |-> State(left), mine |-> Found0(left, g).st]
    <3> DEFINE v == Version(left)
               t == State(left)
               m == Found0(left, g).st
    <3>1. v \in Nat /\ t \in SessionState /\ m \in PlayerStatus
      BY <1>1, <2>1
    <3> HIDE DEF v, t, m
    <3>2. IsGuest([Outside EXCEPT !.invitation = "accepted", !.invited = 1, !.version = v, !.state = t, !.mine = m])
      BY <2>2, <3>1 DEF IsGuest
    <3>3. ReplicaOf([Outside EXCEPT !.invitation = "accepted", !.invited = 1, !.version = v, !.state = t, !.mine = m])
            = [version |-> v, state |-> t, mine |-> m]
      BY DEF ReplicaOf, Outside
    <3> QED BY <3>2, <3>3 DEF v, t, m
  <2> HIDE DEF x
  <2>5. IsGuest(z) /\ ReplicaOf(z) = ReplicaOf(x)
    BY <2>4 DEF IsGuest, ReplicaOf
  <2> HIDE DEF y, z
  <2>6. guest[g] \in {Outside, x, y, z}
    BY <1>0 DEF Init, Member0, x, y, z
  <2>7. ReplicaOf(Outside).version # host.version /\ ReplicaOf(Outside).version <= host.version
    BY <1>1, <1>4, <2>2
  <2>8. AgreesWith(host, player, ReplicaOf(x), g)
    BY <1>1, <1>4, <2>4 DEF AgreesWith
  <2> QED BY <2>2, <2>3, <2>4, <2>5, <2>6, <2>7, <2>8 DEF Agrees, AgreesWith
<1>6. GuestTypes
  <2>1. GuestsFine
    BY <1>5 DEF Init, GuestsFine
  <2>2. BusyFine
    BY NoPlanIsPlan DEF Init, BusyFine, IsBusy, Rested, NoWork
  <2>3. CallsFine
    BY NoCallFine DEF Init, CallsFine, Line
  <2> QED BY <2>1, <2>2, <2>3 DEF GuestTypes
<1>7. NetTypes
  BY <1>0 DEF Init, NetTypes
<1>8. EndWaits
  <2>1. host.state # "COMPLETED"
    BY <1>1, <1>4
  <2>2. thread["start"].pc = "idle"
    BY DEF Init, Idle, Thread
  <2> QED BY <2>1, <2>2 DEF EndWaits, EndedIsClean
<1>9. SnapshotsAgree
  <2>1. \A g \in Guest : updates[g] = {} /\ \A l \in Line : call[g][l].at # "answered"
    BY NoCallFine DEF Init
  <2> QED BY <1>5, <2>1 DEF SnapshotsAgree
<1>10. LauncherIsAlone
  BY DEF Init, LauncherIsAlone, AloneAt, Rested
<1> QED BY <1>3, <1>6, <1>7, <1>8, <1>9, <1>10 DEF SessionInv

-----------------------------------------------------------------------------
(* The steps of the host.                                                  *)

ThreadsFine == thread \in [Thread -> ThreadRecord]
Doing == {"idle", "sending", "evaluating", "failing"}

LEMMA IdleFine == Idle \in ThreadRecord /\ Idle.pc = "idle"
BY DEF Idle, ThreadRecord

LEMMA GoFine ==
  ASSUME ThreadsFine, NEW t \in Thread, NEW pc \in Doing \cup {"queued", "launching", "ending"}, NEW todo \in SUBSET Guest,
         Go(t, pc, todo)
  PROVE  ThreadsFine' /\ \A u \in Thread : thread'[u].pc = IF u = t THEN pc ELSE thread[u].pc
<1> DEFINE x == [Idle EXCEPT !.pc = pc, !.todo = todo]
<1>1. x \in ThreadRecord /\ x.pc = pc
  BY DEF Idle, ThreadRecord, Doing
<1>2. thread' = [thread EXCEPT ![t] = x]
  BY DEF Go
<1> HIDE DEF x
<1> QED BY <1>1, <1>2 DEF ThreadsFine

LEMMA JudgeFine ==
  ASSUME ThreadsFine, NEW pc \in {"evaluating", "failing"}
  PROVE  Judge(pc) \in ThreadRecord /\ Judge(pc).pc \in {"evaluating", "failing"}
BY DEF Judge, Idle, ThreadRecord

LEMMA HandFine ==
  ASSUME ThreadsFine, NEW t \in Thread, NEW pc \in {"evaluating", "failing"}, Hand(t, pc)
  PROVE  ThreadsFine' /\ \A u \in Thread : thread'[u].pc \in Doing \/ thread'[u] = thread[u]
<1>1. thread' = [thread EXCEPT ![t] = Idle, !["judge"] = Judge(pc)]
  BY DEF Hand
<1>2. Judge(pc) \in ThreadRecord /\ Judge(pc).pc \in Doing /\ Idle \in ThreadRecord /\ Idle.pc \in Doing
  BY JudgeFine, IdleFine DEF Doing
<1>3. "judge" \in Thread
  BY DEF Thread
<1>4. \A u \in Thread : thread'[u] = thread[u] \/ thread'[u] = Idle \/ thread'[u] = Judge(pc)
  BY <1>1, <1>3 DEF ThreadsFine
<1>5. thread' \in [Thread -> ThreadRecord]
  BY <1>1, <1>2, <1>3 DEF ThreadsFine
<1> QED BY <1>2, <1>4, <1>5 DEF ThreadsFine

\* Threads that neither begin to launch nor to end.
Calm == \A u \in {"start", "end"} : thread'[u].pc \in Doing \/ thread'[u].pc = thread[u].pc

\* A step that changes the session to h and p.
LEMMA HostMutates ==
  ASSUME SessionInv, NEW h \in HostRecord, NEW p, h.version \in {host.version, host.version + 1}, ArePlayers(p), Mutate(h, p),
         watch' \in [Guest -> WatchRecord], ThreadsFine', NetTypes', UNCHANGED <<playing, updates>>,
         ~Mute => (h.state = "COMPLETED" /\ h.launched /\ h.game => h.attention),
         thread'["start"].pc = "launching" => thread'["end"].pc # "ending" /\ h.state # "COMPLETED"
  PROVE  SessionInv' /\ Advances
<1>1. /\ HostFine' /\ Advances
      /\ host'.state = h.state /\ host'.game = h.game /\ host'.launched = h.launched /\ host'.attention = h.attention
  BY MutateAdvances DEF SessionInv, HostTypes
<1>2. HostTypes'
  BY <1>1 DEF HostTypes, ThreadsFine
<1>3. EndWaits'
  BY <1>1 DEF EndWaits, EndedIsClean
<1> QED BY <1>1, <1>2, <1>3, HostStep

\* The same, when it neither ends the session nor touches its game.
LEMMA HostMutatesCalmly ==
  ASSUME SessionInv, NEW h \in HostRecord, NEW p, h.version = host.version, ArePlayers(p), Mutate(h, p),
         watch' \in [Guest -> WatchRecord], ThreadsFine', NetTypes', UNCHANGED <<playing, updates>>, Calm,
         h.state = "COMPLETED" => host.state = "COMPLETED" /\ h.game = host.game /\ h.launched = host.launched /\ h.attention = host.attention
  PROVE  SessionInv' /\ Advances
<1>1. thread'["start"].pc = "launching" => thread'["end"].pc # "ending" /\ h.state # "COMPLETED"
  BY DEF SessionInv, EndWaits, Calm, Doing
<1>2. ~Mute => (h.state = "COMPLETED" /\ h.launched /\ h.game => h.attention)
  BY DEF SessionInv, EndWaits, EndedIsClean
<1> QED BY <1>1, <1>2, HostMutates

LEMMA SameThreads == ASSUME ThreadsFine, UNCHANGED thread PROVE ThreadsFine' /\ Calm
BY DEF ThreadsFine, Calm

LEMMA SessionIsTyped ==
  ASSUME SessionInv
  PROVE  /\ ThreadsFine /\ host \in HostRecord /\ ArePlayers(player) /\ watch \in [Guest -> WatchRecord]
         /\ Published(host) \in HostRecord /\ NetTypes /\ host.state \in SessionState
<1>1. host \in HostRecord
  BY DEF SessionInv, HostTypes, HostFine
<1>2. Published(host) \in HostRecord /\ host.state \in SessionState
  BY <1>1 DEF Published, HostRecord
<1> QED BY <1>1, <1>2 DEF SessionInv, HostTypes, HostFine, ThreadsFine

LEMMA PlayerBecomes ==
  ASSUME NEW p, ArePlayers(p), NEW g \in Guest, NEW x \in PlayerRecord, x.st = "unreachable" => x.from # "none"
  PROVE  ArePlayers([p EXCEPT ![g] = x])
BY DEF ArePlayers

LEMMA StatusBecomes ==
  ASSUME NEW x \in PlayerRecord, NEW st \in PlayerStatus \ {"unreachable"}
  PROVE  /\ [x EXCEPT !.st = st] \in PlayerRecord /\ [x EXCEPT !.st = st].st # "unreachable"
         /\ [x EXCEPT !.st = st, !.ready = FALSE] \in PlayerRecord
         /\ [x EXCEPT !.st = st, !.ready = FALSE].st # "unreachable"
BY DEF PlayerRecord

LEMMA Statuses ==
  /\ {"joined", "launching", "left", "removed", "declined", "invited", "running", "failed"}
       = PlayerStatus \ {"unreachable"}
  /\ {"LOBBY", "READY", "STARTING", "RUNNING", "DEGRADED", "STOPPING", "COMPLETED", "FAILED"} = SessionState
BY DEF PlayerStatus, Expected, Departed, Gone, SessionState, PreStart, Live, Over

LEMMA HostReadyKeeps == ASSUME SessionInv, HostReady PROVE SessionInv'
<1> DEFINE s == SettleLobby(host.state, TRUE, player)
           h == Published([host EXCEPT !.ready = TRUE, !.state = s])
<1>0. Mutate(h, player) /\ UNCHANGED <<watch, thread, playing, net, left>>
  BY DEF HostReady
<1>1. s \in SessionState /\ (s = "COMPLETED" => host.state = "COMPLETED")
  BY SettleStates, SessionIsTyped
<1> HIDE DEF s
<1>2. h \in HostRecord /\ h.version = host.version /\ h.state = s /\ h.game = host.game /\ h.launched = host.launched /\ h.attention = host.attention
  BY <1>1, SessionIsTyped DEF HostRecord, Published
<1> HIDE DEF h
<1>3. NetTypes'
  BY <1>0, SessionIsTyped DEF NetTypes, net
<1>4. UNCHANGED <<playing, updates>> /\ watch' \in [Guest -> WatchRecord]
  BY <1>0, SessionIsTyped DEF net
<1> QED BY <1>0, <1>1, <1>2, <1>3, <1>4, SessionIsTyped, SameThreads, HostMutatesCalmly

LEMMA RemoveKeeps == ASSUME SessionInv, NEW g \in Guest, Remove(g) PROVE SessionInv'
<1> DEFINE p == [player EXCEPT ![g].st = "removed", ![g].ready = FALSE]
           s == SettleLive(SettleLobby(host.state, host.ready, p), p)
           h == Published([host EXCEPT !.state = s])
<1>0. /\ Mutate(h, p) /\ UNCHANGED <<watch, thread, playing, net>>
      /\ left' = [left EXCEPT !.remove = @ - 1]
  BY SessionIsTyped DEF Remove, HostRecord
<1>1. ArePlayers(p)
  <2>1. player[g] \in PlayerRecord /\ p = [player EXCEPT ![g] = [player[g] EXCEPT !.st = "removed", !.ready = FALSE]]
    BY SessionIsTyped DEF ArePlayers
  <2> QED BY <2>1, SessionIsTyped, Statuses, StatusBecomes, PlayerBecomes
<1> HIDE DEF p
<1>2. s \in SessionState /\ (s = "COMPLETED" => host.state = "COMPLETED")
  BY SettleStates, SessionIsTyped
<1> HIDE DEF s
<1>3. h \in HostRecord /\ h.version = host.version /\ h.state = s /\ h.game = host.game /\ h.launched = host.launched /\ h.attention = host.attention
  BY <1>2, SessionIsTyped DEF HostRecord, Published
<1> HIDE DEF h
<1>4. NetTypes'
  BY <1>0, SessionIsTyped DEF NetTypes, net
<1>5. UNCHANGED <<playing, updates>> /\ watch' \in [Guest -> WatchRecord]
  BY <1>0, SessionIsTyped DEF net
<1> QED BY <1>0, <1>1, <1>2, <1>3, <1>4, <1>5, SessionIsTyped, SameThreads, HostMutatesCalmly

LEMMA StartKeeps == ASSUME SessionInv, Start PROVE SessionInv'
<1> DEFINE p == [g \in Guest |-> IF player[g].st = "invited" THEN [player[g] EXCEPT !.st = "removed"] ELSE player[g]]
           h == Published([host EXCEPT !.state = "STARTING", !.wave = @ + 1, !.overdue = FALSE])
<1>0. /\ Mutate(h, p) /\ UNCHANGED <<playing, net>> /\ Go("start", "queued", {})
      /\ watch' = [g \in Guest |-> [watch[g] EXCEPT !.offered = 0]]
      /\ left' = [left EXCEPT !.start = @ - 1]
  BY DEF Start
<1>1. ArePlayers(p)
  BY SessionIsTyped DEF ArePlayers, PlayerRecord, PlayerStatus, Departed, Gone
<1> HIDE DEF p
<1>2. h \in HostRecord /\ h.version = host.version /\ h.state = "STARTING"
  <2> DEFINE w == host.wave + 1
  <2>1. w \in Nat
    BY SessionIsTyped DEF HostRecord
  <2>2. h = [host EXCEPT !.state = "STARTING", !.wave = w, !.overdue = FALSE, !.push = TRUE]
    BY DEF Published
  <2> HIDE DEF w, h
  <2> QED BY <2>1, <2>2, SessionIsTyped, Statuses DEF HostRecord
<1> HIDE DEF h
<1>3. NetTypes'
  BY <1>0, SessionIsTyped DEF NetTypes, net
<1>4. UNCHANGED <<playing, updates>>
  BY <1>0 DEF net
<1>5. watch' \in [Guest -> WatchRecord]
  BY <1>0, SessionIsTyped DEF WatchRecord
<1>6. ThreadsFine' /\ thread'["start"].pc = "queued"
  <2>1. "start" \in Thread /\ "queued" \in Doing \cup {"queued", "launching", "ending"} /\ {} \in SUBSET Guest
    BY DEF Thread
  <2> QED BY <1>0, <2>1, GoFine, SessionIsTyped
<1> QED BY <1>0, <1>1, <1>2, <1>3, <1>4, <1>5, <1>6, HostMutates

\* A step that changes the session without its players.
LEMMA HostChanges ==
  ASSUME SessionInv, host' \in HostRecord, UNCHANGED player, host'.state = host.state, host'.version >= host.version,
         watch' \in [Guest -> WatchRecord], ThreadsFine', NetTypes', UNCHANGED <<playing, updates>>, EndWaits'
  PROVE  SessionInv'
<1>1. HostFine' /\ Advances
  BY DEF SessionInv, HostTypes, HostFine, Advances, ArePlayers
<1> QED BY <1>1, HostStep DEF HostTypes, ThreadsFine

\* What a thread may be sent to do.
LEMMA GoesOn ==
  ASSUME SessionInv, NEW t \in Thread, NEW pc \in Doing, NEW todo \in SUBSET Guest, Go(t, pc, todo)
  PROVE  ThreadsFine' /\ Calm
<1>1. {"start", "end"} \subseteq Thread
  BY DEF Thread
<1> QED BY <1>1, SessionIsTyped, GoFine DEF Calm

LEMMA HandsOver ==
  ASSUME SessionInv, NEW t \in Thread, NEW pc \in {"evaluating", "failing"}, Hand(t, pc)
  PROVE  ThreadsFine' /\ Calm
<1>1. {"start", "end"} \subseteq Thread
  BY DEF Thread
<1> QED BY <1>1, SessionIsTyped, HandFine DEF Calm

LEMMA LaunchKeeps == ASSUME SessionInv, Launch PROVE SessionInv'
<1>0. /\ thread["start"].pc = "queued" /\ ~Locked /\ UNCHANGED <<player, watch, playing, net, left>>
      /\ IF host.state # "STARTING" THEN Go("start", "idle", {}) /\ UNCHANGED host
         ELSE Go("start", "launching", {}) /\ host' = [host EXCEPT !.launched = TRUE]
  BY DEF Launch
<1>1. {"start", "end"} \subseteq Thread /\ {} \in SUBSET Guest
  BY DEF Thread
<1>2. NetTypes' /\ UNCHANGED <<playing, updates>> /\ watch' \in [Guest -> WatchRecord]
  BY <1>0, SessionIsTyped DEF NetTypes, net
<1>3. CASE host.state # "STARTING"
  <2>1. ThreadsFine' /\ Calm
    BY <1>0, <1>1, <1>3, GoesOn DEF Doing
  <2>2. EndWaits'
    BY <1>0, <1>3, <2>1 DEF SessionInv, EndWaits, EndedIsClean, Calm, Doing
  <2>3. host.version >= host.version
    BY SessionIsTyped DEF HostRecord
  <2> QED BY <1>0, <1>2, <1>3, <2>1, <2>2, <2>3, HostChanges, SessionIsTyped
<1>4. CASE host.state = "STARTING"
  <2>1. Go("start", "launching", {}) /\ "launching" \in Doing \cup {"queued", "launching", "ending"}
    BY <1>0, <1>4
  <2>2. ThreadsFine' /\ thread'["end"].pc = thread["end"].pc
    BY <1>1, <2>1, GoFine, SessionIsTyped
  <2>3. thread["end"].pc = "idle"
    BY <1>0 DEF Locked
  <2>4. host' \in HostRecord /\ host'.state = "STARTING" /\ host'.version >= host.version
    <3>1. host' = [host EXCEPT !.launched = TRUE]
      BY <1>0, <1>4
    <3>2. host' \in HostRecord /\ host'.state = host.state /\ host'.version = host.version
      BY <3>1, SessionIsTyped DEF HostRecord
    <3>3. host.version >= host.version
      BY SessionIsTyped DEF HostRecord
    <3> QED BY <1>4, <3>2, <3>3
  <2>5. EndWaits'
    BY <2>2, <2>3, <2>4 DEF EndWaits, EndedIsClean
  <2> QED BY <1>0, <1>2, <1>4, <2>2, <2>4, <2>5, HostChanges
<1> QED BY <1>3, <1>4

LEMMA LaunchedKeeps == ASSUME SessionInv, Launched PROVE SessionInv'
<1>0. thread["start"].pc = "launching" /\ UNCHANGED <<player, watch, playing, net>>
  BY DEF Launched
<1>1. {"start", "end"} \subseteq Thread /\ In(player, "joined") \in SUBSET Guest
  BY SessionIsTyped DEF Thread, In, ArePlayers
<1>2. host.state # "COMPLETED"
  BY <1>0 DEF SessionInv, EndWaits
<1>3. /\ host' \in HostRecord /\ host'.state = host.state /\ host'.version >= host.version
      /\ ThreadsFine' /\ Calm /\ DOMAIN left' = DOMAIN left /\ left'.guests = left.guests
  <2>1. CASE /\ host' = [host EXCEPT !.game = TRUE, !.version = @ + 1]
             /\ Go("start", "sending", In(player, "joined"))
             /\ UNCHANGED left
    <3> DEFINE v == host.version + 1
    <3>1. v \in Nat \ {0} /\ v >= host.version
      BY SessionIsTyped DEF HostRecord
    <3>2. host' = [host EXCEPT !.game = TRUE, !.version = v]
      BY <2>1
    <3> HIDE DEF v
    <3>3. host' \in HostRecord /\ host'.state = host.state /\ host'.version = v
      BY <3>1, <3>2, SessionIsTyped DEF HostRecord
    <3>4. ThreadsFine' /\ Calm
      BY <1>1, <2>1, GoesOn DEF Doing
    <3> QED BY <2>1, <3>1, <3>3, <3>4
  <2>2. CASE /\ left' = [left EXCEPT !.fail = @ - 1]
             /\ \E on \in BOOLEAN : host' = [host EXCEPT !.game = on]
             /\ Hand("start", "failing")
    <3>1. host' \in HostRecord /\ host'.state = host.state /\ host'.version >= host.version
      BY <2>2, SessionIsTyped DEF HostRecord
    <3>2. ThreadsFine' /\ Calm
      BY <1>1, <2>2, HandsOver
    <3>3. DOMAIN left' = DOMAIN left /\ left'.guests = left.guests
      BY <2>2, SessionIsTyped DEF NetTypes
    <3> QED BY <3>1, <3>2, <3>3
  <2> QED BY <2>1, <2>2 DEF Launched
<1>4. NetTypes' /\ UNCHANGED <<playing, updates>> /\ watch' \in [Guest -> WatchRecord]
  BY <1>0, <1>3, SessionIsTyped DEF NetTypes, net
<1>5. EndWaits'
  BY <1>2, <1>3 DEF SessionInv, EndWaits, EndedIsClean, Calm, Doing
<1> QED BY <1>0, <1>3, <1>4, <1>5, HostChanges

LEMMA PostKeeps == ASSUME SessionInv, NEW t \in Thread, Post(t) PROVE SessionInv'
<1>1. PICK g \in thread[t].todo :
         /\ thread[t].pc = "sending" /\ thread[t].to = NoGuest
         /\ thread' = [thread EXCEPT ![t].todo = @ \ {g}, ![t].to = IF host.state \in Coming THEN g ELSE NoGuest,
                                     ![t].wave = host.wave]
         /\ UNCHANGED <<host, player, watch, playing, net, left>>
  BY DEF Post
<1> DEFINE to == IF host.state \in Coming THEN g ELSE NoGuest
           todo == thread[t].todo \ {g}
           x == [thread[t] EXCEPT !.todo = todo, !.to = to, !.wave = host.wave]
<1>2. thread[t] \in ThreadRecord /\ host.wave \in Nat
  BY SessionIsTyped DEF ThreadsFine, HostRecord
<1>3. to \in Guest \cup {NoGuest} /\ todo \in SUBSET Guest
  BY <1>1, <1>2 DEF ThreadRecord
<1>4. thread' = [thread EXCEPT ![t] = x]
  BY <1>1, <1>2
<1> HIDE DEF to, todo
<1>5. x \in ThreadRecord /\ x.pc = thread[t].pc
  BY <1>1, <1>2, <1>3 DEF ThreadRecord
<1> HIDE DEF x
<1>6. ThreadsFine' /\ \A u \in Thread : thread'[u].pc = thread[u].pc
  BY <1>4, <1>5, SessionIsTyped DEF ThreadsFine
<1>7. NetTypes' /\ UNCHANGED <<playing, updates>> /\ watch' \in [Guest -> WatchRecord] /\ host' = host /\ player' = player
  BY <1>1, SessionIsTyped DEF NetTypes, net
<1>8. EndWaits'
  BY <1>6, <1>7 DEF SessionInv, EndWaits, EndedIsClean, Thread
<1>9. host.version >= host.version
  BY SessionIsTyped DEF HostRecord
<1> QED BY <1>6, <1>7, <1>8, <1>9, HostChanges, SessionIsTyped

LEMMA MarkKeeps == ASSUME SessionInv, NEW t \in Thread, Mark(t) PROVE SessionInv'
<1> DEFINE g == thread[t].to
           m == Marked(player[g], thread[t].answer)
           p == [player EXCEPT ![g] = m]
           x == [thread[t] EXCEPT !.to = NoGuest, !.answer = "none"]
<1>0. /\ Mutate(host, p) /\ UNCHANGED <<playing, net, left>>
      /\ thread' = [thread EXCEPT ![t].to = NoGuest, ![t].answer = "none"]
      /\ watch' = IF thread[t].answer = "ok" THEN [watch EXCEPT ![g].offered = thread[t].wave] ELSE watch
  BY SessionIsTyped DEF Mark, ArePlayers
<1>a. thread[t] \in ThreadRecord /\ g \in Guest
  BY SessionIsTyped DEF ThreadsFine, ThreadRecord, Mark
<1>1. player[g] \in PlayerRecord /\ thread[t] \in ThreadRecord /\ (player[g].st = "unreachable" => player[g].from # "none")
  BY <1>a, SessionIsTyped DEF ArePlayers
<1>2. m \in {player[g], [player[g] EXCEPT !.st = "failed"], [player[g] EXCEPT !.st = "launching"]}
  BY DEF Marked
<1>3. m \in PlayerRecord /\ (m.st = "unreachable" => m.from # "none")
  BY <1>1, <1>2, StatusBecomes, Statuses
<1>4. ArePlayers(p)
  BY <1>a, <1>3, PlayerBecomes, SessionIsTyped
<1>5. watch' \in [Guest -> WatchRecord]
  <2>1. thread[t].wave \in Nat
    BY <1>1 DEF ThreadRecord
  <2>2. [watch EXCEPT ![g].offered = thread[t].wave] \in [Guest -> WatchRecord]
    BY <2>1, SessionIsTyped DEF WatchRecord
  <2> QED BY <1>0, <2>2, SessionIsTyped
<1>6. x \in ThreadRecord /\ x.pc = thread[t].pc /\ thread' = [thread EXCEPT ![t] = x]
  BY <1>0, <1>1 DEF ThreadRecord
<1> HIDE DEF x, p, m
<1>7. ThreadsFine' /\ Calm
  BY <1>6, SessionIsTyped DEF ThreadsFine, Calm, Thread
<1>8. NetTypes' /\ UNCHANGED <<playing, updates>>
  BY <1>0, SessionIsTyped DEF NetTypes, net
<1> QED BY <1>0, <1>4, <1>5, <1>7, <1>8, SessionIsTyped, HostMutatesCalmly

LEMMA SentKeeps == ASSUME SessionInv, NEW t \in Thread, Sent(t) PROVE SessionInv'
<1>0. /\ UNCHANGED <<host, player, watch, playing, net, left>>
      /\ IF t = "retry" \/ (t = "tick" /\ Confirmed # {})
         THEN Go(t, "evaluating", IF t = "tick" THEN Confirmed ELSE {})
         ELSE Hand(t, "evaluating")
  BY DEF Sent
<1>1. (IF t = "tick" THEN Confirmed ELSE {}) \in SUBSET Guest /\ "evaluating" \in Doing
  BY DEF Confirmed, Doing
<1>2. ThreadsFine' /\ Calm
  BY <1>0, <1>1, GoesOn, HandsOver
<1>3. NetTypes' /\ UNCHANGED <<playing, updates>> /\ watch' \in [Guest -> WatchRecord] /\ host' = host /\ player' = player
  BY <1>0, SessionIsTyped DEF NetTypes, net
<1>4. EndWaits'
  BY <1>2, <1>3 DEF SessionInv, EndWaits, EndedIsClean, Calm, Doing
<1>5. host.version >= host.version
  BY SessionIsTyped DEF HostRecord
<1> QED BY <1>2, <1>3, <1>4, <1>5, HostChanges, SessionIsTyped

LEMMA EvaluateKeeps == ASSUME SessionInv, NEW t \in Thread, Evaluate(t) PROVE SessionInv'
<1>0. UNCHANGED <<watch, playing, net, left>>
  BY DEF Evaluate
<1>1. NetTypes' /\ UNCHANGED <<playing, updates>> /\ watch' \in [Guest -> WatchRecord] /\ {} \in SUBSET Guest
  BY <1>0, SessionIsTyped DEF NetTypes, net
<1>2. CASE host.state \notin Coming
  <2>1. Go(t, "idle", {}) /\ UNCHANGED <<host, player>>
    BY <1>2 DEF Evaluate
  <2>2. ThreadsFine' /\ Calm
    BY <1>1, <2>1, GoesOn DEF Doing
  <2>3. EndWaits'
    BY <2>1, <2>2 DEF SessionInv, EndWaits, EndedIsClean, Calm, Doing
  <2>4. host.version >= host.version
    BY SessionIsTyped DEF HostRecord
  <2> QED BY <1>1, <2>1, <2>2, <2>3, <2>4, HostChanges, SessionIsTyped
<1>3. CASE host.state \in Coming
  <2> DEFINE sure == thread[t].todo
             p == [g \in Guest |-> IF g \in sure /\ player[g].st \in Expected
                                   THEN [player[g] EXCEPT !.st = "running"] ELSE player[g]]
             closed == {g \in Guest : host.overdue /\ LaunchPending(p[g])}
             q == [g \in Guest |-> IF g \in closed THEN [p[g] EXCEPT !.st = "failed"] ELSE p[g]]
             s == SettleLive(host.state, q)
             wave == IF closed # {} THEN host.wave + 1 ELSE host.wave
             h == [host EXCEPT !.state = s, !.wave = IF closed # {} THEN @ + 1 ELSE @]
  <2>1. \/ Mutate(h, q) /\ (Go(t, "failing", {}) \/ Hand(t, "failing"))
        \/ Mutate(Published(h), q) /\ Go(t, "idle", {})
    BY <1>3 DEF Evaluate
  <2>2. ASSUME NEW g \in Guest PROVE p[g] \in PlayerRecord /\ (p[g].st = "unreachable" => p[g].from # "none")
    BY SessionIsTyped, StatusBecomes, Statuses DEF ArePlayers
  <2>3. ASSUME NEW g \in Guest PROVE q[g] \in PlayerRecord /\ (q[g].st = "unreachable" => q[g].from # "none")
    <3> HIDE DEF p
    <3> QED BY <2>2, StatusBecomes, Statuses
  <2>4. ArePlayers(q)
    BY <2>3 DEF ArePlayers
  <2>5. s \in SessionState /\ (s = "COMPLETED" => host.state = "COMPLETED")
    BY SettleStates, SessionIsTyped
  <2>6. wave \in Nat /\ h = [host EXCEPT !.state = s, !.wave = wave]
    BY SessionIsTyped DEF HostRecord
  <2> HIDE DEF s, q, closed, p, wave, h
  <2>7. /\ h \in HostRecord /\ h.version = host.version /\ h.state = s /\ h.game = host.game /\ h.launched = host.launched /\ h.attention = host.attention
        /\ Published(h) \in HostRecord /\ Published(h).version = host.version /\ Published(h).state = s
        /\ Published(h).game = host.game /\ Published(h).launched = host.launched /\ Published(h).attention = host.attention
    <3>1. h \in HostRecord /\ h.version = host.version /\ h.state = s /\ h.game = host.game /\ h.launched = host.launched /\ h.attention = host.attention
      BY <2>5, <2>6, SessionIsTyped DEF HostRecord
    <3> QED BY <3>1 DEF HostRecord, Published
  <2>8. ThreadsFine' /\ Calm
    BY <1>1, <2>1, GoesOn, HandsOver DEF Doing
  <2> QED BY <1>1, <2>1, <2>4, <2>5, <2>7, <2>8, HostMutatesCalmly
<1> QED BY <1>2, <1>3

\* cleanup_host_resources closes the game, or says that it could not.
LEMMA ClosingsFine ==
  ASSUME host \in HostRecord, NEW h \in Closings
  PROVE  /\ h \in HostRecord /\ h.version \in {host.version, host.version + 1} /\ h.state = host.state
         /\ ~Mute => (h.launched /\ h.game => h.attention)
<1> DEFINE g == host.game /\ ~host.launched
           v == host.version + 1
           closed == [host EXCEPT !.game = g]
           noted == [host EXCEPT !.version = v, !.attention = TRUE]
<1>1. h \in {closed, noted} \/ (Mute /\ h = host)
  BY DEF Closings, HostRecord
<1>2. g \in BOOLEAN /\ (host.launched => ~g) /\ v \in Nat \ {0} /\ v = host.version + 1
  BY DEF HostRecord
<1> HIDE DEF g, v
<1>3. /\ closed \in HostRecord /\ closed.version = host.version /\ closed.state = host.state
      /\ closed.launched /\ closed.game => closed.attention
  BY <1>2 DEF HostRecord
<1>4. noted \in HostRecord /\ noted.version = v /\ noted.state = host.state /\ noted.attention
  BY <1>2 DEF HostRecord
<1> HIDE DEF closed, noted
<1> QED BY <1>1, <1>2, <1>3, <1>4

LEMMA EndsIn ==
  ASSUME NEW h \in HostRecord, NEW s \in SessionState
  PROVE  LET k == Published([h EXCEPT !.state = s])
         IN  /\ k \in HostRecord /\ k.version = h.version /\ k.state = s
             /\ k.launched = h.launched /\ k.game = h.game /\ k.attention = h.attention
BY DEF HostRecord, Published

\* What fails, or is lost, uses up a bound of the setting.
LEMMA StuckFine == ASSUME SessionInv, NEW running, Stuck(running), UNCHANGED net PROVE NetTypes'
BY SessionIsTyped DEF Stuck, NetTypes, net

LEMMA FailSessionKeeps == ASSUME SessionInv, NEW t \in Thread, FailSession(t) PROVE SessionInv'
<1>1. PICK h \in Closings :
         /\ Stuck(h.game /\ h.launched)
         /\ IF host.state \in {"STOPPING", "COMPLETED"} THEN Mutate(h, player)
            ELSE Mutate(Published([h EXCEPT !.state = "FAILED"]), player)
  BY DEF FailSession
<1> DEFINE k == Published([h EXCEPT !.state = "FAILED"])
<1>2. UNCHANGED <<watch, playing, net>> /\ Go(t, "idle", {})
  BY DEF FailSession
<1>3. NetTypes' /\ UNCHANGED <<playing, updates>> /\ watch' \in [Guest -> WatchRecord] /\ {} \in SUBSET Guest
  BY <1>1, <1>2, SessionIsTyped, StuckFine DEF net
<1>4. ThreadsFine' /\ Calm
  BY <1>2, <1>3, GoesOn DEF Doing
<1>5. thread'["start"].pc = "launching" => thread'["end"].pc # "ending" /\ host.state # "COMPLETED"
  BY <1>4 DEF SessionInv, EndWaits, Calm, Doing
<1>6. /\ h \in HostRecord /\ h.version \in {host.version, host.version + 1} /\ h.state = host.state
      /\ ~Mute => (h.launched /\ h.game => h.attention)
  BY ClosingsFine, SessionIsTyped
<1>7. k \in HostRecord /\ k.version = h.version /\ k.state = "FAILED"
  BY <1>6, EndsIn, Statuses
<1> HIDE DEF k
<1>8. CASE Mutate(h, player)
  BY <1>3, <1>4, <1>5, <1>6, <1>8, SessionIsTyped, HostMutates
<1>9. CASE Mutate(k, player)
  BY <1>3, <1>4, <1>5, <1>6, <1>7, <1>9, SessionIsTyped, HostMutates
<1> QED BY <1>1, <1>8, <1>9 DEF k

LEMMA ElapseKeeps == ASSUME SessionInv, Elapse PROVE SessionInv'
<1>0. host' = [host EXCEPT !.overdue = TRUE] /\ UNCHANGED <<player, watch, thread, playing, net, left>>
  BY DEF Elapse
<1>1. /\ host' \in HostRecord /\ host'.version = host.version /\ host'.state = host.state
      /\ host'.game = host.game /\ host'.launched = host.launched /\ host'.attention = host.attention
  BY <1>0, SessionIsTyped DEF HostRecord
<1>2. NetTypes' /\ UNCHANGED <<playing, updates>> /\ watch' \in [Guest -> WatchRecord]
  BY <1>0, SessionIsTyped DEF NetTypes, net
<1>3. EndWaits'
  BY <1>0, <1>1 DEF SessionInv, EndWaits, EndedIsClean
<1>4. host'.version >= host.version
  BY <1>1 DEF HostRecord
<1> QED BY <1>0, <1>1, <1>2, <1>3, <1>4, HostChanges, SessionIsTyped, SameThreads

LEMMA RepublishKeeps == ASSUME SessionInv, Republish PROVE SessionInv'
<1>0. host' = Published(host) /\ UNCHANGED <<player, watch, thread, playing, net, left>>
  BY DEF Republish
<1>1. /\ host' \in HostRecord /\ host'.version = host.version /\ host'.state = host.state
      /\ host'.game = host.game /\ host'.launched = host.launched /\ host'.attention = host.attention
  BY <1>0, SessionIsTyped DEF HostRecord, Published
<1>2. NetTypes' /\ UNCHANGED <<playing, updates>> /\ watch' \in [Guest -> WatchRecord]
  BY <1>0, SessionIsTyped DEF NetTypes, net
<1>3. EndWaits'
  BY <1>0, <1>1 DEF SessionInv, EndWaits, EndedIsClean
<1>4. host'.version >= host.version
  BY <1>1 DEF HostRecord
<1> QED BY <1>0, <1>1, <1>2, <1>3, <1>4, HostChanges, SessionIsTyped, SameThreads

LEMMA RetryPlayersKeeps == ASSUME SessionInv, RetryPlayers PROVE SessionInv'
<1>1. PICK wanted \in SUBSET (In(player, "failed") \cup In(player, "unreachable")) :
         /\ watch' = [g \in Guest |-> IF g \in wanted THEN [watch[g] EXCEPT !.offered = 0] ELSE watch[g]]
         /\ Go("retry", "sending", wanted)
         /\ host' = [host EXCEPT !.wave = @ + 1, !.overdue = FALSE]
         /\ left' = [left EXCEPT !.retry = @ - 1]
         /\ UNCHANGED <<player, playing, net>>
  BY DEF RetryPlayers
<1> DEFINE wave == host.wave + 1
<1>2. wave \in Nat /\ host' = [host EXCEPT !.wave = wave, !.overdue = FALSE]
  BY <1>1, SessionIsTyped DEF HostRecord
<1> HIDE DEF wave
<1>3. /\ host' \in HostRecord /\ host'.version = host.version /\ host'.state = host.state
      /\ host'.game = host.game /\ host'.launched = host.launched /\ host'.attention = host.attention
  BY <1>2, SessionIsTyped DEF HostRecord
<1>4. NetTypes' /\ UNCHANGED <<playing, updates>>
  BY <1>1, SessionIsTyped DEF NetTypes, net
<1>5. watch' \in [Guest -> WatchRecord]
  BY <1>1, SessionIsTyped DEF WatchRecord
<1>6. ThreadsFine' /\ Calm
  <2>1. wanted \in SUBSET Guest /\ "retry" \in Thread /\ "sending" \in Doing
    BY SessionIsTyped DEF ArePlayers, In, Thread, Doing
  <2> QED BY <1>1, <2>1, GoesOn
<1>7. EndWaits'
  BY <1>3, <1>6 DEF SessionInv, EndWaits, EndedIsClean, Calm, Doing
<1>8. host'.version >= host.version
  BY <1>3 DEF HostRecord
<1> QED BY <1>1, <1>3, <1>4, <1>5, <1>6, <1>7, <1>8, HostChanges

LEMMA RetryFailedKeeps == ASSUME SessionInv, RetryFailed PROVE SessionInv'
<1> DEFINE p == [g \in Guest |-> Lobby(player[g])]
           h == Published([host EXCEPT !.state = "LOBBY", !.ready = FALSE, !.launched = FALSE])
<1>0. Mutate(h, p) /\ UNCHANGED <<watch, thread, playing, net>> /\ left' = [left EXCEPT !.retry = @ - 1]
  BY DEF RetryFailed
<1>1. ASSUME NEW g \in Guest PROVE Lobby(player[g]) \in PlayerRecord /\ Lobby(player[g]).st # "unreachable"
  <2> DEFINE x == player[g]
             y == IF x.st \in {"failed", "unreachable", "running", "launching"} THEN [x EXCEPT !.st = "joined"] ELSE x
  <2>1. x \in PlayerRecord
    BY SessionIsTyped DEF ArePlayers
  <2>2. y \in PlayerRecord /\ y.st # "unreachable"
    BY <2>1, StatusBecomes, Statuses
  <2>3. Lobby(x) = IF y.st = "joined" THEN [y EXCEPT !.ready = FALSE] ELSE y
    BY DEF Lobby
  <2> HIDE DEF y
  <2>4. [y EXCEPT !.ready = FALSE] \in PlayerRecord /\ [y EXCEPT !.ready = FALSE].st = y.st
    BY <2>2 DEF PlayerRecord
  <2> QED BY <2>2, <2>3, <2>4
<1>2. ArePlayers(p)
  BY <1>1 DEF ArePlayers
<1>3. h \in HostRecord /\ h.version = host.version /\ h.state = "LOBBY"
  BY SessionIsTyped, Statuses DEF HostRecord, Published
<1>4. NetTypes' /\ UNCHANGED <<playing, updates>> /\ watch' \in [Guest -> WatchRecord]
  BY <1>0, SessionIsTyped DEF NetTypes, net
<1> HIDE DEF p, h
<1> QED BY <1>0, <1>2, <1>3, <1>4, SessionIsTyped, SameThreads, HostMutatesCalmly

\* End pressed by whoever: nobody launches, as the lock is free.
LEMMA StopKeeps == ASSUME SessionInv, Stop, NetTypes' PROVE SessionInv'
<1> DEFINE h == Published([host EXCEPT !.state = "STOPPING"])
<1>0. ~Locked /\ Mutate(h, player) /\ Go("end", "ending", {}) /\ UNCHANGED <<watch, playing, net>>
  BY DEF Stop
<1>1. h \in HostRecord /\ h.version = host.version /\ h.state = "STOPPING"
  BY SessionIsTyped, Statuses DEF HostRecord, Published
<1> HIDE DEF h
<1>2. {} \in SUBSET Guest /\ {"end", "start"} \subseteq Thread /\ "ending" \in Doing \cup {"queued", "launching", "ending"}
  BY DEF Thread
<1>3. ThreadsFine' /\ thread'["start"].pc = thread["start"].pc
  BY <1>0, <1>2, GoFine, SessionIsTyped
<1>4. thread["start"].pc # "launching"
  BY <1>0 DEF Locked
<1>5. UNCHANGED <<playing, updates>> /\ watch' \in [Guest -> WatchRecord]
  BY <1>0, SessionIsTyped DEF net
<1> QED BY <1>0, <1>1, <1>3, <1>4, <1>5, SessionIsTyped, HostMutates

LEMMA EndKeeps == ASSUME SessionInv, End \/ GameOver PROVE SessionInv'
<1>1. Stop /\ (left' = left \/ left' = [left EXCEPT !.end = @ - 1])
  BY DEF End, GameOver
<1>2. NetTypes'
  BY <1>1, SessionIsTyped DEF NetTypes, net, Stop
<1> QED BY <1>1, <1>2, StopKeeps

LEMMA FinishKeeps == ASSUME SessionInv, Finish PROVE SessionInv'
<1>1. PICK h \in Closings : Stuck(h.game /\ h.launched) /\ Mutate(Published([h EXCEPT !.state = "COMPLETED"]), player)
  BY DEF Finish
<1> DEFINE k == Published([h EXCEPT !.state = "COMPLETED"])
<1>2. thread["end"].pc = "ending" /\ Go("end", "idle", {}) /\ UNCHANGED <<watch, playing, net>>
  BY DEF Finish
<1>3. /\ h \in HostRecord /\ h.version \in {host.version, host.version + 1}
      /\ ~Mute => (h.launched /\ h.game => h.attention)
  BY ClosingsFine, SessionIsTyped
<1>4. /\ k \in HostRecord /\ k.version = h.version /\ k.state = "COMPLETED"
      /\ k.launched = h.launched /\ k.game = h.game /\ k.attention = h.attention
  BY <1>3, EndsIn, Statuses
<1>5. Mutate(k, player)
  BY <1>1
<1> HIDE DEF k
<1>6. {} \in SUBSET Guest /\ {"end", "start"} \subseteq Thread /\ "idle" \in Doing
  BY DEF Thread, Doing
<1>7. ThreadsFine' /\ thread'["start"].pc = thread["start"].pc
  BY <1>2, <1>6, GoFine, SessionIsTyped
<1>8. thread["start"].pc # "launching"
  BY <1>2 DEF SessionInv, EndWaits
<1>9. NetTypes' /\ UNCHANGED <<playing, updates>> /\ watch' \in [Guest -> WatchRecord]
  BY <1>1, <1>2, SessionIsTyped, StuckFine DEF net
<1> QED BY <1>3, <1>4, <1>5, <1>7, <1>8, <1>9, SessionIsTyped, HostMutates

LEMMA TickKeeps == ASSUME SessionInv, Tick PROVE SessionInv'
<1> DEFINE todo == IF host.overdue THEN {} ELSE {g \in Guest : player[g].st \in Expected /\ watch[g].offered # host.wave}
<1>0. /\ left' = IF left.endless THEN left ELSE [left EXCEPT !.sweep = @ - 1]
      /\ Go("tick", "sending", todo) /\ UNCHANGED <<host, player, watch, playing, net>>
  BY DEF Tick
<1>1. todo \in SUBSET Guest /\ "tick" \in Thread /\ "sending" \in Doing
  BY DEF Thread, Doing
<1> HIDE DEF todo
<1>2. ThreadsFine' /\ Calm
  BY <1>0, <1>1, GoesOn
<1>3. NetTypes' /\ UNCHANGED <<playing, updates>> /\ watch' \in [Guest -> WatchRecord] /\ host' = host /\ player' = player
  BY <1>0, SessionIsTyped DEF NetTypes, net
<1>4. EndWaits'
  BY <1>2, <1>3 DEF SessionInv, EndWaits, EndedIsClean, Calm, Doing
<1>5. host.version >= host.version
  BY SessionIsTyped DEF HostRecord
<1> QED BY <1>2, <1>3, <1>4, <1>5, HostChanges, SessionIsTyped

\* What only moves the watch leaves the rest alone.
LEMMA WatchKeeps ==
  ASSUME SessionInv, UNCHANGED <<host, player, thread, playing, net, left>>, watch' \in [Guest -> WatchRecord]
  PROVE  SessionInv'
<1>1. NetTypes' /\ UNCHANGED <<playing, updates>>
  BY SessionIsTyped DEF NetTypes, net
<1>2. EndWaits'
  BY DEF SessionInv, EndWaits, EndedIsClean
<1>3. host.version >= host.version
  BY SessionIsTyped DEF HostRecord
<1> QED BY <1>1, <1>2, <1>3, HostChanges, SessionIsTyped, SameThreads

LEMMA FallSilentKeeps == ASSUME SessionInv, NEW g \in Guest, FallSilent(g) PROVE SessionInv'
<1>1. watch' = [watch EXCEPT ![g].silent = TRUE] /\ UNCHANGED <<host, player, thread, playing, net, left>>
  BY DEF FallSilent
<1>2. watch' \in [Guest -> WatchRecord]
  BY <1>1, SessionIsTyped DEF WatchRecord
<1> QED BY <1>1, <1>2, WatchKeeps

LEMMA ProbeKeeps == ASSUME SessionInv, NEW g \in Guest, Probe(g) PROVE SessionInv'
<1>0. UNCHANGED <<thread, playing, net, left>>
  BY DEF Probe
<1>1. NetTypes' /\ UNCHANGED <<playing, updates>> /\ ThreadsFine' /\ Calm
  BY <1>0, SessionIsTyped, SameThreads DEF NetTypes, net
<1>2. player[g] \in PlayerRecord /\ (player[g].st = "unreachable" => player[g].from # "none")
  BY SessionIsTyped DEF ArePlayers
<1>3. CASE Found(g)
  <2> DEFINE x == player[g]
             y == [x EXCEPT !.st = x.from, !.from = "none"]
             p == [player EXCEPT ![g].st = player[g].from, ![g].from = "none"]
             s == SettleLive(host.state, p)
             h == [host EXCEPT !.state = s]
  <2>1. /\ watch' = [watch EXCEPT ![g].silent = FALSE, ![g].missed = FALSE]
        /\ IF player[g].st = "unreachable" THEN Mutate(h, p) ELSE UNCHANGED <<host, player>>
    BY <1>3, SessionIsTyped DEF Found, HostRecord
  <2>2. watch' \in [Guest -> WatchRecord]
    BY <2>1, SessionIsTyped DEF WatchRecord
  <2>3. CASE player[g].st # "unreachable"
    BY <1>0, <2>1, <2>2, <2>3, WatchKeeps
  <2>4. CASE player[g].st = "unreachable"
    <3>1. y \in PlayerRecord /\ y.st # "unreachable" /\ p = [player EXCEPT ![g] = y]
      BY <1>2, <2>4, SessionIsTyped DEF ArePlayers, PlayerRecord, Expected, PlayerStatus
    <3>2. ArePlayers(p)
      BY <3>1, PlayerBecomes, SessionIsTyped
    <3>3. s \in SessionState /\ (s = "COMPLETED" => host.state = "COMPLETED")
      BY SettleStates, SessionIsTyped
    <3> HIDE DEF p, y, s
    <3>4. h \in HostRecord /\ h.version = host.version /\ h.state = s /\ h.game = host.game /\ h.launched = host.launched /\ h.attention = host.attention
      BY <3>3, SessionIsTyped DEF HostRecord
    <3> HIDE DEF h
    <3> QED BY <1>1, <2>1, <2>2, <2>4, <3>2, <3>3, <3>4, HostMutatesCalmly
  <2> QED BY <2>3, <2>4
<1>4. CASE Lose(g) /\ UNCHANGED watch
  <2> DEFINE x == player[g]
             y == Missing(x)
             z == IF host.state \in PreStart /\ y # x THEN [y EXCEPT !.ready = FALSE] ELSE y
             p == [player EXCEPT ![g] = z]
             s == IF host.state = "RUNNING" THEN "DEGRADED" ELSE SettleLobby(host.state, host.ready, p)
             h == Published([host EXCEPT !.state = s])
  <2>1. IF y = x THEN host' = Published(host) /\ UNCHANGED player ELSE Mutate(h, p)
    BY <1>4, SessionIsTyped DEF Lose, HostRecord
  <2>2. watch' \in [Guest -> WatchRecord]
    BY <1>4, SessionIsTyped
  <2>3. CASE y = x
    <3>1. /\ host' \in HostRecord /\ host'.version = host.version /\ host'.state = host.state
          /\ host'.game = host.game /\ host'.launched = host.launched /\ host'.attention = host.attention
      BY <2>1, <2>3, SessionIsTyped DEF HostRecord, Published
    <3>2. EndWaits'
      BY <1>0, <3>1 DEF SessionInv, EndWaits, EndedIsClean
    <3>3. host'.version >= host.version
      BY <3>1 DEF HostRecord
    <3> QED BY <1>1, <2>1, <2>2, <2>3, <3>1, <3>2, <3>3, HostChanges
  <2>4. CASE y # x
    <3>1. y \in PlayerRecord /\ (y.st = "unreachable" => y.from # "none")
      BY <1>2 DEF Missing, PlayerRecord, PlayerStatus, Expected
    <3> HIDE DEF y
    <3>2. z \in PlayerRecord /\ (z.st = "unreachable" => z.from # "none")
      BY <3>1 DEF PlayerRecord
    <3> HIDE DEF z
    <3>3. ArePlayers(p)
      BY <3>2, PlayerBecomes, SessionIsTyped
    <3> HIDE DEF p
    <3>4. s \in SessionState /\ (s = "COMPLETED" => host.state = "COMPLETED")
      BY SettleStates, SessionIsTyped, Statuses
    <3> HIDE DEF s
    <3>5. h \in HostRecord /\ h.version = host.version /\ h.state = s /\ h.game = host.game /\ h.launched = host.launched /\ h.attention = host.attention
      BY <3>4, SessionIsTyped DEF HostRecord, Published
    <3> HIDE DEF h
    <3> QED BY <1>1, <2>1, <2>2, <2>4, <3>3, <3>4, <3>5, HostMutatesCalmly
  <2> QED BY <2>3, <2>4
<1>5. CASE watch' = [watch EXCEPT ![g].missed = TRUE] /\ UNCHANGED <<host, player>>
  <2>1. watch' \in [Guest -> WatchRecord]
    BY <1>5, SessionIsTyped DEF WatchRecord
  <2> QED BY <1>0, <1>5, <2>1, WatchKeeps
<1> QED BY <1>3, <1>4, <1>5 DEF Probe

LEMMA RecoverKeeps == ASSUME SessionInv, Recover PROVE SessionInv'
<1> DEFINE h == Published([host EXCEPT !.state = "STOPPING"])
<1>0. ~Locked /\ UNCHANGED <<watch, playing, net, left>>
  BY DEF Recover
<1>1. NetTypes' /\ UNCHANGED <<playing, updates>> /\ watch' \in [Guest -> WatchRecord]
  BY <1>0, SessionIsTyped DEF NetTypes, net
<1>2. \/ Hand("tick", "failing") /\ UNCHANGED <<host, player>>
      \/ Mutate(h, player) /\ thread' = [thread EXCEPT !["tick"] = Idle, !["end"].pc = "ending"]
      \/ Go("tick", "idle", {}) /\ UNCHANGED <<host, player>>
  BY DEF Recover
<1>3. {"start", "end", "tick"} \subseteq Thread /\ {} \in SUBSET Guest /\ "idle" \in Doing
  BY DEF Thread, Doing
<1>4. CASE Mutate(h, player) /\ thread' = [thread EXCEPT !["tick"] = Idle, !["end"].pc = "ending"]
  <2>1. h \in HostRecord /\ h.version = host.version /\ h.state = "STOPPING"
    BY SessionIsTyped, Statuses DEF HostRecord, Published
  <2> HIDE DEF h
  <2> DEFINE x == [thread["end"] EXCEPT !.pc = "ending"]
  <2>2. x \in ThreadRecord /\ thread' = [thread EXCEPT !["tick"] = Idle, !["end"] = x]
    BY <1>3, <1>4, SessionIsTyped DEF ThreadsFine, ThreadRecord
  <2> HIDE DEF x
  <2>3. ThreadsFine' /\ thread'["start"] = thread["start"]
    BY <1>3, <2>2, IdleFine, SessionIsTyped DEF ThreadsFine
  <2>4. thread["start"].pc # "launching"
    BY <1>0 DEF Locked
  <2>5. Mutate(h, player) /\ thread'["start"].pc # "launching" /\ h.version \in {host.version, host.version + 1}
    BY <1>4, <2>1, <2>3, <2>4
  <2>6. ~Mute => (h.state = "COMPLETED" /\ h.launched /\ h.game => h.attention)
    BY <2>1
  <2>7. ArePlayers(player)
    BY SessionIsTyped
  <2> QED BY <1>1, <2>1, <2>3, <2>5, <2>6, <2>7, HostMutates
<1>5. CASE UNCHANGED <<host, player>> /\ (Hand("tick", "failing") \/ Go("tick", "idle", {}))
  <2>1. ThreadsFine' /\ Calm
    BY <1>3, <1>5, GoesOn, HandsOver
  <2>2. EndWaits'
    BY <1>5, <2>1 DEF SessionInv, EndWaits, EndedIsClean, Calm, Doing
  <2>3. host.version >= host.version
    BY SessionIsTyped DEF HostRecord
  <2> QED BY <1>1, <1>5, <2>1, <2>2, <2>3, HostChanges, SessionIsTyped
<1> QED BY <1>2, <1>4, <1>5

LEMMA PushKeeps == ASSUME SessionInv, Push PROVE SessionInv'
<1>1. PICK lost \in SUBSET Receivers :
         LET reached == Receivers \ lost
         IN  /\ left' = [left EXCEPT !.lose = @ - Cardinality(lost \ {g \in Receivers : ~link[g]})]
             /\ updates' = [g \in Guest |-> IF g \in reached THEN New(g) ELSE updates[g]]
             /\ host' = [host EXCEPT !.push = FALSE, !.unsent = lost # {}, !.told = @ \cup (reached \cap In(player, "removed"))]
  BY DEF Push
<1>2. UNCHANGED <<player, watch, thread, playing, late, stray, link>>
  BY DEF Push
<1> DEFINE unsent == lost # {}
           told == host.told \cup ((Receivers \ lost) \cap In(player, "removed"))
<1>3. /\ unsent \in BOOLEAN /\ told \in SUBSET Guest
      /\ host' = [host EXCEPT !.push = FALSE, !.unsent = unsent, !.told = told]
  BY <1>1, SessionIsTyped DEF HostRecord, In, ArePlayers
<1> HIDE DEF unsent, told
<1>4. /\ host' \in HostRecord /\ host'.version = host.version /\ host'.state = host.state
      /\ host'.game = host.game /\ host'.launched = host.launched /\ host'.attention = host.attention
  BY <1>3, SessionIsTyped DEF HostRecord
<1>5. HostFine' /\ Advances /\ HostTypes'
  <2>1. host'.version >= host.version
    BY <1>4 DEF HostRecord
  <2> QED BY <1>2, <1>4, <2>1 DEF SessionInv, HostTypes, HostFine, ArePlayers, Advances
<1>6. ASSUME NEW g \in Guest, NEW s \in New(g) PROVE s \in Replica /\ AgreesWith(host', player', s, g)
  <2>1. s = Snapshot(host, player, g)
    BY DEF New
  <2>2. s \in Replica /\ AgreesWith(host, player, s, g)
    BY <2>1, SnapshotAgrees, SessionIsTyped
  <2> QED BY <1>2, <1>4, <2>2 DEF AgreesWith
<1>7. \A g \in Guest : updates'[g] = New(g) \/ updates'[g] = updates[g]
  BY <1>1
<1>8. NetTypes'
  <2>1. updates' \in [Guest -> SUBSET Replica]
    BY <1>1, <1>6, <1>7, SessionIsTyped DEF NetTypes
  <2> QED BY <1>1, <1>2, <2>1, SessionIsTyped DEF NetTypes
<1>9. GuestTypes' /\ LauncherIsAlone'
  BY <1>2 DEF playing, SessionInv, GuestTypes, GuestsFine, BusyFine, CallsFine, LauncherIsAlone, AloneAt, Asking
<1>10. EndWaits'
  BY <1>2, <1>4 DEF SessionInv, EndWaits, EndedIsClean
<1>11. SnapshotsAgree'
  <2>1. \A g \in Guest : \A s \in updates'[g] : s \in updates[g] \/ AgreesWith(host', player', s, g)
    BY <1>6, <1>7
  <2>2. guest' = guest /\ call' = call
    BY <1>2 DEF playing
  <2> QED BY <1>5, <2>1, <2>2, SnapshotsKeep
<1> QED BY <1>5, <1>8, <1>9, <1>10, <1>11 DEF SessionInv

\* A request that failed still is one of its kind.
LEMMA FailedFine ==
  ASSUME NEW c \in CallRecord, NEW kinds, IsCall(c, kinds), c.at # "none"
  PROVE  Failed(c) \in CallRecord /\ IsCall(Failed(c), kinds) /\ Failed(c).at = "failed" /\ Failed(c).kind = c.kind
BY DEF IsCall, Failed, CallRecord

LEMMA HostCrashKeeps == ASSUME SessionInv, HostCrash PROVE SessionInv'
<1>0. /\ left' = [left EXCEPT !.crash = @ - 1]
      /\ thread' = [[t \in Thread |-> Idle] EXCEPT !["tick"].pc = "recovering"]
      /\ host' = [host EXCEPT !.push = FALSE]
      /\ call' = [g \in Guest |-> [l \in Line |-> IF call[g][l].at \in {"asked", "checked"}
                                                  THEN Failed(call[g][l]) ELSE call[g][l]]]
      /\ late' = [g \in Guest |-> {}]
      /\ UNCHANGED <<player, watch, guest, busy, updates, stray, link>>
  BY DEF HostCrash
<1>1. /\ host' \in HostRecord /\ host'.version = host.version /\ host'.state = host.state
      /\ host'.game = host.game /\ host'.launched = host.launched /\ host'.attention = host.attention
  BY <1>0, SessionIsTyped DEF HostRecord
<1>2. thread' \in [Thread -> ThreadRecord] /\ thread'["start"].pc = "idle"
  BY <1>0 DEF Idle, ThreadRecord, Thread
<1>3. HostFine' /\ Advances /\ HostTypes'
  <2>1. host'.version >= host.version
    BY <1>1 DEF HostRecord
  <2> QED BY <1>0, <1>1, <1>2, <2>1 DEF SessionInv, HostTypes, HostFine, ArePlayers, Advances
<1>4. NetTypes'
  BY <1>0, SessionIsTyped DEF NetTypes
<1>5. ASSUME NEW g \in Guest, NEW l \in Line
      PROVE  /\ call'[g][l] \in CallRecord /\ call'[g][l].kind = call[g][l].kind
             /\ IsCall(call'[g][l], Kinds(l))
             /\ call'[g][l].at = "answered" => call'[g][l] = call[g][l]
  <2>1. call[g][l] \in CallRecord /\ IsCall(call[g][l], Kinds(l))
    BY DEF SessionInv, GuestTypes, CallsFine, Line, Kinds
  <2>2. call'[g][l] = IF call[g][l].at \in {"asked", "checked"} THEN Failed(call[g][l]) ELSE call[g][l]
    BY <1>0
  <2> QED BY <2>1, <2>2, FailedFine
<1>6. CallsFine'
  <2>1. call' \in [Guest -> [Line -> CallRecord]]
    BY <1>0, <1>5
  <2> QED BY <1>5, <2>1 DEF CallsFine, Line, Kinds
<1>7. GuestTypes'
  BY <1>0, <1>6 DEF SessionInv, GuestTypes, GuestsFine, BusyFine
<1>8. EndWaits'
  BY <1>1, <1>2 DEF SessionInv, EndWaits, EndedIsClean
<1>9. SnapshotsAgree'
  BY <1>0, <1>3, <1>5, SnapshotsKeep
<1>10. LauncherIsAlone'
  <2>1. \A g \in Guest : Asking(g)' => Asking(g)
    BY <1>5 DEF Asking, Line
  <2> QED BY <1>0, <2>1 DEF SessionInv, LauncherIsAlone, AloneAt
<1> QED BY <1>3, <1>4, <1>7, <1>8, <1>9, <1>10 DEF SessionInv

-----------------------------------------------------------------------------
(* The steps that the host and a guest share.                              *)

LEMMA SharedStep ==
  ASSUME SessionInv, HostTypes', Advances, EndWaits', NetTypes', NEW g \in Guest, CallsFine', AloneAt(g)',
         NEW y, guest' = [guest EXCEPT ![g] = y], IsGuest(y),
         ReplicaOf(y) = ReplicaOf(guest[g]) \/ AgreesWith(host', player', ReplicaOf(y), g),
         UNCHANGED <<busy, updates>>, \A h \in Guest : h # g => call'[h] = call[h],
         \A l \in Line : call'[g][l].at = "answered"
           => call'[g][l] = call[g][l] \/ AgreesWith(host', player', call'[g][l].reply, g)
  PROVE  SessionInv'
<1>1. \A h \in Guest : guest'[h] = IF h = g THEN y ELSE guest[h]
  BY DEF SessionInv, GuestTypes, GuestsFine
<1>2. GuestTypes'
  <2>1. guest' = [h \in Guest |-> guest'[h]]
    BY DEF SessionInv, GuestTypes, GuestsFine
  <2> QED BY <1>1, <2>1 DEF SessionInv, GuestTypes, GuestsFine, BusyFine
<1>3. SnapshotsAgree'
  <2>1. \A h \in Guest : \/ ReplicaOf(guest'[h]) = ReplicaOf(guest[h])
                         \/ AgreesWith(host', player', ReplicaOf(guest'[h]), h)
    BY <1>1
  <2>2. \A h \in Guest : \A l \in Line : call'[h][l].at = "answered"
           => call'[h][l] = call[h][l] \/ AgreesWith(host', player', call'[h][l].reply, h)
    OBVIOUS
  <2> QED BY <2>1, <2>2, SnapshotsKeep DEF HostTypes
<1>4. LauncherIsAlone'
  <2>1. ASSUME NEW h \in Guest, h # g PROVE AloneAt(h)'
    BY <1>1, <2>1 DEF SessionInv, LauncherIsAlone, AloneAt, Asking
  <2> QED BY <2>1 DEF LauncherIsAlone
<1> QED BY <1>2, <1>3, <1>4 DEF SessionInv

LEMMA GuestIsTyped ==
  ASSUME SessionInv, NEW g \in Guest
  PROVE  /\ IsGuest(guest[g]) /\ IsBusy(busy[g]) /\ GuestsFine /\ BusyFine /\ CallsFine /\ AloneAt(g)
         /\ guest = [guest EXCEPT ![g] = guest[g]] /\ Agrees(ReplicaOf(guest[g]), g)
         /\ \A l \in Line : call[g][l] \in CallRecord /\ IsCall(call[g][l], Kinds(l))
<1>1. guest = [guest EXCEPT ![g] = guest[g]]
  BY DEF SessionInv, GuestTypes, GuestsFine
<1>2. \A l \in Line : call[g][l] \in CallRecord /\ IsCall(call[g][l], Kinds(l))
  BY DEF SessionInv, GuestTypes, CallsFine, Line, Kinds
<1> QED BY <1>1, <1>2 DEF SessionInv, GuestTypes, GuestsFine, BusyFine, LauncherIsAlone, SnapshotsAgree

\* A worker that launches is not disturbed by what leaves its guest steady.
LEMMA UndisturbedAlone ==
  ASSUME SessionInv, NEW g \in Guest, NEW y, Steady(guest[g], y), guest' = [guest EXCEPT ![g] = y],
         busy'[g].work = busy[g].work, busy'[g].taking = busy[g].taking, Asking(g)' => Asking(g)
  PROVE  AloneAt(g)'
<1>1. guest'[g] = y /\ AloneAt(g)
  BY GuestIsTyped DEF GuestsFine
<1> QED BY <1>1, SteadyAlone

LEMMA SameIsSteady == ASSUME NEW x PROVE Steady(x, x)
BY DEF Steady

LEMMA InviteKeeps == ASSUME SessionInv, NEW g \in Guest, Invite(g) PROVE SessionInv'
<1> DEFINE p == IF player[g].st = "invited" THEN player ELSE [player EXCEPT ![g] = Invited]
           s == SettleLobby(host.state, host.ready, p)
           h == [host EXCEPT !.state = s]
           k == IF p = player THEN h ELSE Published(h)
           y == IF Up(g) THEN Asked(guest[g], Snapshot(host', p, g)) ELSE guest[g]
<1>0. /\ Mutate(k, p) /\ UNCHANGED <<watch, thread, busy, call, net>> /\ left' = [left EXCEPT !.invite = @ - 1]
      /\ guest' = IF Up(g) THEN [guest EXCEPT ![g] = Asked(@, Snapshot(host', p, g))] ELSE guest
  BY SessionIsTyped DEF Invite, HostRecord
<1>1. Invited \in PlayerRecord /\ Invited.st # "unreachable"
  BY DEF Invited, PlayerRecord, PlayerStatus, Departed
<1>2. ArePlayers(p)
  BY <1>1, PlayerBecomes, SessionIsTyped
<1>3. s \in SessionState /\ (s = "COMPLETED" => host.state = "COMPLETED")
  BY SettleStates, SessionIsTyped
<1>4. guest' = [guest EXCEPT ![g] = y]
  BY <1>0, GuestIsTyped DEF GuestsFine
<1> HIDE DEF p, s
<1>5. /\ k \in HostRecord /\ k.version = host.version /\ k.state = s
      /\ k.game = host.game /\ k.launched = host.launched /\ k.attention = host.attention
  BY <1>3, SessionIsTyped DEF HostRecord, Published
<1> HIDE DEF k
<1>6. HostFine' /\ Advances /\ host'.state = s /\ host'.game = host.game /\ host'.launched = host.launched /\ host'.attention = host.attention
  BY <1>0, <1>2, <1>5, MutateAdvances DEF SessionInv, HostTypes
<1>7. HostTypes' /\ EndWaits'
  BY <1>0, <1>3, <1>6 DEF SessionInv, HostTypes, EndWaits, EndedIsClean
<1>8. Snapshot(host', p, g) \in Replica
  BY <1>2, <1>6, SnapshotAgrees DEF HostFine
<1>9. Same(guest[g], y) /\ Steady(guest[g], y)
  BY <1>8, AskedFine, SameIsSteady, GuestIsTyped DEF Same
<1> HIDE DEF y
<1>10. NetTypes'
  BY <1>0, SessionIsTyped DEF NetTypes, net
<1>11. AloneAt(g)'
  <2>1. Asking(g)' => Asking(g)
    BY <1>0 DEF Asking
  <2> QED BY <1>0, <1>4, <1>9, <2>1, UndisturbedAlone
<1>12. CallsFine' /\ UNCHANGED <<busy, updates, call>>
  BY <1>0, GuestIsTyped DEF net, CallsFine
<1> QED BY <1>4, <1>6, <1>7, <1>9, <1>10, <1>11, <1>12, SharedStep DEF Same

LEMMA OfferKeeps == ASSUME SessionInv, NEW t \in Thread, Offer(t) PROVE SessionInv'
<1>0. thread[t].to # NoGuest /\ UNCHANGED <<host, player, watch, busy, call, updates, late, link>>
  BY DEF Offer
<1>1. thread[t] \in ThreadRecord
  BY SessionIsTyped DEF ThreadsFine
<1>2. PICK g \in Guest, w \in Nat : g = thread[t].to /\ w = thread[t].wave
  BY <1>0, <1>1 DEF ThreadRecord
<1> DEFINE y == Offered(guest[g], w, busy[g].queued)
<1>3. PICK a \in {"ok", "refused", "missed"} : thread' = [thread EXCEPT ![t].answer = a]
  BY DEF Offer
<1>4. ThreadsFine' /\ Calm
  <2> DEFINE x == [thread[t] EXCEPT !.answer = a]
  <2>1. x \in ThreadRecord /\ x.pc = thread[t].pc /\ thread' = [thread EXCEPT ![t] = x]
    BY <1>0, <1>1, <1>3 DEF ThreadRecord
  <2> HIDE DEF x
  <2> QED BY <2>1, SessionIsTyped DEF ThreadsFine, Calm, Thread
<1>5. /\ (guest' = [guest EXCEPT ![g] = y] /\ ~GuestLocked(g)) \/ guest' = guest
      /\ stray' = stray \/ stray' = [stray EXCEPT ![g] = @ \cup {w}]
      /\ left' = left \/ left' = [left EXCEPT !.lose = @ - 1]
  BY <1>2, GuestIsTyped DEF Offer, GuestsFine
<1>6. Same(guest[g], y)
  BY <1>2, OfferedFine, GuestIsTyped
<1> HIDE DEF y
<1>7. NetTypes'
  <2>1. stray' \in [Guest -> SUBSET Nat]
    BY <1>2, <1>5, SessionIsTyped DEF NetTypes
  <2>2. DOMAIN left' = DOMAIN left /\ left'.guests = left.guests
    BY <1>5, SessionIsTyped DEF NetTypes
  <2> QED BY <1>0, <2>1, <2>2, SessionIsTyped DEF NetTypes
<1>8. HostTypes' /\ Advances /\ EndWaits'
  <2>1. HostFine' /\ Advances
    BY <1>0, StandingStill DEF SessionInv, HostTypes
  <2>2. EndWaits'
    BY <1>0, <1>4 DEF SessionInv, EndWaits, EndedIsClean, Calm, Doing
  <2> QED BY <1>0, <1>4, <2>1, <2>2, SessionIsTyped DEF HostTypes, ThreadsFine
<1>9. CallsFine' /\ UNCHANGED <<busy, updates, call>>
  BY <1>0, <1>2, GuestIsTyped DEF CallsFine
<1>10. CASE guest' = [guest EXCEPT ![g] = y] /\ ~GuestLocked(g)
  <2>1. AloneAt(g)'
    BY <1>2, <1>9, <1>10, UnlockedRests, RestingAlone
  <2> QED BY <1>2, <1>6, <1>7, <1>8, <1>9, <1>10, <2>1, SharedStep DEF Same
<1>11. CASE guest' = guest
  <2>1. AloneAt(g)'
    BY <1>2, <1>9, <1>11, GuestIsTyped DEF AloneAt, Asking
  <2> QED BY <1>2, <1>7, <1>8, <1>9, <1>11, <2>1, GuestIsTyped, SharedStep
<1> QED BY <1>5, <1>10, <1>11

LEMMA ResponseFine ==
  ASSUME NEW x \in PlayerRecord, x.st = "unreachable" => x.from # "none", NEW c \in CallRecord, c.kind \in Request
  PROVE  Response(x, c) \in PlayerRecord /\ (Response(x, c).st = "unreachable" => Response(x, c).from # "none")
<1> DEFINE w == [x EXCEPT !.ready = c.ok]
           d == [x EXCEPT !.st = "declined", !.ready = FALSE]
           l == [x EXCEPT !.st = "left", !.ready = FALSE]
           r == [x EXCEPT !.st = "running"]
           f == [x EXCEPT !.st = "failed"]
<1>1. c.kind \in {"accept", "ready", "decline"} \cup Leaving \cup Reporting /\ c.ok \in BOOLEAN
  BY DEF Request, CallRecord
<1>2. Response(x, c) = CASE c.kind = "accept" -> IF x.st = "invited" THEN Joined ELSE x
    [] c.kind = "ready"  -> w
    [] c.kind = "decline" -> IF x.st \in {"invited", "joined"} /\ host.state \in PreStart THEN d ELSE x
    [] c.kind \in Leaving -> IF x.st \in Gone THEN x ELSE l
    [] c.kind \in Reporting ->
         IF host.state \notin Live THEN x
         ELSE IF c.ok THEN (IF Current(x, c) THEN r ELSE x)
         ELSE IF x.st \in Expected \cup {"unreachable"} THEN f ELSE x
  BY DEF Response
<1>3. Joined \in PlayerRecord /\ Joined.st # "unreachable"
  BY DEF Joined, Invited, PlayerRecord, PlayerStatus, Expected, Departed
<1>4. w \in PlayerRecord /\ w.st = x.st /\ w.from = x.from
  BY <1>1 DEF PlayerRecord
<1>5. \A y \in {d, l, r, f} : y \in PlayerRecord /\ y.st # "unreachable"
  BY StatusBecomes, Statuses
<1> HIDE DEF w, d, l, r, f
<1>6. Response(x, c) \in {Joined, x, w, d, l, r, f}
  BY <1>1, <1>2 DEF Leaving, Reporting
<1> QED BY <1>3, <1>4, <1>5, <1>6

LEMMA SettledFine ==
  ASSUME NEW c, c.kind \in Request, NEW p, host.state \in SessionState
  PROVE  Settled(c, p) \in SessionState /\ (Settled(c, p) = "COMPLETED" => host.state = "COMPLETED")
<1> DEFINE s == SettleLobby(host.state, host.ready, p)
<1>1. s \in SessionState /\ (s = "COMPLETED" => host.state = "COMPLETED")
  BY SettleStates
<1>2. Settled(c, p) = CASE c.kind \in {"accept", "ready", "decline"} -> s
                        [] c.kind \in Leaving -> SettleLive(s, p)
                        [] c.kind \in Reporting -> host.state
  BY DEF Settled
<1> HIDE DEF s
<1>3. SettleLive(s, p) \in SessionState /\ (SettleLive(s, p) = "COMPLETED" => s = "COMPLETED")
  BY <1>1, SettleStates
<1> QED BY <1>1, <1>2, <1>3 DEF Request, Leaving, Reporting

\* Whatever a guest asks, and whenever, the host stays in order.
LEMMA HandleFine ==
  ASSUME SessionInv, NEW g \in Guest, NEW c \in CallRecord, c.kind \in Request, Handle(g, c)
  PROVE  HostTypes' /\ Advances /\ EndWaits'
<1> DEFINE x == Response(player[g], c)
           p == [player EXCEPT ![g] = x]
           s == Settled(c, p)
           h == Published([host EXCEPT !.state = s])
<1>0. /\ Mutate(h, p) /\ watch' = [watch EXCEPT ![g].silent = FALSE]
      /\ thread' = [thread EXCEPT !["judge"] = Judge("evaluating")] \/ thread' = thread
  BY SessionIsTyped DEF Handle, Seen, ArePlayers
<1>1. player[g] \in PlayerRecord /\ (player[g].st = "unreachable" => player[g].from # "none")
  BY SessionIsTyped DEF ArePlayers
<1>2. x \in PlayerRecord /\ (x.st = "unreachable" => x.from # "none")
  BY <1>1, ResponseFine
<1> HIDE DEF x
<1>3. ArePlayers(p)
  BY <1>2, PlayerBecomes, SessionIsTyped
<1> HIDE DEF p
<1>4. s \in SessionState /\ (s = "COMPLETED" => host.state = "COMPLETED")
  BY SettledFine, SessionIsTyped
<1> HIDE DEF s
<1>5. h \in HostRecord /\ h.version = host.version /\ h.state = s /\ h.game = host.game /\ h.launched = host.launched /\ h.attention = host.attention
  BY <1>4, SessionIsTyped DEF HostRecord, Published
<1> HIDE DEF h
<1>6. HostFine' /\ Advances /\ host'.state = s /\ host'.game = host.game /\ host'.launched = host.launched /\ host'.attention = host.attention
  BY <1>0, <1>3, <1>5, MutateAdvances DEF SessionInv, HostTypes
<1>7. ThreadsFine' /\ Calm
  <2>1. Judge("evaluating") \in ThreadRecord /\ "judge" \in Thread /\ "judge" \notin {"start", "end"}
    BY JudgeFine, SessionIsTyped DEF Thread
  <2>2. CASE thread' = thread
    BY <2>2, SameThreads, SessionIsTyped
  <2>3. CASE thread' = [thread EXCEPT !["judge"] = Judge("evaluating")]
    <3> DEFINE j == Judge("evaluating")
    <3>1. j \in ThreadRecord
      BY <2>1
    <3> HIDE DEF j
    <3>2. thread' = [thread EXCEPT !["judge"] = j]
      BY <2>3 DEF j
    <3> QED BY <2>1, <3>1, <3>2, SessionIsTyped DEF ThreadsFine, Calm, Thread
  <2> QED BY <1>0, <2>2, <2>3
<1>8. watch' \in [Guest -> WatchRecord]
  BY <1>0, SessionIsTyped DEF WatchRecord
<1>9. EndWaits'
  BY <1>4, <1>6, <1>7 DEF SessionInv, EndWaits, EndedIsClean, Calm, Doing
<1> QED BY <1>6, <1>7, <1>8, <1>9 DEF HostTypes, ThreadsFine

LEMMA RespondLateKeeps == ASSUME SessionInv, NEW g \in Guest, RespondLate(g) PROVE SessionInv'
<1>1. PICK c \in late[g] :
         /\ late' = [late EXCEPT ![g] = @ \ {c}]
         /\ UNCHANGED hosting \/ Handle(g, c)
  BY DEF RespondLate
<1>2. UNCHANGED <<playing, updates, stray, link, left>>
  BY DEF RespondLate
<1>3. c \in CallRecord /\ c.kind \in Request
  BY SessionIsTyped DEF NetTypes
<1>4. NetTypes'
  BY <1>1, <1>2, SessionIsTyped DEF NetTypes
<1>5. HostTypes' /\ Advances /\ EndWaits'
  <2>1. CASE Handle(g, c)
    BY <1>3, <2>1, HandleFine
  <2>2. CASE UNCHANGED hosting
    BY <2>2, StandingStill DEF hosting, SessionInv, HostTypes, EndWaits, EndedIsClean
  <2> QED BY <1>1, <2>1, <2>2
<1> QED BY <1>2, <1>4, <1>5, HostStep

LEMMA AnsweredFine ==
  ASSUME NEW g \in Guest, NEW c \in CallRecord, NEW kinds, IsCall(c, kinds), c.kind # "none",
         NEW h \in HostRecord, NEW p, ArePlayers(p)
  PROVE  LET a == Answered(c, h, p, g)
         IN  /\ a \in CallRecord /\ IsCall(a, kinds) /\ a.kind = c.kind /\ a.at = "answered"
             /\ AgreesWith(h, p, a.reply, g)
<1> DEFINE s == Snapshot(h, p, g)
           a == [c EXCEPT !.at = "answered", !.reply = s]
<1>1. s \in Replica /\ AgreesWith(h, p, s, g)
  BY SnapshotAgrees
<1>2. Answered(c, h, p, g) = a
  BY DEF Answered
<1> HIDE DEF s
<1>3. a \in CallRecord /\ a.kind = c.kind /\ a.at = "answered" /\ a.reply = s
  BY <1>1 DEF CallRecord
<1> HIDE DEF a
<1> QED BY <1>1, <1>2, <1>3 DEF IsCall

\* A request that becomes c waits no more, or still for the same.
LEMMA BecomesFine ==
  ASSUME SessionInv, NEW g \in Guest, NEW l \in Line, NEW c \in CallRecord,
         IsCall(c, Kinds(l)), Send(g, l, c)
  PROVE  /\ CallsFine' /\ \A h \in Guest : h # g => call'[h] = call[h]
         /\ \A k \in Line : call'[g][k] = (IF k = l THEN c ELSE call[g][k])
<1>1. CallsFine
  BY GuestIsTyped
<1>2. /\ CallsFine'
      /\ \A h \in Guest : \A k \in Line : call'[h][k] = IF h = g /\ k = l THEN c ELSE call[h][k]
      /\ \A h \in Guest : h # g => call'[h] = call[h]
  BY <1>1, SendFine
<1> QED BY <1>2

LEMMA RespondKeeps == ASSUME SessionInv, NEW g \in Guest, NEW l \in Line, Respond(g, l) PROVE SessionInv'
<1> DEFINE c == call[g][l]
           kinds == Kinds(l)
<1>0. Open(c) /\ UNCHANGED <<busy, net>>
  BY DEF Respond
<1>1. c \in CallRecord /\ IsCall(c, kinds) /\ c.at # "none"
  BY <1>0, GuestIsTyped DEF Open
<1>2. c.kind # "none" /\ c.kind \in Request
  BY <1>1 DEF IsCall, Kinds, UserRequest, WorkerRequest, Request, Leaving, Reporting
<1>3. CASE UNCHANGED <<hosting, guest, left>> /\ call' = [call EXCEPT ![g][l] = Failed(@)]
  <2>1. call' = [call EXCEPT ![g][l] = Failed(c)]
    BY <1>3, GuestIsTyped DEF CallsFine
  <2>2. Failed(c) \in CallRecord /\ IsCall(Failed(c), kinds) /\ Failed(c).at = "failed" /\ Failed(c).kind = c.kind
    BY <1>1, FailedFine
  <2>3. /\ CallsFine' /\ \A h \in Guest : h # g => call'[h] = call[h]
        /\ \A k \in Line : call'[g][k].kind = call[g][k].kind /\ (call'[g][k].at = "answered" => call'[g][k] = call[g][k])
    <3> DEFINE f == Failed(c)
    <3>1. /\ f \in CallRecord /\ IsCall(f, Kinds(l))
          /\ f.at = "failed" /\ f.kind = call[g][l].kind /\ Send(g, l, f)
      BY <2>1, <2>2 DEF Send
    <3> HIDE DEF f
    <3>2. /\ CallsFine' /\ \A h \in Guest : h # g => call'[h] = call[h]
          /\ \A k \in Line : call'[g][k] = (IF k = l THEN f ELSE call[g][k])
      BY <3>1, BecomesFine
    <3> QED BY <3>1, <3>2
  <2>4. AloneAt(g)'
    <3>1. Asking(g)' => Asking(g)
      BY <2>3 DEF Asking, Line
    <3> QED BY <1>0, <1>3, <3>1, GuestIsTyped DEF AloneAt
  <2>5. HostTypes' /\ Advances /\ EndWaits' /\ NetTypes'
    BY <1>0, <1>3, StandingStill, SessionIsTyped DEF hosting, net, SessionInv, HostTypes, EndWaits, EndedIsClean, NetTypes
  <2> QED BY <1>0, <1>3, <2>3, <2>4, <2>5, GuestIsTyped, SharedStep DEF net
<1>4. CASE Handle(g, c) /\ call' = [call EXCEPT ![g][l] = Failed(@)] /\ UNCHANGED guest /\ left' = [left EXCEPT !.lose = @ - 1]
  <2>1. call' = [call EXCEPT ![g][l] = Failed(c)]
    BY <1>4, GuestIsTyped DEF CallsFine
  <2>2. Failed(c) \in CallRecord /\ IsCall(Failed(c), kinds) /\ Failed(c).at = "failed" /\ Failed(c).kind = c.kind
    BY <1>1, FailedFine
  <2>3. /\ CallsFine' /\ \A h \in Guest : h # g => call'[h] = call[h]
        /\ \A k \in Line : call'[g][k].kind = call[g][k].kind /\ (call'[g][k].at = "answered" => call'[g][k] = call[g][k])
    <3> DEFINE f == Failed(c)
    <3>1. /\ f \in CallRecord /\ IsCall(f, Kinds(l))
          /\ f.at = "failed" /\ f.kind = call[g][l].kind /\ Send(g, l, f)
      BY <2>1, <2>2 DEF Send
    <3> HIDE DEF f
    <3>2. /\ CallsFine' /\ \A h \in Guest : h # g => call'[h] = call[h]
          /\ \A k \in Line : call'[g][k] = (IF k = l THEN f ELSE call[g][k])
      BY <3>1, BecomesFine
    <3> QED BY <3>1, <3>2
  <2>4. AloneAt(g)'
    <3>1. Asking(g)' => Asking(g)
      BY <2>3 DEF Asking, Line
    <3> QED BY <1>0, <1>4, <3>1, GuestIsTyped DEF AloneAt
  <2>5. NetTypes'
    BY <1>0, <1>4, SessionIsTyped DEF net, NetTypes
  <2>6. HostTypes' /\ Advances /\ EndWaits'
    BY <1>1, <1>2, <1>4, HandleFine
  <2> QED BY <1>0, <1>4, <2>3, <2>4, <2>5, <2>6, GuestIsTyped, SharedStep DEF net
<1>5. ASSUME Handle(g, c), UNCHANGED left, NEW now, now = (l = "worker" /\ Ready(g, c)), NEW a, a = Answered(c, host', player', g),
             call' = [call EXCEPT ![g][l] = IF now THEN NoCall ELSE a],
             guest' = IF now THEN [guest EXCEPT ![g] = Told(@, a, FALSE)] ELSE guest
      PROVE  SessionInv'
  <2>1. HostTypes' /\ Advances /\ EndWaits'
    BY <1>1, <1>2, <1>5, HandleFine
  <2>2. a \in CallRecord /\ IsCall(a, kinds) /\ a.kind = c.kind /\ a.at = "answered" /\ AgreesWith(host', player', a.reply, g)
    BY <1>1, <1>2, <1>5, <2>1, AnsweredFine DEF HostTypes, HostFine
  <2>3. NetTypes'
    BY <1>0, <1>5, SessionIsTyped DEF net, NetTypes
  <2>4. CASE ~now
    <3>1. call' = [call EXCEPT ![g][l] = a] /\ guest' = guest
      BY <1>5, <2>4
    <3>2. /\ CallsFine' /\ \A h \in Guest : h # g => call'[h] = call[h]
          /\ \A k \in Line : /\ call'[g][k].kind = call[g][k].kind
                             /\ call'[g][k] = call[g][k] \/ call'[g][k] = a
      <4>1. a \in CallRecord /\ IsCall(a, Kinds(l)) /\ a.kind = call[g][l].kind /\ Send(g, l, a)
        BY <2>2, <3>1 DEF Send
      <4>2. /\ CallsFine' /\ \A h \in Guest : h # g => call'[h] = call[h]
            /\ \A k \in Line : call'[g][k] = (IF k = l THEN a ELSE call[g][k])
        BY <4>1, BecomesFine
      <4> QED BY <4>1, <4>2
    <3>3. AloneAt(g)'
      <4>1. Asking(g)' => Asking(g)
        BY <3>2 DEF Asking, Line
      <4> QED BY <1>0, <3>1, <4>1, GuestIsTyped DEF AloneAt
    <3> QED BY <1>0, <2>1, <2>2, <2>3, <3>1, <3>2, <3>3, GuestIsTyped, SharedStep DEF net
  <2>5. CASE now
    <3> DEFINE y == Told(guest[g], a, FALSE)
    <3>1. call' = [call EXCEPT ![g][l] = NoCall] /\ guest' = [guest EXCEPT ![g] = y] /\ l = "worker"
      BY <1>5, <2>5, GuestIsTyped DEF GuestsFine
    <3>2. /\ CallsFine' /\ \A h \in Guest : h # g => call'[h] = call[h]
          /\ \A k \in Line : call'[g][k] = call[g][k] \/ call'[g][k] = NoCall
          /\ call'[g].user = call[g].user
      <4>1. NoCall \in CallRecord /\ IsCall(NoCall, Kinds(l)) /\ "user" \in Line /\ Send(g, l, NoCall)
        BY <3>1, NoCallFine DEF Line, Kinds, Send
      <4>2. /\ CallsFine' /\ \A h \in Guest : h # g => call'[h] = call[h]
            /\ \A k \in Line : call'[g][k] = (IF k = l THEN NoCall ELSE call[g][k])
        BY <4>1, BecomesFine
      <4> QED BY <3>1, <4>1, <4>2
    <3>3. Takes(guest[g], y, a.reply) /\ (c.kind = "success" => Steady(guest[g], y))
      BY <1>2, <2>2, <3>1, ToldFine, GuestIsTyped DEF Kinds
    <3> HIDE DEF y
    <3>4. IsGuest(y) /\ (ReplicaOf(y) = ReplicaOf(guest[g]) \/ AgreesWith(host', player', ReplicaOf(y), g))
      BY <2>2, <3>3 DEF Takes, AgreesWith, ReplicaOf
    <3>5. AloneAt(g)'
      <4>1. CASE c.kind = "success"
        <5>1. Asking(g)' => Asking(g)
          BY <3>2 DEF Asking
        <5> QED BY <1>0, <3>1, <3>3, <4>1, <5>1, UndisturbedAlone
      <4>2. CASE c.kind # "success"
        <5>1. ~GuestLocked(g)
          BY <1>5, <2>5, <4>2 DEF Ready
        <5> QED BY <1>0, <5>1, UnlockedRests, RestingAlone
      <4> QED BY <4>1, <4>2
    <3>6. NoCall.at # "answered"
      BY NoCallFine
    <3> QED BY <1>0, <2>1, <2>3, <3>1, <3>2, <3>4, <3>5, <3>6, SharedStep DEF net
  <2> QED BY <2>4, <2>5
<1> HIDE DEF c
<1>6. c = call[g][l]
  BY DEF c
<1> QED BY <1>3, <1>4, <1>5, <1>6 DEF Respond

-----------------------------------------------------------------------------
(* The steps of a guest.                                                   *)

\* What took a snapshot that agrees agrees.
LEMMA TakenAgrees ==
  ASSUME SessionInv, NEW g \in Guest, NEW y, NEW s, Takes(guest[g], y, s), Agrees(s, g) \/ ReplicaOf(y) = ReplicaOf(guest[g])
  PROVE  IsGuest(y) /\ Agrees(ReplicaOf(y), g)
<1>1. Agrees(ReplicaOf(s), g) <=> Agrees(s, g)
  BY DEF Agrees, AgreesWith, ReplicaOf
<1> QED BY <1>1, GuestIsTyped DEF Takes

LEMMA SameAgrees ==
  ASSUME SessionInv, NEW g \in Guest, NEW y, Same(guest[g], y)
  PROVE  IsGuest(y) /\ Agrees(ReplicaOf(y), g)
BY GuestIsTyped DEF Same

LEMMA SessionStays ==
  ASSUME SessionInv, UNCHANGED hosting
  PROVE  UNCHANGED <<host, player, thread>> /\ watch' \in [Guest -> WatchRecord]
BY SessionIsTyped DEF hosting

\* A step that changes the guest's record to y, and no request.
LEMMA KeepStep ==
  ASSUME SessionInv, UNCHANGED <<host, player, thread>>, watch' \in [Guest -> WatchRecord], NetTypes', NEW g \in Guest,
         NEW y, Keep(g, y), IsGuest(y), Agrees(ReplicaOf(y), g), AloneAt(g)', UNCHANGED call,
         BusyFine', \A h \in Guest : h # g => busy'[h] = busy[h], \A h \in Guest : updates'[h] \subseteq updates[h]
  PROVE  SessionInv'
<1>1. CallsFine'
  BY GuestIsTyped DEF CallsFine
<1> QED BY <1>1, GuestStep DEF Keep

LEMMA BusyBecomes ==
  ASSUME BusyFine, NEW g \in Guest, NEW b, IsBusy(b), busy' = [busy EXCEPT ![g] = b]
  PROVE  BusyFine' /\ busy'[g] = b /\ \A h \in Guest : h # g => busy'[h] = busy[h]
<1>1. \A h \in Guest : busy'[h] = IF h = g THEN b ELSE busy[h]
  BY DEF BusyFine
<1>2. busy' = [h \in Guest |-> busy'[h]]
  BY DEF BusyFine
<1> QED BY <1>1, <1>2 DEF BusyFine

LEMMA SameBusy == ASSUME SessionInv, NEW g \in Guest, UNCHANGED busy PROVE BusyFine' /\ \A h \in Guest : h # g => busy'[h] = busy[h]
BY GuestIsTyped DEF BusyFine

LEMMA DeliverKeeps == ASSUME SessionInv, NEW g \in Guest, Deliver(g) PROVE SessionInv'
<1>1. PICK s \in updates[g] : guest' = [guest EXCEPT ![g] = Updated(@, s)]
  BY DEF Deliver
<1> DEFINE y == Updated(guest[g], s)
<1>2. UNCHANGED <<hosting, busy, call, late, stray, link, left>> /\ updates' = [updates EXCEPT ![g] = {}]
  BY DEF Deliver
<1>3. s \in Replica /\ Agrees(s, g)
  BY SessionIsTyped DEF NetTypes, SessionInv, SnapshotsAgree
<1>4. Takes(guest[g], y, s) /\ Steady(guest[g], y) /\ Keep(g, y)
  BY <1>1, <1>3, UpdatedFine, GuestIsTyped DEF Keep, GuestsFine
<1> HIDE DEF y
<1>5. IsGuest(y) /\ Agrees(ReplicaOf(y), g)
  BY <1>3, <1>4, TakenAgrees
<1>6. NetTypes' /\ \A h \in Guest : updates'[h] \subseteq updates[h]
  BY <1>2, SessionIsTyped DEF NetTypes
<1>7. AloneAt(g)'
  <2>1. Asking(g)' => Asking(g)
    BY <1>2 DEF Asking
  <2> QED BY <1>2, <1>4, <2>1, UndisturbedAlone DEF Keep
<1> QED BY <1>2, <1>4, <1>5, <1>6, <1>7, SessionStays, SameBusy, KeepStep

LEMMA AfterFine ==
  ASSUME NEW w, IsGuest(w), NEW a \in SUBSET {"suspend", "finish", "reset", "reopen"}
  PROVE  LET x == [w EXCEPT !.after = a]
         IN  IsGuest(x) /\ ReplicaOf(x) = ReplicaOf(w) /\ Steady(w, x)
BY DEF IsGuest, ReplicaOf, Steady

LEMMA ReactKeeps == ASSUME SessionInv, NEW g \in Guest, React(g) PROVE SessionInv'
<1>1. PICK what \in guest[g].after :
         /\ what \in {"suspend", "finish"} => ~GuestLocked(g)
         /\ LET x == [guest[g] EXCEPT !.after = @ \ {what}]
            IN  guest' = [guest EXCEPT ![g] =
                  IF what \in {"suspend", "finish"} THEN Cleaned(x, what = "suspend", FALSE) ELSE Reset(x, what = "reopen")]
  BY DEF React
<1> DEFINE left_ == guest[g].after \ {what}
           x == [guest[g] EXCEPT !.after = left_]
           y == IF what \in {"suspend", "finish"} THEN Cleaned(x, what = "suspend", FALSE) ELSE Reset(x, what = "reopen")
<1>2. UNCHANGED <<hosting, busy, call, net, left>>
  BY DEF React
<1>3. Keep(g, y)
  BY <1>1 DEF Keep
<1>4. left_ \in SUBSET {"suspend", "finish", "reset", "reopen"}
  BY GuestIsTyped DEF IsGuest
<1> HIDE DEF left_
<1>5. IsGuest(x) /\ ReplicaOf(x) = ReplicaOf(guest[g]) /\ Steady(guest[g], x)
  BY <1>4, GuestIsTyped, AfterFine
<1> HIDE DEF x
<1>6. Same(x, y) /\ (what \in {"suspend", "finish"} \/ Steady(x, y))
  BY <1>5, CleanedFine, ResetFine
<1> HIDE DEF y
<1>7. IsGuest(y) /\ Agrees(ReplicaOf(y), g)
  BY <1>5, <1>6, SameAgrees DEF Same
<1>8. AloneAt(g)'
  <2>1. CASE what \in {"suspend", "finish"}
    BY <1>1, <1>2, <2>1, UnlockedRests, RestingAlone
  <2>2. CASE Steady(x, y)
    <3>1. Steady(guest[g], y)
      BY <1>5, <2>2 DEF Steady
    <3>2. Asking(g)' => Asking(g)
      BY <1>2 DEF Asking
    <3> QED BY <1>2, <1>3, <3>1, <3>2, UndisturbedAlone DEF Keep
  <2> QED BY <1>6, <2>1, <2>2
<1>9. NetTypes' /\ \A h \in Guest : updates'[h] \subseteq updates[h]
  BY <1>2, SessionIsTyped DEF NetTypes, net
<1> QED BY <1>2, <1>3, <1>7, <1>8, <1>9, SessionStays, SameBusy, KeepStep

LEMMA StraggleKeeps == ASSUME SessionInv, NEW g \in Guest, Straggle(g) PROVE SessionInv'
<1>1. PICK w \in stray[g] :
         /\ stray' = [stray EXCEPT ![g] = @ \ {w}]
         /\ guest' = [guest EXCEPT ![g] = Offered(@, w, busy[g].queued)]
  BY DEF Straggle
<1> DEFINE y == Offered(guest[g], w, busy[g].queued)
<1>2. ~GuestLocked(g) /\ UNCHANGED <<hosting, busy, call, updates, late, link, left>>
  BY DEF Straggle
<1>3. w \in Nat
  BY SessionIsTyped DEF NetTypes
<1>4. Same(guest[g], y) /\ Keep(g, y)
  BY <1>1, <1>3, OfferedFine, GuestIsTyped DEF Keep, GuestsFine
<1> HIDE DEF y
<1>5. IsGuest(y) /\ Agrees(ReplicaOf(y), g)
  BY <1>4, SameAgrees
<1>6. NetTypes' /\ \A h \in Guest : updates'[h] \subseteq updates[h]
  BY <1>1, <1>2, SessionIsTyped DEF NetTypes
<1>7. AloneAt(g)'
  BY <1>2, UnlockedRests, RestingAlone
<1> QED BY <1>2, <1>4, <1>5, <1>6, <1>7, SessionStays, SameBusy, KeepStep

\* The guest's part ends: by the host's word, or as the host is lost.
LEMMA CleanStep ==
  ASSUME SessionInv, NEW g \in Guest, NEW reopenable \in BOOLEAN, NEW departed \in BOOLEAN, ~GuestLocked(g),
         Keep(g, Cleaned(guest[g], reopenable, departed)), UNCHANGED <<hosting, busy, call, net, left>>
  PROVE  SessionInv'
<1> DEFINE y == Cleaned(guest[g], reopenable, departed)
<1>1. IsGuest(y) /\ Agrees(ReplicaOf(y), g)
  BY CleanedFine, SameAgrees, GuestIsTyped
<1> HIDE DEF y
<1>2. NetTypes' /\ \A h \in Guest : updates'[h] \subseteq updates[h]
  BY SessionIsTyped DEF NetTypes, net
<1>3. AloneAt(g)'
  BY UnlockedRests, RestingAlone
<1>4. Keep(g, y)
  BY DEF y
<1> QED BY <1>1, <1>2, <1>3, <1>4, SessionStays, SameBusy, KeepStep

LEMMA PollKeeps == ASSUME SessionInv, NEW g \in Guest, Poll(g) PROVE SessionInv'
<1>0. UNCHANGED <<host, player, thread, busy, call, net, left>>
  BY DEF Poll
<1>1. CASE host.state \in Over
  <2>1. ~GuestLocked(g) /\ Keep(g, Cleaned(guest[g], host.state = "FAILED", FALSE)) /\ UNCHANGED watch
    BY <1>1 DEF Poll
  <2>2. (host.state = "FAILED") \in BOOLEAN /\ FALSE \in BOOLEAN
    OBVIOUS
  <2>3. UNCHANGED hosting
    BY <1>0, <2>1 DEF hosting
  <2> QED BY <1>0, <2>1, <2>2, <2>3, CleanStep
<1>2. CASE host.state \notin Over
  <2>1. watch' = [watch EXCEPT ![g].silent = FALSE] /\ UNCHANGED guest
    BY <1>2 DEF Poll, Seen
  <2>2. watch' \in [Guest -> WatchRecord]
    BY <2>1, SessionIsTyped DEF WatchRecord
  <2> QED BY <1>0, <2>1, <2>2, WatchKeeps DEF playing
<1> QED BY <1>1, <1>2

LEMMA HostLostKeeps == ASSUME SessionInv, NEW g \in Guest, HostLost(g) PROVE SessionInv'
BY CleanStep DEF HostLost

LEMMA GuestBootKeeps == ASSUME SessionInv, NEW g \in Guest, GuestBoot(g) PROVE SessionInv'
<1>0. PICK exits \in Exits(g, TRUE) : Keep(g, [Booted(guest[g], exits) EXCEPT !.booting = FALSE]) /\ Stuck(~exits)
  BY DEF GuestBoot
<1> DEFINE y == [Booted(guest[g], exits) EXCEPT !.booting = FALSE]
<1>1. guest[g].booting /\ Keep(g, y) /\ UNCHANGED <<hosting, busy, call, net>>
  BY <1>0 DEF GuestBoot
<1>2. IsGuest(y) /\ Agrees(ReplicaOf(y), g)
  BY BootedFine, SameAgrees, GuestIsTyped
<1> HIDE DEF y
<1>3. NetTypes' /\ \A h \in Guest : updates'[h] \subseteq updates[h]
  BY <1>0, <1>1, StuckFine DEF net
<1>4. AloneAt(g)'
  <2>1. busy[g].work = NoWork
    BY <1>1, GuestIsTyped DEF AloneAt
  <2> QED BY <1>1, <2>1, RestingAlone
<1> QED BY <1>1, <1>2, <1>3, <1>4, SessionStays, SameBusy, KeepStep

LEMMA ConfirmKeeps == ASSUME SessionInv, NEW g \in Guest, Confirm(g) PROVE SessionInv'
<1> DEFINE x == guest[g]
           e == [x EXCEPT !.plan = NoPlan, !.launch = "expired"]
           b == [busy[g] EXCEPT !.taking = x.plan]
<1>0. IsGuest(x) /\ IsPlan(x.plan) /\ IsBusy(busy[g])
  BY GuestIsTyped DEF IsGuest
<1>1. /\ ~GuestLocked(g) /\ UNCHANGED <<hosting, call, net, left>>
      /\ \/ busy' = [busy EXCEPT ![g].taking = x.plan] /\ UNCHANGED guest
         \/ Keep(g, e) /\ UNCHANGED busy
  BY DEF Confirm
<1>2. Same(x, x) /\ Same(x, e)
  BY <1>0, NoPlanIsPlan DEF Same, IsGuest, ReplicaOf
<1>3. IsBusy(b) /\ b.work = busy[g].work
  BY <1>0 DEF IsBusy
<1>4. NetTypes' /\ \A h \in Guest : updates'[h] \subseteq updates[h]
  BY <1>1, SessionIsTyped DEF NetTypes, net
<1> HIDE DEF e
<1>5. CASE busy' = [busy EXCEPT ![g].taking = x.plan] /\ UNCHANGED guest
  <2>1. busy' = [busy EXCEPT ![g] = b] /\ Keep(g, x)
    BY <1>5, GuestIsTyped DEF BusyFine, Keep
  <2> HIDE DEF b
  <2>2. BusyFine' /\ busy'[g] = b /\ \A h \in Guest : h # g => busy'[h] = busy[h]
    BY <1>3, <2>1, BusyBecomes, GuestIsTyped
  <2>3. AloneAt(g)'
    BY <1>1, <1>3, <2>2, UnlockedRests, RestingAlone
  <2> QED BY <1>1, <1>2, <1>4, <2>1, <2>2, <2>3, SameAgrees, SessionStays, KeepStep
<1>6. CASE Keep(g, e) /\ UNCHANGED busy
  <2>1. AloneAt(g)'
    BY <1>1, <1>6, UnlockedRests, RestingAlone
  <2> QED BY <1>1, <1>2, <1>4, <1>6, <2>1, SameAgrees, SessionStays, SameBusy, KeepStep
<1> QED BY <1>1, <1>5, <1>6

\* The offer is taken while no worker of the guest launches.
LEMMA TakeKeeps == ASSUME SessionInv, NEW g \in Guest, Take(g) PROVE SessionInv'
<1> DEFINE x == guest[g]
           plan == busy[g].taking
           p == [plan EXCEPT !.consumed = TRUE]
           t == [x EXCEPT !.plan = p, !.launch = "launching"]
           q == busy[g].queued \cup {plan.offer}
           b == [busy[g] EXCEPT !.taking = NoPlan, !.queued = q]
<1>0. IsGuest(x) /\ IsBusy(busy[g]) /\ IsPlan(plan)
  BY GuestIsTyped DEF IsBusy
<1>1. /\ plan # NoPlan /\ Keep(g, t) /\ UNCHANGED <<hosting, call, net, left>>
      /\ busy' = [busy EXCEPT ![g] = b]
  BY GuestIsTyped DEF Take, BusyFine
<1>2. IsPlan(p)
  BY <1>0 DEF IsPlan
<1> HIDE DEF p, q
<1>3. Same(x, t)
  BY <1>0, <1>2 DEF Same, IsGuest, ReplicaOf
<1>4. IsBusy(b) /\ b.work = busy[g].work
  BY <1>0, NoPlanIsPlan DEF IsBusy
<1>5. NetTypes' /\ \A h \in Guest : updates'[h] \subseteq updates[h]
  BY <1>1, SessionIsTyped DEF NetTypes, net
<1>6. busy[g].work = NoWork
  BY <1>1, GuestIsTyped DEF AloneAt
<1> HIDE DEF t, b
<1>7. BusyFine' /\ busy'[g] = b /\ \A h \in Guest : h # g => busy'[h] = busy[h]
  BY <1>1, <1>4, BusyBecomes, GuestIsTyped
<1>8. AloneAt(g)'
  BY <1>4, <1>6, <1>7, RestingAlone
<1> QED BY <1>1, <1>3, <1>5, <1>7, <1>8, SameAgrees, SessionStays, KeepStep

\* A step that changes one request of a guest, which has not been answered by it.
LEMMA CallStep ==
  ASSUME SessionInv, UNCHANGED <<host, player, thread>>, watch' \in [Guest -> WatchRecord], NetTypes', NEW g \in Guest,
         NEW l \in Line, NEW c \in CallRecord, IsCall(c, Kinds(l)), Send(g, l, c), c.at # "answered",
         NEW y, Keep(g, y), IsGuest(y), Agrees(ReplicaOf(y), g), AloneAt(g)',
         BusyFine', \A h \in Guest : h # g => busy'[h] = busy[h], \A h \in Guest : updates'[h] \subseteq updates[h]
  PROVE  SessionInv'
<1>1. /\ CallsFine' /\ \A h \in Guest : h # g => call'[h] = call[h]
      /\ \A k \in Line : call'[g][k] = (IF k = l THEN c ELSE call[g][k])
  BY GuestIsTyped, SendFine
<1>2. \A k \in Line : call'[g][k].at = "answered" => call'[g][k] = call[g][k]
  BY <1>1
<1>3. guest' = [guest EXCEPT ![g] = y]
  BY DEF Keep
<1> QED BY <1>1, <1>2, <1>3, GuestStep

LEMMA SentAsking ==
  ASSUME SessionInv, NEW g \in Guest, NEW l \in Line, NEW c \in CallRecord, IsCall(c, Kinds(l)), Send(g, l, c)
  PROVE  Asking(g)' <=> IF l = "user" THEN c.kind \in {"ready", "leave"} ELSE Asking(g)
<1>1. \A k \in Line : call'[g][k] = (IF k = l THEN c ELSE call[g][k])
  BY GuestIsTyped, SendFine
<1> QED BY <1>1 DEF Asking, Line

\* The guest's user or its worker asks the host, and its record stays.
LEMMA AskStep ==
  ASSUME SessionInv, UNCHANGED <<hosting, guest>>, NetTypes', UNCHANGED updates, NEW g \in Guest, NEW l \in Line,
         NEW kind \in Request, kind \in Kinds(l), NEW ok \in BOOLEAN, NEW wave \in Nat, Send(g, l, Call(kind, ok, wave)),
         BusyFine', \A h \in Guest : h # g => busy'[h] = busy[h],
         busy'[g].work = busy[g].work, busy'[g].taking = busy[g].taking,
         kind \in {"ready", "leave"} /\ l = "user" => ~GuestLocked(g)
  PROVE  SessionInv'
<1> DEFINE c == Call(kind, ok, wave)
<1>1. c \in CallRecord /\ c.kind = kind /\ c.at = "asked" /\ kind # "none"
  BY CallFine
<1>2. IsCall(c, Kinds(l))
  BY <1>1 DEF IsCall
<1> HIDE DEF c
<1>3. Send(g, l, c)
  BY DEF c
<1>4. Keep(g, guest[g]) /\ IsGuest(guest[g]) /\ Agrees(ReplicaOf(guest[g]), g)
  BY GuestIsTyped DEF Keep
<1>5. AloneAt(g)'
  <2>1. CASE kind \in {"ready", "leave"} /\ l = "user"
    BY <2>1, UnlockedRests, RestingAlone
  <2>2. CASE ~(kind \in {"ready", "leave"} /\ l = "user")
    <3>1. Asking(g)' => Asking(g)
      BY <1>1, <1>2, <1>3, <2>2, SentAsking
    <3> QED BY <3>1, GuestIsTyped DEF AloneAt
  <2> QED BY <2>1, <2>2
<1>6. \A h \in Guest : updates'[h] \subseteq updates[h]
  OBVIOUS
<1>7. c.at # "answered"
  BY <1>1
<1> QED BY <1>1, <1>2, <1>3, <1>4, <1>5, <1>6, <1>7, SessionStays, CallStep

LEMMA UsersAskKeeps ==
  ASSUME SessionInv, NEW g \in Guest, Accept(g) \/ Leave(g) \/ \E ready \in BOOLEAN : GuestReady(g, ready)
  PROVE  SessionInv'
<1>0. UNCHANGED <<hosting, guest, busy, net>> /\ (left' = left \/ left' = [left EXCEPT !.leave = @ - 1] \/ left' = [left EXCEPT !.change = @ - 1])
  BY DEF Accept, Leave, GuestReady
<1>1. NetTypes' /\ UNCHANGED updates
  BY <1>0, SessionIsTyped DEF NetTypes, net
<1>2. "user" \in Line /\ {"accept", "ready", "leave"} \subseteq Request /\ {"accept", "ready", "leave"} \subseteq Kinds("user")
  BY DEF Line, Request, Leaving, Kinds, UserRequest
<1>3. CASE Accept(g)
  <2>1. Send(g, "user", Call("accept", TRUE, 0))
    BY <1>3 DEF Accept
  <2> QED BY <1>0, <1>1, <1>2, <2>1, SameBusy, AskStep
<1>4. CASE Leave(g)
  <2>1. Send(g, "user", Call("leave", TRUE, 0)) /\ ~GuestLocked(g)
    BY <1>4 DEF Leave
  <2> QED BY <1>0, <1>1, <1>2, <2>1, SameBusy, AskStep
<1>5. ASSUME NEW ready \in BOOLEAN, GuestReady(g, ready) PROVE SessionInv'
  <2>1. Send(g, "user", Call("ready", ready, 0)) /\ ~GuestLocked(g)
    BY <1>5 DEF GuestReady
  <2> QED BY <1>0, <1>1, <1>2, <2>1, SameBusy, AskStep
<1> QED BY <1>3, <1>4, <1>5

LEMMA WorkersAskKeeps ==
  ASSUME SessionInv, NEW g \in Guest, Report(g) \/ Flush(g) \/ GameGone(g)
  PROVE  SessionInv'
<1>0. UNCHANGED <<hosting, guest, net, left>>
  BY DEF Report, Flush, GameGone
<1>1. NetTypes' /\ UNCHANGED updates
  BY <1>0, SessionIsTyped DEF NetTypes, net
<1>2. "worker" \in Line /\ WorkerRequest \subseteq Request /\ Kinds("worker") = WorkerRequest
  BY DEF Line, Request, Leaving, Reporting, Kinds, WorkerRequest
<1>3. CASE Report(g)
  <2> DEFINE b == [busy[g] EXCEPT !.report = 0]
  <2>1. Send(g, "worker", Call("success", TRUE, busy[g].report)) /\ busy' = [busy EXCEPT ![g] = b]
    BY <1>3, GuestIsTyped DEF Report, BusyFine
  <2>2. IsBusy(b) /\ b.work = busy[g].work /\ b.taking = busy[g].taking /\ busy[g].report \in Nat
    BY GuestIsTyped DEF IsBusy
  <2> HIDE DEF b
  <2>3. BusyFine' /\ busy'[g] = b /\ \A h \in Guest : h # g => busy'[h] = busy[h]
    BY <2>1, <2>2, BusyBecomes, GuestIsTyped
  <2>4. "success" \in WorkerRequest
    BY DEF WorkerRequest
  <2> QED BY <1>0, <1>1, <1>2, <2>1, <2>2, <2>3, <2>4, AskStep
<1>4. CASE Flush(g)
  <2>1. Send(g, "worker", Call(guest[g].recovery, FALSE, 0)) /\ UNCHANGED busy /\ guest[g].recovery # "none"
    BY <1>4 DEF Flush
  <2>2. guest[g].recovery \in WorkerRequest
    BY <2>1, GuestIsTyped DEF IsGuest, WorkerRequest
  <2> QED BY <1>0, <1>1, <1>2, <2>1, <2>2, SameBusy, AskStep
<1>5. CASE GameGone(g)
  <2>1. Send(g, "worker", Call("quit", TRUE, 0)) /\ UNCHANGED busy /\ "quit" \in WorkerRequest
    BY <1>5 DEF GameGone, WorkerRequest
  <2> QED BY <1>0, <1>1, <1>2, <2>1, SameBusy, AskStep
<1> QED BY <1>3, <1>4, <1>5

LEMMA InvitationFine ==
  ASSUME NEW w, IsGuest(w)
  PROVE  LET x == [w EXCEPT !.invitation = "declined"]
         IN  Same(w, x) /\ Steady(w, x)
BY DEF Same, IsGuest, ReplicaOf, Steady

LEMMA DeclineKeeps == ASSUME SessionInv, NEW g \in Guest, Decline(g) PROVE SessionInv'
<1> DEFINE y == [guest[g] EXCEPT !.invitation = "declined"]
           c == Call("decline", TRUE, 0)
<1>0. /\ Keep(g, y) /\ Send(g, "user", c) /\ left' = [left EXCEPT !.change = @ - 1] /\ UNCHANGED <<hosting, busy, net>>
  BY DEF Decline
<1>1. NetTypes' /\ \A h \in Guest : updates'[h] \subseteq updates[h]
  BY <1>0, SessionIsTyped DEF NetTypes, net
<1>2. Same(guest[g], y) /\ Steady(guest[g], y)
  BY GuestIsTyped, InvitationFine
<1> HIDE DEF y
<1>3. "user" \in Line /\ "decline" \in Request /\ "decline" \in Kinds("user")
  BY DEF Line, Request, Kinds, UserRequest
<1>4. c \in CallRecord /\ c.kind = "decline" /\ c.at = "asked"
  BY <1>3, CallFine
<1>5. IsCall(c, Kinds("user"))
  BY <1>3, <1>4 DEF IsCall
<1> HIDE DEF c
<1>6. AloneAt(g)'
  <2>1. ~Asking(g)'
    BY <1>0, <1>3, <1>4, <1>5, SentAsking
  <2> QED BY <1>0, <1>2, <2>1, UndisturbedAlone DEF Keep
<1>7. c.at # "answered"
  BY <1>4
<1> QED BY <1>0, <1>1, <1>2, <1>3, <1>4, <1>5, <1>6, <1>7, SameAgrees, SessionStays, SameBusy, CallStep

LEMMA ConcludeKeeps == ASSUME SessionInv, NEW g \in Guest, Conclude(g) PROVE SessionInv'
<1> DEFINE c == call[g].user
           y == Concluded(guest[g], c)
<1>0. c.at \in {"answered", "failed"} /\ Keep(g, y) /\ Send(g, "user", NoCall) /\ UNCHANGED <<hosting, busy, net, left>>
  BY DEF Conclude
<1>1. "user" \in Line /\ Kinds("user") = UserRequest
  BY DEF Line, Kinds
<1>2. c \in CallRecord /\ IsCall(c, UserRequest) /\ c.kind # "none"
  BY <1>0, <1>1, GuestIsTyped DEF IsCall
<1>3. c.at = "answered" => Agrees(c.reply, g)
  BY <1>1 DEF SessionInv, SnapshotsAgree
<1>4. Takes(guest[g], y, c.reply) /\ (c.at # "answered" => ReplicaOf(y) = ReplicaOf(guest[g])) /\ (c.kind # "leave" => Steady(guest[g], y))
  BY <1>2, ConcludedFine, GuestIsTyped
<1> HIDE DEF y
<1>5. IsGuest(y) /\ Agrees(ReplicaOf(y), g)
  BY <1>3, <1>4, TakenAgrees
<1>6. NoCall \in CallRecord /\ IsCall(NoCall, Kinds("user")) /\ NoCall.at # "answered" /\ NoCall.kind = "none"
  BY <1>1, NoCallFine DEF NoCall
<1>7. AloneAt(g)'
  <2>1. CASE c.kind = "leave"
    <3>1. busy[g].work = NoWork
      BY <2>1, GuestIsTyped DEF AloneAt, Asking
    <3> QED BY <1>0, <3>1, RestingAlone
  <2>2. CASE c.kind # "leave"
    <3>1. ~Asking(g)'
      BY <1>0, <1>1, <1>6, SentAsking
    <3> QED BY <1>0, <1>4, <2>2, <3>1, UndisturbedAlone DEF Keep
  <2> QED BY <2>1, <2>2
<1>8. NetTypes' /\ \A h \in Guest : updates'[h] \subseteq updates[h]
  BY <1>0, SessionIsTyped DEF NetTypes, net
<1> QED BY <1>0, <1>1, <1>5, <1>6, <1>7, <1>8, SessionStays, SameBusy, CallStep

LEMMA TellKeeps == ASSUME SessionInv, NEW g \in Guest, Tell(g) PROVE SessionInv'
<1>0. PICK exits \in Exits(g, busy[g].started) :
         Keep(g, Told(guest[g], call[g].worker, exits)) /\ Stuck(exits # busy[g].started)
  BY DEF Tell
<1> DEFINE c == call[g].worker
           y == Told(guest[g], c, exits)
           b == [busy[g] EXCEPT !.started = FALSE]
<1>1. /\ c.at \in {"answered", "failed"} /\ Keep(g, y) /\ Send(g, "worker", NoCall) /\ UNCHANGED <<hosting, net>>
      /\ ~GuestLocked(g) /\ busy' \in {busy, [busy EXCEPT ![g].started = FALSE]}
  BY <1>0 DEF Tell
<1>2. "worker" \in Line /\ Kinds("worker") = WorkerRequest
  BY DEF Line, Kinds
<1>3. c \in CallRecord /\ IsCall(c, WorkerRequest) /\ c.kind # "none"
  BY <1>1, <1>2, GuestIsTyped DEF IsCall
<1>4. c.at = "answered" => Agrees(c.reply, g)
  BY <1>2 DEF SessionInv, SnapshotsAgree
<1>5. Takes(guest[g], y, c.reply) /\ (c.at # "answered" => ReplicaOf(y) = ReplicaOf(guest[g]))
  BY <1>3, ToldFine, GuestIsTyped
<1> HIDE DEF y
<1>6. IsGuest(y) /\ Agrees(ReplicaOf(y), g)
  BY <1>4, <1>5, TakenAgrees
<1>7. NoCall \in CallRecord /\ IsCall(NoCall, Kinds("worker")) /\ NoCall.at # "answered"
  BY <1>2, NoCallFine
<1>8. BusyFine' /\ busy'[g].work = busy[g].work /\ \A h \in Guest : h # g => busy'[h] = busy[h]
  <2>1. IsBusy(b) /\ b.work = busy[g].work
    BY GuestIsTyped DEF IsBusy
  <2>2. [busy EXCEPT ![g].started = FALSE] = [busy EXCEPT ![g] = b]
    BY GuestIsTyped DEF BusyFine
  <2> HIDE DEF b
  <2> QED BY <1>1, <2>1, <2>2, SameBusy, BusyBecomes, GuestIsTyped
<1>9. AloneAt(g)'
  BY <1>1, <1>8, UnlockedRests, RestingAlone
<1>10. NetTypes' /\ \A h \in Guest : updates'[h] \subseteq updates[h]
  BY <1>0, <1>1, StuckFine DEF net
<1> QED BY <1>1, <1>2, <1>6, <1>7, <1>8, <1>9, <1>10, SessionStays, CallStep

LEMMA CheckKeeps == ASSUME SessionInv, NEW g \in Guest, Check(g) PROVE SessionInv'
<1> DEFINE r == Runs(guest[g])
           c == [call[g].worker EXCEPT !.at = "checked", !.ok = r]
           s == Snapshot(host, player, g)
           y == Stored(guest[g], s)
<1>0. /\ call[g].worker.kind = "success" /\ UNCHANGED <<hosting, busy, net>>
      /\ \/ /\ call' = [call EXCEPT ![g].worker.at = "checked", ![g].worker.ok = r]
            /\ UNCHANGED <<guest, left>>
         \/ left' = [left EXCEPT !.lose = @ - 1] /\ Send(g, "worker", NoCall) /\ Keep(g, y)
  BY DEF Check
<1>1. "worker" \in Line /\ Kinds("worker") = WorkerRequest
  BY DEF Line, Kinds
<1>2. call[g].worker \in CallRecord /\ IsCall(call[g].worker, WorkerRequest)
  BY <1>1, GuestIsTyped
<1>3. NetTypes' /\ \A h \in Guest : updates'[h] \subseteq updates[h]
  BY <1>0, SessionIsTyped DEF NetTypes, net
<1>4. CASE call' = [call EXCEPT ![g].worker.at = "checked", ![g].worker.ok = r] /\ UNCHANGED guest
  <2>1. r \in BOOLEAN
    BY GuestIsTyped DEF Runs, Member, IsGuest
  <2> HIDE DEF r
  <2>2. c \in CallRecord /\ IsCall(c, Kinds("worker")) /\ c.at = "checked"
    BY <1>0, <1>1, <1>2, <2>1 DEF CallRecord, IsCall
  <2>3. Send(g, "worker", c)
    BY <1>1, <1>4, GuestIsTyped DEF Send, CallsFine
  <2> HIDE DEF c
  <2>4. Keep(g, guest[g]) /\ IsGuest(guest[g]) /\ Agrees(ReplicaOf(guest[g]), g)
    BY <1>4, GuestIsTyped DEF Keep
  <2>5. AloneAt(g)'
    <3>1. Asking(g)' => Asking(g)
      BY <1>1, <2>2, <2>3, SentAsking
    <3> QED BY <1>0, <1>4, <3>1, GuestIsTyped DEF AloneAt
  <2>6. c.at # "answered"
    BY <2>2
  <2> QED BY <1>0, <1>1, <1>3, <2>2, <2>3, <2>4, <2>5, <2>6, SessionStays, SameBusy, CallStep
<1>5. CASE Send(g, "worker", NoCall) /\ Keep(g, y)
  <2>1. s \in Replica /\ Agrees(s, g)
    BY SnapshotAgrees, SessionIsTyped DEF Agrees
  <2> HIDE DEF s
  <2>2. Takes(guest[g], y, s) /\ Steady(guest[g], y)
    BY <2>1, StoredFine, GuestIsTyped DEF Takes, Steady
  <2> HIDE DEF y
  <2>3. IsGuest(y) /\ Agrees(ReplicaOf(y), g)
    BY <2>1, <2>2, TakenAgrees
  <2>4. NoCall \in CallRecord /\ IsCall(NoCall, Kinds("worker")) /\ NoCall.at # "answered"
    BY <1>1, NoCallFine
  <2>5. AloneAt(g)'
    <3>1. Asking(g)' => Asking(g)
      BY <1>1, <1>5, <2>4, SentAsking
    <3> QED BY <1>0, <1>5, <2>2, <3>1, UndisturbedAlone DEF Keep
  <2> QED BY <1>0, <1>1, <1>3, <1>5, <2>3, <2>4, <2>5, SessionStays, SameBusy, CallStep
<1> QED BY <1>0, <1>4, <1>5

LEMMA GiveUpKeeps == ASSUME SessionInv, NEW g \in Guest, NEW l \in Line, GiveUp(g, l) PROVE SessionInv'
<1> DEFINE c == Failed(call[g][l])
<1>0. /\ call[g][l].at \in {"asked", "checked"} /\ UNCHANGED <<hosting, guest, busy, updates, stray, link>>
      /\ call' = [call EXCEPT ![g][l] = c]
      /\ late' = late \/ late' = [late EXCEPT ![g] = @ \cup {call[g][l]}]
      /\ left' = left \/ left' = [left EXCEPT !.lose = @ - 1]
  BY GuestIsTyped DEF GiveUp, CallsFine
<1>1. call[g][l] \in CallRecord /\ IsCall(call[g][l], Kinds(l)) /\ call[g][l].at # "none"
  BY <1>0, GuestIsTyped
<1>2. call[g][l].kind \in Request
  BY <1>1 DEF IsCall, Kinds, UserRequest, WorkerRequest, Request, Leaving, Reporting
<1>3. c \in CallRecord /\ IsCall(c, Kinds(l)) /\ c.at # "answered" /\ c.kind = call[g][l].kind
  BY <1>1, FailedFine
<1>4. Send(g, l, c)
  BY <1>0 DEF Send
<1> HIDE DEF c
<1>5. Keep(g, guest[g]) /\ IsGuest(guest[g]) /\ Agrees(ReplicaOf(guest[g]), g)
  BY <1>0, GuestIsTyped DEF Keep
<1>6. AloneAt(g)'
  <2>1. Asking(g)' => Asking(g)
    BY <1>3, <1>4, SentAsking DEF Asking
  <2> QED BY <1>0, <2>1, GuestIsTyped DEF AloneAt
<1>7. NetTypes' /\ \A h \in Guest : updates'[h] \subseteq updates[h]
  <2>1. \A h \in Guest : late'[h] \subseteq late[h] \cup (IF h = g THEN {call[g][l]} ELSE {})
    BY <1>0, SessionIsTyped DEF NetTypes
  <2>2. late' = [h \in Guest |-> late'[h]]
    BY <1>0, SessionIsTyped DEF NetTypes
  <2>3. \A h \in Guest : \A k \in late'[h] : k \in CallRecord /\ k.kind \in Request
    BY <1>1, <1>2, <2>1, SessionIsTyped DEF NetTypes
  <2>4. "guests" \in DOMAIN left' /\ left'.guests \subseteq Guest
    BY <1>0, SessionIsTyped DEF NetTypes
  <2> QED BY <1>0, <2>2, <2>3, <2>4, SessionIsTyped DEF NetTypes
<1> QED BY <1>0, <1>3, <1>4, <1>5, <1>6, <1>7, SessionStays, SameBusy, CallStep

\* The worker takes up the offer its user confirmed, and no other.
LEMMA WorkKeeps == ASSUME SessionInv, NEW g \in Guest, Work(g) PROVE SessionInv'
<1> DEFINE x == guest[g]
<1>0. ~x.booting /\ ~GuestLocked(g) /\ UNCHANGED <<hosting, call, net, left>>
  BY DEF Work
<1>1. PICK offer \in busy[g].queued :
         LET b == [busy[g] EXCEPT !.queued = @ \ {offer}]
         IN  IF Mine(x, offer) /\ Up(g) /\ HostAllows(g, x.plan)
             THEN /\ busy' = [busy EXCEPT ![g] = [b EXCEPT !.work = [offer |-> offer, wave |-> x.plan.wave], !.started = ~x.game]]
                  /\ UNCHANGED guest
             ELSE /\ busy' = [busy EXCEPT ![g] = b]
                  /\ Keep(g, IF Mine(x, offer) THEN FailLaunch(x, FALSE) ELSE x)
  BY DEF Work
<1> DEFINE b == [busy[g] EXCEPT !.queued = @ \ {offer}]
           w == [offer |-> offer, wave |-> x.plan.wave]
           s == ~x.game
           d == [b EXCEPT !.work = w, !.started = s]
           y == IF Mine(x, offer) THEN FailLaunch(x, FALSE) ELSE x
<1>2. IsBusy(b) /\ b.work = busy[g].work /\ b.taking = busy[g].taking
  BY GuestIsTyped DEF IsBusy
<1>3. busy[g].work = NoWork /\ busy[g].taking = NoPlan /\ ~Asking(g)
  BY <1>0, UnlockedRests
<1>4. NetTypes' /\ \A h \in Guest : updates'[h] \subseteq updates[h]
  BY <1>0, SessionIsTyped DEF NetTypes, net
<1>5. CASE Mine(x, offer) /\ busy' = [busy EXCEPT ![g] = d] /\ UNCHANGED guest
  <2>1. s \in BOOLEAN /\ x.plan.wave \in Nat
    BY GuestIsTyped DEF IsGuest, IsPlan
  <2>2. IsBusy(d) /\ d.work = w /\ d.taking = NoPlan
    <3> HIDE DEF s, b
    <3> QED BY <1>2, <1>3, <2>1 DEF IsBusy
  <2> HIDE DEF d
  <2>3. BusyFine' /\ busy'[g] = d /\ \A h \in Guest : h # g => busy'[h] = busy[h]
    BY <1>5, <2>2, BusyBecomes, GuestIsTyped
  <2>4. AloneAt(g)'
    <3>1. ~Asking(g)'
      BY <1>0, <1>3 DEF Asking
    <3> QED BY <1>0, <1>5, <2>2, <2>3, <3>1 DEF AloneAt, Mine
  <2>5. Keep(g, x) /\ IsGuest(x) /\ Agrees(ReplicaOf(x), g)
    BY <1>5, GuestIsTyped DEF Keep
  <2> QED BY <1>0, <1>4, <2>3, <2>4, <2>5, SessionStays, KeepStep
<1>6. CASE busy' = [busy EXCEPT ![g] = b] /\ Keep(g, y)
  <2>1. Same(x, y)
    BY FailLaunchFine, GuestIsTyped DEF Same
  <2> HIDE DEF b, y
  <2>2. BusyFine' /\ busy'[g] = b /\ \A h \in Guest : h # g => busy'[h] = busy[h]
    BY <1>2, <1>6, BusyBecomes, GuestIsTyped
  <2>3. AloneAt(g)'
    BY <1>2, <1>3, <2>2, RestingAlone
  <2> QED BY <1>0, <1>4, <1>6, <2>1, <2>2, <2>3, SameAgrees, SessionStays, KeepStep
<1> QED BY <1>1, <1>5, <1>6

LEMMA WorkedFine ==
  ASSUME NEW x, IsGuest(x), NEW wave \in Nat
  PROVE  Same(x, [x EXCEPT !.game = TRUE, !.launch = "running", !.played = wave, !.plan = NoPlan])
BY NoPlanIsPlan DEF Same, IsGuest, ReplicaOf

LEMMA WorkedKeeps == ASSUME SessionInv, NEW g \in Guest, Worked(g) PROVE SessionInv'
<1> DEFINE x == guest[g]
           wave == busy[g].work.wave
           d == [busy[g] EXCEPT !.work = NoWork, !.report = wave]
           e == [busy[g] EXCEPT !.work = NoWork]
           y == [x EXCEPT !.game = TRUE, !.launch = "running", !.played = wave, !.plan = NoPlan]
<1>0. PICK exits \in BOOLEAN :
         /\ UNCHANGED <<hosting, call, net>> /\ "guests" \in DOMAIN left' /\ left'.guests = left.guests
         /\ \/ busy' = [busy EXCEPT ![g] = d] /\ Keep(g, y)
            \/ busy' = [busy EXCEPT ![g] = e] /\ Keep(g, FailLaunch(x, exits))
  <2>1. UNCHANGED <<hosting, call, net>>
    BY DEF Worked
  <2>2. CASE /\ busy' = [busy EXCEPT ![g].work = NoWork, ![g].report = busy[g].work.wave]
             /\ Keep(g, y) /\ UNCHANGED left
    <3>1. busy' = [busy EXCEPT ![g] = d]
      BY <2>2, GuestIsTyped DEF BusyFine
    <3> HIDE DEF d, e, y, wave
    <3> QED BY <2>1, <2>2, <3>1, SessionIsTyped DEF NetTypes
  <2>3. ASSUME busy' = [busy EXCEPT ![g].work = NoWork], NEW exits \in Exits(g, busy[g].started),
               Keep(g, FailLaunch(x, exits)),
               left' = [left EXCEPT !.fail = @ - 1, !.stuck = IF exits = busy[g].started THEN @ ELSE @ - 1]
        PROVE  /\ exits \in BOOLEAN /\ "guests" \in DOMAIN left' /\ left'.guests = left.guests
               /\ busy' = [busy EXCEPT ![g] = e]
    <3>1. exits \in BOOLEAN
      BY DEF Exits
    <3>2. busy' = [busy EXCEPT ![g] = e]
      BY <2>3, GuestIsTyped DEF BusyFine
    <3>3. "guests" \in DOMAIN left
      BY SessionIsTyped DEF NetTypes
    <3> QED BY <2>3, <3>1, <3>2, <3>3
  <2> HIDE DEF d, e
  <2> QED BY <2>1, <2>2, <2>3 DEF Worked
<1> DEFINE z == FailLaunch(x, exits)
<1>1. wave \in Nat /\ IsBusy(d) /\ d.work = NoWork /\ IsBusy(e) /\ e.work = NoWork
  <2>1. wave \in Nat
    BY GuestIsTyped DEF IsBusy
  <2> HIDE DEF wave
  <2> QED BY <2>1, GuestIsTyped DEF IsBusy, NoWork
<1>2. Same(x, y) /\ Same(x, z)
  <2> HIDE DEF wave
  <2> QED BY <1>1, WorkedFine, FailLaunchFine, GuestIsTyped
<1> HIDE DEF d, e, y, z, wave
<1>3. PICK b \in {d, e}, u \in {y, z} : busy' = [busy EXCEPT ![g] = b] /\ Keep(g, u)
  BY <1>0 DEF z
<1>4. BusyFine' /\ busy'[g] = b /\ \A h \in Guest : h # g => busy'[h] = busy[h]
  BY <1>1, <1>3, BusyBecomes, GuestIsTyped
<1>5. AloneAt(g)'
  BY <1>1, <1>4, RestingAlone
<1>6. NetTypes' /\ \A h \in Guest : updates'[h] \subseteq updates[h]
  BY <1>0, SessionIsTyped DEF NetTypes, net
<1>7. IsGuest(u) /\ Agrees(ReplicaOf(u), g)
  BY <1>2, SameAgrees
<1> QED BY <1>0, <1>3, <1>4, <1>5, <1>6, <1>7, SessionStays, KeepStep

LEMMA GuestCrashFine ==
  ASSUME NEW x, IsGuest(x)
  PROVE  Same(x, [x EXCEPT !.booting = TRUE, !.after = {}]) /\ Same(x, [x EXCEPT !.game = FALSE])
BY DEF Same, IsGuest, ReplicaOf

LEMMA GuestCrashKeeps == ASSUME SessionInv, NEW g \in Guest, GuestCrash(g) PROVE SessionInv'
<1> DEFINE y == [guest[g] EXCEPT !.booting = TRUE, !.after = {}]
<1>0. /\ left' = [left EXCEPT !.reboot = @ - 1] /\ Keep(g, y) /\ busy' = [busy EXCEPT ![g] = Rested]
      /\ call' = [call EXCEPT ![g] = [l \in Line |-> NoCall]] /\ stray' = [stray EXCEPT ![g] = {}]
      /\ UNCHANGED <<hosting, updates, late, link>>
  BY DEF GuestCrash
<1>1. IsGuest(y) /\ Agrees(ReplicaOf(y), g) /\ guest' = [guest EXCEPT ![g] = y]
  BY <1>0, GuestCrashFine, GuestIsTyped, SameAgrees DEF Keep
<1> HIDE DEF y
<1>2. IsBusy(Rested) /\ Rested.work = NoWork
  BY NoPlanIsPlan DEF Rested, NoWork, IsBusy
<1>3. BusyFine' /\ busy'[g] = Rested /\ \A h \in Guest : h # g => busy'[h] = busy[h]
  BY <1>0, <1>2, BusyBecomes, GuestIsTyped
<1>4. /\ CallsFine' /\ \A h \in Guest : h # g => call'[h] = call[h]
      /\ \A l \in Line : call'[g][l] = NoCall
  BY <1>0, NoCallFine, GuestIsTyped DEF CallsFine, Line
<1>5. AloneAt(g)'
  BY <1>2, <1>3, RestingAlone
<1>6. NetTypes' /\ \A h \in Guest : updates'[h] \subseteq updates[h]
  BY <1>0, SessionIsTyped DEF NetTypes
<1>7. \A l \in Line : call'[g][l].at = "answered" => call'[g][l] = call[g][l]
  BY <1>4, NoCallFine
<1>8. \A h \in Guest : h # g => busy'[h] = busy[h] /\ call'[h] = call[h]
  BY <1>3, <1>4
<1> QED BY <1>0, <1>1, <1>3, <1>4, <1>5, <1>6, <1>7, <1>8, SessionStays, GuestStep

LEMMA LinkKeeps == ASSUME SessionInv, NEW g \in Guest, LinkFalls(g) \/ LinkRises(g) PROVE SessionInv'
<1>0. UNCHANGED <<hosting, playing, updates, late, stray>> /\ (left' = left \/ left' = [left EXCEPT !.drop = @ - 1])
  BY DEF LinkFalls, LinkRises
<1>1. NetTypes'
  BY <1>0, SessionIsTyped DEF NetTypes
<1>2. HostTypes' /\ Advances /\ EndWaits'
  BY <1>0, StandingStill DEF hosting, SessionInv, HostTypes, EndWaits, EndedIsClean
<1> QED BY <1>0, <1>1, <1>2, HostStep

LEMMA GameExitsKeeps == ASSUME SessionInv, GameExits PROVE SessionInv'
<1>0. UNCHANGED <<player, watch, thread, busy, call, net>> /\ left' = [left EXCEPT !.exit = @ - 1]
  BY DEF GameExits
<1>1. NetTypes' /\ \A h \in Guest : updates'[h] \subseteq updates[h]
  BY <1>0, SessionIsTyped DEF NetTypes, net
<1>2. CASE host' = [host EXCEPT !.game = FALSE] /\ UNCHANGED guest
  <2>1. host' \in HostRecord /\ host'.version = host.version /\ host'.state = host.state /\ ~host'.game
    BY <1>2, SessionIsTyped DEF HostRecord
  <2>2. EndWaits'
    BY <1>0, <2>1 DEF SessionInv, EndWaits, EndedIsClean
  <2>3. host'.version >= host.version /\ UNCHANGED <<playing, updates>>
    BY <1>0, <1>2, <2>1 DEF HostRecord, playing, net
  <2> QED BY <1>0, <1>1, <2>1, <2>2, <2>3, HostChanges, SessionIsTyped, SameThreads
<1>3. ASSUME NEW g \in Guest, busy[g].work = NoWork, Keep(g, [guest[g] EXCEPT !.game = FALSE]), UNCHANGED host
      PROVE  SessionInv'
  <2> DEFINE y == [guest[g] EXCEPT !.game = FALSE]
  <2>1. IsGuest(y) /\ Agrees(ReplicaOf(y), g)
    BY GuestCrashFine, GuestIsTyped, SameAgrees
  <2>2. Keep(g, y)
    BY <1>3
  <2> HIDE DEF y
  <2>3. AloneAt(g)'
    BY <1>0, <1>3, RestingAlone
  <2>4. watch' \in [Guest -> WatchRecord]
    BY <1>0, SessionIsTyped
  <2> QED BY <1>0, <1>1, <1>3, <2>1, <2>2, <2>3, <2>4, SameBusy, KeepStep
<1> QED BY <1>2, <1>3 DEF GameExits

-----------------------------------------------------------------------------
(* The theorems.                                                           *)

LEMMA StepKeeps == ASSUME SessionInv, NEW t \in Thread, Step(t) PROVE SessionInv'
BY PostKeeps, OfferKeeps, MarkKeeps, SentKeeps, EvaluateKeeps, FailSessionKeeps DEF Step

LEMMA HostNextKeeps == ASSUME SessionInv, HostNext PROVE SessionInv'
<1>1. CASE HostReady \/ Start \/ Launch \/ Launched \/ RetryPlayers \/ RetryFailed \/ End \/ GameOver \/ Finish
  BY <1>1, HostReadyKeeps, StartKeeps, LaunchKeeps, LaunchedKeeps, RetryPlayersKeeps, RetryFailedKeeps, EndKeeps, FinishKeeps
<1>2. CASE Push \/ Republish \/ Elapse \/ Tick \/ HostCrash \/ Recover
  BY <1>2, PushKeeps, RepublishKeeps, ElapseKeeps, TickKeeps, HostCrashKeeps, RecoverKeeps
<1>3. ASSUME NEW t \in Thread, Step(t) PROVE SessionInv'
  BY <1>3, StepKeeps
<1>4. ASSUME NEW g \in Guest, Invite(g) \/ Remove(g) \/ FallSilent(g) \/ Probe(g) PROVE SessionInv'
  BY <1>4, InviteKeeps, RemoveKeeps, FallSilentKeeps, ProbeKeeps
<1> QED BY <1>1, <1>2, <1>3, <1>4 DEF HostNext

LEMMA GuestNextKeeps == ASSUME SessionInv, NEW g \in Guest, GuestNext(g) PROVE SessionInv'
<1>1. CASE Deliver(g) \/ React(g) \/ Straggle(g)
  BY <1>1, DeliverKeeps, ReactKeeps, StraggleKeeps
<1>2. CASE Accept(g) \/ Decline(g) \/ Leave(g) \/ \E ready \in BOOLEAN : GuestReady(g, ready)
  BY <1>2, UsersAskKeeps, DeclineKeeps
<1>3. CASE Conclude(g) \/ Confirm(g) \/ Take(g) \/ Work(g) \/ Worked(g) \/ Report(g) \/ Flush(g) \/ Tell(g)
  BY <1>3, ConcludeKeeps, ConfirmKeeps, TakeKeeps, WorkKeeps, WorkedKeeps, WorkersAskKeeps, TellKeeps
<1>4. CASE Check(g) \/ RespondLate(g) \/ \E l \in Line : Respond(g, l) \/ GiveUp(g, l)
  BY <1>4, CheckKeeps, RespondLateKeeps, RespondKeeps, GiveUpKeeps
<1>5. CASE Poll(g) \/ HostLost(g) \/ GameGone(g) \/ GuestCrash(g) \/ GuestBoot(g) \/ LinkFalls(g) \/ LinkRises(g)
  BY <1>5, PollKeeps, HostLostKeeps, WorkersAskKeeps, GuestCrashKeeps, GuestBootKeeps, LinkKeeps
<1> QED BY <1>1, <1>2, <1>3, <1>4, <1>5 DEF GuestNext

LEMMA StutterKeeps == ASSUME SessionInv, UNCHANGED vars PROVE SessionInv'
<1>1. UNCHANGED <<hosting, playing, updates, late, stray, left>>
  BY DEF vars, net
<1>2. NetTypes'
  BY <1>1, SessionIsTyped DEF NetTypes
<1>3. HostTypes' /\ Advances /\ EndWaits'
  BY <1>1, StandingStill DEF hosting, SessionInv, HostTypes, EndWaits, EndedIsClean
<1> QED BY <1>1, <1>2, <1>3, HostStep

LEMMA SessionIsKept == Spec => []SessionInv
<1>1. ASSUME SessionInv, [Next]_vars PROVE SessionInv'
  BY <1>1, HostNextKeeps, GuestNextKeeps, GameExitsKeeps, StutterKeeps DEF Next
<1> QED BY <1>1, SessionBegins, PTL DEF Spec

\* The session's record keeps its shape, for any number of guests, whatever the
\* users do, is lost, late or repeated, and whoever crashes; a player that was
\* lost, and no other, has kept what it is to be found in again.
THEOREM SessionTypes == Spec => []TypeOK
<1>1. ASSUME SessionInv PROVE TypeOK
  <2>1. host \in HostRecord /\ ArePlayers(player) /\ \A g \in Guest : player[g].from # "none" => player[g].st = "unreachable"
    BY <1>1 DEF SessionInv, HostTypes, HostFine
  <2>2. /\ host.state \in SessionState /\ host.version \in Nat /\ host.wave \in Nat
        /\ \A f \in {"ready", "overdue", "launched", "game", "attention", "push", "unsent"} : host[f] \in BOOLEAN
        /\ host.told \subseteq Guest
    BY <2>1 DEF HostRecord
  <2>3. player \in [Guest -> [st : PlayerStatus, ready : BOOLEAN, from : Expected \cup {"running", "none"}]]
    BY <2>1 DEF ArePlayers, PlayerRecord
  <2>4. \A g \in Guest : player[g].st = "unreachable" <=> player[g].from # "none"
    BY <2>1 DEF ArePlayers
  <2>5. watch \in [Guest -> [offered : Nat, silent : BOOLEAN, missed : BOOLEAN]]
    BY <1>1 DEF SessionInv, HostTypes, WatchRecord
  <2> QED BY <2>2, <2>3, <2>4, <2>5 DEF TypeOK
<1> QED BY <1>1, SessionIsKept, PTL

\* A guest's worker launches only what the guest's user confirmed and only while
\* the guest takes part, whatever offers arrive, are repeated or come late,
\* whatever the host says meanwhile, and whoever crashes (lifecycle.py,
\* run_guest_launch and _confirm_launch; protocol.py, peer_launch).
THEOREM LaunchesAreConsented == Spec => []LaunchIsConsented
<1>1. ASSUME SessionInv PROVE LaunchIsConsented
  BY <1>1 DEF SessionInv, LauncherIsAlone, AloneAt, LaunchIsConsented
<1> QED BY <1>1, SessionIsKept, PTL

\* A session that ended runs no game of its last start on its host, unless it says
\* that the game could not be closed, and two who have the same version of it have
\* the same state: whatever was lost, late, repeated or overtaken on the way
\* (store.py, SessionStore.mutate and apply_replica; lifecycle.py, end_session and
\* cleanup_host_resources).  Assumed is that an exit of the game that fails raises:
\* one that only answers "error" is not noticed, and then the first half is false.
THEOREM WhatIsSaidIsSo ==
  ASSUME ~Mute
  PROVE  Spec => []SaidIsSo
<1>1. ASSUME SessionInv PROVE SaidIsSo
  <2>1. EndedIsClean
    BY <1>1 DEF SessionInv, EndWaits
  <2>2. ASSUME NEW g \in Guest, guest[g].version = host.version
        PROVE  guest[g].state = host.state /\ guest[g].mine = player[g].st
    BY <1>1, <2>2 DEF SessionInv, SnapshotsAgree, Agrees, AgreesWith, ReplicaOf
  <2> QED BY <2>1, <2>2 DEF SaidIsSo, OneStatePerVersion
<1> QED BY <1>1, SessionIsKept, PTL

=============================================================================
