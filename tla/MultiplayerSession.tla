------------------------- MODULE MultiplayerSession -------------------------
(***************************************************************************)
(* One multiplayer session: app/multiplayer/ on the Drone that hosts it    *)
(* and on those of its guests.                                             *)
(*                                                                         *)
(* The host alone changes the session.  Its threads are the user's         *)
(* requests, the worker that starts the session, housekeeping ("tick")     *)
(* and the answers to guests; a lock per session orders most of what they  *)
(* do, and is not held while offers are sent.  A guest keeps a replica,    *)
(* asks the host over the network, and launches only what its user         *)
(* confirmed.  Messages are lost, late and reordered, Drones crash.        *)
(*                                                                         *)
(* The mechanism is one that Drone launches on every machine; adapters,    *)
(* slots, secrets and settings are left out, and so are other games.       *)
(***************************************************************************)
EXTENDS Naturals, FiniteSets

CONSTANTS
  Guest,
  NoGuest,
  Setting,   \* the settings the session is put in, see SessionAssumption
  Mute       \* may a game stay open although nothing failed?  See Closings

\* stage: how far the lobby is.  guests: who was invited.  The other fields
\* bound what the users do, what the network does, and what fails.
ASSUME SessionAssumption ==
  /\ NoGuest \notin Guest /\ IsFiniteSet(Guest) /\ Mute \in BOOLEAN
  /\ Setting \subseteq
       [stage : {"invited", "joined", "ready", "playing"}, guests : SUBSET Guest,
        start : Nat, retry : Nat, invite : Nat, remove : Nat, change : Nat, leave : Nat, end : Nat,
        lose : Nat, drop : Nat, fail : Nat, stuck : Nat, exit : Nat, crash : Nat, reboot : Nat,
        sweep : Nat, endless : BOOLEAN]

VARIABLES
  host,      \* the session at its host, but for its players
  player,    \* its players
  watch,     \* what the host keeps about each player and does not replicate
  thread,    \* what the host's threads do
  guest,     \* what each guest keeps
  busy,      \* what each guest's launch worker does
  call,      \* the request each guest's user, and its worker, waits for
  updates,   \* snapshots under way to each guest
  late,      \* requests of each guest that it no longer waits for
  stray,     \* waves whose offer to each guest the host no longer waits for
  link,      \* whether each guest and the host reach each other
  left       \* the setting, with what is left of its bounds

hosting == <<host, player, watch, thread>>
playing == <<guest, busy, call>>
net == <<updates, late, stray, link>>
vars == <<hosting, playing, net, left>>

Line == {"user", "worker"}
\* The threads of the host.  "judge" stands for all who evaluate the launch or
\* fail the session: what one of them finds to do, the next finds done.
Thread == {"start", "tick", "retry", "judge", "end"}

-----------------------------------------------------------------------------
(* What a session's players imply for its state: models.py and the pure    *)
(* functions of sessions.py.  A player is [st, ready, from]: its status,   *)
(* whether it is ready, and the status in which it was lost while it is    *)
(* "unreachable".  The lobby states other than READY are one state here,   *)
(* LOBBY: the program moves between them freely and tells them apart in    *)
(* what it shows only.                                                     *)

PreStart == {"LOBBY", "READY"}
Live == {"STARTING", "RUNNING", "DEGRADED"}
Coming == {"STARTING", "DEGRADED"}     \* launches may still be offered
Over == {"STOPPING", "COMPLETED", "FAILED"}
SessionState == PreStart \cup Live \cup Over

\* TRANSITIONS: what one change of a session may do to its state.
Transitions ==
  [s \in SessionState |->
     CASE s = "LOBBY"     -> {"READY", "STOPPING", "FAILED"}
       [] s = "READY"     -> {"LOBBY", "STARTING", "STOPPING", "FAILED"}
       [] s = "STARTING"  -> {"RUNNING", "DEGRADED", "FAILED", "STOPPING"}
       [] s = "RUNNING"   -> {"DEGRADED", "FAILED", "STOPPING"}
       [] s = "DEGRADED"  -> {"RUNNING", "FAILED", "STOPPING"}
       [] s = "FAILED"    -> {"STOPPING", "LOBBY"}
       [] s = "STOPPING"  -> {"COMPLETED", "FAILED"}
       [] s = "COMPLETED" -> {}]

Expected == {"joined", "launching"}
Gone == {"left", "removed", "declined"}
Departed == Gone \cup {"invited"}
PlayerStatus == Expected \cup Departed \cup {"running", "failed", "unreachable"}

Invited == [st |-> "invited", ready |-> FALSE, from |-> "none"]
Joined == [Invited EXCEPT !.st = "joined"]
In(p, st) == {g \in DOMAIN p : p[g].st = st}

\* launch_pending: the host still expects this guest in the current wave.
LaunchPending(x) == x.st \in Expected \/ (x.st = "unreachable" /\ x.from \in Expected)

\* settle_lobby, for a session in state s whose host is ready or not.
SettleLobby(s, ready, p) ==
  IF s \notin PreStart THEN s
  ELSE IF In(p, "joined") # {} /\ ready /\ \A g \in In(p, "joined") : p[g].ready THEN "READY"
  ELSE "LOBBY"

\* settle_live: players who departed do not count, those who are still
\* expected keep the session as it is.
SettleLive(s, p) ==
  LET guests == {g \in DOMAIN p : p[g].st \notin Departed}
      running == In(p, "running")
  IN  IF s \notin Live \/ \E g \in guests : LaunchPending(p[g]) THEN s
      ELSE IF running # {} THEN (IF running = guests THEN "RUNNING" ELSE "DEGRADED")
      ELSE IF s = "STARTING" THEN "FAILED"
      ELSE s

-----------------------------------------------------------------------------
(* The host's record.                                                      *)

\* session_lock: the start worker holds it while it launches the host's game,
\* a retry while it sends offers, End session until the game is closed.
\* Mutant: the lock is let go of before the game is launched.
LockedToSend == thread["retry"].pc # "idle" \/ thread["end"].pc # "idle"

Locked ==
  \/ thread["start"].pc = "launching"
  \/ thread["retry"].pc # "idle"
  \/ thread["end"].pc # "idle"

Idle == [pc |-> "idle", todo |-> {}, to |-> NoGuest, wave |-> 0, answer |-> "none"]
Go(t, pc, todo) == thread' = [thread EXCEPT ![t] = [Idle EXCEPT !.pc = pc, !.todo = todo]]
Judge(pc) == [Idle EXCEPT !.pc = IF thread["judge"].pc = "failing" THEN "failing" ELSE pc]
Hand(t, pc) == thread' = [thread EXCEPT ![t] = Idle, !["judge"] = Judge(pc)]

\* SessionStore.mutate: the version moves when the session changes.  What
\* set_local writes in the same step is in h and does not count.  What a player
\* was before it was lost matters while it is lost.
\* Mutant: what players become does not count.
MutateState(h, p) ==
  /\ host' = [h EXCEPT !.version = IF <<h.state, h.ready>> # <<host.state, host.ready>> THEN @ + 1 ELSE @]
  /\ player' = [g \in Guest |-> IF p[g].st = "unreachable" THEN p[g] ELSE [p[g] EXCEPT !.from = "none"]]

Mutate(h, p) ==
  LET q == [g \in Guest |-> IF p[g].st = "unreachable" THEN p[g] ELSE [p[g] EXCEPT !.from = "none"]]
      changed == <<h.state, h.ready, q>> # <<host.state, host.ready, player>>
  IN  /\ host' = [h EXCEPT !.version = IF changed THEN @ + 1 ELSE @]
      /\ player' = q

Published(h) == [h EXCEPT !.push = TRUE]
Unwatched == [offered |-> 0, silent |-> FALSE, missed |-> FALSE]
Seen(g) == watch' = [watch EXCEPT ![g].silent = FALSE]

Snapshot(h, p, g) == [version |-> h.version, state |-> h.state, mine |-> p[g].st]

\* publish.push sends what is new to the guests; one snapshot at a time is under
\* way to each, as one that another overtakes changes nothing.
\* Receivers: guests who may have a replica; one who was removed is told once.
Receivers ==
  {g \in left.guests : LET st == player[g].st IN
     /\ st # "declined"
     /\ st = "removed" => g \notin host.told
     /\ st = "invited" => host.state \in Over}

New(g) ==
  LET s == Snapshot(host, player, g)
  IN  IF guest[g].version = 0 \/ s.version > guest[g].version THEN {s} ELSE {}

Push ==
  /\ host.push /\ \A g \in Receivers : updates[g] = {}
  /\ \E lost \in SUBSET Receivers :
       LET down == {g \in Receivers : ~link[g]}
           reached == Receivers \ lost
       IN  /\ down \subseteq lost /\ Cardinality(lost \ down) <= left.lose
           /\ left' = [left EXCEPT !.lose = @ - Cardinality(lost \ down)]
           /\ updates' = [g \in Guest |-> IF g \in reached
                                          THEN New(g) ELSE updates[g]]
           /\ host' = [host EXCEPT !.push = FALSE, !.unsent = lost # {},
                                   !.told = @ \cup (reached \cap In(player, "removed"))]
  /\ UNCHANGED <<player, watch, thread, playing, late, stray, link>>

\* publish again what did not get through.
Republish ==
  /\ host.unsent /\ ~host.push
  /\ host' = Published(host)
  /\ UNCHANGED <<player, watch, thread, playing, net, left>>

-----------------------------------------------------------------------------
(* The guest's record.                                                     *)

NoPlan == [offer |-> 0, wave |-> 0, version |-> 0, consumed |-> FALSE]
NoWork == [offer |-> 0, wave |-> 0]
Rested == [taking |-> NoPlan, queued |-> {}, work |-> NoWork, report |-> 0, started |-> FALSE]
NoCall == [kind |-> "none", ok |-> FALSE, wave |-> 0, at |-> "none",
           reply |-> [version |-> 0, state |-> "LOBBY", mine |-> "invited"]]
Call(kind, ok, wave) == [NoCall EXCEPT !.kind = kind, !.ok = ok, !.wave = wave, !.at = "asked"]

Outside == [invitation |-> "none", invited |-> 0, version |-> 0, state |-> "LOBBY", mine |-> "invited",
            ended |-> FALSE, reopenable |-> FALSE, departed |-> FALSE, launch |-> "", plan |-> NoPlan,
            played |-> 0, game |-> FALSE, recovery |-> "none",
            after |-> {}, booting |-> FALSE]

\* session_lock on a guest: held while its user's ready, leave or confirmation waits
\* for the host, and while its worker launches the game.
Asking(g) == call[g].user.kind \in {"ready", "leave"}
\* Mutant: the worker launches without the lock.
GuestLockedToAsk(g) == Asking(g) \/ busy[g].taking # NoPlan

GuestLocked(g) == Asking(g) \/ busy[g].taking # NoPlan \/ busy[g].work # NoWork

Member(x) == x.version > 0 /\ ~x.ended
Up(g) == link[g] /\ ~guest[g].booting

\* guest_cleanup: the guest's part ends here, until a retry of a session that
\* failed may reopen it.  Its game is not closed.
Cleaned(x, reopenable, departed) ==
  [x EXCEPT !.plan = NoPlan, !.launch = IF @ = "failed" THEN "failed" ELSE "",
            !.ended = TRUE, !.departed = @ \/ departed,
            !.reopenable = /\ reopenable /\ ~departed
                           /\ \/ x.ended /\ x.reopenable
                              \/ ~x.ended /\ ~x.departed]

\* after_replica_update, as it is chosen when the replica is stored.
Consequence(x) ==
  IF x.state \in Over \/ x.mine \in {"removed", "declined"}
  THEN IF x.state = "FAILED" /\ x.mine \notin {"removed", "declined"} THEN {"suspend"} ELSE {"finish"}
  ELSE IF x.state \notin PreStart THEN {}
  ELSE IF x.ended /\ x.reopenable /\ ~x.departed /\ x.mine = "joined" THEN {"reopen"}
  ELSE {"reset"}

\* apply_replica: only a newer snapshot is stored.
Stored(x, s) ==
  IF x.version > 0 /\ s.version > x.version
  THEN [x EXCEPT !.version = s.version, !.state = s.state, !.mine = s.mine]
  ELSE x

\* peer_update: a Drone without a replica only closes a pending invitation
\* that was withdrawn.
Updated(x, s) ==
  IF x.version > 0
  THEN LET y == Stored(x, s)
       IN  IF y = x THEN x ELSE [y EXCEPT !.after = @ \cup Consequence(y)]
  ELSE IF /\ x.invitation = "pending" /\ s.version >= x.invited
          /\ s.mine # "invited" \/ s.state \notin PreStart
       THEN [x EXCEPT !.invitation = "cancelled"]
       ELSE x

Deliver(g) ==
  /\ ~guest[g].booting
  /\ \E s \in updates[g] : guest' = [guest EXCEPT ![g] = Updated(@, s)]
  /\ updates' = [updates EXCEPT ![g] = {}]
  /\ UNCHANGED <<hosting, busy, call, late, stray, link, left>>

\* after_replica_update: a lobby snapshot voids what was offered, without the lock.
Reset(x, reopen) ==
  LET y == [x EXCEPT !.plan = NoPlan, !.launch = "", !.recovery = "none"]
  IN  IF reopen THEN [y EXCEPT !.ended = FALSE, !.reopenable = FALSE, !.played = 0] ELSE y

React(g) ==
  /\ \E what \in guest[g].after :
       /\ what \in {"suspend", "finish"} => ~GuestLocked(g)
       /\ LET x == [guest[g] EXCEPT !.after = @ \ {what}]
          IN  guest' = [guest EXCEPT ![g] =
                IF what \in {"suspend", "finish"} THEN Cleaned(x, what = "suspend", FALSE)
                ELSE Reset(x, what = "reopen")]
  /\ UNCHANGED <<hosting, busy, call, net, left>>

\* _invitation_reopenable: a new invitation counts after a decision that lapsed.
Renewable(x) ==
  \/ x.invitation \in {"cancelled", "declined"}
  \/ x.invitation = "accepted" /\ (~Member(x) \/ x.mine \in Gone)

\* peer_invite.
Asked(x, s) ==
  IF s.version >= x.invited /\ (x.invitation \in {"none", "pending"} \/ Renewable(x))
  THEN [x EXCEPT !.invitation = "pending", !.invited = s.version] ELSE x

\* peer_launch: an offer replaces the one before, confirmed or not.  Its number
\* is one that no worker waits for.
Welcome(x) == Member(x) /\ x.mine \notin Gone /\ x.state \in Live \cup {"READY"}
Offered(x, wave, queued) ==
  IF Welcome(x)
  THEN LET new == CHOOSE n \in 1 .. Cardinality(queued) + 1 : n \notin queued
       IN  [x EXCEPT !.launch = "awaiting", !.recovery = "none",
                     !.plan = [offer |-> new, wave |-> wave, version |-> x.version, consumed |-> FALSE]]
  ELSE x

-----------------------------------------------------------------------------
(* The host: lobby and start.                                              *)

HostReady ==
  /\ ~Locked /\ host.state \in PreStart /\ ~host.ready
  /\ Mutate(Published([host EXCEPT !.ready = TRUE, !.state = SettleLobby(host.state, TRUE, player)]), player)
  /\ UNCHANGED <<watch, thread, playing, net, left>>

\* invite_peer, and a retry in the lobby, with _deliver_invitation.
Invite(g) ==
  /\ ~Locked /\ host.state \in PreStart /\ g \in left.guests /\ left.invite > 0
  /\ player[g].st \notin {"joined"}
  /\ LET p == IF player[g].st = "invited" THEN player ELSE [player EXCEPT ![g] = Invited]
         h == [host EXCEPT !.state = SettleLobby(@, host.ready, p)]
     IN  /\ Mutate(IF p = player THEN h ELSE Published(h), p)
         /\ guest' = IF Up(g)
                     THEN [guest EXCEPT ![g] = Asked(@, Snapshot(host', p, g))] ELSE guest
  /\ left' = [left EXCEPT !.invite = @ - 1]
  /\ UNCHANGED <<watch, thread, busy, call, net>>

\* remove_player.
Remove(g) ==
  /\ ~Locked /\ host.state \notin {"STOPPING", "COMPLETED"} /\ left.remove > 0
  /\ g \in left.guests /\ player[g].st \notin {"removed", "declined"}
  /\ LET p == [player EXCEPT ![g].st = "removed", ![g].ready = FALSE]
     IN  Mutate(Published([host EXCEPT !.state = SettleLive(SettleLobby(@, host.ready, p), p)]), p)
  /\ left' = [left EXCEPT !.remove = @ - 1]
  /\ UNCHANGED <<watch, thread, playing, net>>

\* start_session.  One start worker at a time.
Start ==
  /\ ~Locked /\ host.state = "READY" /\ thread["start"].pc = "idle"
  /\ left.start > 0
  /\ LET p == [g \in Guest |-> IF player[g].st = "invited" THEN [player[g] EXCEPT !.st = "removed"]
                               ELSE player[g]]
     IN  Mutate(Published([host EXCEPT !.state = "STARTING", !.wave = @ + 1, !.overdue = FALSE]), p)
  /\ watch' = [g \in Guest |-> [watch[g] EXCEPT !.offered = 0]]
  /\ Go("start", "queued", {})
  /\ left' = [left EXCEPT !.start = @ - 1]
  /\ UNCHANGED <<playing, net>>

\* run_start takes the lock, unless the start was called off.
Launch ==
  /\ thread["start"].pc = "queued" /\ ~Locked
  /\ IF host.state # "STARTING" THEN Go("start", "idle", {}) /\ UNCHANGED host
     ELSE Go("start", "launching", {}) /\ host' = [host EXCEPT !.launched = TRUE]
  /\ UNCHANGED <<player, watch, playing, net, left>>

Launched ==
  /\ thread["start"].pc = "launching"
  /\ \/ /\ host' = [host EXCEPT !.game = TRUE, !.version = @ + 1]     \* the host is RUNNING
        /\ Go("start", "sending", In(player, "joined"))
        /\ UNCHANGED left
     \/ /\ left.fail > 0 /\ left' = [left EXCEPT !.fail = @ - 1]
        /\ \E on \in BOOLEAN : host' = [host EXCEPT !.game = on]
        /\ Hand("start", "failing")
  /\ UNCHANGED <<player, watch, playing, net>>

-----------------------------------------------------------------------------
(* The host: offers.  Three threads send them, none of the first two under *)
(* the lock.                                                               *)

\* _send_launch reads the session ...
Post(t) ==
  /\ thread[t].pc = "sending" /\ thread[t].to = NoGuest
  /\ \E g \in thread[t].todo :
       thread' = [thread EXCEPT ![t].todo = @ \ {g},
                                ![t].to = IF host.state \in Coming THEN g ELSE NoGuest,
                                ![t].wave = host.wave]
  /\ UNCHANGED <<host, player, watch, playing, net, left>>

\* ... the guest answers, or nothing does in time ...
Offer(t) ==
  /\ thread[t].to # NoGuest /\ thread[t].answer = "none"
  /\ LET g == thread[t].to
         w == thread[t].wave
         Answer(a) == thread' = [thread EXCEPT ![t].answer = a]
         Told == guest' = [guest EXCEPT ![g] = Offered(@, w, busy[g].queued)]
     IN  \/ /\ Up(g) /\ ~GuestLocked(g)
            /\ Told /\ UNCHANGED <<stray, left>>
            /\ Answer(IF Welcome(guest[g]) THEN "ok" ELSE "refused")
         \/ /\ Up(g) /\ ~GuestLocked(g) /\ left.lose > 0       \* the answer is lost
            /\ Told /\ UNCHANGED stray
            /\ left' = [left EXCEPT !.lose = @ - 1]
            /\ Answer("missed")
         \/ /\ Up(g) /\ GuestLocked(g)                         \* it waits for the guest's lock: too long,
                                                              \* unless a confirmation holds it
            /\ Asking(g) \/ left.lose > 0
            /\ left' = IF Asking(g) THEN left ELSE [left EXCEPT !.lose = @ - 1]
            /\ stray' = [stray EXCEPT ![g] = @ \cup {w}]
            /\ Answer("missed") /\ UNCHANGED guest
         \/ /\ ~Up(g)
            /\ Answer("missed") /\ UNCHANGED <<guest, stray, left>>
  /\ UNCHANGED <<host, player, watch, busy, call, updates, late, link>>

\* An offer that waited for the guest's lock, taken after the host gave up on it.
Straggle(g) ==
  /\ ~guest[g].booting /\ ~GuestLocked(g)
  /\ \E w \in stray[g] :
       /\ stray' = [stray EXCEPT ![g] = @ \ {w}]
       /\ guest' = [guest EXCEPT ![g] = Offered(@, w, busy[g].queued)]
  /\ UNCHANGED <<hosting, busy, call, updates, late, link, left>>

\* ... and mark writes down what came of it.
Marked(x, answer) ==
  IF answer = "refused" THEN [x EXCEPT !.st = "failed"]
  ELSE IF answer = "ok" /\ x.st \in {"joined", "failed", "unreachable"} THEN [x EXCEPT !.st = "launching"]
  ELSE x

Mark(t) ==
  /\ thread[t].answer # "none"
  /\ LET g == thread[t].to
         answer == thread[t].answer
     IN  /\ Mutate(host, [player EXCEPT ![g] = Marked(@, answer)])
         /\ watch' = IF answer = "ok" THEN [watch EXCEPT ![g].offered = thread[t].wave] ELSE watch
  /\ thread' = [thread EXCEPT ![t].to = NoGuest, ![t].answer = "none"]
  /\ UNCHANGED <<playing, net, left>>

\* _confirmed_launching: the guests that say they run the session's game.
\* Mutant: a guest that is about to launch is taken for one that plays.
RunsOrLaunches(x) == Member(x) /\ x.launch # ""

Runs(x) == Member(x) /\ x.game /\ x.launch = "running"

Confirmed == {g \in Guest : player[g].st \in Expected /\ Up(g) /\ Runs(guest[g])}

\* Mutant: housekeeping evaluates only when somebody came up.
SentIfConfirmed(t) ==
  /\ thread[t].pc = "sending" /\ thread[t].to = NoGuest /\ thread[t].todo = {}
  /\ IF t = "retry" \/ (t = "tick" /\ Confirmed # {})
     THEN Go(t, "evaluating", IF t = "tick" THEN Confirmed ELSE {})
     ELSE Go(t, "idle", {})
  /\ UNCHANGED <<host, player, watch, playing, net, left>>

Sent(t) ==
  /\ thread[t].pc = "sending" /\ thread[t].to = NoGuest /\ thread[t].todo = {}
  /\ IF t = "retry" \/ (t = "tick" /\ Confirmed # {})
     THEN Go(t, "evaluating", IF t = "tick" THEN Confirmed ELSE {})
     ELSE Hand(t, "evaluating")
  /\ UNCHANGED <<host, player, watch, playing, net, left>>

-----------------------------------------------------------------------------
(* The host: evaluation and failure.                                       *)

\* evaluate_launch: promote those who were found running, close what is
\* overdue, settle; a failed session is then failed in full.
Evaluate(t) ==
  /\ thread[t].pc = "evaluating" /\ (t = "retry" \/ ~Locked)
  /\ IF host.state \notin Coming THEN Go(t, "idle", {}) /\ UNCHANGED <<host, player>>
     ELSE LET sure == thread[t].todo
              p == [g \in Guest |-> IF g \in sure /\ player[g].st \in Expected
                                    THEN [player[g] EXCEPT !.st = "running"] ELSE player[g]]
              closed == {g \in Guest : host.overdue /\ LaunchPending(p[g])}
              q == [g \in Guest |-> IF g \in closed THEN [p[g] EXCEPT !.st = "failed"] ELSE p[g]]
              s == SettleLive(host.state, q)
              h == [host EXCEPT !.state = s, !.wave = IF closed # {} THEN @ + 1 ELSE @]
          IN  IF s = "FAILED" THEN Mutate(h, q) /\ (IF t = "retry" THEN Go(t, "failing", {}) ELSE Hand(t, "failing"))
              ELSE Mutate(Published(h), q) /\ Go(t, "idle", {})
  /\ UNCHANGED <<watch, playing, net, left>>

\* cleanup_host_resources: the game is closed if this session launched it.  An error
\* is swallowed: the session says "cleanup failed", a version of its own, and goes on.
\* With Mute nothing is said either: emukill's answer is not looked at, nor whether
\* the game is gone.
Closings ==
  {[host EXCEPT !.game = @ /\ ~host.launched]}
    \cup (IF host.game /\ host.launched /\ left.stuck > 0
          THEN {[host EXCEPT !.version = @ + 1, !.attention = TRUE]} \cup (IF Mute THEN {host} ELSE {})
          ELSE {})
Stuck(running) == left' = IF running THEN [left EXCEPT !.stuck = @ - 1] ELSE left

\* fail_session.
FailSession(t) ==
  /\ thread[t].pc = "failing" /\ (t = "retry" \/ ~Locked)
  /\ \E h \in Closings :
       /\ Stuck(h.game /\ h.launched)
       /\ IF host.state \in {"STOPPING", "COMPLETED"} THEN Mutate(h, player)
          ELSE Mutate(Published([h EXCEPT !.state = "FAILED"]), player)
  /\ Go(t, "idle", {})
  /\ UNCHANGED <<watch, playing, net>>

\* The launch deadline passes: it is longer than a start, or a sweep, takes.
Elapse ==
  /\ host.state \in Coming /\ ~host.overdue
  /\ thread["start"].pc = "idle" /\ thread["tick"].pc = "idle"
  /\ host' = [host EXCEPT !.overdue = TRUE]
  /\ UNCHANGED <<player, watch, thread, playing, net, left>>

-----------------------------------------------------------------------------
(* The host: retry and end.                                                *)

\* retry_connection while the session comes up: a new wave for those who failed.
RetryPlayers ==
  /\ ~Locked /\ host.state \in Coming /\ left.retry > 0
  /\ \E wanted \in SUBSET (In(player, "failed") \cup In(player, "unreachable")) :
       /\ wanted # {}
       /\ Cardinality(wanted) = 1 \/ wanted = In(player, "failed") \cup In(player, "unreachable")
       /\ watch' = [g \in Guest |-> IF g \in wanted THEN [watch[g] EXCEPT !.offered = 0] ELSE watch[g]]
       /\ Go("retry", "sending", wanted)
  /\ host' = [host EXCEPT !.wave = @ + 1, !.overdue = FALSE]
  /\ left' = [left EXCEPT !.retry = @ - 1]
  /\ UNCHANGED <<player, playing, net>>

\* retry_connection of a session that failed: back to the lobby, where all,
\* the host too, have to be ready again.
Lobby(x) ==
  LET y == IF x.st \in {"failed", "unreachable", "running", "launching"} THEN [x EXCEPT !.st = "joined"] ELSE x
  IN  IF y.st = "joined" THEN [y EXCEPT !.ready = FALSE] ELSE y

RetryFailed ==
  /\ ~Locked /\ host.state = "FAILED" /\ left.retry > 0
  /\ LET p == [g \in Guest |-> Lobby(player[g])]
     IN  Mutate(Published([host EXCEPT !.state = "LOBBY", !.ready = FALSE, !.launched = FALSE]), p)
  /\ left' = [left EXCEPT !.retry = @ - 1]
  /\ UNCHANGED <<watch, thread, playing, net>>

\* end_session: by the user, at the session's expiry, or because the host's game
\* exited.
Stop ==
  /\ ~Locked /\ host.state # "COMPLETED"
  /\ Mutate(Published([host EXCEPT !.state = "STOPPING"]), player)
  /\ Go("end", "ending", {})
  /\ UNCHANGED <<watch, playing, net>>

End == left.end > 0 /\ Stop /\ left' = [left EXCEPT !.end = @ - 1]

GameOver ==
  /\ thread["tick"].pc = "idle" /\ host.state \in {"RUNNING", "DEGRADED"} /\ host.launched /\ ~host.game
  /\ Stop /\ UNCHANGED left

Finish ==
  /\ thread["end"].pc = "ending"
  /\ \E h \in Closings :
       Stuck(h.game /\ h.launched) /\ Mutate(Published([h EXCEPT !.state = "COMPLETED"]), player)
  /\ Go("end", "idle", {})
  /\ UNCHANGED <<watch, playing, net>>

-----------------------------------------------------------------------------
(* The host: what guests ask.                                              *)

\* A guest leaves because its user or its recovery says so, or because its
\* game is gone; its worker reports a success, its recovery a failure.
Leaving == {"leave", "quit"}
Reporting == {"success", "failure"}

Failed(c) == [c EXCEPT !.at = "failed"]
Answered(c, h, p, g) == [c EXCEPT !.at = "answered", !.reply = Snapshot(h, p, g)]

\* _respond_*: whether the host refuses, and the player it becomes.
Rejects(x, c) ==
  CASE c.kind = "accept" -> host.state \notin PreStart \/ x.st \notin {"joined", "invited"}
    [] c.kind = "ready"  -> host.state \notin PreStart \/ x.st # "joined"
    [] OTHER -> FALSE

\* _launch_result_current: a success counts for this wave, until the deadline.
Current(x, c) == LaunchPending(x) /\ c.wave = host.wave /\ ~host.overdue

Response(x, c) ==
  CASE c.kind = "accept" -> IF x.st = "invited" THEN Joined ELSE x
    [] c.kind = "ready"  -> [x EXCEPT !.ready = c.ok]
    [] c.kind = "decline" ->
         IF x.st \in {"invited", "joined"} /\ host.state \in PreStart
         THEN [x EXCEPT !.st = "declined", !.ready = FALSE] ELSE x
    [] c.kind \in Leaving -> IF x.st \in Gone THEN x ELSE [x EXCEPT !.st = "left", !.ready = FALSE]
    [] c.kind \in Reporting ->
         IF host.state \notin Live THEN x
         ELSE IF c.ok THEN (IF Current(x, c) THEN [x EXCEPT !.st = "running"] ELSE x)
         ELSE IF x.st \in Expected \cup {"unreachable"} THEN [x EXCEPT !.st = "failed"] ELSE x

\* The state after that: _respond_launch_result leaves it to evaluate_launch.
Settled(c, p) ==
  CASE c.kind \in {"accept", "ready", "decline"} -> SettleLobby(host.state, host.ready, p)
    [] c.kind \in Leaving -> SettleLive(SettleLobby(host.state, host.ready, p), p)
    [] c.kind \in Reporting -> host.state

\* _fail_guest_launch: the failure is kept until the host has heard of it; the
\* game is closed if the worker started it, unless that fails too.
Exits(g, started) ==
  {exits \in BOOLEAN : exits = started \/ (started /\ guest[g].game /\ left.stuck > 0)}
FailLaunch(x, close) ==
  [x EXCEPT !.launch = "failed", !.plan = NoPlan, !.recovery = "failure", !.game = @ /\ ~close]

Send(g, l, c) == call' = [call EXCEPT ![g][l] = c]
\* set_local and the like: the guest's record alone.
Keep(g, x) == guest' = [guest EXCEPT ![g] = x]

\* What the worker and housekeeping get back.  A success that the host did not
\* hear of is a failure, and ends the game.
Told(x, c, started) ==
  LET heard == c.at = "answered"
      y == IF heard THEN Stored(x, c.reply) ELSE x
  IN  CASE c.kind = "success" -> IF heard THEN y ELSE FailLaunch(x, started)
        [] c.kind = "quit" -> Cleaned(y, FALSE, TRUE)
        [] c.kind \in {"failure", "leave"} ->
             IF heard /\ y.recovery = c.kind THEN [y EXCEPT !.recovery = "none"] ELSE y

\* peer_respond under the lock: what the host does with a request it takes.
Handle(g, c) ==
  LET p == [player EXCEPT ![g] = Response(@, c)]
  IN  /\ Mutate(Published([host EXCEPT !.state = Settled(c, p)]), p)
      /\ Seen(g)
      /\ IF c.kind \in Reporting THEN thread' = [thread EXCEPT !["judge"] = Judge("evaluating")] ELSE UNCHANGED thread

\* _verified_launch_payload, before the lock: a success is checked with the
\* guest that reports it, and becomes a failure when its game does not run.  One that
\* cannot be checked is answered, and not applied.
Check(g) ==
  /\ call[g].worker.kind = "success" /\ call[g].worker.at = "asked" /\ Up(g)
  /\ \/ /\ call' = [call EXCEPT ![g].worker.at = "checked", ![g].worker.ok = Runs(guest[g])]
        /\ UNCHANGED <<guest, left>>
     \/ /\ left.lose > 0 /\ left' = [left EXCEPT !.lose = @ - 1]
        /\ Send(g, "worker", NoCall)
        /\ Keep(g, Stored(guest[g], Snapshot(host, player, g)))
  /\ UNCHANGED <<hosting, busy, net>>

Open(c) == c.at = "checked" \/ (c.at = "asked" /\ c.kind # "success")

\* A guest's worker takes the answer at once, unless it needs the lock.
Ready(g, c) == c.kind = "success" \/ (c.kind \in Leaving \cup Reporting /\ ~GuestLocked(g))

Respond(g, l) ==
  LET c == call[g][l] IN
  /\ Open(c) /\ link[g] /\ ~Locked
  /\ IF Rejects(player[g], c)
     THEN call' = [call EXCEPT ![g][l] = Failed(@)] /\ UNCHANGED <<hosting, guest, left>>
     ELSE /\ Handle(g, c)
          /\ \/ /\ left.lose > 0 /\ left' = [left EXCEPT !.lose = @ - 1]      \* the answer is lost
                /\ call' = [call EXCEPT ![g][l] = Failed(@)] /\ UNCHANGED guest
             \/ LET a == Answered(c, host', player', g)
                    now == l = "worker" /\ Ready(g, c)
                IN  /\ call' = [call EXCEPT ![g][l] = IF now THEN NoCall ELSE a]
                    /\ guest' = IF now THEN [guest EXCEPT ![g] = Told(@, a, FALSE)] ELSE guest
                    /\ UNCHANGED left
  /\ UNCHANGED <<busy, net>>

\* The guest gives up on a request: it never arrived, or it waits for the lock.
GiveUp(g, l) ==
  /\ call[g][l].at \in {"asked", "checked"}
  /\ call' = [call EXCEPT ![g][l] = Failed(@)]
  /\ \/ ~link[g] /\ UNCHANGED <<late, left>>
     \/ /\ link[g] /\ left.lose > 0 /\ left' = [left EXCEPT !.lose = @ - 1]
        /\ \/ UNCHANGED late
           \/ Locked /\ Open(call[g][l]) /\ late' = [late EXCEPT ![g] = @ \cup {call[g][l]}]
  /\ UNCHANGED <<hosting, guest, busy, updates, stray, link>>

RespondLate(g) ==
  /\ ~Locked
  /\ \E c \in late[g] :
       /\ late' = [late EXCEPT ![g] = @ \ {c}]
       /\ IF Rejects(player[g], c) THEN UNCHANGED hosting ELSE Handle(g, c)
  /\ UNCHANGED <<playing, updates, stray, link, left>>

-----------------------------------------------------------------------------
(* The guest: its user.                                                    *)

Free(g) == ~guest[g].booting /\ call[g].user = NoCall

\* accept_invitation: a machine that cannot take part (validate_for_join) raises
\* before it asks the host, and stays as it is.
Accept(g) ==
  /\ Free(g) /\ guest[g].invitation = "pending"
  /\ Send(g, "user", Call("accept", TRUE, 0))
  /\ UNCHANGED <<hosting, guest, busy, net, left>>

Decline(g) ==
  /\ Free(g) /\ guest[g].invitation = "pending" /\ left.change > 0
  /\ Keep(g, [guest[g] EXCEPT !.invitation = "declined"])
  /\ Send(g, "user", Call("decline", TRUE, 0))
  /\ left' = [left EXCEPT !.change = @ - 1]
  /\ UNCHANGED <<hosting, busy, net>>

GuestReady(g, ready) ==
  /\ Free(g) /\ ~GuestLocked(g) /\ guest[g].version > 0 /\ guest[g].state \in PreStart
  /\ left.change > 0 /\ left' = [left EXCEPT !.change = @ - 1]
  /\ Send(g, "user", Call("ready", ready, 0))
  /\ UNCHANGED <<hosting, guest, busy, net>>

Leave(g) ==
  /\ Free(g) /\ ~GuestLocked(g) /\ Member(guest[g]) /\ left.leave > 0
  /\ Send(g, "user", Call("leave", TRUE, 0))
  /\ left' = [left EXCEPT !.leave = @ - 1]
  /\ UNCHANGED <<hosting, guest, busy, net>>

\* adopt_replica: a replica that is as new stays as it is.
Adopted(x, s) ==
  IF x.version >= s.version THEN x
  ELSE [x EXCEPT !.version = s.version, !.state = s.state, !.mine = s.mine, !.ended = FALSE,
                 !.reopenable = FALSE, !.departed = FALSE, !.launch = "", !.plan = NoPlan, !.played = 0]

\* What the guest's user gets back.
Concluded(x, c) ==
  LET y == IF c.at = "answered" THEN Stored(x, c.reply) ELSE x
  IN  CASE c.kind = "accept" ->
             IF c.at = "answered" /\ c.reply.state \in PreStart /\ c.reply.mine = "joined"
             THEN [Adopted(x, c.reply) EXCEPT !.invitation = "accepted"] ELSE x
        [] c.kind = "decline" -> x
        [] c.kind = "ready" -> y
        [] c.kind = "leave" -> Cleaned(y, FALSE, TRUE)

Conclude(g) ==
  /\ call[g].user.at \in {"answered", "failed"}
  /\ Keep(g, Concluded(guest[g], call[g].user))
  /\ Send(g, "user", NoCall)
  /\ UNCHANGED <<hosting, busy, net, left>>

-----------------------------------------------------------------------------
(* The guest: launch.                                                      *)

\* _require_live_launch_host, with the host's answer to /status.
HostAllows(g, plan) ==
  /\ host.state \in Live /\ player[g].st \in Expected /\ ~host.overdue
  /\ host.version >= plan.version

\* _confirm_launch asks the host ...
Confirm(g) ==
  LET x == guest[g] IN
  /\ Up(g) /\ ~GuestLocked(g) /\ x.plan # NoPlan /\ ~x.plan.consumed
  /\ IF HostAllows(g, x.plan)
     THEN busy' = [busy EXCEPT ![g].taking = x.plan] /\ UNCHANGED guest
     ELSE Keep(g, [x EXCEPT !.plan = NoPlan, !.launch = "expired"]) /\ UNCHANGED busy
  /\ UNCHANGED <<hosting, call, net, left>>

\* ... and takes the offer it has read, once, also one that was voided meanwhile;
\* a worker is queued for it.
Take(g) ==
  LET plan == busy[g].taking IN
  /\ plan # NoPlan
  /\ Keep(g, [guest[g] EXCEPT !.plan = [plan EXCEPT !.consumed = TRUE], !.launch = "launching"])
  /\ busy' = [busy EXCEPT ![g].taking = NoPlan, ![g].queued = @ \cup {plan.offer}]
  /\ UNCHANGED <<hosting, call, net, left>>

\* run_guest_launch: a worker runs the offer it was confirmed for, or nothing.
Mine(x, offer) ==
  ~x.ended /\ x.state \in Live \cup {"READY"} /\ x.plan.consumed /\ x.plan.offer = offer

Work(g) ==
  /\ ~guest[g].booting /\ ~GuestLocked(g)
  /\ \E offer \in busy[g].queued :
       LET x == guest[g]
           b == [busy[g] EXCEPT !.queued = @ \ {offer}]
       IN  IF Mine(x, offer) /\ Up(g) /\ HostAllows(g, x.plan)
           THEN /\ busy' = [busy EXCEPT ![g] = [b EXCEPT !.work = [offer |-> offer, wave |-> x.plan.wave],
                                                         !.started = ~x.game]]
                /\ UNCHANGED guest
           ELSE /\ busy' = [busy EXCEPT ![g] = b]
                /\ Keep(g, IF Mine(x, offer) THEN FailLaunch(x, FALSE) ELSE x)
  /\ UNCHANGED <<hosting, call, net, left>>

Worked(g) ==
  /\ busy[g].work # NoWork
  /\ \/ /\ busy' = [busy EXCEPT ![g].work = NoWork, ![g].report = busy[g].work.wave]
        /\ Keep(g, [guest[g] EXCEPT !.game = TRUE, !.launch = "running", !.played = busy[g].work.wave, !.plan = NoPlan])
        /\ UNCHANGED left
     \/ /\ left.fail > 0
        /\ busy' = [busy EXCEPT ![g].work = NoWork]
        /\ \E exits \in Exits(g, busy[g].started) :
             /\ Keep(g, FailLaunch(guest[g], exits))
             /\ left' = [left EXCEPT !.fail = @ - 1, !.stuck = IF exits = busy[g].started THEN @ ELSE @ - 1]
  /\ UNCHANGED <<hosting, call, net>>

\* The worker, which has let go of the lock, tells the host.
Report(g) ==
  /\ busy[g].report > 0 /\ call[g].worker = NoCall
  /\ Send(g, "worker", Call("success", TRUE, busy[g].report))
  /\ busy' = [busy EXCEPT ![g].report = 0]
  /\ UNCHANGED <<hosting, guest, net, left>>

\* _flush_guest_recovery_response.
Flush(g) ==
  /\ ~guest[g].booting /\ guest[g].recovery # "none" /\ call[g].worker = NoCall
  /\ Send(g, "worker", Call(guest[g].recovery, FALSE, 0))
  /\ UNCHANGED <<hosting, guest, busy, net, left>>

Tell(g) ==
  /\ call[g].worker.at \in {"answered", "failed"}
  /\ ~GuestLocked(g)
  /\ \E exits \in Exits(g, busy[g].started) :
       Keep(g, Told(guest[g], call[g].worker, exits)) /\ Stuck(exits # busy[g].started)
  /\ Send(g, "worker", NoCall)
  /\ busy' = IF call[g].worker.kind = "success" THEN [busy EXCEPT ![g].started = FALSE] ELSE busy
  /\ UNCHANGED <<hosting, net>>

-----------------------------------------------------------------------------
(* Housekeeping, on the guest and on the host.                             *)

\* _tick_guest: the host answers, ...
\* Mutant: only a session that failed is over.
PollFailed(g) ==
  /\ Up(g) /\ Member(guest[g]) /\ guest[g].state # "COMPLETED"
  /\ IF host.state = "FAILED"
     THEN ~GuestLocked(g) /\ Keep(g, Cleaned(guest[g], TRUE, FALSE)) /\ UNCHANGED watch
     ELSE Seen(g) /\ UNCHANGED guest
  /\ UNCHANGED <<host, player, thread, busy, call, net, left>>

Poll(g) ==
  /\ Up(g) /\ Member(guest[g]) /\ guest[g].state # "COMPLETED"
  /\ IF host.state \in Over
     THEN ~GuestLocked(g) /\ Keep(g, Cleaned(guest[g], host.state = "FAILED", FALSE)) /\ UNCHANGED watch
     ELSE Seen(g) /\ UNCHANGED guest
  /\ UNCHANGED <<host, player, thread, busy, call, net, left>>

\* ... or has not answered for HOST_LOST_AFTER, ...
HostLost(g) ==
  /\ ~link[g] /\ ~guest[g].booting /\ Member(guest[g]) /\ guest[g].state # "COMPLETED" /\ ~GuestLocked(g)
  /\ Keep(g, Cleaned(guest[g], FALSE, FALSE))
  /\ UNCHANGED <<hosting, busy, call, net, left>>

\* ... or the game that ran here is gone, in two sweeps.
GameGone(g) ==
  LET x == guest[g] IN
  /\ ~x.booting /\ Member(x) /\ x.mine = "running" /\ x.played > 0 /\ ~x.game /\ call[g].worker = NoCall
  /\ Send(g, "worker", Call("quit", TRUE, 0))
  /\ UNCHANGED <<hosting, guest, busy, net, left>>

\* _tick_host: offers to those who have none of this wave, then evaluation.
Tick ==
  /\ thread["tick"].pc = "idle" /\ host.state \in Coming
  /\ left.sweep > 0 /\ left' = IF left.endless THEN left ELSE [left EXCEPT !.sweep = @ - 1]
  /\ Go("tick", "sending",
        IF host.overdue THEN {}
        ELSE {g \in Guest : player[g].st \in Expected /\ watch[g].offered # host.wave})
  /\ UNCHANGED <<host, player, watch, playing, net>>

\* Nothing was heard of a guest for SILENT_AFTER: one that takes part asks for
\* the status more often than that.
FallSilent(g) ==
  /\ ~watch[g].silent /\ player[g].st \in Expected \cup {"running", "unreachable"}
  /\ ~(Up(g) /\ Member(guest[g]) /\ guest[g].state # "COMPLETED")
  /\ watch' = [watch EXCEPT ![g].silent = TRUE]
  /\ UNCHANGED <<host, player, thread, playing, net, left>>

\* _participation_gap: a Drone that answers may still not take part.
Gap(g) ==
  LET x == guest[g]
      plays == player[g].st = "running" \/ (player[g].st = "unreachable" /\ player[g].from = "running")
  IN  ~Member(x) \/ x.state \in Over \/ (host.state \in Live /\ plays /\ ~x.game)

Found(g) ==
  LET p == [player EXCEPT ![g].st = player[g].from, ![g].from = "none"]
  IN  /\ watch' = [watch EXCEPT ![g].silent = FALSE, ![g].missed = FALSE]
      /\ IF player[g].st = "unreachable" THEN Mutate([host EXCEPT !.state = SettleLive(@, p)], p)
         ELSE UNCHANGED <<host, player>>

Missing(x) ==
  IF x.st \in Expected \cup {"running"} THEN [x EXCEPT !.st = "unreachable", !.from = x.st] ELSE x

Lose(g) ==
  LET x == player[g]
      y == Missing(x)
      p == [player EXCEPT ![g] = IF host.state \in PreStart /\ y # x THEN [y EXCEPT !.ready = FALSE] ELSE y]
  IN  IF y = x THEN host' = Published(host) /\ UNCHANGED player
      ELSE Mutate(Published([host EXCEPT !.state = IF @ = "RUNNING" THEN "DEGRADED"
                                                   ELSE SettleLobby(@, host.ready, p)]), p)

\* _probe_player.
Probe(g) ==
  /\ thread["tick"].pc = "idle" /\ host.state # "COMPLETED"
  /\ watch[g].silent /\ player[g].st \in Expected \cup {"running", "unreachable"}
  /\ IF Up(g) /\ ~Gap(g) THEN Found(g)
     ELSE IF watch[g].missed THEN Lose(g) /\ UNCHANGED watch
     ELSE watch' = [watch EXCEPT ![g].missed = TRUE] /\ UNCHANGED <<host, player>>
  /\ UNCHANGED <<thread, playing, net, left>>

-----------------------------------------------------------------------------
(* Crashes, what fails, and what the network does.                         *)

HostCrash ==
  /\ left.crash > 0 /\ left' = [left EXCEPT !.crash = @ - 1]
  /\ thread' = [[t \in Thread |-> Idle] EXCEPT !["tick"].pc = "recovering"]
  /\ host' = [host EXCEPT !.push = FALSE]
  /\ call' = [g \in Guest |-> [l \in Line |-> IF call[g][l].at \in {"asked", "checked"}
                                              THEN Failed(call[g][l]) ELSE call[g][l]]]
  /\ late' = [g \in Guest |-> {}]
  /\ UNCHANGED <<player, watch, guest, busy, updates, stray, link>>

\* recover, on the host.
Recover ==
  /\ thread["tick"].pc = "recovering" /\ ~Locked
  /\ CASE host.state = "STARTING" -> Hand("tick", "failing") /\ UNCHANGED <<host, player>>
       [] \/ host.state = "STOPPING"
          \/ host.state \in {"RUNNING", "DEGRADED"} /\ host.launched /\ ~host.game ->
            /\ Mutate(Published([host EXCEPT !.state = "STOPPING"]), player)
            /\ thread' = [thread EXCEPT !["tick"] = Idle, !["end"].pc = "ending"]
       [] OTHER -> Go("tick", "idle", {}) /\ UNCHANGED <<host, player>>
  /\ UNCHANGED <<watch, playing, net, left>>

GuestCrash(g) ==
  /\ left.reboot > 0 /\ left' = [left EXCEPT !.reboot = @ - 1]
  /\ guest[g].version > 0 \/ call[g].user # NoCall
  /\ ~guest[g].booting
  /\ Keep(g, [guest[g] EXCEPT !.booting = TRUE, !.after = {}])
  /\ busy' = [busy EXCEPT ![g] = Rested]
  /\ call' = [call EXCEPT ![g] = [l \in Line |-> NoCall]]
  /\ stray' = [stray EXCEPT ![g] = {}]
  /\ UNCHANGED <<hosting, updates, late, link>>

\* recover, on a guest.
Booted(x, exits) ==
  IF ~Member(x) \/ x.state = "COMPLETED" THEN x
  ELSE IF x.launch = "launching" THEN FailLaunch(x, exits)
  ELSE IF x.launch = "running" /\ ~x.game THEN Cleaned([x EXCEPT !.recovery = "leave"], FALSE, TRUE)
  ELSE x

GuestBoot(g) ==
  /\ guest[g].booting
  /\ \E exits \in Exits(g, TRUE) : Keep(g, [Booted(guest[g], exits) EXCEPT !.booting = FALSE]) /\ Stuck(~exits)
  /\ UNCHANGED <<hosting, busy, call, net>>

GameExits ==
  /\ left.exit > 0 /\ left' = [left EXCEPT !.exit = @ - 1]
  /\ \/ /\ host.game /\ host' = [host EXCEPT !.game = FALSE] /\ UNCHANGED guest
     \/ /\ \E g \in Guest : guest[g].game /\ busy[g].work = NoWork
                            /\ Keep(g, [guest[g] EXCEPT !.game = FALSE])
        /\ UNCHANGED host
  /\ UNCHANGED <<player, watch, thread, busy, call, net>>

LinkFalls(g) ==
  /\ g \in left.guests /\ link[g] /\ left.drop > 0 /\ left' = [left EXCEPT !.drop = @ - 1]
  /\ link' = [link EXCEPT ![g] = FALSE]
  /\ UNCHANGED <<hosting, playing, updates, late, stray>>

LinkRises(g) ==
  /\ ~link[g] /\ link' = [link EXCEPT ![g] = TRUE]
  /\ UNCHANGED <<hosting, playing, updates, late, stray, left>>

-----------------------------------------------------------------------------
(* The session.                                                            *)

\* The session as the setting finds it: everybody is invited, has joined, is
\* ready too, or plays since the first wave.
Found0(s, g) ==
  CASE g \notin s.guests -> [Invited EXCEPT !.st = "declined"]
    [] s.stage = "invited" -> Invited
    [] s.stage = "joined" -> Joined
    [] s.stage = "ready" -> [Joined EXCEPT !.ready = TRUE]
    [] s.stage = "playing" -> [Joined EXCEPT !.ready = TRUE, !.st = "running"]

\* A start takes two versions for the host, two for each guest, and one more.
Version(s) ==
  CASE s.stage = "invited" -> 1
    [] s.stage = "joined" -> 2
    [] s.stage = "ready" -> 3
    [] s.stage = "playing" -> 6 + 2 * Cardinality(s.guests)

State(s) == CASE s.stage = "ready" -> "READY" [] s.stage = "playing" -> "RUNNING" [] OTHER -> "LOBBY"

Member0(s, g) ==
  LET x == [Outside EXCEPT !.invitation = "accepted", !.invited = 1, !.version = Version(s),
                           !.state = State(s), !.mine = Found0(s, g).st]
  IN  CASE g \notin s.guests -> Outside
        [] s.stage = "invited" -> [Outside EXCEPT !.invitation = "pending", !.invited = 1]
        [] s.stage = "playing" -> [x EXCEPT !.launch = "running", !.played = 1, !.game = TRUE]
        [] OTHER -> x

Init ==
  /\ left \in Setting
  /\ player = [g \in Guest |-> Found0(left, g)]
  /\ LET plays == left.stage = "playing" IN
     /\ host = [state |-> State(left), version |-> Version(left), ready |-> plays \/ left.stage = "ready",
                wave |-> IF plays THEN 1 ELSE 0, overdue |-> FALSE, launched |-> plays, game |-> plays,
                attention |-> FALSE, push |-> FALSE, unsent |-> FALSE, told |-> {}]
     /\ watch = [g \in Guest |-> [Unwatched EXCEPT !.offered = IF plays THEN 1 ELSE 0]]
  /\ thread = [t \in Thread |-> Idle]
  /\ guest = [g \in Guest |-> Member0(left, g)]
  /\ busy = [g \in Guest |-> Rested]
  /\ call = [g \in Guest |-> [l \in Line |-> NoCall]]
  /\ updates = [g \in Guest |-> {}]
  /\ late = [g \in Guest |-> {}]
  /\ stray = [g \in Guest |-> {}]
  /\ link = [g \in Guest |-> TRUE]

\* What a thread of the host does next.
Step(t) == Post(t) \/ Offer(t) \/ Mark(t) \/ Sent(t) \/ Evaluate(t) \/ FailSession(t)

HostNext ==
  \/ HostReady \/ Start \/ Launch \/ Launched \/ RetryPlayers \/ RetryFailed \/ End \/ GameOver \/ Finish
  \/ Push \/ Republish \/ Elapse \/ Tick \/ HostCrash \/ Recover
  \/ \E t \in Thread : Step(t)
  \/ \E g \in Guest : Invite(g) \/ Remove(g) \/ FallSilent(g) \/ Probe(g)

GuestNext(g) ==
  \/ Deliver(g) \/ React(g) \/ Straggle(g)
  \/ Accept(g) \/ Decline(g) \/ Leave(g) \/ \E ready \in BOOLEAN : GuestReady(g, ready)
  \/ Conclude(g) \/ Confirm(g) \/ Take(g) \/ Work(g) \/ Worked(g) \/ Report(g) \/ Flush(g) \/ Tell(g)
  \/ Check(g) \/ RespondLate(g) \/ \E l \in Line : Respond(g, l) \/ GiveUp(g, l)
  \/ Poll(g) \/ HostLost(g) \/ GameGone(g) \/ GuestCrash(g) \/ GuestBoot(g)
  \/ LinkFalls(g) \/ LinkRises(g)

Next == HostNext \/ GameExits \/ \E g \in Guest : GuestNext(g)
Spec == Init /\ [][Next]_vars

\* The host's threads go on, and housekeeping and the clock with them; so do a
\* guest's workers and its housekeeping, and every request gets an answer or
\* times out.  Users, links and failures have no obligation.  Weak fairness of
\* what the threads do, with the enabling conditions spelt out; "tick" does not
\* rest while the session comes up.
CanStep(t) ==
  \/ thread[t].pc = "sending"
  \/ thread[t].pc \in {"evaluating", "failing"} /\ (t = "retry" \/ ~Locked)

Pending(g, l) ==
  \/ call[g][l].at \in {"asked", "checked"} /\ (link[g] => ~Locked /\ ~guest[g].booting)
  \/ call[g][l].at \in {"answered", "failed"} /\ (l = "worker" => ~GuestLocked(g))

Attend(g, l) ==
  Respond(g, l) \/ GiveUp(g, l) \/ (IF l = "user" THEN Conclude(g) ELSE Check(g) \/ Tell(g))

Lost(g) == ~link[g] /\ ~guest[g].booting /\ Member(guest[g]) /\ guest[g].state # "COMPLETED" /\ ~GuestLocked(g)

FairSpec ==
  /\ Spec
  /\ \A t \in Thread : <>[]CanStep(t) => []<><<Step(t)>>_vars
  /\ <>[](thread["start"].pc = "launching" \/ (thread["start"].pc = "queued" /\ ~Locked))
       => []<><<Launch \/ Launched>>_vars
  /\ <>[](thread["end"].pc = "ending") => []<><<Finish>>_vars
  /\ <>[](thread["tick"].pc = "recovering" /\ ~Locked) => []<><<Recover>>_vars
  /\ <>[](host.state \in Coming) => []<><<Tick>>_vars
  /\ <>[](host.state \in Coming /\ ~host.overdue) => []<><<Elapse>>_vars
  /\ \A g \in Guest :
       /\ <>[](busy[g].taking # NoPlan) => []<><<Take(g)>>_vars
       /\ <>[](busy[g].work # NoWork) => []<><<Worked(g)>>_vars
       /\ WF_vars(Poll(g))
       /\ <>[]Lost(g) => []<><<HostLost(g)>>_vars
       /\ <>[]guest[g].booting => []<><<GuestBoot(g)>>_vars
       /\ \A l \in Line : <>[]Pending(g, l) => []<><<Attend(g, l)>>_vars

-----------------------------------------------------------------------------
(* Properties.                                                             *)

\* The record's shape; a player that was lost, and no other, has kept the
\* status it is to be found in again.
TypeOK ==
  /\ host.state \in SessionState /\ host.version \in Nat /\ host.wave \in Nat
  /\ \A f \in {"ready", "overdue", "launched", "game", "attention", "push", "unsent"} : host[f] \in BOOLEAN
  /\ host.told \subseteq Guest
  /\ player \in [Guest -> [st : PlayerStatus, ready : BOOLEAN, from : Expected \cup {"running", "none"}]]
  /\ watch \in [Guest -> [offered : Nat, silent : BOOLEAN, missed : BOOLEAN]]
  /\ \A g \in Guest : player[g].st = "unreachable" <=> player[g].from # "none"

\* Launches are consented to: while a guest's worker launches the game the
\* guest takes part, and the offer at hand, if any, is the one its user
\* confirmed: offers that arrive meanwhile, repeated or of a later wave, wait.
LaunchIsConsented ==
  \A g \in Guest : busy[g].work # NoWork =>
    /\ ~guest[g].ended
    /\ guest[g].plan # NoPlan => guest[g].plan.consumed /\ guest[g].plan.offer = busy[g].work.offer

\* A session that was ended leaves no game of its last start behind on its
\* host, whatever the start worker, a retry, or a failure was doing when End
\* was pressed, or its diagnostics say that the game could not be closed.  With
\* Mute the code breaks it.
EndedIsClean == host.state = "COMPLETED" /\ host.launched /\ host.game => host.attention

\* A version names one state: a guest whose replica is as new as the host's
\* session agrees with it, whether the replica came with a snapshot, an answer
\* or an invitation it accepted, and in whatever order these arrived.
OneStatePerVersion ==
  \A g \in Guest : guest[g].version = host.version
    => guest[g].state = host.state /\ guest[g].mine = player[g].st

\* What is said of a session is so: one that ended runs no game on its host that
\* nobody was told of, and who has its latest version has its state.
SaidIsSo == EndedIsClean /\ OneStatePerVersion

\* Nobody is said to play who did not: a player becomes "running", by its
\* report or by what housekeeping found, only after its worker launched the
\* game since the session last was a lobby; or it is found again.
PlayedBeforePromoted ==
  [][\A g \in Guest : player[g].st # "running" /\ player'[g].st = "running"
       => guest[g].played > 0 \/ player[g].from = "running"]_vars

\* A start ends: whatever the guests do or fail to do, the session comes up,
\* fails, or is ended.
StartingEnds == host.state = "STARTING" ~> host.state # "STARTING"

\* When the session is over every guest that takes part gets to know it, or
\* takes the host for lost.
GuestsHearTheEnd ==
  \A g \in Guest : host.state = "COMPLETED" ~> (Member(guest[g]) => guest[g].state = "COMPLETED")

\* Failure cleans up: when a session has failed, and no thread is about to see
\* to it, the game it launched on the host no longer runs.  The code does not
\* keep to this: settle_live fails a session whose last guest leaves, and the
\* thread that answers that guest closes nothing.
CleaningUp == Locked \/ (\E t \in Thread : thread[t].pc \in {"failing", "recovering"})
FailedIsClean == host.state = "FAILED" /\ host.launched /\ ~CleaningUp => ~host.game

\* Nor to this: the retry of a session that failed so forgets that it launched
\* a game, and End then leaves that game running.
EndedLeavesNoGame == host.state = "COMPLETED" => ~host.game
=============================================================================
