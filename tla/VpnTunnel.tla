------------------------------ MODULE VpnTunnel ------------------------------
(***************************************************************************)
(* The OpenVPN client of a Drone, app/device/vpn_manager.py: credentials   *)
(* uploaded by the user or imported from a peer that shares them, one      *)
(* tunnel process found by scanning /proc, self-healing, and a poller that *)
(* stops the tunnel and wipes the credentials when the peer that gave them *)
(* stops sharing.  A stop may fail; the retry is bound to the process it   *)
(* is about, because by then the user may have a tunnel of their own.      *)
(*                                                                         *)
(* The network is kept out of _CREDENTIALS_LOCK; /proc and the signals are *)
(* under _CONNECT_LOCK, for one call only.                                 *)
(***************************************************************************)
EXTENDS Naturals

CONSTANTS
  Sharer,      \* peers that may share their configuration
  Own,         \* the user's own configuration
  Caller,      \* who connects: the user, the healer, the start
  Healer,      \* the one of them that is check_and_self_heal
  MaxAttempts, \* reconnects of the healer in its window
  SameAddress, \* whether an address is given again
  VpnBounds    \* how many of each, see VpnInit

VARIABLES
  vpn,        \* the state record and the credentials file
  tunnel,     \* the openvpn process, or NoTunnel
  caller,     \* connect and reconnect: where each caller is
  reviser,    \* check_sharing_revocation: where it is, and what it read
  sharing,    \* the peers that share
  pulled,     \* a configuration on its way from a peer, and who fetches it
  clock,      \* the tick, the boot, and the next pid
  stopped,    \* tunnels a revocation stopped, for the property
  health,     \* the log and the address of the tunnel there is
  healer,     \* the self-heal poller, and the attempts it has noted
  rgs,        \* the RGS service, and the tunnel it was reconciled with
  vpnLeft
vpnVars == <<vpn, tunnel, caller, reviser, sharing, pulled, clock, stopped, health, healer, rgs, vpnLeft>>
watched == <<health, healer, rgs, pulled>>

NoPid == 0
NoTunnel == [pid |-> NoPid, gen |-> 0, since |-> 0]
NoRetry == [pending |-> FALSE, pid |-> NoPid, since |-> 0, boot |-> 0]
NoAddress == [boot |-> 0, pid |-> NoPid]
NothingPulled == [by |-> "nobody", from |-> Own]
NoReviser == [pc |-> "idle", source |-> Own, since |-> 0, retry |-> NoRetry]

VpnInit ==
  /\ vpn = [source |-> Own, has |-> FALSE, file |-> 0, gen |-> 0, wipe |-> FALSE, retry |-> NoRetry, revoked |-> 0]
  /\ tunnel = NoTunnel /\ caller = [c \in Caller |-> "idle"] /\ reviser = NoReviser
  /\ sharing = Sharer /\ pulled = NothingPulled /\ clock = [tick |-> 1, boot |-> 1, pid |-> 1]
  /\ stopped = {} /\ health = "none"
  /\ healer = [pc |-> "idle", soon |-> FALSE, tries |-> 0]
  /\ rgs \in [enabled : {TRUE}, running : {FALSE}, on : {NoAddress}, noted : {NoAddress}, guess : {FALSE}, soon : {FALSE},
              pc : {"idle"}, seen : {NoAddress}]
  /\ vpnLeft \in VpnBounds

Take(what) == vpnLeft[what] > 0 /\ vpnLeft' = [vpnLeft EXCEPT ![what] = @ - 1]
CredentialsLocked == reviser.pc \in {"stop", "wipe", "retry", "rewipe"}

-----------------------------------------------------------------------------
(* The configuration.                                                       *)

\* save_credentials after save_uploaded_config: a config is self-owned and
\* clean, but cannot confirm that a revoked tunnel stopped.
SaveOwn ==
  /\ ~CredentialsLocked /\ Take("saves")
  /\ vpn' = [vpn EXCEPT !.source = Own, !.has = TRUE, !.gen = @ + 1, !.file = vpn.gen + 1, !.wipe = FALSE]
  /\ UNCHANGED <<tunnel, caller, reviser, sharing, clock, stopped, watched>>

\* A new config alone keeps the credentials there are, and nobody can revoke
\* them any more.
UploadConfig ==
  /\ ~CredentialsLocked /\ vpn.source # Own /\ Take("saves")
  /\ vpn' = [vpn EXCEPT !.source = Own]
  /\ UNCHANGED <<tunnel, caller, reviser, sharing, clock, stopped, watched>>

\* Somebody asks for the configuration of a peer, or one without any of its
\* own for that of the first peer that shares one and is connected by it.
PullFromPeer(p) ==
  /\ pulled = NothingPulled /\ p \in sharing /\ Take("saves")
  /\ pulled' = [by |-> "user", from |-> p]
  /\ UNCHANGED <<vpn, tunnel, caller, reviser, sharing, clock, stopped, health, healer, rgs>>

bootstrap_vpn_from_swarm(p) ==
  /\ pulled = NothingPulled /\ ~vpn.has /\ p \in sharing /\ Take("saves")
  /\ pulled' = [by |-> "start", from |-> p]
  /\ UNCHANGED <<vpn, tunnel, caller, reviser, sharing, clock, stopped, health, healer, rgs>>

\* import_from_peer, whatever has become of the configuration and the peer.  A
\* configuration without credentials leaves those that there are.
Import ==
  /\ ~CredentialsLocked /\ pulled # NothingPulled
  /\ vpn' \in {[vpn EXCEPT !.source = pulled.from],
              [vpn EXCEPT !.source = pulled.from, !.has = TRUE, !.gen = @ + 1, !.file = vpn.gen + 1, !.wipe = FALSE]}
  /\ pulled' = NothingPulled
  /\ UNCHANGED <<tunnel, caller, reviser, sharing, clock, stopped, health, healer, rgs, vpnLeft>>

\* It is off, unreachable or empty.
PullFails ==
  /\ pulled # NothingPulled /\ pulled' = NothingPulled
  /\ UNCHANGED <<vpn, tunnel, caller, reviser, sharing, clock, stopped, health, healer, rgs, vpnLeft>>

-----------------------------------------------------------------------------
(* The tunnel.                                                              *)

\* Whether there are credentials is read before _CONNECT_LOCK.
Validate(c) ==
  /\ caller[c] \in {"idle", "stopped"} /\ vpn.has
  /\ IF caller[c] = "idle" THEN Take("connects") ELSE UNCHANGED vpnLeft
  /\ caller' = [caller EXCEPT ![c] = "validated"]
  /\ UNCHANGED <<vpn, tunnel, reviser, sharing, clock, stopped, watched>>

\* _enable_proton_port_forwarding_credentials: the suffix that a Proton profile
\* lacked is written into the credentials file.  Its read and its write are one
\* step here.
Suffix(c) ==
  /\ caller[c] = "validated" /\ vpn.file # 0 /\ Take("suffixes")
  /\ caller' = [caller EXCEPT ![c] = "suffixed"]
  /\ UNCHANGED <<vpn, tunnel, reviser, sharing, clock, stopped, watched>>

\* openvpn reads the credentials file when it starts, and fails without.
Launch ==
  IF vpn.file # 0
  THEN /\ tunnel' = [pid |-> clock.pid, gen |-> vpn.file, since |-> clock.tick] /\ health' = "connecting"
       /\ clock' = [clock EXCEPT !.pid = @ + 1]
  ELSE tunnel' = NoTunnel /\ UNCHANGED <<clock, health>>

\* A tunnel that runs stays, unless the suffix is new: it is then recycled, and
\* stays only if it cannot be killed.
Connect(c) ==
  /\ caller[c] \in {"validated", "suffixed"} /\ caller' = [caller EXCEPT ![c] = "idle"]
  /\ \/ (tunnel = NoTunnel \/ caller[c] = "suffixed") /\ Launch /\ UNCHANGED vpnLeft
     \/ tunnel # NoTunnel /\ caller[c] = "validated" /\ UNCHANGED <<tunnel, clock, health, vpnLeft>>
     \/ tunnel # NoTunnel /\ caller[c] = "suffixed" /\ Take("failures") /\ UNCHANGED <<tunnel, clock, health>>
  /\ UNCHANGED <<vpn, reviser, sharing, stopped, healer, rgs, pulled>>

\* reconnect, by the user: disconnect, then connect.
Reconnect(c) ==
  /\ c # Healer /\ caller[c] = "idle" /\ tunnel # NoTunnel /\ Take("connects")
  /\ tunnel' = NoTunnel /\ caller' = [caller EXCEPT ![c] = "stopped"]
  /\ UNCHANGED <<vpn, reviser, sharing, clock, stopped, watched>>

Disconnect ==
  /\ tunnel # NoTunnel /\ Take("connects") /\ tunnel' = NoTunnel
  /\ UNCHANGED <<vpn, caller, reviser, sharing, clock, stopped, watched>>

NotReady(c) ==
  /\ caller[c] = "stopped" /\ ~vpn.has
  /\ caller' = [caller EXCEPT ![c] = "idle"]
  /\ UNCHANGED <<vpn, tunnel, reviser, sharing, clock, stopped, vpnLeft, watched>>

-----------------------------------------------------------------------------
(* check_sharing_revocation.                                                *)
StopSharing(p) ==
  /\ p \in sharing /\ sharing' = sharing \ {p}
  /\ UNCHANGED <<vpn, tunnel, caller, reviser, clock, stopped, vpnLeft, watched>>

Ask ==
  /\ reviser.pc = "idle" /\ ~vpn.retry.pending /\ ~vpn.wipe /\ vpn.source # Own /\ vpn.has
  /\ reviser' = [NoReviser EXCEPT !.pc = "asked", !.source = vpn.source]
  /\ UNCHANGED <<vpn, tunnel, caller, sharing, clock, stopped, vpnLeft, watched>>

\* Not sharing, or not paired.  Any other answer changes nothing.
StillOwner(p) == vpn.source = p
Answer ==
  /\ reviser.pc = "asked" /\ reviser.source \notin sharing
  /\ reviser' = IF StillOwner(reviser.source) /\ vpn.has
                THEN [reviser EXCEPT !.pc = "stop", !.since = clock.tick] ELSE NoReviser
  /\ UNCHANGED <<vpn, tunnel, caller, sharing, clock, stopped, vpnLeft, watched>>

Transient ==
  /\ reviser.pc = "asked" /\ reviser' = NoReviser
  /\ UNCHANGED <<vpn, tunnel, caller, sharing, clock, stopped, vpnLeft, watched>>

Stopping(upTo) ==
  /\ tunnel' = NoTunnel
  /\ stopped' = IF tunnel = NoTunnel THEN stopped ELSE stopped \cup {[gen |-> tunnel.gen, upTo |-> upTo]}

\* disconnect; it may fail after it has found the process, or before.
StopRevoked ==
  /\ reviser.pc = "stop"
  /\ \/ /\ Stopping(vpn.gen) /\ UNCHANGED vpnLeft
        /\ reviser' = [reviser EXCEPT !.pc = "wipe"]
     \/ /\ tunnel # NoTunnel /\ Take("failures") /\ UNCHANGED <<tunnel, stopped>>
        /\ \E pid \in {tunnel.pid, NoPid} :
             reviser' = [reviser EXCEPT !.pc = "wipe",
                           !.retry = [pending |-> TRUE, pid |-> pid, since |-> reviser.since, boot |-> clock.boot]]
  /\ UNCHANGED <<vpn, caller, sharing, clock, watched>>

\* _wipe_revoked_credentials: disabled even if the file stays.
Wipe ==
  /\ reviser.pc = "wipe"
  /\ \E removed \in BOOLEAN :
       /\ IF removed THEN UNCHANGED vpnLeft ELSE Take("failures")
       /\ vpn' = [vpn EXCEPT !.has = FALSE, !.file = IF removed THEN 0 ELSE @, !.wipe = ~removed,
                             !.retry = reviser.retry, !.revoked = vpn.gen]
  /\ reviser' = NoReviser
  /\ UNCHANGED <<tunnel, caller, sharing, clock, stopped, watched>>

\* What was established on an earlier tick: stop again, wipe again.  Nothing
\* of another boot is left, and what runs now may be newer.
Replaced(retry) == retry.pid # NoPid /\ tunnel.pid # retry.pid
NewSince(retry) == retry.pid = NoPid /\ tunnel # NoTunnel /\ tunnel.since >= retry.since
Retry ==
  LET due == vpn.retry.pending /\ vpn.retry.boot = clock.boot /\ ~Replaced(vpn.retry) /\ ~NewSince(vpn.retry) IN
  /\ reviser.pc = "idle" /\ (vpn.retry.pending \/ vpn.wipe)
  /\ reviser' = [NoReviser EXCEPT !.pc = IF due THEN "retry" ELSE "rewipe", !.retry = IF due THEN vpn.retry ELSE NoRetry]
  /\ UNCHANGED <<vpn, tunnel, caller, sharing, clock, stopped, vpnLeft, watched>>

\* disconnect looks for the process again, under the lock it is stopped in.  A
\* stop that fails names the process it was about; one that raises before it
\* has found any leaves the number that was noted.
\* Mutant: it stops what it finds.
AnyTunnel(retry) == FALSE
NotOurs(retry) == tunnel # NoTunnel /\ (Replaced(retry) \/ NewSince(retry))
StopAgain ==
  /\ reviser.pc = "retry"
  /\ \/ /\ NotOurs(reviser.retry) /\ UNCHANGED <<tunnel, stopped, vpnLeft>>
        /\ reviser' = [reviser EXCEPT !.pc = "rewipe", !.retry = NoRetry]
     \/ /\ ~NotOurs(reviser.retry) /\ Stopping(vpn.revoked) /\ UNCHANGED vpnLeft
        /\ reviser' = [reviser EXCEPT !.pc = "rewipe", !.retry = NoRetry]
     \/ /\ ~NotOurs(reviser.retry) /\ tunnel # NoTunnel /\ Take("failures") /\ UNCHANGED <<tunnel, stopped>>
        /\ reviser' \in {[reviser EXCEPT !.pc = "rewipe", !.retry.pid = tunnel.pid], [reviser EXCEPT !.pc = "rewipe"]}
  /\ UNCHANGED <<vpn, caller, sharing, clock, watched>>

\* Nobody could save credentials meanwhile: the file that goes is the old one.
WipeAgain ==
  /\ reviser.pc = "rewipe" /\ reviser' = NoReviser
  /\ vpn' = IF vpn.wipe THEN [vpn EXCEPT !.has = FALSE, !.file = 0, !.wipe = FALSE, !.retry = reviser.retry]
            ELSE [vpn EXCEPT !.retry = reviser.retry]
  /\ UNCHANGED <<tunnel, caller, sharing, clock, stopped, vpnLeft, watched>>

-----------------------------------------------------------------------------
(* The self-heal poller, run_self_heal_poller.                              *)

\* What status finds in the log of the tunnel's process: "flooded" is full of
\* replay errors with the address still there, "mute" without it.  An address
\* that is lost comes back only if it may be given again.
Turns(h) ==
  /\ tunnel # NoTunnel /\ health # h /\ Take("turns") /\ health' = h
  /\ ~SameAddress /\ health \in {"error", "mute"} => h \in {"error", "mute"}
  /\ UNCHANGED <<vpn, tunnel, caller, reviser, sharing, clock, stopped, healer, rgs, pulled>>

tunnel_is_up == tunnel # NoTunnel /\ health \in {"connected", "flooded"}
SelfHealReason == tunnel # NoTunnel /\ health \in {"error", "mute"}

HealerLooks ==
  /\ healer.pc = "idle" /\ Take("looks") /\ vpn.has
  /\ SelfHealReason /\ ~healer.soon /\ healer.tries < MaxAttempts
  /\ healer' = [healer EXCEPT !.pc = "due"]
  /\ UNCHANGED <<vpn, tunnel, caller, reviser, sharing, clock, stopped, health, rgs, pulled>>

\* reconnect, whatever has become of the tunnel it looked at.
HealerReconnects ==
  /\ healer.pc = "due" /\ caller[Healer] = "idle"
  /\ tunnel' = NoTunnel /\ caller' = [caller EXCEPT ![Healer] = "stopped"]
  /\ healer' = [healer EXCEPT !.pc = "connecting"]
  /\ UNCHANGED <<vpn, reviser, sharing, clock, stopped, health, rgs, pulled, vpnLeft>>

HealerNotes ==
  /\ healer.pc = "connecting" /\ caller[Healer] = "idle"
  /\ healer' = [pc |-> "idle", soon |-> TRUE, tries |-> healer.tries + 1]
  /\ UNCHANGED <<vpn, tunnel, caller, reviser, sharing, clock, stopped, health, rgs, pulled, vpnLeft>>

\* The least interval passes, and attempts leave the window.
AttemptsAge ==
  /\ healer.pc = "idle" /\ healer.tries > 0 /\ Take("looks")
  /\ healer' \in {[healer EXCEPT !.soon = FALSE], [healer EXCEPT !.soon = FALSE, !.tries = @ - 1]}
  /\ UNCHANGED <<vpn, tunnel, caller, reviser, sharing, clock, stopped, health, rgs, pulled>>

-----------------------------------------------------------------------------
(* reconcile_rgs_with_tunnel: a service that starts binds to the address of *)
(* the tunnel there is.                                                     *)
_tunnel_ip == IF ~tunnel_is_up THEN NoAddress
             ELSE IF SameAddress THEN [boot |-> 0, pid |-> 1] ELSE [boot |-> clock.boot, pid |-> tunnel.pid]
RgsIdle(r) == [r EXCEPT !.pc = "idle", !.seen = NoAddress]

\* The address is noted at once when RGS is off, or is taken to run on it.
RgsLooks ==
  /\ rgs.pc = "idle" /\ vpn.has /\ tunnel_is_up /\ Take("looks")
  /\ rgs' = IF ~rgs.enabled THEN [rgs EXCEPT !.noted = NoAddress, !.guess = FALSE]
            ELSE IF ~rgs.running THEN [rgs EXCEPT !.pc = "start", !.seen = _tunnel_ip]
            ELSE IF rgs.noted = _tunnel_ip THEN rgs
            ELSE IF rgs.noted = NoAddress THEN [rgs EXCEPT !.noted = _tunnel_ip, !.guess = TRUE]
            ELSE IF rgs.soon THEN rgs
            ELSE [rgs EXCEPT !.pc = "restart", !.seen = _tunnel_ip, !.soon = TRUE]
  /\ UNCHANGED <<vpn, tunnel, caller, reviser, sharing, clock, stopped, health, healer, pulled>>

\* start leaves a service alone that has been started meanwhile.
Noted(r) == RgsIdle([r EXCEPT !.noted = r.seen, !.guess = FALSE])
\* A failed action notes nothing, so that it is tried again.
Deferred(r) == RgsIdle(r)
Started(r) == [r EXCEPT !.running = TRUE, !.on = _tunnel_ip]
RgsActs ==
  /\ rgs.pc \in {"start", "restart"} /\ rgs.enabled
  /\ rgs' = Noted(IF rgs.pc = "start" /\ rgs.running THEN rgs ELSE Started(rgs))
  /\ UNCHANGED <<vpn, tunnel, caller, reviser, sharing, clock, stopped, health, healer, pulled, vpnLeft>>

\* It is refused, or fails before or after its stop.
RgsFails ==
  /\ rgs.pc \in {"start", "restart"}
  /\ IF rgs.enabled THEN Take("turns") ELSE UNCHANGED vpnLeft
  /\ \E down \in {FALSE, rgs.enabled /\ rgs.pc = "restart"} :
       rgs' = Deferred(IF down THEN [rgs EXCEPT !.running = FALSE, !.on = NoAddress] ELSE rgs)
  /\ UNCHANGED <<vpn, tunnel, caller, reviser, sharing, clock, stopped, health, healer, pulled>>

\* set_enabled, by a person; and the least interval between restarts.
RgsSwitched ==
  /\ Take("turns")
  /\ \/ rgs' = [rgs EXCEPT !.enabled = FALSE, !.running = FALSE, !.on = NoAddress]
     \/ rgs' = [rgs EXCEPT !.enabled = TRUE, !.running = TRUE, !.on = IF rgs.running THEN @ ELSE _tunnel_ip]
     \/ rgs' = [rgs EXCEPT !.soon = FALSE]
  /\ UNCHANGED <<vpn, tunnel, caller, reviser, sharing, clock, stopped, health, healer, pulled>>

-----------------------------------------------------------------------------
Tick ==
  /\ Take("ticks") /\ clock' = [clock EXCEPT !.tick = @ + 1]
  /\ UNCHANGED <<vpn, tunnel, caller, reviser, sharing, stopped, watched>>

\* Of the Drone; the tunnel is a daemon of its own.  Of the machine: pids and
\* ticks begin anew.
RestartVpn(machine) ==
  /\ Take("restarts") /\ caller' = [c \in Caller |-> "idle"] /\ reviser' = NoReviser
  /\ IF machine THEN tunnel' = NoTunnel /\ clock' = [tick |-> 1, boot |-> clock.boot + 1, pid |-> 1]
     ELSE UNCHANGED <<tunnel, clock>>
  /\ healer' = [healer EXCEPT !.pc = "idle"]
  /\ rgs' = IF machine THEN RgsIdle([rgs EXCEPT !.running = FALSE, !.on = NoAddress]) ELSE RgsIdle(rgs)
  /\ UNCHANGED <<vpn, sharing, stopped, health>> /\ pulled' = NothingPulled

VpnNext ==
  \/ SaveOwn \/ UploadConfig \/ Import \/ PullFails
  \/ (\E p \in Sharer : PullFromPeer(p) \/ bootstrap_vpn_from_swarm(p) \/ StopSharing(p))
  \/ \E c \in Caller : Validate(c) \/ Suffix(c) \/ Connect(c) \/ Reconnect(c) \/ NotReady(c)
  \/ Disconnect \/ Ask \/ Answer \/ Transient \/ StopRevoked \/ Wipe \/ Retry \/ StopAgain \/ WipeAgain
  \/ (\E h \in {"connected", "error", "flooded", "mute"} : Turns(h))
  \/ HealerLooks \/ HealerReconnects \/ HealerNotes \/ AttemptsAge
  \/ RgsLooks \/ RgsActs \/ RgsFails \/ RgsSwitched
  \/ Tick \/ (\E machine \in BOOLEAN : RestartVpn(machine))

VpnSpec == VpnInit /\ [][VpnNext]_vpnVars

-----------------------------------------------------------------------------
\* A revocation stops no tunnel that was started with newer credentials than
\* the ones it revokes, however late its retry comes.
NewerIsSpared == \A s \in stopped : s.gen <= s.upTo

\* RGS runs on the tunnel it is noted to have been reconciled with, so that a
\* tunnel it does not run on is seen at the next tick.  What a first look took
\* for granted excepted.  Not held when an address is given again: a service
\* started in between is then taken to run on it.
RgsIsWhereNoted ==
  rgs.running /\ rgs.noted = _tunnel_ip /\ tunnel_is_up /\ ~rgs.guess => rgs.on = _tunnel_ip

TunnelStaysRight == NewerIsSpared /\ RgsIsWhereNoted

-----------------------------------------------------------------------------
(* Why it is so: the inductive invariant.                                   *)
VpnShapes ==
  /\ vpn = [source |-> vpn.source, has |-> vpn.has, file |-> vpn.file, gen |-> vpn.gen, wipe |-> vpn.wipe,
            retry |-> vpn.retry, revoked |-> vpn.revoked]
  /\ reviser = [pc |-> reviser.pc, source |-> reviser.source, since |-> reviser.since, retry |-> reviser.retry]
  /\ rgs = [enabled |-> rgs.enabled, running |-> rgs.running, on |-> rgs.on, noted |-> rgs.noted, guess |-> rgs.guess,
            soon |-> rgs.soon, pc |-> rgs.pc, seen |-> rgs.seen]
Retries == [pending : BOOLEAN, pid : Nat, since : Nat, boot : Nat]
Addresses == [boot : Nat, pid : Nat]
VpnTypes ==
  /\ vpn.file \in Nat /\ vpn.gen \in Nat /\ vpn.revoked \in Nat /\ vpn.retry \in Retries
  /\ reviser.since \in Nat /\ reviser.retry \in Retries
  /\ tunnel \in [pid : Nat, gen : Nat, since : Nat] /\ clock \in [tick : Nat, boot : Nat \ {0}, pid : Nat \ {0}]
  /\ health \in {"none", "connecting", "connected", "error", "flooded", "mute"}
  /\ rgs.enabled \in BOOLEAN /\ rgs.running \in BOOLEAN /\ rgs.guess \in BOOLEAN
  /\ rgs.on \in Addresses /\ rgs.noted \in Addresses /\ rgs.seen \in Addresses

\* A tunnel is of its boot and of credentials there were, and its number is not
\* given again.
TunnelKnows ==
  /\ vpn.file <= vpn.gen /\ vpn.revoked <= vpn.gen /\ tunnel.gen <= vpn.gen
  /\ tunnel # NoTunnel => tunnel.pid \in 1 .. clock.pid - 1 /\ health # "none"

\* What a retry would still stop was started with credentials up to those that
\* were revoked.
RetryKnows(retry, upTo) ==
  retry.pending =>
    /\ retry.boot <= clock.boot
    /\ retry.boot = clock.boot =>
         /\ retry.pid < clock.pid /\ retry.since <= clock.tick
         /\ ~NotOurs(retry) => tunnel.gen <= upTo
ReviserKnows ==
  /\ RetryKnows(vpn.retry, vpn.revoked)
  /\ reviser.pc \in {"asked", "stop"} => ~reviser.retry.pending
  /\ reviser.pc = "stop" => reviser.since <= clock.tick
  /\ reviser.pc = "wipe" => RetryKnows(reviser.retry, vpn.gen)
  /\ reviser.pc \in {"retry", "rewipe"} => RetryKnows(reviser.retry, vpn.revoked)
  /\ reviser.pc = "retry" => reviser.retry.pending /\ reviser.retry.boot = clock.boot

\* An address that RGS was noted on, or is about to be, is that of a tunnel that
\* was up once, so that if it is lost it does not come back.
TunnelAddress == [boot |-> clock.boot, pid |-> tunnel.pid]
RgsKnows ==
  /\ \A a \in {rgs.noted, rgs.seen} : a.boot <= clock.boot /\ (a.boot = clock.boot => a.pid < clock.pid)
  /\ tunnel # NoTunnel =>
       /\ TunnelAddress \in {rgs.noted, rgs.seen} => health # "connecting"
       /\ rgs.running /\ health \notin {"error", "mute"} =>
            /\ rgs.noted = TunnelAddress /\ ~rgs.guess => rgs.on = TunnelAddress
            /\ rgs.pc = "start" /\ rgs.seen = TunnelAddress => rgs.on = TunnelAddress

VpnInv == VpnShapes /\ VpnTypes /\ TunnelKnows /\ ReviserKnows /\ NewerIsSpared /\ (~SameAddress => RgsKnows)

\* Not held by the code: the start never replaces a configuration there is.  It
\* looks once, before it fetches.
BootstrapOverridesNothing == [][pulled.by = "start" /\ vpn'.source \in Sharer /\ vpn'.gen # vpn.gen => ~vpn.has]_vpnVars

\* Not held by the code: once credentials are wiped and no stop is pending, no
\* tunnel runs with them.  A connect that comes between the stop and the wipe
\* finds the file still there, and nothing looks for its tunnel again.
RevokedIsDown ==
  reviser.pc = "idle" /\ vpn.revoked # 0 /\ ~vpn.retry.pending /\ ~vpn.wipe =>
    tunnel = NoTunnel \/ tunnel.gen > vpn.revoked
=============================================================================
