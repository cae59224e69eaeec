---------------------------- MODULE TailnetNode ----------------------------
(***************************************************************************)
(* A Drone's node on the tailnet and the auth key it shares with the       *)
(* Drones paired with it: enrollment by a pasted key, its rotation, the    *)
(* import of a peer's key (asked for, or by itself while the Drone is out) *)
(* the withdrawal of such a key, and the watchdog of the mesh daemon.      *)
(* app/device/tailnet_service.py.                                          *)
(***************************************************************************)
EXTENDS Naturals

CONSTANTS
  AuthKey, NoKey,  \* auth keys of Tailscale
  KeyPeer, Here,    \* the peers that may share a key; this Drone
  Origin,          \* where a key was pasted: a peer, or Here
  TailnetBounds    \* how many calls and faults; see TailnetInit

VARIABLES
  node,         \* what tailscaled keeps and does, on its own
  tailnetShare, \* tailnet_sharing.json
  peers,        \* what each peer has to offer, and whether it is still paired
  oauth,        \* an OAuth client is configured
  tailnetCall,  \* by caller: where it is, with what it read
  credentials,  \* who holds _CREDENTIALS_LOCK
  repaired,     \* the data path was repaired less than 300 s ago
  withdrawn,    \* keys that a revocation has cleared, with whom it was for
  tailnetLeft
tailnetVars ==
  <<node, tailnetShare, peers, oauth, tailnetCall, credentials, repaired, withdrawn, tailnetLeft>>

Asker == {"user", "retry", "revoker"}
Nobody == "nobody"
NoCall == [pc |-> "idle", key |-> NoKey, from |-> Here, todo |-> {}]
NothingShared == [key |-> NoKey, source |-> Here, revoked |-> FALSE]

TailnetInit ==
  /\ node = [daemon |-> TRUE, path |-> TRUE, enrolled |-> FALSE, with |-> NoKey, expires |-> TRUE]
  /\ tailnetShare = NothingShared
  /\ peers \in [KeyPeer -> {[paired |-> TRUE, key |-> k] : k \in AuthKey}]
  /\ \A p \in KeyPeer : Origin[peers[p].key] = p
  /\ oauth = FALSE
  /\ tailnetCall = [c \in Asker |-> NoCall] /\ credentials = Nobody
  /\ repaired = FALSE /\ withdrawn = {}
  /\ tailnetLeft \in TailnetBounds

Use(what) == tailnetLeft[what] > 0 /\ tailnetLeft' = [tailnetLeft EXCEPT ![what] = @ - 1]
At(c, pc) == tailnetCall[c].pc = pc
Go(c, pc) == tailnetCall' = [tailnetCall EXCEPT ![c].pc = pc]
Done(c) == tailnetCall' = [tailnetCall EXCEPT ![c] = NoCall]

\* Mutant: the two saves of an import are not kept together.
NoLock(c) == TRUE
\* _CREDENTIALS_LOCK is an RLock.
MayHold(c) == credentials \in {Nobody, c}

\* tailnet_status: the daemon answers, and says Running or Starting.
Enrolled == node.daemon /\ node.enrolled

-----------------------------------------------------------------------------
\* The user pastes a key of this Drone's own.
AskToEnroll(k) ==
  /\ At("user", "idle") /\ Origin[k] = Here /\ Use("calls")
  /\ tailnetCall' = [tailnetCall EXCEPT !["user"] = [@ EXCEPT !.pc = "up", !.key = k]]
  /\ UNCHANGED <<node, tailnetShare, peers, oauth, credentials, repaired, withdrawn>>

\* tailnet_rotate_auth_key logs out before it enrolls with the replacement.
AskToRotate(k) ==
  /\ At("user", "idle") /\ Origin[k] = Here /\ Enrolled /\ Use("calls")
  /\ node' = [node EXCEPT !.enrolled = FALSE, !.with = NoKey, !.expires = TRUE]
  /\ tailnetCall' = [tailnetCall EXCEPT !["user"] = [@ EXCEPT !.pc = "up", !.key = k]]
  /\ UNCHANGED <<tailnetShare, peers, oauth, credentials, repaired, withdrawn>>

\* What GET /peer/tailnet/config of a peer answers.
Offers(p) == peers[p].paired /\ peers[p].key # NoKey
Fetched(c, p) == [tailnetCall EXCEPT ![c] = [@ EXCEPT !.pc = "lock", !.key = peers[p].key, !.from = p]]

AskToPull(p) ==
  /\ At("user", "idle") /\ Offers(p) /\ Use("calls")
  /\ tailnetCall' = Fetched("user", p)
  /\ UNCHANGED <<node, tailnetShare, peers, oauth, credentials, repaired, withdrawn>>

\* The retry thread, and once the start of the server, while this Drone is out.
Bootstrap ==
  /\ At("retry", "idle") /\ ~Enrolled /\ Use("looks")
  /\ tailnetCall' = [tailnetCall EXCEPT !["retry"] =
       [@ EXCEPT !.pc = "peers", !.todo = {p \in KeyPeer : peers[p].paired}]]
  /\ UNCHANGED <<node, tailnetShare, peers, oauth, credentials, repaired, withdrawn>>

\* It asks one paired peer after the other; those that fail are passed over.
TryPeer ==
  /\ At("retry", "peers")
  /\ LET todo == tailnetCall["retry"].todo IN
       IF todo = {} THEN Done("retry")
       ELSE \E p \in todo :
              /\ p = CHOOSE q \in todo : TRUE
              /\ tailnetCall' = [IF Offers(p) THEN Fetched("retry", p) ELSE tailnetCall
                                   EXCEPT !["retry"].todo = @ \ {p}]
  /\ UNCHANGED <<node, tailnetShare, peers, oauth, credentials, repaired, withdrawn, tailnetLeft>>

\* import_tailnet_from_peer holds the lock over all that follows.
Import(c) ==
  /\ At(c, "lock") /\ MayHold(c) /\ credentials' = c /\ Go(c, "up")
  /\ UNCHANGED <<node, tailnetShare, peers, oauth, repaired, withdrawn, tailnetLeft>>

Importing(c) == tailnetCall[c].from # Here
Release(c) == credentials' = IF credentials = c THEN Nobody ELSE credentials

\* tailscale up, the daemon started first.  On a node that is in, it changes nothing.
Joined(c) ==
  IF node.enrolled THEN [node EXCEPT !.daemon = TRUE]
  ELSE [node EXCEPT !.daemon = TRUE, !.enrolled = TRUE, !.with = tailnetCall[c].key]

Up(c) ==
  /\ At(c, "up") /\ node' = Joined(c)
  /\ Go(c, "expiry")
  /\ UNCHANGED <<tailnetShare, peers, oauth, credentials, repaired, withdrawn, tailnetLeft>>

\* It times out, or waits for a person's approval, and may be in later on; the
\* retry thread tries the next peer.
UpFails(c) ==
  /\ At(c, "up") /\ Use("failures")
  /\ node' \in {node, Joined(c)}
  /\ IF c = "retry" THEN tailnetCall' = [tailnetCall EXCEPT ![c] = [NoCall EXCEPT !.pc = "peers", !.todo = tailnetCall[c].todo]]
     ELSE Done(c)
  /\ Release(c)
  /\ UNCHANGED <<tailnetShare, peers, oauth, repaired, withdrawn>>

\* _maybe_disable_key_expiry: best effort, with an OAuth client only.
KeepKey(c) ==
  /\ At(c, "expiry") /\ Go(c, "save")
  /\ \/ oauth /\ Enrolled /\ node' = [node EXCEPT !.expires = FALSE]
     \/ UNCHANGED node
  /\ UNCHANGED <<tailnetShare, peers, oauth, credentials, repaired, withdrawn, tailnetLeft>>

\* A key that was enrolled with is this Drone's own, until an import says whose.
SaveOwn(c) ==
  /\ At(c, "save") /\ MayHold(c)
  /\ tailnetShare' = [key |-> tailnetCall[c].key, source |-> Here, revoked |-> FALSE]
  /\ IF Importing(c) THEN Go(c, "source") ELSE Done(c)
  /\ UNCHANGED <<node, peers, oauth, credentials, repaired, withdrawn, tailnetLeft>>

SaveSource(c) ==
  /\ At(c, "source")
  /\ tailnetShare' = [tailnetShare EXCEPT !.source = tailnetCall[c].from]
  /\ Done(c) /\ Release(c)
  /\ UNCHANGED <<node, peers, oauth, repaired, withdrawn, tailnetLeft>>

-----------------------------------------------------------------------------
\* check_tailnet_sharing_revocation reads whose key this is, then asks that peer.
Check ==
  /\ At("revoker", "idle") /\ MayHold("revoker") /\ Use("checks")
  /\ tailnetShare.source # Here /\ tailnetShare.key # NoKey
  /\ tailnetCall' = [tailnetCall EXCEPT !["revoker"] = [@ EXCEPT !.pc = "ask", !.from = tailnetShare.source]]
  /\ UNCHANGED <<node, tailnetShare, peers, oauth, credentials, repaired, withdrawn>>

\* It is not paired any more, or its answer is 404; any other outcome changes nothing.
Ask ==
  /\ At("revoker", "ask")
  /\ \/ ~Offers(tailnetCall["revoker"].from) /\ Go("revoker", "revoke")
     \/ peers[tailnetCall["revoker"].from].paired /\ Done("revoker")
  /\ UNCHANGED <<node, tailnetShare, peers, oauth, credentials, repaired, withdrawn, tailnetLeft>>

\* Only while that peer's key is on file; its name stays with it.
Revoke ==
  /\ At("revoker", "revoke") /\ MayHold("revoker")
  /\ LET from == tailnetCall["revoker"].from IN
       IF tailnetShare.source = from /\ tailnetShare.key # NoKey
       THEN /\ tailnetShare' = [tailnetShare EXCEPT !.key = NoKey, !.revoked = TRUE]
            /\ withdrawn' = withdrawn \cup {[key |-> tailnetShare.key, from |-> from]}
       ELSE UNCHANGED <<tailnetShare, withdrawn>>
  /\ Done("revoker")
  /\ UNCHANGED <<node, peers, oauth, credentials, repaired, tailnetLeft>>

\* A peer's own side: it stops sharing, shares another key, or is forgotten here.
PeerChanges(p, k) ==
  /\ peers[p].paired /\ k # peers[p].key /\ (k # NoKey => Origin[k] = p) /\ Use("changes")
  /\ peers' = [peers EXCEPT ![p].key = k]
  /\ UNCHANGED <<node, tailnetShare, oauth, tailnetCall, credentials, repaired, withdrawn>>

Unpair(p) ==
  /\ peers[p].paired /\ Use("changes") /\ peers' = [peers EXCEPT ![p].paired = FALSE]
  /\ UNCHANGED <<node, tailnetShare, oauth, tailnetCall, credentials, repaired, withdrawn>>

SetOauth(set) ==
  /\ oauth # set /\ Use("changes") /\ oauth' = set
  /\ UNCHANGED <<node, tailnetShare, peers, tailnetCall, credentials, repaired, withdrawn>>

-----------------------------------------------------------------------------
\* ensure_tailnet_networking, when tailscaled does not answer.
Networking(kept) ==
  /\ ~node.daemon
  /\ node' = [node EXCEPT !.daemon = TRUE, !.path = TRUE,
                          !.expires = @ /\ ~(kept /\ oauth /\ node.enrolled)]
  /\ UNCHANGED <<tailnetShare, peers, oauth, tailnetCall, credentials, repaired, withdrawn, tailnetLeft>>

\* _repair_tailnet_data_path: a restart at most every 300 seconds, which may not help.
RepairPath(mended) ==
  /\ Enrolled /\ ~node.path /\ ~repaired /\ repaired' = TRUE
  /\ node' = [node EXCEPT !.path = mended]
  /\ UNCHANGED <<tailnetShare, peers, oauth, tailnetCall, credentials, withdrawn, tailnetLeft>>

CoolDown ==
  /\ repaired /\ repaired' = FALSE
  /\ UNCHANGED <<node, tailnetShare, peers, oauth, tailnetCall, credentials, withdrawn, tailnetLeft>>

\* The daemon dies, the kernel loses its route, the node key runs out.
NodeFails ==
  /\ Use("faults")
  /\ \/ node.daemon /\ node' = [node EXCEPT !.daemon = FALSE]
     \/ Enrolled /\ node.path /\ node' = [node EXCEPT !.path = FALSE]
     \/ Enrolled /\ node.expires /\ node' = [node EXCEPT !.enrolled = FALSE, !.with = NoKey]
  /\ UNCHANGED <<tailnetShare, peers, oauth, tailnetCall, credentials, repaired, withdrawn>>

BetweenSaves == \E c \in Asker : At(c, "source")

\* The Drone ends and starts again; tailscaled is not its child.
RestartProcess ==
  /\ tailnetLeft.crashes > 0
  /\ (BetweenSaves => tailnetLeft.late > 0)
  /\ tailnetLeft' = [tailnetLeft EXCEPT !.crashes = @ - 1, !.late = @ - IF BetweenSaves THEN 1 ELSE 0]
  /\ tailnetCall' = [c \in Asker |-> NoCall] /\ credentials' = Nobody /\ repaired' = FALSE
  /\ UNCHANGED <<node, tailnetShare, peers, oauth, withdrawn>>

TailnetNext ==
  \/ \E k \in AuthKey : AskToEnroll(k) \/ AskToRotate(k)
  \/ \E p \in KeyPeer : AskToPull(p) \/ Unpair(p) \/ \E k \in AuthKey \cup {NoKey} : PeerChanges(p, k)
  \/ Bootstrap \/ TryPeer \/ Check \/ Ask \/ Revoke
  \/ \E c \in {"user", "retry"} :
       Import(c) \/ Up(c) \/ UpFails(c) \/ KeepKey(c) \/ SaveOwn(c) \/ SaveSource(c)
  \/ \E b \in BOOLEAN : SetOauth(b) \/ Networking(b) \/ RepairPath(b)
  \/ CoolDown \/ NodeFails \/ RestartProcess

TailnetSpec == TailnetInit /\ [][TailnetNext]_tailnetVars

-----------------------------------------------------------------------------
\* What export_tailnet_payload would hand to any paired Drone.
Exported == IF tailnetShare.source = Here THEN {tailnetShare.key} \ {NoKey} ELSE {}

\* Except between the two saves of an import, a key is on file as that of the
\* Drone it was pasted on, whoever else enrolls, imports or revokes meanwhile:
\* an imported key is not offered onward (single hop), and a key pasted here is
\* never the one that a peer's withdrawal clears.
KeysKeepTheirOrigin ==
  /\ ~BetweenSaves /\ tailnetShare.key # NoKey => tailnetShare.source = Origin[tailnetShare.key]
  /\ \A w \in withdrawn : Origin[w.key] = w.from

\* KeysKeepTheirOrigin by induction, without late: what a call carries came
\* from where the call says, a call that imports holds the lock from its start
\* to its second save, and between the two the key on file is the one it carries.
KeyStep == {"idle", "peers", "lock", "up", "expiry", "save", "source", "ask", "revoke"}
KeyCall == [pc : KeyStep, key : AuthKey \cup {NoKey}, from : KeyPeer \cup {Here}, todo : SUBSET KeyPeer]
TailnetCount == {"calls", "looks", "failures", "checks", "changes", "faults", "crashes", "late"}
TailnetTypes ==
  /\ tailnetShare \in [key : AuthKey \cup {NoKey}, source : KeyPeer \cup {Here}, revoked : BOOLEAN]
  /\ peers \in [KeyPeer -> [paired : BOOLEAN, key : AuthKey \cup {NoKey}]]
  /\ tailnetCall \in [Asker -> KeyCall]
  /\ tailnetLeft \in [TailnetCount -> Nat] /\ tailnetLeft["late"] = 0

CarriesKey(c) ==
  /\ tailnetCall[c].pc \in {"idle", "peers"} => tailnetCall[c].from = Here
  /\ tailnetCall[c].pc \in {"lock", "up", "expiry", "save", "source"} =>
       tailnetCall[c].key \in AuthKey /\ Origin[tailnetCall[c].key] = tailnetCall[c].from
  /\ tailnetCall[c].pc \in {"up", "expiry", "save"} => tailnetCall[c].from = Here \/ credentials = c
  /\ tailnetCall[c].pc = "source" =>
       credentials = c /\ tailnetCall[c].from # Here /\ tailnetShare.key = tailnetCall[c].key

TailnetInv ==
  /\ TailnetTypes /\ KeysKeepTheirOrigin
  /\ \A p \in KeyPeer : peers[p].key # NoKey => Origin[peers[p].key] = p
  /\ \A c \in Asker : CarriesKey(c)

\* Not held, for the window between the two saves and with late > 0 for ever
\* after it: "an imported key never is" shareable (tailnet_sharing_status).
SingleHop == \A k \in Exported : Origin[k] = Here

\* Not held: a bootstrap replaces no key of the Drone's own.
BootstrapOverridesNothing ==
  [][At("retry", "save") /\ tailnetCall'["retry"].pc = "source"
       => tailnetShare.key = NoKey \/ tailnetShare.source # Here]_tailnetVars

\* Not held: a key shared as this Drone's own, all calls done, is the one it is in with.
EnrolledWithItsKey ==
  (\A c \in Asker : At(c, "idle")) /\ Exported # {} /\ node.enrolled => node.with \in Exported
=============================================================================
