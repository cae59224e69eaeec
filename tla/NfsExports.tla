----------------------------- MODULE NfsExports -----------------------------
(***************************************************************************)
(* The other side of a reference: the Drone that owns a library exports it *)
(* to the addresses of paired peers, app/device/nfs_export_manager.py.  A  *)
(* record of each peer says which addresses are its own in the kernel's    *)
(* table; an address may belong to two records when a peer came back under *)
(* a new id.  The table outlives the process but not the machine.          *)
(***************************************************************************)
EXTENDS Naturals

CONSTANTS
  Client,      \* paired peers
  NoClient,
  Address,
  ExportBounds \* how many requests, changes and faults; see ExportInit

VARIABLES
  clients,     \* the peers that are paired, each with the addresses it is known by
  grant,       \* the record of each peer, or NoGrant
  exports,     \* addresses in the kernel's table
  granting,    \* authorize_peer, which holds the lock once it has read the peer
  forgetting,  \* the peer that _handle_admin_local_peer_forget has revoked
  restored,    \* restore_exports has run since the process started
  exportsLeft
exportVars == <<clients, grant, exports, granting, forgetting, restored, exportsLeft>>

NoGrant == [addresses |-> {}, status |-> "none"]
NoGranting == [pc |-> "idle", client |-> NoClient, addresses |-> {}, prior |-> {}]

ExportInit ==
  /\ clients \in [Client -> {{a} : a \in Address}]
  /\ grant = [p \in Client |-> NoGrant] /\ exports = {}
  /\ granting = NoGranting /\ forgetting = NoClient /\ restored = TRUE
  /\ exportsLeft \in ExportBounds

Use(what) == exportsLeft[what] > 0 /\ exportsLeft' = [exportsLeft EXCEPT ![what] = @ - 1]
IsPaired(p) == clients[p] # {}
LockFree == granting.pc \in {"idle", "asked"}

\* Mutant: an address is retired whoever else has it.
NobodyElse(p) == {}
SharedElsewhere(p) == UNION {grant[q].addresses : q \in Client \ {p}}

-----------------------------------------------------------------------------
\* The peer is looked up before the lock is taken; the address it calls from
\* counts besides the ones it is known by.
AskForExport(p, observed) ==
  /\ granting.pc = "idle" /\ IsPaired(p) /\ Use("requests")
  /\ granting' = [NoGranting EXCEPT !.pc = "asked", !.client = p, !.addresses = clients[p] \cup {observed}]
  /\ UNCHANGED <<clients, grant, exports, forgetting, restored>>

RecordGrant ==
  LET p == granting.client IN
  /\ granting.pc = "asked"
  /\ grant' = [grant EXCEPT ![p] = [addresses |-> granting.addresses, status |-> "authorizing"]]
  /\ granting' = [granting EXCEPT !.pc = "recorded", !.prior = grant[p].addresses]
  /\ UNCHANGED <<clients, exports, forgetting, restored, exportsLeft>>

\* _ensure_export_root fails, or an export does: it is taken back.
FailGrant ==
  LET p == granting.client IN
  /\ granting.pc = "recorded"
  /\ \/ Use("prepare") /\ UNCHANGED exports
     \/ /\ Use("export")
        /\ \E failed \in granting.addresses, done \in SUBSET granting.addresses :
             exports' = (exports \cup done) \ {failed}
  /\ grant' = [grant EXCEPT ![p].status = "error"]
  /\ granting' = NoGranting
  /\ UNCHANGED <<clients, forgetting, restored>>

ExportClients ==
  /\ granting.pc = "recorded"
  /\ exports' = exports \cup granting.addresses
  /\ granting' = [granting EXCEPT !.pc = "exported"]
  /\ UNCHANGED <<clients, grant, forgetting, restored, exportsLeft>>

\* Addresses the peer had before are retired; the ones that fail stay recorded.
Retire(failed) ==
  LET p == granting.client
      retired == (granting.prior \ granting.addresses) \ SharedElsewhere(p)
  IN
  /\ granting.pc = "exported" /\ failed \subseteq retired
  /\ IF failed = {} THEN UNCHANGED exportsLeft ELSE Use("unexport")
  /\ exports' = exports \ (retired \ failed)
  /\ grant' = [grant EXCEPT ![p] = [addresses |-> granting.addresses \cup failed,
                                    status |-> IF failed = {} THEN "active" ELSE "error"]]
  /\ granting' = NoGranting
  /\ UNCHANGED <<clients, forgetting, restored>>

\* revoke_peer.
Revoked(p, failed) ==
  LET own == grant[p].addresses \ SharedElsewhere(p) IN
  /\ LockFree /\ failed \subseteq own
  /\ IF failed = {} THEN UNCHANGED exportsLeft ELSE Use("unexport")
  /\ exports' = exports \ (own \ failed)
  /\ grant' = IF failed = {} THEN [grant EXCEPT ![p] = NoGrant]
              ELSE [grant EXCEPT ![p].status = "error"]

\* The peer asks for it when it detaches.
RevokeForPeer(p, failed) ==
  /\ IsPaired(p) /\ grant[p] # NoGrant /\ Revoked(p, failed)
  /\ UNCHANGED <<clients, granting, forgetting, restored>>

RevokeForForget(p, failed) ==
  /\ forgetting = NoClient /\ IsPaired(p) /\ Revoked(p, failed) /\ forgetting' = p
  /\ UNCHANGED <<clients, granting, restored>>

ForgetClient ==
  /\ forgetting # NoClient /\ forgetting' = NoClient
  /\ clients' = [clients EXCEPT ![forgetting] = {}]
  /\ UNCHANGED <<grant, exports, granting, restored, exportsLeft>>

\* A removal that comes by gossip, or from the peer, revokes nothing.
PeerRemoved(p) ==
  /\ IsPaired(p) /\ Use("changes")
  /\ clients' = [clients EXCEPT ![p] = {}]
  /\ UNCHANGED <<grant, exports, granting, forgetting, restored>>

\* The peer is paired, again or from another address.
PeerMoves(p, a) ==
  /\ clients[p] # {a} /\ Use("changes")
  /\ clients' = [clients EXCEPT ![p] = {a}]
  /\ UNCHANGED <<grant, exports, granting, forgetting, restored>>

RestartExports(machine) ==
  /\ Use("crashes")
  /\ exports' = IF machine THEN {} ELSE exports
  /\ granting' = NoGranting /\ forgetting' = NoClient /\ restored' = FALSE
  /\ UNCHANGED <<clients, grant>>

\* restore_exports: records of peers that are not paired are taken out, one
\* after another, and the others exported again.
RestoreExports ==
  LET gone == {p \in Client : grant[p] # NoGrant /\ ~IsPaired(p)}
      kept == {p \in Client : grant[p] # NoGrant /\ IsPaired(p)}
      owned == UNION {grant[p].addresses : p \in kept}
  IN
  /\ ~restored /\ LockFree /\ restored' = TRUE
  /\ exports' = (exports \ UNION {grant[p].addresses : p \in gone}) \cup owned
  /\ grant' = [p \in Client |-> IF p \in gone THEN NoGrant
                                ELSE IF p \in kept THEN [grant[p] EXCEPT !.status = "active"] ELSE grant[p]]
  /\ UNCHANGED <<clients, granting, forgetting, exportsLeft>>

ExportNext ==
  \/ \E p \in Client :
       \/ \E a \in Address : AskForExport(p, a) \/ PeerMoves(p, a)
       \/ \E failed \in SUBSET grant[p].addresses : RevokeForPeer(p, failed) \/ RevokeForForget(p, failed)
       \/ PeerRemoved(p)
  \/ RecordGrant \/ FailGrant \/ ExportClients \/ (\E failed \in SUBSET granting.prior : Retire(failed))
  \/ ForgetClient \/ RestoreExports
  \/ \E machine \in BOOLEAN : RestartExports(machine)

ExportSpec == ExportInit /\ [][ExportNext]_exportVars

-----------------------------------------------------------------------------
\* What one peer loses does not take an export from another: an active record
\* has all its addresses in the table, once the exports are restored.
ActiveIsExported ==
  restored => \A p \in Client : grant[p].status = "active" => grant[p].addresses \subseteq exports

ExportTypes ==
  /\ clients \in [Client -> SUBSET Address]
  /\ grant \in [Client -> [addresses : SUBSET Address, status : {"none", "authorizing", "active", "error"}]]
  /\ granting.pc \in {"idle", "asked", "recorded", "exported"}
  /\ granting.addresses \subseteq Address /\ granting.prior \subseteq Address
  /\ granting.pc # "idle" => granting.client \in Client
  /\ exportsLeft \in [{"requests", "changes", "prepare", "export", "unexport", "crashes"} -> Nat]

\* What lasts, as long as the kernel takes every export: from its exports to
\* its record nobody takes an authorization's addresses out of the table.
ExportInv ==
  /\ ExportTypes /\ exportsLeft["export"] = 0 /\ ActiveIsExported
  /\ granting.pc = "exported" => granting.addresses \subseteq exports

\* Not held by the code when an authorization is cut off or cannot prepare the
\* tree: its record is saved with the new addresses before the old ones are
\* retired, and nobody owns them then.
EveryExportIsOwned == LockFree => \A a \in exports : \E p \in Client : a \in grant[p].addresses

\* Not held by the code: a peer that is not paired has no export.  A removal by
\* gossip revokes none, and an authorization may follow the revocation.
ForgottenHasNoExport ==
  forgetting = NoClient /\ granting.pc = "idle" /\ restored =>
    \A p \in Client : ~IsPaired(p) => grant[p] = NoGrant
=============================================================================
