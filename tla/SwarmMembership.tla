-------------------------- MODULE SwarmMembership --------------------------
(***************************************************************************)
(* One Drone's swarm membership, with every thread that touches it: the    *)
(* pairing handler and the pairing initiator, the operator's Forget, the   *)
(* discovery and tailnet refreshes of a paired row, the membership request *)
(* handler and the health loop's propagation, and a crash of the process.  *)
(*                                                                         *)
(* First the rules of app/transfer/swarm_membership.py and the two writers *)
(* of app/transfer/local_network.py they call, as operators over what one  *)
(* Drone keeps on disk; then the Drone that runs them.  A disk state s is  *)
(*   records    the "swarm_membership" payload: one add or removal per peer*)
(*   clock      the local mint clock of that payload                       *)
(*   departed   its legacy "departed" flag                                 *)
(*   dirty, forwarded   its two generation counters                        *)
(*   rows       the "local_paired_peers" payload                           *)
(*   forgotten  the "tailnet_forgotten_peers" payload                      *)
(*   certs      the local-peer-certs/ directory, one certificate per peer  *)
(* A certificate is its fingerprint, a member of Fp.  In the rules, `self` *)
(* is the Drone and `own` the fingerprint of its own certificate.          *)
(***************************************************************************)
EXTENDS Integers, FiniteSets

CONSTANTS
  Drone,      \* device ids
  Fp,         \* certificate fingerprints
  NoFp,       \* no certificate, or one that cannot be parsed
  MaxEpoch,   \* _MAX_EPOCH: the parse ceiling of an epoch
  Ahead,      \* _MAX_ADD_EPOCH_AHEAD = _MAX_REMOVAL_EPOCH_AHEAD
  FarClock,   \* 5_000_000: above it a clock may be a poisoned one
  LegitCap    \* 10_000_000: no epoch above it is taken as legitimate by _mint

ASSUME EpochAssumption ==
  /\ MaxEpoch \in Nat /\ Ahead \in Nat /\ FarClock \in Nat /\ LegitCap \in Nat
  /\ Ahead < FarClock /\ FarClock < LegitCap /\ LegitCap < MaxEpoch - Ahead

ASSUME FpAssumption == NoFp \notin Fp

Epoch == 0 .. MaxEpoch

\* A card: the claimed fingerprint, the certificate it carries, whether its
\* scheme is https and whether it names a tailnet route.
Card == [fp : Fp \cup {NoFp}, pem : Fp \cup {NoFp}, tls : BOOLEAN, tail : BOOLEAN]

Record == [op : {"add", "remove"}, epoch : Epoch, origin : Drone,
           card : Card, remote : BOOLEAN]

NoRecord == [op |-> "none"]

\* A paired-peer row: the pinned fingerprint, whether the peer must only be
\* dialled over TLS, whether a tailnet route is known, and who paired it.
Row == [fp : Fp, tls : BOOLEAN, tail : BOOLEAN,
        source : {"local_network", "tailnet", "swarm"}]

NoRow == [fp |-> NoFp, tls |-> FALSE, tail |-> FALSE, source |-> "none"]

Paired(row) == row.fp # NoFp

DiskState ==
  [records : [Drone -> Record \cup {NoRecord}], clock : Epoch,
   departed : BOOLEAN, dirty : Nat, forwarded : Nat,
   rows : [Drone -> Row \cup {NoRow}], forgotten : SUBSET Drone,
   certs : [Drone -> Fp \cup {NoFp}]]

-----------------------------------------------------------------------------
(* The mint clock and its two heals of a clock near the parse ceiling.     *)

MaxOf(S) == CHOOSE m \in S \cup {0} : \A e \in S : e <= m

Ceiling == MaxEpoch - Ahead

Epochs(records, P(_)) ==
  {records[p].epoch : p \in {q \in Drone : /\ records[q].op # "none"
                                           /\ records[q].epoch < Ceiling
                                           /\ P(records[q])}}

PoisonedClock(clock, legit) ==
  /\ clock >= Ceiling \/ (clock > FarClock /\ clock > legit + Ahead)
  /\ legit > 0

LoadLegit(records, self) ==
  LET own == MaxOf(Epochs(records, LAMBDA r : r.origin = self))
  IN  IF own > 0 THEN own ELSE MaxOf(Epochs(records, LAMBDA r : r.epoch < FarClock))

LoadedClock(clock, records, self) ==
  LET legit == LoadLegit(records, self)
  IN  IF PoisonedClock(clock, legit) THEN legit ELSE clock

MintLegit(clock, records) ==
  MaxOf(Epochs(records, LAMBDA r : \/ r.epoch < FarClock
                                   \/ r.epoch < clock /\ r.epoch < LegitCap))

AtMostMaxEpoch(n) == IF n > MaxEpoch THEN MaxEpoch ELSE n

MintedClock(clock, records) ==
  LET legit == MintLegit(clock, records)
  IN  AtMostMaxEpoch((IF PoisonedClock(clock, legit) THEN legit ELSE clock) + 1)

\* Mutant: the epoch outbids the tombstone by the whole ahead bound.
ApprovalEpochFarAhead(minted, previous) ==
  IF previous.op = "remove" THEN AtMostMaxEpoch(previous.epoch + Ahead + 1) ELSE minted

\* A re-approval outranks the tombstone it replaces without moving the clock.
ApprovalEpoch(minted, previous) ==
  LET over == IF previous.op = "remove" THEN AtMostMaxEpoch(previous.epoch + 1) ELSE 0
  IN  IF over > minted THEN over ELSE minted

-----------------------------------------------------------------------------
(* The paired-peer rows.                                                   *)

\* _card_from_peer: the row's fingerprint with the certificate on file.
CardFromPeer(row, cert) == [fp |-> row.fp, pem |-> cert, tls |-> row.tls, tail |-> row.tail]

\* save_paired_peer merges into the stored row; a TLS requirement is sticky.
MergedRow(previous, row) == [row EXCEPT !.tls = row.tls \/ previous.tls]

\* forget_peer remembers a peer that a tailnet sweep would pair again.
TailnetRow(row) == Paired(row) /\ (row.source = "tailnet" \/ row.tail)

-----------------------------------------------------------------------------
(* Which gossiped record is applied.                                       *)

Beats(remote, local) ==
  \/ local.op = "none"
  \/ remote.epoch > local.epoch
  \/ remote.epoch = local.epoch /\ remote.op = "remove" /\ local.op = "add"

SelfDepartureBeats(record, subject, introducer, local) ==
  /\ record.op = "remove" /\ subject = introducer /\ record.origin = introducer
  /\ local.op = "add" /\ local.remote

\* Mutant: a removal is judged by its origin field and not by its introducer.
RemovalAllowedByOrigin(record, subject, introducer, local, clock) ==
  /\ \/ record.op = "add" /\ local.op = "none"
     \/ record.epoch <= clock + Ahead
  /\ record.op = "remove" => record.origin = subject

\* Mutant: the ahead bound exempts every record of a new peer.
RemovalAllowedUnbounded(record, subject, introducer, local, clock) ==
  /\ local.op = "none" \/ record.epoch <= clock + Ahead
  /\ record.op = "remove" => record.origin = introducer /\ subject = introducer

RemovalAllowed(record, subject, introducer, local, clock) ==
  /\ \/ record.op = "add" /\ local.op = "none"
     \/ record.epoch <= clock + Ahead
  /\ record.op = "remove" => record.origin = introducer /\ subject = introducer

\* Mutant: the pin of an existing row is not compared.
AddAcceptableUnpinned(record, local, row, clock, own) ==
  /\ local.op # "none" => record.epoch <= clock + Ahead
  /\ record.card.pem \notin {NoFp, own}
  /\ record.card.fp \in {NoFp, record.card.pem}
  /\ record.card.tls \/ ~row.tls

\* The rejection checks of _apply_add.  Those of the scheme and the URLs of the
\* card are left out: without them more is accepted.
AddAcceptable(record, local, row, clock, own) ==
  /\ local.op # "none" => record.epoch <= clock + Ahead
  /\ record.card.pem \notin {NoFp, own}
  /\ record.card.fp \in {NoFp, record.card.pem}
  /\ Paired(row) => row.fp = record.card.pem
  /\ record.card.tls \/ ~row.tls

AddedRow(card, row) ==
  [fp |-> card.pem, tls |-> card.tls \/ row.tls, tail |-> card.tail,
   source |-> IF Paired(row) THEN row.source ELSE "swarm"]

AddedRecord(record, remote) ==
  [record EXCEPT !.card.fp = record.card.pem, !.remote = remote]

-----------------------------------------------------------------------------
(* _load, _reconcile and the three bodies run under the membership lock.   *)

Loaded(s, self) == [s EXCEPT !.clock = LoadedClock(s.clock, s.records, self)]

\* Mutant: forgetting blanks the pin and leaves the rest of the row.
UnpairedInPart(s, P) ==
  [s EXCEPT !.rows = [p \in Drone |-> IF p \in P THEN [s.rows[p] EXCEPT !.fp = NoFp] ELSE s.rows[p]],
            !.forgotten = @ \cup {p \in P : TailnetRow(s.rows[p])}]

\* forget_peer(publish_membership=False) for every peer of P.
Unpaired(s, P) ==
  [s EXCEPT !.rows = [p \in Drone |-> IF p \in P THEN NoRow ELSE s.rows[p]],
            !.forgotten = @ \cup {p \in P : TailnetRow(s.rows[p])}]

\* Mutant: only a departure that gossip brought evicts.
EvictedByDeparture(s, self) ==
  {p \in Drone \ {self} : s.records[p].op = "remove" /\ s.records[p].origin # self /\ Paired(s.rows[p])}

Evicted(s, self) ==
  IF s.departed THEN Drone
  ELSE {p \in Drone \ {self} : s.records[p].op = "remove" /\ Paired(s.rows[p])}

\* Mutant: only members that gossip introduced are restored.
RestoredIfRemote(s, self, own) ==
  {p \in Drone \ {self} : /\ s.records[p].op = "add" /\ s.records[p].remote /\ ~Paired(s.rows[p])
                          /\ AddAcceptable(s.records[p], s.records[p], s.rows[p], s.clock, own)}

Restored(s, self, own) ==
  IF s.departed THEN {}
  ELSE {p \in Drone \ {self} :
          /\ s.records[p].op = "add" /\ ~Paired(s.rows[p])
          /\ AddAcceptable(s.records[p], s.records[p], s.rows[p], s.clock, own)}

\* _apply_add for every peer of P, with the record given for it.
Applied(s, P, record, remote) ==
  [s EXCEPT
     !.records = [p \in Drone |-> IF p \in P THEN AddedRecord(record[p], remote[p]) ELSE s.records[p]],
     !.rows = [p \in Drone |-> IF p \in P THEN AddedRow(record[p].card, s.rows[p]) ELSE s.rows[p]],
     !.certs = [p \in Drone |-> IF p \in P THEN record[p].card.pem ELSE s.certs[p]],
     !.forgotten = @ \ P]

Reconcile(s, self, own) ==
  LET back == Restored(s, self, own)
      t == Unpaired(s, Evicted(s, self))
  IN  Applied(t, back, s.records, [p \in Drone |-> s.records[p].op = "add" /\ s.records[p].remote])

\* record_approved_member: mint, outrank a tombstone, then reconcile.
Approve(s, self, own, peer, card) ==
  LET minted == MintedClock(s.clock, s.records)
      add == [op |-> "add", epoch |-> ApprovalEpoch(minted, s.records[peer]),
              origin |-> self, card |-> card, remote |-> FALSE]
  IN  Reconcile([s EXCEPT !.departed = FALSE, !.clock = minted,
                          !.records[peer] = add, !.dirty = @ + 1], self, own)

\* record_local_removal: reconcile, then mint the tombstone.
LocalRemoval(s, self, own, peer, card) ==
  LET t == Reconcile(s, self, own)
      minted == MintedClock(t.clock, t.records)
      tombstone == [op |-> "remove", epoch |-> minted, origin |-> self,
                    card |-> card, remote |-> FALSE]
  IN  [t EXCEPT !.clock = minted, !.records[peer] = tombstone, !.dirty = @ + 1]

\* The records of a batch (a function from subjects to records) that count.
Winning(s, self, introducer, batch) ==
  {p \in DOMAIN batch \ {self} :
     /\ RemovalAllowed(batch[p], p, introducer, s.records[p], s.clock)
     /\ \/ Beats(batch[p], s.records[p])
        \/ SelfDepartureBeats(batch[p], p, introducer, s.records[p])}

AcceptedRemovals(s, self, introducer, batch) ==
  {p \in Winning(s, self, introducer, batch) : batch[p].op = "remove"}

\* Mutant: a newer add supersedes a tombstone.
AcceptedAddsOverTombstones(s, self, own, introducer, batch) ==
  {p \in Winning(s, self, introducer, batch) :
     batch[p].op = "add" /\ AddAcceptable(batch[p], s.records[p], s.rows[p], s.clock, own)}

AcceptedAdds(s, self, own, introducer, batch) ==
  {p \in Winning(s, self, introducer, batch) :
     /\ batch[p].op = "add" /\ s.records[p].op # "remove"
     /\ AddAcceptable(batch[p], s.records[p], s.rows[p], s.clock, own)}

Changes(s, self, own, introducer, batch) ==
  ~s.departed /\ (\/ AcceptedRemovals(s, self, introducer, batch) # {}
                  \/ AcceptedAdds(s, self, own, introducer, batch) # {})

\* The body of _accept_records, on a state already reconciled.
Accepted(s, self, own, introducer, batch) ==
  LET gone == AcceptedRemovals(s, self, introducer, batch)
      adds == AcceptedAdds(s, self, own, introducer, batch)
      t == [Unpaired(s, {p \in gone : Paired(s.rows[p])}) EXCEPT
              !.records = [p \in Drone |-> IF p \in gone THEN batch[p] ELSE s.records[p]],
              !.certs = [p \in Drone |-> IF p \in gone /\ Paired(s.rows[p]) THEN NoFp ELSE s.certs[p]]]
  IN  IF s.departed THEN s
      ELSE Applied(t, adds, batch, [p \in Drone |-> TRUE])

Accept(s, self, own, introducer, batch) ==
  Accepted(Reconcile(s, self, own), self, own, introducer, batch)

\* _gossip_view: stored records and pre-gossip pairings, without the
\* tombstones of third parties.
GossipView(s, self) ==
  LET legacy == {p \in Drone : /\ ~s.departed /\ s.records[p].op = "none"
                               /\ Paired(s.rows[p]) /\ s.certs[p] # NoFp}
      sent == {p \in Drone : \/ s.records[p].op = "add"
                             \/ s.records[p].op = "remove" /\ p = self /\ s.records[p].origin = self}
  IN  [p \in sent \cup legacy |->
         IF p \in sent THEN [s.records[p] EXCEPT !.remote = FALSE]
         ELSE [op |-> "add", epoch |-> 0, origin |-> self,
               card |-> CardFromPeer(s.rows[p], s.certs[p]), remote |-> FALSE]]

-----------------------------------------------------------------------------
(* One Drone.  The "swarm_membership" payload is only changed under the    *)
(* membership lock (_with_state).  The paired-peer rows are one JSON map   *)
(* that every writer, locked or not, loads, changes and stores back whole: *)
(* each write is a load step, which keeps a snapshot, and a store step.  A *)
(* locked block loads when it takes the lock and stores when it releases   *)
(* it.  Every other Drone is the environment: any batch of WireRecord may  *)
(* arrive from any peer that is paired at that moment.                     *)

CONSTANTS
  Self,         \* this Drone's id
  Own,          \* the fingerprint of its certificate
  Thread,       \* the threads
  Health,       \* the health loop
  Server,       \* the threads that serve requests and run the workers
  Peering,      \* the rows a pairing may establish
  LegacyRow,    \* the rows a release without gossip may have left
  LegacyFlag,   \* the values an earlier release may have left in "departed"
  WireRecord,   \* the records peers may send
  MaxClock,     \* bound: operations that mint stop at this clock
  MaxCrash      \* bound: crashes of the process

ASSUME SelfAssumption == Self \in Drone /\ Own \in Fp
ASSUME InputAssumption ==
  /\ Peering \subseteq Row /\ LegacyRow \subseteq Row /\ LegacyFlag \subseteq BOOLEAN
  /\ WireRecord \subseteq Record /\ \A r \in WireRecord : ~r.remote
ASSUME BoundAssumption == MaxClock \in Nat /\ MaxClock <= FarClock /\ MaxCrash \in Nat

VARIABLES
  db,      \* the disk
  lock,    \* the holder of the membership lock, or NoThread
  thr,     \* what each thread is doing
  crashes  \* how often the process has died

vars == <<db, lock, thr, crashes>>

Peer == Drone \ {Self}

NoThread == "none"
ASSUME ThreadAssumption ==
  /\ NoThread \notin Thread
  /\ Health \in Thread /\ Server \subseteq Thread

NoCard == CardFromPeer(NoRow, NoFp)
Batch == UNION {[P -> WireRecord] : P \in SUBSET Drone}
NoBatch == [p \in {} |-> NoRecord]

\* A thread: where it is, the peer and row (or introducer and batch) it works
\* on, the rows it loaded, and for a pairing who asked for it.  A propagation
\* has the generation it captured, the peers of its round, those it dialled,
\* whether one failed, and the certificate a Forget drops when it ends.
Idle == [pc |-> "idle", peer |-> Self, row |-> NoRow, card |-> NoCard,
         batch |-> NoBatch, snap |-> [p \in Drone |-> NoRow], by |-> "peer",
         captured |-> 0, round |-> {}, dialed |-> {}, failed |-> FALSE, drop |-> {}]

Locked == {"approve", "remove", "accept", "capture", "reply", "mark"}
Unlocked == {"idle", "pin", "load", "save", "refresh", "refreshed", "forget",
             "approving", "removing", "unlink", "accepting", "capturing",
             "exchange", "replying", "marking", "drop"}

ThreadState ==
  [pc : Locked \cup Unlocked, peer : Drone, row : Row \cup {NoRow}, card : Card,
   batch : Batch, snap : [Drone -> Row \cup {NoRow}],
   by : {"peer", "operator", "sweep"},
   captured : Nat, round : SUBSET Drone, dialed : SUBSET Drone, failed : BOOLEAN, drop : SUBSET Drone]

Pc(t) == thr[t].pc
Goto(t, pc) == thr' = [thr EXCEPT ![t].pc = pc]
Done(t) == thr' = [thr EXCEPT ![t] = Idle]

Init ==
  /\ \E rows \in [Drone -> LegacyRow \cup {NoRow}], departed \in LegacyFlag :
       /\ rows[Self] = NoRow
       /\ db = [records |-> [p \in Drone |-> NoRecord], clock |-> 0,
                departed |-> departed, dirty |-> 0, forwarded |-> 0,
                rows |-> rows, forgotten |-> {}, certs |-> [p \in Drone |-> rows[p].fp]]
  /\ lock = NoThread
  /\ thr = [t \in Thread |-> Idle]
  /\ crashes = 0

-----------------------------------------------------------------------------
(* The membership lock.                                                    *)

\* _with_state up to its first read of the rows.
Enter(t, from, to) ==
  /\ Pc(t) = from /\ lock = NoThread
  /\ lock' = t
  /\ thr' = [thr EXCEPT ![t].pc = to, ![t].snap = db.rows]
  /\ UNCHANGED db

\* What the block under the lock of thread t reads.
Read(t) == Loaded([db EXCEPT !.rows = thr[t].snap], Self)

\* Its store: the map of rows is written back only if it was changed.
Commit(t, s) ==
  /\ db' = IF s.rows = thr[t].snap THEN [s EXCEPT !.rows = db.rows] ELSE s
  /\ lock' = NoThread

CanMint == db.clock < MaxClock

-----------------------------------------------------------------------------
(* Pairing.  The checks, the certificate file, the row and the approval    *)
(* are separate steps.                                                     *)

Begin(t, pc, p, row, by) ==
  thr' = [thr EXCEPT ![t] = [Idle EXCEPT !.pc = pc, !.peer = p, !.row = row, !.by = by]]

\* propagate_membership from its first line, skipping the peers of `skip`; a
\* Forget unlinks the certificates of `drop` once more when it returns.
Propagate(t, skip, drop) ==
  thr' = [thr EXCEPT ![t] = [Idle EXCEPT !.pc = "capturing", !.dialed = skip, !.drop = drop]]

Propagated(t) ==
  thr' = [thr EXCEPT ![t] = IF thr[t].drop = {} THEN Idle ELSE [Idle EXCEPT !.pc = "drop", !.drop = thr[t].drop]]

Pins(p) == {db.rows[p].fp, db.certs[p]} \ {NoFp}

\* _handle_peer_pair up to the certificate: the tailnet alone never re-pins,
\* and TLS is never given up.
PairReceived(t, p, row) ==
  /\ Pc(t) = "idle" /\ row.fp # Own /\ row.source # "swarm"
  /\ db.rows[p].tls => row.tls
  /\ row.source = "tailnet" /\ Pins(p) # {} => row.fp \in Pins(p)
  /\ Begin(t, "pin", p, row, "peer")
  /\ UNCHANGED <<db, lock>>

\* _local_pair_peer up to the certificate: a pinned peer must answer with its
\* pin.  The operator asks for it, or a tailnet sweep that leaves a forgotten
\* peer alone.
PairInitiated(t, p, row, by) ==
  /\ Pc(t) = "idle" /\ row.source # "swarm"
  /\ Paired(db.rows[p]) => row.fp = db.rows[p].fp
  /\ db.rows[p].tls => row.tls
  /\ by = "sweep" => row.source = "tailnet" /\ (Paired(db.rows[p]) \/ p \notin db.forgotten)
  /\ Begin(t, "pin", p, row, by)
  /\ UNCHANGED <<db, lock>>

SaveCertificate(t) ==
  /\ Pc(t) = "pin"
  /\ db' = [db EXCEPT !.certs[thr[t].peer] = thr[t].row.fp]
  /\ Goto(t, "load")
  /\ UNCHANGED lock

LoadRows(t, from, to) ==
  /\ Pc(t) = from
  /\ thr' = [thr EXCEPT ![t].pc = to, ![t].snap = db.rows]
  /\ UNCHANGED <<db, lock>>

\* save_paired_peer's write, for a row of any origin.
RowsSaved(t, row) ==
  db' = [db EXCEPT !.rows = [thr[t].snap EXCEPT ![thr[t].peer] = row],
                   !.forgotten = @ \ {thr[t].peer}]

SavePairedPeer(t) ==
  LET row == MergedRow(thr[t].snap[thr[t].peer], thr[t].row)
  IN  /\ Pc(t) = "save"
      /\ RowsSaved(t, row)
      /\ thr' = [thr EXCEPT ![t].pc = "approving", ![t].row = row,
                            ![t].card = CardFromPeer(row, db.certs[thr[t].peer])]
      /\ UNCHANGED lock

ApproveMember(t) ==
  /\ Pc(t) = "approve" /\ CanMint
  /\ Commit(t, Approve(Read(t), Self, Own, thr[t].peer, thr[t].card))
  /\ IF thr[t].by = "peer" THEN Done(t) ELSE Propagate(t, {}, {})

-----------------------------------------------------------------------------
(* Refreshes of a paired row.                                              *)

\* record_discovered_peer takes a copy of the row of an announced peer.
Announced(t, p) ==
  /\ Pc(t) = "idle" /\ Paired(db.rows[p])
  /\ Begin(t, "refresh", p, db.rows[p], "peer")
  /\ UNCHANGED <<db, lock>>

\* _sync_tailnet_device has authenticated a paired peer on its tailnet route.
TailnetProbed(t, p) ==
  /\ Pc(t) = "idle" /\ Paired(db.rows[p])
  /\ Begin(t, "refresh", p, [db.rows[p] EXCEPT !.tail = TRUE], "sweep")
  /\ UNCHANGED <<db, lock>>

RefreshPairedPeer(t) ==
  /\ Pc(t) = "refreshed"
  /\ RowsSaved(t, MergedRow(thr[t].snap[thr[t].peer], thr[t].row))
  /\ Done(t)
  /\ UNCHANGED lock

-----------------------------------------------------------------------------
(* The operator's Forget: publish_forget.                                  *)

ForgetRequested(t, p) ==
  /\ Pc(t) = "idle"
  /\ thr' = [thr EXCEPT ![t] = [Idle EXCEPT !.pc = "forget", !.peer = p, !.snap = db.rows]]
  /\ UNCHANGED <<db, lock>>

\* forget_peer's write; a peer that was not paired only loses its certificate.
ForgetPeer(t) ==
  LET p == thr[t].peer
      previous == thr[t].snap[p]
  IN  /\ Pc(t) = "forget"
      /\ db' = [db EXCEPT !.rows = [thr[t].snap EXCEPT ![p] = NoRow],
                          !.forgotten = IF TailnetRow(previous) THEN @ \cup {p} ELSE @,
                          !.certs[p] = IF Paired(previous) THEN @ ELSE NoFp]
      /\ IF Paired(previous)
         THEN thr' = [thr EXCEPT ![t].pc = "removing",
                                 ![t].card = CardFromPeer(previous, db.certs[p])]
         ELSE Done(t)
      /\ UNCHANGED lock

RecordLocalRemoval(t) ==
  /\ Pc(t) = "remove" /\ CanMint
  /\ Commit(t, LocalRemoval(Read(t), Self, Own, thr[t].peer, thr[t].card))
  /\ Goto(t, "unlink")

UnlinkCertificate(t) ==
  /\ Pc(t) = "unlink"
  /\ db' = [db EXCEPT !.certs[thr[t].peer] = NoFp]
  /\ Propagate(t, {thr[t].peer}, {thr[t].peer})
  /\ UNCHANGED lock

\* The handler's own unlink, after the propagation.
DropCertificate(t) ==
  /\ Pc(t) = "drop"
  /\ db' = [db EXCEPT !.certs = [p \in Drone |-> IF p \in thr[t].drop THEN NoFp ELSE db.certs[p]]]
  /\ Done(t)
  /\ UNCHANGED lock

-----------------------------------------------------------------------------
(* Requests of paired peers, and the propagation of this Drone's own view. *)

\* handle_membership_request: an authenticated paired caller and its records.
RequestReceived(t, p, batch) ==
  /\ Pc(t) = "idle" /\ Paired(db.rows[p])
  /\ thr' = [thr EXCEPT ![t] = [Idle EXCEPT !.pc = "accepting", !.peer = p, !.batch = batch]]
  /\ UNCHANGED <<db, lock>>

\* A changed or dirty Drone forwards, unless the request is at its last hop.
AcceptRequest(t, lastHop) ==
  LET s == Reconcile(Read(t), Self, Own)
      news == \/ Changes(s, Self, Own, thr[t].peer, thr[t].batch)
              \/ s.dirty # s.forwarded
  IN  /\ Pc(t) = "accept"
      /\ Commit(t, Accepted(s, Self, Own, thr[t].peer, thr[t].batch))
      /\ IF news /\ ~lastHop
         THEN Propagate(t, {thr[t].peer}, {})
         ELSE Done(t)

\* The health loop, every interval.
Sweep(t) ==
  /\ Pc(t) = "idle"
  /\ Propagate(t, {}, {})
  /\ UNCHANGED <<db, lock>>

\* propagate_membership: _departed and _dirty_gen, which both reconcile.
Capture(t) ==
  LET s == Reconcile(Read(t), Self, Own)
  IN  /\ Pc(t) = "capture"
      /\ Commit(t, s)
      /\ IF s.departed THEN Propagated(t)
         ELSE thr' = [thr EXCEPT ![t] = [Idle EXCEPT !.pc = "exchange", !.captured = s.dirty,
                                                        !.dialed = thr[t].dialed, !.drop = thr[t].drop]]

\* Whoever was paired when the round began is dialled, paired or not by now.
ToDial(t) == thr[t].round \ thr[t].dialed

ReplyReceived(t, p, batch) ==
  /\ Pc(t) = "exchange" /\ p \in ToDial(t) /\ Paired(db.rows[p])
  /\ thr' = [thr EXCEPT ![t].pc = "replying", ![t].peer = p, ![t].batch = batch,
                        ![t].dialed = @ \cup {p}]
  /\ UNCHANGED <<db, lock>>

AcceptReply(t) ==
  /\ Pc(t) = "reply"
  /\ Commit(t, Accept(Read(t), Self, Own, thr[t].peer, thr[t].batch))
  /\ thr' = [thr EXCEPT ![t] = [Idle EXCEPT !.pc = "exchange", !.captured = thr[t].captured, !.round = thr[t].round,
                                            !.dialed = thr[t].dialed, !.failed = thr[t].failed, !.drop = thr[t].drop]]

\* No answer, a refusal, "removed", or a reply of a peer that is no longer
\* paired.
ExchangeFailed(t, p) ==
  /\ Pc(t) = "exchange" /\ p \in ToDial(t)
  /\ thr' = [thr EXCEPT ![t].failed = TRUE, ![t].dialed = @ \cup {p}]
  /\ UNCHANGED <<db, lock>>

\* A round is over: the next one is of the peers paired since.  That there are
\* four at most is left out.
ExchangesDone(t) ==
  LET next == {p \in Peer : Paired(db.rows[p])} \ thr[t].dialed
  IN  /\ Pc(t) = "exchange" /\ ToDial(t) = {}
      /\ \/ next # {} /\ thr' = [thr EXCEPT ![t].round = next]
         \/ next = {} /\ IF thr[t].failed THEN Propagated(t) ELSE Goto(t, "marking")
      /\ UNCHANGED <<db, lock>>

MarkForwarded(t) ==
  LET s == Reconcile(Read(t), Self, Own)
  IN  /\ Pc(t) = "mark"
      /\ Commit(t, IF s.dirty = thr[t].captured THEN [s EXCEPT !.forwarded = thr[t].captured] ELSE s)
      /\ Propagated(t)

-----------------------------------------------------------------------------
\* What the block of thread t is about to store.
Due(t) ==
  LET s == Read(t)
      r == Reconcile(s, Self, Own)
  IN  CASE Pc(t) = "approve" -> Approve(s, Self, Own, thr[t].peer, thr[t].card)
        [] Pc(t) = "remove" -> LocalRemoval(s, Self, Own, thr[t].peer, thr[t].card)
        [] Pc(t) \in {"accept", "reply"} -> Accepted(r, Self, Own, thr[t].peer, thr[t].batch)
        [] OTHER -> r

\* Its peers are stored one after the other and the payload after them all: the
\* certificate of a peer that is added comes before its row, that of one that
\* is removed after it.
StoredInPart(t) ==
  LET s == Due(t)
      rows == {p \in Drone : s.rows[p] # thr[t].snap[p]}
      certs == {p \in Drone : s.certs[p] # db.certs[p]}
  IN  /\ Pc(t) \in Locked /\ (Pc(t) \in {"approve", "remove"} => CanMint)
      /\ \E R \in SUBSET rows, C \in SUBSET certs :
           /\ \A p \in rows \cap certs : (p \in R) # (p \in C) =>
                /\ p \in C <=> Paired(s.rows[p])
                /\ \A q \in (rows \cap certs) \ {p} : q \in R <=> q \in C
           /\ db' = [db EXCEPT !.rows = [p \in Drone |-> IF p \in R THEN s.rows[p] ELSE db.rows[p]],
                              !.forgotten = (@ \ R) \cup (s.forgotten \cap R),
                              !.certs = [p \in Drone |-> IF p \in C THEN s.certs[p] ELSE db.certs[p]]]

\* The process dies, in the middle of a block or not: the disk stays, every
\* thread is gone.
Crash ==
  /\ crashes < MaxCrash /\ crashes' = crashes + 1
  /\ thr' = [t \in Thread |-> Idle]
  /\ lock' = NoThread
  /\ UNCHANGED db \/ \E t \in Thread : StoredInPart(t)

\* An operation that has begun goes on by itself.
Continue(t) ==
  \/ SaveCertificate(t) \/ LoadRows(t, "load", "save") \/ SavePairedPeer(t)
  \/ Enter(t, "approving", "approve") \/ ApproveMember(t)
  \/ LoadRows(t, "refresh", "refreshed") \/ RefreshPairedPeer(t)
  \/ ForgetPeer(t) \/ Enter(t, "removing", "remove") \/ RecordLocalRemoval(t)
  \/ UnlinkCertificate(t) \/ DropCertificate(t)
  \/ Enter(t, "accepting", "accept") \/ \E lastHop \in BOOLEAN : AcceptRequest(t, lastHop)
  \/ Enter(t, "capturing", "capture") \/ Capture(t)
  \/ Enter(t, "replying", "reply") \/ AcceptReply(t)
  \/ ExchangesDone(t) \/ Enter(t, "marking", "mark") \/ MarkForwarded(t)

Exchange(t) ==
  \E p \in Peer : \/ ExchangeFailed(t, p)
                  \/ \E q \in Drone, r \in WireRecord : ReplyReceived(t, p, [x \in {q} |-> r])

\* The threads whose operation will still mint, for the bound on the clock.
Minting == {t \in Thread : Pc(t) \in {"pin", "load", "save", "approving", "approve",
                                      "forget", "removing", "remove"}}

RequestServed(t) ==
  \E p \in Peer :
    \/ /\ db.clock + Cardinality(Minting) < MaxClock
       /\ \/ ForgetRequested(t, p)
          \/ \E row \in Peering : \/ PairReceived(t, p, row)
                                \/ \E by \in {"operator", "sweep"} : PairInitiated(t, p, row, by)
    \/ Announced(t, p) \/ TailnetProbed(t, p)
    \/ \E q \in Drone, r \in WireRecord : RequestReceived(t, p, [x \in {q} |-> r])

Next ==
  \/ /\ \/ \E t \in Thread : Continue(t) \/ Exchange(t)
        \/ Sweep(Health)
        \/ \E t \in Server : RequestServed(t)
     /\ UNCHANGED crashes
  \/ Crash

Spec == Init /\ [][Next]_vars

\* Threads run, requests time out, the lock is granted in the end, and the
\* health loop comes round again.  The enabling conditions are spelt out:
\* strong fairness of Continue and of the sweep, weak fairness of Exchange.
CanContinue(t) ==
  CASE Pc(t) \in {"approving", "removing", "accepting", "capturing", "replying", "marking"} -> lock = NoThread
    [] Pc(t) = "exchange" -> ToDial(t) = {}
    [] OTHER -> Pc(t) # "idle"

Runs(t) ==
  /\ []<>CanContinue(t) => []<><<Continue(t)>>_vars
  /\ <>[](Pc(t) = "exchange" /\ ~CanContinue(t)) => []<><<Exchange(t)>>_vars

FairSpec ==
  /\ Spec
  /\ []<>(Pc(Health) = "idle") => []<><<Sweep(Health)>>_vars
  /\ \A t \in Thread : Runs(t)

-----------------------------------------------------------------------------
(* Properties.                                                             *)

TypeOK ==
  /\ db \in DiskState
  /\ lock \in Thread \cup {NoThread}
  /\ thr \in [Thread -> ThreadState]
  /\ crashes \in 0 .. MaxCrash

\* Once this Drone holds a tombstone for a peer, no gossip, whoever sends it
\* and whatever its epoch, restores that peer: only the approval at the end of
\* a pairing supersedes it (the `continue` of _accept_records).
TombstoneHolds ==
  [][\A p \in Drone :
       db.records[p].op = "remove" /\ db'.records[p].op # "remove" =>
         \E t \in Thread : Pc(t) = "approve" /\ thr[t].peer = p]_vars

\* A member never disappears from the records: it is removed by this Drone's
\* operator or by a record that names the paired peer it came from.
RemovalIsAuthorized ==
  [][\A p \in Drone :
       db.records[p].op # "remove" /\ db'.records[p].op = "remove" =>
         \E t \in Thread :
           /\ thr[t].peer = p
           /\ Pc(t) = "remove" \/ (Pc(t) \in {"accept", "reply"} /\ thr[t].batch[p].origin = p)]_vars

\* Gossip never moves the mint clock, so no sequence of received epochs can
\* ratchet it to the ceiling (#669): it only ticks with a local mint.
ClockTicksOnlyByMint ==
  [][db'.clock # db.clock => db'.clock = db.clock + 1 /\ db'.dirty = db.dirty + 1]_vars

\* What this Drone approved or removed itself stays within the ahead bound of
\* its own clock, so that a peer no further behind accepts it (#636).
MintedWithinReach ==
  \A p \in Drone :
    db.records[p].op # "none" /\ ~db.records[p].remote => db.records[p].epoch <= db.clock + Ahead

\* A pin is replaced by another one only by a pairing of that very peer; any
\* gossip, refresh or reconciliation leaves it (README.md, _apply_add).
PinMovesOnlyByPairing ==
  [][\A p \in Drone :
       Paired(db.rows[p]) /\ Paired(db'.rows[p]) /\ db.rows[p].fp # db'.rows[p].fp =>
         \E t \in Thread : Pc(t) = "save" /\ thr[t].peer = p /\ thr[t].row.fp = db'.rows[p].fp]_vars

\* A peer that was removed leaves the paired rows, however many stale writers
\* of the row map bring it back (_reconcile).
RemovedPeerLeaves ==
  \A p \in Peer : (db.records[p].op = "remove" /\ Paired(db.rows[p]))
                     ~> (db.records[p].op # "remove" \/ ~Paired(db.rows[p]))

\* A member whose row a stale writer dropped gets it back (_reconcile).
MissingRow(p) ==
  /\ ~db.departed /\ db.records[p].op = "add" /\ ~Paired(db.rows[p])
  /\ AddAcceptable(db.records[p], db.records[p], db.rows[p], db.clock, Own)

MemberReturns == \A p \in Peer : MissingRow(p) ~> ~MissingRow(p)

-----------------------------------------------------------------------------
(* What the documents and tests say and two of these threads, or two steps *)
(* of one, undo.                                                           *)

PinKept(p) == Paired(db.rows[p]) /\ Paired(db'.rows[p]) => db'.rows[p].fp = db.rows[p].fp

\* "Gossip never replaces a fingerprint that is already pinned" (README.md:107):
\* TLC refutes it within MCSwarmMembershipThreads.cfg's bounds, so no run has it.
GossipKeepsPins ==
  [][\A t \in Thread : AcceptReply(t) \/ (\E lastHop \in BOOLEAN : AcceptRequest(t, lastHop)) =>
       \A p \in DOMAIN thr[t].batch : PinKept(p) \/ db'.rows[p].fp # thr[t].batch[p].card.pem]_vars

\* "forgetting tailnet peer suppresses automatic repair until restored"
\* (tests/test_unit.py:444): a tailnet sweep does not approve a peer that was
\* forgotten while its row had a tailnet route.
ForgottenStaysForgotten ==
  [][\A t \in Thread : ApproveMember(t) /\ thr[t].by = "sweep" =>
       LET r == db.records[thr[t].peer] IN r.op = "remove" => ~r.card.tail]_vars
=============================================================================
