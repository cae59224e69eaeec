---------------------- MODULE SwarmMembership_proofs ----------------------
(* Proofs about SwarmMembership, for every set of Drones and threads and   *)
(* every bound.                                                            *)
EXTENDS SwarmMembership, TLAPS

\* Card, row and record updates keep their types.
LEMMA AddedRowType ==
  ASSUME NEW card \in Card, card.pem \in Fp, NEW row \in Row \cup {NoRow}
  PROVE  AddedRow(card, row) \in Row
BY FpAssumption DEF AddedRow, Card, Row, NoRow, Paired

LEMMA AddedRecordType ==
  ASSUME NEW r \in Record, r.card.pem \in Fp, NEW remote \in BOOLEAN
  PROVE  /\ AddedRecord(r, remote) \in Record
         /\ AddedRecord(r, remote).op = r.op
         /\ AddedRecord(r, remote).epoch = r.epoch
         /\ AddedRecord(r, remote).remote = remote
BY DEF AddedRecord, Record, Card

LEMMA CardType ==
  ASSUME NEW row \in Row \cup {NoRow}, NEW cert \in Fp \cup {NoFp}
  PROVE  CardFromPeer(row, cert) \in Card
<1>1. CASE row \in Row
  BY <1>1 DEF CardFromPeer, Card, Row
<1>2. CASE row = NoRow
  BY <1>2 DEF CardFromPeer, Card, NoRow
<1> QED BY <1>1, <1>2

\* A clock below the poisoning threshold is never healed.
LEMMA HealthyClock ==
  ASSUME NEW s, NEW self, s.clock \in Nat, s.clock <= FarClock
  PROVE  /\ LoadedClock(s.clock, s.records, self) = s.clock
         /\ MintedClock(s.clock, s.records) = s.clock + 1
<1>1. ASSUME NEW legit PROVE ~PoisonedClock(s.clock, legit)
  BY EpochAssumption DEF PoisonedClock, Ceiling
<1>2. s.clock + 1 <= MaxEpoch
  BY EpochAssumption
<1>3. LoadedClock(s.clock, s.records, self) = s.clock
  BY <1>1 DEF LoadedClock
<1>4. MintedClock(s.clock, s.records) = AtMostMaxEpoch(s.clock + 1)
  BY <1>1 DEF MintedClock
<1>5. AtMostMaxEpoch(s.clock + 1) = s.clock + 1
  BY <1>2, EpochAssumption DEF AtMostMaxEpoch
<1> QED BY <1>3, <1>4, <1>5

\* forget_peer keeps the types and touches nothing but the rows and marks.
LEMMA UnpairedType ==
  ASSUME NEW s \in DiskState, NEW P \in SUBSET Drone
  PROVE  /\ Unpaired(s, P) \in DiskState
         /\ \A p \in Drone : Unpaired(s, P).rows[p] = IF p \in P THEN NoRow ELSE s.rows[p]
         /\ Unpaired(s, P).records = s.records /\ Unpaired(s, P).clock = s.clock
         /\ Unpaired(s, P).departed = s.departed /\ Unpaired(s, P).dirty = s.dirty
         /\ Unpaired(s, P).forwarded = s.forwarded /\ Unpaired(s, P).certs = s.certs
<1> DEFINE rows == [p \in Drone |-> IF p \in P THEN NoRow ELSE s.rows[p]]
           forgotten == s.forgotten \cup {p \in P : TailnetRow(s.rows[p])}
<1>1. rows \in [Drone -> Row \cup {NoRow}]
  BY DEF DiskState
<1>2. forgotten \in SUBSET Drone
  BY DEF DiskState
<1>3. Unpaired(s, P) = [s EXCEPT !.rows = rows, !.forgotten = forgotten]
  BY DEF Unpaired
<1> HIDE DEF rows, forgotten
<1>4. \A p \in Drone : rows[p] = IF p \in P THEN NoRow ELSE s.rows[p]
  BY DEF rows
<1> QED BY <1>1, <1>2, <1>3, <1>4 DEF DiskState
\* _apply_add for a set of peers.
LEMMA AppliedType ==
  ASSUME NEW s \in DiskState, NEW P \in SUBSET Drone, NEW record, NEW remote,
         \A p \in P : record[p] \in Record /\ record[p].card.pem \in Fp /\ remote[p] \in BOOLEAN
  PROVE  /\ Applied(s, P, record, remote) \in DiskState
         /\ Applied(s, P, record, remote).clock = s.clock
         /\ Applied(s, P, record, remote).dirty = s.dirty
         /\ \A p \in Drone : Applied(s, P, record, remote).records[p] =
              IF p \in P THEN AddedRecord(record[p], remote[p]) ELSE s.records[p]
<1> DEFINE records == [p \in Drone |-> IF p \in P THEN AddedRecord(record[p], remote[p]) ELSE s.records[p]]
           rows == [p \in Drone |-> IF p \in P THEN AddedRow(record[p].card, s.rows[p]) ELSE s.rows[p]]
           certs == [p \in Drone |-> IF p \in P THEN record[p].card.pem ELSE s.certs[p]]
<1>1. records \in [Drone -> Record \cup {NoRecord}]
  BY AddedRecordType DEF DiskState
<1>2. rows \in [Drone -> Row \cup {NoRow}]
  <2>1. \A p \in P : record[p].card \in Card
    BY DEF Record
  <2>2. \A p \in Drone : s.rows[p] \in Row \cup {NoRow}
    BY DEF DiskState
  <2>3. \A p \in P : AddedRow(record[p].card, s.rows[p]) \in Row
    BY <2>1, <2>2, AddedRowType
  <2> QED BY <2>2, <2>3
<1>3. certs \in [Drone -> Fp \cup {NoFp}]
  BY DEF DiskState
<1>4. Applied(s, P, record, remote) = [s EXCEPT !.records = records, !.rows = rows,
                                         !.certs = certs, !.forgotten = @ \ P]
  BY DEF Applied
<1>5. \A p \in Drone : records[p] = IF p \in P THEN AddedRecord(record[p], remote[p]) ELSE s.records[p]
  OBVIOUS
<1> HIDE DEF records, rows, certs
<1> QED BY <1>1, <1>2, <1>3, <1>4, <1>5 DEF DiskState

\* It pins what the cards of these peers carry, and leaves every other row.
LEMMA AppliedRows ==
  ASSUME NEW s \in DiskState, NEW P \in SUBSET Drone, NEW record, NEW remote
  PROVE  \A p \in Drone : IF p \in P THEN Applied(s, P, record, remote).rows[p].fp = record[p].card.pem
                           ELSE Applied(s, P, record, remote).rows[p] = s.rows[p]
<1> DEFINE rows == [p \in Drone |-> IF p \in P THEN AddedRow(record[p].card, s.rows[p]) ELSE s.rows[p]]
<1>1. Applied(s, P, record, remote).rows = rows
  BY DEF Applied, DiskState
<1>2. \A p \in Drone : IF p \in P THEN rows[p].fp = record[p].card.pem ELSE rows[p] = s.rows[p]
  BY DEF AddedRow
<1> QED BY <1>1, <1>2

-----------------------------------------------------------------------------
(* The invariant of the disk: its type, the bound on the clock, and the two *)
(* facts about epochs that MintedWithinReach needs.  A tombstone is never   *)
(* remote, so an approval that outranks it stays in reach as well.          *)
DiskInv(s) ==
  /\ s \in DiskState
  /\ s.clock <= MaxClock
  /\ \A p \in Drone :
       /\ s.records[p].op # "none" /\ ~s.records[p].remote => s.records[p].epoch <= s.clock + Ahead
       /\ s.records[p].op = "remove" => ~s.records[p].remote

\* Two payloads that agree on everything a merge compares.
SameRecords(a, b) ==
  \A p \in Drone :
    /\ b[p].op = a[p].op
    /\ a[p].op # "none" => b[p].epoch = a[p].epoch /\ b[p].remote = a[p].remote

\* The records of the disk after a reconciliation are the ones before it, but
\* for the fingerprint a card claims.
LEMMA ReconcileDisk ==
  ASSUME NEW s, DiskInv(s)
  PROVE  LET u == Reconcile(s, Self, Own)
         IN  /\ DiskInv(u)
             /\ u.clock = s.clock /\ u.dirty = s.dirty
             /\ SameRecords(s.records, u.records)
             /\ u.departed = s.departed
             /\ \A p \in Drone : Paired(s.rows[p]) =>
                  \/ u.rows[p] = s.rows[p]
                  \/ u.rows[p] = NoRow /\ (s.departed \/ s.records[p].op = "remove")
<1> DEFINE back == Restored(s, Self, Own)
           gone == Evicted(s, Self)
           t == Unpaired(s, gone)
           remote == [p \in Drone |-> s.records[p].op = "add" /\ s.records[p].remote]
           u == Applied(t, back, s.records, remote)
<1>1. Reconcile(s, Self, Own) = u
  BY DEF Reconcile
<1>2. s \in DiskState
  BY DEF DiskInv
<1>3. back \in SUBSET Drone /\ gone \in SUBSET Drone
  BY DEF Restored, Evicted
<1>4. /\ t \in DiskState /\ t.records = s.records /\ t.clock = s.clock /\ t.dirty = s.dirty
      /\ t.departed = s.departed
      /\ \A p \in Drone : t.rows[p] = IF p \in gone THEN NoRow ELSE s.rows[p]
  BY <1>2, <1>3, UnpairedType
<1>5. \A p \in back : /\ s.records[p] \in Record /\ s.records[p].card.pem \in Fp
                      /\ s.records[p].op = "add" /\ ~Paired(s.rows[p])
                      /\ remote[p] \in BOOLEAN /\ remote[p] = s.records[p].remote
  <2> TAKE p \in back
  <2>1. s.records[p].op = "add" /\ s.records[p].card.pem # NoFp /\ p \in Drone /\ ~Paired(s.rows[p])
    BY DEF Restored, AddAcceptable
  <2>2. s.records[p] \in Record
    BY <1>2, <2>1 DEF DiskState, NoRecord
  <2> QED BY <2>1, <2>2 DEF Record, Card
<1>5a. \A p \in gone : s.departed \/ s.records[p].op = "remove"
  BY DEF Evicted
<1> HIDE DEF back, gone, t, remote
<1>6. /\ u \in DiskState /\ u.clock = t.clock /\ u.dirty = t.dirty
      /\ \A p \in Drone : u.records[p] =
           IF p \in back THEN AddedRecord(s.records[p], remote[p]) ELSE t.records[p]
  <2>1. \A p \in back : /\ s.records[p] \in Record /\ s.records[p].card.pem \in Fp
                        /\ remote[p] \in BOOLEAN
    BY <1>5
  <2>2. t \in DiskState
    BY <1>4
  <2> QED BY <1>3, <2>1, <2>2, AppliedType
<1>6a. u.departed = t.departed /\ \A p \in Drone : p \notin back => u.rows[p] = t.rows[p]
  <2>1. /\ u.departed = t.departed
        /\ \A p \in Drone : IF p \in back THEN u.rows[p].fp = s.records[p].card.pem
                             ELSE u.rows[p] = t.rows[p]
    <3>1. t \in DiskState /\ back \in SUBSET Drone
      BY <1>3, <1>4
    <3>2. u.departed = t.departed
      BY <3>1 DEF Applied, DiskState
    <3>3. ASSUME NEW p \in Drone PROVE IF p \in back THEN u.rows[p].fp = s.records[p].card.pem
                             ELSE u.rows[p] = t.rows[p]
      BY <3>1, <3>3, AppliedRows
    <3> QED BY <3>2, <3>3
  <2> QED BY <2>1
<1> HIDE DEF u
<1>7. SameRecords(s.records, u.records)
  <2> SUFFICES ASSUME NEW p \in Drone
               PROVE  /\ u.records[p].op = s.records[p].op
                      /\ u.records[p].epoch = s.records[p].epoch \/ s.records[p].op = "none"
                      /\ u.records[p].remote = s.records[p].remote \/ s.records[p].op = "none"
    BY DEF SameRecords
  <2>1. CASE p \in back
    <3>1. /\ s.records[p] \in Record /\ s.records[p].card.pem \in Fp
          /\ remote[p] \in BOOLEAN /\ remote[p] = s.records[p].remote
      BY <1>5, <2>1
    <3>2. u.records[p] = AddedRecord(s.records[p], remote[p])
      BY <1>6, <2>1
    <3> QED BY <3>1, <3>2, AddedRecordType
  <2>2. CASE p \notin back
    BY <1>4, <1>6, <2>2
  <2> QED BY <2>1, <2>2
<1>8. ASSUME NEW p \in Drone, Paired(s.rows[p])
      PROVE  \/ u.rows[p] = s.rows[p]
             \/ u.rows[p] = NoRow /\ (s.departed \/ s.records[p].op = "remove")
  BY <1>4, <1>5, <1>5a, <1>6a, <1>8
<1>9. DiskInv(u) /\ u.clock = s.clock /\ u.dirty = s.dirty /\ u.departed = s.departed
  BY <1>4, <1>6, <1>6a, <1>7 DEF DiskInv, SameRecords
<1> QED BY <1>1, <1>7, <1>8, <1>9

\* Merging a batch of gossip: the clock stays, and so does every tombstone.
LEMMA AcceptedDisk ==
  ASSUME NEW s, DiskInv(s), NEW introducer, NEW batch \in Batch
  PROVE  /\ DiskInv(Accepted(s, Self, Own, introducer, batch))
         /\ Accepted(s, Self, Own, introducer, batch).clock = s.clock
         /\ Accepted(s, Self, Own, introducer, batch).dirty = s.dirty
         /\ \A p \in Drone : s.records[p].op = "remove" =>
              Accepted(s, Self, Own, introducer, batch).records[p].op = "remove"
         /\ \A p \in Drone :
              s.records[p].op # "remove" /\ Accepted(s, Self, Own, introducer, batch).records[p].op = "remove"
                => p = introducer /\ batch[p].origin = introducer
         /\ s.departed => Accepted(s, Self, Own, introducer, batch) = s
         /\ \A p \in Drone :
              LET row == Accepted(s, Self, Own, introducer, batch).rows[p]
              IN  \/ row \in {s.rows[p], NoRow}
                  \/ s.records[p].op # "remove" /\ (Paired(s.rows[p]) => row.fp = s.rows[p].fp)
<1> DEFINE gone == AcceptedRemovals(s, Self, introducer, batch)
           adds == AcceptedAdds(s, Self, Own, introducer, batch)
           left == {p \in gone : Paired(s.rows[p])}
           v == Unpaired(s, left)
           records == [p \in Drone |-> IF p \in gone THEN batch[p] ELSE s.records[p]]
           certs == [p \in Drone |-> IF p \in gone /\ Paired(s.rows[p]) THEN NoFp ELSE s.certs[p]]
           t == [v EXCEPT !.records = records, !.certs = certs]
           remote == [p \in Drone |-> TRUE]
           u == Applied(t, adds, batch, remote)
<1>1. Accepted(s, Self, Own, introducer, batch) = IF s.departed THEN s ELSE u
  BY DEF Accepted
<1>2. s \in DiskState
  BY DEF DiskInv
<1>3. DOMAIN batch \subseteq Drone /\ \A p \in DOMAIN batch : batch[p] \in WireRecord
  BY DEF Batch
<1>4. \A p \in gone : /\ p \in Drone /\ batch[p] \in Record /\ batch[p].op = "remove"
                      /\ ~batch[p].remote /\ batch[p].epoch <= s.clock + Ahead
                      /\ p = introducer /\ batch[p].origin = introducer
  BY <1>3, InputAssumption DEF AcceptedRemovals, Winning, RemovalAllowed
<1>5. \A p \in adds : /\ p \in Drone /\ batch[p] \in Record /\ batch[p].op = "add"
                      /\ batch[p].card.pem \in Fp /\ s.records[p].op # "remove"
                      /\ Paired(s.rows[p]) => s.rows[p].fp = batch[p].card.pem
  BY <1>3, InputAssumption DEF AcceptedAdds, Winning, AddAcceptable, Record, Card
<1> HIDE DEF gone, adds
<1>6. /\ v \in DiskState /\ v.clock = s.clock /\ v.dirty = s.dirty
      /\ \A p \in Drone : v.rows[p] \in {s.rows[p], NoRow}
  <2>1. left \in SUBSET Drone
    BY <1>4
  <2> QED BY <1>2, <2>1, UnpairedType
<1>7. /\ records \in [Drone -> Record \cup {NoRecord}]
      /\ certs \in [Drone -> Fp \cup {NoFp}]
  BY <1>2, <1>4 DEF DiskState
<1> HIDE DEF v
<1>8. /\ t \in DiskState /\ t.clock = s.clock /\ t.dirty = s.dirty
      /\ \A p \in Drone : t.records[p] = IF p \in gone THEN batch[p] ELSE s.records[p]
      /\ t.rows = v.rows
  <2>1. \A p \in Drone : records[p] = IF p \in gone THEN batch[p] ELSE s.records[p]
    OBVIOUS
  <2> HIDE DEF records, certs
  <2> QED BY <1>6, <1>7, <2>1 DEF DiskState
<1>9. \A p \in adds : batch[p] \in Record /\ batch[p].card.pem \in Fp /\ remote[p] \in BOOLEAN
  BY <1>5
<1>10. adds \in SUBSET Drone
  BY <1>5
<1>11. \A p \in adds : remote[p] = TRUE
  BY <1>5
<1> HIDE DEF t, remote
<1>12. /\ u \in DiskState /\ u.clock = t.clock /\ u.dirty = t.dirty
       /\ \A p \in Drone : u.records[p] =
            IF p \in adds THEN AddedRecord(batch[p], remote[p]) ELSE t.records[p]
  BY <1>8, <1>9, <1>10, AppliedType
<1>12a. \A p \in Drone : IF p \in adds THEN u.rows[p].fp = batch[p].card.pem
                          ELSE u.rows[p] = t.rows[p]
  <2>1. t \in DiskState /\ adds \in SUBSET Drone
    BY <1>8, <1>10
  <2>2. ASSUME NEW p \in Drone PROVE IF p \in adds THEN u.rows[p].fp = batch[p].card.pem
                          ELSE u.rows[p] = t.rows[p]
    BY <2>1, <2>2, AppliedRows
  <2> QED BY <2>2
<1> HIDE DEF u
<1>13. ASSUME NEW p \in Drone
       PROVE  /\ u.records[p].op # "none" /\ ~u.records[p].remote =>
                   u.records[p].epoch <= u.clock + Ahead
              /\ u.records[p].op = "remove" => ~u.records[p].remote
              /\ s.records[p].op = "remove" => u.records[p].op = "remove"
              /\ s.records[p].op # "remove" /\ u.records[p].op = "remove"
                   => p = introducer /\ batch[p].origin = introducer
  <2>1. CASE p \in adds
    <3>1. u.records[p] = AddedRecord(batch[p], TRUE)
      BY <1>11, <1>12, <2>1
    <3>2. batch[p] \in Record /\ batch[p].op = "add" /\ batch[p].card.pem \in Fp
      BY <1>5, <2>1
    <3>3. /\ AddedRecord(batch[p], TRUE).op = batch[p].op
          /\ AddedRecord(batch[p], TRUE).remote = TRUE
      BY <3>2, AddedRecordType
    <3>4. u.records[p].op = "add" /\ u.records[p].remote = TRUE
      BY <3>1, <3>2, <3>3
    <3> QED BY <1>5, <2>1, <3>4
  <2>2. CASE p \in gone /\ p \notin adds
    <3>1. u.records[p] = batch[p]
      BY <1>8, <1>12, <2>2
    <3> QED BY <1>4, <1>8, <1>12, <2>2, <3>1
  <2>3. CASE p \notin gone /\ p \notin adds
    <3>1. u.records[p] = s.records[p]
      BY <1>8, <1>12, <2>3
    <3> QED BY <1>8, <1>12, <3>1 DEF DiskInv
  <2> QED BY <2>1, <2>2, <2>3
<1>14. DiskInv(u) /\ u.clock = s.clock /\ u.dirty = s.dirty
  BY <1>8, <1>12, <1>13 DEF DiskInv
<1>15. ASSUME NEW p \in Drone
       PROVE  \/ u.rows[p] \in {s.rows[p], NoRow}
              \/ s.records[p].op # "remove" /\ (Paired(s.rows[p]) => u.rows[p].fp = s.rows[p].fp)
  <2>1. CASE p \in adds
    BY <1>5, <1>12a, <2>1
  <2>2. CASE p \notin adds
    BY <1>6, <1>8, <1>12a, <2>2
  <2> QED BY <2>1, <2>2
<1> QED BY <1>1, <1>13, <1>14, <1>15

\* What an approval of `peer` makes of s, before it reconciles.
ApprovedIn(s, t, peer) ==
  /\ t.clock = s.clock + 1 /\ t.dirty = s.dirty + 1
  /\ \A p \in Drone \ {peer} : t.records[p].op = s.records[p].op
  /\ t.records[peer].op = "add"

\* An approval and a removal tick the clock once and touch one record.  An
\* approval reconciles what it has minted.
LEMMA ApproveReconciles ==
  ASSUME NEW s, DiskInv(s), s.clock < MaxClock, NEW peer \in Drone, NEW card \in Card
  PROVE  \E t : /\ Approve(s, Self, Own, peer, card) = Reconcile(t, Self, Own)
               /\ DiskInv(t) /\ t.rows = s.rows /\ ApprovedIn(s, t, peer)
<1> DEFINE minted == MintedClock(s.clock, s.records)
           epoch == ApprovalEpoch(minted, s.records[peer])
           add == [op |-> "add", epoch |-> epoch, origin |-> Self, card |-> card, remote |-> FALSE]
           t == [s EXCEPT !.departed = FALSE, !.clock = minted, !.records[peer] = add, !.dirty = @ + 1]
<1>1. Approve(s, Self, Own, peer, card) = Reconcile(t, Self, Own)
  BY DEF Approve
<1>2. s \in DiskState /\ s.clock \in Nat /\ s.clock <= FarClock
  BY EpochAssumption, BoundAssumption DEF DiskInv, DiskState, Epoch
<1>3. minted = s.clock + 1
  BY <1>2, HealthyClock
<1> HIDE DEF minted
<1>4. epoch \in 0 .. MaxEpoch /\ epoch <= minted + Ahead
  <2>1. CASE s.records[peer].op = "remove"
    <3>1. s.records[peer] \in Record
      BY <1>2, <2>1 DEF DiskState, NoRecord
    <3>2. s.records[peer].epoch \in Nat /\ s.records[peer].epoch <= s.clock + Ahead
      BY <2>1, <3>1, EpochAssumption DEF DiskInv, Record, Epoch
    <3> QED BY <1>2, <1>3, <2>1, <3>2, EpochAssumption, BoundAssumption
            DEF ApprovalEpoch, AtMostMaxEpoch
  <2>2. CASE s.records[peer].op # "remove"
    BY <1>2, <1>3, <2>2, EpochAssumption, BoundAssumption DEF ApprovalEpoch, AtMostMaxEpoch
  <2> QED BY <2>1, <2>2
<1> HIDE DEF epoch
<1>5. add \in Record
  BY <1>4, SelfAssumption DEF Record, Epoch
<1>6. /\ t \in DiskState /\ t.clock = s.clock + 1 /\ t.dirty = s.dirty + 1 /\ t.rows = s.rows
      /\ \A p \in Drone : t.records[p] = IF p = peer THEN add ELSE s.records[p]
  <2>1. minted \in Epoch
    BY <1>2, <1>3, EpochAssumption, BoundAssumption DEF Epoch
  <2> DEFINE records == [s.records EXCEPT ![peer] = add]
  <2> HIDE DEF add
  <2>2. t = [s EXCEPT !.departed = FALSE, !.clock = minted, !.records = records, !.dirty = @ + 1]
    OBVIOUS
  <2>3. /\ records \in [Drone -> Record \cup {NoRecord}]
        /\ \A p \in Drone : records[p] = IF p = peer THEN add ELSE s.records[p]
    BY <1>2, <1>5 DEF DiskState
  <2>4. s.dirty + 1 \in Nat
    BY <1>2 DEF DiskState
  <2> HIDE DEF t, records
  <2>5. t \in DiskState
    BY <1>2, <2>1, <2>2, <2>3, <2>4 DEF DiskState
  <2>6. t.clock = minted /\ t.dirty = s.dirty + 1 /\ t.records = records /\ t.rows = s.rows
    BY <1>2, <2>2 DEF DiskState
  <2> QED BY <1>3, <2>3, <2>5, <2>6
<1>7. add.op = "add" /\ add.epoch = epoch /\ add.remote = FALSE
  OBVIOUS
<1> HIDE DEF add, t
<1>8. DiskInv(t)
  <2>1. t.clock <= MaxClock
    BY <1>2, <1>6, BoundAssumption
  <2>2. ASSUME NEW p \in Drone
        PROVE  /\ t.records[p].op # "none" /\ ~t.records[p].remote =>
                    t.records[p].epoch <= t.clock + Ahead
               /\ t.records[p].op = "remove" => ~t.records[p].remote
    <3>1. CASE p = peer
      BY <1>3, <1>4, <1>6, <1>7, <3>1
    <3>2. CASE p # peer /\ s.records[p].op # "none"
      <4>1. s.records[p] \in Record
        BY <1>2, <3>2 DEF DiskState, NoRecord
      <4>2. s.records[p].epoch \in Nat
        BY <4>1, EpochAssumption DEF Record, Epoch
      <4> QED BY <1>2, <1>6, <3>2, <4>2, EpochAssumption DEF DiskInv
    <3>3. CASE p # peer /\ s.records[p].op = "none"
      BY <1>6, <3>3
    <3> QED BY <3>1, <3>2, <3>3
  <2> QED BY <1>6, <2>1, <2>2 DEF DiskInv
<1>9. \A p \in Drone \ {peer} : t.records[p].op = s.records[p].op
  BY <1>6
<1>10. t.records[peer].op = "add"
  BY <1>6, <1>7
<1>11. ApprovedIn(s, t, peer)
  BY <1>6, <1>9, <1>10 DEF ApprovedIn
<1> WITNESS t
<1> QED BY <1>1, <1>6, <1>8, <1>11

LEMMA ApproveDisk ==
  ASSUME NEW s, DiskInv(s), s.clock < MaxClock, NEW peer \in Drone, NEW card \in Card
  PROVE  LET u == Approve(s, Self, Own, peer, card)
         IN  /\ DiskInv(u)
             /\ u.clock = s.clock + 1 /\ u.dirty = s.dirty + 1
             /\ \A p \in Drone \ {peer} : u.records[p].op = s.records[p].op
             /\ u.records[peer].op = "add"
<1>1. PICK t : /\ Approve(s, Self, Own, peer, card) = Reconcile(t, Self, Own)
               /\ DiskInv(t) /\ ApprovedIn(s, t, peer)
  BY ApproveReconciles
<1> DEFINE u == Reconcile(t, Self, Own)
<1>2. /\ DiskInv(u) /\ u.clock = t.clock /\ u.dirty = t.dirty
      /\ \A p \in Drone : u.records[p].op = t.records[p].op
  BY <1>1, ReconcileDisk DEF SameRecords
<1> HIDE DEF u
<1>3. Approve(s, Self, Own, peer, card) = u
  BY <1>1 DEF u
<1> QED BY <1>1, <1>2, <1>3 DEF ApprovedIn

LEMMA LocalRemovalDisk ==
  ASSUME NEW s, DiskInv(s), s.clock < MaxClock, NEW peer \in Drone, NEW card \in Card
  PROVE  LET u == LocalRemoval(s, Self, Own, peer, card)
         IN  /\ DiskInv(u)
             /\ u.clock = s.clock + 1 /\ u.dirty = s.dirty + 1
             /\ \A p \in Drone : s.records[p].op = "remove" => u.records[p].op = "remove"
             /\ \A p \in Drone \ {peer} : u.records[p].op = s.records[p].op
<1> DEFINE t == Reconcile(s, Self, Own)
           minted == MintedClock(t.clock, t.records)
           tombstone == [op |-> "remove", epoch |-> minted, origin |-> Self, card |-> card, remote |-> FALSE]
           u == [t EXCEPT !.clock = minted, !.records[peer] = tombstone, !.dirty = @ + 1]
<1>1. LocalRemoval(s, Self, Own, peer, card) = u
  BY DEF LocalRemoval
<1>2. /\ DiskInv(t) /\ t.clock = s.clock /\ t.dirty = s.dirty
      /\ \A p \in Drone : t.records[p].op = s.records[p].op
  BY ReconcileDisk DEF SameRecords
<1> HIDE DEF t
<1>3. t \in DiskState /\ t.clock \in Nat /\ t.clock < MaxClock /\ t.clock <= FarClock
  BY <1>2, EpochAssumption, BoundAssumption DEF DiskInv, DiskState, Epoch
<1>4. minted = t.clock + 1
  BY <1>3, HealthyClock
<1>5. minted \in Epoch
  BY <1>3, <1>4, EpochAssumption, BoundAssumption DEF Epoch
<1> HIDE DEF minted
<1>6. tombstone \in Record
  BY <1>5, SelfAssumption DEF Record
<1>7. tombstone.op = "remove" /\ tombstone.epoch = minted /\ tombstone.remote = FALSE
  OBVIOUS
<1> HIDE DEF tombstone
<1>8. /\ u \in DiskState /\ u.clock = t.clock + 1 /\ u.dirty = t.dirty + 1
      /\ \A p \in Drone : u.records[p] = IF p = peer THEN tombstone ELSE t.records[p]
  <2> DEFINE records == [t.records EXCEPT ![peer] = tombstone]
  <2>1. u = [t EXCEPT !.clock = minted, !.records = records, !.dirty = @ + 1]
    OBVIOUS
  <2>2. /\ records \in [Drone -> Record \cup {NoRecord}]
        /\ \A p \in Drone : records[p] = IF p = peer THEN tombstone ELSE t.records[p]
    BY <1>3, <1>6 DEF DiskState
  <2>3. t.dirty + 1 \in Nat
    BY <1>3 DEF DiskState
  <2> HIDE DEF u, records
  <2>4. u \in DiskState
    BY <1>3, <1>5, <2>1, <2>2, <2>3 DEF DiskState
  <2>5. u.clock = minted /\ u.dirty = t.dirty + 1 /\ u.records = records
    BY <1>3, <2>1 DEF DiskState
  <2> QED BY <1>4, <2>2, <2>4, <2>5
<1> HIDE DEF u
<1>9. ASSUME NEW p \in Drone
      PROVE  /\ u.records[p].op # "none" /\ ~u.records[p].remote =>
                  u.records[p].epoch <= u.clock + Ahead
             /\ u.records[p].op = "remove" => ~u.records[p].remote
  <2>1. CASE p = peer
    BY <1>3, <1>4, <1>7, <1>8, <2>1, EpochAssumption
  <2>2. CASE p # peer /\ t.records[p].op # "none"
    <3>1. t.records[p] \in Record
      BY <1>3, <2>2 DEF DiskState, NoRecord
    <3>2. t.records[p].epoch \in Nat
      BY <3>1, EpochAssumption DEF Record, Epoch
    <3> QED BY <1>2, <1>3, <1>8, <2>2, <3>2, EpochAssumption DEF DiskInv
  <2>3. CASE p # peer /\ t.records[p].op = "none"
    BY <1>8, <2>3
  <2> QED BY <2>1, <2>2, <2>3
<1>10. DiskInv(u)
  BY <1>3, <1>8, <1>9, BoundAssumption DEF DiskInv
<1> QED BY <1>1, <1>2, <1>7, <1>8, <1>10

-----------------------------------------------------------------------------
(* The inductive invariant.  A thread that will write a row holds one.     *)
ThreadsInv ==
  /\ thr \in [Thread -> ThreadState]
  /\ \A t \in Thread :
       Pc(t) \in {"pin", "load", "save", "refresh", "refreshed"} => thr[t].row \in Row

IInv ==
  /\ DiskInv(db)
  /\ lock \in Thread \cup {NoThread}
  /\ ThreadsInv
  /\ crashes \in 0 .. MaxCrash

\* What a step may do to the payload: the clock ticks with the generation, and
\* a tombstone is only superseded by a thread that approves that peer.
ClockStep == db'.clock # db.clock => db'.clock = db.clock + 1 /\ db'.dirty = db.dirty + 1

TombstoneStep ==
  \A p \in Drone : db.records[p].op = "remove" /\ db'.records[p].op # "remove" =>
    \E t \in Thread : Pc(t) = "approve" /\ thr[t].peer = p

\* A tombstone comes from the removal by this Drone or from that very peer.
Authorizes(t, p) ==
  /\ thr[t].peer = p
  /\ Pc(t) = "remove" \/ (Pc(t) \in {"accept", "reply"} /\ thr[t].batch[p].origin = p)
AuthorizedStep ==
  \A p \in Drone : db.records[p].op # "remove" /\ db'.records[p].op = "remove" =>
    \E t \in Thread : Authorizes(t, p)

DiskStep == DiskInv(db') /\ ClockStep /\ TombstoneStep /\ AuthorizedStep

\* The load of a locked block reads the payload as it is on disk.
LEMMA ReadDisk ==
  ASSUME IInv, NEW t \in Thread
  PROVE  /\ DiskInv(Read(t))
         /\ Read(t).clock = db.clock /\ Read(t).dirty = db.dirty
         /\ Read(t).records = db.records
<1> DEFINE snap == thr[t].snap
           s == [db EXCEPT !.rows = snap]
<1>1. db \in DiskState /\ db.clock \in Nat /\ db.clock <= FarClock
  BY EpochAssumption, BoundAssumption DEF IInv, DiskInv, DiskState, Epoch
<1>2. snap \in [Drone -> Row \cup {NoRow}]
  BY DEF IInv, ThreadsInv, ThreadState
<1>3. LoadedClock(db.clock, db.records, Self) = db.clock
  BY <1>1, HealthyClock
<1> HIDE DEF snap
<1>4. /\ s \in DiskState /\ s.clock = db.clock /\ s.dirty = db.dirty /\ s.records = db.records
  BY <1>1, <1>2 DEF DiskState
<1>5. Read(t) = [s EXCEPT !.clock = db.clock]
  BY <1>3, <1>4 DEF Read, Loaded, snap
<1> HIDE DEF s
<1>6. Read(t) = s
  BY <1>4, <1>5 DEF DiskState
<1> QED BY <1>4, <1>6 DEF IInv, DiskInv

\* The store of a locked block.
LEMMA CommitDisk ==
  ASSUME db \in DiskState, NEW s, DiskInv(s), NEW t, Commit(t, s)
  PROVE  /\ DiskInv(db')
         /\ db'.clock = s.clock /\ db'.dirty = s.dirty /\ db'.records = s.records
         /\ lock' = NoThread
<1> DEFINE u == [s EXCEPT !.rows = db.rows]
<1>1. s \in DiskState
  BY DEF DiskInv
<1>2. db.rows \in [Drone -> Row \cup {NoRow}]
  BY DEF DiskState
<1>3. u \in DiskState /\ u.clock = s.clock /\ u.dirty = s.dirty /\ u.records = s.records
  BY <1>1, <1>2 DEF DiskState
<1> HIDE DEF u
<1>4. DiskInv(u)
  BY <1>3 DEF DiskInv
<1>5. db' = u \/ db' = s
  BY DEF Commit, u
<1> QED BY <1>3, <1>4, <1>5 DEF Commit

\* An unlocked write changes the rows, the marks and the certificates.
LEMMA RowsWritten ==
  ASSUME IInv, NEW rows \in [Drone -> Row \cup {NoRow}], NEW forgotten \in SUBSET Drone,
         NEW certs \in [Drone -> Fp \cup {NoFp}],
         db' = [db EXCEPT !.rows = rows, !.forgotten = forgotten, !.certs = certs]
  PROVE  DiskStep
<1>1. db \in DiskState
  BY DEF IInv, DiskInv
<1>2. /\ db' \in DiskState /\ db'.clock = db.clock /\ db'.dirty = db.dirty
      /\ db'.records = db.records
  BY <1>1 DEF DiskState
<1> QED BY <1>2 DEF DiskStep, ClockStep, TombstoneStep, AuthorizedStep, IInv, DiskInv

LEMMA DiskUnchanged == ASSUME IInv, UNCHANGED db PROVE DiskStep
BY DEF DiskStep, ClockStep, TombstoneStep, AuthorizedStep, IInv

\* What a locked block is about to store is a disk that it may store.
LEMMA DueDisk ==
  ASSUME IInv, NEW t \in Thread, Pc(t) \in {"approve", "remove"} => CanMint
  PROVE  DiskInv(Due(t))
<1> DEFINE r == Reconcile(Read(t), Self, Own)
<1>1. thr[t].peer \in Drone /\ thr[t].card \in Card /\ thr[t].batch \in Batch
  BY DEF IInv, ThreadsInv, ThreadState
<1>2. DiskInv(Read(t)) /\ Read(t).clock = db.clock
  BY ReadDisk
<1>3. DiskInv(r)
  BY <1>2, ReconcileDisk
<1> HIDE DEF r
<1>4. CASE Pc(t) = "approve"
  <2>1. Due(t) = Approve(Read(t), Self, Own, thr[t].peer, thr[t].card)
    BY <1>4 DEF Due
  <2> QED BY <1>1, <1>2, <1>4, <2>1, ApproveDisk DEF CanMint
<1>5. CASE Pc(t) = "remove"
  <2>1. Due(t) = LocalRemoval(Read(t), Self, Own, thr[t].peer, thr[t].card)
    BY <1>5 DEF Due
  <2> QED BY <1>1, <1>2, <1>5, <2>1, LocalRemovalDisk DEF CanMint
<1>6. CASE Pc(t) \in {"accept", "reply"}
  <2>1. Due(t) = Accepted(r, Self, Own, thr[t].peer, thr[t].batch)
    BY <1>6 DEF Due, r
  <2> QED BY <1>1, <1>3, <2>1, AcceptedDisk
<1>7. CASE Pc(t) \notin {"approve", "remove", "accept", "reply"}
  <2>1. Due(t) = r
    BY <1>7 DEF Due, r
  <2> QED BY <1>3, <2>1
<1> QED BY <1>4, <1>5, <1>6, <1>7

\* A block that is cut off leaves the payload.
LEMMA StoredInPartStep ==
  ASSUME IInv, NEW t \in Thread, StoredInPart(t)
  PROVE  /\ DiskStep
         /\ \A p \in Drone : db'.rows[p] \in {db.rows[p], Due(t).rows[p]}
<1> DEFINE s == Due(t)
<1>1. s \in DiskState /\ db \in DiskState
  BY DueDisk DEF StoredInPart, IInv, DiskInv
<1>2. PICK R \in SUBSET Drone, C \in SUBSET Drone :
        db' = [db EXCEPT !.rows = [p \in Drone |-> IF p \in R THEN s.rows[p] ELSE db.rows[p]],
                         !.forgotten = (db.forgotten \ R) \cup (s.forgotten \cap R),
                         !.certs = [p \in Drone |-> IF p \in C THEN s.certs[p] ELSE db.certs[p]]]
  <2> DEFINE rows == {p \in Drone : s.rows[p] # thr[t].snap[p]}
             certs == {p \in Drone : s.certs[p] # db.certs[p]}
  <2>1. PICK R \in SUBSET rows, C \in SUBSET certs :
        db' = [db EXCEPT !.rows = [p \in Drone |-> IF p \in R THEN s.rows[p] ELSE db.rows[p]],
                         !.forgotten = (db.forgotten \ R) \cup (s.forgotten \cap R),
                         !.certs = [p \in Drone |-> IF p \in C THEN s.certs[p] ELSE db.certs[p]]]
    BY Zenon DEF StoredInPart
  <2>2. R \in SUBSET Drone /\ C \in SUBSET Drone
    OBVIOUS
  <2> HIDE DEF s, rows, certs
  <2> QED BY <2>1, <2>2
<1> HIDE DEF s
<1> DEFINE rows == [p \in Drone |-> IF p \in R THEN s.rows[p] ELSE db.rows[p]]
           forgotten == (db.forgotten \ R) \cup (s.forgotten \cap R)
           certs == [p \in Drone |-> IF p \in C THEN s.certs[p] ELSE db.certs[p]]
<1>3. /\ rows \in [Drone -> Row \cup {NoRow}] /\ forgotten \in SUBSET Drone
      /\ certs \in [Drone -> Fp \cup {NoFp}]
      /\ \A p \in Drone : rows[p] \in {db.rows[p], s.rows[p]}
  BY <1>1 DEF DiskState
<1>4. db' = [db EXCEPT !.rows = rows, !.forgotten = forgotten, !.certs = certs]
  BY <1>2
<1> HIDE DEF rows, forgotten, certs
<1>5. DiskStep
  BY <1>3, <1>4, RowsWritten
<1>6. db'.rows = rows
  BY <1>1, <1>4 DEF DiskState
<1> QED BY <1>3, <1>5, <1>6 DEF s

\* A locked block that neither mints nor approves.
LEMMA Committed ==
  ASSUME IInv, NEW t \in Thread, NEW s, DiskInv(s), Commit(t, s),
         s.clock = db.clock,
         \A p \in Drone : db.records[p].op = "remove" => s.records[p].op = "remove",
         \A p \in Drone : db.records[p].op # "remove" /\ s.records[p].op = "remove" => Authorizes(t, p)
  PROVE  DiskStep /\ lock' \in Thread \cup {NoThread}
<1>1. db \in DiskState
  BY DEF IInv, DiskInv
<1> QED BY <1>1, CommitDisk DEF DiskStep, ClockStep, TombstoneStep, AuthorizedStep

-----------------------------------------------------------------------------
(* Every step changes the disk as DiskStep allows.                         *)

LEMMA ApproveStep ==
  ASSUME IInv, NEW t \in Thread, ApproveMember(t)
  PROVE  DiskStep /\ lock' \in Thread \cup {NoThread}
<1> DEFINE peer == thr[t].peer
           card == thr[t].card
           u == Approve(Read(t), Self, Own, peer, card)
<1>1. db \in DiskState /\ peer \in Drone /\ card \in Card
  BY DEF IInv, DiskInv, ThreadsInv, ThreadState
<1>2. /\ DiskInv(Read(t)) /\ Read(t).clock < MaxClock
      /\ Read(t).clock = db.clock /\ Read(t).dirty = db.dirty /\ Read(t).records = db.records
  BY ReadDisk DEF ApproveMember, CanMint
<1>3. Pc(t) = "approve" /\ thr[t].peer = peer
  BY DEF ApproveMember
<1>4. Commit(t, u)
  BY DEF ApproveMember
<1> HIDE DEF peer, card
<1>5. /\ DiskInv(u) /\ u.clock = db.clock + 1 /\ u.dirty = db.dirty + 1
      /\ \A p \in Drone \ {peer} : u.records[p].op = db.records[p].op
      /\ u.records[peer].op = "add"
  BY <1>1, <1>2, ApproveDisk
<1> HIDE DEF u
<1>6. /\ DiskInv(db') /\ db'.clock = u.clock /\ db'.dirty = u.dirty /\ db'.records = u.records
      /\ lock' = NoThread
  BY <1>1, <1>4, <1>5, CommitDisk
<1> QED BY <1>3, <1>5, <1>6 DEF DiskStep, ClockStep, TombstoneStep, AuthorizedStep

LEMMA RemovalStep ==
  ASSUME IInv, NEW t \in Thread, RecordLocalRemoval(t)
  PROVE  DiskStep /\ lock' \in Thread \cup {NoThread}
<1> DEFINE peer == thr[t].peer
           card == thr[t].card
           u == LocalRemoval(Read(t), Self, Own, peer, card)
<1>1. db \in DiskState /\ peer \in Drone /\ card \in Card
  BY DEF IInv, DiskInv, ThreadsInv, ThreadState
<1>2. /\ DiskInv(Read(t)) /\ Read(t).clock < MaxClock
      /\ Read(t).clock = db.clock /\ Read(t).dirty = db.dirty /\ Read(t).records = db.records
  BY ReadDisk DEF RecordLocalRemoval, CanMint
<1>3. Commit(t, u) /\ Authorizes(t, peer)
  BY DEF RecordLocalRemoval, Authorizes
<1> HIDE DEF peer, card
<1>4. /\ DiskInv(u) /\ u.clock = db.clock + 1 /\ u.dirty = db.dirty + 1
      /\ \A p \in Drone : db.records[p].op = "remove" => u.records[p].op = "remove"
      /\ \A p \in Drone \ {peer} : u.records[p].op = db.records[p].op
  BY <1>1, <1>2, LocalRemovalDisk
<1> HIDE DEF u
<1>5. /\ DiskInv(db') /\ db'.clock = u.clock /\ db'.dirty = u.dirty /\ db'.records = u.records
      /\ lock' = NoThread
  BY <1>1, <1>3, <1>4, CommitDisk
<1> QED BY <1>3, <1>4, <1>5 DEF DiskStep, ClockStep, TombstoneStep, AuthorizedStep

LEMMA AcceptStep ==
  ASSUME IInv, NEW t \in Thread, Pc(t) \in {"accept", "reply"},
         Commit(t, Accept(Read(t), Self, Own, thr[t].peer, thr[t].batch))
  PROVE  DiskStep /\ lock' \in Thread \cup {NoThread}
<1> DEFINE s == Reconcile(Read(t), Self, Own)
           u == Accepted(s, Self, Own, thr[t].peer, thr[t].batch)
<1>1. thr[t].batch \in Batch
  BY DEF IInv, ThreadsInv, ThreadState
<1>2. DiskInv(Read(t)) /\ Read(t).clock = db.clock /\ Read(t).records = db.records
  BY ReadDisk
<1>3. DiskInv(s) /\ s.clock = db.clock /\ SameRecords(db.records, s.records)
  BY <1>2, ReconcileDisk
<1> HIDE DEF s
<1>4. /\ DiskInv(u) /\ u.clock = s.clock
      /\ \A p \in Drone : s.records[p].op = "remove" => u.records[p].op = "remove"
      /\ \A p \in Drone : s.records[p].op # "remove" /\ u.records[p].op = "remove" =>
           p = thr[t].peer /\ thr[t].batch[p].origin = thr[t].peer
  BY <1>1, <1>3, AcceptedDisk
<1>5. Commit(t, u)
  BY DEF Accept, s
<1> HIDE DEF u
<1>6. \A p \in Drone : db.records[p].op # "remove" /\ u.records[p].op = "remove" => Authorizes(t, p)
  BY <1>3, <1>4 DEF SameRecords, Authorizes
<1> QED BY <1>3, <1>4, <1>5, <1>6, Committed DEF SameRecords

LEMMA ReconciledStep ==
  ASSUME IInv, NEW t \in Thread, NEW s,
         s = Reconcile(Read(t), Self, Own)
  PROVE  /\ DiskInv(s) /\ s.clock = db.clock
         /\ \A p \in Drone : s.records[p].op = db.records[p].op
BY ReadDisk, ReconcileDisk DEF SameRecords

-----------------------------------------------------------------------------
(* Every step keeps the threads well-formed.                               *)

LEMMA ThreadMoves ==
  ASSUME ThreadsInv, NEW t \in Thread, NEW x \in ThreadState,
         x.pc \in {"pin", "load", "save", "refresh", "refreshed"} => x.row \in Row,
         thr' = [thr EXCEPT ![t] = x]
  PROVE  ThreadsInv'
BY DEF ThreadsInv, Pc

LEMMA ThreadType ==
  ASSUME ThreadsInv, NEW t \in Thread
  PROVE  thr[t] \in ThreadState
BY DEF ThreadsInv

LEMMA IdleType == Idle \in ThreadState /\ Idle.pc = "idle"
<1>1. NoCard \in Card
  BY CardType DEF NoCard
<1>2. NoBatch \in Batch
  <2>1. NoBatch \in [{} -> WireRecord]
    BY DEF NoBatch
  <2> QED BY <2>1 DEF Batch
<1>3. [p \in Drone |-> NoRow] \in [Drone -> Row \cup {NoRow}]
  OBVIOUS
<1>4. Self \in Drone
  BY SelfAssumption
<1> DEFINE rows == [p \in Drone |-> NoRow]
<1> HIDE DEF rows
<1> QED BY <1>1, <1>2, <1>3, <1>4 DEF Idle, ThreadState, Unlocked, rows

LEMMA OneRecordBatch ==
  ASSUME NEW q \in Drone, NEW r \in WireRecord
  PROVE  [x \in {q} |-> r] \in Batch
<1>1. [x \in {q} |-> r] \in [{q} -> WireRecord]
  OBVIOUS
<1> QED BY <1>1 DEF Batch

LEMMA GotoType ==
  ASSUME ThreadsInv, NEW t \in Thread, NEW pc \in Locked \cup Unlocked,
         pc \in {"pin", "load", "save", "refresh", "refreshed"} =>
           Pc(t) \in {"pin", "load", "save", "refresh", "refreshed"},
         Goto(t, pc)
  PROVE  ThreadsInv'
<1> DEFINE y == thr[t]
           x == [y EXCEPT !.pc = pc]
<1>1. y \in ThreadState
  BY ThreadType
<1>2. thr' = [thr EXCEPT ![t] = x]
  BY DEF Goto
<1>3. y.pc \in {"pin", "load", "save", "refresh", "refreshed"} => y.row \in Row
  BY DEF ThreadsInv, Pc
<1>4. y.pc = Pc(t)
  BY DEF Pc
<1> HIDE DEF y
<1>5. x \in ThreadState /\ x.pc = pc /\ x.row = y.row
  BY <1>1 DEF ThreadState
<1> QED BY <1>2, <1>3, <1>4, <1>5, ThreadMoves

LEMMA LoadType ==
  ASSUME IInv, NEW t \in Thread, NEW pc \in Locked \cup Unlocked,
         pc \in {"pin", "load", "save", "refresh", "refreshed"} =>
           Pc(t) \in {"pin", "load", "save", "refresh", "refreshed"},
         thr' = [thr EXCEPT ![t].pc = pc, ![t].snap = db.rows]
  PROVE  ThreadsInv'
<1> DEFINE y == thr[t]
           rows == db.rows
           x == [y EXCEPT !.pc = pc, !.snap = rows]
<1>1. y \in ThreadState /\ rows \in [Drone -> Row \cup {NoRow}]
  BY ThreadType DEF IInv, DiskInv, DiskState
<1>2. thr' = [thr EXCEPT ![t] = x]
  BY DEF IInv, ThreadsInv
<1>3. y.pc \in {"pin", "load", "save", "refresh", "refreshed"} => y.row \in Row
  BY DEF IInv, ThreadsInv, Pc
<1>4. y.pc = Pc(t)
  BY DEF Pc
<1> HIDE DEF y, rows
<1>5. x \in ThreadState /\ x.pc = pc /\ x.row = y.row
  BY <1>1 DEF ThreadState
<1> QED BY <1>2, <1>3, <1>4, <1>5, ThreadMoves DEF IInv

LEMMA DoneType ==
  ASSUME ThreadsInv, NEW t \in Thread, Done(t)
  PROVE  ThreadsInv'
BY IdleType, ThreadMoves DEF Done

LEMMA BeginType ==
  ASSUME ThreadsInv, NEW t \in Thread, NEW pc \in {"pin", "refresh"}, NEW p \in Drone,
         NEW row \in Row, NEW by \in {"peer", "operator", "sweep"}, Begin(t, pc, p, row, by)
  PROVE  ThreadsInv'
<1> DEFINE x == [Idle EXCEPT !.pc = pc, !.peer = p, !.row = row, !.by = by]
<1>1. x \in ThreadState /\ x.row = row
  BY IdleType DEF ThreadState, Unlocked
<1> QED BY <1>1, ThreadMoves DEF Begin

LEMMA PropagateType ==
  ASSUME ThreadsInv, NEW t \in Thread, NEW skip \in SUBSET Drone, NEW drop \in SUBSET Drone, Propagate(t, skip, drop)
  PROVE  ThreadsInv'
<1> DEFINE x == [Idle EXCEPT !.pc = "capturing", !.dialed = skip, !.drop = drop]
<1>1. x \in ThreadState /\ x.pc = "capturing"
  BY IdleType DEF ThreadState, Unlocked
<1> QED BY <1>1, ThreadMoves DEF Propagate

LEMMA PropagatedType ==
  ASSUME ThreadsInv, NEW t \in Thread, Propagated(t)
  PROVE  ThreadsInv'
<1> DEFINE drop == thr[t].drop
           x == [Idle EXCEPT !.pc = "drop", !.drop = drop]
<1>1. drop \in SUBSET Drone
  BY DEF ThreadsInv, ThreadState
<1>2. thr' = [thr EXCEPT ![t] = Idle] \/ thr' = [thr EXCEPT ![t] = x]
  BY DEF Propagated
<1> HIDE DEF drop
<1>3. x \in ThreadState /\ x.pc = "drop"
  BY <1>1, IdleType DEF ThreadState, Unlocked
<1> QED BY <1>2, <1>3, IdleType, ThreadMoves

-----------------------------------------------------------------------------
(* One lemma for each kind of step.                                        *)

StepInv == DiskStep /\ lock' \in Thread \cup {NoThread} /\ ThreadsInv'

\* A row merged into a stored one is a row.
LEMMA MergedRowType ==
  ASSUME NEW previous, NEW row \in Row
  PROVE  MergedRow(previous, row) \in Row
BY DEF MergedRow, Row

LEMMA RowsSavedStep ==
  ASSUME IInv, NEW t \in Thread, NEW row \in Row, RowsSaved(t, row)
  PROVE  DiskStep
<1> DEFINE rows == [thr[t].snap EXCEPT ![thr[t].peer] = row]
           forgotten == db.forgotten \ {thr[t].peer}
<1>1. db \in DiskState /\ thr[t].snap \in [Drone -> Row \cup {NoRow}]
  BY DEF IInv, DiskInv, ThreadsInv, ThreadState
<1>2. rows \in [Drone -> Row \cup {NoRow}]
  BY <1>1
<1>3. /\ forgotten \in SUBSET Drone /\ db.certs \in [Drone -> Fp \cup {NoFp}]
  BY <1>1 DEF DiskState
<1> HIDE DEF rows, forgotten
<1>4. db' = [db EXCEPT !.rows = rows, !.forgotten = forgotten]
  BY DEF RowsSaved, rows, forgotten
<1>5. db' = [db EXCEPT !.rows = rows, !.forgotten = forgotten, !.certs = db.certs]
  BY <1>1, <1>4 DEF DiskState
<1> QED BY <1>2, <1>3, <1>5, RowsWritten

LEMMA EnterStep ==
  ASSUME IInv, NEW t \in Thread, NEW from, NEW to \in Locked, Enter(t, from, to)
  PROVE  StepInv
<1>1. DiskStep
  BY DiskUnchanged DEF Enter
<1>2. ThreadsInv'
  BY LoadType DEF Enter, Locked, Unlocked
<1> QED BY <1>1, <1>2 DEF StepInv, Enter

LEMMA SaveCertificateStep ==
  ASSUME IInv, NEW t \in Thread, SaveCertificate(t)
  PROVE  StepInv
<1> DEFINE certs == [db.certs EXCEPT ![thr[t].peer] = thr[t].row.fp]
<1>1. db \in DiskState /\ thr[t].row \in Row /\ thr[t].peer \in Drone
  BY DEF IInv, DiskInv, ThreadsInv, ThreadState, SaveCertificate
<1>2. /\ certs \in [Drone -> Fp \cup {NoFp}] /\ db.rows \in [Drone -> Row \cup {NoRow}]
      /\ db.forgotten \in SUBSET Drone
  BY <1>1 DEF DiskState, Row
<1>3. db' = [db EXCEPT !.certs = certs]
  BY DEF SaveCertificate
<1> HIDE DEF certs
<1>4. db' = [db EXCEPT !.rows = db.rows, !.forgotten = db.forgotten, !.certs = certs]
  BY <1>1, <1>3 DEF DiskState
<1>5. DiskStep
  BY <1>2, <1>4, RowsWritten
<1>6. ThreadsInv'
  BY GotoType DEF IInv, SaveCertificate, Unlocked
<1> QED BY <1>5, <1>6 DEF StepInv, SaveCertificate, IInv

LEMMA LoadRowsStep ==
  ASSUME IInv, NEW t \in Thread, NEW from, NEW to \in {"save", "refreshed"},
         from \in {"load", "refresh"}, LoadRows(t, from, to)
  PROVE  StepInv
<1>1. DiskStep
  BY DiskUnchanged DEF LoadRows
<1>2. ThreadsInv'
  BY LoadType DEF LoadRows, Unlocked
<1> QED BY <1>1, <1>2 DEF StepInv, LoadRows, IInv

LEMMA SavePairedPeerStep ==
  ASSUME IInv, NEW t \in Thread, SavePairedPeer(t)
  PROVE  StepInv
<1> DEFINE y == thr[t]
           row == MergedRow(y.snap[y.peer], y.row)
           card == CardFromPeer(row, db.certs[y.peer])
           x == [y EXCEPT !.pc = "approving", !.row = row, !.card = card]
<1>1. y \in ThreadState /\ y.row \in Row /\ y.peer \in Drone
  BY DEF IInv, ThreadsInv, ThreadState, SavePairedPeer
<1>2. row \in Row
  BY <1>1, MergedRowType
<1>3. db.certs[y.peer] \in Fp \cup {NoFp}
  BY <1>1 DEF IInv, DiskInv, DiskState
<1>4. card \in Card
  BY <1>2, <1>3, CardType
<1>5. DiskStep
  BY <1>2, RowsSavedStep DEF SavePairedPeer
<1>6. thr' = [thr EXCEPT ![t] = x]
  BY DEF SavePairedPeer, IInv, ThreadsInv
<1> HIDE DEF y, row, card
<1>7. x \in ThreadState /\ x.pc = "approving"
  BY <1>1, <1>2, <1>4 DEF ThreadState, Unlocked
<1>8. ThreadsInv'
  BY <1>6, <1>7, ThreadMoves DEF IInv
<1> QED BY <1>5, <1>8 DEF StepInv, SavePairedPeer, IInv

LEMMA ApproveMemberStep ==
  ASSUME IInv, NEW t \in Thread, ApproveMember(t)
  PROVE  StepInv
<1>1. DiskStep /\ lock' \in Thread \cup {NoThread}
  BY ApproveStep
<1>2. CASE Done(t)
  BY <1>1, <1>2, DoneType DEF StepInv, IInv
<1>3. CASE Propagate(t, {}, {})
  BY <1>1, <1>3, PropagateType DEF StepInv, IInv
<1> QED BY <1>2, <1>3 DEF ApproveMember

LEMMA RefreshStep ==
  ASSUME IInv, NEW t \in Thread, RefreshPairedPeer(t)
  PROVE  StepInv
<1>1. thr[t].row \in Row
  BY DEF IInv, ThreadsInv, RefreshPairedPeer
<1>2. DiskStep
  BY <1>1, MergedRowType, RowsSavedStep DEF RefreshPairedPeer
<1>3. ThreadsInv'
  BY DoneType DEF RefreshPairedPeer, IInv
<1> QED BY <1>2, <1>3 DEF StepInv, RefreshPairedPeer, IInv

LEMMA ForgetPeerStep ==
  ASSUME IInv, NEW t \in Thread, ForgetPeer(t)
  PROVE  StepInv
<1> DEFINE y == thr[t]
           p == y.peer
           previous == y.snap[p]
           rows == [y.snap EXCEPT ![p] = NoRow]
           forgotten == IF TailnetRow(previous) THEN db.forgotten \cup {p} ELSE db.forgotten
           certs == [db.certs EXCEPT ![p] = IF Paired(previous) THEN db.certs[p] ELSE NoFp]
           card == CardFromPeer(previous, db.certs[p])
           x == [y EXCEPT !.pc = "removing", !.card = card]
<1>1. db \in DiskState /\ y \in ThreadState /\ p \in Drone
  BY DEF IInv, DiskInv, ThreadsInv, ThreadState
<1>2. /\ rows \in [Drone -> Row \cup {NoRow}] /\ forgotten \in SUBSET Drone
      /\ certs \in [Drone -> Fp \cup {NoFp}]
  BY <1>1 DEF DiskState, ThreadState
<1>3. card \in Card
  <2>1. previous \in Row \cup {NoRow} /\ db.certs[p] \in Fp \cup {NoFp}
    BY <1>1 DEF DiskState, ThreadState
  <2> QED BY <2>1, CardType
<1>4. db' = [db EXCEPT !.rows = rows, !.forgotten = forgotten, !.certs = certs]
  BY <1>1 DEF ForgetPeer, DiskState
<1>5. Done(t) \/ thr' = [thr EXCEPT ![t] = x]
  BY DEF ForgetPeer, IInv, ThreadsInv
<1> HIDE DEF y, p, previous, rows, forgotten, certs, card
<1>6. DiskStep
  BY <1>2, <1>4, RowsWritten
<1>7. x \in ThreadState /\ x.pc = "removing"
  BY <1>1, <1>3 DEF ThreadState, Unlocked
<1>8. ThreadsInv'
  BY <1>5, <1>7, DoneType, ThreadMoves DEF IInv
<1> QED BY <1>6, <1>8 DEF StepInv, ForgetPeer, IInv

LEMMA RecordLocalRemovalStep ==
  ASSUME IInv, NEW t \in Thread, RecordLocalRemoval(t)
  PROVE  StepInv
<1>1. ThreadsInv'
  BY GotoType DEF IInv, RecordLocalRemoval, Unlocked
<1> QED BY <1>1, RemovalStep DEF StepInv

LEMMA UnlinkStep ==
  ASSUME IInv, NEW t \in Thread, UnlinkCertificate(t)
  PROVE  StepInv
<1> DEFINE certs == [db.certs EXCEPT ![thr[t].peer] = NoFp]
<1>1. db \in DiskState /\ thr[t].peer \in Drone
  BY DEF IInv, DiskInv, ThreadsInv, ThreadState
<1>2. /\ certs \in [Drone -> Fp \cup {NoFp}] /\ db.rows \in [Drone -> Row \cup {NoRow}]
      /\ db.forgotten \in SUBSET Drone
  BY <1>1 DEF DiskState
<1>3. db' = [db EXCEPT !.certs = certs]
  BY DEF UnlinkCertificate
<1> HIDE DEF certs
<1>4. db' = [db EXCEPT !.rows = db.rows, !.forgotten = db.forgotten, !.certs = certs]
  BY <1>1, <1>3 DEF DiskState
<1>5. DiskStep
  BY <1>2, <1>4, RowsWritten
<1>6. ThreadsInv'
  <2>1. {thr[t].peer} \in SUBSET Drone
    BY <1>1
  <2> QED BY <2>1, PropagateType DEF UnlinkCertificate, IInv
<1> QED BY <1>5, <1>6 DEF StepInv, UnlinkCertificate, IInv

LEMMA DropStep ==
  ASSUME IInv, NEW t \in Thread, DropCertificate(t)
  PROVE  StepInv
<1> DEFINE certs == [p \in Drone |-> IF p \in thr[t].drop THEN NoFp ELSE db.certs[p]]
<1>1. db \in DiskState
  BY DEF IInv, DiskInv
<1>2. /\ certs \in [Drone -> Fp \cup {NoFp}] /\ db.rows \in [Drone -> Row \cup {NoRow}]
      /\ db.forgotten \in SUBSET Drone
  BY <1>1 DEF DiskState
<1>3. db' = [db EXCEPT !.certs = certs]
  BY DEF DropCertificate
<1> HIDE DEF certs
<1>4. db' = [db EXCEPT !.rows = db.rows, !.forgotten = db.forgotten, !.certs = certs]
  BY <1>1, <1>3 DEF DiskState
<1>5. DiskStep
  BY <1>2, <1>4, RowsWritten
<1>6. ThreadsInv'
  BY DoneType DEF DropCertificate, IInv
<1> QED BY <1>5, <1>6 DEF StepInv, DropCertificate, IInv

LEMMA AcceptRequestStep ==
  ASSUME IInv, NEW t \in Thread, NEW lastHop \in BOOLEAN, AcceptRequest(t, lastHop)
  PROVE  StepInv
<1>1. DiskStep /\ lock' \in Thread \cup {NoThread}
  BY AcceptStep DEF AcceptRequest, Accept
<1>2. thr[t].peer \in Drone
  BY DEF IInv, ThreadsInv, ThreadState
<1>3. CASE Done(t)
  BY <1>1, <1>3, DoneType DEF StepInv, IInv
<1>4. CASE Propagate(t, {thr[t].peer}, {})
  BY <1>1, <1>2, <1>4, PropagateType DEF StepInv, IInv
<1> QED BY <1>3, <1>4 DEF AcceptRequest

LEMMA CaptureStep ==
  ASSUME IInv, NEW t \in Thread, Capture(t)
  PROVE  StepInv
<1> DEFINE s == Reconcile(Read(t), Self, Own)
           captured == s.dirty
           dialed == thr[t].dialed
           drop == thr[t].drop
           x == [Idle EXCEPT !.pc = "exchange", !.captured = captured, !.dialed = dialed, !.drop = drop]
<1>1. /\ DiskInv(s) /\ s.clock = db.clock
      /\ \A p \in Drone : s.records[p].op = db.records[p].op
  BY ReconciledStep
<1>2. Commit(t, s) /\ (Propagated(t) \/ thr' = [thr EXCEPT ![t] = x])
  BY DEF Capture
<1> HIDE DEF s
<1>3. DiskStep /\ lock' \in Thread \cup {NoThread}
  BY <1>1, <1>2, Committed
<1>4. captured \in Nat
  BY <1>1 DEF DiskInv, DiskState
<1>5. dialed \in SUBSET Drone /\ drop \in SUBSET Drone
  BY DEF IInv, ThreadsInv, ThreadState
<1> HIDE DEF captured, dialed, drop
<1>6. x \in ThreadState /\ x.pc = "exchange"
  BY <1>4, <1>5, IdleType DEF ThreadState, Unlocked
<1>7. ThreadsInv'
  BY <1>2, <1>6, PropagatedType, ThreadMoves DEF IInv
<1> QED BY <1>3, <1>7 DEF StepInv

LEMMA AcceptReplyStep ==
  ASSUME IInv, NEW t \in Thread, AcceptReply(t)
  PROVE  StepInv
<1> DEFINE y == thr[t]
           x == [Idle EXCEPT !.pc = "exchange", !.captured = y.captured, !.round = y.round,
                             !.dialed = y.dialed, !.failed = y.failed, !.drop = y.drop]
<1>1. DiskStep /\ lock' \in Thread \cup {NoThread}
  BY AcceptStep DEF AcceptReply
<1>2. y \in ThreadState
  BY DEF IInv, ThreadsInv
<1>3. thr' = [thr EXCEPT ![t] = x]
  BY DEF AcceptReply
<1> HIDE DEF y
<1>4. x \in ThreadState /\ x.pc = "exchange"
  BY <1>2, IdleType DEF ThreadState, Unlocked
<1>5. ThreadsInv'
  BY <1>3, <1>4, ThreadMoves DEF IInv
<1> QED BY <1>1, <1>5 DEF StepInv

LEMMA MarkForwardedStep ==
  ASSUME IInv, NEW t \in Thread, MarkForwarded(t)
  PROVE  StepInv
<1> DEFINE s == Reconcile(Read(t), Self, Own)
           captured == thr[t].captured
           u == IF s.dirty = captured THEN [s EXCEPT !.forwarded = captured] ELSE s
<1>1. /\ DiskInv(s) /\ s.clock = db.clock
      /\ \A p \in Drone : s.records[p].op = db.records[p].op
  BY ReconciledStep
<1>2. Commit(t, u) /\ Propagated(t)
  BY DEF MarkForwarded
<1>3. captured \in Nat
  BY DEF IInv, ThreadsInv, ThreadState
<1> HIDE DEF s, captured
<1>4. u \in DiskState /\ u.clock = s.clock /\ u.records = s.records
  BY <1>1, <1>3 DEF DiskInv, DiskState
<1> HIDE DEF u
<1>5. DiskInv(u)
  BY <1>1, <1>4 DEF DiskInv
<1>6. DiskStep /\ lock' \in Thread \cup {NoThread}
  BY <1>1, <1>2, <1>4, <1>5, Committed
<1>7. ThreadsInv'
  BY <1>2, PropagatedType DEF IInv
<1> QED BY <1>6, <1>7 DEF StepInv

LEMMA ExchangesDoneStep ==
  ASSUME IInv, NEW t \in Thread, ExchangesDone(t)
  PROVE  StepInv
<1> DEFINE next == {p \in Peer : Paired(db.rows[p])} \ thr[t].dialed
           y == thr[t]
           x == [y EXCEPT !.round = next]
<1>1. ASSUME Propagated(t) \/ Goto(t, "marking") PROVE ThreadsInv'
  BY <1>1, GotoType, PropagatedType DEF IInv, Unlocked
<1>2. ASSUME thr' = [thr EXCEPT ![t].round = next] PROVE ThreadsInv'
  <2>1. thr' = [thr EXCEPT ![t] = x] /\ y \in ThreadState /\ y.pc = "exchange"
    BY <1>2 DEF ExchangesDone, Pc, IInv, ThreadsInv
  <2>2. next \in SUBSET Drone
    BY DEF Peer
  <2> HIDE DEF y, next
  <2>3. x \in ThreadState /\ x.pc = "exchange"
    BY <2>1, <2>2 DEF ThreadState
  <2> QED BY <2>1, <2>3, ThreadMoves DEF IInv
<1>3. ThreadsInv'
  BY <1>1, <1>2 DEF ExchangesDone
<1> QED BY <1>3, DiskUnchanged DEF StepInv, ExchangesDone, IInv

LEMMA ContinueStep ==
  ASSUME IInv, NEW t \in Thread, Continue(t)
  PROVE  StepInv
<1>1. CASE SaveCertificate(t)
  BY <1>1, SaveCertificateStep
<1>2. CASE LoadRows(t, "load", "save") \/ LoadRows(t, "refresh", "refreshed")
  BY <1>2, LoadRowsStep
<1>3. CASE SavePairedPeer(t)
  BY <1>3, SavePairedPeerStep
<1>4. CASE \/ Enter(t, "approving", "approve") \/ Enter(t, "removing", "remove")
           \/ Enter(t, "accepting", "accept") \/ Enter(t, "capturing", "capture")
           \/ Enter(t, "replying", "reply") \/ Enter(t, "marking", "mark")
  BY <1>4, EnterStep DEF Locked
<1>5. CASE ApproveMember(t)
  BY <1>5, ApproveMemberStep
<1>6. CASE RefreshPairedPeer(t)
  BY <1>6, RefreshStep
<1>7. CASE ForgetPeer(t)
  BY <1>7, ForgetPeerStep
<1>8. CASE RecordLocalRemoval(t)
  BY <1>8, RecordLocalRemovalStep
<1>9. CASE UnlinkCertificate(t) \/ DropCertificate(t)
  BY <1>9, UnlinkStep, DropStep
<1>10. CASE \E lastHop \in BOOLEAN : AcceptRequest(t, lastHop)
  BY <1>10, AcceptRequestStep
<1>11. CASE Capture(t)
  BY <1>11, CaptureStep
<1>12. CASE AcceptReply(t)
  BY <1>12, AcceptReplyStep
<1>13. CASE ExchangesDone(t)
  BY <1>13, ExchangesDoneStep
<1>14. CASE MarkForwarded(t)
  BY <1>14, MarkForwardedStep
<1> QED BY <1>1, <1>2, <1>3, <1>4, <1>5, <1>6, <1>7, <1>8, <1>9, <1>10, <1>11, <1>12,
           <1>13, <1>14 DEF Continue

LEMMA ExchangeStep ==
  ASSUME IInv, NEW t \in Thread, Exchange(t)
  PROVE  StepInv
<1>1. PICK p \in Peer : \/ ExchangeFailed(t, p)
                        \/ \E q \in Drone, r \in WireRecord : ReplyReceived(t, p, [x \in {q} |-> r])
  BY DEF Exchange
<1> DEFINE y == thr[t]
           dialed == y.dialed \cup {p}
<1>2. y \in ThreadState /\ dialed \in SUBSET Drone /\ p \in Drone
  BY DEF IInv, ThreadsInv, ThreadState, Peer
<1>3. y.pc = "exchange" /\ UNCHANGED <<db, lock>>
  BY <1>1 DEF ExchangeFailed, ReplyReceived, Pc
<1>4. CASE ExchangeFailed(t, p)
  <2> DEFINE z == [y EXCEPT !.failed = TRUE, !.dialed = dialed]
  <2>1. thr' = [thr EXCEPT ![t] = z]
    BY <1>4 DEF ExchangeFailed, IInv, ThreadsInv
  <2> HIDE DEF y, dialed
  <2>2. z \in ThreadState /\ z.pc = "exchange"
    BY <1>2, <1>3 DEF ThreadState
  <2>3. ThreadsInv'
    BY <2>1, <2>2, ThreadMoves DEF IInv
  <2> QED BY <1>3, <2>3, DiskUnchanged DEF StepInv, IInv
<1>5. ASSUME NEW q \in Drone, NEW r \in WireRecord, ReplyReceived(t, p, [x \in {q} |-> r])
      PROVE  StepInv
  <2> DEFINE batch == [x \in {q} |-> r]
             z == [y EXCEPT !.pc = "replying", !.peer = p, !.batch = batch, !.dialed = dialed]
  <2>1. batch \in Batch
    BY OneRecordBatch
  <2>2. thr' = [thr EXCEPT ![t] = z]
    BY <1>5 DEF ReplyReceived, IInv, ThreadsInv
  <2> HIDE DEF y, dialed, batch
  <2>3. z \in ThreadState /\ z.pc = "replying"
    BY <1>2, <2>1 DEF ThreadState, Unlocked
  <2>4. ThreadsInv'
    BY <2>2, <2>3, ThreadMoves DEF IInv
  <2> QED BY <1>3, <2>4, DiskUnchanged DEF StepInv, IInv
<1> QED BY <1>1, <1>4, <1>5

LEMMA RequestServedStep ==
  ASSUME IInv, NEW t \in Thread, RequestServed(t)
  PROVE  StepInv
<1>1. PICK p \in Peer :
        \/ ForgetRequested(t, p)
        \/ \E row \in Peering : PairReceived(t, p, row)
        \/ \E row \in Peering, by \in {"operator", "sweep"} : PairInitiated(t, p, row, by)
        \/ Announced(t, p) \/ TailnetProbed(t, p)
        \/ \E q \in Drone, r \in WireRecord : RequestReceived(t, p, [x \in {q} |-> r])
  BY DEF RequestServed
<1>2. UNCHANGED <<db, lock>>
  BY <1>1 DEF ForgetRequested, PairReceived, PairInitiated, Announced, TailnetProbed, RequestReceived
<1>3. p \in Drone /\ db \in DiskState
  BY DEF Peer, IInv, DiskInv
<1>4. DiskStep /\ lock' \in Thread \cup {NoThread}
  BY <1>2, DiskUnchanged DEF IInv
<1>5. Peering \subseteq Row
  BY InputAssumption
<1>6. CASE ForgetRequested(t, p)
  <2> DEFINE rows == db.rows
             x == [Idle EXCEPT !.pc = "forget", !.peer = p, !.snap = rows]
  <2>1. thr' = [thr EXCEPT ![t] = x]
    BY <1>6 DEF ForgetRequested
  <2>2. rows \in [Drone -> Row \cup {NoRow}]
    BY <1>3 DEF DiskState
  <2> HIDE DEF rows
  <2>3. x \in ThreadState /\ x.pc = "forget"
    BY <1>3, <2>2, IdleType DEF ThreadState, Unlocked
  <2> QED BY <1>4, <2>1, <2>3, ThreadMoves DEF StepInv, IInv
<1>7. CASE \E row \in Peering : PairReceived(t, p, row)
  BY <1>3, <1>4, <1>5, <1>7, BeginType DEF PairReceived, StepInv, IInv
<1>8. CASE \E row \in Peering, by \in {"operator", "sweep"} : PairInitiated(t, p, row, by)
  BY <1>3, <1>4, <1>5, <1>8, BeginType DEF PairInitiated, StepInv, IInv
<1>9. CASE Announced(t, p) \/ TailnetProbed(t, p)
  <2>1. db.rows[p] \in Row
    BY <1>3, <1>9 DEF Announced, TailnetProbed, Paired, DiskState, NoRow
  <2>2. [db.rows[p] EXCEPT !.tail = TRUE] \in Row
    BY <2>1 DEF Row
  <2>3. ThreadsInv'
    BY <1>3, <1>9, <2>1, <2>2, BeginType DEF Announced, TailnetProbed, IInv
  <2> QED BY <1>4, <2>3 DEF StepInv
<1>10. ASSUME NEW q \in Drone, NEW r \in WireRecord, RequestReceived(t, p, [x \in {q} |-> r])
       PROVE  StepInv
  <2> DEFINE batch == [x \in {q} |-> r]
             z == [Idle EXCEPT !.pc = "accepting", !.peer = p, !.batch = batch]
  <2>1. batch \in Batch
    BY OneRecordBatch
  <2>2. thr' = [thr EXCEPT ![t] = z]
    BY <1>10 DEF RequestReceived
  <2> HIDE DEF batch
  <2>3. z \in ThreadState /\ z.pc = "accepting"
    BY <1>3, <2>1, IdleType DEF ThreadState, Unlocked
  <2> QED BY <1>4, <2>2, <2>3, ThreadMoves DEF StepInv, IInv
<1> QED BY <1>1, <1>6, <1>7, <1>8, <1>9, <1>10

-----------------------------------------------------------------------------
(* The invariant is inductive.                                             *)

LEMMA InitIInv == Init => IInv
<1> SUFFICES ASSUME Init PROVE IInv
  OBVIOUS
<1>1. PICK rows \in [Drone -> LegacyRow \cup {NoRow}], departed \in LegacyFlag :
        db = [records |-> [p \in Drone |-> NoRecord], clock |-> 0,
              departed |-> departed, dirty |-> 0, forwarded |-> 0,
              rows |-> rows, forgotten |-> {}, certs |-> [p \in Drone |-> rows[p].fp]]
  BY DEF Init
<1> DEFINE records == [p \in Drone |-> NoRecord]
           certs == [p \in Drone |-> rows[p].fp]
<1>2. /\ rows \in [Drone -> Row \cup {NoRow}] /\ departed \in BOOLEAN
  BY InputAssumption
<1>3. certs \in [Drone -> Fp \cup {NoFp}]
  <2>1. ASSUME NEW p \in Drone PROVE rows[p].fp \in Fp \cup {NoFp}
    <3>1. rows[p] \in Row \/ rows[p] = NoRow
      BY <1>2
    <3> QED BY <3>1 DEF Row, NoRow
  <2> QED BY <2>1
<1>4. /\ records \in [Drone -> Record \cup {NoRecord}]
      /\ \A p \in Drone : records[p].op = "none"
  BY DEF NoRecord
<1>5. 0 \in Epoch /\ {} \in SUBSET Drone /\ 0 \in Nat
  BY EpochAssumption DEF Epoch
<1> HIDE DEF records, certs
<1>6. db = [records |-> records, clock |-> 0, departed |-> departed, dirty |-> 0,
            forwarded |-> 0, rows |-> rows, forgotten |-> {}, certs |-> certs]
  BY <1>1 DEF records, certs
<1>7. db \in DiskState /\ db.clock = 0 /\ db.records = records
  BY <1>2, <1>3, <1>4, <1>5, <1>6 DEF DiskState
<1>8. DiskInv(db)
  BY <1>4, <1>7, BoundAssumption DEF DiskInv
<1>9. ThreadsInv
  BY IdleType DEF Init, ThreadsInv, Pc
<1> QED BY <1>8, <1>9, BoundAssumption DEF Init, IInv

LEMMA NextIInv == IInv /\ [Next]_vars => IInv' /\ ClockStep /\ TombstoneStep /\ AuthorizedStep
<1> SUFFICES ASSUME IInv, [Next]_vars PROVE IInv' /\ ClockStep /\ TombstoneStep /\ AuthorizedStep
  OBVIOUS
<1>1. ASSUME StepInv, UNCHANGED crashes PROVE IInv' /\ ClockStep /\ TombstoneStep /\ AuthorizedStep
  BY <1>1 DEF StepInv, DiskStep, IInv
<1>2. CASE UNCHANGED vars
  <2>1. DiskStep
    BY <1>2, DiskUnchanged DEF vars
  <2> QED BY <1>2, <2>1 DEF DiskStep, vars, IInv, ThreadsInv, Pc
<1>3. CASE Crash
  <2>1. DiskStep
    BY <1>3, DiskUnchanged, StoredInPartStep DEF Crash
  <2>2. ThreadsInv'
    BY <1>3, IdleType DEF Crash, ThreadsInv, Pc
  <2>3. crashes' \in 0 .. MaxCrash
    BY <1>3, BoundAssumption DEF Crash, IInv
  <2> QED BY <1>3, <2>1, <2>2, <2>3 DEF DiskStep, Crash, IInv
<1>4. CASE Sweep(Health) /\ UNCHANGED crashes
  <2>1. ThreadsInv'
    BY <1>4, ThreadAssumption, PropagateType DEF Sweep, IInv
  <2>2. StepInv
    BY <1>4, <2>1, DiskUnchanged DEF Sweep, StepInv, IInv
  <2> QED BY <1>1, <1>4, <2>2
<1>5. CASE (\E t \in Server : RequestServed(t)) /\ UNCHANGED crashes
  BY <1>1, <1>5, ThreadAssumption, RequestServedStep
<1>6. CASE (\E t \in Thread : Continue(t) \/ Exchange(t)) /\ UNCHANGED crashes
  BY <1>1, <1>6, ContinueStep, ExchangeStep
<1> QED BY <1>2, <1>3, <1>4, <1>5, <1>6 DEF Next

LEMMA Invariant == Spec => []IInv
BY InitIInv, NextIInv, PTL DEF Spec


-----------------------------------------------------------------------------
(* Pins, where operations do not overlap.                                  *)

OneThread == \A t, o \in Thread : t = o

PinsKept(a, b) == \A p \in Drone : Paired(a[p]) /\ Paired(b[p]) => b[p].fp = a[p].fp

PinStep ==
  \A p \in Drone :
    Paired(db.rows[p]) /\ Paired(db'.rows[p]) /\ db.rows[p].fp # db'.rows[p].fp =>
      \E t \in Thread : Pc(t) = "save" /\ thr[t].peer = p /\ thr[t].row.fp = db'.rows[p].fp

\* What an operation under way has read is what is on disk.
SerialInv ==
  \A t \in Thread :
    /\ Pc(t) \in Locked \cup {"save", "refreshed", "forget"} => thr[t].snap = db.rows
    /\ Pc(t) \in {"refresh", "refreshed"} => thr[t].row.fp = db.rows[thr[t].peer].fp

LEMMA UnpairedRow == ~Paired(NoRow)
BY DEF Paired, NoRow

LEMMA ReconcilePins ==
  ASSUME NEW s, DiskInv(s) PROVE PinsKept(s.rows, Reconcile(s, Self, Own).rows)
BY ReconcileDisk, UnpairedRow DEF PinsKept

LEMMA AcceptPins ==
  ASSUME NEW s, DiskInv(s), NEW introducer, NEW batch \in Batch
  PROVE  PinsKept(s.rows, Accept(s, Self, Own, introducer, batch).rows)
<1> DEFINE v == Reconcile(s, Self, Own)
           u == Accepted(v, Self, Own, introducer, batch)
<1>1. Accept(s, Self, Own, introducer, batch) = u
  BY DEF Accept
<1>2. /\ DiskInv(v) /\ v.departed = s.departed
      /\ \A p \in Drone : v.records[p].op = s.records[p].op
      /\ \A p \in Drone : Paired(s.rows[p]) =>
           \/ v.rows[p] = s.rows[p]
           \/ v.rows[p] = NoRow /\ (s.departed \/ s.records[p].op = "remove")
  BY ReconcileDisk DEF SameRecords
<1> HIDE DEF v
<1>3. /\ v.departed => u = v
      /\ \A p \in Drone :
           \/ u.rows[p] \in {v.rows[p], NoRow}
           \/ v.records[p].op # "remove" /\ (Paired(v.rows[p]) => u.rows[p].fp = v.rows[p].fp)
  BY <1>2, AcceptedDisk
<1> HIDE DEF u
<1>4. ASSUME NEW p \in Drone, Paired(s.rows[p]), Paired(u.rows[p]) PROVE u.rows[p].fp = s.rows[p].fp
  <2>1. CASE v.rows[p] = s.rows[p]
    BY <1>3, <1>4, <2>1, UnpairedRow
  <2>2. CASE v.rows[p] = NoRow /\ s.departed
    BY <1>2, <1>3, <1>4, <2>2, UnpairedRow
  <2>3. CASE v.rows[p] = NoRow /\ s.records[p].op = "remove"
    BY <1>2, <1>3, <1>4, <2>3, UnpairedRow
  <2> QED BY <1>2, <1>4, <2>1, <2>2, <2>3
<1> QED BY <1>1, <1>4 DEF PinsKept

LEMMA MintPins ==
  ASSUME NEW s, DiskInv(s), s.clock < MaxClock, NEW peer \in Drone, NEW card \in Card
  PROVE  /\ PinsKept(s.rows, Approve(s, Self, Own, peer, card).rows)
         /\ PinsKept(s.rows, LocalRemoval(s, Self, Own, peer, card).rows)
<1>1. PICK t : /\ Approve(s, Self, Own, peer, card) = Reconcile(t, Self, Own)
               /\ DiskInv(t) /\ t.rows = s.rows
  BY ApproveReconciles
<1>2. LocalRemoval(s, Self, Own, peer, card).rows = Reconcile(s, Self, Own).rows
  <2> DEFINE left == Reconcile(s, Self, Own)
  <2>1. left \in DiskState
    BY ReconcileDisk DEF DiskInv
  <2> HIDE DEF left
  <2>2. LocalRemoval(s, Self, Own, peer, card).rows = left.rows
    BY <2>1 DEF LocalRemoval, DiskState, left
  <2> QED BY <2>2 DEF left
<1> QED BY <1>1, <1>2, ReconcilePins

\* The load of a locked block, where what it loaded is on disk.
LEMMA ReadRows ==
  ASSUME IInv, NEW t \in Thread, thr[t].snap = db.rows
  PROVE  Read(t).rows = db.rows
<1> DEFINE snap == thr[t].snap
           s == [db EXCEPT !.rows = snap]
           clock == LoadedClock(s.clock, s.records, Self)
<1>1. db \in DiskState
  BY DEF IInv, DiskInv
<1>2. s.rows = snap /\ DOMAIN s = DOMAIN db
  BY <1>1 DEF DiskState
<1>3. Read(t) = [s EXCEPT !.clock = clock]
  BY DEF Read, Loaded
<1> HIDE DEF s, clock
<1>4. Read(t).rows = s.rows
  BY <1>1, <1>2, <1>3 DEF DiskState
<1> QED BY <1>2, <1>4

\* The store of a locked block that keeps the pins it loaded keeps those on disk.
LEMMA CommitPins ==
  ASSUME db \in DiskState, NEW s, DiskInv(s), NEW t, Commit(t, s), PinsKept(db.rows, s.rows)
  PROVE  PinStep
<1> DEFINE u == [s EXCEPT !.rows = db.rows]
<1>1. u.rows = db.rows
  BY DEF DiskInv, DiskState
<1> HIDE DEF u
<1>2. db'.rows = db.rows \/ db'.rows = s.rows
  BY <1>1 DEF Commit, u
<1> QED BY <1>2 DEF PinStep, PinsKept

\* Nor does what it is about to store move any.
LEMMA DuePins ==
  ASSUME IInv, SerialInv, NEW t \in Thread, StoredInPart(t)
  PROVE  PinsKept(db.rows, Due(t).rows)
<1>1. thr[t].peer \in Drone /\ thr[t].card \in Card /\ thr[t].batch \in Batch
  BY DEF IInv, ThreadsInv, ThreadState
<1>2. DiskInv(Read(t)) /\ Read(t).clock = db.clock /\ Read(t).rows = db.rows
  BY ReadDisk, ReadRows DEF SerialInv, StoredInPart
<1>3. CASE Pc(t) \in {"approve", "remove"}
  <2>1. Read(t).clock < MaxClock
    BY <1>2, <1>3 DEF StoredInPart, CanMint
  <2>2. \/ Due(t) = Approve(Read(t), Self, Own, thr[t].peer, thr[t].card)
        \/ Due(t) = LocalRemoval(Read(t), Self, Own, thr[t].peer, thr[t].card)
    BY <1>3 DEF Due
  <2> QED BY <1>1, <1>2, <2>1, <2>2, MintPins
<1>4. CASE Pc(t) \in {"accept", "reply"}
  <2>1. Due(t) = Accept(Read(t), Self, Own, thr[t].peer, thr[t].batch)
    BY <1>4 DEF Due, Accept
  <2> QED BY <1>1, <1>2, <2>1, AcceptPins
<1>5. CASE Pc(t) \notin {"approve", "remove", "accept", "reply"}
  <2>1. Due(t) = Reconcile(Read(t), Self, Own)
    BY <1>5 DEF Due
  <2> QED BY <1>2, <2>1, ReconcilePins
<1> QED BY <1>3, <1>4, <1>5

\* Every locked block keeps the pins.
LEMMA LockedPins ==
  ASSUME IInv, SerialInv, NEW t \in Thread, Pc(t) \in Locked,
         \/ ApproveMember(t) \/ RecordLocalRemoval(t)
         \/ \E lastHop \in BOOLEAN : AcceptRequest(t, lastHop)
         \/ Capture(t) \/ AcceptReply(t) \/ MarkForwarded(t)
  PROVE  PinStep
<1>1. db \in DiskState /\ thr[t] \in ThreadState
  BY DEF IInv, DiskInv, ThreadsInv
<1>2. thr[t].peer \in Drone /\ thr[t].card \in Card /\ thr[t].batch \in Batch
  BY <1>1 DEF ThreadState
<1>3. thr[t].snap = db.rows
  BY DEF SerialInv
<1>4. Read(t).rows = db.rows
  BY <1>3, ReadRows
<1>5. DiskInv(Read(t)) /\ Read(t).clock = db.clock
  BY ReadDisk
<1>6. CASE ApproveMember(t)
  <2> DEFINE u == Approve(Read(t), Self, Own, thr[t].peer, thr[t].card)
  <2>1. Commit(t, u) /\ Read(t).clock < MaxClock
    BY <1>5, <1>6 DEF ApproveMember, CanMint
  <2>2. DiskInv(u) /\ PinsKept(db.rows, u.rows)
    BY <1>2, <1>4, <1>5, <2>1, ApproveDisk, MintPins
  <2> HIDE DEF u
  <2> QED BY <1>1, <2>1, <2>2, CommitPins
<1>7. CASE RecordLocalRemoval(t)
  <2> DEFINE u == LocalRemoval(Read(t), Self, Own, thr[t].peer, thr[t].card)
  <2>1. Commit(t, u) /\ Read(t).clock < MaxClock
    BY <1>5, <1>7 DEF RecordLocalRemoval, CanMint
  <2>2. DiskInv(u) /\ PinsKept(db.rows, u.rows)
    BY <1>2, <1>4, <1>5, <2>1, LocalRemovalDisk, MintPins
  <2> HIDE DEF u
  <2> QED BY <1>1, <2>1, <2>2, CommitPins
<1>8. CASE (\E lastHop \in BOOLEAN : AcceptRequest(t, lastHop)) \/ AcceptReply(t)
  <2> DEFINE v == Reconcile(Read(t), Self, Own)
             u == Accept(Read(t), Self, Own, thr[t].peer, thr[t].batch)
  <2>1. Commit(t, u)
    BY <1>8 DEF AcceptRequest, AcceptReply, Accept
  <2>2. PinsKept(db.rows, u.rows)
    BY <1>2, <1>4, <1>5, AcceptPins
  <2>3. DiskInv(v)
    BY <1>5, ReconcileDisk
  <2>4. u = Accepted(v, Self, Own, thr[t].peer, thr[t].batch)
    BY DEF Accept
  <2> HIDE DEF u, v
  <2>5. DiskInv(u)
    BY <1>2, <2>3, <2>4, AcceptedDisk
  <2> QED BY <1>1, <2>1, <2>2, <2>5, CommitPins
<1>9. CASE Capture(t) \/ MarkForwarded(t)
  <2> DEFINE s == Reconcile(Read(t), Self, Own)
             captured == thr[t].captured
             u == IF s.dirty = captured THEN [s EXCEPT !.forwarded = captured] ELSE s
  <2>1. DiskInv(s) /\ PinsKept(db.rows, s.rows)
    BY <1>4, <1>5, ReconcileDisk, ReconcilePins
  <2>2. Commit(t, s) \/ Commit(t, u)
    BY <1>9 DEF Capture, MarkForwarded
  <2>3. captured \in Nat
    BY <1>1 DEF ThreadState
  <2> HIDE DEF s, captured
  <2>4. u \in DiskState /\ u.clock = s.clock /\ u.records = s.records /\ u.rows = s.rows
    BY <2>1, <2>3 DEF DiskInv, DiskState
  <2> HIDE DEF u
  <2>5. DiskInv(u)
    BY <2>1, <2>4 DEF DiskInv
  <2> QED BY <1>1, <2>1, <2>2, <2>4, <2>5, CommitPins
<1> QED BY <1>6, <1>7, <1>8, <1>9

\* The unlocked writers: a row that a pairing saves, one that a refresh saves,
\* and one that is forgotten.
LEMMA UnlockedPins ==
  ASSUME IInv, SerialInv, NEW t \in Thread,
         SavePairedPeer(t) \/ RefreshPairedPeer(t) \/ ForgetPeer(t)
  PROVE  PinStep
<1> DEFINE peer == thr[t].peer
           rows == db.rows
<1>1. db \in DiskState /\ peer \in Drone /\ rows \in [Drone -> Row \cup {NoRow}]
  BY DEF IInv, DiskInv, DiskState, ThreadsInv, ThreadState
<1>2. thr[t].snap = rows
  BY DEF SerialInv, SavePairedPeer, RefreshPairedPeer, ForgetPeer
<1>3. CASE SavePairedPeer(t) \/ RefreshPairedPeer(t)
  <2> DEFINE row == MergedRow(thr[t].snap[peer], thr[t].row)
  <2>1. thr[t].row \in Row
    BY <1>3 DEF IInv, ThreadsInv, SavePairedPeer, RefreshPairedPeer
  <2>2. row.fp = thr[t].row.fp
    BY <2>1 DEF MergedRow, Row
  <2>3. RowsSaved(t, row)
    BY <1>3 DEF SavePairedPeer, RefreshPairedPeer
  <2> HIDE DEF row
  <2>4. db'.rows = [rows EXCEPT ![peer] = row]
    BY <1>1, <1>2, <2>3 DEF RowsSaved, DiskState
  <2>5. RefreshPairedPeer(t) => thr[t].row.fp = rows[peer].fp
    BY DEF SerialInv, RefreshPairedPeer
  <2>6. SavePairedPeer(t) => Pc(t) = "save"
    BY DEF SavePairedPeer
  <2> HIDE DEF rows
  <2>7. ASSUME NEW p \in Drone, rows[p].fp # db'.rows[p].fp
        PROVE  Pc(t) = "save" /\ peer = p /\ thr[t].row.fp = db'.rows[p].fp
    BY <1>1, <1>3, <2>2, <2>4, <2>5, <2>6, <2>7
  <2> QED BY <2>7 DEF PinStep, rows
<1>4. CASE ForgetPeer(t)
  <2>1. db'.rows = [rows EXCEPT ![peer] = NoRow]
    BY <1>1, <1>2, <1>4 DEF ForgetPeer, DiskState
  <2> QED BY <1>1, <2>1, UnpairedRow DEF PinStep
<1> QED BY <1>3, <1>4

LEMMA RowsUnchanged == ASSUME db'.rows = db.rows PROVE PinStep
BY DEF PinStep

\* A thread that has read nothing it will write back.
Free(pc) == pc \notin Locked \cup {"save", "refresh", "refreshed", "forget"}

LEMMA FreeThread ==
  ASSUME OneThread, NEW t \in Thread, thr' \in [Thread -> ThreadState], Free(thr'[t].pc)
  PROVE  SerialInv'
BY DEF OneThread, SerialInv, Free, Pc

\* One thread that has loaded the rows, and nobody has written since.
LEMMA LoadedThread ==
  ASSUME OneThread, IInv, NEW t \in Thread, NEW to,
         to # "refresh", to = "refreshed" => thr[t].row.fp = db.rows[thr[t].peer].fp,
         thr' = [thr EXCEPT ![t].pc = to, ![t].snap = db.rows], UNCHANGED db
  PROVE  SerialInv'
<1> DEFINE y == thr[t]
           rows == db.rows
           x == [y EXCEPT !.pc = to, !.snap = rows]
<1>1. y \in ThreadState /\ thr' = [thr EXCEPT ![t] = x] /\ thr'[t] = x
  BY DEF IInv, ThreadsInv
<1>2. db' = db /\ db'.rows = rows
  OBVIOUS
<1> HIDE DEF y, rows
<1>3. x.pc = to /\ x.snap = rows /\ x.row = y.row /\ x.peer = y.peer
  BY <1>1 DEF ThreadState
<1>4. to = "refreshed" => y.row.fp = rows[y.peer].fp
  BY DEF y, rows
<1> HIDE DEF x
<1>5. /\ Pc(t)' = to /\ thr'[t].snap = db'.rows
      /\ to = "refreshed" => thr'[t].row.fp = db'.rows[thr'[t].peer].fp
  BY <1>1, <1>2, <1>3, <1>4 DEF Pc
<1> QED BY <1>5 DEF OneThread, SerialInv

\* Where a thread is after each kind of move.
LEMMA MovedTo ==
  ASSUME IInv, NEW t \in Thread
  PROVE  /\ \A pc : Goto(t, pc) => thr'[t].pc = pc
         /\ Done(t) => thr'[t].pc = "idle"
         /\ \A skip, drop : Propagate(t, skip, drop) => thr'[t].pc = "capturing"
         /\ Propagated(t) => thr'[t].pc \in {"idle", "drop"}
<1>1. thr \in [Thread -> ThreadState] /\ thr[t] \in ThreadState
  BY DEF IInv, ThreadsInv
<1>2. ASSUME NEW pc, Goto(t, pc) PROVE thr'[t].pc = pc
  BY <1>1, <1>2 DEF Goto, ThreadState
<1>3. ASSUME Done(t) PROVE thr'[t].pc = "idle"
  BY <1>1, <1>3, IdleType DEF Done
<1>4. ASSUME NEW skip, NEW drop, Propagate(t, skip, drop) PROVE thr'[t].pc = "capturing"
  BY <1>1, <1>4, IdleType DEF Propagate, ThreadState
<1>5. ASSUME Propagated(t) PROVE thr'[t].pc \in {"idle", "drop"}
  BY <1>1, <1>5, IdleType DEF Propagated, ThreadState
<1> QED BY <1>2, <1>3, <1>4, <1>5

LEMMA ContinueSerial ==
  ASSUME OneThread, IInv, IInv', SerialInv, NEW t \in Thread, Continue(t)
  PROVE  SerialInv' /\ PinStep
<1>1. thr \in [Thread -> ThreadState] /\ thr[t] \in ThreadState /\ db \in DiskState
  BY DEF IInv, ThreadsInv, DiskInv
<1>2. ASSUME Free(thr'[t].pc) PROVE SerialInv'
  BY <1>2, FreeThread DEF IInv, ThreadsInv
<1>3. CASE SaveCertificate(t) \/ UnlinkCertificate(t) \/ DropCertificate(t)
  <2>1. db'.rows = db.rows
    BY <1>1, <1>3 DEF SaveCertificate, UnlinkCertificate, DropCertificate, DiskState
  <2>2. Free(thr'[t].pc)
    BY <1>3, MovedTo DEF SaveCertificate, UnlinkCertificate, DropCertificate, Free, Locked
  <2> QED BY <1>2, <2>1, <2>2, RowsUnchanged
<1>4. CASE LoadRows(t, "load", "save") \/ LoadRows(t, "refresh", "refreshed")
  <2>1. LoadRows(t, "refresh", "refreshed") => thr[t].row.fp = db.rows[thr[t].peer].fp
    BY DEF LoadRows, SerialInv
  <2>2. SerialInv'
    BY <1>4, <2>1, LoadedThread DEF LoadRows
  <2> QED BY <1>4, <2>2, RowsUnchanged DEF LoadRows
<1>5. CASE \/ Enter(t, "approving", "approve") \/ Enter(t, "removing", "remove")
           \/ Enter(t, "accepting", "accept") \/ Enter(t, "capturing", "capture")
           \/ Enter(t, "replying", "reply") \/ Enter(t, "marking", "mark")
  <2>1. SerialInv'
    BY <1>5, LoadedThread DEF Enter
  <2> QED BY <1>5, <2>1, RowsUnchanged DEF Enter
<1>6. CASE SavePairedPeer(t) \/ RefreshPairedPeer(t) \/ ForgetPeer(t)
  <2>1. thr'[t].pc \in {"approving", "idle", "removing"}
    BY <1>1, <1>6, MovedTo DEF SavePairedPeer, RefreshPairedPeer, ForgetPeer, ThreadState
  <2>2. Free(thr'[t].pc)
    BY <2>1 DEF Free, Locked
  <2> QED BY <1>2, <1>6, <2>2, UnlockedPins
<1>7. CASE \/ ApproveMember(t) \/ RecordLocalRemoval(t)
           \/ \E lastHop \in BOOLEAN : AcceptRequest(t, lastHop)
           \/ Capture(t) \/ AcceptReply(t) \/ MarkForwarded(t)
  <2>1. Pc(t) \in Locked
    BY <1>7 DEF ApproveMember, RecordLocalRemoval, AcceptRequest, Capture, AcceptReply,
                MarkForwarded, Locked
  <2>2. PinStep
    BY <1>7, <2>1, LockedPins
  <2>3. \/ Done(t) \/ Goto(t, "unlink") \/ Propagated(t) \/ thr'[t].pc = "exchange"
        \/ \E skip, drop : Propagate(t, skip, drop)
    <3>1. CASE ApproveMember(t) \/ RecordLocalRemoval(t) \/ MarkForwarded(t)
      BY <3>1 DEF ApproveMember, RecordLocalRemoval, MarkForwarded
    <3>2. CASE \E lastHop \in BOOLEAN : AcceptRequest(t, lastHop)
      BY <3>2 DEF AcceptRequest
    <3>3. CASE Capture(t)
      <4>1. ASSUME NEW captured, NEW dialed, NEW drop
            PROVE  [Idle EXCEPT !.pc = "exchange", !.captured = captured, !.dialed = dialed, !.drop = drop].pc = "exchange"
        BY IdleType DEF ThreadState
      <4>2. CASE ~Propagated(t)
        <5>1. PICK captured, dialed, drop : thr' = [thr EXCEPT ![t] =
                [Idle EXCEPT !.pc = "exchange", !.captured = captured, !.dialed = dialed, !.drop = drop]]
          BY <3>3, <4>2 DEF Capture
        <5> DEFINE x == [Idle EXCEPT !.pc = "exchange", !.captured = captured, !.dialed = dialed, !.drop = drop]
        <5>2. x.pc = "exchange" /\ thr' = [thr EXCEPT ![t] = x]
          BY <4>1, <5>1
        <5> HIDE DEF x
        <5> QED BY <1>1, <5>2
      <4> QED BY <4>2
    <3>4. CASE AcceptReply(t)
      BY <1>1, <3>4, IdleType DEF AcceptReply, ThreadState
    <3> QED BY <1>7, <3>1, <3>2, <3>3, <3>4
  <2>4. Free(thr'[t].pc)
    BY <2>3, MovedTo DEF Free, Locked
  <2> QED BY <1>2, <2>2, <2>4
<1>8. CASE ExchangesDone(t)
  <2> DEFINE y == thr[t]
             next == {p \in Peer : Paired(db.rows[p])} \ y.dialed
             x == [y EXCEPT !.round = next]
  <2>0. ASSUME thr' = [thr EXCEPT ![t].round = next] PROVE thr'[t].pc = "exchange"
    <3>1. thr' = [thr EXCEPT ![t] = x] /\ y \in ThreadState /\ y.pc = "exchange"
      BY <1>1, <1>8, <2>0 DEF ExchangesDone, Pc
    <3> HIDE DEF y, next
    <3>2. x.pc = "exchange"
      BY <3>1 DEF ThreadState
    <3> HIDE DEF x
    <3> QED BY <1>1, <3>1, <3>2
  <2>1. Free(thr'[t].pc)
    BY <1>8, <2>0, MovedTo DEF ExchangesDone, Free, Locked
  <2> QED BY <1>2, <1>8, <2>1, RowsUnchanged DEF ExchangesDone
<1> QED BY <1>3, <1>4, <1>5, <1>6, <1>7, <1>8 DEF Continue

\* An operation that begins has read nothing, or the row as it is.
LEMMA BeginSerial ==
  ASSUME OneThread, IInv, IInv', SerialInv, NEW t \in Thread, RequestServed(t)
  PROVE  SerialInv'
<1>1. PICK p \in Peer :
        \/ ForgetRequested(t, p)
        \/ \E row \in Peering : PairReceived(t, p, row)
        \/ \E row \in Peering, by \in {"operator", "sweep"} : PairInitiated(t, p, row, by)
        \/ Announced(t, p) \/ TailnetProbed(t, p)
        \/ \E q \in Drone, r \in WireRecord : RequestReceived(t, p, [x \in {q} |-> r])
  BY DEF RequestServed
<1>2. /\ thr \in [Thread -> ThreadState] /\ thr' \in [Thread -> ThreadState]
      /\ p \in Drone /\ db.rows \in [Drone -> Row \cup {NoRow}]
  BY DEF IInv, ThreadsInv, Peer, DiskInv, DiskState
<1>3. CASE ForgetRequested(t, p)
  <2> DEFINE rows == db.rows
             x == [Idle EXCEPT !.pc = "forget", !.peer = p, !.snap = rows]
  <2>1. thr'[t] = x /\ db'.rows = rows
    BY <1>2, <1>3 DEF ForgetRequested
  <2> HIDE DEF rows
  <2>2. x.pc = "forget" /\ x.snap = rows
    BY IdleType DEF ThreadState
  <2> QED BY <2>1, <2>2 DEF OneThread, SerialInv, Pc
<1>4. CASE Announced(t, p) \/ TailnetProbed(t, p)
  <2>1. PICK row, by : Begin(t, "refresh", p, row, by) /\ row.fp = db.rows[p].fp
    <3>1. db.rows[p].fp = [db.rows[p] EXCEPT !.tail = TRUE].fp
      BY <1>2 DEF Row, NoRow
    <3> QED BY <1>4, <3>1 DEF Announced, TailnetProbed
  <2> DEFINE x == [Idle EXCEPT !.pc = "refresh", !.peer = p, !.row = row, !.by = by]
  <2>2. thr'[t] = x /\ db' = db
    BY <1>2, <1>4, <2>1 DEF Begin, Announced, TailnetProbed
  <2>3. x.pc = "refresh" /\ x.peer = p /\ x.row = row
    BY IdleType DEF ThreadState
  <2> HIDE DEF x
  <2> QED BY <2>1, <2>2, <2>3 DEF OneThread, SerialInv, Pc, Locked
<1>5. CASE \/ \E row \in Peering : PairReceived(t, p, row)
           \/ \E row \in Peering, by \in {"operator", "sweep"} : PairInitiated(t, p, row, by)
  <2>1. PICK row, by : Begin(t, "pin", p, row, by)
    BY <1>5 DEF PairReceived, PairInitiated
  <2> DEFINE x == [Idle EXCEPT !.pc = "pin", !.peer = p, !.row = row, !.by = by]
  <2>2. thr'[t] = x /\ x.pc = "pin"
    BY <1>2, <2>1, IdleType DEF Begin, ThreadState
  <2> HIDE DEF x
  <2> QED BY <1>2, <2>2, FreeThread DEF Free, Locked
<1>6. CASE \E q \in Drone, r \in WireRecord : RequestReceived(t, p, [x \in {q} |-> r])
  <2>1. thr'[t].pc = "accepting"
    BY <1>2, <1>6, IdleType DEF RequestReceived, ThreadState
  <2> QED BY <1>2, <2>1, FreeThread DEF Free, Locked
<1> QED BY <1>1, <1>3, <1>4, <1>5, <1>6

LEMMA NextSerial == OneThread /\ IInv /\ SerialInv /\ [Next]_vars => SerialInv' /\ PinStep
<1> SUFFICES ASSUME OneThread, IInv, SerialInv, [Next]_vars PROVE SerialInv' /\ PinStep
  OBVIOUS
<1>1. IInv'
  BY NextIInv
<1>2. thr \in [Thread -> ThreadState] /\ thr' \in [Thread -> ThreadState]
  BY <1>1 DEF IInv, ThreadsInv
<1>3. CASE UNCHANGED vars
  BY <1>3, RowsUnchanged DEF vars, SerialInv, Pc
<1>4. CASE Crash
  <2>1. ASSUME NEW t \in Thread PROVE Pc(t)' = "idle"
    BY <1>4, IdleType DEF Crash, Pc
  <2>2. SerialInv'
    BY <2>1 DEF SerialInv, Locked
  <2>3. ASSUME NEW t \in Thread, StoredInPart(t) PROVE PinStep
    <3>1. \A p \in Drone : db'.rows[p] \in {db.rows[p], Due(t).rows[p]}
      BY <2>3, StoredInPartStep
    <3>2. PinsKept(db.rows, Due(t).rows)
      BY <2>3, DuePins
    <3> QED BY <3>1, <3>2 DEF PinStep, PinsKept
  <2> QED BY <1>4, <2>2, <2>3, RowsUnchanged DEF Crash
<1>5. CASE Sweep(Health)
  <2>1. Health \in Thread /\ thr'[Health].pc = "capturing"
    BY <1>5, ThreadAssumption, MovedTo DEF Sweep
  <2>2. SerialInv'
    BY <1>2, <2>1, FreeThread DEF Free, Locked
  <2> QED BY <1>5, <2>2, RowsUnchanged DEF Sweep
<1>6. ASSUME NEW t \in Server, RequestServed(t) PROVE SerialInv' /\ PinStep
  <2>1. UNCHANGED db
    BY <1>6 DEF RequestServed, ForgetRequested, PairReceived, PairInitiated, Announced,
                TailnetProbed, RequestReceived
  <2> QED BY <1>1, <1>6, <2>1, ThreadAssumption, BeginSerial, RowsUnchanged
<1>7. ASSUME NEW t \in Thread, Exchange(t) PROVE SerialInv' /\ PinStep
  <2>1. thr'[t].pc \in {"exchange", "replying"} /\ UNCHANGED db
    <3>1. PICK p \in Peer : \/ ExchangeFailed(t, p)
                            \/ \E batch : ReplyReceived(t, p, batch)
      BY <1>7 DEF Exchange
    <3>2. thr[t] \in ThreadState
      BY <1>2, <1>7
    <3>3. CASE ExchangeFailed(t, p)
      BY <1>2, <3>2, <3>3 DEF ExchangeFailed, Pc, ThreadState
    <3>4. CASE \E batch : ReplyReceived(t, p, batch)
      BY <1>2, <3>2, <3>4 DEF ReplyReceived, ThreadState
    <3> QED BY <3>1, <3>3, <3>4
  <2>2. SerialInv'
    BY <1>2, <2>1, FreeThread DEF Free, Locked
  <2> QED BY <2>1, <2>2, RowsUnchanged
<1>8. ASSUME NEW t \in Thread, Continue(t) PROVE SerialInv' /\ PinStep
  BY <1>1, <1>8, ContinueSerial
<1> QED BY <1>3, <1>4, <1>5, <1>6, <1>7, <1>8 DEF Next

LEMMA InitSerial == Init => SerialInv
<1> SUFFICES ASSUME Init, NEW t \in Thread PROVE Pc(t) = "idle"
  BY DEF SerialInv, Locked
<1> QED BY IdleType DEF Init, Pc

-----------------------------------------------------------------------------
(* The theorems.                                                           *)

\* Whatever the threads do, the disk, the lock and every operation in flight
\* have the shapes the code relies on.
THEOREM TypeCorrect == Spec => []TypeOK
<1>1. IInv => TypeOK
  BY DEF IInv, DiskInv, ThreadsInv, TypeOK
<1> QED BY <1>1, Invariant, PTL

\* Every record this Drone minted stays within the bound a peer accepts ahead
\* of its clock, for every number of Drones and threads (record_approved_member,
\* _accept_records).
THEOREM MintsStayWithinReach == Spec => []MintedWithinReach
<1>1. IInv => MintedWithinReach
  BY DEF IInv, DiskInv, MintedWithinReach
<1> QED BY <1>1, Invariant, PTL

\* No step but the approval of that very peer supersedes a tombstone
\* (_accept_records, _reconcile).
THEOREM TombstonesHold == Spec => TombstoneHolds
<1>1. IInv /\ [Next]_vars =>
        [\A p \in Drone : db.records[p].op = "remove" /\ db'.records[p].op # "remove" =>
           \E t \in Thread : Pc(t) = "approve" /\ thr[t].peer = p]_vars
  BY NextIInv DEF TombstoneStep
<1> QED BY <1>1, Invariant, PTL DEF Spec, TombstoneHolds

\* A tombstone appears only where this Drone's operator removes that peer, or
\* where a removal that names its introducer came from that very peer
\* (record_local_removal, _removal_allowed).
THEOREM RemovalsAreAuthorized == Spec => RemovalIsAuthorized
<1>1. IInv /\ [Next]_vars =>
        [\A p \in Drone : db.records[p].op # "remove" /\ db'.records[p].op = "remove" =>
           \E t \in Thread :
             /\ thr[t].peer = p
             /\ Pc(t) = "remove" \/ (Pc(t) \in {"accept", "reply"} /\ thr[t].batch[p].origin = p)]_vars
  BY NextIInv DEF AuthorizedStep, Authorizes
<1> QED BY <1>1, Invariant, PTL DEF Spec, RemovalIsAuthorized

\* Received epochs never move the mint clock: it moves by one, together with
\* the dirty generation, when this Drone mints (_mint, #669).
THEOREM ClockIsLocal == Spec => ClockTicksOnlyByMint
<1>1. IInv /\ [Next]_vars =>
        [db'.clock # db.clock => db'.clock = db.clock + 1 /\ db'.dirty = db.dirty + 1]_vars
  BY NextIInv DEF ClockStep
<1> QED BY <1>1, Invariant, PTL DEF Spec, ClockTicksOnlyByMint

\* Where operations do not overlap, a pin changes only by a pairing of that very
\* peer, however many peers there are and whatever they gossip: the rows that the
\* unlocked writers take for current are the only way around it (_apply_add,
\* save_paired_peer).
THEOREM PinsMoveOnlyByPairing == ASSUME OneThread PROVE Spec => PinMovesOnlyByPairing
<1>1. IInv /\ SerialInv /\ [Next]_vars =>
        [\A p \in Drone :
           Paired(db.rows[p]) /\ Paired(db'.rows[p]) /\ db.rows[p].fp # db'.rows[p].fp =>
             \E t \in Thread : Pc(t) = "save" /\ thr[t].peer = p /\ thr[t].row.fp = db'.rows[p].fp]_vars
  BY NextSerial DEF PinStep
<1>2. IInv /\ SerialInv /\ [Next]_vars => SerialInv'
  BY NextSerial
<1> QED BY <1>1, <1>2, InitSerial, Invariant, PTL DEF Spec, PinMovesOnlyByPairing

=============================================================================
