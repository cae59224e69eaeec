------------------------ MODULE MCSwarmMembership ------------------------
(* Instances of SwarmMembership: this Drone is "me", with one or two peers.         *)
EXTENDS SwarmMembership

CONSTANTS me, peerA, peerB, health, t1, t2, fpD, fpP1, fpP2

PeerCard(f, tail) == [fp |-> f, pem |-> f, tls |-> TRUE, tail |-> tail]

MCRecord(op, epoch, card) ==
  [op |-> op, epoch |-> epoch, origin |-> peerA, card |-> card, remote |-> FALSE]

\* The peer's first certificate, its second one after it rotated it, and its
\* own departure as releases before this one announce it.
MCWireRecord ==
  {MCRecord("add", 1, PeerCard(fpP2, FALSE)), MCRecord("add", 4, PeerCard(fpP1, FALSE)),
   MCRecord("remove", 3, PeerCard(fpP1, FALSE))}

MCRow(f, tail, source) == [fp |-> f, tls |-> TRUE, tail |-> tail, source |-> source]

MCPeering == {MCRow(fpP1, FALSE, "local_network"), MCRow(fpP2, TRUE, "tailnet")}
MCLegacyRow == {MCRow(fpP1, FALSE, "local_network")}
NoLegacyRow == {}
OnePeering == {MCRow(fpP1, FALSE, "local_network")}
TwoWireRecords == {MCRecord("add", 4, PeerCard(fpP1, FALSE)), MCRecord("remove", 3, PeerCard(fpP1, FALSE))}
=============================================================================
