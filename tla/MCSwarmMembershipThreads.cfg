SPECIFICATION FairSpec
CONSTANTS
  me = me
  peerA = peerA
  peerB = peerB
  health = health
  t1 = t1
  t2 = t2
  fpD = fpD
  fpP1 = fpP1
  fpP2 = fpP2
  Drone = {me, peerA}
  Self = me
  Fp = {fpD, fpP1, fpP2}
  NoFp = NoFp
  Own = fpD
  Thread = {health, t1}
  Health = health
  Server = {t1}
  Peering <- OnePeering
  LegacyRow <- NoLegacyRow
  LegacyFlag = {FALSE}
  WireRecord <- TwoWireRecords
  MaxEpoch = 20
  Ahead = 2
  FarClock = 5
  LegitCap = 8
  MaxClock = 3
  MaxCrash = 1
PROPERTIES RemovedPeerLeaves MemberReturns TombstoneHolds
INVARIANT MintedWithinReach
