SPECIFICATION Spec
CONSTANTS
  me = me
  peerA = peerA
  peerB = peerB
  health = health
  t1 = t1
  t2 = t2
  fpD = fpD
  fpP1 = fpP1
  fpP2 = fpP2
  Drone = {me, peerA, peerB}
  Self = me
  Fp = {fpD, fpP1, fpP2}
  NoFp = NoFp
  Own = fpD
  Thread = {health}
  Health = health
  Server = {health}
  Peering <- MCPeering
  LegacyRow <- MCLegacyRow
  LegacyFlag = {FALSE, TRUE}
  WireRecord <- MCWireRecord
  MaxEpoch = 20
  Ahead = 2
  FarClock = 5
  LegitCap = 8
  MaxClock = 2
  MaxCrash = 1
INVARIANT TypeOK
PROPERTIES PinMovesOnlyByPairing RemovalIsAuthorized
