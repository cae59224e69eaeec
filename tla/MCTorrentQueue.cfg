SPECIFICATION FairSpec
CONSTANTS
  t1 = t1
  g1 = g1
  g2 = g2
  g3 = g3
  g4 = g4
  g5 = g5
  NoGid = NoGid
  NoRow = NoRow
  Torrent = {t1}
  Gid = {g1, g2, g3, g4, g5}
  RowId = {1, 2, 3}
  Slots = 1
  Setting <- Settings
INVARIANT RemovedStaysRemoved
PROPERTY HiddenComesToLight
CHECK_DEADLOCK FALSE
