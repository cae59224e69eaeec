SPECIFICATION Spec
CONSTANTS
  A = A
  B = B
  disk1 = disk1
  disk2 = disk2
  uuid = uuid
  board = board
  a1 = a1
  a2 = a2
  b1 = b1
  b2 = b2
  Primary = {uuid}
  Secondary = {board}
  Digest = {a1, a2, b1, b2}
  Machine = {A, B}
  Disk = {disk1, disk2}
  Installed = {A}
  Fitted <- MCFitted
  Owned <- MCOwned
  MaxToken = 6
  Site <- UndisturbedSite
INVARIANTS HeldNodeIsReleased
CHECK_DEADLOCK FALSE
