SPECIFICATION FairSpec
CONSTANTS
  g1 = g1
  g2 = g2
  NoGuest = NoGuest
  Mute = FALSE
  Guest = {g1, g2}
  Setting <- Lasting
PROPERTIES
  StartingEnds
  GuestsHearTheEnd
CHECK_DEADLOCK FALSE
