SPECIFICATION Spec
CONSTANTS
  g1 = g1
  g2 = g2
  NoGuest = NoGuest
  Mute = FALSE
  Guest = {g1, g2}
  Setting <- AllSettings
INVARIANTS
  LaunchIsConsented
  SaidIsSo
PROPERTIES
  PlayedBeforePromoted
CHECK_DEADLOCK FALSE
