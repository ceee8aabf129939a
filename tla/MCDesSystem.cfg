SPECIFICATION FairSpec
CONSTANTS
  Clients = {c1, c2}
  NoClient = NoClient
  Pulse = Pulse
  Typed <- MCScan
  Extras <- MCExtras
  NoLog = NoLog
  MaxPulses = 2
  MaxCrashes = 1
  MaxDisplays = 0
INVARIANTS
  BlockedAccountedFor
  ScreenAgrees
PROPERTIES
  BlockedMovesUp
  ClientReleased
