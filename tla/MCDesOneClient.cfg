SPECIFICATION FairSpec
CONSTANTS
  Clients = {c1}
  NoClient = NoClient
  Pulse = Pulse
  Typed <- MCTyped
  Extras <- MCExtras
  NoLog = NoLog
  MaxPulses = 2
  MaxCrashes = 1
  MaxDisplays = 1
INVARIANTS
  NumberAccepted
PROPERTIES
  AirlockBetweenDeaths
  ScreenSettles
