SPECIFICATION Spec
CONSTANTS
  Clients = {c1}
  NoClient = NoClient
  Pulse = Pulse
  Typed <- MCScan
  Extras <- MCExtras
  NoLog = NoLog
  MaxPulses = 1
  MaxCrashes = 1
  MaxDisplays = 0
INVARIANTS
  FailedSendNoticed
