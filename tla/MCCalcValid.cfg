SPECIFICATION Spec
CONSTANTS
  Servers <- MCOneServer
  Clients <- MCOneClient
  INT_MAX = 11
  OPND_LEN = 3
  Operands <- MCBoundary
  Operators <- MCAllOperators
  MaxPulses = 0
INVARIANTS
  ValidOperandsAccepted
