SPECIFICATION FairSpec
CONSTANTS
  Servers <- MCOneServer
  Clients <- MCClients
  INT_MAX = 3
  OPND_LEN = 3
  Operands <- MCLimits
  Operators <- MCThreeOperators
  MaxPulses = 1
INVARIANTS
  AnswersOwnQuestion
  CalculateExact
PROPERTIES
  Released
