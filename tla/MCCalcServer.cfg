SPECIFICATION Spec
CONSTANTS
  Servers = {s1, s2}
  Clients = {c1, c2}
  INT_MAX = 11
  OPND_LEN = 3
  Operands <- MCOneOperand
  Operators <- MCTwoOperators
  MaxPulses = 1
SYMMETRY MCSymmetry
INVARIANTS
  FailsOnlyWithoutServer
  BlockedIsHeard
