SPECIFICATION Spec
CHECK_DEADLOCK FALSE
CONSTANTS
  Procs <- MCProcs
  MaxSignals = 2
INVARIANTS
  SignalCaught
