SPECIFICATION Spec
CONSTANTS
  Extras <- MCExtras
  NoLog = NoLog
INVARIANTS
  TypeOK
  Interlock
  CrossingRecorded
  LogAgrees
PROPERTIES
  ImplementsAirlock
