CONSTANTS
  Main = main
  Workers = {w1, w2}
  Kinds <- MCKinds
  LogConfigs <- MCLogConfigs
  Capacity = 2
  MaxStart = 1
  MaxEvents = 3
SPECIFICATION Spec
CHECK_DEADLOCK FALSE
INVARIANTS
  TypeOK
  TrailComplete
  RetentionKept
  OnlyAuditIsVerbatim
PROPERTIES
  FatalReported
  TrailCatchesUp
