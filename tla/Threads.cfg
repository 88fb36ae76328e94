SPECIFICATION Spec
CONSTANTS
  Callers <- TwoCallers
  VipThreadIds <- FourRuns
  RollbackThreadIds <- TwoRollbacks
  Starts = 2
  NULL = "NULL"
INVARIANTS
  TypeOK
  NoAddressLeft
  ServingNodeHasAddress
  NoJoinCycle
PROPERTIES
  StopEnds
CHECK_DEADLOCK FALSE
