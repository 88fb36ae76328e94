SPECIFICATION Spec
CONSTANTS
  Nodes <- TwoNodes
  Priority <- HighFirst
  AutoRollback <- TwoNodes
  AutoLoad <- TwoNodes
  Limit <- StopLimit
INVARIANTS
  TypeOK
  IpMatchesRole
  AtMostOneMaster
  RollbackTargetIsFirst
PROPERTIES
  ImplementsFloatingIp
CHECK_DEADLOCK FALSE
