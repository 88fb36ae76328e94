SPECIFICATION FairSpec
CONSTANTS
  Nodes <- TwoNodes
  Priority <- HighFirst
  AutoRollback <- TwoNodes
  AutoLoad <- TwoNodes
  Limit <- LiveLimit
PROPERTIES
  StopReleasesIp
  RollbackSwapsRoles
  BackupTakesOver
CHECK_DEADLOCK FALSE
