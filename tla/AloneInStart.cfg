SPECIFICATION FairSpec
CONSTANTS
  Nodes <- TwoNodes
  Priority <- HighFirst
  AutoRollback <- TwoNodes
  AutoLoad <- TwoNodes
  Limit <- TinyLimit
PROPERTIES
  AloneBecomesMaster
CHECK_DEADLOCK FALSE
