SPECIFICATION Spec
CONSTANTS
  Nodes <- TwoNodes
  Priority <- HighFirst
  AutoRollback <- TwoNodes
  AutoLoad <- TwoNodes
  Limit <- CutCrashLimit
INVARIANTS
  PendingRollbackHasTarget
CHECK_DEADLOCK FALSE
