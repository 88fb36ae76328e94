SPECIFICATION Spec
CONSTANTS
  Nodes <- ThreeNodes
  Priority <- Descending
  AutoRollback = {}
  AutoLoad <- ThreeNodes
  Limit <- CrashLimit
INVARIANTS
  AtMostOneMaster
CHECK_DEADLOCK FALSE
