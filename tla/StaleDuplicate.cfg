SPECIFICATION Spec
CONSTANTS
  Nodes <- TwoNodes
  Priority <- Tied
  AutoRollback <- TwoNodes
  AutoLoad <- TwoNodes
  Limit <- RestartLimit
INVARIANTS
  QuiescentPrioritiesDiffer
CHECK_DEADLOCK FALSE
