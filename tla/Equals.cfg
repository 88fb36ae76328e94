SPECIFICATION Spec
CONSTANTS
  Nodes <- TwoNodes
  Priority <- Tied
  AutoRollback <- TwoNodes
  AutoLoad <- TwoNodes
  Limit <- EqualsLimit
INVARIANTS
  QuiescentPrioritiesDiffer
CHECK_DEADLOCK FALSE
