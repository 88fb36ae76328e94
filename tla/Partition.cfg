SPECIFICATION FairSpec
CONSTANTS
  Nodes <- TwoNodes
  Priority <- HighFirst
  AutoRollback <- TwoNodes
  AutoLoad <- TwoNodes
  Limit <- CutLimit
PROPERTIES
  IsolatedNodeYields
  SplitBrainEnds
CHECK_DEADLOCK FALSE
