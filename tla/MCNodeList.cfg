SPECIFICATION Spec
CONSTANTS
  Nodes <- SixNodes
  Priority <- TiedPriority
INVARIANTS
  ListIsOrderedSet
PROPERTIES
  OrderIsStable
  NewcomerLeadsItsEquals
