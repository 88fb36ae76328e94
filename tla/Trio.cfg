SPECIFICATION Spec
CONSTANTS
  Nodes <- ThreeNodes
  Priority <- Descending
  AutoRollback = {}
  AutoLoad <- ThreeNodes
  Limit <- CrashLimit
INVARIANTS
  QuiescentListsAgree
  OneSuccessor
PROPERTIES
  BackupKnowsEveryone
CHECK_DEADLOCK FALSE
