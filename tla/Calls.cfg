SPECIFICATION Spec
CONSTANTS
  Nodes <- ThreeNodes
  Priority <- Descending
  AutoRollback = {}
  ProfileNames = {"internal", "external", "lan", "unknown"}
  SipProfiles = {"internal", "external", "lan"}
  MAX_SOFIA_PROFILES = 2
  Calls <- TwoCalls
  ProfileOf <- OneOfEach
  Files <- FilesRead
  Scenarios <- FallsAndReturns
INVARIANTS
  TypeOK
  BackupsCanRecover
  SteadyBackupsHoldNoGhosts
  OwedCallsSurvive
  OneHolderPerCall
  OnlyServersHoldCalls
  ProfilesAreFirstValid
CHECK_DEADLOCK FALSE
