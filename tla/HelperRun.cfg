SPECIFICATION Spec
CONSTANTS
  None = None
  Segments = 2
  Bounds <- Scenarios
  CloseAllowance = 3
  Margin <- Margins
  Grace = 5
INVARIANTS
  LeakIsReported
  OrderFollowsUser
PROPERTIES
  KeepsPromise
  InstallRunsToTheEnd
  RunEnds
CHECK_DEADLOCK FALSE
