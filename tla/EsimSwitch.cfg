SPECIFICATION Spec
CONSTANTS
  p1 = p1
  p2 = p2
  p3 = p3
  e1 = e1
  e2 = e2
  Eids = {e1, e2}
  Profiles = {p1, p2, p3}
  OnCard <- TwoAndOne
  Backlog <- OneTwo
  MaxOps = 2
  Bounds <- MCBounds
  None = None
INVARIANTS
  NothingChangedIsTrue
  NeverReplayed
  ReceiptsOnlyForOwnChanges
PROPERTIES
  SucceededIsTrue
  OperationSettles
CHECK_DEADLOCK FALSE
