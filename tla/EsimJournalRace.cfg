SPECIFICATION Spec
CONSTANTS
  p1 = p1
  p2 = p2
  p3 = p3
  e1 = e1
  e2 = e2
  Eids = {e1}
  Profiles = {p1}
  OnCard <- OneProfile
  Backlog <- NoBacklog
  MaxOps = 2
  Bounds <- RaceBounds
  None = None
INVARIANTS
  InFlightIsJournaled
CHECK_DEADLOCK FALSE
