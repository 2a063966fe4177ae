SPECIFICATION Spec
CONSTANTS
  Targets <- MCTargets
  Writes <- MCWrites
  Releases = {1, 2}
  Bounds <- MCBounds
  None = None
INVARIANTS
  Recoverable
PROPERTIES
  ReportIsTrue
  StopIsKept
  OperationEnds
