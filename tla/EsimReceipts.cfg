SPECIFICATION Spec
CONSTANTS
  Eids = {e1, e2}
  Handles = {h1}
  Clients = {c1}
  q1 = q1
  q2 = q2
  Queuers = {q1, q2}
  MaxRounds = 2
  MaxSeq = 3
  Bounds <- MCBounds
  None = None
INVARIANTS
  OnlyWantedAreSent
  NoOrphanReceipts
PROPERTIES
  QueuedStaysPending
  DeliverySettles
CHECK_DEADLOCK FALSE
