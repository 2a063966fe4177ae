SPECIFICATION Spec
CONSTANTS
  Cards = {c1, c2}
  Plain = {s1}
  Operator <- OwnOperator
  MaxSwaps = 2
  MaxChanges = 2
  MaxFaults = 1
  None = None
PROPERTIES
  StatusFollowsSim
CHECK_DEADLOCK FALSE
