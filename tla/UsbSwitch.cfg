SPECIFICATION UsbSpec
CONSTANTS
  Slots = {"f1", "f2", "f3"}
  Adb = "adb"
  UsbBounds <- Scenarios
  None = None
INVARIANTS
  BrokenIsReported
PROPERTIES
  RestoredIsRestored
  ChangeEnds
CHECK_DEADLOCK FALSE
