SPECIFICATION Spec
CONSTANTS
  Options = {"ssid", "key", "wifi_onoff"}
  MaxRequests = 2
  MaxFirmware = 1
  MaxFaults = 2
  Packages <- CommitOrder
  PackageOf <- PackageOfOption
  None = None
INVARIANTS
  NothingLeaks
PROPERTIES
  AllOrNothing
CHECK_DEADLOCK FALSE
