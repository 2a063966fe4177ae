SPECIFICATION ListenerSpec
CONSTANTS
  Ips <- MCIps
  Opts <- MCOpts
  Valid <- MCValid
  DefaultIp = 1
  Environments <- MCEnvironments
  MaxChanges = 2
  MaxCrashes = 1
  MaxStock = 1
  Workers = {w1, w2}
  MaxFailures = 1
  None = None
INVARIANTS
  KeptOnlyIfConfirmed
  NoOrphanedChange
  AddressTracksFirmware
PROPERTIES
  WritesAreRecorded
  RecordIsSettled
  ListenerRecovers
CHECK_DEADLOCK FALSE
