SPECIFICATION Spec
CONSTANTS
  Eids = {e1, e2}
  Bounds <- MCBounds
  None = None
INVARIANTS
  InstalledOnlyIfConfirmed
  OutcomeIsTrue
  InstallReceiptQueued
PROPERTIES
  DownloadSettles
CHECK_DEADLOCK FALSE
