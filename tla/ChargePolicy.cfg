SPECIFICATION Spec
CONSTANTS
  Full = 3
  Limits = {1, 3}
  Hystereses = {2}
  QueueCap = 2
  Bounds <- MCBounds
  Default <- NoFile
  None = None
PROPERTIES
  EnforcerObeysUser
  FailedUpdateIsUndone
  PolicyEnforced
  UnplugReenables
