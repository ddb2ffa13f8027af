\* Two threads; no container dies by itself and no call is cancelled.
SPECIFICATION Spec
CONSTANTS
  a = a
  b = b
  x = x
  y = y
  Sandboxes = {x, y}
  Users <- MCUsers
  SandboxOf <- MCOther
  Replicas = 1
  MaxInfos = 3
  MaxCrashes = 0
  MaxCancels = 0
PROPERTIES
  ActiveIsNotStopped
CHECK_DEADLOCK FALSE
