\* Two users of one thread, so that cancelled calls and their successors meet,
\* and a container of another thread that may be left from before.
SPECIFICATION Spec
CONSTANTS
  a = a
  b = b
  x = x
  y = y
  Sandboxes = {x, y}
  Users <- MCUsers
  SandboxOf <- MCSame
  Replicas = 1
  MaxInfos = 3
  MaxCrashes = 1
  MaxCancels = 1
SYMMETRY MCSymmetry
INVARIANTS
  TypeOK
  NoContainerLost
PROPERTIES
  LiveIsKept
CHECK_DEADLOCK FALSE
