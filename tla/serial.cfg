\* One control-plane request at a time, heartbeats in time, crashes anywhere.
SPECIFICATION Spec
CONSTANTS
  Tasks = {t1}
  Workers = {w1, w2}
  NoWorker = NoWorker
  Patches = {p1, p2}
  NoPatch = NoPatch
  Controllers = {c1}
  FaultKinds <- Crashes
  MaxFaults = 1
  MaxAttempts = 2
  MaxClaims = 3
SYMMETRY Symmetry
INVARIANT TypeOK
INVARIANT OneExecutor
INVARIANT HandoffIsEvidence
PROPERTY StatusFollowsLifecycle
