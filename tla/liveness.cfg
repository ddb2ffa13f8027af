\* Fair processes, one worker fault.
SPECIFICATION FairSpec
CONSTANTS
  Tasks = {t1}
  Workers = {w1, w2}
  NoWorker = NoWorker
  Patches = {p1}
  NoPatch = NoPatch
  Controllers = {c1}
  FaultKinds <- WorkerFaults
  MaxFaults = 1
  MaxAttempts = 1
  MaxClaims = 3
INVARIANT ClaimIsNewest
PROPERTY ResultsAreFenced
PROPERTY QueuedIsExecuted
PROPERTY LeasesEnd
