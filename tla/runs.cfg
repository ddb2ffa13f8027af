\* Two runs of a thread, cancelled at any time.
SPECIFICATION FairSpec
CONSTANTS
  MaxRuns = 2
  FaultKinds <- AllFaults
  MaxFaults = 1
INVARIANTS
  TypeOK
  OneWriter
  RolledBackIsGone
  ActiveRowsAreOwned
PROPERTIES
  ContentsAreAtomic
  StartedRunsEnd
CHECK_DEADLOCK FALSE
