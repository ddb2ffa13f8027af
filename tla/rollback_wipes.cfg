\* Two runs, no faults.
SPECIFICATION Spec
CONSTANTS
  MaxRuns = 2
  FaultKinds <- NoFaults
  MaxFaults = 0
PROPERTY RollbackRestores
CHECK_DEADLOCK FALSE
