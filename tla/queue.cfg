\* Two threads that call the queue three times each, and two flushes.
SPECIFICATION FairSpec
CONSTANTS
  Keys = {k1, k2}
  MaxCalls = 3
  MaxFlushes = 2
INVARIANTS
  TypeOK
  NewestIsKept
PROPERTIES
  AppliedInOrder
  QueueDrains
CHECK_DEADLOCK FALSE
