\* Two calls on the gateway's loop and one on a loop of its own, for any of
\* two keys; room for one session, one call that closes, and one call that is
\* cancelled or one connection that breaks.
SPECIFICATION Spec
CONSTANTS
  g1 = g1
  g2 = g2
  s1 = s1
  gateway = gateway
  short = short
  Keys = {browser, files}
  Calls <- MCCalls
  LoopOf <- MCLoopOf
  ShortLived <- MCShortLived
  MaxSessions = 1
  MaxCloses = 1
  MaxFaults = 1
SYMMETRY Symmetry
INVARIANTS
  TypeOK
  EntriesAreKept
  NoOwnerLost
CHECK_DEADLOCK FALSE
