\* Two clients, a history of two of three events, two connections each.
SPECIFICATION FairSpec
CONSTANTS
  Clients = {c1, c2}
  MaxSize = 2
  MaxWire = 1
  CancelOnDisconnect = TRUE
  MaxEvents = 3
  MaxConnects = 2
INVARIANTS
  TypeOK
  GapsAreEvictions
  EndMeansComplete
PROPERTIES
  FeedIsOrdered
  SubscribersDrain
CHECK_DEADLOCK FALSE
