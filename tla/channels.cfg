\* A message delivered twice, one of another connection and a /new there, in the
\* same chat; three slots, one expired key, one failure.
SPECIFICATION FairSpec
CONSTANTS
  p1 = p1
  p2 = p2
  p3 = p3
  q1 = q1
  r1 = r1
  n1 = n1
  p = p
  q = q
  r = r
  n = n
  chat = chat
  here = here
  there = there
  NoDelivery = NoDelivery
  Deliveries <- MCDeliveries
  MessageOf <- MCMessageOf
  ConversationOf <- MCConversationOf
  MappingOf <- MCMappingOf
  Commands = {n}
  Streaming = {r}
  MaxConcurrency = 3
  MaxExpiries = 1
  MaxFailures = 1
INVARIANTS
  TypeOK
  OneAtATime
  RememberedIsHandled
  OneThread
PROPERTIES
  AcceptedIsAnswered
CHECK_DEADLOCK FALSE
