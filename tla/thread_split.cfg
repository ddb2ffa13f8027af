\* A message delivered again after its thread could not be looked up or created;
\* one connection, no /new.
SPECIFICATION Spec
CONSTANTS
  p1 = p1
  p2 = p2
  p3 = p3
  q1 = q1
  r1 = r1
  n1 = n1
  p = p
  q = q
  r = r
  n = n
  chat = chat
  here = here
  there = there
  NoDelivery = NoDelivery
  Deliveries <- MCThrice
  MessageOf <- MCThriceOf
  ConversationOf <- MCConversationOf
  MappingOf <- MCMappingOf
  Commands = {}
  Streaming = {q}
  MaxConcurrency = 3
  MaxExpiries = 0
  MaxFailures = 1
INVARIANTS
  CreatedOnce
CHECK_DEADLOCK FALSE
