SPECIFICATION Spec
CONSTANTS
  None = None
  s1 = s1
  s2 = s2
  requests_n = requests_n
  responses_n = responses_n
  PublishCalls = {p1}
  SubscribeCalls = {s1, s2}
  CloseCalls = {c1, c2}
  Queue <- DuplexQueues
  Capacity = 1
  MaxMessages <- Arrivals
INVARIANTS
  TypeOK
  FanoutIsComplete
PROPERTIES
  EverythingSettles
CHECK_DEADLOCK FALSE
