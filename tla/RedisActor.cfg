SPECIFICATION Spec
CONSTANTS
  None = None
  s1 = s1
  s2 = s2
  requests = requests
  responses = responses
  PublishCalls = {p1}
  SubscribeCalls = {s1, s2}
  CloseCalls = {c1}
  TopicOf <- SharedTopic
  Capacity = 1
  MaxMessages = 3
INVARIANTS
  TypeOK
  RegisteredIsUpToDate
  NoGaps
PROPERTIES
  EveryCallReturns
CHECK_DEADLOCK FALSE
