SPECIFICATION Spec
CONSTANTS
  None = None
  p1 = p1
  p2 = p2
  s1 = s1
  s2 = s2
  requests = requests
  responses = responses
  Topics = {requests, responses}
  Publishers = {p1, p2}
  Subscribers = {s1, s2}
  Closers = {c1}
  TopicOf <- SharedInbox
  Messages = 2
  Capacity = 1
INVARIANTS
  TypeOK
  OwedIsDelivered
  InOrderOnce
PROPERTIES
  StableWhilePublishing
  ImplementsContract
  EveryCallReturns
CHECK_DEADLOCK FALSE
