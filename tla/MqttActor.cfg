SPECIFICATION Spec
CONSTANTS
  None = None
  s1 = s1
  s2 = s2
  requests_n = requests_n
  responses_n = responses_n
  PublishCalls = {p1}
  SubscribeCalls = {s1, s2}
  CloseCalls = {c1}
  Topic <- DuplexTopics
  Refusable = {responses_n}
  RequestCapacity = 8
  MaxLosses = 1
  MaxFailures = 1
INVARIANTS
  TypeOK
  ConfirmedAtFirst
  PendingIsAnswerable
  SubscriptionsRestored
PROPERTIES
  EveryCallReturns
CHECK_DEADLOCK FALSE
