SPECIFICATION Spec
CONSTANTS
  None = None
  s1 = s1
  s2 = s2
  requests_n = requests_n
  responses_n = responses_n
  PublishCalls = {p1, p2}
  SubscribeCalls = {s1, s2}
  CloseCalls = {}
  Topic <- DuplexTopics
  Refusable = {}
  RequestCapacity = 1
  MaxLosses = 0
  MaxFailures = 0
PROPERTIES
  EveryCallReturns
CHECK_DEADLOCK FALSE
