SPECIFICATION Spec
CONSTANTS
  None = None
  s1 = s1
  s2 = s2
  requests = requests
  responses = responses
  PublishCalls = {}
  SubscribeCalls = {s1, s2}
  CloseCalls = {}
  TopicOf <- TwoTopics
  Capacity = 1
  MaxMessages = 1
PROPERTIES
  Resubscribes
CHECK_DEADLOCK FALSE
