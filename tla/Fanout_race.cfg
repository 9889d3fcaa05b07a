SPECIFICATION Spec
CONSTANTS
  None = None
  s1 = s1
  s2 = s2
  responses = responses
  Subscribers = {s1, s2}
  TopicOf <- OneTopic
  Capacity = 3
  MaxMessages = 3
INVARIANTS
  ActiveUntilDropped
CHECK_DEADLOCK FALSE
