SPECIFICATION Spec
CONSTANTS
  None = None
  p1 = p1
  s1 = s1
  s2 = s2
  responses = responses
  PublishCalls = {p1}
  SubscribeCalls = {s1, s2}
  CloseCalls = {c1}
  Topic <- OneTopic
  Capacity = 1
  MaxRemote = 1
INVARIANTS
  TypeOK
  OncePerReader
  RegisteredIsUpToDate
  ClosedMeansEnded
PROPERTIES
  EverythingSettles
CHECK_DEADLOCK FALSE
