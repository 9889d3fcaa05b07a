SPECIFICATION Spec
CONSTANTS
  None = None
  alice = alice
  bob = bob
  c1 = c1
  c2 = c2
  c3 = c3
  m1 = m1
  v1 = v1
  Nodes = {alice, bob}
  Mode <- DuplexMode
  Methods = {m1}
  Calls = {c1}
  Caller <- OneFromAlice
  Target <- OneToBob
  Method <- OneMethod
  Values = {v1, v2}
  Ids = {i1, i2}
  RetryConfigured = TRUE
  MaxAttempts = 1
  Strays <- NoStrays
INVARIANTS
  LeakIsBounded
PROPERTIES
  FirstAnswerWins
  EveryCallReturns
  ImplementsService
CHECK_DEADLOCK FALSE
