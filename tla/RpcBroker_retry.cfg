SPECIFICATION Safety
CONSTANTS
  None = None
  alice = alice
  bob = bob
  c1 = c1
  c2 = c2
  c3 = c3
  m1 = m1
  v1 = v1
  Nodes = {alice, bob}
  Mode <- ClientServerMode
  Methods = {m1}
  Calls = {c1, c2, c3}
  Caller <- FromBoth
  Target <- ToOther
  Method <- SameMethod
  Values = {v1}
  Ids = {i1, i2, i3, i4}
  RetryConfigured = TRUE
  MaxAttempts = 1
  Strays <- TwoStrays
SYMMETRY IdSymmetry
INVARIANTS
  WaiterIsPending
  OwnAnswer
  IInv
  RetryDiscipline
CHECK_DEADLOCK FALSE
