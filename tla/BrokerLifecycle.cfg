SPECIFICATION Spec
CONSTANTS
  h1 = h1
  h2 = h2
  h3 = h3
  Handles <- ThreeHandles
  First = h1
INVARIANTS
  TypeOK
  OneRunWaits
PROPERTIES
  ShutdownEndsRuns
  ShutdownEndsTasks
CHECK_DEADLOCK FALSE
