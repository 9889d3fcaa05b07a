SPECIFICATION Spec
CONSTANTS
  None = None
  Builders <- VariousBuilders
  DefaultRetry <- ScaledDefaults
  MaxPublish = 1
INVARIANTS
  TypeOK
  BackoffSchedule
  WorstCase
  RetryIffAsked
PROPERTIES
  CallEnds
CHECK_DEADLOCK FALSE
