SPECIFICATION Spec
CONSTANTS
  Retries = 7
  Retry = TRUE
INVARIANTS
  AtLeastOnceAudited
PROPERTY
  KeepsPromise
CHECK_DEADLOCK FALSE
