SPECIFICATION Spec
CONSTANTS
  BatchSize = 2
  HasTimeout = FALSE
  Reentrant = TRUE
  OutputMayFail = FALSE
  MaxReceived = 4
INVARIANTS
  AbsoluteSize
\* No further message needs to arrive.
CHECK_DEADLOCK FALSE
