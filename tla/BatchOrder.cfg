SPECIFICATION PipeFairSpec
CONSTANTS
  BatchSize = 3
  HasTimeout = TRUE
  Reentrant = FALSE
  OutputMayFail = TRUE
  MaxReceived = 6
  QueueLimit = 2
INVARIANTS
  TypeOK
  InOrder
  AbsoluteSize
  TimerOfThisBatch
  OnePlace
PROPERTIES
  IsLink
  EachIsTaken
\* No further message needs to arrive.
CHECK_DEADLOCK FALSE
