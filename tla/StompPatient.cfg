SPECIFICATION FairSpec
CONSTANTS
  d1 = d1  d2 = d2
  h1 = h1  h2 = h2
  None = None
  Destination = {d1, d2}
  Handler = {h1, h2}
  Ack = "auto"
  Patient = TRUE
  Reentrant = FALSE
  MayFail = FALSE
  Disposable = FALSE
  MaxId = 5
  MaxMessages = 1
  MaxLink = 1
  MaxNotices = 2
PROPERTIES
  SubscribedIsNoticed
\* The application may have nothing left to do.
CHECK_DEADLOCK FALSE
