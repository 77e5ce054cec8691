SPECIFICATION Spec
CONSTANTS
  d1 = d1  d2 = d2
  h1 = h1  h2 = h2
  None = None
  Destination = {d1}
  Handler = {h1}
  Ack = "auto"
  Patient = FALSE
  Reentrant = FALSE
  MayFail = FALSE
  Disposable = FALSE
  MaxId = 4
  MaxMessages = 0
  MaxLink = 0
  MaxNotices = 1
INVARIANTS
  AlreadySubscribed
\* The application may have nothing left to do.
CHECK_DEADLOCK FALSE
