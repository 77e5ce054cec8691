SPECIFICATION Spec
CONSTANTS
  d1 = d1  d2 = d2
  h1 = h1  h2 = h2
  None = None
  Destination = {d1, d2}
  Handler = {h1, h2}
  Ack = "client"
  Patient = FALSE
  Reentrant = TRUE
  MayFail = TRUE
  Disposable = TRUE
  MaxId = 5
  MaxMessages = 1
  MaxLink = 1
  MaxNotices = 2
SYMMETRY Symmetry
INVARIANTS
  TypeOK
  Lockstep
  OneServerSubscription
  InStep
  ReceiptsOnTheirWay
  ConfirmedBeforeNotice
  AnsweredAsHandled
\* The application may have nothing left to do.
CHECK_DEADLOCK FALSE
