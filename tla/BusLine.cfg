SPECIFICATION FairSpec
CONSTANTS
  root = root   child = child
  pub = pub  work = work  exact = exact
  h1 = h1  h2 = h2  h3 = h3  t = t  s = s
  m1 = m1  m2 = m2
  None = None  Noop = Noop  Missing = Missing  Gone = Gone
  Bus <- Buses
  Root = root
  Parent <- Parents
  AppHandler <- Handlers
  AppChannel <- LineChannels
  Owner <- LineOwner
  Style <- LineStyle
  Components <- LineComponents
  Output <- LineOutput
  ErrorOutput <- LineErrorOutput
  Wiring <- LineWiring
  Throwers = {h1, h2, h3}
  Actors = {h1, h2, h3, t}
  Message = {m1, m2}
  ReplyTo <- LineReplyTo
  ErrorTo <- LineErrorTo
  Entry = {work}
  Mutable <- LineMutable
  Tappable <- LineTappable
  Disposable = {}
  Rooms = {1, 2, 3, 4, 5, 6, 7, 8, 12}
INVARIANTS
  Coherent
  SendContainsErrors
  OneFate
PROPERTIES
  SendReturns
\* The application may have nothing left to send.
CHECK_DEADLOCK FALSE
