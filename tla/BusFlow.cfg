SPECIFICATION Spec
CONSTANTS
  root = root   child = child
  pub = pub  work = work  exact = exact
  h1 = h1  h2 = h2  h3 = h3  t = t  s = s
  m1 = m1  m2 = m2
  None = None  Noop = Noop  Missing = Missing  Gone = Gone
  Bus <- Buses
  Root = root
  Parent <- Parents
  AppHandler <- Handlers
  AppChannel <- FlowChannels
  Owner <- FlowOwner
  Style <- FlowStyle
  Components <- FlowComponents
  Output <- FlowOutput
  ErrorOutput <- NoErrorOutput
  Wiring <- FlowWiring
  Throwers = {h1, t}
  Actors = {h1, h2, h3, t}
  Message = {m1, m2}
  ReplyTo <- NoHeader
  ErrorTo <- NoHeader
  Entry = {pub, work}
  Mutable <- FlowMutable
  Tappable <- FlowTappable
  Disposable = {child}
  Rooms = {30}
INVARIANTS
  TypeOK
  NoDoubleDelivery
  InvalidOnlyAfterFault
  NoSilentLoss
PROPERTIES
  EveryoneIsCalled
\* The application may have nothing left to send.
CHECK_DEADLOCK FALSE
