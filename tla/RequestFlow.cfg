SPECIFICATION FairSpec
CONSTANTS
  c1 = c1  c2 = c2  None = None
  orders = orders  quotes = quotes  checked = checked  cut = cut
  items = items  done = done  ready = ready  refused = refused
  order = order  quote = quote  check = check  complete = complete
  desk = desk  splitter = splitter
  s1 = s1  s2 = s2  aggregator = aggregator  router = router
  Call = {c1, c2}
  Channel <- Channels
  Endpoint <- Endpoints
  Kind <- KindOf
  Output <- OutputOf
  Errors <- ErrorsOf
  Discard <- DiscardOf
  Stages <- StagesOf
  Routes <- RoutesOf
  Entry = {orders, quotes}
  Initial <- Subscribed
  Mutable <- Moves
  Faulty = {s1, splitter}
  Strategies = {"roundRobin", "random", "naiveRoundRobin"}
  PartCounts = {0, 2}
  KeepHeaders = {TRUE, FALSE}
  ReleaseMayFail = TRUE
  MaxChanges = 1
INVARIANTS
  TypeOK
  PendingIsExplained
  BucketsAwaitParts
  TurnsTaken
PROPERTIES
  IsGateway
  CallsSettle
\* The application may have nothing left to ask.
CHECK_DEADLOCK FALSE
