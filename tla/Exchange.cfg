SPECIFICATION Spec
CONSTANTS
  h1 = h1  h2 = h2  None = None
  MaxWords = 3
  Handler = {h1, h2}
  Subscription <- Subscriptions
  Topic <- Topics
  Match <- Matcher
  Documented <- Documentation
  Strategies = {"broadcast", "unicast"}
  Initial <- AnyInitial
  Mutable <- Changes
  MaxDepth = 2
  MaxCalls = 3
INVARIANTS
  TypeOK
  StayersServed
  CalledAsSubscribed
  TakenMeansCalled
\* The application may have nothing left to send.
CHECK_DEADLOCK FALSE
