SPECIFICATION Spec
CONSTANTS
  h1 = h1  h2 = h2  None = None
  MaxWords = 1
  Handler = {h1, h2}
  Subscription <- Subscriptions
  Topic <- Topics
  Match <- Matcher
  Documented <- Documentation
  Strategies = {"broadcast"}
  Initial <- AnyInitial
  Mutable <- Changes
  MaxDepth = 1
  MaxCalls = 2
INVARIANTS
  ThrowsForHandlers
\* The application may have nothing left to send.
CHECK_DEADLOCK FALSE
