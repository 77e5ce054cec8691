---------------------------- MODULE MCMessageBus ----------------------------
(***************************************************************************)
(* Small instances of MessageBus.  In all of them the bus "root" has one   *)
(* child, and s listens to both sinks of the root.                         *)
(***************************************************************************)
EXTENDS MessageBus, TLC

CONSTANTS root, child,        \* buses
          pub, work, exact,   \* channels
          h1, h2, h3, t, s,   \* handlers
          m1, m2              \* messages

Buses == {root, child}
Parents == child :> root
Handlers == {h1, h2, h3, t, s}
Sinks == {DLC(b) : b \in Buses} \cup {IMC(b) : b \in Buses}
OfRoot == {DLC(root), IMC(root)}

NoHeader == [m \in Message |-> None]
NoErrorOutput == [h \in Handlers |-> None]

\* Flow: the child's pub is broadcast to h1 and h2; h1 passes messages on to
\* the root's work, where h3 consumes them.  h1 and the tap t may throw.  The
\* child also registers work under a name of its own: destroying the child
\* destroys work too.
FlowChannels == {pub, work}
FlowOwner == pub :> child @@ work :> root
FlowStyle == pub :> "pubsub" @@ work :> "default"
FlowComponents == child :> {pub, work} @@ root :> {work}
FlowOutput == [h \in Handlers |-> IF h = h1 THEN work ELSE Noop]
FlowWiring ==
  [c \in FlowChannels \cup Sinks |->
     CASE c = pub -> <<h1, h2>> [] c = work -> <<h3>>
       [] c \in OfRoot -> <<s>> [] OTHER -> <<>>]
FlowMutable == {<<pub, h1>>, <<pub, h2>>}
FlowTappable == {<<pub, t>>, <<work, t>>}

\* Line: point to point only.  The child's work goes to h1 or h2; h1 passes on
\* to the root's exact, a direct channel with the handler h3, which sends back
\* to work: the way of a message is as long as the stack allows.  h2 replies to
\* where the message says.  Errors of h2 go to pub, where nobody listens, those
\* of h3 to a channel that does not exist, those of h1 where the message says.
LineChannels == {work, exact, pub}
LineOwner == work :> child @@ exact :> root @@ pub :> child
LineStyle == work :> "default" @@ exact :> "direct" @@ pub :> "pubsub"
LineComponents == child :> {work, pub} @@ root :> {exact}
LineOutput ==
  [h \in Handlers |-> CASE h = h1 -> exact [] h = h2 -> None [] h = h3 -> work [] OTHER -> Noop]
LineErrorOutput ==
  [h \in Handlers |->
     CASE h = h2 -> pub [] h = h3 -> Missing [] OTHER -> None]
LineWiring ==
  [c \in LineChannels \cup Sinks |->
     CASE c = work -> <<h1, h2>> [] c = exact -> <<h3>>
       [] c \in OfRoot -> <<s>> [] OTHER -> <<>>]
LineMutable == {<<work, h1>>, <<work, h2>>}
LineReplyTo == m1 :> Missing @@ m2 :> exact
LineErrorTo == m1 :> None @@ m2 :> Noop
LineTappable == {<<work, t>>}

\* The kinds of wiring the properties of each instance are about.
ASSUME FlowKind == AppChannel = FlowChannels => OnlyReported /\ NothingLeaks
ASSUME LineKind == AppChannel = LineChannels => PointToPoint
=============================================================================
