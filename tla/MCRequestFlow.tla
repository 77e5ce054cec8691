---------------------------- MODULE MCRequestFlow ----------------------------
(***************************************************************************)
(* A flow of RequestFlow with each kind of endpoint: a chain checks and    *)
(* completes an order, a splitter cuts it into items, two services share   *)
(* these, an aggregator puts the answers together and a router sends them  *)
(* to the one who asked.  A router at the desk sends an order on, drops it *)
(* or, after a copy to refused, names a channel that does not resolve.     *)
(* Quotes are wired less well: their answers end in a chain that is over   *)
(* or at the aggregator, which has no use for them.                        *)
(***************************************************************************)
EXTENDS RequestFlow

CONSTANTS
  c1, c2,                          \* calls
  orders, quotes, checked, cut, items, done, ready, refused,  \* channels
  order, quote, check, complete, desk, splitter, s1, s2, aggregator, router  \* endpoints

Channels == {orders, quotes, checked, cut, items, done, ready, refused}
Endpoints == {order, quote, check, complete, desk, splitter, s1, s2, aggregator, router}

KindOf ==
  order :> "chain" @@ quote :> "chain" @@ check :> "filter" @@ complete :> "transformer"
    @@ desk :> "router" @@ splitter :> "splitter" @@ s1 :> "service" @@ s2 :> "service"
    @@ aggregator :> "aggregator" @@ router :> "router"
OutputOf ==
  order :> checked @@ splitter :> items @@ s1 :> done @@ s2 :> done @@ aggregator :> ready
    @@ [e \in Endpoints |-> None]
ErrorsOf == splitter :> refused @@ [e \in Endpoints |-> None]
DiscardOf == check :> refused @@ [e \in Endpoints |-> None]
StagesOf ==
  order :> <<check, complete>> @@ quote :> <<check, s1>> @@ [e \in Endpoints |-> <<>>]
RoutesOf == desk :> {<<cut>>, <<>>, <<refused, None>>} @@ [e \in Endpoints |-> {}]
Subscribed ==
  orders :> <<order>> @@ quotes :> <<quote>> @@ checked :> <<desk>> @@ cut :> <<splitter>>
    @@ items :> <<s1, s2>> @@ done :> <<aggregator>> @@ ready :> <<router>>
    @@ refused :> <<>>
Moves == {<<items, s1>>, <<quotes, s2>>, <<ready, router>>}

\* Without the list of two recipients this is a wiring of the kind that the theorems
\* about the flow are for.
ASSUME SplitKind == PartsCollected
ASSUME AnswerKind == AnswersAreMade
=============================================================================
