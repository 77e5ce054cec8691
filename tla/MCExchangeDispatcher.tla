------------------------ MODULE MCExchangeDispatcher ------------------------
(***************************************************************************)
(* Small instances of ExchangeDispatcher, with the topical matcher: one    *)
(* handler and any subscription of up to MaxWords words, or subscriptions  *)
(* that overlap, shared and changed by two handlers.                       *)
(***************************************************************************)
EXTENDS ExchangeDispatcher, TopicMatcher, TLC

CONSTANTS MaxWords,  \* bound: the words of a subscription
          h1, h2     \* handlers

Words(n, word) == UNION {[1..k -> word] : k \in n}
Subscriptions == Words(1..MaxWords, {"a", "*", "#"})
Topics ==
  Words(0..2, {"a", "b"})
    \cup {<<"a", "b", "a">>, <<"b", "b", "a">>, <<"a", "b", "b">>}

Matcher == [s \in Subscriptions, t \in Topics |-> Topical(s, t)]
Documentation == [s \in Subscriptions, t \in Topics |-> DocumentedMatch(s, t)]

OneEach == {s :> <<h1>> : s \in Subscriptions}
Overlapping == {<<"a">> :> <<h1, h2>> @@ <<"#">> :> <<h1>> @@ <<"*">> :> <<h2>>}
AnyInitial == OneEach \cup Overlapping
Changes == {<<<<"a">>, h2>>, <<<<"#">>, h1>>}
=============================================================================
