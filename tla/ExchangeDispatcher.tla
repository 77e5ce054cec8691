------------------------- MODULE ExchangeDispatcher -------------------------
(***************************************************************************)
(* The dispatcher of the exchange channels (dispatchers/exchange.js): a    *)
(* dispatcher for each subscribed topic, and a dispatch that visits the    *)
(* topics that match the topic of the message.                             *)
(*                                                                         *)
(* A dispatch collects the keys of the topics first and looks each of them *)
(* up when it gets there.  In between handlers run, which may subscribe,   *)
(* unsubscribe, destroy the dispatcher or send another message through it: *)
(* the state holds a stack of dispatches, the innermost first.  The order  *)
(* of Object.keys is left to the JavaScript engine (ES5).                  *)
(***************************************************************************)
EXTENDS HandlerList, Functions

CONSTANTS
  Handler,
  Subscription,  \* the topics handlers may be subscribed to
  Topic,         \* the topics messages may have
  Match,         \* Match[<<s, t>>]: what the topicMatcher says of s and t
  Documented,    \* Documented[<<s, t>>]: what the documentation says of them
  Strategies,    \* the topicDispatchers: "broadcast", "unicast"
  Initial,       \* the subscriptions there may be at first
  Mutable,       \* the pairs <<s, h>> the application may (un)subscribe
  MaxDepth,      \* bound: how deep dispatches nest
  MaxCalls,      \* bound: how many calls the application makes
  None           \* no handler

ASSUME MatchAssumption ==
  {Match, Documented} \subseteq [Subscription \X Topic -> BOOLEAN]
ASSUME StrategyAssumption == Strategies \subseteq {"broadcast", "unicast"}
ASSUME InitialAssumption ==
  /\ \A f \in Initial :
       /\ DOMAIN f \subseteq Subscription
       /\ \A s \in DOMAIN f : f[s] \in Seq(Handler) \ {<<>>} /\ Distinct(f[s])
  /\ Mutable \subseteq Subscription \X Handler
ASSUME BoundAssumption == {MaxDepth, MaxCalls} \subseteq Nat
ASSUME NoneAssumption == None \notin Handler

VARIABLES
  strategy,   \* the dispatcher used for each topic, chosen once
  topics,     \* topics[s]: the handlers of the dispatcher for s
  destroyed,  \* destroy() was called: topics is undefined
  stack,      \* the dispatches under way
  calls,      \* how many calls the application has made
  outcome     \* history: how the last dispatch to end ended

vars == <<strategy, topics, destroyed, stack, calls, outcome>>
-----------------------------------------------------------------------------
\* A dispatch: the topics it has still to visit, the handlers of the visited
\* topic "at" it has still to call, the handler that runs, and whether an error
\* was collected.  History: whether a handler threw, the calls made, and the
\* subscriptions that should get the message and have been there all the time.
Frame(t, matching) ==
  [topic |-> t, todo |-> matching, at |-> <<>>, queue |-> <<>>, running |-> None,
   err |-> FALSE, threw |-> FALSE, called |-> <<>>,
   stayed |-> {p \in Subscription \X Handler :
                 /\ p[1] \in DOMAIN topics /\ Documented[<<p[1], t>>]
                 /\ p[2] \in Members(topics[p[1]])}]

Top == Head(stack)
Goto(me) == stack' = <<me>> \o Tail(stack)
Ends(frame, result) ==
  outcome' = [result |-> result, threw |-> frame.threw,
              called |-> frame.called, stayed |-> frame.stayed]

Put(f, k, v) == [x \in DOMAIN f \cup {k} |-> IF x = k THEN v ELSE f[x]]
Leave(gone) ==
  stack' = [i \in 1..Len(stack) |-> [stack[i] EXCEPT !.stayed = @ \ gone]]

Init ==
  /\ strategy \in Strategies /\ topics \in Initial /\ destroyed = FALSE
  /\ stack = <<>> /\ calls = 0
  /\ outcome = [result |-> "none", threw |-> FALSE, called |-> <<>>, stayed |-> {}]
-----------------------------------------------------------------------------
(* The application, at top level or from a handler.  After destroy() subscribe *)
(* and unsubscribe throw and change nothing.                                   *)

AppTurn ==
  /\ stack # <<>> => Top.running # None
  /\ calls < MaxCalls /\ calls' = calls + 1

Subscribe(s, h) ==
  /\ AppTurn /\ ~destroyed
  /\ topics' = IF s \in DOMAIN topics THEN [topics EXCEPT ![s] = Add(@, h)]
                                      ELSE Put(topics, s, <<h>>)
  /\ UNCHANGED <<strategy, destroyed, stack, outcome>>

\* Mutant: the dispatcher of a topic is kept when its last handler is gone.
MutantKeepsTopic(s, h) ==
  /\ AppTurn /\ s \in DOMAIN topics
  /\ topics' = [topics EXCEPT ![s] = Without(@, h)]
  /\ Leave({<<s, h>>})
  /\ UNCHANGED <<strategy, destroyed, outcome>>

Unsubscribe(s, h) ==
  /\ AppTurn /\ s \in DOMAIN topics
  /\ LET rest == Without(topics[s], h) IN
       topics' = IF rest = <<>> THEN Restrict(topics, DOMAIN topics \ {s})
                                ELSE [topics EXCEPT ![s] = rest]
  /\ Leave({<<s, h>>})
  /\ UNCHANGED <<strategy, destroyed, outcome>>

Destroy ==
  /\ AppTurn
  /\ topics' = <<>> /\ destroyed' = TRUE
  /\ Leave(Subscription \X Handler)
  /\ UNCHANGED <<strategy, outcome>>

\* dispatch() is called: it throws, or finds nobody, or starts.
Dispatch(t) ==
  LET matching == {s \in DOMAIN topics : Match[<<s, t>>]}
      frame == Frame(t, matching)
  IN /\ AppTurn
     /\ Len(stack) < MaxDepth
     /\ \/ destroyed /\ Ends(frame, "throws") /\ UNCHANGED stack
        \/ ~destroyed /\ matching = {} /\ Ends(frame, "false") /\ UNCHANGED stack
        \/ matching # {} /\ stack' = <<frame>> \o stack /\ UNCHANGED outcome
     /\ UNCHANGED <<strategy, topics, destroyed>>
-----------------------------------------------------------------------------
(* dispatch(): forEach over the keys, with a try around each. *)

Between == stack # <<>> /\ Top.running = None

\* The dispatcher of the next topic copies its handlers, or picks one.
Visit ==
  /\ Between /\ Top.queue = <<>>
  /\ \E s \in Top.todo \cap DOMAIN topics :
       \E queue \in IF strategy = "unicast" THEN {<<h>> : h \in Members(topics[s])}
                                            ELSE {topics[s]} :
         Goto([Top EXCEPT !.todo = @ \ {s}, !.at = s, !.queue = queue])
  /\ UNCHANGED <<strategy, topics, destroyed, calls, outcome>>

\* There is no dispatcher for the topic any more: a TypeError is collected.
VisitVanished ==
  /\ Between /\ Top.queue = <<>>
  /\ \E s \in Top.todo \ DOMAIN topics :
       Goto([Top EXCEPT !.todo = @ \ {s}, !.err = TRUE])
  /\ UNCHANGED <<strategy, topics, destroyed, calls, outcome>>

CallHandler ==
  /\ Between /\ Top.queue # <<>>
  /\ LET h == Head(Top.queue) IN
       Goto([Top EXCEPT !.queue = Tail(@), !.running = h,
                        !.called = Append(@, <<Top.at, h>>)])
  /\ UNCHANGED <<strategy, topics, destroyed, calls, outcome>>

\* Mutant: the error of a topic ends the dispatch.
MutantFirstErrorEnds ==
  /\ stack # <<>> /\ Top.running # None
  /\ \E ok \in BOOLEAN :
       Goto([Top EXCEPT !.running = None, !.err = @ \/ ~ok, !.threw = @ \/ ~ok,
                        !.todo = IF ok THEN @ ELSE {}])
  /\ UNCHANGED <<strategy, topics, destroyed, calls, outcome>>

HandlerEnds ==
  /\ stack # <<>> /\ Top.running # None
  /\ \E ok \in BOOLEAN :
       Goto([Top EXCEPT !.running = None, !.err = @ \/ ~ok, !.threw = @ \/ ~ok])
  /\ UNCHANGED <<strategy, topics, destroyed, calls, outcome>>

\* The errors are thrown to channel.send, which reports the message.
DispatchEnds ==
  /\ Between /\ Top.queue = <<>> /\ Top.todo = {}
  /\ Ends(Top, IF Top.err THEN "throws" ELSE "true")
  /\ stack' = Tail(stack)
  /\ UNCHANGED <<strategy, topics, destroyed, calls>>
-----------------------------------------------------------------------------
App == \/ \E p \in Mutable : Subscribe(p[1], p[2]) \/ Unsubscribe(p[1], p[2])
       \/ Destroy
       \/ \E t \in Topic : Dispatch(t)
Machine == Visit \/ VisitVanished \/ CallHandler \/ HandlerEnds \/ DispatchEnds

Next == App \/ Machine

Spec == Init /\ [][Next]_vars
-----------------------------------------------------------------------------
(* Properties. *)

Pairs == Subscription \X Handler
Results == {"none", "true", "false", "throws"}
Frames ==
  [topic : Topic, todo : SUBSET Subscription, at : Subscription \cup {<<>>},
   queue : Seq(Handler), running : Handler \cup {None}, err : BOOLEAN,
   threw : BOOLEAN, called : Seq(Pairs), stayed : SUBSET Pairs]

\* The values the variables may take.  A topic has handlers as long as there is
\* a dispatcher for it, and each of them once; nobody calls a handler before the
\* one before it has ended, but from within it.
TypeOK ==
  /\ strategy \in Strategies /\ destroyed \in BOOLEAN /\ calls \in 0..MaxCalls
  /\ DOMAIN topics \subseteq Subscription
  /\ \A s \in DOMAIN topics :
       topics[s] \in Seq(Handler) \ {<<>>} /\ Distinct(topics[s])
  /\ destroyed => topics = <<>>
  /\ stack \in Seq(Frames) /\ Len(stack) <= MaxDepth
  /\ \A i \in 2..Len(stack) : stack[i].running # None
  /\ DOMAIN outcome = {"result", "threw", "called", "stayed"}
  /\ outcome.result \in Results

\* Who stays subscribed gets the message, however others come and go, throw or
\* send during the dispatch, and whether the dispatch succeeds or throws: every
\* subscription that the documentation says matches and that was there from
\* beginning to end is served, of each topic all handlers or, with unicast, one
\* (exchange.js:84-110, channels/exchange.js:43-47).
StayersServed ==
  \A p \in outcome.stayed :
    \E i \in 1..Len(outcome.called) :
      /\ outcome.called[i][1] = p[1]
      /\ strategy = "broadcast" => outcome.called[i][2] = p[2]

\* No handler is called for a topic its subscription does not match by the
\* documentation, nor twice for one subscription in one dispatch, also when it
\* leaves and comes back meanwhile (exchange.js:89-104).
CalledAsSubscribed ==
  \A i \in 1..Len(stack) :
    /\ Distinct(stack[i].called)
    /\ \A p \in Members(stack[i].called) : Documented[<<p[1], stack[i].topic>>]

\* A message that dispatch reports as taken was given to some handler: the
\* channel does not report it dead (exchange.js:93-95, 110; msgs.js:337).
TakenMeansCalled == outcome.result = "true" => outcome.called # <<>>

\* What the comment at exchange.js:81 says, "@throws exceptions from recipient
\* handlers": a dispatch of a channel in use throws only what a handler threw.
ThrowsForHandlers ==
  outcome.result = "throws" => outcome.threw \/ destroyed
=============================================================================
