----------------------------- MODULE RequestFlow -----------------------------
(***************************************************************************)
(* Requests through a flow of endpoints: inbound gateways that return a    *)
(* promise, channels with a load balancer, transformers, filters, routers, *)
(* chains, splitters, correlating aggregators and outbound gateways to     *)
(* services that answer later (gateways.js, aggregators/correlating.js,    *)
(* dispatchers/unicast.js, the endpoints of msgs.js).                      *)
(*                                                                         *)
(* A turn of the event loop is one call from outside and all sends it      *)
(* leads to, depth first: work is the list of sends still to be made in    *)
(* this turn.  Between two turns services answer in any order.  What       *)
(* handlers do to the channel that calls them is the subject of            *)
(* MessageBus; here handlers only handle.  The call a message comes from   *)
(* stands for its id, which is exact where nothing is split twice.         *)
(***************************************************************************)
EXTENDS HandlerList, Functions, FiniteSets, TLC

CONSTANTS
  Call,          \* the calls of the inbound gateway
  Channel,
  Endpoint,
  Kind,          \* Kind[e]: which function of the bus made e
  Output, Errors, Discard,  \* opts.output, opts.error, opts.discard, or None
  Stages,        \* Stages[e]: the handlers of a chain
  Routes,        \* Routes[e]: the lists of recipients a router's rule may return,
                 \* None for one that does not resolve; if there are no lists, it
                 \* returns the replyChannel of the first aggregated part
  Entry,         \* the channels that gateways send to
  Initial,       \* Initial[c]: who is subscribed to c at first
  Mutable,       \* the pairs <<c, e>> the application may (un)subscribe
  Faulty,        \* the endpoints whose function may throw
  Strategies,    \* the load balancers: "random", "roundRobin", "naiveRoundRobin"
  PartCounts,    \* how many parts a splitter's rule may return
  KeepHeaders,   \* whether these are messages, or payloads without headers
  ReleaseMayFail,  \* the output of the aggregator may not resolve
  MaxChanges,    \* bound: how often the subscriptions change
  None

Kinds == {"transformer", "filter", "router", "splitter", "aggregator",
          "service", "chain"}

ASSUME WiringAssumption ==
  /\ Kind \in [Endpoint -> Kinds] /\ Entry \subseteq Channel
  /\ {Output, Errors, Discard} \subseteq [Endpoint -> Channel \cup {None}]
  /\ DOMAIN Routes = Endpoint
  /\ \A e \in Endpoint : Routes[e] \subseteq Seq(Channel \cup {None})
  /\ Mutable \subseteq Channel \X Endpoint /\ Faulty \subseteq Endpoint
  /\ \A e \in Endpoint : Kind[e] \in {"splitter", "aggregator"} => Output[e] # None
ASSUME StagesAssumption ==
  \A e \in Endpoint : Stages[e] \in Seq({s \in Endpoint : Kind[s] # "chain"})
ASSUME InitialAssumption ==
  /\ DOMAIN Initial = Channel
  /\ \A c \in Channel : Initial[c] \in Seq(Endpoint) /\ Distinct(Initial[c])
ASSUME OptionAssumption ==
  /\ Strategies \subseteq {"random", "roundRobin", "naiveRoundRobin"}
  /\ PartCounts \subseteq Nat /\ KeepHeaders \subseteq BOOLEAN
  /\ ReleaseMayFail \in BOOLEAN /\ MaxChanges \in Nat
ASSUME NoneAssumption == None \notin Channel \cup Endpoint \cup Call

VARIABLES
  strategy,  \* the load balancer of the channels, chosen once
  handlers,  \* handlers[c]: the subscribers of channel c
  last,      \* last[c]: roundRobin's variable
  changes,   \* how often the subscriptions have changed
  work,      \* the sends of this turn, the next one first
  tasks,     \* the promises of services that are not settled
  buckets,   \* buckets[<<e, c>>]: what aggregator e has of the parts of c
  promise,   \* promise[c]: the promise of call c
  value,     \* value[c]: the payload it was resolved with
  turns,     \* history: turns[c]: who was called since the subscribers changed,
             \* if it is their turn that decides
  failed,    \* history: the calls for which something threw or was rejected
  lost       \* history: <<c, how>>: where a message of c ended without an answer

vars == <<strategy, handlers, last, changes, work, tasks, buckets, promise,
          value, turns, failed, lost>>
balancing == <<last, turns>>
gateway == <<promise, value>>
subscriptions == <<strategy, handlers, changes>>
-----------------------------------------------------------------------------
(* Messages and where they are sent: to a channel, to the reply or error     *)
(* channel of a call, to the channel object with which a chain takes the     *)
(* message of its stage k, or nowhere.  The statement that deletes a bucket  *)
(* after its release is an item of work, too.                                *)

ReplyTo(c) == <<"reply", c>>
ErrorTo(c) == <<"error", c>>
After(e, k) == <<"after", e, k>>
Forget(e, c) == <<"forget", e, c>>
Afters == UNION {{After(e, k) : k \in 0..Len(Stages[e])} : e \in Endpoint}
Send(to, msg) == [to |-> to, msg |-> msg]

\* No channel is one of these.
ASSUME TargetAssumption ==
  \A to \in Channel \cup {None} :
    /\ to \notin Afters
    /\ \A c \in Call : to # ReplyTo(c) /\ to # ErrorTo(c) /\ \A e \in Endpoint : to # Forget(e, c)

Request(c) ==
  [call |-> c, reply |-> ReplyTo(c), error |-> ErrorTo(c),
   corr |-> None, seq |-> 0, size |-> 0, body |-> <<>>]

\* Mutant: parts are counted from 1.
MutantPartFromOne(m, k, n, keep) ==
  [m EXCEPT !.reply = IF keep THEN @ ELSE None, !.error = IF keep THEN @ ELSE None,
            !.corr = m.call, !.seq = k, !.size = n]

\* Mutant: sequenceSize is one too many.
MutantPartLong(m, k, n, keep) ==
  [m EXCEPT !.reply = IF keep THEN @ ELSE None, !.error = IF keep THEN @ ELSE None,
            !.corr = m.call, !.seq = k - 1, !.size = n + 1]

Part(m, k, n, keep) ==
  [m EXCEPT !.reply = IF keep THEN @ ELSE None, !.error = IF keep THEN @ ELSE None,
            !.corr = m.call, !.seq = k - 1, !.size = n]

\* The message made of a bucket has no headers but its own.
Aggregate(parts) ==
  [call |-> parts[1].call, reply |-> None, error |-> None, corr |-> None,
   seq |-> 0, size |-> 0,
   body |-> [i \in DOMAIN parts |-> [part |-> <<parts[i].call, parts[i].seq>>,
                                     reply |-> parts[i].reply]]]

\* Mutant: the bucket is released as it was filled.
MutantUnsorted(bucket) == bucket

\* The part at i goes behind those with a lower number.  Parts with one number
\* keep their order.
Position(bucket, i) ==
  1 + Cardinality({j \in DOMAIN bucket :
        \/ bucket[j].seq < bucket[i].seq
        \/ bucket[j].seq = bucket[i].seq /\ j < i})

InOrder(bucket) ==
  [k \in DOMAIN bucket |-> bucket[CHOOSE i \in DOMAIN bucket : Position(bucket, i) = k]]

Init ==
  /\ strategy \in Strategies /\ handlers = Initial
  /\ last = [c \in Channel |-> None] /\ changes = 0
  /\ work = <<>> /\ tasks = {}
  /\ buckets = [b \in Endpoint \X Call |-> <<>>]
  /\ promise = [c \in Call |-> "idle"] /\ value = [c \in Call |-> <<>>]
  /\ turns = [c \in Channel |-> <<>>] /\ failed = {} /\ lost = {}

Rest == Tail(work)
Loses(m, how) == lost' = lost \cup {<<m.call, how>>}
-----------------------------------------------------------------------------
(* Turns begin: the application calls the gateway or changes subscriptions,  *)
(* a service settles its promise.                                            *)

Idle == work = <<>>

Ask(c) ==
  /\ Idle /\ promise[c] = "idle"
  /\ promise' = [promise EXCEPT ![c] = "pending"]
  /\ \E to \in Entry : work' = <<Send(to, Request(c))>>
  /\ UNCHANGED <<subscriptions, balancing, tasks, buckets, value, failed, lost>>

Changes(c, list) ==
  /\ Idle /\ changes < MaxChanges /\ changes' = changes + 1
  /\ handlers' = [handlers EXCEPT ![c] = list]
  /\ turns' = [turns EXCEPT ![c] = <<>>]
  /\ UNCHANGED <<strategy, last, work, tasks, buckets, gateway, failed, lost>>

Subscribe(c, e) ==
  e \notin Range(handlers[c]) /\ Changes(c, Append(handlers[c], e))

Unsubscribe(c, e) ==
  e \in Range(handlers[c]) /\ Changes(c, Without(handlers[c], e))

\* when() calls back in a turn of its own.  A channel that is not there makes the
\* callback throw inside the promise; the chain that the service was a stage of
\* is over and drops the answer.
Dropped(to) == to \in Afters \cup {None}

Settles(t, to) ==
  /\ Idle /\ tasks' = tasks \ {t}
  /\ IF Dropped(to) THEN Loses(t.msg, "swallowed") /\ UNCHANGED work
                    ELSE work' = <<Send(to, t.msg)>> /\ UNCHANGED lost
  /\ UNCHANGED <<subscriptions, balancing, buckets, gateway>>

ServiceAnswers ==
  \E t \in tasks : Settles(t, t.reply) /\ UNCHANGED failed

ServiceRejects ==
  \E t \in tasks :
    /\ t.service \in Faulty
    /\ Settles(t, t.error) /\ failed' = failed \cup {t.msg.call}
-----------------------------------------------------------------------------
(* channel.send: who is to handle the next message. *)

Next1 == Head(work)
ToChannel == work # <<>> /\ Next1.to \in Channel

\* Nobody: the message is dead.
Unheard ==
  /\ ToChannel /\ handlers[Next1.to] = <<>>
  /\ Loses(Next1.msg, "dead") /\ work' = Rest
  /\ UNCHANGED <<subscriptions, balancing, tasks, buckets, gateway, failed>>

\* naiveRoundRobin adds 1 to undefined and finds no handler at NaN: the message
\* is invalid.
Unbalanced ==
  /\ ToChannel /\ handlers[Next1.to] # <<>> /\ strategy = "naiveRoundRobin"
  /\ Loses(Next1.msg, "invalid") /\ work' = Rest
  /\ UNCHANGED <<subscriptions, balancing, tasks, buckets, gateway, failed>>

IndexOf(list, x) ==
  IF x \in Range(list) THEN CHOOSE i \in DOMAIN list : list[i] = x ELSE 0

\* Mutant: the next one is not found by the one before.
MutantBySize(list, before) ==
  list[IF before = None THEN 1 ELSE Len(list)]

RoundRobin(list, before) == list[(IndexOf(list, before) % Len(list)) + 1]

Balanced(list, before) ==
  CASE strategy = "random" -> Range(list)
    [] strategy = "roundRobin" -> {RoundRobin(list, before)}
    [] OTHER -> {}

\* Handler e is given the next message: by a channel, or as the next stage of a
\* chain, whose output then overrides its own.
NextStages == UNION {{After(c, k - 1) : k \in 1..Len(Stages[c])} : c \in Endpoint}
InChain == Next1.to \in NextStages
Override == IF InChain THEN After(Next1.to[2], Next1.to[3] + 1) ELSE None

FromChannel(e) ==
  LET c == Next1.to IN
    /\ c \in Channel /\ handlers[c] # <<>> /\ e \in Balanced(handlers[c], last[c])
    /\ IF strategy = "random" THEN UNCHANGED balancing
       ELSE /\ last' = [last EXCEPT ![c] = e]
            /\ turns' = [turns EXCEPT ![c] = Append(@, e)]

FromChain(e) ==
  InChain /\ e = Stages[Next1.to[2]][Next1.to[3] + 1] /\ UNCHANGED balancing

Given(e) == ~Idle /\ (FromChannel(e) \/ FromChain(e))
-----------------------------------------------------------------------------
(* handler.handle for each kind of endpoint. *)

NextOutput(e, m) ==
  IF InChain THEN Override ELSE IF Output[e] # None THEN Output[e] ELSE m.reply
NextError(e, m) == IF Errors[e] # None THEN Errors[e] ELSE m.error

\* The handler returned a message: it goes to the next output, if there is one.
Forwards(m, to) ==
  IF to = None THEN Loses(m, "consumed") /\ work' = Rest
               ELSE work' = <<Send(to, m)>> \o Rest /\ UNCHANGED lost

\* Mutant: the error header is not looked at.
MutantOwnErrorsOnly(e, m) ==
  /\ failed' = failed \cup {m.call}
  /\ IF Errors[e] = None THEN work' = Rest /\ UNCHANGED lost
                         ELSE work' = <<Send(Errors[e], m)>> \o Rest /\ UNCHANGED lost

\* The handler threw: the error goes to its error channel, to that of the chain
\* it is a stage of, or to the channel, for which the message is invalid.
ErrorTarget(e, m) ==
  IF NextError(e, m) # None \/ ~InChain THEN NextError(e, m) ELSE Errors[Next1.to[2]]

ThrowsAfter(sends, e, m) ==
  LET to == ErrorTarget(e, m)
  IN /\ failed' = failed \cup {m.call}
     /\ IF to = None THEN Loses(m, "invalid") /\ work' = sends \o Rest
                     ELSE work' = Append(sends, Send(to, m)) \o Rest /\ UNCHANGED lost

Throws(e, m) == ThrowsAfter(<<>>, e, m)

\* The function given to the endpoint throws.
EndpointThrows(e) ==
  /\ e \in Faulty /\ Kind[e] # "chain"
  /\ Given(e) /\ Throws(e, Next1.msg)
  /\ UNCHANGED <<subscriptions, tasks, buckets, gateway>>

Transform(e) ==
  /\ Kind[e] = "transformer"
  /\ Given(e) /\ Forwards(Next1.msg, NextOutput(e, Next1.msg))
  /\ UNCHANGED <<subscriptions, tasks, buckets, gateway, failed>>

FilterPasses(e) ==
  /\ Kind[e] = "filter"
  /\ Given(e) /\ Forwards(Next1.msg, NextOutput(e, Next1.msg))
  /\ UNCHANGED <<subscriptions, tasks, buckets, gateway, failed>>

FilterDiscards(e) ==
  /\ Kind[e] = "filter"
  /\ Given(e)
  /\ IF Discard[e] = None THEN Loses(Next1.msg, "discarded") /\ work' = Rest
     ELSE work' = <<Send(Discard[e], Next1.msg)>> \o Rest /\ UNCHANGED lost
  /\ UNCHANGED <<subscriptions, tasks, buckets, gateway, failed>>

\* What the rule returns.  The replyChannel may be missing.
Recipients(e, m) ==
  IF Routes[e] # {} THEN Routes[e]
  ELSE {<<IF m.body # <<>> THEN m.body[1].reply ELSE None>>}

\* The first n recipients are sent the message; where there are more, the next one
\* does not resolve and send() throws.  With no recipient at all the message ends.
RouteTo(e, list, n) ==
  LET sends == [k \in 1..n |-> Send(list[k], Next1.msg)] IN
    /\ \A k \in 1..n : list[k] # None
    /\ \/ /\ n = Len(list)
          /\ work' = sends \o Rest
          /\ IF n = 0 THEN Loses(Next1.msg, "consumed") ELSE UNCHANGED lost
          /\ UNCHANGED failed
       \/ /\ n < Len(list) /\ list[n + 1] = None
          /\ ThrowsAfter(sends, e, Next1.msg)

Route(e) ==
  /\ Kind[e] = "router"
  /\ Given(e)
  /\ \E list \in Recipients(e, Next1.msg) : \E n \in 0..Len(list) : RouteTo(e, list, n)
  /\ UNCHANGED <<subscriptions, tasks, buckets, gateway>>

Split(e) ==
  /\ Kind[e] = "splitter"
  /\ Given(e)
  /\ \E n \in PartCounts, keep \in KeepHeaders :
       /\ work' = [k \in 1..n |-> Send(Output[e], Part(Next1.msg, k, n, keep))] \o Rest
       /\ IF n = 0 THEN Loses(Next1.msg, "consumed") ELSE UNCHANGED lost
  /\ UNCHANGED <<subscriptions, tasks, buckets, gateway, failed>>

\* A message without correlationId is ignored.
Ignore(e) ==
  /\ Kind[e] = "aggregator"
  /\ Given(e)
  /\ Next1.msg.corr = None
  /\ Loses(Next1.msg, "consumed") /\ work' = Rest
  /\ UNCHANGED <<subscriptions, tasks, buckets, gateway, failed>>

\* The part is put into its bucket.  When it fills it, the bucket is sorted,
\* released and, after all this has led to, deleted; if the output does not
\* resolve, release throws and the bucket stays.
Correlate(e) ==
  /\ Kind[e] = "aggregator" /\ Given(e) /\ Next1.msg.corr # None
  /\ LET m == Next1.msg
         bucket == Append(buckets[<<e, m.corr>>], m)
     IN \/ /\ Len(bucket) < m.size
           /\ buckets' = [buckets EXCEPT ![<<e, m.corr>>] = bucket]
           /\ work' = Rest /\ UNCHANGED <<lost, failed>>
        \/ /\ Len(bucket) >= m.size
           /\ buckets' = [buckets EXCEPT ![<<e, m.corr>>] = InOrder(bucket)]
           /\ \/ /\ work' = <<Send(Output[e], Aggregate(InOrder(bucket))),
                              Send(Forget(e, m.corr), m)>> \o Rest
                 /\ UNCHANGED <<lost, failed>>
              \/ ReleaseMayFail /\ Throws(e, m)
  /\ UNCHANGED <<subscriptions, tasks, gateway>>

\* Mutant: the bucket is kept.
MutantKeepsBucket ==
  /\ work # <<>>
  /\ \E e \in Endpoint, c \in Call : Next1.to = Forget(e, c)
  /\ work' = Rest
  /\ UNCHANGED <<subscriptions, balancing, tasks, buckets, gateway, failed, lost>>

DeleteBucket ==
  /\ work # <<>>
  /\ \E e \in Endpoint, c \in Call :
       Next1.to = Forget(e, c) /\ buckets' = [buckets EXCEPT ![<<e, c>>] = <<>>]
  /\ work' = Rest
  /\ UNCHANGED <<subscriptions, balancing, tasks, gateway, failed, lost>>

\* The outbound gateway calls the service, which returns a promise.
Serve(e) ==
  /\ Kind[e] = "service" /\ Given(e)
  /\ tasks' = tasks \cup {[service |-> e, msg |-> Next1.msg,
                           reply |-> NextOutput(e, Next1.msg),
                           error |-> NextError(e, Next1.msg)]}
  /\ work' = Rest
  /\ UNCHANGED <<subscriptions, buckets, gateway, failed, lost>>

ChainBegins(e) ==
  /\ Kind[e] = "chain"
  /\ Given(e)
  /\ work' = <<Send(After(e, 0), Next1.msg)>> \o Rest
  /\ UNCHANGED <<subscriptions, tasks, buckets, gateway, failed, lost>>

\* The last stage gave a message: the chain returns it.
ChainEnds(e) ==
  /\ Kind[e] = "chain" /\ work # <<>> /\ Next1.to = After(e, Len(Stages[e]))
  /\ Forwards(Next1.msg, NextOutput(e, Next1.msg))
  /\ UNCHANGED <<subscriptions, balancing, tasks, buckets, gateway, failed>>

\* The reply and error channels of a call settle its promise, the first time.
Settle ==
  /\ work # <<>> /\ work' = Rest
  /\ \E c \in Call :
       \/ /\ Next1.to = ReplyTo(c)
          /\ IF promise[c] # "pending" THEN UNCHANGED gateway
             ELSE /\ promise' = [promise EXCEPT ![c] = "resolved"]
                  /\ value' = [value EXCEPT ![c] = Next1.msg.body]
       \/ /\ Next1.to = ErrorTo(c)
          /\ promise' = [promise EXCEPT ![c] = IF @ = "pending" THEN "rejected" ELSE @]
          /\ UNCHANGED value
  /\ UNCHANGED <<subscriptions, balancing, tasks, buckets, failed, lost>>
-----------------------------------------------------------------------------
Handle == \E e \in Endpoint :
  \/ EndpointThrows(e) \/ Transform(e) \/ FilterPasses(e) \/ FilterDiscards(e)
  \/ Route(e) \/ Split(e) \/ Ignore(e) \/ Correlate(e) \/ Serve(e)
  \/ ChainBegins(e) \/ ChainEnds(e)

Turn == Unheard \/ Unbalanced \/ Handle \/ DeleteBucket \/ Settle

App == \/ \E c \in Call : Ask(c)
       \/ \E p \in Mutable : Subscribe(p[1], p[2]) \/ Unsubscribe(p[1], p[2])

Next == App \/ ServiceAnswers \/ ServiceRejects \/ Turn

Spec == Init /\ [][Next]_vars

\* JavaScript does not stop in the middle of a turn, and services settle their
\* promises.
FairSpec == Spec /\ WF_vars(Turn) /\ WF_vars(ServiceAnswers \/ ServiceRejects)
-----------------------------------------------------------------------------
(* Kinds of wiring.  A set of channels is closed if a message that is sent   *)
(* to one of them stays in it, up to the aggregator that takes it, and no    *)
(* matter what throws, is discarded or comes back from a service.            *)

Subscribers(c) == Range(Initial[c]) \cup {e \in Endpoint : <<c, e>> \in Mutable}
Handlers(c) == Subscribers(c) \cup UNION {Range(Stages[e]) : e \in Subscribers(c)}

Passes(e) ==
  ({Errors[e]} \cup IF Kind[e] = "aggregator" THEN {}
                    ELSE {Output[e], Discard[e]} \cup UNION {Range(list) : list \in Routes[e]})
    \ {None}

Closed(zone) == \A c \in zone : \A e \in Handlers(c) : Passes(e) \subseteq zone
Lacks(kind, zone) == \A c \in zone : \A e \in Handlers(c) : Kind[e] # kind

\* Endpoint e answers the caller with the very message it was given.
Answers(e) ==
  /\ Output[e] = None
  /\ \/ Kind[e] \in {"transformer", "filter", "service"}
     \/ Kind[e] = "chain" /\ \A s \in Range(Stages[e]) : Kind[s] \in {"transformer", "filter"}

\* Parts that are sent to the zone meet no aggregator but a, and nobody who splits
\* them or answers them.  Where a throws, they do not come back to it.
Collects(zone, a) ==
  /\ Closed(zone) /\ Lacks("splitter", zone)
  /\ \A c \in zone : \A e \in Subscribers(c) : ~Answers(e)
  /\ \A c \in zone : \A e \in Handlers(c) : Kind[e] = "aggregator" =>
       /\ e = a
       /\ \A d \in Handlers(c) : Errors[d] # None =>
            \E spent \in SUBSET Channel :
              /\ Errors[d] \in spent /\ Closed(spent)
              /\ Lacks("splitter", spent) /\ Lacks("aggregator", spent)

\* No router sends a message to two recipients.
RoutedOnce ==
  \A e \in Endpoint : Kind[e] = "router" => \A list \in Routes[e] : Len(list) <= 1

\* The parts of a message end at one aggregator, and are not split again.
PartsCollected ==
  \A e \in Endpoint :
    /\ Kind[e] = "splitter" =>
         \E zone \in SUBSET Channel, a \in Endpoint : Output[e] \in zone /\ Collects(zone, a)
    /\ Kind[e] = "aggregator" =>
         \E zone \in SUBSET Channel :
           Output[e] \in zone /\ Closed(zone) /\ Lacks("splitter", zone)

SplitOnce == RoutedOnce /\ PartsCollected

\* Nobody answers a call but with what an aggregator has made.
AnswersAreMade ==
  \E zone \in SUBSET Channel :
    /\ Entry \subseteq zone /\ Closed(zone)
    /\ \A c \in zone : \A e \in Subscribers(c) : ~Answers(e)
-----------------------------------------------------------------------------
(* Properties. *)

Targets ==
  Channel \cup {None} \cup Afters
    \cup {ReplyTo(c) : c \in Call} \cup {ErrorTo(c) : c \in Call}
    \cup {Forget(e, c) : e \in Endpoint, c \in Call}
Messages ==
  [call : Call, reply : Targets, error : Targets, corr : Call \cup {None},
   seq : Nat, size : Nat, body : Seq([part : Call \X Nat, reply : Targets])]
Ways == {"dead", "invalid", "discarded", "consumed", "swallowed"}

\* The values the variables may take.
TypeOK ==
  /\ strategy \in Strategies /\ changes \in 0..MaxChanges
  /\ DOMAIN handlers = Channel
  /\ \A c \in Channel : handlers[c] \in Seq(Endpoint) /\ Distinct(handlers[c])
  /\ last \in [Channel -> Endpoint \cup {None}]
  /\ work \in Seq([to : Targets, msg : Messages])
  /\ tasks \subseteq [service : Endpoint, msg : Messages, reply : Targets, error : Targets]
  /\ DOMAIN buckets = Endpoint \X Call
  /\ \A b \in Endpoint \X Call :
       /\ buckets[b] \in Seq(Messages)
       /\ \A m \in Range(buckets[b]) : m.corr = b[2] /\ m.seq < m.size
  /\ promise \in [Call -> {"idle", "pending", "resolved", "rejected"}]
  /\ DOMAIN value = Call
  /\ turns \in [Channel -> Seq(Endpoint)]
  /\ failed \subseteq Call /\ lost \subseteq Call \X Ways

\* What is still under way for a call.
UnderWay(c) ==
  \/ \E i \in 1..Len(work) : work[i].msg.call = c
  \/ \E t \in tasks : t.msg.call = c

LostCalls == {l[1] : l \in lost}

\* The promise of a call does not hang without a trace: when nothing is under way
\* for it any more it is settled, or a message of it was reported dead or
\* invalid, was discarded, or ended where the flow gives it no output
\* (gateways.js:39-52, msgs.js:399-417).
PendingIsExplained ==
  \A c \in Call : promise[c] = "pending" /\ ~UnderWay(c) => c \in LostCalls

\* A bucket is held only for parts that are to come, unless a part was lost or
\* failed on its way or the release threw (correlating.js:51-58).
BucketsAwaitParts ==
  \A e \in Endpoint, c \in Call :
    buckets[<<e, c>>] # <<>> /\ ~UnderWay(c) => c \in LostCalls \cup failed

\* While the subscribers of a channel stay the same, none is called again before
\* all others were (unicast.js:73-80).
TurnsTaken ==
  \A c \in Channel : \A i, j \in 1..Len(turns[c]) :
    i < j /\ j < i + Len(handlers[c]) => turns[c][i] # turns[c][j]

\* The flow does what a gateway promises: a call is settled once, with all parts
\* of the answer to its own request in order, or rejected because something
\* failed for it (gateways.js:18-53, correlating.js:25-58).
Gateway == INSTANCE RequestReply WITH
  state <- promise, faulty <- failed,
  answer <- [c \in Call |-> [i \in DOMAIN value[c] |-> value[c][i].part]]
IsGateway == Gateway!Spec

\* Every call is settled in the end, or its loss is on record: no flow holds a
\* message for ever but the aggregator, which waits for what was lost.
CallsSettle ==
  \A c \in Call :
    promise[c] = "pending" ~> promise[c] # "pending" \/ c \in LostCalls
=============================================================================
