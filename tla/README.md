# A TLA+ development of msgs.js

msgs.js is a JavaScript message bus in the style of the *Enterprise Integration
Patterns*: buses own channels and handlers, a handler transforms the message it
is given and sends the result to its output channel, and adapters, gateways,
aggregators and a STOMP bridge connect the bus to the world. This directory
models the parts of it whose order of events is hard to reason about, checks
them with TLC on small instances and proves what matters most with TLAPS.

File names below are relative to `src/`; `msgs.js:327` is line 327 of
`src/msgs.js`.

## 1. The system

### 1.1 What runs

There are no threads. `channel.send` is a plain function call: it calls the
dispatcher, which calls the handlers, which call `send` of their output channel,
and so on; `send` returns when everything it led to has happened. The hard
behaviours come from three sources.

* **Re-entrance.** A handler, a tap, a listener of a notice or a receiver of a
  chunk runs in the middle of some dispatch, and may send, subscribe,
  unsubscribe, tap or destroy before it returns. State that was read before such
  a call is used after it.
* **Errors.** Anything may throw half way. `try`/`catch` in `send` and in
  `handle` turn exceptions into messages to other channels, whose handlers may
  throw in turn.
* **The event loop.** Timers, promises and frames of a remote server arrive
  between two turns, in an order the program does not choose.

### 1.2 Components

| component | source | state | operations | interacts with |
|---|---|---|---|---|
| message bus | `msgs.js` | children, dead letter and invalid message channels | `bus`, `channel`, `_channel`, `_handler`, `send`, `subscribe`, `unsubscribe`, `tap`, `untap`, `on`, `destroy` | everything |
| bus names | `msgs.js:150-310` | components by name, references to what other buses call by a name | `alias`, `exportChannel`, `resolveChannel`, `resolveHandler`, `destroy` | buses, contexts of wire.js, adapters that subscribe by name |
| channel | `msgs.js:323` | its dispatcher, its taps | `send`, `tap`, `untap` | dispatcher; the sinks of its bus |
| handler | `msgs.js:397` | none; input, output and error channel | `handle` | calls `send` of output, error or reply channel |
| endpoints | `msgs.js:540-720` | none | chain, transform, filter, route, split, log | are transforms of handlers |
| broadcast, unicast, direct dispatcher | `channels/dispatchers/` | the array of handlers | `subscribe`, `unsubscribe`, `dispatch`, `destroy` | handlers; sender |
| load balancers | `dispatchers/unicast.js:66` | the handler or index used last | choose | unicast |
| exchange dispatcher | `dispatchers/exchange.js` | a broadcast dispatcher per topic | `subscribe(topic)`, `dispatch` by matching topics | broadcast |
| pollable dispatcher, queue | `dispatchers/pollable.js`, `channels/queue.js` | a queue | `dispatch`, `receive` | whoever polls |
| STOMP bridge | `dispatchers/stomp.js`, `bridges/stomp.js` | destinations, subscriptions, receipts, counter, ready | `subscribe`, `unsubscribe`, `dispatch`, `destroy`, one handler per frame | output and input channel, remote server, control bus |
| STOMP translator | `translators/stomp.js` | none | build and parse frames | STOMP bridge, socket or stream, remote server |
| batching aggregator | `aggregators/batching.js` | the batch, the timer | receive, release, timer | its output channel, the event loop |
| correlating aggregator, splitter | `aggregators/correlating.js`, `msgs.js` | a bucket per correlation id | receive, release | output channel |
| gateways | `gateways.js` | a promise per call, a reply and an error channel for each | call, reply, error; call a service and wait for its promise | the channels of one call, services |
| stream and WebSocket adapters | `adapters/stream.js`, `adapters/webSocket.js` | listeners on the stream | write, read, leave when it closes | streams, bus names |
| other adapters | `adapters/*.js` | none, or one listener | subscribe to an outside source | outside objects |
| wire plugin | `wire.js` | none | makes and destroys the bus of a context, subscribes components | wire.js, bus names |

### 1.3 What makes each of them correct

* **Bus, channels, handlers.** A message that `send` took is consumed, or
  reported as dead or as invalid, and with point to point channels only one of
  these. Errors never reach the sender. A tap changes nothing. The sinks do not
  feed each other.
* **Dispatchers.** A dispatch calls each handler that was subscribed when it
  began, once, whatever these handlers throw or change.
* **STOMP bridge.** At most one subscription per destination on the server, and
  the maps of the client agree with each other and, up to frames under way, with
  the server. Notices follow confirmations. Acknowledged means handled.
* **Batching.** Payloads leave in the order they came, none lost or repeated, in
  chunks within the limits of size and time.
* **Correlating aggregator.** A bucket is released once with each part once, in
  order, and is kept only while parts are to come.
* **Exchange.** A message goes once to each handler of each matching topic, and
  the matcher does what its documentation says of `*` and `#`.
* **Gateways.** A promise settles once, with the answer to its own request, or is
  rejected for a reason; it hangs only if a message of it was lost in a way the
  wiring accounts for.
* **Load balancers.** Every subscriber gets its turn.
* **Queue, streams.** What comes out is what went in, once, in order, and nothing is
  passed over but what was dropped by a full queue or a closed stream.
* **Translator.** What one side writes is what the other reads, whatever characters
  names, values and bodies hold.
* **Names.** A name resolves to the nearest bus that has it, keeps its meaning
  unless a bus goes or a nearer one registers it, and destroyed buses stop resolving.

`PROJECT.json` lists the hazards of the code, each at the line where it bites,
with the properties that cover it or the reason why none does.

## 2. The plan

Order of work, the most important behaviour first. All are done.

1. **MessageBus**: buses, channels, handlers, the broadcast, unicast and direct
   dispatchers; `MessageBusProofs`.
2. **StompBridge**: the bridge, two links, an external server; `StompBridgeProofs`.
3. **BatchingAggregator**: batch, timer, re-entrance; proved in `BatchPipelineProofs`.
4. **ExchangeDispatcher** over broadcast dispatchers per topic, with topics that
   vanish during a dispatch; `ExchangeDispatcherProofs`; **TopicMatcher**, the translation of patterns against
   a reference definition of the wild cards over all short patterns and topics.
5. **RequestFlow**: inbound and outbound gateways, load balancers, endpoints,
   splitter and correlating aggregator in one flow, which implements
   **RequestReply**, what a call of a gateway may rely on; `RequestFlowProofs`.
6. **BatchPipeline**: the batching aggregator between an inbound stream, a queue
   channel and an outbound stream that closes; it implements **FifoLink**;
   `BatchPipelineProofs`.
7. **BusTree**: names, aliases, exports, contexts that come and go, adapters that
   subscribe and unsubscribe by name; `BusTreeProofs`.
8. **StompText**, the translator, and **StompLink**, one direction of the link
   between the bridge and its server, which implements `FifoLink` too: this is the
   link `StompBridge` takes for granted; `StompLinkProofs`.

How they compose:

| module | is built on | and implements |
|---|---|---|
| `HandlerList` | | |
| `MessageBus` | `HandlerList` | |
| `ExchangeDispatcher` | `HandlerList`, the answers of `TopicMatcher` | |
| `StompBridge` | `HandlerList`, links that keep frames whole and in order | |
| `StompLink` | `StompText` | `FifoLink` |
| `BatchPipeline` | `BatchingAggregator` | `FifoLink` |
| `RequestFlow` | `HandlerList`, `send` as `MessageBus` has it, without re-entrance | `RequestReply` |
| `BusTree` | | |

Not written: the abstract specifications **MessageFate** (a message is sent,
then consumed, dead or invalid) and **SubscriptionLife** (wanted, asked, accepted,
announced; one per destination). What they would say is stated by the invariants of
`MessageBus` and `StompBridge`.

## 3. What is modelled

### 3.1 MessageBus

`HandlerList` is the array of handlers that broadcast, unicast, direct, exchange and
STOMP channels all keep (`_subscribable.js:30-48`): `Add` appends a handler that is not
there, `Without` takes out the first place of one.

The state is that of the dispatchers (`handlers`, `taps`; `Gone` stands for the
array that `destroy` sets to `undefined`) plus the JavaScript call stack. Each
frame of `stack` is one activation of `channel.send` or of `handler.handle`, and
its field `at` names the call that is in progress:

| `at` | the activation is in |
|---|---|
| `tap` | `channel.taps.dispatch`, `msgs.js:331` |
| `dispatch` | `dispatcher.dispatch`, `msgs.js:337` |
| `dead` | the send to the dead letter channel, `msgs.js:339` |
| `invalid` | the send to the invalid message channel, `msgs.js:345` |
| `body` | `transform.call`, `msgs.js:404` |
| `output` | the send of `handle` to the next output, `msgs.js:407` |
| `error` | the send of `handle` to the error channel, `msgs.js:411` |

`exc` is the exception that is propagating: an `error`, or the `overflow` of the
stack. Every `try` is an action that is enabled while `exc` is set and the top
frame is inside that `try`; a frame that is not inside one is popped and `exc`
kept. `room` is how deep the stack can get in this turn: a call beyond it throws
`overflow` at the caller, so that the end of the stack can hit at every call.

The application acts through `Send`, `Subscribe`, `Unsubscribe`, `Tap`, `Untap`
and `DestroyBus`, at top level or from the transform of a handler in `Actors`:
that is how a broadcast meets subscriptions that change under it. What a handler
does with a message (return nothing, return a payload, throw) is a choice among
`HandlerReturns`, `HandlerForwards` and `HandlerThrows`; with `Output`,
`ErrorOutput`, `ReplyTo` and `ErrorTo` it covers chains, transformers, filters,
routers and loggers. The handler a bus subscribes to its own sinks, which forwards
to the parent's sinks, is in the model as `Forwarder`, as it is in the code.

Payloads and ids are abstracted: a message is the same along all copies made of
it. `sent`, `settled` and `faulty` are history variables: where the application
sent a message, how many handlers consumed it outside of taps, and the messages
for which something failed outside of taps. No guard reads them but the one that
sends each message once.

`Dispatch` chooses any subscriber for a unicast channel: it stands for every load
balancer that returns one of the subscribers.

### 3.2 StompBridge

The variables are those of the dispatcher (`ready`, `destinations`,
`subscriptions`, `receipts`, `counter`; `destroyed` stands for the maps set to
`undefined`), two FIFO links and the server. `ctx` is what the client is in the
middle of: nothing, calling the handlers of a MESSAGE, or calling the callbacks
of a RECEIPT. While it is not idle the application may call the bridge if
`Reentrant`; no further frame is processed until the handler of the current one
has ended. An exception thrown to the caller is what the action changed before
the `throw`: `SendCommand` with `ready` false sends nothing and undoes nothing,
as in `stomp.js:215-223`, and `unsent` remembers the ids of that command.

`destroy` sends DISCONNECT if the bridge is ready. Its output may be gone before it, since a
bus destroys its components one after the other: then the send throws, the exception
is squelched, and the bridge stays ready (`stomp.js:190-201`). `Destroy` has both, and
whether the answer to a message whose handler destroyed the bridge gets out (`Reply`) is
open as well.

The server is external: it reads the link in order, answers SUBSCRIBE and
UNSUBSCRIBE with the receipt they ask for, sends messages for subscriptions it
holds, and may end the session with ERROR. That is what the bridge relies on, and
nothing more of STOMP is modelled. History: the last notice per destination and
handler, what the server ever accepted, what handlers made of each message, what
was answered.

### 3.3 BatchingAggregator

`release(batch)` sends the array itself, synchronously, and only then
`batch = []` runs. The model keeps the arrays as objects: `arrays` holds all that
were made, its last element is the variable `batch`, and `released` names arrays,
so that a push onto an array that is being released is visible in the chunk.
`depth` counts the calls of `releaseHelper` that are inside `release`; receivers
may send back while it is positive, if `Reentrant`. `timeout` is the program's
variable and `timers` the timers of the event loop: the two differ once a timer
has fired and its release threw.

### 3.4 ExchangeDispatcher and TopicMatcher

`dispatch` collects the keys of the matching topics and looks each one up when it
gets there (`exchange.js:89-99`). In between handlers run and may subscribe,
unsubscribe, destroy the dispatcher or dispatch again, so the state is a `stack`
of dispatches, the innermost first. A frame has the topics to visit (`todo`), the
topic being visited (`at`), the copy its dispatcher made of its handlers (`queue`),
the handler that runs (`running`) and whether an error was collected (`err`).
`VisitVanished` is the visit of a topic whose dispatcher is gone. The
order of `Object.keys` belongs to the engine (ES5), so `Visit` chooses any topic of
`todo`. `strategy` is the dispatcher that serves each topic, broadcast or unicast,
chosen in `Init`. History: `threw`, `called` and `stayed` of each frame, `calls`, and
`outcome`, the end of the last dispatch.

The module takes the answers of the matcher (`Match`) and of the documentation
(`Documented`) as constant tables. `TopicMatcher` computes them: texts are sequences
of tokens, `Pattern` applies the five replacements of the code in their order,
each on the output of the one before, `Test` runs the resulting expression, and
`DocumentedMatch` is the reference, a cut of the topic into one part per word of
the subscription. The cache of compiled expressions is left out: it
holds what is computed anew here.

### 3.5 RequestFlow and RequestReply

A turn of the event loop is one call from outside and every send it leads to, depth
first. Since handlers only handle here (what they may do to their channel is the
subject of `MessageBus`), the call stack can be read as a list: `work` is the list
of sends still to be made in this turn, the next one first. A send puts what it
leads to in front of what its caller does next. The statement that deletes a bucket
after its release is an item of `work` as well (`correlating.js:57`): a reply that
comes back in the middle of the release would meet the bucket.

A target of a send is a channel, the reply or error channel of a call
(`gateways.js:39-52`), or the object with which a chain takes the message from a stage
(`msgs.js`, `chain`). `Given(e)` says that endpoint `e` is the one to handle the next
message, chosen by the load balancer (`strategy`, chosen once in `Init`) or as a stage
of a chain, and each kind of endpoint has an action. `NextOutput` and `NextError` are
the order in which `handle` looks for an output and for an error channel. `tasks` are
the promises of services; between turns they settle in any order. A promise that
settles after its chain is over, or whose channel is not there, ends inside the
promise: `lost` records it as `swallowed`.

The rule of a router returns a list of recipients (`Routes`), of any length. `RouteTo` sends
the message to those that come before one that does not resolve; there `send` throws, and
the error goes where `handle` sends it (`ThrowsAfter`). These sends have run by then, so they
stand in `work` in front of that of the error; the call counts as failed from the start of
the step. A rule that names nobody ends the message, `consumed` in `lost`. A router without
lists is the one that looks for the replyChannel in the body.

A splitter keeps the headers of messages and has none to keep for payloads (`Part`);
an aggregator makes a message with no headers but its own, so that only the router
that looks at the first part still knows whom to answer. `InOrder` is the stable sort of
a bucket by the numbers of its parts: `Position` counts those that go before. History: `turns`, `failed`,
`lost`. No guard reads them.

`Subscribers`, `Handlers`, `Closed` and what follows them describe wirings and no step
reads them. `SplitOnce` has two conditions. `PartsCollected`: the parts of a message end at
one aggregator, are not split again and not answered on the way, and where that aggregator
throws they do not come back to it. `RoutedOnce`: no router names more than one recipient;
if a part is copied on its way, a bucket for two is full with the first one twice, and the
second waits in a new bucket for ever. `AnswersAreMade`: nobody answers a call with the message itself, only with what an
aggregator made. The theorems are for such wirings. `MCRequestFlow` has TLC evaluate
`PartsCollected` and `AnswersAreMade` for its flow, which is one of them but for one list of
a router, which copies a message that fails.

`RequestReply` has a state per call. A call is resolved with the parts of the answer
to its own request, in order and complete, or rejected when something failed for it.

### 3.6 BatchPipeline and FifoLink

The module extends `BatchingAggregator` and gives its chunks a way to go: a queue
channel, an application that polls, an outbound stream. A chunk is the number of
its array and not a copy of it, so that a push onto an array that is already queued
would show. `push` of the queue may throw or return 0, and then the chunk is a dead
letter (`pollable.js:32-48`). The stream closes at any time between two turns; until
its close listener has run, writes are dropped by the stream, and after that the
channel has no subscriber (`stream.js:36-46`).

`FifoLink` is a link that takes numbered payloads. `Get` gives some of the oldest
that are still in, in `Ascending` order, `Drop` takes an interval out. `in`, `out` and `dropped` are
functions of the state of the implementation.

### 3.7 BusTree

`components` is the table of each bus. What it holds is a channel, an adapter,
another name (`alias`), or a `Ref`: the closure that `exportChannel` registers with
the parent. `Search` follows names and references as `resolveChannel` and
`resolveHandler` do, up the tree when a bus has no such name, and ends in an object,
in `undefined`, in an exception, or never. `Adapt` resolves its input when the adapter
is made, and `Close` again when the stream closes: in between the name may have
come to mean another channel. Contexts of wire.js find the bus of their parent
in one step and extend it in another, and connect their components when these
are there, which may be after the shutdown (`wire.js:85-133`).

`Search` takes a bounded number of steps, `Longest`, and is "endless" after that; that the
bound cuts off no search that would end is part of what is proved. Two assumptions are about the
constants. `TreeAssumption`: the buses are a tree, that is, whoever has the root and the
children of its members has all buses, since a bus is only ever made by one that exists.
`KindAssumption`: channels, adapters, names and references can be told apart, as `isChannel`
and `isRef` do.

### 3.8 StompText and StompLink

A text is a sequence of tokens: line feed, carriage return, colon, NUL, and words
without any of these. `build`, `buildSendFrame` and `parse` are those of the
translator. `StompLink` carries what they write. The server is external and writes
and reads as the protocol has it: either line end, with or without a line end after
the frame, a body as long as the content-length says. `Coalesce` is a stream that
delivers two writes in one chunk; `parse` takes a chunk for one frame, and the
frames behind the first one are `lost`.

`Word` are the words, and `Numeral` says how a length is written. `Split` divides a
text into pieces, each known by the position where it ends: the pieces of a text are
a function on these positions, and so are its lines. `Headers` takes the last of several
lines with one name.

Not every message can be written as a frame, and the assumptions say which the model
sends. Names hold no colon, line end or NUL, values no line end or NUL, and the header
`command` is not used, which the translator takes for its own (`Writable`). The application
sends no message with a content-length, as one that was received and is sent on would
have (`PROJECT.json`, hazard at `translators/stomp.js:60`), and the numerals of lengths
are words that differ (`SendsAssumption`). The server's frames have a command, and their
bodies no NUL, where `parse` would end them (`DeliversAssumption`). Bodies of the
application may hold anything.

## 4. What is checked

| run | shows | distinct states |
|---|---|---|
| `bus_flow` | `TypeOK`, `NoDoubleDelivery`, `InvalidOnlyAfterFault`, `NoSilentLoss`, `EveryoneIsCalled`: no handler is called twice or skipped and no message disappears, while handlers and taps throw, resubscribe, send and destroy the child bus | 227,338 |
| `bus_line` | `Coherent`, `SendContainsErrors`, `OneFate`, `SendReturns`: in a cycle of point to point channels, with a stack that may end at any call, a message has one fate, only the end of the stack gets to the caller, and every send returns | 241,629 |
| `exchange` | `TypeOK`, `StayersServed`, `CalledAsSubscribed`, `TakenMeansCalled`: every subscription of up to three words, and overlapping subscriptions that change while dispatches run and nest | 1,388,404 |
| `exchange_vanish` | violation: `ThrowsForHandlers` | |
| `stomp_race` | `TypeOK`, `Lockstep`, `OneServerSubscription`, `InStep`, `ReceiptsOnTheirWay`, `ConfirmedBeforeNotice`, `AnsweredAsHandled` with calls at any time, errors and destroy | 777,134 |
| `stomp_patient` | `SubscribedIsNoticed`: every handler that stays is announced | 201,336 |
| `stomp_unsent` | violation: `AlreadySubscribed` | |
| `stomp_text` | `IsLink`: frames are read as they were sent, once and in order, in both directions | 59,744 |
| `batch_order` | `TypeOK`, `InOrder`, `AbsoluteSize`, `TimerOfThisBatch` of the aggregator; `OnePlace`, `IsLink` and `EachIsTaken` of the pipeline: no payload is lost, repeated or overtaken between the streams, and none stays inside | 143,345 |
| `batch_reentrant` | violation: `AbsoluteSize` | |
| `requests` | `TypeOK`, `PendingIsExplained`, `BucketsAwaitParts`, `TurnsTaken`, `IsGateway`, `CallsSettle`: two calls at once through a flow with every kind of endpoint | 47,961 |
| `names` | `TypeOK`, `LookupsFailForACause`, `NoNamesOfTheDead`, `NamesKeepMeaning`, `NobodyIsCutOff`, for every sequence of seven registrations, exports, connections, closings and destructions | 163,903 |

`CHECK_DEADLOCK FALSE` is set in all of them: the application and the server may
have nothing left to do, which is how these programs normally end.

### 4.1 Bounds

* **Bus.** Two buses, so that sinks have a parent and a child; two or three
  channels, so that there is a broadcast, a unicast and a direct one; two
  messages, so that one is sent while the other is being handled; two changeable
  subscriptions of a channel, so that a dispatch finds one added or removed on
  either side of the running handler. `Rooms` is 30 where the flow is finite (the
  deepest stack of these instances is smaller, so `overflow` does not occur) and
  1 to 8 or 12 in `bus_line`, so that the stack ends at each kind of call, or not.
* **Exchange.** Subscriptions of up to three words over `a`, `*` and `#`, against the
  topics of up to two words over `a` and `b` and three of three words: a wild card
  before, after, between and next to others. Two handlers on three topics that
  overlap, two of the subscriptions changeable, dispatches that nest once, and three
  calls of the application: a subscription that goes and comes back during a
  dispatch, or a change within a nested one.
* **STOMP.** Two handlers and two destinations: subscriptions that are shared,
  and mixed up. `MaxId = 5` gives five ids: subscribe, unsubscribe and subscribe
  of the same destination again, or both destinations at once. One message,
  refused or handled by up to two handlers. `MaxLink` only limits when a plain
  SEND is added, `MaxNotices` how many notices wait for one receipt. `stomp_race` uses the
  symmetry of handlers and of destinations; it checks invariants only.
* **Batching.** Batches of three and six payloads: two full chunks, or several
  cut short by the timer, with a failed release between them; a queue of two, so that
  it is full while chunks still come.
* **Requests.** Two calls, so that answers can be mixed up; splits of no and of two
  parts; two services behind one channel, which answer in either order; one change of
  the subscriptions; all three load balancers; messages with and without headers. One
  entry of the flow is wired well, and one loses its answers. The router at the desk
  names one recipient, none, or two of which the second does not resolve after the first
  got a copy.
* **Names.** Three buses in a row, so that an export can be exported again; two names
  and two channels, so that names can point at each other and shadow each other; seven
  steps, enough to make the three buses and for four more calls, such as two
  registrations, a connection and a destruction, or three registrations that close a
  circle. Names and channels are symmetric; all properties are about single states or
  single steps.
* **Frames.** Three frames, so that the third can come behind two in a chunk; values
  that are empty, begin or end with a colon; bodies that begin or end with a blank
  line, in either line end.

### 4.2 Fairness

* `bus_line`: `WF(MachineStep)`. JavaScript does not stop in the middle of an
  activation. The application owes nothing: `AppStep` has no fairness.
* `stomp_patient`: `WF(Client)` and `WF(ServerReads)`. The event loop runs what
  arrives and handlers end; the server reads what it is sent. It need not send
  messages.
* `batch_order`: `WF` of what ends a release, of the timer, of the application that
  polls and sends on, and of the close event. Receivers return; timers that are due and
  events that were emitted run; the application goes on polling, since a queue that
  nobody polls keeps what it has. No message needs to arrive, no stream to close.
* `requests`: `WF(Turn)`, as in `bus_line`, and `WF` of the services, each of whose
  promises is assumed to settle: a service that never answers leaves its call pending
  by design, there is no timeout.

### 4.3 Where the code disagrees with what is said of it

* **`AlreadySubscribed`.** `subscribe` records the destination before the command
  that may throw (`stomp.js:112-121`). After a subscribe that came before
  CONNECTED, the branch "already subscribed on the server" (`stomp.js:96`) is taken
  for a destination the server never heard of.
* **`AbsoluteSize`.** "absolute size of a chunk" (`batching.js:27`) does not hold
  when a receiver of a chunk sends to the aggregator before it returns: its payload
  joins the array that is being released (`batching.js:53-54`).
* **`ThrowsForHandlers`.** "@throws exceptions from recipient handlers"
  (`exchange.js:81`): a handler that unsubscribes the last handler of a topic still to
  be visited makes the look-up at line 99 fail. The `TypeError` is collected like a
  handler's, and the channel reports a message as invalid that all subscribers got.

Four more facts came out of modelling. They are no findings of a run; the models
contain the behaviour, and the properties are stated so as to allow it.

* Each sink is guarded against itself, not against the other. If a listener of the
  root's dead letter channel throws and nobody listens to the root's invalid message
  channel, the two report to each other (`msgs.js:339`, `msgs.js:345`) until the stack
  ends.
* "`#` matches zero or more words" (`channels/exchange.js:47`), but `a.#.#.#` does not
  match `a`: the replacement of `#.#` does not overlap itself and leaves two, and these
  share one dot. With at most three words the matcher does what is documented
  (`exchange`).
* "undefined when not found" (`msgs.js:176`), but `resolveChannel` throws when the
  search goes through an exported name that its bus does not have or has for a handler,
  and does not end when an alias shadows the name it was found under. `LookupsFailForACause` lists the
  causes and shows that there are no others.
* A chain does not wait: a service that is a stage of one answers after the chain is
  over, and the answer is dropped. `PendingIsExplained` and `CallsSettle` count it as
  a loss. A splitter that returns nothing, a router that names nobody, a filter without a discard channel and
  `naiveRoundRobin` leave the call of a gateway pending in the same way.

`NoSilentLoss`, `SubscribedIsNoticed` and the batching theorems are therefore
stated with the conditions under which they do hold: wirings where nothing leaks
(`NothingLeaks`), which do not lead into a bus that is destroyed; applications that wait for `isReady` and do not call the
bridge from its callbacks; receivers that do not send back. `IsLink` of `StompLink` counts
the frames of one chunk behind the first among the dropped.

### 4.4 Mutants

Next to the definition it changes, each module holds mutants: the same operator
with a plausible mistake, a dropped guard, a missing reset, an error caught at the
wrong place. `PROJECT.json` pairs each property of each passing run with a mutant
that breaks it under that run's bounds. No specification uses them.

## 5. What is proved

All theorems hold for every value of the constants that satisfies the assumptions
the modules name: any tree of buses, any channels, any stack depth, and any wiring, or
any of the kind that the theorem names.
The assumptions say that options have their types, that the marks `None`,
`Missing`, `Noop` and `Gone` are no channels or lists, that the first wiring has
no duplicates, and that a direct channel has one handler.

**MessageBusProofs.** The inductive invariant `BusInv` is `TypeOK`, `Coherent`
and `SendContainsErrors`. `Coherent` is there since none of the others is
inductive alone: that a dispatch calls nobody twice needs lists of subscribers
without duplicates; that an error is caught where the code says needs a handler
to be called by a dispatch, and a sink not to report to itself. Lemmas come in
layers: sequences (push, replace, pop), the stack as the three ways a step changes
it, one lemma per group of actions, `StepInv`. From `BusInvariant` follow
`TypeCorrect`, `WellNested` (`Coherent`), `DeliveredOnce` (`NoDoubleDelivery`),
`ErrorsContained` (`SendContainsErrors`) and the action property
`NobodyIsSkipped` (`EveryoneIsCalled`).

The other three theorems follow a message over the whole stack. Each is about a kind of
wiring that `MessageBus` names, and `MCMessageBus` has TLC evaluate that the wiring of its run
is of this kind. Whether a step counts for a message depends on the activations below: `Held`
collects the messages of those that are at a given place, so that a message in
`Held(stack, i, "tap")` is only observed by the i-th activation. What a push, a replacement and a pop do
to `Held` is proved once. Each argument is then an invariant over the
stack, a lemma for each of the three, one for each way an activation continues (`Call`,
`Return`, `Propagate`, `Fail`, `Undelivered`) and one per action.

* `InvalidHasCause` (`InvalidOnlyAfterFault`) for wirings that are `OnlyReported`: nobody
  but the buses sends to an invalid message channel. `FaultInv`: an activation of such a
  channel, a dispatch that collected an error, and the handler an exception leaves have a
  message that something failed for, or that is only observed; and such a channel is
  reached only by a report or from another one, by a forwarder.
* `ConsumedOnce` (`OneFate`) for wirings that are `PointToPoint`, cycles included.
  `FateInv`: a message of which one activation runs is not in another one that still
  has somebody to call (`Waiting`); after it was consumed nobody who has it, off its
  taps, can do anything but return (`Done`). This one holds wherever the stack ends.
* `EveryMessageEndsSomewhere` (`NoSilentLoss`) for wirings where `NothingLeaks`: messages are
  passed on to channels of buses that stay, errors are not sent to the noopChannel, and
  somebody who does not throw listens to both sinks of the root. `LossInv`: a message that is not
  consumed, and whose bus stands, is in some activation off its taps (`UnderWay`); the
  running one has not returned in vain (`Pending`); a sink that has it still has a listener that
  does not throw to call, or is calling it (`Attended`); every sink of a bus that stands
  has such a listener (`Listened`); and a channel a message got to is destroyed only together with the
  one it was sent to (`Behind`, `WholeTrees`), since buses are destroyed with all those
  below them and forwarders lead upwards.

The first and the last assume that the stack does not run out. Both fail otherwise: with
`Rooms` of three to six in the wiring of `bus_flow` TLC finds a handler that fails for its message
because the send of another one could not start, and a sink whose listener could not be
called, after which its `send` returns as if it had been.

**BatchPipelineProofs.** For the aggregator alone, `IInv` is `TypeOK`, `InOrder`, `AbsoluteSize` and
`TimerOfThisBatch` plus two facts they need: a set `timeout` means that the batch is not empty
(`TimeoutHasPayload`: a timer never releases an empty chunk), and between two
messages there is room for one more (`RoomForOne`: the next push cannot exceed
the size). From `BatchInvariant` follow `BatchTyped` (`TypeOK`), `NothingLost`
(`InOrder`), `SizeKept` (`AbsoluteSize`) and `TimerKept` (`TimerOfThisBatch`). All are
under `~Reentrant`, and `batch_reentrant` shows that this condition is needed.

For the pipeline, `PipelineRunsAggregator`: a step of the pipeline is a step of
the aggregator or leaves it alone, so that the theorems above hold inside it.
`ChunksAtOnePlace` (`OnePlace`) follows from `PlaceInv`: the places are disjoint and,
since chunks are released under growing numbers (`ReleasedOnce`), what has arrived is
`1..arrived` and a chunk that is about to arrive is new. The queue holds no chunk twice
(`QueuedOnce`): this is what makes taking the first one take it out.

`PipelineIsLink` (`IsLink`) is the refinement: every step of the pipeline is a step of `FifoLink`
or none. `LinkInv` adds to `IInv` and `PlaceInv` that the queue is in increasing order of release
and what waits with the application is older than all that is queued (`InTurn`), and that what was
received is a sequence whose values are exactly the payloads of the written chunks
(`HeldOK`). That a chunk is an interval of the payloads (`ArrayIsInterval`), and that the chunks
follow one another without a gap (`ArraysFollow`), comes from `InOrder`, which speaks of all
chunks flattened into one sequence: `FlattenAppend` and its neighbours say what flattening
does, by induction over the number of chunks. The induction is made with `LeastElement`: every
nonempty set of naturals has a least element, from the well-foundedness of `<`.

**ExchangeDispatcherProofs.** The inductive invariant `ExchangeInv` says of every frame
on the stack three things. `Once`: what was called was called once, and is neither to be
visited nor, if its topic is being visited, in the copy of the handlers; `Finds`: a dispatch
without an error has called somebody or still has somebody to call; `Stays`: a
subscription that stays is in the table, and its handler is still to come or was
called. A step changes the top frame and may change the table under all the
others, and an `Unsubscribe` takes the pair out of `stayed` in each of them: this is why
`Stays` survives for the dispatches below. `ExchangeTyped` (`TypeOK`) and
`TakenByHandler` (`TakenMeansCalled`) hold for any matcher. `CalledOnceAsSubscribed`
(`CalledAsSubscribed`) assumes that the matcher is `Sound`, `WhoStaysIsServed`
(`StayersServed`) that it is `Complete`: what it takes, or what it should take, is what
the documentation says. These two are about the table `Match` alone. The literal
matcher, which compares for equality, has both; of the topical matcher the run
`exchange` shows them for all subscriptions of up to three words, and with four words
`a.#.#.#` breaks `Complete` (section 4.3).

**StompBridgeProofs.** Every invariant of `stomp_race` is a theorem, for any
destinations and handlers and any number of ids, frames, messages and notices. There
are five inductive invariants, each on top of the ones before.

* `BaseInv`: `TypeOK`, `Lockstep`, and that ids are given out once: whatever the maps,
  the links and the receipt in hand name is below `counter` (`FreshMaps`, `FreshLinks`,
  `FreshContext`). With it a new subscription cannot be mistaken for an old one. It gives
  `BridgeTyped` and `MapsInLockstep`.
* `ConfirmInv`: for every notice that waits, the receipt it waits for, if it has been
  answered, is that of a subscription the server accepted (`WaitingNotices`,
  `WaitingDestinations`, `WaitingTodo`), because the command on the link and the notices
  stored under its receipt are about the same subscription (`Matching`). It gives
  `NoticeIsConfirmed`. A handler that joins later is why `WaitingDestinations` is there:
  its notice is stored under the receipt of a command that somebody else caused.
* `AnswerInv`: a message is on the link, in hand, or finished (`Coming`, `InHand`,
  `Untouched`); what is finished has its answer if the connection is up and the bridge
  stands (`Replied`), and
  the connection cannot come up after a message went unanswered, since CONNECTED is the
  first frame and comes before any of them (`Opening`, `ConnectedFirst`). It gives
  `MessagesAnswered`.
* `ServerInv`: what the phases of the session allow (`Phases`), and the order of the
  commands on the link (`LinkInv`): before a SUBSCRIBE for a destination there is an
  UNSUBSCRIBE for every older subscription of that destination, one the server holds
  (`EndsHeld`) or one that is ahead on the link (`EndsSent`), and behind it one if the
  client has forgotten it since (`EndsForgotten`). `Known` and `Leftover` are `InStep` with
  the positions on the link. This is the argument that reading one frame more never
  makes a second subscription. It gives `SubscribedOnce` and `ClientServerInStep`.
* `ReceiptInv`: a receipt is asked for once, is on one of the two links at most, and on
  none when its notices are being sent (`ReceiptsOnce`), so that the entry is taken out
  when nothing can ask for it any more. It gives `ReceiptsComplete`.

The lemmas come in layers here too: frames and links, what a step may do to each link
(`ToServerStep`, `FromServerStep`), what each call does to the maps (`SubscribeFirstEffect`
and its neighbours), what taking or adding one command does to the order on the link
(`SubscribeTail`, `UnsubscribeAppend` and their neighbours), one lemma per step that
matters to an invariant.

**StompLinkProofs.** `StompLinkIsLink` (`IsLink`): every step of the link is a step of `FifoLink`
or none, for all words, messages and frames that the assumptions allow. Three layers.

*Texts.* `build` and the server's `Writing` flatten a sequence of lines, whose length is the
number of headers, and `parse` cuts the text up again. `RecursionExists` shows that the recursive function
behind `FlattenSeq` exists, and `UpTo` makes inductions over the number of lines, both with
`LeastElement`. `Heading(s, command, lines)` says of a text that it is a command and header
lines above the blank line: it has no blank line of its own, its first line is the command, and the
others are these lines. A heading with one more line is a heading (`HeadGrows`), and this is the
step of the induction by which `Built` and `Written` show that what is written is a heading, a blank line
and the rest. A heading is found again, whatever comes behind it (`HeadingParts`): `PartsApart` says that the
first blank line is the one that was written, even where the body begins with more of them, and
`HeadersAreRead` that the lines give the headers back. A name has no colon, so that it ends at the
first one, and values may hold others (`HeaderLineReads`); the order of the lines does not
matter since no two have the same name.

*Frames.* `FrameIsRead`: the server reads what `buildSendFrame` wrote as the same body and the same
headers, under the names of STOMP. That the body comes out whole although it may hold NUL needs the
length that `build` adds. `FrameIsParsed`: `parse` makes of a frame of the server what the
server meant, whatever follows in the chunk. There it needs no length, since the body has no NUL.

*Protocol.* The invariant `Inv` says that the first chunk holds a run of numbers from `first` to `last`, that
each chunk behind it holds the next one number, and that what was read or lost is all up to `last`
but `first` (`Numbered`); that each chunk begins with the frame of its first message
(`AllCarry`); and that what was read is what was sent (`AllSame`). `Send` and `ServerSends` are a
`Put` of `FifoLink` (`Puts`), `Receive` and `ServerReads` a `Get` (`Takes`), and `Coalesce` is a
`Drop` (`Coalesces`): the frame that joins the first chunk is the oldest behind it, and still open.

**BusTreeProofs.** `TreeInv` adds to `TypeOK` that a bus is made under one that was made
(`ParentsWereMade`), that the root is not waiting for anything (`RootLives`), and that only
adapters that were made close (`ClosedWereMade`). `ParentsWereMade` is what keeps names out of
buses that do not exist: an export writes into the parent. From `TreeInvariant` follow
`TreeTyped` (`TypeOK`) and the action property `SubscribersStay` (`NobodyIsCutOff`). Both
use no more of the search for names than the guards say, so they hold whatever a name
leads to.

The other theorems are about what names lead to. `Search` and `Trail` are recursive functions of
the number of steps; that there are such functions (`SearchExists`, `TrailExists`) is shown with
sets of numbers that have zero and all successors (`NatSet`, `RecursionExists`), and so are
inductions along a search, as `UpTo`, and over the tree, downwards from the root
(`TreeInduction`) and upwards from the leaves (`LeavesFirst`).

* `DeadAreForgotten` (`NoNamesOfTheDead`) needs no more than `TypeOK`: what a search finds is
  a component of some bus or the target of a reference (`FoundIsKnown`).
* `MeaningIsKept` (`NamesKeepMeaning`): where no bus is destroyed and no name is registered
  that the search came by and missed, each place of the trail has the same next place after the step
  (`SearchStays`).
* `LookupsEnd` (`LookupsFailForACause`). That searches end is not inductive: `alias` asks that a
  name leads to something when it is given and never again, `exportChannel` asks nothing, an
  alias can shadow the name it was given to, and a missing name can be exported by a child at any time.
  The inductive invariant is `Leads` (`NamesLeadSomewhere`). `AliasesLead`: what a name was given
  to still has its name, there or above. `NoCircles`: every name of every bus is grounded in
  finitely many steps, where a missing name counts as grounded only if all that the buses below could
  export for it is (`Fillable`). "Finitely many" is said with sets: a set of names that has
  everything that is grounded in it has all names. A new alias or export keeps this since the
  names it leads to were grounded without it, `destroy` since it takes out a whole subtree
  (`DestroyLeads`). From `NoCircles` the bound follows by counting: the names whose searches have ended
  after k steps are more with each k until they are all (`GrowsToAll`, `AllSettle`).

**RequestFlowProofs.** `FlowTyped` (`TypeOK`) and `EverybodyHasTurns` hold in every wiring,
with routers that copy messages too. The invariant `TypeInv`
has one part per group of variables; each kind of endpoint touches two or three of them, and
one lemma per part collects what all steps do to it. What is not obvious in it is that a bucket
takes only parts of its own correlation, numbered below their size: whatever carries a
correlation was made by `Part` (`GoodMessages`). `InOrderFacts` says that sorting is a permutation:
each position is taken once (`PositionsAreTaken`), which is a fact about cardinalities.

`EverybodyHasTurns` (`TurnsTaken`) is about round robin with any number of subscribers. `TurnInv`
says more than `TurnsTaken`: those who were called since the subscribers changed stand one behind the
other in the list, up to its end and on from its start, so that two calls less than a round
apart have different places in it.

The other three theorems follow a call through a wiring that is `SplitOnce`, where routers
name one recipient or none. What is under
way is seen as a set of tokens: a send of this turn, numbered from the last one so that it
keeps its number while others come and go in front, or the promise of a service with the
channels it may settle to. `CallInv` is inductive and has three parts. `HeadersInv`: headers
name nobody but the caller, only a call that failed is sent an error, and a message whose body
was not made by an aggregator is in every closed zone that requests are sent to
(`Unreplied`). `CallsOK`: each call is in one of three phases. It is one message with no bucket
(`Unsplit`); or it is in n parts, each of them under way to the aggregator, in its bucket,
lost, or failed after the call was rejected, and no two with one number (`Divided`); or it is
one message again, made of all its parts in order, or the last part after a release that threw
(`Gathered`). `TasksOK`: a service answers nobody's error channel.

A phase is a predicate of the tokens, the buckets and the promise of one call, so that the
lemmas of the first layer (`MovePhase`, `LosePhase`, `SplitPhase`, `StorePhase`, `ReleasePhase`
and their neighbours) speak of no step. The second layer says what taking and adding sends
does to the tokens, the third where each kind of endpoint may send (`Proper`: not out of a
closed zone, and to nobody but the caller), and then each action is one of the lemmas of the
first. That a bucket with all numbers is full, and that a full one has all, are counted
(`FullFacts`, `SortedFacts`, `MissingPart`).

* `HangsForACause` (`PendingIsExplained`) and `BucketsHeldForACause`
  (`BucketsAwaitParts`) read `CallInv` where nothing is under way.
* `FlowIsGateway` (`IsGateway`), for wirings that are `AnswersAreMade` too: every step of the flow
  is a step of `RequestReply` or none. A reply that reaches the gateway is in the last phase
  and has a body (`ReplyIsWhole`), and a message under way is one of a call that was made.

Without the conditions these are no theorems. A part that is split again carries the
correlation of the first split, and the aggregator mixes the two; where an endpoint answers
with the message itself the call is resolved with something that has no parts. The code permits
both. TLC finds them on small wirings that break one condition each: with two aggregators
`PendingIsExplained` fails, with two splitters in a row `BucketsAwaitParts` does, and with a
direct endpoint behind the gateway `IsGateway` does. A router that copies a part breaks the last
two (3.5). These wirings are not kept as runs.

Model-checked only: everything about `TopicMatcher`, and liveness, that is `SendReturns`,
`SubscribedIsNoticed`, `EachIsTaken` and `CallsSettle`. Liveness under fairness and `ENABLED` are
out of the reach of the prover in use. What `TopicMatcher` computes over texts is
compared with the documentation for the patterns and topics of the run, which are all short ones:
for longer ones they do not agree (4.3).

## 6. What is not modelled

* **Topics in names** (`channel!topic`): the topic takes no part in the search. What a
  topic does to a message is in `StompText`. Outside of `BusTree` channels are given as
  values; a name that does not resolve is the value `Missing` or `None`. The application
  does not use a bus it has destroyed, other than from a bus under it.
* **Ids and payloads**, but for the number of a part and its correlation. A flow splits
  a message once: a message that is split twice has one id for both (`PROJECT.json`,
  hazard at `msgs.js:138`).
* **Copies of a request.** `RequestFlow` has routers that send a message to several
  recipients, but the theorems that follow a call exclude them, and the run has a copy only of
  a message that then fails. `tasks` is a set: two promises of one service for two
  identical copies would be one there.
* **The control bus of the STOMP bridge** is the last notice per destination and
  handler; its exchange dispatchers and the taps that copy raw traffic to it are not
  in the model, and listeners of that traffic do not call the bridge.
* **Reconnection**: the bridge has none.
* **Frames cut in two** by a stream, bodies whose octets are not characters, and a
  content-length that was copied from another message. The translator has no code for
  them.
* **Error events** of streams and sockets, which are sent to a channel and no more.
* **Adapters** for Backbone, DOM, MessagePort and Redis register one callback each and
  keep no state. The logger writes to a console.
* **wire.js**: the resolvers and the channels factory, which call one by one what
  `BusTree` has.

## 7. Running

    tlc -config BusFlow.cfg MCMessageBus              # also BusLine.cfg
    tlc -config Exchange.cfg MCExchangeDispatcher     # also ExchangeVanish.cfg
    tlc -config StompRace.cfg MCStompBridge           # also StompPatient.cfg, StompUnsent.cfg
    tlc -config StompLink.cfg MCStompLink
    tlc -config BatchOrder.cfg MCBatchPipeline
    tlc -config BatchReentrant.cfg MCBatchingAggregator
    tlc -config RequestFlow.cfg MCRequestFlow
    tlc -config Names.cfg MCBusTree
    tlapm MessageBusProofs.tla
    tlapm BatchPipelineProofs.tla                     # about three minutes
    tlapm ExchangeDispatcherProofs.tla
    tlapm BusTreeProofs.tla                           # about two minutes
    tlapm RequestFlowProofs.tla                       # about seven minutes
    tlapm StompBridgeProofs.tla                       # about six minutes
    tlapm StompLinkProofs.tla                         # about six minutes

Each run ends within two minutes on two workers.
