----------------------------- MODULE MessageBus -----------------------------
(***************************************************************************)
(* The core of msgs.js: a tree of buses, their channels and handlers, and  *)
(* what one call of channel.send() does until it returns.                  *)
(*                                                                         *)
(* The program is single threaded and synchronous.  What interleaves is    *)
(* not threads but activations: a handler that runs may send other         *)
(* messages, change subscriptions, tap channels or destroy a bus before it *)
(* returns, in the middle of any dispatch below it.  So the state holds    *)
(* the call stack: one frame per activation of channel.send (msgs.js:327)  *)
(* and of handler.handle (msgs.js:399), and the exception in flight.       *)
(*                                                                         *)
(* Payloads and headers are abstracted: a message keeps its identity along *)
(* all copies made of it, and only the headers that route it are kept.     *)
(***************************************************************************)
EXTENDS HandlerList

CONSTANTS
  Bus,          \* the buses
  Root,         \* the global bus, which has no parent
  Parent,       \* Parent[b]: the bus b was made from, for b # Root
  AppChannel,   \* the channels the application made
  Owner,        \* Owner[c]: the bus an application channel was made by
  Style,        \* Style[c]: "default" (unicast), "pubsub" or "direct"
  Components,   \* Components[b]: the application channels b registers by name
  AppHandler,   \* the handlers the application made
  Output,       \* Output[h]: the output channel of h, None or Missing
  ErrorOutput,  \* ErrorOutput[h]: the error channel of h, None or Missing
  Throwers,     \* the handlers whose transform may throw
  Actors,       \* the handlers whose transform may use the bus
  Message,      \* the messages the application may send
  ReplyTo,      \* ReplyTo[m]: the replyChannel header of m, None or Missing
  ErrorTo,      \* ErrorTo[m]: the errorChannel header of m, None or Missing
  Entry,        \* the channels the application sends to
  Wiring,       \* Wiring[c]: the application handlers first subscribed to c
  Mutable,      \* the pairs <<c, h>> the application may (un)subscribe
  Tappable,     \* the pairs <<c, h>> the application may (un)tap
  Disposable,   \* the buses the application may destroy
  Rooms,        \* how many activations the JavaScript stack may have left
  None,         \* no channel: an option or a header that is not set
  Noop,         \* the noopChannel, which drops what it is sent
  Missing,      \* a channel name that does not resolve
  Gone          \* the handler list of a destroyed dispatcher

DLC(b) == <<"deadLetterChannel", b>>
IMC(b) == <<"invalidMessageChannel", b>>

Channel == AppChannel \cup {DLC(b) : b \in Bus} \cup {IMC(b) : b \in Bus}

\* The handler a bus subscribes to its own sink: it forwards to the parent's.
Forwarder(c) == <<"forward", c>>
Handler == AppHandler \cup {Forwarder(c) : c \in Channel}

HomeOf(c) == IF c \in AppChannel THEN Owner[c] ELSE c[2]
StyleOf(c) == IF c \in AppChannel THEN Style[c] ELSE "pubsub"
ChannelOf(h) == IF h \in AppHandler THEN Output[h] ELSE h[2]

ChannelRef == Channel \cup {None, Noop, Missing}

ASSUME BusAssumption ==
  /\ Root \in Bus
  /\ Parent \in [Bus \ {Root} -> Bus]
  /\ Disposable \subseteq Bus \ {Root}
ASSUME ChannelAssumption ==
  /\ Owner \in [AppChannel -> Bus]
  /\ Style \in [AppChannel -> {"default", "pubsub", "direct"}]
  /\ Components \in [Bus -> SUBSET AppChannel]
  /\ AppChannel \cap {DLC(b) : b \in Bus} = {}
  /\ AppChannel \cap {IMC(b) : b \in Bus} = {}
  /\ Entry \subseteq Channel
  /\ {None, Noop, Missing} \cap Channel = {}
  /\ None # Noop /\ None # Missing /\ Noop # Missing
ASSUME HandlerAssumption ==
  /\ Output \in [AppHandler -> ChannelRef]
  /\ ErrorOutput \in [AppHandler -> ChannelRef]
  /\ Throwers \subseteq AppHandler /\ Actors \subseteq AppHandler
  /\ AppHandler \cap {Forwarder(c) : c \in Channel} = {}
  /\ Wiring \in [Channel -> Seq(AppHandler)]
  /\ \A c \in Channel : \A i, j \in 1..Len(Wiring[c]) :
       Wiring[c][i] = Wiring[c][j] => i = j
  /\ \A c \in AppChannel : Style[c] = "direct" => Len(Wiring[c]) = 1
  /\ Mutable \subseteq {c \in Channel : StyleOf(c) # "direct"} \X AppHandler
  /\ Tappable \subseteq Channel \X AppHandler
ASSUME MessageAssumption ==
  /\ ReplyTo \in [Message -> ChannelRef]
  /\ ErrorTo \in [Message -> ChannelRef]
ASSUME RoomAssumption == Rooms \subseteq Nat \ {0}
ASSUME MarkAssumption ==
  /\ None \notin Seq(Handler) /\ Gone \notin Seq(Handler) /\ None # Gone

VARIABLES
  handlers,   \* handlers[c]: the subscribers of c's dispatcher, in order
  taps,       \* taps[c]: the wire taps of c, None before the first tap
  destroyed,  \* the buses destroy() was called on
  stack,      \* the activations, the running one first
  room,       \* how many activations the stack holds in this turn
  exc,        \* the exception being thrown: "none", "error" or "overflow"
  sent,       \* history: sent[m], where the application sent m, or None
  settled,    \* history: settled[m], how often a handler consumed m, up to 2
  faulty      \* history: the messages some activation failed for

vars == <<handlers, taps, destroyed, stack, room, exc, sent, settled, faulty>>
-----------------------------------------------------------------------------
\* The subscribers at the time of the call: _handlers() copies the array.
IsList(q) == q # None /\ q # Gone

\* An activation of channel.send.  "at" is the call it makes or prepares:
\* taps.dispatch, dispatcher.dispatch, the send to the dead letter channel or
\* the send to the invalid message channel.  "todo" holds the handlers the
\* running dispatch has not called, "err" whether one of those called threw.
SendFrame(c, m) ==
  [at |-> "tap", ch |-> c, msg |-> m,
   todo |-> IF IsList(taps[c]) THEN taps[c] ELSE <<>>, err |-> FALSE]

\* An activation of handler.handle: in its transform, in the send to its
\* output channel or in the send to its error channel.
HandleFrame(h, m) == [at |-> "body", h |-> h, msg |-> m]

Top == Head(stack)
NextOutput(h, m) == IF ChannelOf(h) # None THEN ChannelOf(h) ELSE ReplyTo[m]
NextError(h, m) ==
  IF h \in AppHandler /\ ErrorOutput[h] # None THEN ErrorOutput[h] ELSE ErrorTo[m]

\* The ways an activation continues.  "me" is its own frame after the step.
Call(me, callee) ==
  IF Len(stack) < room
    THEN stack' = <<callee, me>> \o Tail(stack) /\ exc' = "none"
    ELSE stack' = <<me>> \o Tail(stack) /\ exc' = "overflow"
Goto(me) == stack' = <<me>> \o Tail(stack) /\ exc' = "none"
Return == stack' = Tail(stack) /\ exc' = "none"
Propagate == stack' = Tail(stack) /\ UNCHANGED exc

Running(pcs) == stack # <<>> /\ exc = "none" /\ Top.at \in pcs
Catching(pcs) == stack # <<>> /\ exc # "none" /\ Top.at \in pcs

\* A message is only observed while a tap of one of its sends runs.
OnTap(m) == \E i \in 2..Len(stack) : stack[i].at = "tap" /\ stack[i].msg = m

Quiet == UNCHANGED <<handlers, taps, destroyed, room, sent>>
NoHistory == UNCHANGED <<settled, faulty>>
Blame(m) == faulty' = (IF OnTap(m) THEN faulty ELSE faulty \cup {m})
            /\ UNCHANGED settled
-----------------------------------------------------------------------------
Init ==
  /\ handlers = [c \in Channel |->
       IF c \notin AppChannel /\ c[2] # Root
         THEN <<Forwarder(<<c[1], Parent[c[2]]>>)>> \o Wiring[c]
         ELSE Wiring[c]]
  /\ taps = [c \in Channel |-> None]
  /\ destroyed = {}
  /\ stack = <<>> /\ exc = "none" /\ room \in Rooms
  /\ sent = [m \in Message |-> None] /\ settled = [m \in Message |-> 0] /\ faulty = {}
-----------------------------------------------------------------------------
(* channel.send *)

\* Mutant: the sink reports its own failures to itself.
MutantFailUnguarded ==
  Call([Top EXCEPT !.at = "invalid", !.todo = <<>>],
       SendFrame(IMC(HomeOf(Top.ch)), Top.msg))

\* The catch of send: report the message, unless this is where reports go.
Fail ==
  IF Top.ch = IMC(HomeOf(Top.ch))
    THEN Return
    ELSE Call([Top EXCEPT !.at = "invalid", !.todo = <<>>],
              SendFrame(IMC(HomeOf(Top.ch)), Top.msg))

\* Mutant: a message nobody subscribes to is dropped.
MutantUndeliveredDrops == Return

\* dispatch() returned false: nobody subscribes.
Undelivered ==
  IF Top.ch = DLC(HomeOf(Top.ch))
    THEN Return
    ELSE Call([Top EXCEPT !.at = "dead"],
              SendFrame(DLC(HomeOf(Top.ch)), Top.msg))

\* Mutant: the loop over the handlers does not advance.
MutantCallHandlerStays ==
  /\ Running({"tap", "dispatch"}) /\ Top.todo # <<>>
  /\ Call(Top, HandleFrame(Head(Top.todo), Top.msg))
  /\ Quiet /\ NoHistory

\* forEach over the copied handlers, of a tap or of the channel itself.
CallHandler ==
  /\ Running({"tap", "dispatch"}) /\ Top.todo # <<>>
  /\ Call([Top EXCEPT !.todo = Tail(@)], HandleFrame(Head(Top.todo), Top.msg))
  /\ Quiet /\ NoHistory

\* The taps are done: dispatcher.dispatch copies its handlers and picks whom
\* to call.  A destroyed dispatcher has no array to copy and throws.
Dispatch ==
  /\ Running({"tap"}) /\ Top.todo = <<>>
  /\ Quiet
  /\ LET q == handlers[Top.ch] IN
       \/ q = Gone /\ Fail /\ Blame(Top.msg)
       \/ q = <<>> /\ Undelivered /\ NoHistory
       \/ /\ IsList(q) /\ q # <<>>
          /\ IF StyleOf(Top.ch) = "default"
               THEN \E h \in Members(q) :
                      Goto([Top EXCEPT !.at = "dispatch", !.todo = <<h>>])
               ELSE Goto([Top EXCEPT !.at = "dispatch", !.todo = q])
          /\ NoHistory

\* dispatch() ends: it throws the collected errors or returns true.
EndDispatch ==
  /\ Running({"dispatch"}) /\ Top.todo = <<>>
  /\ IF Top.err THEN Fail ELSE Return
  /\ Quiet /\ NoHistory

\* Mutant: a message found dead is then reported invalid as well.
MutantSinkReturnsFalse ==
  /\ Running({"dead", "invalid"})
  /\ IF Top.at = "dead" THEN Fail ELSE Return
  /\ Quiet /\ NoHistory

\* The send to a sink returned and so does this one.
SinkReturns ==
  /\ Running({"dead", "invalid"})
  /\ Return
  /\ Quiet /\ NoHistory

\* Mutant: a failing tap fails the send.
MutantTapFails ==
  /\ Catching({"tap"})
  /\ Fail
  /\ Quiet /\ NoHistory

\* A tap threw: the error is squelched and the next tap is called.
CatchInTap ==
  /\ Catching({"tap"})
  /\ Goto(Top)
  /\ Quiet /\ NoHistory

\* Mutants: the first error ends the broadcast; nothing catches what a handler
\* throws.
MutantFirstErrorEnds ==
  /\ Catching({"dispatch"})
  /\ Fail
  /\ Quiet /\ NoHistory
MutantUncaught ==
  /\ Catching({"dispatch"})
  /\ Propagate
  /\ Quiet /\ NoHistory

\* A handler threw: dispatch remembers it and calls the others.
CatchInDispatch ==
  /\ Catching({"dispatch"})
  /\ Goto([Top EXCEPT !.err = TRUE])
  /\ Quiet /\ NoHistory

\* The send to the dead letter channel threw, inside the try of this send.
CatchInDead ==
  /\ Catching({"dead"})
  /\ Fail
  /\ Quiet /\ NoHistory

\* The send to the invalid message channel threw: nothing catches that here.
ThrowFromInvalid ==
  /\ Catching({"invalid"})
  /\ Propagate
  /\ Quiet /\ NoHistory
-----------------------------------------------------------------------------
(* handler.handle *)

\* The transform returned nothing, or there is nowhere to send its result.
HandlerReturns ==
  /\ Running({"body"}) /\ Top.h \in AppHandler
  /\ Return
  /\ settled' = IF OnTap(Top.msg) \/ settled[Top.msg] = 2 THEN settled
                  ELSE [settled EXCEPT ![Top.msg] = @ + 1]
  /\ UNCHANGED faulty
  /\ Quiet

\* The transform returned a payload: send it on, or throw for an output
\* channel that does not resolve.
HandlerForwards ==
  /\ Running({"body"}) /\ NextOutput(Top.h, Top.msg) \notin {None, Noop}
  /\ LET out == NextOutput(Top.h, Top.msg)
         me == [Top EXCEPT !.at = "output"]
     IN IF out = Missing
          THEN /\ stack' = <<me>> \o Tail(stack) /\ exc' = "error"
               /\ Blame(Top.msg)
          ELSE Call(me, SendFrame(out, Top.msg)) /\ NoHistory
  /\ Quiet

HandlerThrows ==
  /\ Running({"body"}) /\ Top.h \in Throwers
  /\ exc' = "error"
  /\ Blame(Top.msg)
  /\ UNCHANGED stack /\ Quiet

\* The send to the output or to the error channel returned.
ForwardReturns ==
  /\ Running({"output", "error"})
  /\ Return
  /\ Quiet /\ NoHistory

\* The catch of handle: send the message to the error channel, or rethrow.
CatchInHandler ==
  /\ Catching({"body", "output"})
  /\ LET err == NextError(Top.h, Top.msg)
         me == [Top EXCEPT !.at = "error"]
     IN \/ err = None /\ Propagate
        \/ err = Noop /\ Return
        \/ err = Missing /\ stack' = <<me>> \o Tail(stack) /\ exc' = "error"
        \/ err \in Channel /\ Call(me, SendFrame(err, Top.msg))
  /\ Quiet /\ NoHistory

ThrowFromError ==
  /\ Catching({"error"})
  /\ Propagate
  /\ Quiet /\ NoHistory

\* The exception reaches the application, which called send.
AppCatches ==
  /\ stack = <<>> /\ exc # "none"
  /\ exc' = "none"
  /\ UNCHANGED stack /\ Quiet /\ NoHistory
-----------------------------------------------------------------------------
(* The application: at top level, or from within the transform of a handler *)

AppTurn ==
  /\ exc = "none"
  /\ stack # <<>> => Top.at = "body" /\ Top.h \in Actors

\* A call of the application throws to the code that made it.
AppCallThrows ==
  /\ exc' = IF stack = <<>> THEN "none" ELSE "error"
  /\ IF stack = <<>> THEN NoHistory ELSE Blame(Top.msg)
  /\ UNCHANGED <<handlers, taps, destroyed, stack, room, sent>>

Send(c, m) ==
  /\ AppTurn /\ sent[m] = None
  /\ sent' = [sent EXCEPT ![m] = c]
  /\ IF stack = <<>>
       THEN stack' = <<SendFrame(c, m)>> /\ room' \in Rooms /\ UNCHANGED exc
       ELSE Call(Top, SendFrame(c, m)) /\ UNCHANGED room
  /\ UNCHANGED <<handlers, taps, destroyed>> /\ NoHistory

Subscribe(c, h) ==
  /\ AppTurn
  /\ IF handlers[c] = Gone
       THEN AppCallThrows
       ELSE /\ handlers' = [handlers EXCEPT ![c] = Add(@, h)]
            /\ UNCHANGED <<taps, destroyed, stack, room, exc, sent>> /\ NoHistory

Unsubscribe(c, h) ==
  /\ AppTurn
  /\ IF handlers[c] = Gone
       THEN AppCallThrows
       ELSE /\ handlers' = [handlers EXCEPT ![c] = Without(@, h)]
            /\ UNCHANGED <<taps, destroyed, stack, room, exc, sent>> /\ NoHistory

Tap(c, h) ==
  /\ AppTurn
  /\ IF taps[c] = Gone
       THEN AppCallThrows
       ELSE /\ taps' = [taps EXCEPT ![c] =
                          IF @ = None THEN <<h>> ELSE Add(@, h)]
            /\ UNCHANGED <<handlers, destroyed, stack, room, exc, sent>> /\ NoHistory

Untap(c, h) ==
  /\ AppTurn /\ taps[c] # None
  /\ IF taps[c] = Gone
       THEN AppCallThrows
       ELSE /\ taps' = [taps EXCEPT ![c] = Without(@, h)]
            /\ UNCHANGED <<handlers, destroyed, stack, room, exc, sent>> /\ NoHistory

\* The buses below b, b included: children.forEach recurses.
Below(b) ==
  {x \in Bus : \A S \in SUBSET Bus :
     b \in S /\ (\A y \in Bus \ {Root} : Parent[y] \in S => y \in S) => x \in S}

\* What destroy() of b destroys: the channels registered by name with b or a
\* bus below it, whoever made them, and the sinks of these buses.  A bus that
\* was destroyed before has no names left.
Doomed(b) ==
  (UNION {Components[x] : x \in Below(b) \ destroyed})
    \cup (UNION {{DLC(x), IMC(x)} : x \in Below(b)})

\* Mutant: destroy() drops the channels, which others still hold.
MutantDropsChannels(b) ==
  /\ AppTurn
  /\ destroyed' = destroyed \cup Below(b)
  /\ handlers' = [c \in Channel \ Doomed(b) |-> handlers[c]]
  /\ taps' = [c \in Channel \ Doomed(b) |-> taps[c]]
  /\ UNCHANGED <<stack, room, exc, sent>> /\ NoHistory

DestroyBus(b) ==
  /\ AppTurn
  /\ destroyed' = destroyed \cup Below(b)
  /\ handlers' = [c \in Channel |->
       IF c \in Doomed(b) /\ StyleOf(c) # "direct" THEN Gone ELSE handlers[c]]
  /\ taps' = [c \in Channel |->
       IF c \in Doomed(b) /\ taps[c] # None THEN Gone ELSE taps[c]]
  /\ UNCHANGED <<stack, room, exc, sent>> /\ NoHistory
-----------------------------------------------------------------------------
SendStep == \/ CallHandler \/ Dispatch \/ EndDispatch \/ SinkReturns
            \/ CatchInTap \/ CatchInDispatch \/ CatchInDead \/ ThrowFromInvalid
HandleStep == \/ HandlerReturns \/ HandlerForwards \/ HandlerThrows
              \/ ForwardReturns \/ CatchInHandler \/ ThrowFromError
MachineStep == SendStep \/ HandleStep \/ AppCatches

AppStep ==
  \/ \E c \in Entry, m \in Message : Send(c, m)
  \/ \E p \in Mutable : Subscribe(p[1], p[2]) \/ Unsubscribe(p[1], p[2])
  \/ \E p \in Tappable : Tap(p[1], p[2]) \/ Untap(p[1], p[2])
  \/ \E b \in Disposable : DestroyBus(b)

Next == MachineStep \/ AppStep

Spec == Init /\ [][Next]_vars

\* JavaScript runs an activation to its end.
FairSpec == Spec /\ WF_vars(MachineStep)
-----------------------------------------------------------------------------
SendFrames ==
  [at : {"tap", "dispatch", "dead", "invalid"}, ch : Channel, msg : Message,
   todo : Seq(Handler), err : BOOLEAN]
HandleFrames == [at : {"body", "output", "error"}, h : Handler, msg : Message]

\* The shape of the state.
TypeOK ==
  /\ handlers \in [Channel -> Seq(Handler) \cup {Gone}]
  /\ taps \in [Channel -> Seq(Handler) \cup {None, Gone}]
  /\ destroyed \subseteq Bus
  /\ stack \in Seq(SendFrames \cup HandleFrames)
  /\ room \in Nat \ {0}
  /\ exc \in {"none", "error", "overflow"}
  /\ sent \in [Message -> Channel \cup {None}]
  /\ settled \in [Message -> 0..2]
  /\ faulty \subseteq Message

IsSend(f) == "ch" \in DOMAIN f

\* One dispatch never calls a handler twice, whatever the handlers it calls
\* subscribe, unsubscribe, tap or destroy meanwhile: what is left to call has
\* no duplicate, and the handler being called is not in it (broadcast.js:46,
\* _subscribable.js:30-36 and 75-77).
NoDoubleDelivery ==
  \A i \in 1..Len(stack) :
    IsSend(stack[i]) =>
      /\ Distinct(stack[i].todo)
      /\ i > 1 /\ stack[i].at \in {"tap", "dispatch"}
           => stack[i-1].h \notin Members(stack[i].todo)

\* A dispatch with handlers left to call goes on: its frame stays where it is,
\* counted from the bottom of the stack, and in the same dispatch.
DispatchGoesOn ==
  stack # <<>> /\ Top.at \in {"tap", "dispatch"} /\ Top.todo # <<>>
    => /\ Len(stack') >= Len(stack)
       /\ LET me == stack'[Len(stack') - Len(stack) + 1] IN
            me.at = Top.at /\ me.ch = Top.ch

\* A broadcast calls every handler it copied: a dispatch, of the channel or of
\* its taps, ends only when none is left, also when handlers before it threw
\* (broadcast.js:46-53).
EveryoneIsCalled == [][DispatchGoesOn]_vars

\* What the proofs need besides TypeOK.  Subscribers and taps have no duplicate;
\* a handler is always called by a dispatch; a send that reports a message is
\* not itself the sink it reports to.
Coherent ==
  /\ \A c \in Channel : /\ IsList(handlers[c]) => Distinct(handlers[c])
                        /\ IsList(taps[c]) => Distinct(taps[c])
  /\ \A i \in 1..Len(stack) :
       IF IsSend(stack[i])
         THEN /\ stack[i].at = "dead" => stack[i].ch # DLC(HomeOf(stack[i].ch))
              /\ stack[i].at = "invalid"
                   => stack[i].ch # IMC(HomeOf(stack[i].ch))
         ELSE i < Len(stack) /\ stack[i+1].at \in {"tap", "dispatch"}

\* channel.send never throws what a handler or a bad channel name threw: such
\* an error stays within handlers, dispatches and taps, and neither a report
\* to a sink nor the application that called send sees it.  Only the end of
\* the stack gets that far (msgs.js:328-347).
SendContainsErrors ==
  exc = "error" => stack # <<>> /\ Top.at \notin {"dead", "invalid"}

-----------------------------------------------------------------------------
(* Kinds of wiring.  The last three properties are about one kind each.      *)

Invalid == {IMC(b) : b \in Bus}
Leads(h) == ChannelOf(h) \in Invalid

\* Nobody but the buses sends to an invalid message channel.
OnlyReported ==
  /\ Entry \cap Invalid = {}
  /\ \A h \in AppHandler : ~Leads(h)
  /\ \A m \in Message : ReplyTo[m] \notin Invalid

\* Nothing is broadcast: every channel that could has at most one subscriber.
PointToPoint ==
  \A c \in Channel : StyleOf(c) # "default" =>
    /\ \A h \in AppHandler : <<c, h>> \notin Mutable
    /\ Len(Wiring[c]) <= IF c \notin AppChannel /\ c[2] # Root THEN 0 ELSE 1

\* A handler that never throws: a forwarder, or a listener that consumes.
Sure(h) == h \notin AppHandler \/ (h \notin Throwers \cup Actors /\ Output[h] = Noop)

\* A channel of a bus that nobody destroys.
Lasting(c) == \A d \in Disposable : HomeOf(c) \notin Below(d)

\* Messages are passed on to channels that stay, no error is sent to the noopChannel,
\* and somebody listens to the dead and invalid messages of the root.
NothingLeaks ==
  /\ \A h \in AppHandler :
       /\ Output[h] \in Channel => Lasting(Output[h])
       /\ ErrorOutput[h] # Noop /\ (ErrorOutput[h] \in Channel => Lasting(ErrorOutput[h]))
  /\ \A m \in Message :
       /\ ReplyTo[m] \in Channel => Lasting(ReplyTo[m])
       /\ ErrorTo[m] # Noop /\ (ErrorTo[m] \in Channel => Lasting(ErrorTo[m]))
  /\ \A c \in {DLC(Root), IMC(Root)} :
       \E h \in Members(Wiring[c]) : Sure(h) /\ <<c, h>> \notin Mutable
-----------------------------------------------------------------------------
\* A message reaches an invalid message channel only if something failed for
\* it outside of a tap: a failing tap makes no message invalid (msgs.js:329-335
\* "wiretaps must never interfere with normal operation").  This holds where
\* OnlyReported, as long as the stack does not run out.
InvalidOnlyAfterFault ==
  \A i \in 1..Len(stack) :
    IsSend(stack[i]) /\ stack[i].ch \in {IMC(b) : b \in Bus}
      => stack[i].msg \in faulty \/ OnTap(stack[i].msg)

Idle == stack = <<>> /\ exc = "none"

\* When send has returned, the message was consumed by some handler, a listener
\* of a sink included, unless it was sent to a channel of a bus that has been
\* destroyed since (msgs.js:336-347).  This holds where NothingLeaks, as long as
\* the stack does not run out.
NoSilentLoss ==
  Idle => \A m \in Message :
            sent[m] # None => settled[m] > 0 \/ HomeOf(sent[m]) \in destroyed

\* Where PointToPoint, a message has one fate: it is consumed, or reported dead
\* or invalid, and never two of these (unicast.js:44-56, msgs.js:336-347).
OneFate == \A m \in Message : settled[m] <= 1

\* Every send of the application returns.
SendReturns == []<>Idle
=============================================================================
