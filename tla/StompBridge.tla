----------------------------- MODULE StompBridge ----------------------------
(***************************************************************************)
(* A STOMP bridge (channels/dispatchers/stomp.js): a channel whose         *)
(* subscriptions live on a remote server.  The client keeps, for each      *)
(* destination, one server-side subscription shared by all local handlers, *)
(* waits for RECEIPT frames before it announces that a handler is          *)
(* (un)subscribed, and acknowledges the messages its handlers took.        *)
(*                                                                         *)
(* Between the bridge and the server are two reliable FIFO links, the      *)
(* bus channels opts.output and opts.input with a socket or stream behind. *)
(* The server is external: it is modelled by what the bridge expects of a  *)
(* STOMP server.  The client is single threaded; it processes one frame    *)
(* after the other, but while handlers and listeners of its notifications  *)
(* run they may call the bridge again.                                     *)
(***************************************************************************)
EXTENDS HandlerList, Functions

CONSTANTS
  Destination, Handler,
  Ack,          \* opts.ack: "auto", "client" or "client-individual"
  Patient,      \* the application waits for isReady() before it uses the bridge
  Reentrant,    \* handlers and listeners may call the bridge
  MayFail,      \* the server may refuse or end the session with an ERROR
  Disposable,   \* the application may destroy the bridge
  MaxId,        \* bound: how far the client's counter goes
  MaxMessages,  \* bound: how many messages the server sends
  MaxLink,      \* bound: frames under way to the server when a message is sent
  MaxNotices,   \* bound: notices that wait for one receipt
  None          \* no subscription

ASSUME AckAssumption == Ack \in {"auto", "client", "client-individual"}
ASSUME SwitchAssumption == {Patient, Reentrant, MayFail, Disposable} \subseteq BOOLEAN
ASSUME BoundAssumption == {MaxId, MaxMessages, MaxLink, MaxNotices} \subseteq Nat
ASSUME NoneAssumption == None \notin Nat

VARIABLES
  ready, destroyed, counter,
  destinations,  \* destinations[d]: the id of d's subscription, or None
  subscriptions, \* subscriptions[id]: its handlers and its receipt id
  receipts,      \* receipts[rid]: the notices to send when rid is received
  ctx,           \* what the client is in the middle of: "idle", "message", "receipt"
  toServer, fromServer,    \* the links
  session, serverSubs,     \* the server: its session, the pairs <<id, d>>
  messages,      \* how many messages the server has sent
  noticed,       \* history: the last notice for each destination and handler
  accepted,      \* history: every <<id, d>> the server ever subscribed
  unsent,        \* history: the ids of commands that were never sent
  outcome,       \* history: outcome[mid], what the handlers made of a message
  answered       \* history: the pairs <<command, mid>> sent for messages

client == <<ready, destroyed, counter, destinations, subscriptions, receipts>>
server == <<session, serverSubs, messages, accepted>>
vars == <<client, ctx, toServer, fromServer, server, noticed, unsent, outcome,
          answered>>
-----------------------------------------------------------------------------
Put(f, k, v) == [x \in DOMAIN f \cup {k} |-> IF x = k THEN v ELSE f[x]]
Drop(f, k) == Restrict(f, DOMAIN f \ {k})
Empty == <<>>
Mids == 1..MaxMessages

Notice(kind, d, h, id) == [kind |-> kind, dest |-> d, h |-> h, id |-> id]
SUBSCRIBE(id, d, rid) == [cmd |-> "SUBSCRIBE", id |-> id, dest |-> d, rid |-> rid]
UNSUBSCRIBE(id, rid) == [cmd |-> "UNSUBSCRIBE", id |-> id, rid |-> rid]
MESSAGE(id, mid) == [cmd |-> "MESSAGE", id |-> id, mid |-> mid]
RECEIPT(rid) == [cmd |-> "RECEIPT", rid |-> rid]
Answer(cmd, mid) == [cmd |-> cmd, mid |-> mid]
Frame(cmd) == [cmd |-> cmd]

Idle == [at |-> "idle"]

\* Mutant: the callback reads the destinations when it runs, not when it is made.
MutantAnnouncesLate(n) ==
  noticed' = [noticed EXCEPT ![<<n.dest, n.h>>] = [n EXCEPT !.id = destinations[n.dest]]]

\* controlBus.send: the listeners of the notification channels hear it.
Announce(n) == noticed' = [noticed EXCEPT ![<<n.dest, n.h>>] = n]

\* sendCommand for a command that uses the given ids: when the connection is
\* not ready the command goes to the error channel and the caller gets an
\* exception, after it changed its maps.
SendCommand(frame, ids) ==
  IF ready
    THEN toServer' = Append(toServer, frame) /\ UNCHANGED unsent
    ELSE unsent' = unsent \cup ids /\ UNCHANGED toServer
-----------------------------------------------------------------------------
Init ==
  /\ ready = FALSE /\ destroyed = FALSE /\ counter = 0
  /\ destinations = [d \in Destination |-> None]
  /\ subscriptions = Empty /\ receipts = Empty
  /\ ctx = Idle
  /\ toServer = <<Frame("CONNECT")>> /\ fromServer = <<>>
  /\ session = "opening" /\ serverSubs = {} /\ messages = 0
  /\ noticed = [p \in Destination \X Handler |-> Notice("none", p[1], p[2], None)]
  /\ accepted = {} /\ unsent = {}
  /\ outcome = [mid \in Mids |-> "none"] /\ answered = {}
-----------------------------------------------------------------------------
(* Calls of the application, at top level or from a handler or listener.   *)
(* After destroy() subscribe and unsubscribe throw and change nothing.     *)

AppTurn ==
  /\ ctx # Idle => Reentrant
  /\ Patient => ready

\* The first handler for a destination: subscribe on the server.
SubscribeFirst(d, h) ==
  LET id == counter
      rid == counter + 1
  IN /\ AppTurn /\ ~destroyed /\ destinations[d] = None
     /\ counter + 2 <= MaxId
     /\ counter' = counter + 2
     /\ destinations' = [destinations EXCEPT ![d] = id]
     /\ subscriptions' = Put(subscriptions, id, [handlers |-> <<h>>, rid |-> rid])
     /\ receipts' = Put(receipts, rid, <<Notice("subscribed", d, h, id)>>)
     /\ SendCommand(SUBSCRIBE(id, d, rid), {id, rid})
     /\ UNCHANGED <<ready, destroyed, ctx, fromServer, server, noticed, outcome,
                    answered>>

\* Mutant: the notice does not wait for the receipt.
MutantAnnouncesAtOnce(d, h) ==
  LET id == destinations[d]
  IN /\ AppTurn /\ ~destroyed /\ id # None
     /\ subscriptions' = [subscriptions EXCEPT ![id].handlers = Add(@, h)]
     /\ Announce(Notice("subscribed", d, h, id))
     /\ UNCHANGED <<ready, destroyed, counter, destinations, receipts, ctx, toServer,
                    fromServer, server, unsent, outcome, answered>>

\* A further handler: no frame, and the notice waits for a pending receipt.
SubscribeAgain(d, h) ==
  LET id == destinations[d]
      rid == subscriptions[id].rid
      notice == Notice("subscribed", d, h, id)
  IN /\ AppTurn /\ ~destroyed /\ id # None
     /\ subscriptions' = [subscriptions EXCEPT ![id].handlers = Add(@, h)]
     /\ IF rid \in DOMAIN receipts
          THEN /\ receipts' = [receipts EXCEPT ![rid] = Append(@, notice)]
               /\ Len(receipts[rid]) < MaxNotices
               /\ UNCHANGED noticed
          ELSE Announce(notice) /\ UNCHANGED receipts
     /\ UNCHANGED <<ready, destroyed, counter, destinations, ctx, toServer,
                    fromServer, server, unsent, outcome, answered>>

\* Mutant: the server is told although handlers remain.
MutantUnsubscribesEarly(d, h) ==
  LET id == destinations[d]
      rest == Without(subscriptions[id].handlers, h)
  IN /\ AppTurn /\ ~destroyed /\ id # None /\ rest # <<>> /\ counter < MaxId
     /\ counter' = counter + 1
     /\ subscriptions' = [subscriptions EXCEPT ![id].handlers = rest]
     /\ receipts' = Put(receipts, counter, <<Notice("unsubscribed", d, h, id)>>)
     /\ SendCommand(UNSUBSCRIBE(id, counter), {counter})
     /\ UNCHANGED <<ready, destroyed, destinations, ctx, fromServer, server, noticed,
                    outcome, answered>>

\* Handlers remain: no frame, and the notice is sent at once.
UnsubscribeOne(d, h) ==
  LET id == destinations[d]
      rest == Without(subscriptions[id].handlers, h)
  IN /\ AppTurn /\ ~destroyed /\ id # None /\ rest # <<>>
     /\ subscriptions' = [subscriptions EXCEPT ![id].handlers = rest]
     /\ Announce(Notice("unsubscribed", d, h, id))
     /\ UNCHANGED <<ready, destroyed, counter, destinations, receipts, ctx,
                    toServer, fromServer, server, unsent, outcome, answered>>

\* Mutant: the map of destinations still names the subscription.
MutantKeepsDestination(d, h) ==
  LET id == destinations[d]
  IN /\ AppTurn /\ ~destroyed /\ id \in DOMAIN subscriptions
     /\ Without(subscriptions[id].handlers, h) = <<>>
     /\ counter < MaxId
     /\ counter' = counter + 1
     /\ subscriptions' = Drop(subscriptions, id)
     /\ receipts' = Put(receipts, counter, <<Notice("unsubscribed", d, h, id)>>)
     /\ SendCommand(UNSUBSCRIBE(id, counter), {counter})
     /\ UNCHANGED <<ready, destroyed, destinations, ctx, fromServer, server, noticed,
                    outcome, answered>>

\* Mutant: the subscription is forgotten without a command to the server.
MutantForgetsServer(d, h) ==
  LET id == destinations[d]
  IN /\ AppTurn /\ ~destroyed /\ id # None
     /\ Without(subscriptions[id].handlers, h) = <<>>
     /\ destinations' = [destinations EXCEPT ![d] = None]
     /\ subscriptions' = Drop(subscriptions, id)
     /\ Announce(Notice("unsubscribed", d, h, id))
     /\ UNCHANGED <<ready, destroyed, counter, receipts, ctx, toServer, fromServer,
                    server, unsent, outcome, answered>>

\* The last handler goes: forget the subscription here and on the server.
UnsubscribeLast(d, h) ==
  LET id == destinations[d]
      rid == counter
  IN /\ AppTurn /\ ~destroyed /\ id # None
     /\ Without(subscriptions[id].handlers, h) = <<>>
     /\ counter < MaxId
     /\ counter' = counter + 1
     /\ destinations' = [destinations EXCEPT ![d] = None]
     /\ subscriptions' = Drop(subscriptions, id)
     /\ receipts' = Put(receipts, rid, <<Notice("unsubscribed", d, h, id)>>)
     /\ SendCommand(UNSUBSCRIBE(id, rid), {rid})
     /\ UNCHANGED <<ready, destroyed, ctx, fromServer, server, noticed, outcome,
                    answered>>

\* A message sent to the bridge goes to the server, or fails.
Dispatch ==
  /\ AppTurn /\ Len(toServer) < MaxLink
  /\ SendCommand(Frame("SEND"), {})
  /\ UNCHANGED <<client, ctx, fromServer, server, noticed, outcome, answered>>

\* The output may be gone already, destroyed with its bus: then sending DISCONNECT
\* throws, which is squelched, and the bridge stays ready.
Destroy ==
  /\ AppTurn /\ Disposable
  /\ destroyed' = TRUE
  /\ destinations' = [d \in Destination |-> None]
  /\ subscriptions' = Empty /\ receipts' = Empty
  /\ \/ /\ ready' = FALSE
        /\ toServer' = IF ready THEN Append(toServer, Frame("DISCONNECT")) ELSE toServer
     \/ ready /\ UNCHANGED <<ready, toServer>>
  /\ UNCHANGED <<counter, ctx, fromServer, server, noticed, unsent, outcome,
                 answered>>
-----------------------------------------------------------------------------
(* Frames from the server.  An exception ends the frame and is reported to  *)
(* the error channel.                                                       *)

Receives(cmd) == ctx = Idle /\ fromServer # <<>> /\ Head(fromServer).cmd = cmd
Consume == fromServer' = Tail(fromServer)

ReceiveConnected ==
  /\ Receives("CONNECTED") /\ Consume
  /\ ready' = TRUE
  /\ UNCHANGED <<destroyed, counter, destinations, subscriptions, receipts, ctx,
                 toServer, server, noticed, unsent, outcome, answered>>

ReceiveError ==
  /\ Receives("ERROR") /\ Consume
  /\ ready' = FALSE
  /\ UNCHANGED <<destroyed, counter, destinations, subscriptions, receipts, ctx,
                 toServer, server, noticed, unsent, outcome, answered>>

\* The finally clause of handleMessageFrame.  Once the bridge is destroyed its output
\* may be gone, too, and sending throws.
Reply(mid, handled) ==
  LET cmd == IF handled THEN "ACK" ELSE "NACK"
  IN \/ /\ Ack # "auto" /\ ready
        /\ toServer' = Append(toServer, Answer(cmd, mid))
        /\ answered' = answered \cup {<<cmd, mid>>}
     \/ /\ Ack = "auto" \/ ~ready \/ destroyed
        /\ UNCHANGED <<toServer, answered>>

\* A message for a subscription there is: its handlers are copied and called.
ReceiveMessage ==
  LET frame == Head(fromServer)
  IN /\ Receives("MESSAGE") /\ Consume
     /\ frame.id \in DOMAIN subscriptions
     /\ ctx' = [at |-> "message", mid |-> frame.mid, handled |-> TRUE,
                todo |-> subscriptions[frame.id].handlers]
     /\ outcome' = [outcome EXCEPT ![frame.mid] = "ok"]
     /\ UNCHANGED <<client, toServer, server, noticed, unsent, answered>>

\* A message for no subscription: an error, and the message is not accepted.
ReceiveStray ==
  LET frame == Head(fromServer)
  IN /\ Receives("MESSAGE") /\ Consume
     /\ frame.id \notin DOMAIN subscriptions
     /\ outcome' = [outcome EXCEPT ![frame.mid] = "failed"]
     /\ Reply(frame.mid, FALSE)
     /\ UNCHANGED <<client, ctx, server, noticed, unsent>>

\* Mutant: what the last handler did decides.
MutantLastDecides ==
  /\ ctx.at = "message" /\ ctx.todo # <<>>
  /\ \E ok \in BOOLEAN :
       /\ ctx' = [ctx EXCEPT !.todo = Tail(@), !.handled = ok]
       /\ outcome' = IF ok THEN outcome
                           ELSE [outcome EXCEPT ![ctx.mid] = "failed"]
  /\ UNCHANGED <<client, toServer, fromServer, server, noticed, unsent, answered>>

\* The running handler returns or throws; broadcast goes on with the next.
HandlerEnds ==
  /\ ctx.at = "message" /\ ctx.todo # <<>>
  /\ \E ok \in BOOLEAN :
       /\ ctx' = [ctx EXCEPT !.todo = Tail(@), !.handled = @ /\ ok]
       /\ outcome' = IF ok THEN outcome
                           ELSE [outcome EXCEPT ![ctx.mid] = "failed"]
  /\ UNCHANGED <<client, toServer, fromServer, server, noticed, unsent, answered>>

MessageEnds ==
  /\ ctx.at = "message" /\ ctx.todo = <<>>
  /\ Reply(ctx.mid, ctx.handled)
  /\ ctx' = Idle
  /\ UNCHANGED <<client, fromServer, server, noticed, unsent, outcome>>

\* Mutant: only the first notice that waits for the receipt is sent.
MutantFirstNoticeOnly ==
  LET rid == Head(fromServer).rid
  IN /\ Receives("RECEIPT") /\ Consume
     /\ rid \in DOMAIN receipts
     /\ Announce(Head(receipts[rid]))
     /\ ctx' = [at |-> "receipt", rid |-> rid, todo |-> <<>>]
     /\ UNCHANGED <<client, toServer, server, unsent, outcome, answered>>

\* forEach visits the notices that are there when it starts; the first is sent.
ReceiveReceipt ==
  LET rid == Head(fromServer).rid
  IN /\ Receives("RECEIPT") /\ Consume
     /\ rid \in DOMAIN receipts
     /\ Announce(Head(receipts[rid]))
     /\ ctx' = [at |-> "receipt", rid |-> rid, todo |-> Tail(receipts[rid])]
     /\ UNCHANGED <<client, toServer, server, unsent, outcome, answered>>

\* There is no entry for the receipt: the handler of the frame throws.
ReceiveStrayReceipt ==
  /\ Receives("RECEIPT") /\ Consume
  /\ Head(fromServer).rid \notin DOMAIN receipts
  /\ UNCHANGED <<client, ctx, toServer, server, noticed, unsent, outcome, answered>>

NextNotice ==
  /\ ctx.at = "receipt" /\ ctx.todo # <<>> /\ ~destroyed
  /\ Announce(Head(ctx.todo))
  /\ ctx' = [ctx EXCEPT !.todo = Tail(@)]
  /\ UNCHANGED <<client, toServer, fromServer, server, unsent, outcome, answered>>

\* Mutant: the receipt is not removed from the store.
MutantKeepsReceipt ==
  /\ ctx.at = "receipt" /\ (ctx.todo = <<>> \/ destroyed)
  /\ ctx' = Idle
  /\ UNCHANGED <<client, toServer, fromServer, server, noticed, unsent, outcome,
                 answered>>

\* All notices are sent, or the bridge was destroyed by a listener: then the
\* control bus has no channels and the next step throws.
ReceiptEnds ==
  /\ ctx.at = "receipt" /\ (ctx.todo = <<>> \/ destroyed)
  /\ receipts' = Drop(receipts, ctx.rid)
  /\ ctx' = Idle
  /\ UNCHANGED <<ready, destroyed, counter, destinations, subscriptions, toServer,
                 fromServer, server, noticed, unsent, outcome, answered>>
-----------------------------------------------------------------------------
(* The server, external. *)

Told(cmd) == toServer # <<>> /\ Head(toServer).cmd = cmd /\ toServer' = Tail(toServer)
Tell(frame) == fromServer' = Append(fromServer, frame)
ClientStays == UNCHANGED <<client, ctx, noticed, unsent, outcome, answered>>

ServerConnects ==
  /\ session = "opening" /\ Told("CONNECT")
  /\ session' = "open" /\ Tell(Frame("CONNECTED"))
  /\ UNCHANGED <<serverSubs, messages, accepted>> /\ ClientStays

ServerSubscribes ==
  /\ session = "open" /\ Told("SUBSCRIBE")
  /\ LET frame == Head(toServer)
         sub == <<frame.id, frame.dest>>
     IN /\ serverSubs' = serverSubs \cup {sub}
        /\ accepted' = accepted \cup {sub}
        /\ Tell(RECEIPT(frame.rid))
  /\ UNCHANGED <<session, messages>> /\ ClientStays

ServerUnsubscribes ==
  /\ session = "open" /\ Told("UNSUBSCRIBE")
  /\ LET frame == Head(toServer)
     IN /\ serverSubs' = {sub \in serverSubs : sub[1] # frame.id}
        /\ Tell(RECEIPT(frame.rid))
  /\ UNCHANGED <<session, messages, accepted>> /\ ClientStays

ServerHears ==
  /\ session = "open"
  /\ \E cmd \in {"SEND", "ACK", "NACK"} : Told(cmd)
  /\ UNCHANGED <<fromServer, server>> /\ ClientStays

ServerDisconnects ==
  /\ session = "open" /\ Told("DISCONNECT")
  /\ session' = "closed" /\ serverSubs' = {}
  /\ UNCHANGED <<fromServer, messages, accepted>> /\ ClientStays

ServerSends ==
  /\ session = "open" /\ messages < MaxMessages
  /\ messages' = messages + 1
  /\ \E sub \in serverSubs : Tell(MESSAGE(sub[1], messages + 1))
  /\ UNCHANGED <<toServer, session, serverSubs, accepted>> /\ ClientStays

\* An ERROR frame is the last one: the server closes the connection.
ServerFails ==
  /\ MayFail /\ session # "closed"
  /\ session' = "closed" /\ serverSubs' = {}
  /\ Tell(Frame("ERROR"))
  /\ UNCHANGED <<toServer, messages, accepted>> /\ ClientStays

ServerIgnores ==
  /\ session = "closed" /\ toServer # <<>>
  /\ toServer' = Tail(toServer)
  /\ UNCHANGED <<fromServer, server>> /\ ClientStays
-----------------------------------------------------------------------------
App ==
  \/ \E d \in Destination, h \in Handler :
       \/ SubscribeFirst(d, h) \/ SubscribeAgain(d, h)
       \/ UnsubscribeOne(d, h) \/ UnsubscribeLast(d, h)
  \/ Dispatch \/ Destroy
Client ==
  \/ ReceiveConnected \/ ReceiveError \/ ReceiveMessage \/ ReceiveStray
  \/ HandlerEnds \/ MessageEnds
  \/ ReceiveReceipt \/ ReceiveStrayReceipt \/ NextNotice \/ ReceiptEnds
ServerReads ==
  \/ ServerConnects \/ ServerSubscribes \/ ServerUnsubscribes \/ ServerHears
  \/ ServerDisconnects \/ ServerIgnores
Server == ServerReads \/ ServerSends \/ ServerFails

Next == App \/ Client \/ Server

Spec == Init /\ [][Next]_vars

\* The event loop runs what arrives, and the server reads what it is sent.
FairSpec == Spec /\ WF_vars(Client) /\ WF_vars(ServerReads)
-----------------------------------------------------------------------------
(* Properties. *)

Id == 0..MaxId
Notices ==
  [kind : {"subscribed", "unsubscribed"}, dest : Destination, h : Handler, id : Id]
Commands ==
  [cmd : {"CONNECT", "SEND", "DISCONNECT"}]
    \cup [cmd : {"SUBSCRIBE"}, id : Id, dest : Destination, rid : Id]
    \cup [cmd : {"UNSUBSCRIBE"}, id : Id, rid : Id]
    \cup [cmd : {"ACK", "NACK"}, mid : Mids]
Replies ==
  [cmd : {"CONNECTED", "ERROR"}]
    \cup [cmd : {"MESSAGE"}, id : Id, mid : Mids] \cup [cmd : {"RECEIPT"}, rid : Id]

MapsTyped ==
  /\ counter \in Id
  /\ destinations \in [Destination -> Id \cup {None}]
  /\ DOMAIN subscriptions \subseteq Id
  /\ \A id \in DOMAIN subscriptions :
       subscriptions[id] \in [handlers : Seq(Handler), rid : Id]
  /\ DOMAIN receipts \subseteq Id
  /\ \A rid \in DOMAIN receipts : receipts[rid] \in Seq(Notices)
ContextTyped ==
  \/ ctx = Idle
  \/ ctx \in [at : {"message"}, mid : Mids, handled : BOOLEAN, todo : Seq(Handler)]
  \/ ctx \in [at : {"receipt"}, rid : Id, todo : Seq(Notices)]
ServerTyped ==
  /\ session \in {"opening", "open", "closed"}
  /\ serverSubs \subseteq accepted /\ accepted \subseteq Id \X Destination
  /\ messages \in 0..MaxMessages
HistoryTyped ==
  /\ DOMAIN noticed = Destination \X Handler
  /\ \A p \in Destination \X Handler :
       noticed[p] \in Notices \cup {Notice("none", p[1], p[2], None)}
  /\ unsent \subseteq Id
  /\ outcome \in [Mids -> {"none", "ok", "failed"}]
  /\ answered \subseteq {"ACK", "NACK"} \X Mids

\* The values the variables may take: what waits, travels or was announced
\* always names a destination, a handler and an id the client has given out.
TypeOK ==
  /\ ready \in BOOLEAN /\ destroyed \in BOOLEAN
  /\ MapsTyped /\ ContextTyped
  /\ toServer \in Seq(Commands) /\ fromServer \in Seq(Replies)
  /\ ServerTyped /\ HistoryTyped

\* The two maps of the client agree, whatever throws half way: each subscription
\* belongs to exactly one destination, and has handlers, each of them once
\* (stomp.js:95-122, 138-159).
Lockstep ==
  /\ \A d \in Destination :
       destinations[d] # None => destinations[d] \in DOMAIN subscriptions
  /\ \A id \in DOMAIN subscriptions :
       /\ \E d \in Destination :
            destinations[d] = id /\ \A e \in Destination \ {d} : destinations[e] # id
       /\ subscriptions[id].handlers # <<>> /\ Distinct(subscriptions[id].handlers)

\* The server never holds two subscriptions of this client for a destination,
\* however subscribe and unsubscribe follow each other while frames are under
\* way (stomp.js:89-90, "consolidates multiple subscriptions").
OneServerSubscription ==
  \A s, u \in serverSubs : s[2] = u[2] => s = u

Asked(cmd, id) ==
  \E i \in 1..Len(toServer) : toServer[i].cmd = cmd /\ toServer[i].id = id

\* While the session is open, what the client believes and what the server will
\* hold once it has read the link agree: a subscription whose command was sent
\* is there or on its way and nothing on the link ends it, and whatever the
\* server holds beyond that is about to be ended.
InStep ==
  session = "open" /\ ~destroyed =>
    \A d \in Destination, id \in Id :
      /\ destinations[d] = id /\ id \notin unsent =>
           /\ <<id, d>> \in serverSubs \/ Asked("SUBSCRIBE", id)
           /\ ~Asked("UNSUBSCRIBE", id)
      /\ <<id, d>> \in serverSubs =>
           destinations[d] = id \/ Asked("UNSUBSCRIBE", id)

AsksReceipt(frame, rid) ==
  frame.cmd \in {"SUBSCRIBE", "UNSUBSCRIBE", "RECEIPT"} /\ frame.rid = rid
UnderWay(rid) ==
  \/ \E i \in 1..Len(toServer) : AsksReceipt(toServer[i], rid)
  \/ \E i \in 1..Len(fromServer) : AsksReceipt(fromServer[i], rid)

\* The store of receipts neither leaks nor lacks: while the session lives an
\* entry waits for a receipt that is still to come, is being run, or belongs to
\* a command that was never sent; and a receipt that comes has its entry, unless
\* the bridge was destroyed (stomp.js:280-286).
ReceiptsOnTheirWay ==
  /\ session # "closed" =>
       \A rid \in DOMAIN receipts :
         \/ UnderWay(rid) \/ rid \in unsent
         \/ ctx.at = "receipt" /\ ctx.rid = rid
  /\ ~destroyed => \A rid \in Id : UnderWay(rid) => rid \in DOMAIN receipts

\* Nobody is told that a handler is subscribed before the server has accepted
\* the subscription, also when the handler joined while the receipt was awaited
\* (stomp.js:100-107, 117-119).
ConfirmedBeforeNotice ==
  \A p \in Destination \X Handler :
    noticed[p].kind = "subscribed" => <<noticed[p].id, p[1]>> \in accepted

\* Every message the client has finished with over a connection that is up is
\* answered, unless the bridge was destroyed, with ACK exactly when all handlers took it;
\* whatever handlers throw, subscribe, unsubscribe or destroy meanwhile, no failed message
\* is ever acknowledged and none is answered both ways (stomp.js:256-271).
AnsweredAsHandled ==
  \A mid \in Mids :
    /\ <<"ACK", mid>> \in answered => outcome[mid] = "ok"
    /\ <<"NACK", mid>> \in answered => outcome[mid] = "failed"
    /\ Ack # "auto" /\ ready /\ ~destroyed /\ ctx = Idle =>
         /\ outcome[mid] = "ok" => <<"ACK", mid>> \in answered
         /\ outcome[mid] = "failed" => <<"NACK", mid>> \in answered

Subscribed(d, h) ==
  destinations[d] # None /\ h \in Members(subscriptions[destinations[d]].handlers)

\* Every handler that stays subscribed is announced in the end, also one that
\* joined while the receipt was awaited (stomp.js:86-87, 100-103, 282-284).
SubscribedIsNoticed ==
  \A d \in Destination, h \in Handler :
    Subscribed(d, h) ~> noticed[<<d, h>>].kind = "subscribed" \/ ~Subscribed(d, h)

\* What the comment at stomp.js:96 says of the branch for a known destination,
\* "already subscribed on the server": with a connection that is ready, the
\* destinations the client knows are at least asked for at the server.
AlreadySubscribed ==
  ready /\ session = "open" =>
    \A d \in Destination :
      destinations[d] # None =>
        <<destinations[d], d>> \in serverSubs \/ Asked("SUBSCRIBE", destinations[d])
=============================================================================
