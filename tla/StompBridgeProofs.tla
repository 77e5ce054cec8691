-------------------------- MODULE StompBridgeProofs -------------------------
(***************************************************************************)
(* Theorems about StompBridge, for every set of destinations and handlers, *)
(* every acknowledgement mode and any number of frames under way.          *)
(***************************************************************************)
EXTENDS StompBridge, HandlerListProofs

\* The client gives out each id once: whatever it keeps or sends is older than
\* the counter.
FreshMaps ==
  /\ \A d \in Destination : destinations[d] # None => destinations[d] < counter
  /\ \A id \in DOMAIN subscriptions : id < counter /\ subscriptions[id].rid < counter
  /\ \A rid \in DOMAIN receipts : rid < counter /\ receipts[rid] # <<>>
FreshLinks ==
  /\ \A f \in Members(toServer) :
       f.cmd \in {"SUBSCRIBE", "UNSUBSCRIBE"} => f.id < counter /\ f.rid < counter
  /\ \A f \in Members(fromServer) : f.cmd = "RECEIPT" => f.rid < counter
FreshContext == ctx.at = "receipt" => ctx.rid < counter

\* The maps of the client, and what their shape rests on.
BaseInv == TypeOK /\ FreshMaps /\ FreshLinks /\ FreshContext /\ Lockstep

\* A receipt is asked for once, and comes once.
Asking(q, rid) == \E f \in Members(q) : AsksReceipt(f, rid)
OnceOnLink(q) ==
  \A i, j \in 1..Len(q), rid \in Id :
    AsksReceipt(q[i], rid) /\ AsksReceipt(q[j], rid) => i = j
InRun(rid) == ctx.at = "receipt" /\ ctx.rid = rid
ReceiptsOnce ==
  /\ OnceOnLink(toServer) /\ OnceOnLink(fromServer)
  /\ \A rid \in Id :
       /\ ~(Asking(toServer, rid) /\ Asking(fromServer, rid))
       /\ InRun(rid) => ~Asking(toServer, rid) /\ ~Asking(fromServer, rid)
ReceiptInv == ReceiptsOnce /\ ReceiptsOnTheirWay

\* The server has answered the command that asked for the receipt.
IsAnswered(rid) ==
  RECEIPT(rid) \in Members(fromServer) \/ (ctx.at = "receipt" /\ ctx.rid = rid)

IsSubscribed(n) == n.kind = "subscribed"
\* Each notice waits for the receipt of a command about its own subscription,
\* and when the receipt is there the server has accepted it.
WaitingNotices ==
  \A rid \in DOMAIN receipts : \A n \in Members(receipts[rid]) :
    IsSubscribed(n) /\ IsAnswered(rid) => <<n.id, n.dest>> \in accepted
DestinationWaits(d) ==
  LET id == destinations[d]
      rid == subscriptions[id].rid
  IN <<id, d>> \in accepted \/ (rid \in DOMAIN receipts /\ ~IsAnswered(rid))
WaitingDestinations ==
  \A d \in Destination : destinations[d] # None => DestinationWaits(d)
WaitingTodo ==
  ctx.at = "receipt" =>
    \A n \in Members(ctx.todo) : IsSubscribed(n) => <<n.id, n.dest>> \in accepted
SubscribeMatches(f) ==
  /\ f.rid \in DOMAIN receipts =>
       \A n \in Members(receipts[f.rid]) : IsSubscribed(n) => n.id = f.id /\ n.dest = f.dest
  /\ \A d \in Destination :
       destinations[d] # None /\ subscriptions[destinations[d]].rid = f.rid =>
         destinations[d] = f.id /\ d = f.dest
UnsubscribeMatches(f) ==
  /\ f.rid \in DOMAIN receipts => \A n \in Members(receipts[f.rid]) : ~IsSubscribed(n)
  /\ \A d \in Destination :
       destinations[d] # None => subscriptions[destinations[d]].rid # f.rid
Matching ==
  \A f \in Members(toServer) :
    /\ f.cmd = "SUBSCRIBE" => SubscribeMatches(f)
    /\ f.cmd = "UNSUBSCRIBE" => UnsubscribeMatches(f)
ConfirmInv ==
  /\ WaitingNotices /\ WaitingDestinations /\ WaitingTodo
  /\ Matching /\ ConfirmedBeforeNotice

\* The session opens once and ends once.  Before it opens, and until the bridge
\* hears of it, nothing is asked of the server.
Phases ==
  /\ session = "opening" =>
       /\ ~ready /\ toServer = <<Frame("CONNECT")>> /\ fromServer = <<>>
       /\ \A d \in Destination : destinations[d] # None => destinations[d] \in unsent
  /\ session # "open" => serverSubs = {}
  /\ session = "open" /\ ~destroyed /\ ~ready =>
       serverSubs = {} /\ \A f \in Members(toServer) : f.cmd # "SUBSCRIBE"
  /\ \A f \in Members(fromServer) : f.cmd = "ERROR" => session = "closed"

SubscribeAt(q, k, id, d) == q[k].cmd = "SUBSCRIBE" /\ q[k].id = id /\ q[k].dest = d
UnsubscribeAt(q, k, id) == q[k].cmd = "UNSUBSCRIBE" /\ q[k].id = id
\* Between two places of the link the subscription is ended.
Ended(q, id, l, k) == \E m \in 1..Len(q) : l < m /\ m < k /\ UnsubscribeAt(q, m, id)

\* An old subscription ends before a new one for its destination begins: one the
\* server holds, one on the link, and one the client has forgotten.
EndsHeld(q, subs) ==
  \A k \in 1..Len(q), d \in Destination, j, i \in Id :
    SubscribeAt(q, k, j, d) /\ <<i, d>> \in subs => Ended(q, i, 0, k)
EndsSent(q) ==
  \A k, l \in 1..Len(q), d \in Destination, j, i \in Id :
    l < k /\ SubscribeAt(q, k, j, d) /\ SubscribeAt(q, l, i, d) => Ended(q, i, l, k)
EndsForgotten(q, dests) ==
  \A k \in 1..Len(q), d \in Destination, j \in Id :
    SubscribeAt(q, k, j, d) => dests[d] = j \/ Ended(q, j, k, Len(q) + 1)
\* What the client believes is there, and what the server holds beyond it.
Known(q, subs, dests, lost) ==
  \A d \in Destination, id \in Id : dests[d] = id /\ id \notin lost =>
    /\ <<id, d>> \in subs \/ \E k \in 1..Len(q) : SubscribeAt(q, k, id, d)
    /\ \A k \in 1..Len(q) : ~UnsubscribeAt(q, k, id)
Leftover(q, subs, dests) ==
  \A d \in Destination, id \in Id : <<id, d>> \in subs =>
    dests[d] = id \/ \E k \in 1..Len(q) : UnsubscribeAt(q, k, id)
LinkInv ==
  session = "open" =>
    /\ EndsHeld(toServer, serverSubs) /\ EndsSent(toServer)
    /\ ~destroyed => /\ EndsForgotten(toServer, destinations)
                     /\ Known(toServer, serverSubs, destinations, unsent)
                     /\ Leftover(toServer, serverSubs, destinations)
ServerInv == Phases /\ LinkInv /\ OneServerSubscription

\* The link from the server carries each message once, and before it is handled.
ComingOn(q, o, m) ==
  \A k \in 1..Len(q) : q[k].cmd = "MESSAGE" =>
    /\ q[k].mid <= m /\ o[q[k].mid] = "none"
    /\ \A l \in 1..Len(q) : q[l].cmd = "MESSAGE" /\ q[l].mid = q[k].mid => k = l
Coming == ComingOn(fromServer, outcome, messages)
\* The message in hand.
InHand ==
  ctx.at = "message" =>
    /\ ctx.mid <= messages
    /\ outcome[ctx.mid] = IF ctx.handled THEN "ok" ELSE "failed"
    /\ <<"ACK", ctx.mid>> \notin answered /\ <<"NACK", ctx.mid>> \notin answered
\* What was sent, handled and answered agrees.
Untouched == \A mid \in Mids : mid > messages => outcome[mid] = "none"
AnsweredRight ==
  \A mid \in Mids :
    /\ <<"ACK", mid>> \in answered => outcome[mid] = "ok"
    /\ <<"NACK", mid>> \in answered => outcome[mid] = "failed"
HasReply(mid) ==
  /\ outcome[mid] = "ok" => <<"ACK", mid>> \in answered
  /\ outcome[mid] = "failed" => <<"NACK", mid>> \in answered
Replied ==
  Ack # "auto" /\ ready /\ ~destroyed =>
    \A mid \in Mids : HasReply(mid) \/ (ctx.at = "message" /\ ctx.mid = mid)
\* The session opens once, before the first message.
Opening == session = "opening" => fromServer = <<>> /\ messages = 0
ConnectedFirst ==
  \A k \in 1..Len(fromServer) : fromServer[k].cmd = "CONNECTED" =>
    k = 1 /\ \A mid \in Mids : outcome[mid] = "none"
AnswerInv ==
  Coming /\ InHand /\ Untouched /\ AnsweredRight /\ Replied /\ Opening /\ ConnectedFirst
-----------------------------------------------------------------------------
(* Data: frames, notices, and the maps of the client. *)

LEMMA FrameTypes ==
  /\ \A id \in Id, d \in Destination, rid \in Id : SUBSCRIBE(id, d, rid) \in Commands
  /\ \A id \in Id, rid \in Id : UNSUBSCRIBE(id, rid) \in Commands
  /\ \A cmd \in {"CONNECT", "SEND", "DISCONNECT"} : Frame(cmd) \in Commands
  /\ \A cmd \in {"ACK", "NACK"}, mid \in Mids : Answer(cmd, mid) \in Commands
  /\ \A id \in Id, mid \in Mids : MESSAGE(id, mid) \in Replies
  /\ \A rid \in Id : RECEIPT(rid) \in Replies
  /\ \A cmd \in {"CONNECTED", "ERROR"} : Frame(cmd) \in Replies
  /\ \A kind \in {"subscribed", "unsubscribed"}, d \in Destination, h \in Handler, id \in Id :
       Notice(kind, d, h, id) \in Notices
  BY DEF SUBSCRIBE, UNSUBSCRIBE, Frame, Answer, MESSAGE, RECEIPT, Notice,
         Commands, Replies, Notices

LEMMA FrameFields ==
  /\ \A f \in Commands :
       /\ f.cmd \in {"CONNECT", "SEND", "DISCONNECT", "SUBSCRIBE", "UNSUBSCRIBE", "ACK", "NACK"}
       /\ f.cmd = "SUBSCRIBE" =>
            f.id \in Id /\ f.dest \in Destination /\ f.rid \in Id
       /\ f.cmd = "UNSUBSCRIBE" => f.id \in Id /\ f.rid \in Id
  /\ \A f \in Replies :
       /\ f.cmd \in {"CONNECTED", "ERROR", "MESSAGE", "RECEIPT"}
       /\ f.cmd = "MESSAGE" => f.id \in Id /\ f.mid \in Mids
       /\ f.cmd = "RECEIPT" => f.rid \in Id /\ f = RECEIPT(f.rid)
  BY DEF Commands, Replies, RECEIPT

\* The heads of the links, and what follows them.
LEMMA LinkHeads ==
  ASSUME TypeOK
  PROVE  /\ toServer # <<>> =>
              /\ Head(toServer) \in Commands /\ Head(toServer) \in Members(toServer)
              /\ Tail(toServer) \in Seq(Commands)
              /\ Members(Tail(toServer)) \subseteq Members(toServer)
         /\ fromServer # <<>> =>
              /\ Head(fromServer) \in Replies /\ Head(fromServer) \in Members(fromServer)
              /\ Tail(fromServer) \in Seq(Replies)
              /\ Members(Tail(fromServer)) \subseteq Members(fromServer)
  BY TailMembers DEF TypeOK

LEMMA DropFacts ==
  ASSUME NEW f, NEW k
  PROVE  /\ DOMAIN Drop(f, k) = DOMAIN f \ {k}
         /\ \A x \in DOMAIN f \ {k} : Drop(f, k)[x] = f[x]
  BY DEF Drop, Restrict

-----------------------------------------------------------------------------
(* What a step may do to the links and to the counter. *)

\* The steps that leave the maps of the client alone.
Quiet ==
  \/ Dispatch \/ ReceiveConnected \/ ReceiveError \/ ReceiveMessage \/ ReceiveStray
  \/ HandlerEnds \/ MessageEnds \/ ReceiveReceipt \/ ReceiveStrayReceipt
  \/ NextNotice \/ Server \/ UNCHANGED vars

LEMMA StepCases ==
  ASSUME [Next]_vars
  PROVE  \/ \E d \in Destination, h \in Handler :
              \/ SubscribeFirst(d, h) \/ SubscribeAgain(d, h)
              \/ UnsubscribeOne(d, h) \/ UnsubscribeLast(d, h)
         \/ Destroy \/ ReceiptEnds \/ Quiet
  BY DEF Next, App, Client, Quiet

LEMMA QuietMaps ==
  ASSUME Quiet
  PROVE  UNCHANGED <<counter, destinations, subscriptions, receipts, destroyed>>
<1>1. CASE Dispatch \/ ReceiveConnected \/ ReceiveError \/ ReceiveMessage \/ ReceiveStray
  BY <1>1 DEF Dispatch, ReceiveConnected, ReceiveError, ReceiveMessage, ReceiveStray, client
<1>2. CASE HandlerEnds \/ MessageEnds \/ ReceiveReceipt \/ ReceiveStrayReceipt \/ NextNotice
  BY <1>2 DEF HandlerEnds, MessageEnds, ReceiveReceipt, ReceiveStrayReceipt, NextNotice, client
<1>3. CASE Server
  BY <1>3 DEF Server, ServerReads, ServerConnects, ServerSubscribes, ServerUnsubscribes,
     ServerHears, ServerDisconnects, ServerIgnores, ServerSends, ServerFails, ClientStays, client
<1>4. CASE UNCHANGED vars
  BY <1>4 DEF vars, client
<1>5. QED
  BY <1>1, <1>2, <1>3, <1>4 DEF Quiet

LEMMA FlagsTyped ==
  ASSUME BaseInv, [Next]_vars
  PROVE  ready' \in BOOLEAN /\ destroyed' \in BOOLEAN
<1>0. ready \in BOOLEAN /\ destroyed \in BOOLEAN
  BY DEF BaseInv, TypeOK
<1>1. \/ UNCHANGED ready \/ ready' = TRUE \/ ready' = FALSE
  <2>1. CASE App
    BY <2>1 DEF App, SubscribeFirst, SubscribeAgain, UnsubscribeOne, UnsubscribeLast,
       Dispatch, Destroy, client
  <2>2. CASE Client
    BY <2>2 DEF Client, ReceiveConnected, ReceiveError, ReceiveMessage, ReceiveStray,
       HandlerEnds, MessageEnds, ReceiveReceipt, ReceiveStrayReceipt, NextNotice,
       ReceiptEnds, client
  <2>3. CASE Server
    BY <2>3 DEF Server, ServerReads, ServerConnects, ServerSubscribes, ServerUnsubscribes,
       ServerHears, ServerDisconnects, ServerIgnores, ServerSends, ServerFails, ClientStays, client
  <2>4. CASE UNCHANGED vars
    BY <2>4 DEF vars, client
  <2>5. QED
    BY <2>1, <2>2, <2>3, <2>4 DEF Next
<1>2. \/ UNCHANGED destroyed \/ destroyed' = TRUE
  <2>1. CASE \E d \in Destination, h \in Handler :
               \/ SubscribeFirst(d, h) \/ SubscribeAgain(d, h)
               \/ UnsubscribeOne(d, h) \/ UnsubscribeLast(d, h)
    BY <2>1 DEF SubscribeFirst, SubscribeAgain, UnsubscribeOne, UnsubscribeLast
  <2>2. CASE Destroy \/ ReceiptEnds
    BY <2>2 DEF Destroy, ReceiptEnds
  <2>3. QED
    BY <2>1, <2>2, StepCases, QuietMaps
<1>3. QED
  BY <1>0, <1>1, <1>2, Zenon
-----------------------------------------------------------------------------
(* The maps of the client agree, and their ids were given out. *)

MapsInv == MapsTyped /\ FreshMaps /\ Lockstep

\* What is known of the subscription of a destination.
LEMMA MapFacts ==
  ASSUME BaseInv
  PROVE  /\ MaxId \in Nat /\ counter \in Id /\ None \notin Nat /\ Id \subseteq Nat
         /\ \A d \in Destination : destinations[d] # None =>
              LET id == destinations[d]
              IN /\ id \in DOMAIN subscriptions /\ id \in Id /\ id < counter
                 /\ subscriptions[id].handlers \in Seq(Handler) \ {<<>>}
                 /\ Distinct(subscriptions[id].handlers)
                 /\ subscriptions[id].rid \in Id /\ subscriptions[id].rid < counter
                 /\ \A e \in Destination : e # d => destinations[e] # id
<1>1. MaxId \in Nat /\ None \notin Nat /\ Id \subseteq Nat
  BY BoundAssumption, NoneAssumption DEF Id
<1>2. ASSUME NEW d \in Destination, destinations[d] # None
      PROVE  LET id == destinations[d]
             IN /\ id \in DOMAIN subscriptions /\ id \in Id /\ id < counter
                /\ subscriptions[id].handlers \in Seq(Handler) \ {<<>>}
                /\ Distinct(subscriptions[id].handlers)
                /\ subscriptions[id].rid \in Id /\ subscriptions[id].rid < counter
                /\ \A e \in Destination : e # d => destinations[e] # id
  <2>1. destinations[d] \in DOMAIN subscriptions /\ destinations[d] \in Id
        /\ destinations[d] < counter
    BY <1>2 DEF BaseInv, TypeOK, MapsTyped, Lockstep, FreshMaps
  <2>2. \A e \in Destination : e # d => destinations[e] # destinations[d]
    BY <2>1 DEF BaseInv, Lockstep
  <2>3. QED
    BY <2>1, <2>2 DEF BaseInv, TypeOK, MapsTyped, Lockstep, FreshMaps
<1>3. QED
  BY <1>1, <1>2 DEF BaseInv, TypeOK, MapsTyped

LEMMA SubscribeFirstMaps ==
  ASSUME BaseInv, NEW d \in Destination, NEW h \in Handler, SubscribeFirst(d, h)
  PROVE  MapsInv'
<1> DEFINE id == counter
           rid == counter + 1
           sub == [handlers |-> <<h>>, rid |-> rid]
           notices == <<Notice("subscribed", d, h, id)>>
<1>1. /\ destinations[d] = None /\ counter + 2 <= MaxId /\ counter' = counter + 2
      /\ destinations' = [destinations EXCEPT ![d] = id]
      /\ subscriptions' = Put(subscriptions, id, sub)
      /\ receipts' = Put(receipts, rid, notices)
  BY DEF SubscribeFirst
<1>2. /\ counter' \in Id /\ id \in Id /\ rid \in Id /\ id < counter' /\ rid < counter'
      /\ \A n \in Id : n < counter => n < counter'
  BY <1>1, MapFacts DEF Id
<1>3. /\ sub \in [handlers : Seq(Handler), rid : Id] /\ sub.rid = rid
      /\ sub.handlers = <<h>> /\ <<h>> # <<>> /\ Distinct(<<h>>)
      /\ notices \in Seq(Notices) /\ notices # <<>>
  BY <1>2, FrameTypes DEF Distinct
<1>4. id \notin DOMAIN subscriptions /\ rid \notin DOMAIN receipts
  BY MapFacts DEF BaseInv, FreshMaps, Id
<1>5. /\ DOMAIN subscriptions' = DOMAIN subscriptions \cup {id} /\ subscriptions'[id] = sub
      /\ \A x \in DOMAIN subscriptions : subscriptions'[x] = subscriptions[x]
      /\ DOMAIN receipts' = DOMAIN receipts \cup {rid} /\ receipts'[rid] = notices
      /\ \A x \in DOMAIN receipts : receipts'[x] = receipts[x]
  BY <1>1, <1>4 DEF Put
<1>6. /\ destinations \in [Destination -> Id \cup {None}]
      /\ destinations'[d] = id /\ \A e \in Destination \ {d} : destinations'[e] = destinations[e]
      /\ destinations' \in [Destination -> Id \cup {None}]
  BY <1>1, <1>2 DEF BaseInv, TypeOK, MapsTyped
<1> HIDE DEF id, rid, sub, notices
<1>7. MapsTyped'
  BY <1>2, <1>3, <1>5, <1>6 DEF BaseInv, TypeOK, MapsTyped
<1>8. FreshMaps'
  BY <1>2, <1>3, <1>5, <1>6 DEF BaseInv, TypeOK, MapsTyped, FreshMaps
<1>9. \A e \in Destination : destinations[e] # id
  BY MapFacts DEF id, BaseInv, FreshMaps, Id
<1>10. Lockstep'
  <2>1. ASSUME NEW e \in Destination, destinations'[e] # None
        PROVE  destinations'[e] \in DOMAIN subscriptions'
    BY <1>5, <1>6, <2>1 DEF BaseInv, Lockstep
  <2>2. ASSUME NEW x \in DOMAIN subscriptions'
        PROVE  \E e \in Destination :
                 destinations'[e] = x /\ \A g \in Destination \ {e} : destinations'[g] # x
    <3>1. CASE x = id
      BY <1>6, <1>9, <3>1
    <3>2. CASE x \in DOMAIN subscriptions /\ x # id
      <4>1. PICK e \in Destination :
              destinations[e] = x /\ \A g \in Destination \ {e} : destinations[g] # x
        BY <3>2 DEF BaseInv, Lockstep
      <4>2. e # d
        BY <1>1, <3>2, <4>1, MapFacts DEF BaseInv, TypeOK, MapsTyped
      <4>3. QED
        BY <1>6, <3>2, <4>1, <4>2
    <3>3. QED
      BY <1>5, <3>1, <3>2
  <2>3. \A x \in DOMAIN subscriptions' :
          subscriptions'[x].handlers # <<>> /\ Distinct(subscriptions'[x].handlers)
    BY <1>3, <1>5 DEF BaseInv, Lockstep
  <2>4. QED
    BY <2>1, <2>2, <2>3 DEF Lockstep
<1>11. QED
  BY <1>7, <1>8, <1>10 DEF MapsInv

\* A step that gives the subscription of one destination another list.
LEMMA HandlersMaps ==
  ASSUME BaseInv, NEW d \in Destination, destinations[d] # None,
         NEW list \in Seq(Handler) \ {<<>>}, Distinct(list),
         subscriptions' = [subscriptions EXCEPT ![destinations[d]].handlers = list],
         UNCHANGED <<counter, destinations>>,
         DOMAIN receipts' = DOMAIN receipts,
         \A rid \in DOMAIN receipts : receipts'[rid] \in Seq(Notices) \ {<<>>}
  PROVE  MapsInv'
<1> DEFINE id == destinations[d]
<1>1. id \in DOMAIN subscriptions
  BY MapFacts
<1>2. /\ DOMAIN subscriptions' = DOMAIN subscriptions
      /\ \A x \in DOMAIN subscriptions \ {id} : subscriptions'[x] = subscriptions[x]
      /\ subscriptions'[id] = [subscriptions[id] EXCEPT !.handlers = list]
  BY <1>1
<1>3. \A x \in DOMAIN subscriptions :
        /\ subscriptions'[x] \in [handlers : Seq(Handler), rid : Id]
        /\ subscriptions'[x].rid = subscriptions[x].rid
        /\ subscriptions'[x].handlers # <<>> /\ Distinct(subscriptions'[x].handlers)
  <2> SUFFICES ASSUME NEW x \in DOMAIN subscriptions
               PROVE  /\ subscriptions'[x] \in [handlers : Seq(Handler), rid : Id]
                      /\ subscriptions'[x].rid = subscriptions[x].rid
                      /\ subscriptions'[x].handlers # <<>>
                      /\ Distinct(subscriptions'[x].handlers)
    OBVIOUS
  <2>1. /\ subscriptions[x] \in [handlers : Seq(Handler), rid : Id]
        /\ subscriptions[x].handlers # <<>> /\ Distinct(subscriptions[x].handlers)
    BY DEF BaseInv, TypeOK, MapsTyped, Lockstep
  <2>2. CASE x = id
    BY <1>2, <2>1, <2>2
  <2>3. CASE x # id
    BY <1>2, <2>1, <2>3
  <2>4. QED
    BY <2>2, <2>3
<1> HIDE DEF id
<1>4. MapsTyped'
  BY <1>2, <1>3 DEF BaseInv, TypeOK, MapsTyped
<1>5. FreshMaps'
  BY <1>2, <1>3 DEF BaseInv, TypeOK, FreshMaps
<1>6. Lockstep'
  BY <1>2, <1>3 DEF BaseInv, Lockstep
<1>7. QED
  BY <1>4, <1>5, <1>6 DEF MapsInv

LEMMA SubscribeAgainMaps ==
  ASSUME BaseInv, NEW d \in Destination, NEW h \in Handler, SubscribeAgain(d, h)
  PROVE  MapsInv'
<1> DEFINE id == destinations[d]
           rid == subscriptions[id].rid
           notice == Notice("subscribed", d, h, id)
           list == Add(subscriptions[id].handlers, h)
<1>1. /\ id # None /\ UNCHANGED <<counter, destinations>>
      /\ subscriptions' = [subscriptions EXCEPT ![id].handlers = list]
      /\ receipts' = IF rid \in DOMAIN receipts
                       THEN [receipts EXCEPT ![rid] = Append(receipts[rid], notice)]
                       ELSE receipts
  BY DEF SubscribeAgain
<1>2. /\ id \in Id /\ subscriptions[id].handlers \in Seq(Handler)
      /\ Distinct(subscriptions[id].handlers)
  BY <1>1, MapFacts
<1>3. list \in Seq(Handler) \ {<<>>} /\ Distinct(list)
  BY <1>2, AddFacts
<1>4. notice \in Notices
  BY <1>2, FrameTypes
<1>5. \A x \in DOMAIN receipts : receipts[x] \in Seq(Notices) \ {<<>>}
  BY DEF BaseInv, TypeOK, MapsTyped, FreshMaps
<1> HIDE DEF rid, notice, list
<1>6. \A x \in DOMAIN receipts : Append(receipts[x], notice) \in Seq(Notices) \ {<<>>}
  BY <1>4, <1>5, AppendMembers
<1>7. /\ DOMAIN receipts' = DOMAIN receipts
      /\ \A x \in DOMAIN receipts : receipts'[x] \in Seq(Notices) \ {<<>>}
  BY <1>1, <1>5, <1>6
<1>8. QED
  BY <1>1, <1>3, <1>7, HandlersMaps

LEMMA UnsubscribeOneMaps ==
  ASSUME BaseInv, NEW d \in Destination, NEW h \in Handler, UnsubscribeOne(d, h)
  PROVE  MapsInv'
<1> DEFINE id == destinations[d]
           rest == Without(subscriptions[id].handlers, h)
<1>1. /\ id # None /\ rest # <<>> /\ UNCHANGED <<counter, destinations, receipts>>
      /\ subscriptions' = [subscriptions EXCEPT ![id].handlers = rest]
  BY DEF UnsubscribeOne
<1>2. /\ subscriptions[id].handlers \in Seq(Handler) /\ Distinct(subscriptions[id].handlers)
  BY <1>1, MapFacts
<1>3. rest \in Seq(Handler) \ {<<>>} /\ Distinct(rest)
  BY <1>1, <1>2, WithoutFacts
<1>4. \A x \in DOMAIN receipts : receipts[x] \in Seq(Notices) \ {<<>>}
  BY DEF BaseInv, TypeOK, MapsTyped, FreshMaps
<1> HIDE DEF rest
<1>5. QED
  BY <1>1, <1>3, <1>4, HandlersMaps

LEMMA UnsubscribeLastMaps ==
  ASSUME BaseInv, NEW d \in Destination, NEW h \in Handler, UnsubscribeLast(d, h)
  PROVE  MapsInv'
<1> DEFINE id == destinations[d]
           notices == <<Notice("unsubscribed", d, h, id)>>
<1>1. /\ id # None /\ counter < MaxId /\ counter' = counter + 1
      /\ destinations' = [destinations EXCEPT ![d] = None]
      /\ subscriptions' = Drop(subscriptions, id)
      /\ receipts' = Put(receipts, counter, notices)
  BY DEF UnsubscribeLast
<1>2. id \in Id /\ \A e \in Destination \ {d} : destinations[e] # id
  BY <1>1, MapFacts
<1>3. /\ counter' \in Id /\ counter \in Id /\ counter < counter'
      /\ \A n \in Id : n < counter => n < counter'
  BY <1>1, MapFacts DEF Id
<1>4. counter \notin DOMAIN receipts
  BY MapFacts DEF BaseInv, FreshMaps, Id
<1>5. notices \in Seq(Notices) /\ notices # <<>>
  BY <1>2, FrameTypes
<1> HIDE DEF notices
<1>6. /\ DOMAIN subscriptions' = DOMAIN subscriptions \ {id}
      /\ \A x \in DOMAIN subscriptions \ {id} : subscriptions'[x] = subscriptions[x]
      /\ DOMAIN receipts' = DOMAIN receipts \cup {counter} /\ receipts'[counter] = notices
      /\ \A x \in DOMAIN receipts : receipts'[x] = receipts[x]
  BY <1>1, <1>4 DEF Put, Drop, Restrict
<1>7. /\ destinations \in [Destination -> Id \cup {None}]
      /\ destinations'[d] = None
      /\ \A e \in Destination \ {d} : destinations'[e] = destinations[e]
      /\ destinations' \in [Destination -> Id \cup {None}]
  BY <1>1 DEF BaseInv, TypeOK, MapsTyped
<1> HIDE DEF id
<1>8. MapsTyped'
  BY <1>3, <1>5, <1>6, <1>7 DEF BaseInv, TypeOK, MapsTyped
<1>9. FreshMaps'
  BY <1>3, <1>5, <1>6, <1>7 DEF BaseInv, TypeOK, MapsTyped, FreshMaps
<1>10. Lockstep'
  <2>1. ASSUME NEW e \in Destination, destinations'[e] # None
        PROVE  destinations'[e] \in DOMAIN subscriptions'
    BY <1>2, <1>6, <1>7, <2>1 DEF BaseInv, Lockstep
  <2>2. ASSUME NEW x \in DOMAIN subscriptions'
        PROVE  \E e \in Destination :
                 destinations'[e] = x /\ \A g \in Destination \ {e} : destinations'[g] # x
    <3>1. PICK e \in Destination :
            destinations[e] = x /\ \A g \in Destination \ {e} : destinations[g] # x
      BY <1>6 DEF BaseInv, Lockstep
    <3>2. e # d /\ x # None
      BY <1>6, <3>1, MapFacts DEF id, BaseInv, TypeOK, MapsTyped
    <3>3. QED
      BY <1>7, <3>1, <3>2
  <2>3. \A x \in DOMAIN subscriptions' :
          subscriptions'[x].handlers # <<>> /\ Distinct(subscriptions'[x].handlers)
    BY <1>6 DEF BaseInv, Lockstep
  <2>4. QED
    BY <2>1, <2>2, <2>3 DEF Lockstep
<1>11. QED
  BY <1>8, <1>9, <1>10 DEF MapsInv

LEMMA MapsKept ==
  ASSUME BaseInv, [Next]_vars
  PROVE  MapsInv'
<1>1. CASE Destroy
  <2>1. UNCHANGED counter /\ destinations' = [d \in Destination |-> None]
        /\ subscriptions' = Empty /\ receipts' = Empty
    BY <1>1 DEF Destroy
  <2>2. QED
    BY <2>1 DEF BaseInv, TypeOK, MapsTyped, FreshMaps, Lockstep, MapsInv, Empty
<1>2. CASE ReceiptEnds
  <2>1. /\ UNCHANGED <<counter, destinations, subscriptions>>
        /\ receipts' = Drop(receipts, ctx.rid)
    BY <1>2 DEF ReceiptEnds
  <2>2. /\ DOMAIN receipts' \subseteq DOMAIN receipts
        /\ \A x \in DOMAIN receipts' : receipts'[x] = receipts[x]
    BY <2>1 DEF Drop, Restrict
  <2>3. QED
    BY <2>1, <2>2 DEF BaseInv, TypeOK, MapsTyped, FreshMaps, Lockstep, MapsInv
<1>3. CASE Quiet
  BY <1>3, QuietMaps DEF BaseInv, TypeOK, MapsTyped, FreshMaps, Lockstep, MapsInv
<1>4. QED
  BY <1>1, <1>2, <1>3, StepCases, SubscribeFirstMaps, SubscribeAgainMaps,
     UnsubscribeOneMaps, UnsubscribeLastMaps
-----------------------------------------------------------------------------
(* What travels is well formed, and carries ids that were given out. *)

LEMMA CounterGrows ==
  ASSUME BaseInv, [Next]_vars
  PROVE  counter \in Nat /\ counter' \in Nat /\ counter <= counter'
<1>1. counter \in Nat
  BY MapFacts
<1>2. \/ UNCHANGED counter \/ counter' = counter + 1 \/ counter' = counter + 2
  <2>1. CASE \E d \in Destination, h \in Handler :
               \/ SubscribeFirst(d, h) \/ SubscribeAgain(d, h)
               \/ UnsubscribeOne(d, h) \/ UnsubscribeLast(d, h)
    BY <2>1 DEF SubscribeFirst, SubscribeAgain, UnsubscribeOne, UnsubscribeLast
  <2>2. CASE Destroy \/ ReceiptEnds
    BY <2>2 DEF Destroy, ReceiptEnds
  <2>3. QED
    BY <2>1, <2>2, StepCases, QuietMaps
<1>3. QED
  BY <1>1, <1>2

FreshFrame(f, n) == f.cmd \in {"SUBSCRIBE", "UNSUBSCRIBE"} => f.id < n /\ f.rid < n

LEMMA SendCommandStep ==
  ASSUME NEW f, NEW ids, SendCommand(f, ids)
  PROVE  UNCHANGED toServer \/ (ready /\ toServer' = Append(toServer, f))
  BY DEF SendCommand

LEMMA ReplyStep ==
  ASSUME NEW mid \in Mids, NEW handled, Reply(mid, handled)
  PROVE  \/ UNCHANGED toServer
         \/ \E f \in Commands :
              ready /\ f.cmd \in {"ACK", "NACK"} /\ toServer' = Append(toServer, f)
<1> DEFINE f == Answer(IF handled THEN "ACK" ELSE "NACK", mid)
<1>1. UNCHANGED toServer \/ (ready /\ toServer' = Append(toServer, f))
  BY DEF Reply
<1>2. f \in Commands /\ f.cmd \in {"ACK", "NACK"}
  BY FrameTypes DEF Answer
<1>3. QED
  BY <1>1, <1>2

\* The commands that ask for a receipt, and who sends them.
Asks(f) == f.cmd \in {"SUBSCRIBE", "UNSUBSCRIBE"}
Sends(f) ==
  \E d \in Destination, h \in Handler :
    \/ SubscribeFirst(d, h) /\ f = SUBSCRIBE(counter, d, counter + 1)
    \/ UnsubscribeLast(d, h) /\ f = UNSUBSCRIBE(destinations[d], counter)
CommandSent ==
  \E f \in Commands :
    /\ ready /\ toServer' = Append(toServer, f)
    /\ FreshFrame(f, counter') /\ (Asks(f) => Sends(f))

\* A step sends one command, reads one, or leaves the link to the server alone.
LEMMA ToServerStep ==
  ASSUME BaseInv, [Next]_vars
  PROVE  \/ UNCHANGED toServer
         \/ ServerReads /\ toServer # <<>> /\ toServer' = Tail(toServer)
         \/ CommandSent
<1>1. ASSUME NEW d \in Destination, NEW h \in Handler, SubscribeFirst(d, h)
      PROVE  UNCHANGED toServer \/ CommandSent
  <2> DEFINE f == SUBSCRIBE(counter, d, counter + 1)
  <2>1. SendCommand(f, {counter, counter + 1}) /\ counter' = counter + 2 /\ counter + 2 <= MaxId
    BY <1>1 DEF SubscribeFirst
  <2>2. counter + 1 \in Id
    BY <2>1, MapFacts DEF Id
  <2>3. f \in Commands
    BY <2>2, MapFacts, FrameTypes
  <2>4. FreshFrame(f, counter')
    BY <2>1, MapFacts DEF FreshFrame, SUBSCRIBE
  <2>5. Sends(f)
    BY <1>1 DEF Sends
  <2> HIDE DEF f
  <2>6. QED
    BY <2>1, <2>3, <2>4, <2>5, SendCommandStep DEF CommandSent
<1>2. ASSUME NEW d \in Destination, NEW h \in Handler, UnsubscribeLast(d, h)
      PROVE  UNCHANGED toServer \/ CommandSent
  <2> DEFINE f == UNSUBSCRIBE(destinations[d], counter)
  <2>1. SendCommand(f, {counter}) /\ counter' = counter + 1 /\ destinations[d] # None
    BY <1>2 DEF UnsubscribeLast
  <2>2. f \in Commands
    BY <2>1, MapFacts, FrameTypes
  <2>3. FreshFrame(f, counter')
    BY <2>1, MapFacts DEF FreshFrame, UNSUBSCRIBE, Id
  <2>4. Sends(f)
    BY <1>2 DEF Sends
  <2> HIDE DEF f
  <2>5. QED
    BY <2>1, <2>2, <2>3, <2>4, SendCommandStep DEF CommandSent
<1>3. CASE \E d \in Destination, h \in Handler : SubscribeAgain(d, h) \/ UnsubscribeOne(d, h)
  BY <1>3 DEF SubscribeAgain, UnsubscribeOne
<1>4. CASE Dispatch \/ Destroy
  <2>1. \/ UNCHANGED toServer
        \/ \E cmd \in {"SEND", "DISCONNECT"} : ready /\ toServer' = Append(toServer, Frame(cmd))
    BY <1>4, SendCommandStep DEF Dispatch, Destroy
  <2>2. \A cmd \in {"SEND", "DISCONNECT"} :
          /\ Frame(cmd) \in Commands /\ FreshFrame(Frame(cmd), counter')
          /\ ~Asks(Frame(cmd))
    BY FrameTypes DEF FreshFrame, Frame, Asks
  <2>3. QED
    BY <2>1, <2>2 DEF CommandSent
<1>5. CASE ReceiveStray \/ MessageEnds
  <2>1. \E mid \in Mids, handled \in BOOLEAN : Reply(mid, handled)
    <3>1. CASE ReceiveStray
      <4>1. fromServer # <<>> /\ Head(fromServer).cmd = "MESSAGE"
            /\ Reply(Head(fromServer).mid, FALSE)
        BY <3>1 DEF ReceiveStray, Receives
      <4>2. Head(fromServer).mid \in Mids
        BY <4>1, LinkHeads, FrameFields DEF BaseInv
      <4>3. QED
        BY <4>1, <4>2
    <3>2. CASE MessageEnds
      <4>1. ctx.at = "message" /\ Reply(ctx.mid, ctx.handled)
        BY <3>2 DEF MessageEnds
      <4>2. ctx.mid \in Mids /\ ctx.handled \in BOOLEAN
        BY <4>1 DEF BaseInv, TypeOK, ContextTyped, Idle
      <4>3. QED
        BY <4>1, <4>2
    <3>3. QED
      BY <1>5, <3>1, <3>2
  <2>2. \/ UNCHANGED toServer
        \/ \E f \in Commands :
             ready /\ f.cmd \in {"ACK", "NACK"} /\ toServer' = Append(toServer, f)
    BY <2>1, ReplyStep
  <2>3. QED
    BY <2>2 DEF FreshFrame, Asks, CommandSent
<1>6. CASE \/ ReceiveConnected \/ ReceiveError \/ ReceiveMessage \/ HandlerEnds
           \/ ReceiveReceipt \/ ReceiveStrayReceipt \/ NextNotice \/ ReceiptEnds
           \/ ServerSends \/ ServerFails \/ UNCHANGED vars
  BY <1>6 DEF ReceiveConnected, ReceiveError, ReceiveMessage, HandlerEnds, ReceiveReceipt,
     ReceiveStrayReceipt, NextNotice, ReceiptEnds, ServerSends, ServerFails, vars
<1>7. CASE ServerReads
  <2>1. toServer # <<>> /\ toServer' = Tail(toServer)
    BY <1>7 DEF ServerReads, ServerConnects, ServerSubscribes, ServerUnsubscribes,
       ServerHears, ServerDisconnects, ServerIgnores, Told
  <2>2. QED
    BY <1>7, <2>1
<1>8. QED
  BY <1>1, <1>2, <1>3, <1>4, <1>5, <1>6, <1>7 DEF Next, App, Client, Server

\* The receipt of the command at the head of the link.
Confirms(f) ==
  /\ ServerSubscribes \/ ServerUnsubscribes
  /\ toServer # <<>> /\ Asks(Head(toServer)) /\ toServer' = Tail(toServer)
  /\ f = RECEIPT(Head(toServer).rid)
ReplySent ==
  \E f \in Replies :
    /\ Server /\ fromServer' = Append(fromServer, f)
    /\ f.cmd = "RECEIPT" => f.rid < counter /\ Confirms(f)
    /\ f.cmd = "ERROR" => ServerFails

\* The same for the link from the server.
LEMMA FromServerStep ==
  ASSUME BaseInv, [Next]_vars
  PROVE  \/ UNCHANGED fromServer
         \/ Client /\ ctx = Idle /\ fromServer # <<>> /\ fromServer' = Tail(fromServer)
         \/ ReplySent
<1>1. CASE App
  BY <1>1 DEF App, SubscribeFirst, SubscribeAgain, UnsubscribeOne, UnsubscribeLast,
     Dispatch, Destroy
<1>2. CASE Client
  BY <1>2 DEF Client, ReceiveConnected, ReceiveError, ReceiveMessage, ReceiveStray,
     HandlerEnds, MessageEnds, ReceiveReceipt, ReceiveStrayReceipt, NextNotice,
     ReceiptEnds, Receives, Consume
<1>3. CASE ServerConnects \/ ServerFails
  <2>1. \/ fromServer' = Append(fromServer, Frame("CONNECTED"))
        \/ ServerFails /\ fromServer' = Append(fromServer, Frame("ERROR"))
    BY <1>3 DEF ServerConnects, ServerFails, Tell
  <2>2. \A cmd \in {"CONNECTED", "ERROR"} : Frame(cmd) \in Replies /\ Frame(cmd).cmd = cmd
    BY FrameTypes DEF Frame
  <2>3. QED
    BY <1>3, <2>1, <2>2 DEF ReplySent, Server, ServerReads
<1>4. CASE ServerSubscribes \/ ServerUnsubscribes
  <2>1. /\ toServer # <<>> /\ Asks(Head(toServer)) /\ toServer' = Tail(toServer)
        /\ fromServer' = Append(fromServer, RECEIPT(Head(toServer).rid))
    BY <1>4 DEF ServerSubscribes, ServerUnsubscribes, Told, Tell, Asks
  <2>2. Head(toServer) \in Commands /\ Head(toServer) \in Members(toServer)
    BY <2>1, LinkHeads DEF BaseInv
  <2>3. Head(toServer).rid \in Id /\ Head(toServer).rid < counter
    BY <2>1, <2>2, FrameFields DEF BaseInv, FreshLinks, Asks
  <2>4. PICK f : f = RECEIPT(Head(toServer).rid)
    OBVIOUS
  <2>5. f \in Replies /\ f.cmd = "RECEIPT" /\ f.rid = Head(toServer).rid
    BY <2>3, <2>4, FrameTypes DEF RECEIPT
  <2>6. Confirms(f)
    BY <1>4, <2>1, <2>4 DEF Confirms
  <2>7. QED
    BY <1>4, <2>1, <2>3, <2>4, <2>5, <2>6 DEF ReplySent, Server, ServerReads
<1>5. CASE ServerSends
  <2>1. PICK sub \in serverSubs : fromServer' = Append(fromServer, MESSAGE(sub[1], messages + 1))
    BY <1>5 DEF ServerSends, Tell
  <2>2. sub[1] \in Id
    BY DEF BaseInv, TypeOK, ServerTyped
  <2>3. messages + 1 \in Mids
    BY <1>5, BoundAssumption DEF ServerSends, Mids, BaseInv, TypeOK, ServerTyped
  <2>4. MESSAGE(sub[1], messages + 1) \in Replies
        /\ MESSAGE(sub[1], messages + 1).cmd = "MESSAGE"
    BY <2>2, <2>3, FrameTypes DEF MESSAGE
  <2>5. QED
    BY <1>5, <2>1, <2>4 DEF ReplySent, Server
<1>6. CASE ServerHears \/ ServerDisconnects \/ ServerIgnores \/ UNCHANGED vars
  BY <1>6 DEF ServerHears, ServerDisconnects, ServerIgnores, vars
<1>7. QED
  BY <1>1, <1>2, <1>3, <1>4, <1>5, <1>6 DEF Next, Server, ServerReads

LEMMA LinksKept ==
  ASSUME BaseInv, [Next]_vars
  PROVE  toServer' \in Seq(Commands) /\ fromServer' \in Seq(Replies) /\ FreshLinks'
<1>1. /\ toServer \in Seq(Commands) /\ fromServer \in Seq(Replies)
      /\ \A f \in Members(toServer) : f \in Commands /\ FreshFrame(f, counter)
      /\ \A f \in Members(fromServer) : f \in Replies /\ (f.cmd = "RECEIPT" => f.rid < counter)
  BY ElementOfSeq DEF BaseInv, TypeOK, FreshLinks, Members, FreshFrame
<1>2. \A n \in Id : n < counter => n < counter'
  BY CounterGrows, MapFacts
<1>3. \A f \in Commands : FreshFrame(f, counter) => FreshFrame(f, counter')
  BY <1>2, FrameFields DEF FreshFrame
<1>4. \A f \in Replies : f.cmd = "RECEIPT" /\ f.rid < counter => f.rid < counter'
  BY <1>2, FrameFields
<1>5. toServer' \in Seq(Commands) /\ \A f \in Members(toServer') : FreshFrame(f, counter')
  <2>1. CASE UNCHANGED toServer
    BY <1>1, <1>3, <2>1
  <2>2. CASE toServer # <<>> /\ toServer' = Tail(toServer)
    BY <1>1, <1>3, <2>2, TailMembers
  <2>3. CASE CommandSent
    BY <1>1, <1>3, <2>3, AppendMembers DEF CommandSent
  <2>4. QED
    BY <2>1, <2>2, <2>3, ToServerStep
<1>6. /\ fromServer' \in Seq(Replies)
      /\ \A f \in Members(fromServer') : f.cmd = "RECEIPT" => f.rid < counter'
  <2>1. CASE UNCHANGED fromServer
    BY <1>1, <1>4, <2>1
  <2>2. CASE fromServer # <<>> /\ fromServer' = Tail(fromServer)
    BY <1>1, <1>4, <2>2, TailMembers
  <2>3. CASE ReplySent
    BY <1>1, <1>4, <2>3, AppendMembers DEF ReplySent
  <2>4. QED
    BY <2>1, <2>2, <2>3, FromServerStep
<1>7. QED
  BY <1>5, <1>6 DEF FreshLinks, FreshFrame
-----------------------------------------------------------------------------
(* What the client is in the middle of, the server, and the history. *)

\* The notices that wait for a receipt.
LEMMA NoticeFacts ==
  ASSUME BaseInv, NEW rid \in DOMAIN receipts
  PROVE  /\ receipts[rid] \in Seq(Notices) /\ rid \in Id /\ rid < counter
         /\ Head(receipts[rid]) \in Notices /\ Tail(receipts[rid]) \in Seq(Notices)
         /\ Members(receipts[rid]) =
              Members(Tail(receipts[rid])) \cup {Head(receipts[rid])}
<1>1. receipts[rid] \in Seq(Notices) /\ receipts[rid] # <<>> /\ rid \in Id /\ rid < counter
  BY DEF BaseInv, TypeOK, MapsTyped, FreshMaps
<1>2. QED
  BY <1>1, TailMembers

LEMMA ContextFacts ==
  ASSUME BaseInv
  PROVE  /\ ctx.at \in {"idle", "message", "receipt"} /\ (ctx.at = "idle" => ctx = Idle)
         /\ ctx.at = "message" =>
              ctx \in [at : {"message"}, mid : Mids, handled : BOOLEAN, todo : Seq(Handler)]
         /\ ctx.at = "receipt" =>
              /\ ctx \in [at : {"receipt"}, rid : Id, todo : Seq(Notices)]
              /\ ctx.rid < counter
  BY DEF BaseInv, TypeOK, ContextTyped, Idle, FreshContext

LEMMA ContextKept ==
  ASSUME BaseInv, [Next]_vars
  PROVE  ContextTyped' /\ FreshContext'
<1>1. \A n \in Id : n < counter => n < counter'
  BY CounterGrows, MapFacts
<1>2. CASE UNCHANGED ctx
  BY <1>1, <1>2 DEF BaseInv, TypeOK, ContextTyped, FreshContext, Idle
<1>3. CASE ReceiveMessage
  <2> DEFINE frame == Head(fromServer)
  <2>1. /\ fromServer # <<>> /\ frame.cmd = "MESSAGE" /\ frame.id \in DOMAIN subscriptions
        /\ ctx' = [at |-> "message", mid |-> frame.mid, handled |-> TRUE,
                   todo |-> subscriptions[frame.id].handlers]
    BY <1>3 DEF ReceiveMessage, Receives
  <2>2. frame.mid \in Mids /\ subscriptions[frame.id].handlers \in Seq(Handler)
    BY <2>1, LinkHeads, FrameFields DEF BaseInv, TypeOK, MapsTyped
  <2>3. QED
    BY <2>1, <2>2 DEF ContextTyped, FreshContext
<1>4. CASE HandlerEnds
  <2>1. PICK ok \in BOOLEAN : ctx' = [ctx EXCEPT !.todo = Tail(@), !.handled = @ /\ ok]
    BY <1>4 DEF HandlerEnds
  <2>2. /\ ctx \in [at : {"message"}, mid : Mids, handled : BOOLEAN, todo : Seq(Handler)]
        /\ ctx.todo # <<>>
    BY <1>4, ContextFacts DEF HandlerEnds
  <2>3. Tail(ctx.todo) \in Seq(Handler)
    BY <2>2, TailMembers
  <2>4. ctx' \in [at : {"message"}, mid : Mids, handled : BOOLEAN, todo : Seq(Handler)]
    BY <2>1, <2>2, <2>3
  <2>5. QED
    BY <2>4 DEF ContextTyped, FreshContext
<1>5. CASE ReceiveReceipt
  <2> DEFINE rid == Head(fromServer).rid
  <2>1. /\ rid \in DOMAIN receipts /\ UNCHANGED counter
        /\ ctx' = [at |-> "receipt", rid |-> rid, todo |-> Tail(receipts[rid])]
    BY <1>5 DEF ReceiveReceipt, client
  <2>2. rid \in Id /\ rid < counter /\ Tail(receipts[rid]) \in Seq(Notices)
    BY <2>1, NoticeFacts
  <2>3. QED
    BY <2>1, <2>2 DEF ContextTyped, FreshContext
<1>6. CASE NextNotice
  <2>1. /\ ctx' = [ctx EXCEPT !.todo = Tail(@)] /\ UNCHANGED counter
        /\ ctx.at = "receipt" /\ ctx.todo # <<>>
    BY <1>6 DEF NextNotice, client
  <2>2. ctx \in [at : {"receipt"}, rid : Id, todo : Seq(Notices)] /\ ctx.rid < counter
    BY <2>1, ContextFacts
  <2>3. Tail(ctx.todo) \in Seq(Notices)
    BY <2>1, <2>2, TailMembers
  <2>4. ctx' \in [at : {"receipt"}, rid : Id, todo : Seq(Notices)] /\ ctx'.rid = ctx.rid
    BY <2>1, <2>2, <2>3
  <2>5. QED
    BY <2>1, <2>2, <2>4 DEF ContextTyped, FreshContext
<1>7. CASE ctx' = Idle
  BY <1>7 DEF ContextTyped, FreshContext, Idle
<1>8. \/ UNCHANGED ctx \/ ctx' = Idle
      \/ ReceiveMessage \/ HandlerEnds \/ ReceiveReceipt \/ NextNotice
  <2>1. CASE App
    BY <2>1 DEF App, SubscribeFirst, SubscribeAgain, UnsubscribeOne, UnsubscribeLast,
       Dispatch, Destroy
  <2>2. CASE Client
    BY <2>2 DEF Client, ReceiveConnected, ReceiveError, ReceiveStray, MessageEnds,
       ReceiveStrayReceipt, ReceiptEnds
  <2>3. CASE Server
    BY <2>3 DEF Server, ServerReads, ServerConnects, ServerSubscribes, ServerUnsubscribes,
       ServerHears, ServerDisconnects, ServerIgnores, ServerSends, ServerFails, ClientStays
  <2>4. CASE UNCHANGED vars
    BY <2>4 DEF vars
  <2>5. QED
    BY <2>1, <2>2, <2>3, <2>4 DEF Next
<1>9. QED
  BY <1>2, <1>3, <1>4, <1>5, <1>6, <1>7, <1>8

LEMMA ServerKept ==
  ASSUME BaseInv, [Next]_vars
  PROVE  ServerTyped' /\ accepted \subseteq accepted'
<1> USE DEF ServerTyped
<1>1. ServerTyped
  BY DEF BaseInv, TypeOK
<1>2. CASE UNCHANGED server
  BY <1>1, <1>2 DEF server
<1>3. CASE ServerConnects \/ ServerDisconnects \/ ServerFails
  BY <1>1, <1>3 DEF ServerConnects, ServerDisconnects, ServerFails
<1>4. CASE ServerSubscribes
  <2> DEFINE sub == <<Head(toServer).id, Head(toServer).dest>>
  <2>1. /\ toServer # <<>> /\ Head(toServer).cmd = "SUBSCRIBE"
        /\ serverSubs' = serverSubs \cup {sub} /\ accepted' = accepted \cup {sub}
        /\ UNCHANGED <<session, messages>>
    BY <1>4 DEF ServerSubscribes, Told
  <2>2. sub \in Id \X Destination
    BY <2>1, LinkHeads, FrameFields DEF BaseInv
  <2>3. QED
    BY <1>1, <2>1, <2>2
<1>5. CASE ServerUnsubscribes
  BY <1>1, <1>5 DEF ServerUnsubscribes
<1>6. CASE ServerSends
  BY <1>1, <1>6, BoundAssumption DEF ServerSends
<1>7. CASE App \/ Client \/ ServerHears \/ ServerIgnores \/ UNCHANGED vars
  <2>1. UNCHANGED server
    BY <1>7 DEF App, SubscribeFirst, SubscribeAgain, UnsubscribeOne, UnsubscribeLast,
       Dispatch, Destroy, Client, ReceiveConnected, ReceiveError, ReceiveMessage,
       ReceiveStray, HandlerEnds, MessageEnds, ReceiveReceipt, ReceiveStrayReceipt,
       NextNotice, ReceiptEnds, ServerHears, ServerIgnores, vars
  <2>2. QED
    BY <1>2, <2>1
<1>8. QED
  BY <1>3, <1>4, <1>5, <1>6, <1>7 DEF Next, Server, ServerReads

\* A step announces a notice that is well formed, or none.
LEMMA NoticedStep ==
  ASSUME BaseInv, [Next]_vars
  PROVE  UNCHANGED noticed \/ \E n \in Notices : Announce(n)
<1>1. ASSUME NEW d \in Destination, NEW h \in Handler,
             SubscribeAgain(d, h) \/ UnsubscribeOne(d, h)
      PROVE  UNCHANGED noticed \/ \E n \in Notices : Announce(n)
  <2>1. destinations[d] # None
    BY <1>1 DEF SubscribeAgain, UnsubscribeOne
  <2>2. \A kind \in {"subscribed", "unsubscribed"} : Notice(kind, d, h, destinations[d]) \in Notices
    BY <2>1, MapFacts, FrameTypes
  <2>3. QED
    BY <1>1, <2>2 DEF SubscribeAgain, UnsubscribeOne
<1>2. CASE ReceiveReceipt
  BY <1>2, NoticeFacts DEF ReceiveReceipt
<1>3. CASE NextNotice
  <2>1. ctx.todo \in Seq(Notices) /\ ctx.todo # <<>> /\ Announce(Head(ctx.todo))
    BY <1>3, ContextFacts DEF NextNotice
  <2>2. Head(ctx.todo) \in Notices
    BY <2>1, TailMembers
  <2>3. QED
    BY <2>1, <2>2
<1>4. CASE \/ \E d \in Destination, h \in Handler : SubscribeFirst(d, h) \/ UnsubscribeLast(d, h)
           \/ Dispatch \/ Destroy \/ Server \/ UNCHANGED vars
  BY <1>4 DEF SubscribeFirst, UnsubscribeLast, Dispatch, Destroy, Server, ServerReads,
     ServerConnects, ServerSubscribes, ServerUnsubscribes, ServerHears, ServerDisconnects,
     ServerIgnores, ServerSends, ServerFails, ClientStays, vars
<1>5. CASE \/ ReceiveConnected \/ ReceiveError \/ ReceiveMessage \/ ReceiveStray
           \/ HandlerEnds \/ MessageEnds \/ ReceiveStrayReceipt \/ ReceiptEnds
  BY <1>5 DEF ReceiveConnected, ReceiveError, ReceiveMessage, ReceiveStray, HandlerEnds,
     MessageEnds, ReceiveStrayReceipt, ReceiptEnds
<1>6. QED
  BY <1>1, <1>2, <1>3, <1>4, <1>5 DEF Next, App, Client

\* A step changes what is recorded of a message when it takes it from the link,
\* or when a handler throws.
LEMMA OutcomeStep ==
  ASSUME BaseInv, [Next]_vars
  PROVE  \/ UNCHANGED outcome
         \/ /\ ReceiveMessage
            /\ Head(fromServer).mid \in Mids
            /\ outcome' = [outcome EXCEPT ![Head(fromServer).mid] = "ok"]
         \/ /\ ReceiveStray
            /\ Head(fromServer).mid \in Mids
            /\ outcome' = [outcome EXCEPT ![Head(fromServer).mid] = "failed"]
         \/ /\ HandlerEnds
            /\ outcome' = [outcome EXCEPT ![ctx.mid] = "failed"]
<1>1. CASE ReceiveMessage \/ ReceiveStray
  <2>1. fromServer # <<>> /\ Head(fromServer).cmd = "MESSAGE"
    BY <1>1 DEF ReceiveMessage, ReceiveStray, Receives
  <2>2. Head(fromServer).mid \in Mids
    BY <2>1, LinkHeads, FrameFields DEF BaseInv
  <2>3. QED
    BY <1>1, <2>2 DEF ReceiveMessage, ReceiveStray
<1>2. CASE HandlerEnds
  BY <1>2 DEF HandlerEnds
<1>3. CASE App \/ Server \/ UNCHANGED vars
  BY <1>3 DEF App, SubscribeFirst, SubscribeAgain, UnsubscribeOne, UnsubscribeLast,
     Dispatch, Destroy, Server, ServerReads,
     ServerConnects, ServerSubscribes, ServerUnsubscribes, ServerHears, ServerDisconnects,
     ServerIgnores, ServerSends, ServerFails, ClientStays, vars
<1>4. CASE \/ ReceiveConnected \/ ReceiveError \/ MessageEnds \/ ReceiveReceipt
           \/ ReceiveStrayReceipt \/ NextNotice \/ ReceiptEnds
  BY <1>4 DEF ReceiveConnected, ReceiveError, MessageEnds, ReceiveReceipt,
     ReceiveStrayReceipt, NextNotice, ReceiptEnds
<1>5. QED
  BY <1>1, <1>2, <1>3, <1>4 DEF Next, Client

\* A step answers the message it has done with, or none.
LEMMA AnsweredStep ==
  ASSUME BaseInv, [Next]_vars
  PROVE  \/ UNCHANGED answered
         \/ ReceiveStray /\ Reply(Head(fromServer).mid, FALSE) /\ Head(fromServer).mid \in Mids
         \/ MessageEnds /\ Reply(ctx.mid, ctx.handled) /\ ctx.mid \in Mids
<1>1. CASE ReceiveStray
  <2>1. fromServer # <<>> /\ Head(fromServer).cmd = "MESSAGE"
    BY <1>1 DEF ReceiveStray, Receives
  <2>2. Head(fromServer).mid \in Mids
    BY <2>1, LinkHeads, FrameFields DEF BaseInv
  <2>3. QED
    BY <1>1, <2>2 DEF ReceiveStray
<1>2. CASE MessageEnds
  BY <1>2, ContextFacts DEF MessageEnds
<1>3. CASE App \/ Server \/ UNCHANGED vars
  BY <1>3 DEF App, SubscribeFirst, SubscribeAgain, UnsubscribeOne, UnsubscribeLast,
     Dispatch, Destroy, Server, ServerReads,
     ServerConnects, ServerSubscribes, ServerUnsubscribes, ServerHears, ServerDisconnects,
     ServerIgnores, ServerSends, ServerFails, ClientStays, vars
<1>4. CASE \/ ReceiveConnected \/ ReceiveError \/ ReceiveMessage \/ HandlerEnds
           \/ ReceiveReceipt \/ ReceiveStrayReceipt \/ NextNotice \/ ReceiptEnds
  BY <1>4 DEF ReceiveConnected, ReceiveError, ReceiveMessage, HandlerEnds, ReceiveReceipt,
     ReceiveStrayReceipt, NextNotice, ReceiptEnds
<1>5. QED
  BY <1>1, <1>2, <1>3, <1>4 DEF Next, Client

LEMMA HistoryKept ==
  ASSUME BaseInv, [Next]_vars
  PROVE  HistoryTyped'
<1>1. HistoryTyped
  BY DEF BaseInv, TypeOK
<1>2. /\ DOMAIN noticed' = Destination \X Handler
      /\ \A p \in Destination \X Handler :
           noticed'[p] \in Notices \cup {Notice("none", p[1], p[2], None)}
  <2>1. CASE UNCHANGED noticed
    BY <1>1, <2>1 DEF HistoryTyped
  <2>2. ASSUME NEW n \in Notices, Announce(n)
        PROVE  /\ DOMAIN noticed' = Destination \X Handler
               /\ \A p \in Destination \X Handler :
                    noticed'[p] \in Notices \cup {Notice("none", p[1], p[2], None)}
    BY <1>1, <2>2 DEF HistoryTyped, Announce
  <2>3. QED
    BY <2>1, <2>2, NoticedStep
<1>3. unsent' \subseteq Id
  <2>1. unsent \subseteq Id
    BY <1>1 DEF HistoryTyped
  <2>2. ASSUME NEW d \in Destination, NEW h \in Handler, SubscribeFirst(d, h)
        PROVE  unsent' \subseteq Id
    <3>1. counter \in Id /\ counter + 1 \in Id
      BY <2>2, MapFacts DEF SubscribeFirst, Id
    <3>2. QED
      BY <2>1, <2>2, <3>1 DEF SubscribeFirst, SendCommand
  <2>3. ASSUME NEW d \in Destination, NEW h \in Handler, UnsubscribeLast(d, h)
        PROVE  unsent' \subseteq Id
    BY <2>1, <2>3, MapFacts DEF UnsubscribeLast, SendCommand
  <2>4. CASE Dispatch
    BY <2>1, <2>4 DEF Dispatch, SendCommand
  <2>5. CASE \/ \E d \in Destination, h \in Handler : SubscribeAgain(d, h) \/ UnsubscribeOne(d, h)
             \/ Destroy \/ Server \/ UNCHANGED vars
    BY <2>1, <2>5 DEF SubscribeAgain, UnsubscribeOne, Destroy, Server, ServerReads,
       ServerConnects, ServerSubscribes, ServerUnsubscribes, ServerHears, ServerDisconnects,
       ServerIgnores, ServerSends, ServerFails, ClientStays, vars
  <2>6. CASE Client
    BY <2>1, <2>6 DEF Client, ReceiveConnected, ReceiveError, ReceiveMessage, ReceiveStray,
       HandlerEnds, MessageEnds, ReceiveReceipt, ReceiveStrayReceipt, NextNotice, ReceiptEnds
  <2>7. QED
    BY <2>2, <2>3, <2>4, <2>5, <2>6 DEF Next, App
<1>4. outcome' \in [Mids -> {"none", "ok", "failed"}]
  BY <1>1, OutcomeStep DEF HistoryTyped
<1>5. answered' \subseteq {"ACK", "NACK"} \X Mids
  <2>1. ASSUME NEW mid \in Mids, NEW handled, Reply(mid, handled)
        PROVE  answered' \subseteq {"ACK", "NACK"} \X Mids
    BY <1>1, <2>1 DEF HistoryTyped, Reply
  <2>2. QED
    BY <1>1, <2>1, AnsweredStep DEF HistoryTyped
<1>6. QED
  BY <1>2, <1>3, <1>4, <1>5 DEF HistoryTyped

LEMMA InitBase ==
  ASSUME Init
  PROVE  BaseInv
<1>1. /\ counter = 0 /\ destinations = [d \in Destination |-> None]
      /\ subscriptions = <<>> /\ receipts = <<>> /\ ctx = Idle
      /\ toServer = <<Frame("CONNECT")>> /\ fromServer = <<>>
      /\ session = "opening" /\ serverSubs = {} /\ messages = 0
      /\ noticed = [p \in Destination \X Handler |-> Notice("none", p[1], p[2], None)]
      /\ accepted = {} /\ unsent = {}
      /\ outcome = [mid \in Mids |-> "none"] /\ answered = {}
  BY DEF Init, Empty
<1>2. ready \in BOOLEAN /\ destroyed \in BOOLEAN
  BY DEF Init
<1>3. 0 \in Id
  BY BoundAssumption DEF Id
<1>4. MapsTyped /\ FreshMaps /\ Lockstep
  BY <1>1, <1>3 DEF MapsTyped, FreshMaps, Lockstep
<1>5. ContextTyped /\ FreshContext
  BY <1>1 DEF ContextTyped, FreshContext, Idle
<1>6. Frame("CONNECT") \in Commands /\ Frame("CONNECT").cmd = "CONNECT"
  BY FrameTypes DEF Frame
<1>7. /\ toServer \in Seq(Commands) /\ fromServer \in Seq(Replies)
      /\ Members(toServer) = {Frame("CONNECT")} /\ Members(fromServer) = {}
  BY <1>1, <1>6 DEF Members
<1>8. FreshLinks
  BY <1>6, <1>7 DEF FreshLinks
<1>9. ServerTyped
  BY <1>1, BoundAssumption DEF ServerTyped
<1>10. HistoryTyped
  BY <1>1 DEF HistoryTyped
<1>11. QED
  BY <1>2, <1>4, <1>5, <1>7, <1>8, <1>9, <1>10, Zenon DEF BaseInv, TypeOK

LEMMA NextBase ==
  ASSUME BaseInv, [Next]_vars
  PROVE  BaseInv'
<1>1. TypeOK'
  BY FlagsTyped, MapsKept, ContextKept, LinksKept, ServerKept, HistoryKept, Zenon
  DEF TypeOK, MapsInv
<1>2. QED
  BY <1>1, MapsKept, ContextKept, LinksKept, Zenon DEF BaseInv, MapsInv

\* Types, fresh ids and the lockstep of the two maps hold together.
THEOREM BaseInvariant == Spec => []BaseInv
  BY InitBase, NextBase, PTL DEF Spec

\* The state of the bridge, of the links and of the server keeps its shape,
\* whatever is called, refused, destroyed or sent in whichever order
\* (stomp.js:45-67, 92-160).
THEOREM BridgeTyped == Spec => []TypeOK
<1>1. BaseInv => TypeOK
  BY DEF BaseInv
<1>2. QED
  BY <1>1, BaseInvariant, PTL

\* Each subscription the client keeps belongs to exactly one destination and has
\* handlers, also after sends that threw half way (stomp.js:95-122, 138-159).
THEOREM MapsInLockstep == Spec => []Lockstep
<1>1. BaseInv => Lockstep
  BY DEF BaseInv
<1>2. QED
  BY <1>1, BaseInvariant, PTL
-----------------------------------------------------------------------------
(* What the calls of the application do to the maps and to the link. *)

LEMMA SubscribeFirstEffect ==
  ASSUME BaseInv, NEW d \in Destination, NEW h \in Handler, SubscribeFirst(d, h)
  PROVE  /\ counter \in Id /\ counter + 1 \in Id /\ counter' = counter + 2
         /\ destinations[d] = None /\ destinations'[d] = counter
         /\ \A e \in Destination : e # d => destinations'[e] = destinations[e]
         /\ counter \notin DOMAIN subscriptions
         /\ DOMAIN subscriptions' = DOMAIN subscriptions \cup {counter}
         /\ subscriptions'[counter] = [handlers |-> <<h>>, rid |-> counter + 1]
         /\ \A x \in DOMAIN subscriptions : subscriptions'[x] = subscriptions[x]
         /\ counter + 1 \notin DOMAIN receipts
         /\ DOMAIN receipts' = DOMAIN receipts \cup {counter + 1}
         /\ receipts'[counter + 1] = <<Notice("subscribed", d, h, counter)>>
         /\ \A x \in DOMAIN receipts : receipts'[x] = receipts[x]
         /\ SendCommand(SUBSCRIBE(counter, d, counter + 1), {counter, counter + 1})
         /\ UNCHANGED <<ready, destroyed, ctx, fromServer, server, noticed, outcome,
                        answered>>
<1>1. /\ destinations[d] = None /\ counter + 2 <= MaxId /\ counter' = counter + 2
      /\ destinations' = [destinations EXCEPT ![d] = counter]
      /\ subscriptions' = Put(subscriptions, counter, [handlers |-> <<h>>, rid |-> counter + 1])
      /\ receipts' = Put(receipts, counter + 1, <<Notice("subscribed", d, h, counter)>>)
      /\ SendCommand(SUBSCRIBE(counter, d, counter + 1), {counter, counter + 1})
      /\ UNCHANGED <<ready, destroyed, ctx, fromServer, server, noticed, outcome, answered>>
  BY DEF SubscribeFirst
<1>2. counter \in Id /\ counter + 1 \in Id
  BY <1>1, MapFacts DEF Id
<1>3. counter \notin DOMAIN subscriptions /\ counter + 1 \notin DOMAIN receipts
  BY MapFacts DEF BaseInv, FreshMaps, Id
<1>4. destinations'[d] = counter /\ \A e \in Destination : e # d => destinations'[e] = destinations[e]
  BY <1>1 DEF BaseInv, TypeOK, MapsTyped
<1>5. /\ DOMAIN subscriptions' = DOMAIN subscriptions \cup {counter}
      /\ subscriptions'[counter] = [handlers |-> <<h>>, rid |-> counter + 1]
      /\ \A x \in DOMAIN subscriptions : subscriptions'[x] = subscriptions[x]
  BY <1>1, <1>3 DEF Put
<1>6. /\ DOMAIN receipts' = DOMAIN receipts \cup {counter + 1}
      /\ receipts'[counter + 1] = <<Notice("subscribed", d, h, counter)>>
      /\ \A x \in DOMAIN receipts : receipts'[x] = receipts[x]
  BY <1>1, <1>3 DEF Put
<1>7. QED
  BY <1>1, <1>2, <1>3, <1>4, <1>5, <1>6, Zenon

LEMMA UnsubscribeLastEffect ==
  ASSUME BaseInv, NEW d \in Destination, NEW h \in Handler, UnsubscribeLast(d, h)
  PROVE  /\ counter \in Id /\ counter' = counter + 1
         /\ destinations[d] # None /\ destinations'[d] = None
         /\ \A e \in Destination : e # d => destinations'[e] = destinations[e]
         /\ DOMAIN subscriptions' = DOMAIN subscriptions \ {destinations[d]}
         /\ \A x \in DOMAIN subscriptions' : subscriptions'[x] = subscriptions[x]
         /\ counter \notin DOMAIN receipts
         /\ DOMAIN receipts' = DOMAIN receipts \cup {counter}
         /\ receipts'[counter] = <<Notice("unsubscribed", d, h, destinations[d])>>
         /\ \A x \in DOMAIN receipts : receipts'[x] = receipts[x]
         /\ SendCommand(UNSUBSCRIBE(destinations[d], counter), {counter})
         /\ UNCHANGED <<ready, destroyed, ctx, fromServer, server, noticed, outcome,
                        answered>>
<1>1. /\ destinations[d] # None /\ counter' = counter + 1
      /\ destinations' = [destinations EXCEPT ![d] = None]
      /\ subscriptions' = Drop(subscriptions, destinations[d])
      /\ receipts' = Put(receipts, counter, <<Notice("unsubscribed", d, h, destinations[d])>>)
      /\ SendCommand(UNSUBSCRIBE(destinations[d], counter), {counter})
      /\ UNCHANGED <<ready, destroyed, ctx, fromServer, server, noticed, outcome, answered>>
  BY DEF UnsubscribeLast
<1>2. counter \in Id
  BY MapFacts
<1>3. counter \notin DOMAIN receipts
  BY MapFacts DEF BaseInv, FreshMaps, Id
<1>4. destinations'[d] = None /\ \A e \in Destination : e # d => destinations'[e] = destinations[e]
  BY <1>1 DEF BaseInv, TypeOK, MapsTyped
<1>5. /\ DOMAIN subscriptions' = DOMAIN subscriptions \ {destinations[d]}
      /\ \A x \in DOMAIN subscriptions' : subscriptions'[x] = subscriptions[x]
  BY <1>1, DropFacts
<1>6. /\ DOMAIN receipts' = DOMAIN receipts \cup {counter}
      /\ receipts'[counter] = <<Notice("unsubscribed", d, h, destinations[d])>>
      /\ \A x \in DOMAIN receipts : receipts'[x] = receipts[x]
  BY <1>1, <1>3 DEF Put
<1>7. QED
  BY <1>1, <1>2, <1>3, <1>4, <1>5, <1>6, Zenon

\* The handlers of a subscription change, its id and its receipt do not.
LEMMA HandlersEffect ==
  ASSUME BaseInv, NEW d \in Destination, NEW h \in Handler,
         SubscribeAgain(d, h) \/ UnsubscribeOne(d, h)
  PROVE  /\ destinations[d] # None /\ DOMAIN subscriptions' = DOMAIN subscriptions
         /\ \A x \in DOMAIN subscriptions : subscriptions'[x].rid = subscriptions[x].rid
         /\ UNCHANGED <<counter, destinations, ready, destroyed, ctx, toServer, fromServer,
                        server, unsent, outcome, answered>>
<1>1. /\ destinations[d] # None
      /\ UNCHANGED <<counter, destinations, ready, destroyed, ctx, toServer, fromServer,
                     server, unsent, outcome, answered>>
      /\ \E list : subscriptions' = [subscriptions EXCEPT ![destinations[d]].handlers = list]
  BY DEF SubscribeAgain, UnsubscribeOne
<1>2. \A x \in DOMAIN subscriptions : subscriptions[x] \in [handlers : Seq(Handler), rid : Id]
  BY DEF BaseInv, TypeOK, MapsTyped
<1>3. DOMAIN subscriptions' = DOMAIN subscriptions
  BY <1>1
<1>4. \A x \in DOMAIN subscriptions : subscriptions'[x].rid = subscriptions[x].rid
  BY <1>1, <1>2
<1>5. QED
  BY <1>1, <1>3, <1>4, Zenon

LEMMA SubscribeAgainEffect ==
  ASSUME BaseInv, NEW d \in Destination, NEW h \in Handler, SubscribeAgain(d, h)
  PROVE  LET rid == subscriptions[destinations[d]].rid
             notice == Notice("subscribed", d, h, destinations[d])
         IN /\ notice \in Notices /\ DOMAIN receipts' = DOMAIN receipts
            /\ \A x \in DOMAIN receipts : x # rid => receipts'[x] = receipts[x]
            /\ rid \in DOMAIN receipts =>
                 /\ Members(receipts'[rid]) = Members(receipts[rid]) \cup {notice}
                 /\ UNCHANGED noticed
            /\ rid \notin DOMAIN receipts => Announce(notice)
<1> DEFINE rid == subscriptions[destinations[d]].rid
           notice == Notice("subscribed", d, h, destinations[d])
<1>1. /\ destinations[d] # None
      /\ IF rid \in DOMAIN receipts
           THEN receipts' = [receipts EXCEPT ![rid] = Append(receipts[rid], notice)] /\ UNCHANGED noticed
           ELSE Announce(notice) /\ UNCHANGED receipts
  BY DEF SubscribeAgain
<1>2. notice \in Notices
  BY <1>1, MapFacts, FrameTypes
<1>3. ASSUME rid \in DOMAIN receipts
      PROVE  Members(Append(receipts[rid], notice)) = Members(receipts[rid]) \cup {notice}
  <2>1. receipts[rid] \in Seq(Notices)
    BY <1>3, NoticeFacts
  <2> HIDE DEF rid, notice
  <2>2. QED
    BY <1>2, <2>1, AppendMembers
<1> HIDE DEF rid, notice
<1>4. CASE rid \in DOMAIN receipts
  BY <1>1, <1>2, <1>3, <1>4 DEF rid, notice
<1>5. CASE rid \notin DOMAIN receipts
  BY <1>1, <1>2, <1>5 DEF rid, notice
<1>6. QED
  BY <1>4, <1>5

LEMMA SentFrame ==
  ASSUME BaseInv, NEW g \in Commands, NEW ids, SendCommand(g, ids),
         NEW f \in Members(toServer')
  PROVE  f \in Members(toServer) \/ f = g
<1>1. toServer \in Seq(Commands)
  BY DEF BaseInv, TypeOK
<1>2. Members(Append(toServer, g)) = Members(toServer) \cup {g}
  BY <1>1, AppendMembers
<1>3. QED
  BY <1>2, SendCommandStep

\* Only subscribe and unsubscribe put a command that asks for a receipt on the link.
LEMMA AskingFrames ==
  ASSUME BaseInv, [Next]_vars, NEW f \in Members(toServer'), Asks(f)
  PROVE  f \in Members(toServer) \/ (Sends(f) /\ ready)
<1>1. toServer \in Seq(Commands)
  BY DEF BaseInv, TypeOK
<1>2. CASE UNCHANGED toServer
  BY <1>2
<1>3. CASE toServer # <<>> /\ toServer' = Tail(toServer)
  BY <1>1, <1>3, TailMembers
<1>4. CASE CommandSent
  BY <1>1, <1>4, AppendMembers DEF CommandSent
<1>5. QED
  BY <1>2, <1>3, <1>4, ToServerStep
-----------------------------------------------------------------------------
(* Nobody is told too early. *)

\* A receipt comes only when the server reads the command that asked for it.
LEMMA AnswerComes ==
  ASSUME BaseInv, [Next]_vars, NEW rid \in Id, IsAnswered(rid)'
  PROVE  \/ IsAnswered(rid)
         \/ (ServerSubscribes \/ ServerUnsubscribes) /\ rid = Head(toServer).rid
<1>0. fromServer \in Seq(Replies)
  BY DEF BaseInv, TypeOK
<1>1. CASE RECEIPT(rid) \in Members(fromServer')
  <2>1. CASE UNCHANGED fromServer
    BY <1>1, <2>1 DEF IsAnswered
  <2>2. CASE fromServer # <<>> /\ fromServer' = Tail(fromServer)
    BY <1>0, <1>1, <2>2, TailMembers DEF IsAnswered
  <2>3. CASE ReplySent
    <3>1. PICK f \in Replies : /\ fromServer' = Append(fromServer, f)
                               /\ f.cmd = "RECEIPT" => Confirms(f)
      BY <2>3 DEF ReplySent
    <3>2. RECEIPT(rid) \in Members(fromServer) \/ f = RECEIPT(rid)
      BY <1>0, <1>1, <3>1, AppendMembers
    <3>3. f = RECEIPT(rid) => Confirms(f) /\ rid = Head(toServer).rid
      BY <3>1 DEF Confirms, RECEIPT
    <3>4. QED
      BY <3>2, <3>3 DEF IsAnswered, Confirms
  <2>4. QED
    BY <2>1, <2>2, <2>3, FromServerStep
<1>2. CASE ctx'.at = "receipt" /\ ctx'.rid = rid
  <2>1. CASE UNCHANGED ctx
    BY <1>2, <2>1 DEF IsAnswered
  <2>2. CASE NextNotice
    <3>1. ctx.at = "receipt" /\ ctx' = [ctx EXCEPT !.todo = Tail(@)]
      BY <2>2 DEF NextNotice
    <3>2. ctx \in [at : {"receipt"}, rid : Id, todo : Seq(Notices)]
      BY <3>1, ContextFacts
    <3>3. QED
      BY <1>2, <3>1, <3>2 DEF IsAnswered
  <2>3. CASE ReceiveReceipt
    <3>1. /\ fromServer # <<>> /\ Head(fromServer).cmd = "RECEIPT"
          /\ ctx'.rid = Head(fromServer).rid
      BY <2>3 DEF ReceiveReceipt, Receives
    <3>2. Head(fromServer) = RECEIPT(rid) /\ Head(fromServer) \in Members(fromServer)
      BY <1>2, <3>1, LinkHeads, FrameFields DEF BaseInv
    <3>3. QED
      BY <3>2 DEF IsAnswered
  <2>4. CASE ctx' = Idle
    BY <1>2, <2>4 DEF Idle
  <2>5. CASE ReceiveMessage
    BY <1>2, <2>5 DEF ReceiveMessage
  <2>6. CASE HandlerEnds
    <3>1. ctx.at = "message" /\ \E ok \in BOOLEAN : ctx' = [ctx EXCEPT !.todo = Tail(@), !.handled = @ /\ ok]
      BY <2>6 DEF HandlerEnds
    <3>2. ctx \in [at : {"message"}, mid : Mids, handled : BOOLEAN, todo : Seq(Handler)]
      BY <3>1, ContextFacts
    <3>3. ctx'.at = "message"
      BY <3>1, <3>2
    <3>4. QED
      BY <1>2, <3>3
  <2>7. CASE App \/ Server \/ UNCHANGED vars
    BY <2>1, <2>7 DEF App, SubscribeFirst, SubscribeAgain, UnsubscribeOne, UnsubscribeLast,
       Dispatch, Destroy, Server, ServerReads, ServerConnects, ServerSubscribes,
       ServerUnsubscribes, ServerHears, ServerDisconnects, ServerIgnores, ServerSends,
       ServerFails, ClientStays, vars
  <2>8. CASE Client
    BY <2>1, <2>2, <2>3, <2>4, <2>5, <2>6, <2>8 DEF Client, ReceiveConnected, ReceiveError,
       ReceiveStray, MessageEnds, ReceiveStrayReceipt, ReceiptEnds
  <2>9. QED
    BY <2>7, <2>8 DEF Next
<1>3. QED
  BY <1>1, <1>2 DEF IsAnswered

\* What is answered was given out before.
LEMMA AnsweredIsOld ==
  ASSUME BaseInv, NEW rid, IsAnswered(rid)
  PROVE  rid < counter
<1>1. RECEIPT(rid).cmd = "RECEIPT" /\ RECEIPT(rid).rid = rid
  BY DEF RECEIPT
<1>2. QED
  BY <1>1 DEF IsAnswered, BaseInv, FreshLinks, FreshContext

LEMMA AnnounceConfirmed ==
  ASSUME BaseInv, ConfirmedBeforeNotice, accepted \subseteq accepted',
         NEW n \in Notices, Announce(n), IsSubscribed(n) => <<n.id, n.dest>> \in accepted'
  PROVE  ConfirmedBeforeNotice'
<1>1. n.dest \in Destination /\ n.h \in Handler
  BY DEF Notices
<1>2. DOMAIN noticed = Destination \X Handler
  BY DEF BaseInv, TypeOK, HistoryTyped
<1>3. /\ noticed'[<<n.dest, n.h>>] = n
      /\ \A p \in Destination \X Handler : p # <<n.dest, n.h>> => noticed'[p] = noticed[p]
  BY <1>1, <1>2 DEF Announce
<1>4. QED
  BY <1>3 DEF ConfirmedBeforeNotice, IsSubscribed

LEMMA SubscribeFirstConfirm ==
  ASSUME BaseInv, ConfirmInv, NEW d \in Destination, NEW h \in Handler, SubscribeFirst(d, h)
  PROVE  ConfirmInv'
<1> DEFINE new == Notice("subscribed", d, h, counter)
<1>0. /\ counter \in Id /\ counter + 1 \in Id /\ Id \subseteq Nat
      /\ destinations[d] = None /\ destinations'[d] = counter
      /\ \A e \in Destination : e # d => destinations'[e] = destinations[e]
      /\ counter \notin DOMAIN subscriptions
      /\ DOMAIN subscriptions' = DOMAIN subscriptions \cup {counter}
      /\ subscriptions'[counter] = [handlers |-> <<h>>, rid |-> counter + 1]
      /\ \A x \in DOMAIN subscriptions : subscriptions'[x] = subscriptions[x]
      /\ counter + 1 \notin DOMAIN receipts
      /\ DOMAIN receipts' = DOMAIN receipts \cup {counter + 1}
      /\ receipts'[counter + 1] = <<new>>
      /\ \A x \in DOMAIN receipts : receipts'[x] = receipts[x]
      /\ UNCHANGED <<ctx, fromServer, accepted, noticed>>
  BY SubscribeFirstEffect, MapFacts DEF server
<1>1. Members(<<new>>) = {new} /\ subscriptions'[counter].rid = counter + 1
  BY <1>0 DEF Members
<1>2. \A rid : IsAnswered(rid)' = IsAnswered(rid)
  BY <1>0 DEF IsAnswered
<1>3. ~IsAnswered(counter + 1)
  BY <1>0, AnsweredIsOld
<1>4. WaitingNotices'
  BY <1>0, <1>1, <1>2, <1>3 DEF ConfirmInv, WaitingNotices
<1>5. WaitingDestinations'
  <2>1. DestinationWaits(d)'
    BY <1>0, <1>1, <1>2, <1>3 DEF DestinationWaits
  <2>2. ASSUME NEW e \in Destination, e # d, destinations'[e] # None
        PROVE  DestinationWaits(e)'
    <3>1. DestinationWaits(e) /\ destinations[e] \in DOMAIN subscriptions
      BY <1>0, <2>2, MapFacts DEF ConfirmInv, WaitingDestinations
    <3>2. QED
      BY <1>0, <1>2, <2>2, <3>1 DEF DestinationWaits
  <2>3. QED
    BY <2>1, <2>2 DEF WaitingDestinations
<1>6. WaitingTodo' /\ ConfirmedBeforeNotice'
  BY <1>0 DEF ConfirmInv, WaitingTodo, ConfirmedBeforeNotice
<1>7. Matching'
  <2> SUFFICES ASSUME NEW f \in Members(toServer')
               PROVE  /\ f.cmd = "SUBSCRIBE" => SubscribeMatches(f)'
                      /\ f.cmd = "UNSUBSCRIBE" => UnsubscribeMatches(f)'
    BY DEF Matching
  <2>1. \A e \in Destination : e # d /\ destinations'[e] # None =>
          /\ destinations[e] = destinations'[e] /\ destinations[e] # None
          /\ subscriptions'[destinations'[e]].rid = subscriptions[destinations[e]].rid
          /\ subscriptions'[destinations'[e]].rid # counter + 1
    BY <1>0, MapFacts
  <2>2. CASE f.cmd \in {"SUBSCRIBE", "UNSUBSCRIBE"} /\ f \in Members(toServer)
    <3>1. f.rid # counter + 1
      BY <1>0, <2>2 DEF BaseInv, FreshLinks
    <3>2. f.rid \in DOMAIN receipts' => f.rid \in DOMAIN receipts /\ receipts'[f.rid] = receipts[f.rid]
      BY <1>0, <3>1
    <3>3. f.cmd = "SUBSCRIBE" => SubscribeMatches(f)'
      BY <1>0, <2>1, <2>2, <3>1, <3>2 DEF ConfirmInv, Matching, SubscribeMatches
    <3>4. f.cmd = "UNSUBSCRIBE" => UnsubscribeMatches(f)'
      BY <1>0, <2>1, <2>2, <3>1, <3>2 DEF ConfirmInv, Matching, UnsubscribeMatches
    <3>5. QED
      BY <3>3, <3>4
  <2>3. CASE f = SUBSCRIBE(counter, d, counter + 1)
    <3>1. f.cmd = "SUBSCRIBE" /\ f.id = counter /\ f.dest = d /\ f.rid = counter + 1
      BY <2>3 DEF SUBSCRIBE
    <3>2. new.id = counter /\ new.dest = d
      BY DEF Notice
    <3>3. SubscribeMatches(f)'
      BY <1>0, <1>1, <2>1, <3>1, <3>2 DEF SubscribeMatches
    <3>4. QED
      BY <3>1, <3>3
  <2>4. CASE f.cmd \notin {"SUBSCRIBE", "UNSUBSCRIBE"}
    BY <2>4
  <2>5. f.cmd \in {"SUBSCRIBE", "UNSUBSCRIBE"} =>
          f \in Members(toServer) \/ f = SUBSCRIBE(counter, d, counter + 1)
    <3>1. SendCommand(SUBSCRIBE(counter, d, counter + 1), {counter, counter + 1})
      BY SubscribeFirstEffect
    <3>2. SUBSCRIBE(counter, d, counter + 1) \in Commands
      BY <1>0, FrameTypes
    <3>3. QED
      BY <3>1, <3>2, SentFrame
  <2>6. QED
    BY <2>2, <2>3, <2>4, <2>5
<1>8. QED
  BY <1>4, <1>5, <1>6, <1>7 DEF ConfirmInv

LEMMA UnsubscribeLastConfirm ==
  ASSUME BaseInv, ConfirmInv, NEW d \in Destination, NEW h \in Handler, UnsubscribeLast(d, h)
  PROVE  ConfirmInv'
<1> DEFINE new == Notice("unsubscribed", d, h, destinations[d])
<1>0. /\ counter \in Id /\ Id \subseteq Nat
      /\ destinations[d] # None /\ destinations'[d] = None
      /\ \A e \in Destination : e # d => destinations'[e] = destinations[e]
      /\ DOMAIN subscriptions' = DOMAIN subscriptions \ {destinations[d]}
      /\ \A x \in DOMAIN subscriptions' : subscriptions'[x] = subscriptions[x]
      /\ counter \notin DOMAIN receipts
      /\ DOMAIN receipts' = DOMAIN receipts \cup {counter}
      /\ receipts'[counter] = <<new>>
      /\ \A x \in DOMAIN receipts : receipts'[x] = receipts[x]
      /\ UNCHANGED <<ctx, fromServer, accepted, noticed>>
  BY UnsubscribeLastEffect, MapFacts DEF server
<1>1. Members(<<new>>) = {new} /\ ~IsSubscribed(new)
  BY DEF Members, IsSubscribed, Notice
<1>2. \A rid : IsAnswered(rid)' = IsAnswered(rid)
  BY <1>0 DEF IsAnswered
<1>3. \A e \in Destination : destinations'[e] # None =>
        /\ e # d /\ destinations'[e] = destinations[e]
        /\ subscriptions'[destinations'[e]].rid = subscriptions[destinations[e]].rid
        /\ subscriptions'[destinations'[e]].rid # counter
  BY <1>0, MapFacts
<1> HIDE DEF new
<1>4. WaitingNotices'
  BY <1>0, <1>1, <1>2 DEF ConfirmInv, WaitingNotices
<1>5. WaitingDestinations'
  BY <1>0, <1>2, <1>3 DEF ConfirmInv, WaitingDestinations, DestinationWaits
<1>6. WaitingTodo' /\ ConfirmedBeforeNotice'
  BY <1>0 DEF ConfirmInv, WaitingTodo, ConfirmedBeforeNotice
<1>7. Matching'
  <2> SUFFICES ASSUME NEW f \in Members(toServer')
               PROVE  /\ f.cmd = "SUBSCRIBE" => SubscribeMatches(f)'
                      /\ f.cmd = "UNSUBSCRIBE" => UnsubscribeMatches(f)'
    BY DEF Matching
  <2>2. CASE f.cmd \in {"SUBSCRIBE", "UNSUBSCRIBE"} /\ f \in Members(toServer)
    <3>1. f.rid # counter
      BY <1>0, <2>2 DEF BaseInv, FreshLinks
    <3>2. f.rid \in DOMAIN receipts' => f.rid \in DOMAIN receipts /\ receipts'[f.rid] = receipts[f.rid]
      BY <1>0, <3>1
    <3>3. f.cmd = "SUBSCRIBE" => SubscribeMatches(f)'
      BY <1>0, <1>3, <2>2, <3>2 DEF ConfirmInv, Matching, SubscribeMatches
    <3>4. f.cmd = "UNSUBSCRIBE" => UnsubscribeMatches(f)'
      BY <1>0, <1>3, <2>2, <3>2 DEF ConfirmInv, Matching, UnsubscribeMatches
    <3>5. QED
      BY <3>3, <3>4
  <2>3. CASE f = UNSUBSCRIBE(destinations[d], counter)
    <3>1. f.cmd = "UNSUBSCRIBE" /\ f.rid = counter
      BY <2>3 DEF UNSUBSCRIBE
    <3>2. UnsubscribeMatches(f)'
      BY <1>0, <1>1, <1>3, <3>1 DEF UnsubscribeMatches
    <3>3. QED
      BY <3>1, <3>2
  <2>4. f.cmd \in {"SUBSCRIBE", "UNSUBSCRIBE"} =>
          f \in Members(toServer) \/ f = UNSUBSCRIBE(destinations[d], counter)
    <3>1. SendCommand(UNSUBSCRIBE(destinations[d], counter), {counter})
      BY UnsubscribeLastEffect
    <3>2. UNSUBSCRIBE(destinations[d], counter) \in Commands
      BY <1>0, MapFacts, FrameTypes
    <3>3. QED
      BY <3>1, <3>2, SentFrame
  <2>5. QED
    BY <2>2, <2>3, <2>4
<1>8. QED
  BY <1>4, <1>5, <1>6, <1>7 DEF ConfirmInv

LEMMA SubscribeAgainConfirm ==
  ASSUME BaseInv, ConfirmInv, NEW d \in Destination, NEW h \in Handler, SubscribeAgain(d, h)
  PROVE  ConfirmInv'
<1> DEFINE rid == subscriptions[destinations[d]].rid
           new == Notice("subscribed", d, h, destinations[d])
<1>0. /\ destinations[d] # None /\ DOMAIN subscriptions' = DOMAIN subscriptions
      /\ \A x \in DOMAIN subscriptions : subscriptions'[x].rid = subscriptions[x].rid
      /\ UNCHANGED <<destinations, ctx, toServer, fromServer, accepted>>
      /\ new \in Notices /\ DOMAIN receipts' = DOMAIN receipts
      /\ \A x \in DOMAIN receipts : x # rid => receipts'[x] = receipts[x]
      /\ rid \in DOMAIN receipts =>
           Members(receipts'[rid]) = Members(receipts[rid]) \cup {new} /\ UNCHANGED noticed
      /\ rid \notin DOMAIN receipts => Announce(new)
  BY HandlersEffect, SubscribeAgainEffect DEF server
<1>1. /\ new.kind = "subscribed" /\ IsSubscribed(new)
      /\ new.id = destinations[d] /\ new.dest = d /\ new.h = h
  BY DEF Notice, IsSubscribed
<1>2. \A r : IsAnswered(r)' = IsAnswered(r)
  BY <1>0 DEF IsAnswered
<1>3. <<destinations[d], d>> \in accepted \/ (rid \in DOMAIN receipts /\ ~IsAnswered(rid))
  BY <1>0 DEF ConfirmInv, WaitingDestinations, DestinationWaits
<1>4. \A e \in Destination : destinations[e] # None =>
        subscriptions'[destinations'[e]].rid = subscriptions[destinations[e]].rid
  BY <1>0, MapFacts
<1>4a. rid = subscriptions[destinations[d]].rid
  OBVIOUS
<1> HIDE DEF rid, new
<1>5. WaitingNotices'
  BY <1>0, <1>1, <1>2, <1>3 DEF ConfirmInv, WaitingNotices
<1>6. WaitingDestinations'
  BY <1>0, <1>2, <1>4 DEF ConfirmInv, WaitingDestinations, DestinationWaits
<1>7. WaitingTodo'
  BY <1>0 DEF ConfirmInv, WaitingTodo
<1>8. ConfirmedBeforeNotice'
  <2>1. CASE rid \in DOMAIN receipts
    BY <1>0, <2>1 DEF ConfirmInv, ConfirmedBeforeNotice
  <2>2. CASE rid \notin DOMAIN receipts
    <3>1. <<new.id, new.dest>> \in accepted
      BY <1>1, <1>3, <2>2
    <3>2. QED
      BY <1>0, <2>2, <3>1, AnnounceConfirmed DEF ConfirmInv
  <2>3. QED
    BY <2>1, <2>2
<1>9. Matching'
  <2> SUFFICES ASSUME NEW f \in Members(toServer)
               PROVE  /\ f.cmd = "SUBSCRIBE" => SubscribeMatches(f)'
                      /\ f.cmd = "UNSUBSCRIBE" => UnsubscribeMatches(f)'
    BY <1>0 DEF Matching
  <2>1. ASSUME f.cmd = "SUBSCRIBE" PROVE SubscribeMatches(f)'
    <3>1. SubscribeMatches(f)
      BY <2>1 DEF ConfirmInv, Matching
    <3>2. f.rid = rid => new.id = f.id /\ new.dest = f.dest
      BY <1>0, <1>1, <1>4a, <3>1 DEF SubscribeMatches
    <3>3. f.rid \in DOMAIN receipts' =>
            \A n \in Members(receipts'[f.rid]) : IsSubscribed(n) => n.id = f.id /\ n.dest = f.dest
      BY <1>0, <3>1, <3>2 DEF SubscribeMatches
    <3>4. QED
      BY <1>0, <1>4, <3>1, <3>3 DEF SubscribeMatches
  <2>2. ASSUME f.cmd = "UNSUBSCRIBE" PROVE UnsubscribeMatches(f)'
    <3>1. UnsubscribeMatches(f)
      BY <2>2 DEF ConfirmInv, Matching
    <3>2. f.rid # rid
      BY <1>0, <1>4a, <3>1 DEF UnsubscribeMatches
    <3>3. QED
      BY <1>0, <1>4, <3>1, <3>2 DEF UnsubscribeMatches
  <2>3. QED
    BY <2>1, <2>2
<1>10. QED
  BY <1>5, <1>6, <1>7, <1>8, <1>9 DEF ConfirmInv

LEMMA UnsubscribeOneConfirm ==
  ASSUME BaseInv, ConfirmInv, NEW d \in Destination, NEW h \in Handler, UnsubscribeOne(d, h)
  PROVE  ConfirmInv'
<1>0. /\ destinations[d] # None /\ DOMAIN subscriptions' = DOMAIN subscriptions
      /\ \A x \in DOMAIN subscriptions : subscriptions'[x].rid = subscriptions[x].rid
      /\ UNCHANGED <<destinations, receipts, ctx, toServer, fromServer, accepted>>
      /\ Announce(Notice("unsubscribed", d, h, destinations[d]))
  BY HandlersEffect DEF server, UnsubscribeOne
<1>1. \A r : IsAnswered(r)' = IsAnswered(r)
  BY <1>0 DEF IsAnswered
<1>2. \A e \in Destination : destinations[e] # None =>
        subscriptions'[destinations'[e]].rid = subscriptions[destinations[e]].rid
  BY <1>0, MapFacts
<1>3. WaitingNotices' /\ WaitingTodo'
  BY <1>0, <1>1 DEF ConfirmInv, WaitingNotices, WaitingTodo
<1>4. WaitingDestinations'
  BY <1>0, <1>1, <1>2 DEF ConfirmInv, WaitingDestinations, DestinationWaits
<1>5. ConfirmedBeforeNotice'
  <2>1. /\ Notice("unsubscribed", d, h, destinations[d]) \in Notices
        /\ ~IsSubscribed(Notice("unsubscribed", d, h, destinations[d]))
    BY <1>0, MapFacts, FrameTypes DEF IsSubscribed, Notice
  <2>2. QED
    BY <1>0, <2>1, AnnounceConfirmed DEF ConfirmInv
<1>6. Matching'
  BY <1>0, <1>2 DEF ConfirmInv, Matching, SubscribeMatches, UnsubscribeMatches
<1>7. QED
  BY <1>3, <1>4, <1>5, <1>6 DEF ConfirmInv

LEMMA DestroyConfirm ==
  ASSUME BaseInv, ConfirmInv, Destroy
  PROVE  ConfirmInv'
<1>1. /\ destinations' = [d \in Destination |-> None] /\ receipts' = <<>>
      /\ UNCHANGED <<ctx, accepted, noticed>>
  BY DEF Destroy, Empty, server
<1>2. DOMAIN receipts' = {} /\ \A d \in Destination : destinations'[d] = None
  BY <1>1
<1>3. WaitingNotices' /\ WaitingDestinations' /\ Matching'
  BY <1>2 DEF WaitingNotices, WaitingDestinations, Matching, SubscribeMatches,
     UnsubscribeMatches
<1>4. WaitingTodo' /\ ConfirmedBeforeNotice'
  BY <1>1 DEF ConfirmInv, WaitingTodo, ConfirmedBeforeNotice
<1>5. QED
  BY <1>3, <1>4 DEF ConfirmInv

LEMMA ReceiptEndsConfirm ==
  ASSUME BaseInv, ConfirmInv, ReceiptEnds
  PROVE  ConfirmInv'
<1>1. /\ ctx.at = "receipt" /\ ctx' = Idle /\ receipts' = Drop(receipts, ctx.rid)
      /\ UNCHANGED <<destinations, subscriptions, toServer, fromServer, accepted, noticed>>
  BY DEF ReceiptEnds, server
<1>2. /\ DOMAIN receipts' = DOMAIN receipts \ {ctx.rid}
      /\ \A x \in DOMAIN receipts' : receipts'[x] = receipts[x]
  BY <1>1, DropFacts
<1>3. IsAnswered(ctx.rid) /\ \A rid : IsAnswered(rid)' => IsAnswered(rid)
  BY <1>1 DEF IsAnswered, Idle
<1>4. WaitingNotices'
  BY <1>1, <1>2, <1>3 DEF ConfirmInv, WaitingNotices
<1>5. WaitingDestinations'
  <2> SUFFICES ASSUME NEW d \in Destination, destinations[d] # None
               PROVE  DestinationWaits(d)'
    BY <1>1 DEF WaitingDestinations
  <2>1. DestinationWaits(d)
    BY DEF ConfirmInv, WaitingDestinations
  <2>2. QED
    BY <1>1, <1>2, <1>3, <2>1 DEF DestinationWaits
<1>6. WaitingTodo' /\ ConfirmedBeforeNotice'
  BY <1>1 DEF ConfirmInv, WaitingTodo, ConfirmedBeforeNotice, Idle
<1>7. Matching'
  BY <1>1, <1>2 DEF ConfirmInv, Matching, SubscribeMatches, UnsubscribeMatches
<1>8. QED
  BY <1>4, <1>5, <1>6, <1>7 DEF ConfirmInv

\* The server reads a command: what its receipt stands for becomes true.
LEMMA AnswerConfirms ==
  ASSUME BaseInv, ConfirmInv, [Next]_vars, Quiet, NEW rid \in Id,
         IsAnswered(rid)', ~IsAnswered(rid)
  PROVE  /\ rid \in DOMAIN receipts => \A n \in Members(receipts[rid]) :
              IsSubscribed(n) => <<n.id, n.dest>> \in accepted'
         /\ \A d \in Destination :
              destinations[d] # None /\ subscriptions[destinations[d]].rid = rid =>
                <<destinations[d], d>> \in accepted'
<1> DEFINE frame == Head(toServer)
<1>1. (ServerSubscribes \/ ServerUnsubscribes) /\ rid = frame.rid
  BY AnswerComes
<1>2. CASE ServerSubscribes
  <2>1. /\ toServer # <<>> /\ frame.cmd = "SUBSCRIBE"
        /\ accepted' = accepted \cup {<<frame.id, frame.dest>>}
    BY <1>2 DEF ServerSubscribes, Told
  <2>2. frame \in Members(toServer)
    BY <2>1, LinkHeads DEF BaseInv
  <2>3. SubscribeMatches(frame)
    BY <2>1, <2>2 DEF ConfirmInv, Matching
  <2> HIDE DEF frame
  <2>4. QED
    BY <1>1, <2>1, <2>3 DEF SubscribeMatches
<1>3. CASE ServerUnsubscribes
  <2>1. toServer # <<>> /\ frame.cmd = "UNSUBSCRIBE"
    BY <1>3 DEF ServerUnsubscribes, Told
  <2>2. frame \in Members(toServer)
    BY <2>1, LinkHeads DEF BaseInv
  <2>3. UnsubscribeMatches(frame)
    BY <2>1, <2>2 DEF ConfirmInv, Matching
  <2> HIDE DEF frame
  <2>4. QED
    BY <1>1, <2>3 DEF UnsubscribeMatches
<1>4. QED
  BY <1>1, <1>2, <1>3

LEMMA QuietConfirm ==
  ASSUME BaseInv, ConfirmInv, [Next]_vars, Quiet
  PROVE  ConfirmInv'
<1>1. UNCHANGED <<destinations, subscriptions, receipts>> /\ accepted \subseteq accepted'
  BY QuietMaps, ServerKept
<1>2. \A rid \in DOMAIN receipts : rid \in Id
  BY DEF BaseInv, TypeOK, MapsTyped
<1>3. WaitingNotices'
  <2> SUFFICES ASSUME NEW rid \in DOMAIN receipts, NEW n \in Members(receipts[rid]),
                      IsSubscribed(n), IsAnswered(rid)'
               PROVE  <<n.id, n.dest>> \in accepted'
    BY <1>1 DEF WaitingNotices
  <2>1. CASE IsAnswered(rid)
    BY <1>1, <2>1 DEF ConfirmInv, WaitingNotices
  <2>2. CASE ~IsAnswered(rid)
    BY <1>2, <2>2, AnswerConfirms
  <2>3. QED
    BY <2>1, <2>2
<1>4. WaitingDestinations'
  <2> SUFFICES ASSUME NEW d \in Destination, destinations[d] # None
               PROVE  DestinationWaits(d)'
    BY <1>1 DEF WaitingDestinations
  <2>1. PICK rid : rid = subscriptions[destinations[d]].rid
    OBVIOUS
  <2>2. <<destinations[d], d>> \in accepted \/ (rid \in DOMAIN receipts /\ ~IsAnswered(rid))
    BY <2>1 DEF ConfirmInv, WaitingDestinations, DestinationWaits
  <2>3. rid \in Id
    BY <2>1, MapFacts
  <2>4. <<destinations[d], d>> \in accepted' \/ (rid \in DOMAIN receipts /\ ~IsAnswered(rid)')
    BY <1>1, <2>1, <2>2, <2>3, AnswerConfirms
  <2>5. QED
    BY <1>1, <2>1, <2>4 DEF DestinationWaits
<1>5. Matching'
  <2> SUFFICES ASSUME NEW f \in Members(toServer'), Asks(f)
               PROVE  /\ f.cmd = "SUBSCRIBE" => SubscribeMatches(f)'
                      /\ f.cmd = "UNSUBSCRIBE" => UnsubscribeMatches(f)'
    BY DEF Matching, Asks
  <2>1. counter' = counter /\ counter \in Nat
    BY QuietMaps, MapFacts
  <2>2. \A d \in Destination, h \in Handler : ~SubscribeFirst(d, h) /\ ~UnsubscribeLast(d, h)
    BY <2>1 DEF SubscribeFirst, UnsubscribeLast
  <2>3. f \in Members(toServer)
    BY <2>2, AskingFrames DEF Sends
  <2>4. QED
    BY <1>1, <2>3 DEF ConfirmInv, Matching, SubscribeMatches, UnsubscribeMatches
<1>6. CASE ReceiveReceipt
  <2> DEFINE rid == Head(fromServer).rid
  <2>1. /\ fromServer # <<>> /\ Head(fromServer).cmd = "RECEIPT" /\ rid \in DOMAIN receipts
        /\ Announce(Head(receipts[rid])) /\ ctx'.todo = Tail(receipts[rid])
    BY <1>6 DEF ReceiveReceipt, Receives
  <2>2. IsAnswered(rid)
    <3>1. Head(fromServer) = RECEIPT(rid) /\ Head(fromServer) \in Members(fromServer)
      BY <2>1, LinkHeads, FrameFields DEF BaseInv
    <3>2. QED
      BY <3>1 DEF IsAnswered
  <2>3. Members(receipts[rid]) = Members(Tail(receipts[rid])) \cup {Head(receipts[rid])}
    BY <2>1, NoticeFacts
  <2> HIDE DEF rid
  <2>4. \A n \in Members(receipts[rid]) : IsSubscribed(n) => <<n.id, n.dest>> \in accepted'
    BY <1>1, <2>1, <2>2 DEF ConfirmInv, WaitingNotices
  <2>5. WaitingTodo'
    BY <2>1, <2>3, <2>4 DEF WaitingTodo
  <2>6. PICK n : n = Head(receipts[rid])
    OBVIOUS
  <2>7. IsSubscribed(n) => <<n.id, n.dest>> \in accepted'
    BY <2>3, <2>4, <2>6
  <2>8. n \in Notices /\ Announce(n)
    BY <2>1, <2>6, NoticeFacts
  <2>9. ConfirmedBeforeNotice'
    BY <1>1, <2>7, <2>8, AnnounceConfirmed DEF ConfirmInv
  <2>10. QED
    BY <1>3, <1>4, <1>5, <2>5, <2>9 DEF ConfirmInv
<1>7. CASE NextNotice
  <2>1. /\ ctx.at = "receipt" /\ ctx.todo # <<>> /\ Announce(Head(ctx.todo))
        /\ ctx' = [ctx EXCEPT !.todo = Tail(@)]
    BY <1>7 DEF NextNotice
  <2>2. ctx \in [at : {"receipt"}, rid : Id, todo : Seq(Notices)]
    BY <2>1, ContextFacts
  <2>3. /\ Members(ctx.todo) = Members(Tail(ctx.todo)) \cup {Head(ctx.todo)}
        /\ Head(ctx.todo) \in Notices /\ ctx'.todo = Tail(ctx.todo)
    BY <2>1, <2>2, TailMembers
  <2>4. \A n \in Members(ctx.todo) : IsSubscribed(n) => <<n.id, n.dest>> \in accepted'
    BY <1>1, <2>1 DEF ConfirmInv, WaitingTodo
  <2>5. WaitingTodo'
    BY <2>3, <2>4 DEF WaitingTodo
  <2>6. PICK n : n = Head(ctx.todo)
    OBVIOUS
  <2>7. IsSubscribed(n) => <<n.id, n.dest>> \in accepted'
    BY <2>3, <2>4, <2>6
  <2>8. n \in Notices /\ Announce(n)
    BY <2>1, <2>3, <2>6
  <2>9. ConfirmedBeforeNotice'
    BY <1>1, <2>7, <2>8, AnnounceConfirmed DEF ConfirmInv
  <2>10. QED
    BY <1>3, <1>4, <1>5, <2>5, <2>9 DEF ConfirmInv
<1>8. ASSUME UNCHANGED noticed, UNCHANGED ctx \/ ctx'.at # "receipt"
      PROVE  ConfirmInv'
  <2>1. ConfirmedBeforeNotice' /\ WaitingTodo'
    BY <1>1, <1>8 DEF ConfirmInv, ConfirmedBeforeNotice, WaitingTodo
  <2>2. QED
    BY <1>3, <1>4, <1>5, <2>1 DEF ConfirmInv
<1>9. CASE \/ Dispatch \/ ReceiveConnected \/ ReceiveError \/ ReceiveStray
           \/ ReceiveStrayReceipt \/ Server \/ UNCHANGED vars
  BY <1>8, <1>9 DEF Dispatch, ReceiveConnected, ReceiveError, ReceiveStray,
     ReceiveStrayReceipt, Server, ServerReads, ServerConnects, ServerSubscribes,
     ServerUnsubscribes, ServerHears, ServerDisconnects, ServerIgnores, ServerSends,
     ServerFails, ClientStays, vars
<1>10. CASE ReceiveMessage \/ MessageEnds
  BY <1>8, <1>10 DEF ReceiveMessage, MessageEnds, Idle
<1>11. CASE HandlerEnds
  <2>1. /\ ctx.at = "message" /\ UNCHANGED noticed
        /\ \E ok \in BOOLEAN : ctx' = [ctx EXCEPT !.todo = Tail(@), !.handled = @ /\ ok]
    BY <1>11 DEF HandlerEnds
  <2>2. ctx \in [at : {"message"}, mid : Mids, handled : BOOLEAN, todo : Seq(Handler)]
    BY <2>1, ContextFacts
  <2>3. ctx'.at = "message"
    BY <2>1, <2>2
  <2>4. QED
    BY <1>8, <2>1, <2>3
<1>12. QED
  BY <1>6, <1>7, <1>9, <1>10, <1>11 DEF Quiet

\* The invariant behind the notices: what waits for a receipt is about the
\* subscription the receipt confirms.
THEOREM ConfirmInvariant == Spec => []ConfirmInv
<1>1. Init => ConfirmInv
  <2> SUFFICES ASSUME Init PROVE ConfirmInv
    OBVIOUS
  <2>1. /\ destinations = [d \in Destination |-> None] /\ receipts = <<>> /\ ctx = Idle
        /\ toServer = <<Frame("CONNECT")>>
        /\ noticed = [p \in Destination \X Handler |-> Notice("none", p[1], p[2], None)]
    BY DEF Init, Empty
  <2>2. WaitingNotices /\ WaitingDestinations /\ WaitingTodo
    BY <2>1 DEF WaitingNotices, WaitingDestinations, WaitingTodo, Idle
  <2>3. Matching /\ ConfirmedBeforeNotice
    BY <2>1 DEF Matching, Members, Frame, ConfirmedBeforeNotice, Notice
  <2>4. QED
    BY <2>2, <2>3 DEF ConfirmInv
<1>2. BaseInv /\ ConfirmInv /\ [Next]_vars => ConfirmInv'
  BY StepCases, SubscribeFirstConfirm, SubscribeAgainConfirm, UnsubscribeOneConfirm,
     UnsubscribeLastConfirm, DestroyConfirm, ReceiptEndsConfirm, QuietConfirm
<1>3. QED
  BY <1>1, <1>2, BaseInvariant, PTL DEF Spec

\* Nobody is told that a handler is subscribed before the server has accepted the
\* subscription, however calls, frames, failures and destroy() interleave, for
\* any number of notices waiting for a receipt (stomp.js:100-107, 117-119).
THEOREM NoticeIsConfirmed == Spec => []ConfirmedBeforeNotice
<1>1. ConfirmInv => ConfirmedBeforeNotice
  BY DEF ConfirmInv
<1>2. QED
  BY <1>1, ConfirmInvariant, PTL
-----------------------------------------------------------------------------
(* Messages are answered as they were handled. *)

LEMMA ComingTail ==
  ASSUME NEW q \in Seq(Replies), q # <<>>, NEW o, NEW m, ComingOn(q, o, m), NEW p,
         \A mid \in Mids :
           p[mid] = o[mid] \/ (Head(q).cmd = "MESSAGE" /\ mid = Head(q).mid)
  PROVE  ComingOn(Tail(q), p, m)
<1>1. /\ Len(q) \in Nat /\ Len(q) > 0 /\ Len(Tail(q)) = Len(q) - 1 /\ Head(q) = q[1]
      /\ \A i \in 1..Len(Tail(q)) : Tail(q)[i] = q[i + 1]
  BY TailMembers
<1>2. \A i \in 1..Len(Tail(q)) : i + 1 \in 1..Len(q) /\ i + 1 # 1
  BY <1>1
<1>3. \A i \in 1..Len(q) : q[i] \in Replies
  BY ElementOfSeq
<1>4. 1 \in 1..Len(q)
  BY <1>1
<1> SUFFICES ASSUME NEW k \in 1..Len(Tail(q)), Tail(q)[k].cmd = "MESSAGE"
             PROVE  /\ Tail(q)[k].mid <= m /\ p[Tail(q)[k].mid] = "none"
                    /\ \A l \in 1..Len(Tail(q)) :
                         Tail(q)[l].cmd = "MESSAGE" /\ Tail(q)[l].mid = Tail(q)[k].mid => k = l
  BY DEF ComingOn
<1>5. PICK j \in 1..Len(q) : j = k + 1 /\ j # 1 /\ Tail(q)[k] = q[j]
  BY <1>1, <1>2
<1>6. /\ q[j].mid \in Mids /\ q[j].mid <= m /\ o[q[j].mid] = "none"
      /\ \A l \in 1..Len(q) : q[l].cmd = "MESSAGE" /\ q[l].mid = q[j].mid => j = l
  BY <1>3, <1>5, FrameFields DEF ComingOn
<1>7. p[q[j].mid] = o[q[j].mid]
  BY <1>1, <1>4, <1>5, <1>6
<1>8. \A l \in 1..Len(Tail(q)) :
        Tail(q)[l].cmd = "MESSAGE" /\ Tail(q)[l].mid = q[j].mid => k = l
  <2> TAKE l \in 1..Len(Tail(q))
  <2>1. l + 1 \in 1..Len(q) /\ Tail(q)[l] = q[l + 1]
    BY <1>1, <1>2
  <2>2. q[l + 1].cmd = "MESSAGE" /\ q[l + 1].mid = q[j].mid => j = l + 1
    BY <1>6, <2>1
  <2>3. j = l + 1 => k = l
    BY <1>5
  <2>4. QED
    BY <2>1, <2>2, <2>3
<1>9. QED
  BY <1>5, <1>6, <1>7, <1>8

LEMMA ComingAppend ==
  ASSUME NEW q \in Seq(Replies), NEW f \in Replies, NEW o, NEW m \in Nat, NEW n \in Nat,
         ComingOn(q, o, m), m <= n,
         f.cmd = "MESSAGE" => f.mid > m /\ f.mid <= n /\ o[f.mid] = "none"
  PROVE  ComingOn(Append(q, f), o, n)
<1> DEFINE p == Append(q, f)
<1>1. /\ Len(p) = Len(q) + 1 /\ p[Len(q) + 1] = f
      /\ \A i \in 1..Len(q) : p[i] = q[i]
  BY AppendMembers
<1>2. Len(q) \in Nat
  BY LenProperties
<1>3. \A i \in 1..Len(q) : q[i] \in Replies
  BY ElementOfSeq
<1>4. \A i \in 1..Len(p) : i \in 1..Len(q) \/ i = Len(q) + 1
  BY <1>1, <1>2
<1>5. Mids \subseteq Nat
  BY DEF Mids
<1> HIDE DEF p
<1> SUFFICES ASSUME NEW k \in 1..Len(p), p[k].cmd = "MESSAGE"
             PROVE  /\ p[k].mid <= n /\ o[p[k].mid] = "none"
                    /\ \A l \in 1..Len(p) :
                         p[l].cmd = "MESSAGE" /\ p[l].mid = p[k].mid => k = l
  BY DEF ComingOn, p
<1>6. CASE k \in 1..Len(q)
  <2>1. /\ p[k] = q[k] /\ q[k].mid \in Mids /\ q[k].mid <= m /\ o[q[k].mid] = "none"
        /\ \A l \in 1..Len(q) : q[l].cmd = "MESSAGE" /\ q[l].mid = q[k].mid => k = l
    BY <1>1, <1>3, <1>6, FrameFields DEF ComingOn
  <2>2. f.cmd = "MESSAGE" => f.mid # q[k].mid
    BY <1>5, <2>1
  <2>3. \A l \in 1..Len(p) : p[l].cmd = "MESSAGE" /\ p[l].mid = q[k].mid => k = l
    BY <1>1, <1>4, <2>1, <2>2
  <2>4. \A a \in Nat : a <= m => a <= n
    OBVIOUS
  <2>5. q[k].mid <= n
    BY <1>5, <2>1, <2>4
  <2>6. QED
    BY <2>1, <2>3, <2>5
<1>7. CASE k = Len(q) + 1
  <2>1. p[k] = f
    BY <1>1, <1>7
  <2>2. \A l \in 1..Len(q) : q[l].cmd = "MESSAGE" => q[l].mid # f.mid
    <3> TAKE l \in 1..Len(q)
    <3>1. q[l].cmd = "MESSAGE" => q[l].mid \in Mids /\ q[l].mid <= m
      BY <1>3, FrameFields DEF ComingOn
    <3>2. f.mid > m /\ f.mid \in Mids
      BY <2>1, FrameFields
    <3>3. \A a, b \in Nat : a <= m /\ b > m => a # b
      OBVIOUS
    <3>4. QED
      BY <1>5, <3>1, <3>2, <3>3
  <2>3. QED
    BY <1>1, <1>4, <1>7, <2>1, <2>2
<1>8. QED
  BY <1>4, <1>6, <1>7

\* The link from the server gets shorter.
LEMMA ConnectedTail ==
  ASSUME BaseInv, ConnectedFirst, fromServer # <<>>, fromServer' = Tail(fromServer)
  PROVE  \A k \in 1..Len(fromServer') : fromServer'[k].cmd # "CONNECTED"
<1>1. fromServer \in Seq(Replies)
  BY DEF BaseInv, TypeOK
<1>2. /\ Len(fromServer) \in Nat /\ Len(fromServer') = Len(fromServer) - 1
      /\ \A i \in 1..Len(fromServer') : fromServer'[i] = fromServer[i + 1]
  BY <1>1, TailMembers
<1>3. \A k \in 1..Len(fromServer') : k + 1 \in 1..Len(fromServer) /\ k + 1 # 1
  BY <1>2
<1>4. QED
  BY <1>2, <1>3 DEF ConnectedFirst

\* Steps that neither take up nor answer a message.
LEMMA AnswerKept ==
  ASSUME BaseInv, AnswerInv, [Next]_vars,
         UNCHANGED <<outcome, answered, messages>>,
         ready' = ready \/ ready' = FALSE, UNCHANGED destroyed \/ destroyed',
         UNCHANGED ctx \/ (ctx.at # "message" /\ ctx'.at # "message"),
         session' = "opening" => session = "opening" /\ UNCHANGED fromServer,
         \/ UNCHANGED fromServer
         \/ fromServer # <<>> /\ fromServer' = Tail(fromServer)
         \/ \E f \in Replies :
              f.cmd \notin {"MESSAGE", "CONNECTED"} /\ fromServer' = Append(fromServer, f)
  PROVE  AnswerInv'
<1>1. fromServer \in Seq(Replies) /\ messages \in Nat
  BY BoundAssumption DEF BaseInv, TypeOK, ServerTyped
<1>2. ComingOn(fromServer', outcome, messages) /\ ConnectedFirst'
  <2>1. CASE UNCHANGED fromServer
    BY <2>1 DEF AnswerInv, Coming, ConnectedFirst
  <2>2. CASE fromServer # <<>> /\ fromServer' = Tail(fromServer)
    <3>1. ComingOn(fromServer', outcome, messages)
      BY <1>1, <2>2, ComingTail DEF AnswerInv, Coming
    <3>2. QED
      BY <2>2, <3>1, ConnectedTail DEF AnswerInv, ConnectedFirst
  <2>3. ASSUME NEW f \in Replies, f.cmd \notin {"MESSAGE", "CONNECTED"},
               fromServer' = Append(fromServer, f)
        PROVE  ComingOn(fromServer', outcome, messages) /\ ConnectedFirst'
    <3>1. ComingOn(fromServer', outcome, messages)
      BY <1>1, <2>3, ComingAppend DEF AnswerInv, Coming
    <3>2. /\ Len(fromServer) \in Nat /\ Len(fromServer') = Len(fromServer) + 1
          /\ fromServer'[Len(fromServer) + 1] = f
          /\ \A i \in 1..Len(fromServer) : fromServer'[i] = fromServer[i]
      BY <1>1, <2>3, AppendMembers, LenProperties
    <3>3. \A k \in 1..Len(fromServer') : k \in 1..Len(fromServer) \/ k = Len(fromServer) + 1
      BY <3>2
    <3>4. QED
      BY <2>3, <3>1, <3>2, <3>3 DEF AnswerInv, ConnectedFirst
  <2>4. QED
    BY <2>1, <2>2, <2>3
<1>3. Coming' /\ InHand' /\ Untouched' /\ AnsweredRight'
  BY <1>2 DEF AnswerInv, Coming, InHand, Untouched, AnsweredRight
<1>4. Replied'
  BY DEF AnswerInv, Replied, HasReply
<1>5. Opening'
  BY DEF AnswerInv, Opening
<1>6. QED
  BY <1>2, <1>3, <1>4, <1>5 DEF AnswerInv

\* What is known of a message that arrives.
LEMMA ArrivedFacts ==
  ASSUME BaseInv, AnswerInv, fromServer # <<>>, Head(fromServer).cmd = "MESSAGE"
  PROVE  LET mid == Head(fromServer).mid
         IN /\ mid \in Mids /\ mid <= messages /\ outcome[mid] = "none" /\ mid \in Nat
            /\ <<"ACK", mid>> \notin answered /\ <<"NACK", mid>> \notin answered
            /\ session # "opening"
<1>1. fromServer \in Seq(Replies)
  BY DEF BaseInv, TypeOK
<1>2. Head(fromServer) = fromServer[1] /\ 1 \in 1..Len(fromServer)
  BY <1>1, TailMembers
<1>3. Head(fromServer).mid \in Mids /\ Mids \subseteq Nat
  BY LinkHeads, FrameFields DEF BaseInv, Mids
<1>4. QED
  BY <1>2, <1>3 DEF AnswerInv, Coming, ComingOn, AnsweredRight, Opening

LEMMA ReceiveMessageAnswer ==
  ASSUME BaseInv, AnswerInv, ReceiveMessage
  PROVE  AnswerInv'
<1> DEFINE mid == Head(fromServer).mid
<1>1. /\ ctx = Idle /\ fromServer # <<>> /\ Head(fromServer).cmd = "MESSAGE"
      /\ fromServer' = Tail(fromServer)
      /\ ctx'.at = "message" /\ ctx'.mid = mid /\ ctx'.handled = TRUE
      /\ outcome' = [outcome EXCEPT ![mid] = "ok"]
      /\ UNCHANGED <<ready, destroyed, answered, messages, session>>
  BY DEF ReceiveMessage, Receives, Consume, client, server
<1>2. /\ mid \in Mids /\ mid <= messages /\ outcome[mid] = "none" /\ mid \in Nat
      /\ <<"ACK", mid>> \notin answered /\ <<"NACK", mid>> \notin answered
      /\ session # "opening"
  BY <1>1, ArrivedFacts
<1>3. /\ fromServer \in Seq(Replies) /\ messages \in Nat /\ Mids \subseteq Nat
      /\ outcome \in [Mids -> {"none", "ok", "failed"}]
  BY BoundAssumption DEF BaseInv, TypeOK, ServerTyped, HistoryTyped, Mids
<1>4. outcome'[mid] = "ok" /\ \A x \in Mids : x # mid => outcome'[x] = outcome[x]
  BY <1>1, <1>2, <1>3
<1>5. Coming'
  BY <1>1, <1>3, <1>4, ComingTail DEF AnswerInv, Coming
<1> HIDE DEF mid
<1>6. InHand'
  BY <1>1, <1>2, <1>4 DEF InHand
<1>7. Untouched' /\ AnsweredRight'
  BY <1>1, <1>2, <1>3, <1>4 DEF AnswerInv, Untouched, AnsweredRight
<1>8. Replied'
  BY <1>1, <1>4 DEF AnswerInv, Replied, HasReply, Idle
<1>9. Opening' /\ ConnectedFirst'
  BY <1>1, <1>2, ConnectedTail DEF AnswerInv, Opening, ConnectedFirst
<1>10. QED
  BY <1>5, <1>6, <1>7, <1>8, <1>9 DEF AnswerInv

LEMMA ReceiveStrayAnswer ==
  ASSUME BaseInv, AnswerInv, ReceiveStray
  PROVE  AnswerInv'
<1> DEFINE mid == Head(fromServer).mid
<1>1. /\ ctx = Idle /\ fromServer # <<>> /\ Head(fromServer).cmd = "MESSAGE"
      /\ fromServer' = Tail(fromServer)
      /\ outcome' = [outcome EXCEPT ![mid] = "failed"]
      /\ \/ answered' = answered \cup {<<"NACK", mid>>}
         \/ (Ack = "auto" \/ ~ready \/ destroyed) /\ answered' = answered
      /\ UNCHANGED <<ctx, ready, destroyed, messages, session>>
  BY DEF ReceiveStray, Receives, Consume, client, server, Reply
<1>2. /\ mid \in Mids /\ mid <= messages /\ outcome[mid] = "none" /\ mid \in Nat
      /\ <<"ACK", mid>> \notin answered /\ <<"NACK", mid>> \notin answered
      /\ session # "opening"
  BY <1>1, ArrivedFacts
<1>3. /\ fromServer \in Seq(Replies) /\ messages \in Nat /\ Mids \subseteq Nat
      /\ outcome \in [Mids -> {"none", "ok", "failed"}]
  BY BoundAssumption DEF BaseInv, TypeOK, ServerTyped, HistoryTyped, Mids
<1>4. outcome'[mid] = "failed" /\ \A x \in Mids : x # mid => outcome'[x] = outcome[x]
  BY <1>1, <1>2, <1>3
<1>5. Coming'
  BY <1>1, <1>3, <1>4, ComingTail DEF AnswerInv, Coming
<1> HIDE DEF mid
<1>6. InHand'
  BY <1>1 DEF InHand, Idle
<1>7. Untouched' /\ AnsweredRight'
  BY <1>1, <1>2, <1>3, <1>4 DEF AnswerInv, Untouched, AnsweredRight
<1>8. Replied'
  BY <1>1, <1>4 DEF AnswerInv, Replied, HasReply, Idle
<1>9. Opening' /\ ConnectedFirst'
  BY <1>1, <1>2, ConnectedTail DEF AnswerInv, Opening, ConnectedFirst
<1>10. QED
  BY <1>5, <1>6, <1>7, <1>8, <1>9 DEF AnswerInv

\* A message in hand is neither on the link nor untouched.
LEMMA HandlerEndsAnswer ==
  ASSUME BaseInv, AnswerInv, HandlerEnds
  PROVE  AnswerInv'
<1>1. PICK ok \in BOOLEAN :
        /\ ctx' = [ctx EXCEPT !.todo = Tail(@), !.handled = @ /\ ok]
        /\ outcome' = IF ok THEN outcome ELSE [outcome EXCEPT ![ctx.mid] = "failed"]
  BY DEF HandlerEnds
<1>2. /\ ctx.at = "message"
      /\ UNCHANGED <<ready, destroyed, answered, messages, session, fromServer>>
  BY DEF HandlerEnds, client, server
<1>3. ctx \in [at : {"message"}, mid : Mids, handled : BOOLEAN, todo : Seq(Handler)]
  BY <1>2, ContextFacts
<1>4. PICK mid \in Mids : mid = ctx.mid
  BY <1>3
<1>5. /\ ctx'.at = "message" /\ ctx'.mid = mid /\ ctx'.handled = (ctx.handled /\ ok)
  BY <1>1, <1>3, <1>4
<1>6. /\ fromServer \in Seq(Replies) /\ messages \in Nat /\ Mids \subseteq Nat
      /\ outcome \in [Mids -> {"none", "ok", "failed"}]
  BY BoundAssumption DEF BaseInv, TypeOK, ServerTyped, HistoryTyped, Mids
<1>7. /\ mid <= messages /\ outcome[mid] = IF ctx.handled THEN "ok" ELSE "failed"
      /\ <<"ACK", mid>> \notin answered /\ <<"NACK", mid>> \notin answered
  BY <1>2, <1>4 DEF AnswerInv, InHand
<1>8. /\ outcome'[mid] = IF ctx.handled /\ ok THEN "ok" ELSE "failed"
      /\ \A x \in Mids : x # mid => outcome'[x] = outcome[x]
  BY <1>1, <1>4, <1>6, <1>7
<1>9. Coming'
  <2>1. \A i \in 1..Len(fromServer) : fromServer[i] \in Replies
    BY <1>6, ElementOfSeq
  <2>2. \A i \in 1..Len(fromServer) : fromServer[i].cmd = "MESSAGE" =>
          fromServer[i].mid \in Mids /\ outcome[fromServer[i].mid] = "none"
    BY <2>1, FrameFields DEF AnswerInv, Coming, ComingOn
  <2>3. outcome[mid] # "none"
    BY <1>7
  <2>4. \A i \in 1..Len(fromServer) : fromServer[i].cmd = "MESSAGE" =>
          outcome'[fromServer[i].mid] = "none"
    BY <1>8, <2>2, <2>3
  <2>5. QED
    BY <1>2, <2>4 DEF AnswerInv, Coming, ComingOn
<1>10. InHand'
  BY <1>2, <1>5, <1>7, <1>8 DEF InHand
<1>11. Untouched' /\ AnsweredRight'
  BY <1>2, <1>6, <1>7, <1>8 DEF AnswerInv, Untouched, AnsweredRight
<1>12. Replied'
  BY <1>2, <1>4, <1>5, <1>8 DEF AnswerInv, Replied, HasReply
<1>13. Opening' /\ ConnectedFirst'
  BY <1>2, <1>7, <1>8 DEF AnswerInv, Opening, ConnectedFirst
<1>14. QED
  BY <1>9, <1>10, <1>11, <1>12, <1>13 DEF AnswerInv

LEMMA MessageEndsAnswer ==
  ASSUME BaseInv, AnswerInv, MessageEnds
  PROVE  AnswerInv'
<1>1. /\ ctx.at = "message" /\ ctx' = Idle
      /\ \/ answered' = answered \cup {<<IF ctx.handled THEN "ACK" ELSE "NACK", ctx.mid>>}
         \/ (Ack = "auto" \/ ~ready \/ destroyed) /\ answered' = answered
      /\ UNCHANGED <<ready, destroyed, outcome, messages, session, fromServer>>
  BY DEF MessageEnds, Reply, client, server
<1>2. ctx \in [at : {"message"}, mid : Mids, handled : BOOLEAN, todo : Seq(Handler)]
  BY <1>1, ContextFacts
<1>3. PICK mid \in Mids : mid = ctx.mid
  BY <1>2
<1>4. outcome[mid] = IF ctx.handled THEN "ok" ELSE "failed"
  BY <1>1, <1>3 DEF AnswerInv, InHand
<1>5. Coming' /\ Untouched' /\ Opening' /\ ConnectedFirst'
  BY <1>1 DEF AnswerInv, Coming, Untouched, Opening, ConnectedFirst
<1>6. InHand'
  BY <1>1 DEF InHand, Idle
<1>7. AnsweredRight'
  <2>1. AnsweredRight
    BY DEF AnswerInv
  <2>2. PICK cmd : cmd = IF ctx.handled THEN "ACK" ELSE "NACK"
    OBVIOUS
  <2>3. answered' = answered \/ answered' = answered \cup {<<cmd, mid>>}
    BY <1>1, <1>3, <2>2
  <2>4. /\ cmd = "ACK" => outcome[mid] = "ok"
        /\ cmd = "NACK" => outcome[mid] = "failed"
    BY <1>4, <2>2
  <2>5. ASSUME NEW c \in {"ACK", "NACK"}, NEW x \in Mids, <<c, x>> \in answered'
        PROVE  <<c, x>> \in answered \/ (c = cmd /\ x = mid)
    BY <2>3, <2>5
  <2>6. QED
    BY <1>1, <2>1, <2>4, <2>5 DEF AnsweredRight
<1>8. Replied'
  BY <1>1, <1>3, <1>4 DEF AnswerInv, Replied, HasReply
<1>9. QED
  BY <1>5, <1>6, <1>7, <1>8 DEF AnswerInv

LEMMA ReceiveConnectedAnswer ==
  ASSUME BaseInv, AnswerInv, ReceiveConnected
  PROVE  AnswerInv'
<1>1. /\ ctx = Idle /\ fromServer # <<>> /\ Head(fromServer).cmd = "CONNECTED"
      /\ fromServer' = Tail(fromServer)
      /\ UNCHANGED <<ctx, outcome, answered, messages, session>>
  BY DEF ReceiveConnected, Receives, Consume, server
<1>2. fromServer \in Seq(Replies)
  BY DEF BaseInv, TypeOK
<1>3. Head(fromServer) = fromServer[1] /\ 1 \in 1..Len(fromServer)
  BY <1>1, <1>2, TailMembers
<1>4. \A mid \in Mids : outcome[mid] = "none"
  BY <1>1, <1>3 DEF AnswerInv, ConnectedFirst
<1>5. Coming'
  BY <1>1, <1>2, ComingTail DEF AnswerInv, Coming
<1>6. InHand' /\ Untouched' /\ AnsweredRight'
  BY <1>1 DEF AnswerInv, InHand, Untouched, AnsweredRight
<1>7. Replied'
  BY <1>1, <1>4 DEF Replied, HasReply
<1>8. Opening' /\ ConnectedFirst'
  BY <1>1, ConnectedTail DEF AnswerInv, Opening, ConnectedFirst
<1>9. QED
  BY <1>5, <1>6, <1>7, <1>8 DEF AnswerInv

LEMMA ServerConnectsAnswer ==
  ASSUME BaseInv, AnswerInv, ServerConnects
  PROVE  AnswerInv'
<1>1. /\ session = "opening" /\ session' = "open"
      /\ fromServer' = Append(fromServer, Frame("CONNECTED"))
      /\ UNCHANGED <<ctx, ready, destroyed, outcome, answered, messages>>
  BY DEF ServerConnects, Tell, ClientStays, client
<1>2. fromServer = <<>> /\ messages = 0
  BY <1>1 DEF AnswerInv, Opening
<1>3. \A mid \in Mids : outcome[mid] = "none"
  BY <1>2 DEF AnswerInv, Untouched, Mids
<1>4. /\ Frame("CONNECTED") \in Replies /\ Frame("CONNECTED").cmd = "CONNECTED"
      /\ fromServer \in Seq(Replies)
  BY FrameTypes DEF Frame, BaseInv, TypeOK
<1>5. Coming'
  <2>1. PICK f \in Replies : f = Frame("CONNECTED") /\ f.cmd = "CONNECTED"
    BY <1>4
  <2>2. messages \in Nat /\ messages <= messages
    BY <1>2
  <2>3. ComingOn(Append(fromServer, f), outcome, messages)
    BY <1>4, <2>1, <2>2, ComingAppend DEF AnswerInv, Coming
  <2>4. QED
    BY <1>1, <2>1, <2>3 DEF Coming
<1>6. Len(fromServer') = 1
  BY <1>1, <1>2
<1>7. Opening' /\ ConnectedFirst'
  BY <1>1, <1>3, <1>6 DEF Opening, ConnectedFirst
<1>8. InHand' /\ Untouched' /\ AnsweredRight' /\ Replied'
  BY <1>1 DEF AnswerInv, InHand, Untouched, AnsweredRight, Replied, HasReply
<1>9. QED
  BY <1>5, <1>7, <1>8 DEF AnswerInv

LEMMA ServerSendsAnswer ==
  ASSUME BaseInv, AnswerInv, ServerSends
  PROVE  AnswerInv'
<1>1. /\ session = "open" /\ messages < MaxMessages /\ messages' = messages + 1
      /\ UNCHANGED <<session, ctx, ready, destroyed, outcome, answered>>
  BY DEF ServerSends, ClientStays, client
<1>2. PICK sub \in serverSubs : fromServer' = Append(fromServer, MESSAGE(sub[1], messages + 1))
  BY DEF ServerSends, Tell
<1>3. PICK f : f = MESSAGE(sub[1], messages + 1)
  OBVIOUS
<1>4. /\ fromServer \in Seq(Replies) /\ messages \in Nat /\ Mids \subseteq Nat
      /\ messages + 1 \in Mids
  BY <1>1, BoundAssumption DEF BaseInv, TypeOK, ServerTyped, Mids
<1>5. sub[1] \in Id
  BY DEF BaseInv, TypeOK, ServerTyped
<1>6. f \in Replies /\ f.cmd = "MESSAGE" /\ f.mid = messages + 1
  BY <1>3, <1>4, <1>5, FrameTypes DEF MESSAGE
<1>7. outcome[f.mid] = "none"
  BY <1>4, <1>6 DEF AnswerInv, Untouched
<1>8. messages + 1 > messages /\ messages <= messages + 1 /\ messages + 1 \in Nat
  BY <1>4
<1>9. Coming'
  <2>1. ComingOn(Append(fromServer, f), outcome, messages + 1)
    BY <1>4, <1>6, <1>7, <1>8, ComingAppend DEF AnswerInv, Coming
  <2>2. QED
    BY <1>1, <1>2, <1>3, <2>1 DEF Coming
<1>10. ConnectedFirst'
  <2>1. /\ Len(fromServer) \in Nat /\ Len(fromServer') = Len(fromServer) + 1
        /\ fromServer'[Len(fromServer) + 1] = f
        /\ \A i \in 1..Len(fromServer) : fromServer'[i] = fromServer[i]
    BY <1>2, <1>3, <1>4, <1>6, AppendMembers, LenProperties
  <2>2. \A k \in 1..Len(fromServer') : k \in 1..Len(fromServer) \/ k = Len(fromServer) + 1
    BY <2>1
  <2>3. QED
    BY <1>1, <1>6, <2>1, <2>2 DEF AnswerInv, ConnectedFirst
<1>11. Untouched'
  BY <1>1, <1>4 DEF AnswerInv, Untouched
<1>12. InHand'
  <2>1. ctx.at = "message" => ctx.mid \in Mids
    BY ContextFacts
  <2>2. ctx.at = "message" => ctx.mid <= messages
    BY DEF AnswerInv, InHand
  <2>3. \A a \in Nat : a <= messages => a <= messages + 1
    BY <1>4
  <2>4. ctx.at = "message" => ctx.mid <= messages'
    BY <1>1, <1>4, <2>1, <2>2, <2>3
  <2>5. QED
    BY <1>1, <2>4 DEF AnswerInv, InHand
<1>13. AnsweredRight' /\ Replied' /\ Opening'
  BY <1>1 DEF AnswerInv, AnsweredRight, Replied, HasReply, Opening
<1>14. QED
  BY <1>9, <1>10, <1>11, <1>12, <1>13 DEF AnswerInv

LEMMA NextAnswer ==
  ASSUME BaseInv, AnswerInv, [Next]_vars
  PROVE  AnswerInv'
<1>1. CASE App \/ UNCHANGED vars
  <2>1. /\ UNCHANGED <<outcome, answered, messages, ctx, session, fromServer>>
        /\ ready' = ready \/ ready' = FALSE
        /\ UNCHANGED destroyed \/ destroyed'
    BY <1>1 DEF App, SubscribeFirst, SubscribeAgain, UnsubscribeOne, UnsubscribeLast,
       Dispatch, Destroy, vars, client, server
  <2>2. QED
    BY <2>1, AnswerKept DEF AnswerInv, Opening
<1>2. CASE ReceiveError \/ ReceiveStrayReceipt \/ ReceiveReceipt
  <2>1. /\ UNCHANGED <<outcome, answered, messages, session, destroyed>>
        /\ ready' = ready \/ ready' = FALSE
        /\ ctx = Idle /\ (UNCHANGED ctx \/ ctx'.at = "receipt")
        /\ fromServer # <<>> /\ fromServer' = Tail(fromServer)
    BY <1>2 DEF ReceiveError, ReceiveStrayReceipt, ReceiveReceipt, Receives, Consume, client, server
  <2>2. session # "opening"
    BY <2>1 DEF AnswerInv, Opening
  <2>3. QED
    BY <2>1, <2>2, AnswerKept DEF Idle
<1>3. CASE NextNotice \/ ReceiptEnds
  <2>1. /\ UNCHANGED <<outcome, answered, messages, session, ready, destroyed, fromServer>>
        /\ ctx.at = "receipt" /\ (ctx' = Idle \/ ctx' = [ctx EXCEPT !.todo = Tail(@)])
    BY <1>3 DEF NextNotice, ReceiptEnds, client, server
  <2>2. ctx \in [at : {"receipt"}, rid : Id, todo : Seq(Notices)]
    BY <2>1, ContextFacts
  <2>3. ctx'.at # "message"
    BY <2>1, <2>2 DEF Idle
  <2>4. QED
    BY <2>1, <2>3, AnswerKept
<1>4. CASE ServerHears \/ ServerDisconnects \/ ServerIgnores
  <2>1. /\ UNCHANGED <<outcome, answered, messages, ready, destroyed, fromServer, ctx>>
        /\ session' = "opening" => session = "opening"
    BY <1>4 DEF ServerHears, ServerDisconnects, ServerIgnores, ClientStays, client, server
  <2>2. QED
    BY <2>1, AnswerKept
<1>5. CASE ServerSubscribes \/ ServerUnsubscribes
  <2>1. /\ UNCHANGED <<outcome, answered, messages, ready, destroyed, ctx>> /\ session' # "opening"
        /\ toServer # <<>> /\ Head(toServer).cmd \in {"SUBSCRIBE", "UNSUBSCRIBE"}
        /\ fromServer' = Append(fromServer, RECEIPT(Head(toServer).rid))
    BY <1>5 DEF ServerSubscribes, ServerUnsubscribes, Told, Tell, ClientStays, client
  <2>2. RECEIPT(Head(toServer).rid) \in Replies /\ RECEIPT(Head(toServer).rid).cmd = "RECEIPT"
    BY <2>1, LinkHeads, FrameFields, FrameTypes DEF BaseInv, RECEIPT
  <2>3. QED
    BY <2>1, <2>2, AnswerKept
<1>6. CASE ServerFails
  <2>1. /\ UNCHANGED <<outcome, answered, messages, ready, destroyed, ctx>> /\ session' = "closed"
        /\ fromServer' = Append(fromServer, Frame("ERROR"))
    BY <1>6 DEF ServerFails, Tell, ClientStays, client
  <2>2. Frame("ERROR") \in Replies /\ Frame("ERROR").cmd = "ERROR"
    BY FrameTypes DEF Frame
  <2>3. QED
    BY <2>1, <2>2, AnswerKept
<1>7. QED
  BY <1>1, <1>2, <1>3, <1>4, <1>5, <1>6, ReceiveMessageAnswer, ReceiveStrayAnswer,
     HandlerEndsAnswer, MessageEndsAnswer, ReceiveConnectedAnswer, ServerConnectsAnswer,
     ServerSendsAnswer DEF Next, Client, Server, ServerReads

\* The invariant behind the answers: each message is on the link, in hand, or
\* done with, and the connection opens before the first of them.
THEOREM AnswerInvariant == Spec => []AnswerInv
<1>1. Init => AnswerInv
  <2> SUFFICES ASSUME Init PROVE AnswerInv
    OBVIOUS
  <2>1. /\ ctx = Idle /\ fromServer = <<>> /\ messages = 0 /\ answered = {} /\ ready = FALSE
        /\ outcome = [mid \in Mids |-> "none"]
    BY DEF Init
  <2>2. Coming /\ InHand
    BY <2>1 DEF Coming, ComingOn, InHand, Idle
  <2>3. Untouched /\ AnsweredRight /\ Replied
    BY <2>1 DEF Untouched, AnsweredRight, Replied
  <2>4. Opening /\ ConnectedFirst
    BY <2>1 DEF Opening, ConnectedFirst
  <2>5. QED
    BY <2>2, <2>3, <2>4 DEF AnswerInv
<1>2. BaseInv /\ AnswerInv /\ [Next]_vars => AnswerInv'
  BY NextAnswer
<1>3. QED
  BY <1>1, <1>2, BaseInvariant, PTL DEF Spec

\* No failed message is acknowledged, none is answered both ways, and on a
\* connection that is up each message the client has finished with is answered, unless
\* the bridge was destroyed, whatever handlers throw, call or destroy (stomp.js:256-271).
THEOREM MessagesAnswered == Spec => []AnsweredAsHandled
<1>1. AnswerInv => AnsweredAsHandled
  <2> SUFFICES ASSUME AnswerInv, NEW mid \in Mids
               PROVE  /\ <<"ACK", mid>> \in answered => outcome[mid] = "ok"
                      /\ <<"NACK", mid>> \in answered => outcome[mid] = "failed"
                      /\ Ack # "auto" /\ ready /\ ~destroyed /\ ctx = Idle => HasReply(mid)
    BY DEF AnsweredAsHandled, HasReply
  <2>1. ctx = Idle => ctx.at # "message"
    BY DEF Idle
  <2>2. QED
    BY <2>1 DEF AnswerInv, AnsweredRight, Replied
<1>2. QED
  BY <1>1, AnswerInvariant, PTL
-----------------------------------------------------------------------------
(* The client and the server agree about the subscriptions. *)

\* The server closes a session for good.
LEMMA SessionStep ==
  ASSUME BaseInv, [Next]_vars
  PROVE  \/ UNCHANGED session
         \/ ServerConnects /\ session = "opening" /\ session' = "open"
         \/ session' = "closed" /\ serverSubs' = {} /\ UNCHANGED destroyed
<1>1. CASE App
  BY <1>1 DEF App, SubscribeFirst, SubscribeAgain, UnsubscribeOne, UnsubscribeLast,
     Dispatch, Destroy, server
<1>2. CASE Client
  BY <1>2 DEF Client, ReceiveConnected, ReceiveError, ReceiveMessage, ReceiveStray,
     HandlerEnds, MessageEnds, ReceiveReceipt, ReceiveStrayReceipt, NextNotice,
     ReceiptEnds, server
<1>3. CASE Server
  BY <1>3 DEF Server, ServerReads, ServerConnects, ServerSubscribes, ServerUnsubscribes,
     ServerHears, ServerDisconnects, ServerIgnores, ServerSends, ServerFails, ClientStays,
     client, server
<1>4. QED
  BY <1>1, <1>2, <1>3 DEF Next, vars, server

\* The bridge becomes ready when CONNECTED arrives; it stops being ready when it
\* is destroyed or after an ERROR.
LEMMA ReadyStep ==
  ASSUME BaseInv, [Next]_vars
  PROVE  \/ UNCHANGED ready
         \/ ReceiveConnected /\ ready' = TRUE
         \/ Destroy
         \/ ReceiveError
<1>1. CASE App
  BY <1>1 DEF App, SubscribeFirst, SubscribeAgain, UnsubscribeOne, UnsubscribeLast,
     Dispatch, client
<1>2. CASE Client
  BY <1>2 DEF Client, ReceiveConnected, ReceiveMessage, ReceiveStray,
     HandlerEnds, MessageEnds, ReceiveReceipt, ReceiveStrayReceipt, NextNotice,
     ReceiptEnds, client
<1>3. CASE Server
  BY <1>3 DEF Server, ServerReads, ServerConnects, ServerSubscribes, ServerUnsubscribes,
     ServerHears, ServerDisconnects, ServerIgnores, ServerSends, ServerFails, ClientStays,
     client
<1>4. QED
  BY <1>1, <1>2, <1>3 DEF Next, vars, client

\* Who changes what the server holds.
LEMMA HeldStep ==
  ASSUME BaseInv, [Next]_vars
  PROVE  serverSubs' \subseteq serverSubs \/ ServerSubscribes
<1>1. CASE App
  BY <1>1 DEF App, SubscribeFirst, SubscribeAgain, UnsubscribeOne, UnsubscribeLast,
     Dispatch, Destroy, server
<1>2. CASE Client
  BY <1>2 DEF Client, ReceiveConnected, ReceiveError, ReceiveMessage, ReceiveStray,
     HandlerEnds, MessageEnds, ReceiveReceipt, ReceiveStrayReceipt, NextNotice,
     ReceiptEnds, server
<1>3. CASE Server
  BY <1>3 DEF Server, ServerReads, ServerConnects, ServerUnsubscribes,
     ServerHears, ServerDisconnects, ServerIgnores, ServerSends, ServerFails, server
<1>4. QED
  BY <1>1, <1>2, <1>3 DEF Next, vars, server

\* A destination gets a subscription whose id is lost when nothing is sent.
LEMMA LostStep ==
  ASSUME BaseInv, [Next]_vars
  PROVE  /\ unsent \subseteq unsent'
         /\ \A d \in Destination : destinations'[d] # None =>
              destinations'[d] = destinations[d] \/ ready \/ destinations'[d] \in unsent'
<1>1. ASSUME NEW d \in Destination, NEW h \in Handler, SubscribeFirst(d, h)
      PROVE  /\ unsent \subseteq unsent'
             /\ \A e \in Destination : destinations'[e] # None =>
                  destinations'[e] = destinations[e] \/ ready \/ destinations'[e] \in unsent'
  <2>1. /\ destinations'[d] = counter
        /\ \A e \in Destination : e # d => destinations'[e] = destinations[e]
        /\ SendCommand(SUBSCRIBE(counter, d, counter + 1), {counter, counter + 1})
    BY <1>1, SubscribeFirstEffect
  <2>2. unsent \subseteq unsent' /\ (ready \/ counter \in unsent')
    BY <2>1 DEF SendCommand
  <2>3. QED
    BY <2>1, <2>2
<1>2. ASSUME NEW d \in Destination, NEW h \in Handler, UnsubscribeLast(d, h)
      PROVE  /\ unsent \subseteq unsent'
             /\ \A e \in Destination : destinations'[e] # None =>
                  destinations'[e] = destinations[e] \/ ready \/ destinations'[e] \in unsent'
  <2>1. /\ destinations'[d] = None
        /\ \A e \in Destination : e # d => destinations'[e] = destinations[e]
        /\ SendCommand(UNSUBSCRIBE(destinations[d], counter), {counter})
    BY <1>2, UnsubscribeLastEffect
  <2>2. unsent \subseteq unsent'
    BY <2>1 DEF SendCommand
  <2>3. QED
    BY <2>1, <2>2
<1>3. CASE \E d \in Destination, h \in Handler : SubscribeAgain(d, h) \/ UnsubscribeOne(d, h)
  BY <1>3 DEF SubscribeAgain, UnsubscribeOne
<1>4. CASE Destroy
  BY <1>4 DEF Destroy
<1>5. CASE Quiet \/ ReceiptEnds
  <2>1. UNCHANGED destinations
    BY <1>5, QuietMaps DEF ReceiptEnds
  <2>2. unsent \subseteq unsent'
    <3>1. CASE Dispatch
      BY <3>1 DEF Dispatch, SendCommand
    <3>2. CASE Server
      BY <3>2 DEF Server, ServerReads, ServerConnects, ServerSubscribes, ServerUnsubscribes,
         ServerHears, ServerDisconnects, ServerIgnores, ServerSends, ServerFails, ClientStays
    <3>3. CASE \/ ReceiveConnected \/ ReceiveError \/ ReceiveMessage \/ ReceiveStray
               \/ HandlerEnds \/ MessageEnds \/ ReceiveReceipt \/ ReceiveStrayReceipt
               \/ NextNotice \/ ReceiptEnds \/ UNCHANGED vars
      BY <3>3 DEF ReceiveConnected, ReceiveError, ReceiveMessage, ReceiveStray,
         HandlerEnds, MessageEnds, ReceiveReceipt, ReceiveStrayReceipt, NextNotice,
         ReceiptEnds, vars
    <3>4. QED
      BY <1>5, <3>1, <3>2, <3>3 DEF Quiet
  <2>3. QED
    BY <2>1, <2>2
<1>6. QED
  BY <1>1, <1>2, <1>3, <1>4, <1>5, StepCases

LEMMA DestroyedStep ==
  ASSUME BaseInv, [Next]_vars
  PROVE  UNCHANGED destroyed \/ (Destroy /\ destroyed')
<1>1. CASE \E d \in Destination, h \in Handler :
             \/ SubscribeFirst(d, h) \/ SubscribeAgain(d, h)
             \/ UnsubscribeOne(d, h) \/ UnsubscribeLast(d, h)
  BY <1>1 DEF SubscribeFirst, SubscribeAgain, UnsubscribeOne, UnsubscribeLast
<1>2. CASE Destroy \/ ReceiptEnds
  BY <1>2 DEF Destroy, ReceiptEnds
<1>3. QED
  BY <1>1, <1>2, StepCases, QuietMaps

LEMMA PhasesKept ==
  ASSUME BaseInv, Phases, [Next]_vars
  PROVE  Phases'
<1>1. ASSUME session' = "opening"
      PROVE  /\ ~ready' /\ toServer' = <<Frame("CONNECT")>> /\ fromServer' = <<>>
             /\ \A d \in Destination : destinations'[d] # None => destinations'[d] \in unsent'
  <2>1. /\ session = "opening" /\ ~ready /\ toServer = <<Frame("CONNECT")>> /\ fromServer = <<>>
        /\ \A d \in Destination : destinations[d] # None => destinations[d] \in unsent
    BY <1>1, SessionStep DEF Phases
  <2>2. ~ready'
    BY <2>1, ReadyStep DEF ReceiveConnected, ReceiveError, Receives, Destroy
  <2>3. ~Server \/ UNCHANGED <<toServer, fromServer>>
    BY <1>1, <2>1 DEF Server, ServerReads, ServerConnects, ServerSubscribes,
       ServerUnsubscribes, ServerHears, ServerDisconnects, ServerIgnores, ServerSends,
       ServerFails
  <2>4. UNCHANGED toServer
    BY <2>1, <2>3, ToServerStep DEF CommandSent, Server
  <2>5. UNCHANGED fromServer
    BY <2>1, <2>3, FromServerStep DEF ReplySent
  <2>6. \A d \in Destination : destinations'[d] # None => destinations'[d] \in unsent'
    BY <2>1, LostStep
  <2>7. QED
    BY <2>1, <2>2, <2>4, <2>5, <2>6
<1>2. session' # "open" => serverSubs' = {}
  BY SessionStep, HeldStep DEF Phases, ServerSubscribes
<1>3. ASSUME session' = "open", ~destroyed', ~ready'
      PROVE  serverSubs' = {} /\ \A f \in Members(toServer') : f.cmd # "SUBSCRIBE"
  <2>1. CASE ServerConnects
    <3>1. session = "opening" /\ UNCHANGED serverSubs /\ toServer' = Tail(toServer)
      BY <2>1 DEF ServerConnects, Told
    <3>2. serverSubs = {} /\ toServer = <<Frame("CONNECT")>>
      BY <3>1 DEF Phases
    <3>3. toServer' = <<>>
      BY <3>1, <3>2
    <3>4. QED
      BY <3>1, <3>2, <3>3, EmptyMembers
  <2>2. CASE session = "open"
    <3>1. ~destroyed
      BY <1>3, DestroyedStep
    <3>2. ~ready
      <4>1. CASE ReceiveError
        <5>1. fromServer # <<>> /\ Head(fromServer).cmd = "ERROR"
          BY <4>1 DEF ReceiveError, Receives
        <5>2. Head(fromServer) \in Members(fromServer)
          BY <5>1, LinkHeads DEF BaseInv
        <5>3. QED
          BY <2>2, <5>1, <5>2 DEF Phases
      <4>2. CASE Destroy
        BY <1>3, <4>2 DEF Destroy
      <4>3. QED
        BY <1>3, <4>1, <4>2, ReadyStep
    <3>3. serverSubs = {} /\ \A f \in Members(toServer) : f.cmd # "SUBSCRIBE"
      BY <2>2, <3>1, <3>2 DEF Phases
    <3>4. ~ServerSubscribes
      BY <3>3, LinkHeads DEF ServerSubscribes, Told, BaseInv
    <3>5. ASSUME NEW f \in Members(toServer'), f.cmd = "SUBSCRIBE"
          PROVE  f \in Members(toServer)
      BY <3>2, <3>5, AskingFrames DEF Asks
    <3>6. QED
      BY <3>3, <3>4, <3>5, HeldStep
  <2>3. QED
    BY <1>3, <2>1, <2>2, SessionStep
<1>4. ASSUME NEW f \in Members(fromServer'), f.cmd = "ERROR"
      PROVE  session' = "closed"
  <2>0. fromServer \in Seq(Replies)
    BY DEF BaseInv, TypeOK
  <2>1. ASSUME f \in Members(fromServer)
        PROVE  session' = "closed"
    BY <1>4, <2>1, SessionStep DEF Phases
  <2>2. CASE fromServer # <<>> /\ fromServer' = Tail(fromServer)
    BY <2>0, <2>1, <2>2, TailMembers
  <2>3. CASE ReplySent
    <3>1. PICK g \in Replies : /\ fromServer' = Append(fromServer, g)
                               /\ g.cmd = "ERROR" => ServerFails
      BY <2>3 DEF ReplySent
    <3>2. f \in Members(fromServer) \/ f = g
      BY <2>0, <3>1, AppendMembers
    <3>3. QED
      BY <1>4, <2>1, <3>1, <3>2 DEF ServerFails
  <2>4. QED
    BY <2>1, <2>2, <2>3, FromServerStep
<1>5. QED
  BY <1>1, <1>2, <1>3, <1>4 DEF Phases
\* The first command leaves the link: the others move up by one place.
LEMMA LinkTail ==
  ASSUME NEW q \in Seq(Commands), q # <<>>
  PROVE  LET p == Tail(q)
         IN /\ p \in Seq(Commands) /\ Len(q) \in Nat /\ Len(p) = Len(q) - 1 /\ Len(p) \in Nat
            /\ q[1] = Head(q)
            /\ \A k \in 1..Len(p) : p[k] = q[k + 1] /\ k + 1 \in 2..Len(q)
            /\ \A k \in 2..Len(q) : p[k - 1] = q[k] /\ k - 1 \in 1..Len(p)
<1> DEFINE p == Tail(q)
<1>1. /\ p \in Seq(Commands) /\ Len(q) \in Nat /\ Len(q) > 0 /\ Len(p) = Len(q) - 1
      /\ Head(q) = q[1] /\ \A i \in 1..Len(p) : p[i] = q[i + 1]
  BY TailMembers
<1> HIDE DEF p
<1>2. /\ \A k \in 1..Len(p) : k + 1 \in 2..Len(q)
      /\ \A k \in 2..Len(q) : k - 1 \in 1..Len(p) /\ (k - 1) + 1 = k
  BY <1>1
<1>3. \A k \in 2..Len(q) : p[k - 1] = q[k]
  <2> TAKE k \in 2..Len(q)
  <2>1. PICK i \in 1..Len(p) : i = k - 1 /\ i + 1 = k
    BY <1>2
  <2>2. QED
    BY <1>1, <2>1
<1>4. QED
  BY <1>1, <1>2, <1>3 DEF p

LEMMA TailAt ==
  ASSUME NEW q \in Seq(Commands), q # <<>>
  PROVE  LET p == Tail(q)
         IN /\ Len(q) \in Nat /\ Len(p) + 1 = Len(q)
            /\ 1 \in 1..Len(q) /\ q[1] = Head(q)
            /\ \A k \in 1..Len(p) : k + 1 \in 1..Len(q) /\ k \in Nat /\ k + 1 # 1 /\ 1 < k + 1
            /\ \A k \in 1..Len(p) : \A id, d :
                 /\ SubscribeAt(p, k, id, d) <=> SubscribeAt(q, k + 1, id, d)
                 /\ UnsubscribeAt(p, k, id) <=> UnsubscribeAt(q, k + 1, id)
            /\ \A k \in 1..Len(q) : \A id, d : k # 1 =>
                 /\ k - 1 \in 1..Len(p)
                 /\ SubscribeAt(q, k, id, d) => SubscribeAt(p, k - 1, id, d)
                 /\ UnsubscribeAt(q, k, id) => UnsubscribeAt(p, k - 1, id)
            /\ \A l, k \in Nat : \A id : Ended(q, id, l + 1, k + 1) => Ended(p, id, l, k)
            /\ \A k \in Nat : \A id :
                 Ended(q, id, 0, k + 1) /\ ~UnsubscribeAt(q, 1, id) => Ended(p, id, 0, k)
<1> DEFINE p == Tail(q)
<1>1. /\ Len(q) \in Nat /\ Len(p) = Len(q) - 1 /\ Len(p) \in Nat /\ q[1] = Head(q)
      /\ \A k \in 1..Len(p) : p[k] = q[k + 1] /\ k + 1 \in 2..Len(q)
      /\ \A k \in 2..Len(q) : p[k - 1] = q[k] /\ k - 1 \in 1..Len(p)
  BY LinkTail
<1> HIDE DEF p
<1>2. /\ Len(p) + 1 = Len(q) /\ 1 \in 1..Len(q)
      /\ \A k \in 1..Len(p) : k + 1 \in 1..Len(q) /\ k \in Nat /\ k + 1 # 1 /\ 1 < k + 1
      /\ \A k \in 1..Len(q) : k # 1 => k \in 2..Len(q)
  BY <1>1
<1>3. \A k \in 1..Len(p) : \A id, d :
        /\ SubscribeAt(p, k, id, d) <=> SubscribeAt(q, k + 1, id, d)
        /\ UnsubscribeAt(p, k, id) <=> UnsubscribeAt(q, k + 1, id)
  BY <1>1 DEF SubscribeAt, UnsubscribeAt
<1>4. \A k \in 1..Len(q) : \A id, d : k # 1 =>
        /\ k - 1 \in 1..Len(p)
        /\ SubscribeAt(q, k, id, d) => SubscribeAt(p, k - 1, id, d)
        /\ UnsubscribeAt(q, k, id) => UnsubscribeAt(p, k - 1, id)
  BY <1>1, <1>2 DEF SubscribeAt, UnsubscribeAt
<1>5. ASSUME NEW l \in Nat, NEW k \in Nat, NEW id, Ended(q, id, l + 1, k + 1)
      PROVE  Ended(p, id, l, k)
  <2>1. PICK m \in 1..Len(q) : l + 1 < m /\ m < k + 1 /\ UnsubscribeAt(q, m, id)
    BY <1>5 DEF Ended
  <2>2. m # 1 /\ l < m - 1 /\ m - 1 < k
    BY <1>1, <2>1
  <2>3. QED
    BY <1>4, <2>1, <2>2 DEF Ended
<1>6. ASSUME NEW k \in Nat, NEW id, Ended(q, id, 0, k + 1), ~UnsubscribeAt(q, 1, id)
      PROVE  Ended(p, id, 0, k)
  <2>1. PICK m \in 1..Len(q) : m < k + 1 /\ UnsubscribeAt(q, m, id)
    BY <1>6 DEF Ended
  <2>2. m # 1 /\ 0 < m - 1 /\ m - 1 < k
    BY <1>1, <1>6, <2>1
  <2>3. QED
    BY <1>4, <2>1, <2>2 DEF Ended
<1>7. QED
  BY <1>1, <1>2, <1>3, <1>4, <1>5, <1>6 DEF p

\* The order of what is left on the link stays.
LEMMA TailOrder ==
  ASSUME NEW q \in Seq(Commands), q # <<>>, NEW dests
  PROVE  /\ EndsSent(q) => EndsSent(Tail(q))
         /\ EndsForgotten(q, dests) => EndsForgotten(Tail(q), dests)
<1> DEFINE p == Tail(q)
<1>1. /\ Len(q) \in Nat /\ Len(p) + 1 = Len(q)
      /\ \A k \in 1..Len(p) : k + 1 \in 1..Len(q) /\ k \in Nat
      /\ \A k \in 1..Len(p) : \A id, d : SubscribeAt(p, k, id, d) <=> SubscribeAt(q, k + 1, id, d)
      /\ \A l, k \in Nat : \A id : Ended(q, id, l + 1, k + 1) => Ended(p, id, l, k)
  BY TailAt
<1>2. Len(p) \in Nat
  BY LinkTail
<1> HIDE DEF p
<1>3. EndsSent(q) => EndsSent(p)
  <2> SUFFICES ASSUME EndsSent(q), NEW k \in 1..Len(p), NEW l \in 1..Len(p), NEW d \in Destination,
                      NEW j \in Id, NEW i \in Id, l < k,
                      SubscribeAt(p, k, j, d), SubscribeAt(p, l, i, d)
               PROVE  Ended(p, i, l, k)
    BY DEF EndsSent
  <2>1. l + 1 < k + 1
    BY <1>1
  <2>2. Ended(q, i, l + 1, k + 1)
    BY <1>1, <2>1 DEF EndsSent
  <2>3. QED
    BY <1>1, <2>2
<1>4. EndsForgotten(q, dests) => EndsForgotten(p, dests)
  <2> SUFFICES ASSUME EndsForgotten(q, dests), NEW k \in 1..Len(p), NEW d \in Destination,
                      NEW j \in Id, SubscribeAt(p, k, j, d), dests[d] # j
               PROVE  Ended(p, j, k, Len(p) + 1)
    BY DEF EndsForgotten
  <2>1. Ended(q, j, k + 1, Len(q) + 1)
    BY <1>1 DEF EndsForgotten
  <2>2. Len(q) = Len(p) + 1 /\ Len(p) + 1 \in Nat
    BY <1>1, <1>2
  <2>3. Ended(q, j, k + 1, (Len(p) + 1) + 1)
    BY <2>1, <2>2
  <2>4. QED
    BY <1>1, <2>2, <2>3
<1>5. QED
  BY <1>3, <1>4 DEF p

\* The server reads a command that is neither SUBSCRIBE nor UNSUBSCRIBE.
LEMMA PlainTail ==
  ASSUME NEW q \in Seq(Commands), q # <<>>, ~Asks(Head(q)),
         NEW subs, NEW dests, NEW lost
  PROVE  /\ EndsHeld(q, subs) => EndsHeld(Tail(q), subs)
         /\ Known(q, subs, dests, lost) => Known(Tail(q), subs, dests, lost)
         /\ Leftover(q, subs, dests) => Leftover(Tail(q), subs, dests)
<1> DEFINE p == Tail(q)
<1>1. /\ Len(q) \in Nat /\ 1 \in 1..Len(q) /\ q[1] = Head(q)
      /\ \A k \in 1..Len(p) : k + 1 \in 1..Len(q) /\ k \in Nat
      /\ \A k \in 1..Len(p) : \A i, e :
           /\ SubscribeAt(p, k, i, e) <=> SubscribeAt(q, k + 1, i, e)
           /\ UnsubscribeAt(p, k, i) <=> UnsubscribeAt(q, k + 1, i)
      /\ \A k \in 1..Len(q) : \A i, e : k # 1 =>
           /\ k - 1 \in 1..Len(p)
           /\ SubscribeAt(q, k, i, e) => SubscribeAt(p, k - 1, i, e)
           /\ UnsubscribeAt(q, k, i) => UnsubscribeAt(p, k - 1, i)
      /\ \A k \in Nat : \A i : Ended(q, i, 0, k + 1) /\ ~UnsubscribeAt(q, 1, i) => Ended(p, i, 0, k)
  BY TailAt
<1> HIDE DEF p
<1>2. \A i, e : ~SubscribeAt(q, 1, i, e) /\ ~UnsubscribeAt(q, 1, i)
  BY <1>1 DEF Asks, SubscribeAt, UnsubscribeAt
<1>3. /\ \A k \in 1..Len(q) : \A i, e : SubscribeAt(q, k, i, e) =>
           \E m \in 1..Len(p) : SubscribeAt(p, m, i, e)
      /\ \A k \in 1..Len(q) : \A i : UnsubscribeAt(q, k, i) =>
           \E m \in 1..Len(p) : UnsubscribeAt(p, m, i)
  BY <1>1, <1>2
<1>4. EndsHeld(q, subs) => EndsHeld(p, subs)
  BY <1>1, <1>2 DEF EndsHeld
<1>5. Known(q, subs, dests, lost) => Known(p, subs, dests, lost)
  BY <1>1, <1>3 DEF Known
<1>6. Leftover(q, subs, dests) => Leftover(p, subs, dests)
  BY <1>3 DEF Leftover
<1>7. QED
  BY <1>4, <1>5, <1>6 DEF p

\* The server reads SUBSCRIBE: it held no subscription for the destination.
LEMMA SubscribeTail ==
  ASSUME NEW q \in Seq(Commands), q # <<>>, Head(q).cmd = "SUBSCRIBE",
         NEW subs, NEW dests, NEW lost, EndsHeld(q, subs), EndsSent(q)
  PROVE  LET new == <<Head(q).id, Head(q).dest>>
             held == subs \cup {new}
         IN /\ \A i \in Id : <<i, Head(q).dest>> \notin subs
            /\ EndsHeld(Tail(q), held)
            /\ Known(q, subs, dests, lost) => Known(Tail(q), held, dests, lost)
            /\ Leftover(q, subs, dests) /\ EndsForgotten(q, dests) =>
                 Leftover(Tail(q), held, dests)
<1> DEFINE p == Tail(q)
<1>0. PICK id \in Id, d \in Destination : id = Head(q).id /\ d = Head(q).dest
  <2>1. Head(q) \in Commands
    BY TailMembers
  <2>2. QED
    BY <2>1, FrameFields
<1> DEFINE held == subs \cup {<<id, d>>}
<1>1. /\ Len(q) \in Nat /\ 1 \in 1..Len(q) /\ q[1] = Head(q)
      /\ \A k \in 1..Len(p) : k + 1 \in 1..Len(q) /\ k \in Nat /\ 1 < k + 1
      /\ \A k \in 1..Len(p) : \A i, e :
           /\ SubscribeAt(p, k, i, e) <=> SubscribeAt(q, k + 1, i, e)
           /\ UnsubscribeAt(p, k, i) <=> UnsubscribeAt(q, k + 1, i)
      /\ \A k \in 1..Len(q) : \A i, e : k # 1 =>
           /\ k - 1 \in 1..Len(p)
           /\ SubscribeAt(q, k, i, e) => SubscribeAt(p, k - 1, i, e)
           /\ UnsubscribeAt(q, k, i) => UnsubscribeAt(p, k - 1, i)
      /\ \A l, k \in Nat : \A i : Ended(q, i, l + 1, k + 1) => Ended(p, i, l, k)
      /\ \A k \in Nat : \A i : Ended(q, i, 0, k + 1) /\ ~UnsubscribeAt(q, 1, i) => Ended(p, i, 0, k)
  BY TailAt
<1> HIDE DEF p
<1>2. /\ SubscribeAt(q, 1, id, d) /\ \A i : ~UnsubscribeAt(q, 1, i)
      /\ \A i, e : SubscribeAt(q, 1, i, e) => i = id /\ e = d
  BY <1>0, <1>1 DEF SubscribeAt, UnsubscribeAt
<1>3. \A i \in Id : <<i, d>> \notin subs
  <2> SUFFICES ASSUME NEW i \in Id, <<i, d>> \in subs PROVE FALSE
    OBVIOUS
  <2>1. Ended(q, i, 0, 1)
    BY <1>1, <1>2 DEF EndsHeld
  <2>2. QED
    BY <1>1, <2>1 DEF Ended
<1>4. EndsHeld(p, held)
  <2> SUFFICES ASSUME NEW k \in 1..Len(p), NEW e \in Destination, NEW j \in Id, NEW i \in Id,
                      SubscribeAt(p, k, j, e), <<i, e>> \in held
               PROVE  Ended(p, i, 0, k)
    BY DEF EndsHeld
  <2>1. SubscribeAt(q, k + 1, j, e) /\ k + 1 \in 1..Len(q) /\ k \in Nat /\ 1 < k + 1
    BY <1>1
  <2>2. CASE <<i, e>> \in subs
    BY <1>1, <1>2, <2>1, <2>2 DEF EndsHeld
  <2>3. CASE i = id /\ e = d
    <3>1. Ended(q, id, 1, k + 1)
      BY <1>1, <1>2, <2>1, <2>3 DEF EndsSent
    <3>2. Ended(q, id, 0 + 1, k + 1)
      BY <3>1
    <3>3. QED
      BY <1>1, <2>1, <2>3, <3>2
  <2>4. QED
    BY <2>2, <2>3
<1>5. Known(q, subs, dests, lost) => Known(p, held, dests, lost)
  <2> SUFFICES ASSUME Known(q, subs, dests, lost), NEW e \in Destination, NEW i \in Id,
                      dests[e] = i, i \notin lost
               PROVE  /\ <<i, e>> \in held \/ \E k \in 1..Len(p) : SubscribeAt(p, k, i, e)
                      /\ \A k \in 1..Len(p) : ~UnsubscribeAt(p, k, i)
    BY DEF Known
  <2>1. <<i, e>> \in subs \/ \E k \in 1..Len(q) : SubscribeAt(q, k, i, e)
    BY DEF Known
  <2>2. \A k \in 1..Len(q) : ~UnsubscribeAt(q, k, i)
    BY DEF Known
  <2>3. ASSUME NEW k \in 1..Len(q), SubscribeAt(q, k, i, e)
        PROVE  <<i, e>> \in held \/ \E m \in 1..Len(p) : SubscribeAt(p, m, i, e)
    BY <1>1, <1>2, <2>3
  <2>4. QED
    BY <1>1, <2>1, <2>2, <2>3
<1>6. Leftover(q, subs, dests) /\ EndsForgotten(q, dests) => Leftover(p, held, dests)
  <2> SUFFICES ASSUME Leftover(q, subs, dests), EndsForgotten(q, dests),
                      NEW e \in Destination, NEW i \in Id, <<i, e>> \in held, dests[e] # i
               PROVE  \E k \in 1..Len(p) : UnsubscribeAt(p, k, i)
    BY DEF Leftover
  <2>1. \E k \in 1..Len(q) : UnsubscribeAt(q, k, i)
    <3>1. CASE <<i, e>> \in subs
      BY <3>1 DEF Leftover
    <3>2. CASE i = id /\ e = d
      <4>1. Ended(q, id, 1, Len(q) + 1)
        BY <1>1, <1>2, <3>2 DEF EndsForgotten
      <4>2. QED
        BY <3>2, <4>1 DEF Ended
    <3>3. QED
      BY <3>1, <3>2
  <2>2. QED
    BY <1>1, <1>2, <2>1
<1>7. QED
  BY <1>0, <1>3, <1>4, <1>5, <1>6 DEF p

\* The server reads UNSUBSCRIBE.
LEMMA UnsubscribeTail ==
  ASSUME NEW q \in Seq(Commands), q # <<>>, Head(q).cmd = "UNSUBSCRIBE",
         NEW subs, NEW dests, NEW lost
  PROVE  LET held == {s \in subs : s[1] # Head(q).id}
         IN /\ EndsHeld(q, subs) => EndsHeld(Tail(q), held)
            /\ Known(q, subs, dests, lost) => Known(Tail(q), held, dests, lost)
            /\ Leftover(q, subs, dests) => Leftover(Tail(q), held, dests)
<1> DEFINE p == Tail(q)
           held == {s \in subs : s[1] # Head(q).id}
<1>1. /\ Len(q) \in Nat /\ 1 \in 1..Len(q) /\ q[1] = Head(q)
      /\ \A k \in 1..Len(p) : k + 1 \in 1..Len(q) /\ k \in Nat /\ 1 < k + 1
      /\ \A k \in 1..Len(p) : \A i, e :
           /\ SubscribeAt(p, k, i, e) <=> SubscribeAt(q, k + 1, i, e)
           /\ UnsubscribeAt(p, k, i) <=> UnsubscribeAt(q, k + 1, i)
      /\ \A k \in 1..Len(q) : \A i, e : k # 1 =>
           /\ k - 1 \in 1..Len(p)
           /\ SubscribeAt(q, k, i, e) => SubscribeAt(p, k - 1, i, e)
           /\ UnsubscribeAt(q, k, i) => UnsubscribeAt(p, k - 1, i)
      /\ \A k \in Nat : \A i : Ended(q, i, 0, k + 1) /\ ~UnsubscribeAt(q, 1, i) => Ended(p, i, 0, k)
  BY TailAt
<1> HIDE DEF p
<1>2. /\ \A i, e : ~SubscribeAt(q, 1, i, e)
      /\ \A i : UnsubscribeAt(q, 1, i) <=> i = Head(q).id
  BY <1>1 DEF SubscribeAt, UnsubscribeAt
<1>3. \A i, e : <<i, e>> \in held <=> <<i, e>> \in subs /\ ~UnsubscribeAt(q, 1, i)
  BY <1>2
<1> HIDE DEF held
<1>4. EndsHeld(q, subs) => EndsHeld(p, held)
  BY <1>1, <1>3 DEF EndsHeld
<1>5. Known(q, subs, dests, lost) => Known(p, held, dests, lost)
  <2>1. \A k \in 1..Len(q) : \A i, e : SubscribeAt(q, k, i, e) =>
          \E m \in 1..Len(p) : SubscribeAt(p, m, i, e)
    BY <1>1, <1>2
  <2>2. QED
    BY <1>1, <1>3, <2>1 DEF Known
<1>6. Leftover(q, subs, dests) => Leftover(p, held, dests)
  BY <1>1, <1>3 DEF Leftover
<1>7. QED
  BY <1>4, <1>5, <1>6 DEF p, held

\* A command joins the link: the others keep their places.
LEMMA LinkAppend ==
  ASSUME NEW q \in Seq(Commands), NEW f \in Commands
  PROVE  LET p == Append(q, f)
         IN /\ p \in Seq(Commands) /\ Len(q) \in Nat /\ Len(p) = Len(q) + 1
            /\ \A k \in 1..Len(q) : p[k] = q[k] /\ k \in 1..Len(p) /\ k < Len(q) + 1
            /\ p[Len(q) + 1] = f /\ Len(q) + 1 \in 1..Len(p)
            /\ \A k \in 1..Len(p) : k \in 1..Len(q) \/ k = Len(q) + 1
            /\ \A id, l, k : Ended(q, id, l, k) => Ended(p, id, l, k)
<1> DEFINE p == Append(q, f)
<1>1. /\ p \in Seq(Commands) /\ Len(p) = Len(q) + 1 /\ p[Len(q) + 1] = f
      /\ \A k \in 1..Len(q) : p[k] = q[k]
  BY AppendMembers
<1>2. Len(q) \in Nat
  BY LenProperties
<1> HIDE DEF p
<1>3. /\ \A k \in 1..Len(q) : k \in 1..Len(p) /\ k < Len(q) + 1
      /\ Len(q) + 1 \in 1..Len(p)
      /\ \A k \in 1..Len(p) : k \in 1..Len(q) \/ k = Len(q) + 1
  BY <1>1, <1>2
<1>4. \A id, l, k : Ended(q, id, l, k) => Ended(p, id, l, k)
  BY <1>1, <1>3 DEF Ended, UnsubscribeAt
<1>5. QED
  BY <1>1, <1>2, <1>3, <1>4 DEF p

\* The client sends a command that is neither SUBSCRIBE nor UNSUBSCRIBE.
LEMMA PlainAppend ==
  ASSUME NEW q \in Seq(Commands), NEW f \in Commands, ~Asks(f), NEW subs, NEW dests, NEW lost
  PROVE  /\ EndsHeld(q, subs) => EndsHeld(Append(q, f), subs)
         /\ EndsSent(q) => EndsSent(Append(q, f))
         /\ EndsForgotten(q, dests) => EndsForgotten(Append(q, f), dests)
         /\ Known(q, subs, dests, lost) => Known(Append(q, f), subs, dests, lost)
         /\ Leftover(q, subs, dests) => Leftover(Append(q, f), subs, dests)
<1> DEFINE p == Append(q, f)
<1>1. /\ Len(q) \in Nat /\ Len(p) = Len(q) + 1
      /\ \A k \in 1..Len(q) : p[k] = q[k] /\ k \in 1..Len(p)
      /\ p[Len(q) + 1] = f
      /\ \A k \in 1..Len(p) : k \in 1..Len(q) \/ k = Len(q) + 1
      /\ \A id, l, k : Ended(q, id, l, k) => Ended(p, id, l, k)
  BY LinkAppend
<1> HIDE DEF p
<1>2. \A k \in 1..Len(p) : \A id, d : SubscribeAt(p, k, id, d) \/ UnsubscribeAt(p, k, id) =>
        k \in 1..Len(q)
  BY <1>1 DEF SubscribeAt, UnsubscribeAt, Asks
<1>3. \A k \in 1..Len(q) : \A id, d :
        /\ SubscribeAt(p, k, id, d) <=> SubscribeAt(q, k, id, d)
        /\ UnsubscribeAt(p, k, id) <=> UnsubscribeAt(q, k, id)
  BY <1>1 DEF SubscribeAt, UnsubscribeAt
<1>4. EndsHeld(q, subs) => EndsHeld(p, subs)
  BY <1>1, <1>2, <1>3 DEF EndsHeld
<1>5. EndsSent(q) => EndsSent(p)
  BY <1>1, <1>2, <1>3 DEF EndsSent
<1>6. EndsForgotten(q, dests) => EndsForgotten(p, dests)
  <2>1. \A j, k : Ended(q, j, k, Len(q) + 1) => Ended(p, j, k, Len(p) + 1)
    <3> SUFFICES ASSUME NEW j, NEW k, Ended(q, j, k, Len(q) + 1)
                 PROVE  Ended(p, j, k, Len(p) + 1)
      OBVIOUS
    <3>1. PICK m \in 1..Len(q) : k < m /\ UnsubscribeAt(q, m, j)
      BY DEF Ended
    <3>2. m \in 1..Len(p) /\ m < Len(p) + 1
      BY <1>1
    <3>3. QED
      BY <1>3, <3>1, <3>2 DEF Ended
  <2>2. QED
    BY <1>2, <1>3, <2>1 DEF EndsForgotten
<1>7. Known(q, subs, dests, lost) => Known(p, subs, dests, lost)
  BY <1>1, <1>2, <1>3 DEF Known
<1>8. Leftover(q, subs, dests) => Leftover(p, subs, dests)
  BY <1>1, <1>3 DEF Leftover
<1>9. QED
  BY <1>4, <1>5, <1>6, <1>7, <1>8 DEF p

\* The client subscribes: for the destination it knows of no subscription, so
\* whatever is left of an earlier one is already being ended.
LEMMA SubscribeAppend ==
  ASSUME NEW q \in Seq(Commands), NEW id \in Id, NEW d \in Destination, NEW rid \in Id,
         NEW subs, NEW dests, NEW next, NEW lost,
         dests[d] \notin Id, next[d] = id,
         \A e \in Destination : e # d => next[e] = dests[e],
         \A k \in 1..Len(q) : ~UnsubscribeAt(q, k, id),
         EndsHeld(q, subs), EndsSent(q), EndsForgotten(q, dests),
         Known(q, subs, dests, lost), Leftover(q, subs, dests)
  PROVE  LET p == Append(q, SUBSCRIBE(id, d, rid))
         IN /\ EndsHeld(p, subs) /\ EndsSent(p) /\ EndsForgotten(p, next)
            /\ Known(p, subs, next, lost) /\ Leftover(p, subs, next)
<1> DEFINE f == SUBSCRIBE(id, d, rid)
           p == Append(q, f)
<1>0. f \in Commands /\ f.cmd = "SUBSCRIBE" /\ f.id = id /\ f.dest = d
  BY FrameTypes DEF SUBSCRIBE
<1> HIDE DEF f
<1>1. /\ Len(q) \in Nat /\ Len(p) = Len(q) + 1
      /\ \A k \in 1..Len(q) : p[k] = q[k] /\ k \in 1..Len(p) /\ k < Len(q) + 1
      /\ p[Len(q) + 1] = f /\ Len(q) + 1 \in 1..Len(p)
      /\ \A k \in 1..Len(p) : k \in 1..Len(q) \/ k = Len(q) + 1
      /\ \A i, l, k : Ended(q, i, l, k) => Ended(p, i, l, k)
  BY <1>0, LinkAppend
<1> HIDE DEF p
<1>2. /\ \A k \in 1..Len(q) : \A i, e : SubscribeAt(p, k, i, e) <=> SubscribeAt(q, k, i, e)
      /\ \A k \in 1..Len(q) : \A i : UnsubscribeAt(p, k, i) <=> UnsubscribeAt(q, k, i)
      /\ SubscribeAt(p, Len(q) + 1, id, d)
      /\ \A i, e : SubscribeAt(p, Len(q) + 1, i, e) => i = id /\ e = d
      /\ \A i : ~UnsubscribeAt(p, Len(q) + 1, i)
  BY <1>0, <1>1 DEF SubscribeAt, UnsubscribeAt
<1>3. \A i, k, m : m \in 1..Len(q) /\ k < m /\ UnsubscribeAt(q, m, i) =>
        Ended(p, i, k, Len(q) + 1) /\ Ended(p, i, k, Len(p) + 1)
  <2> SUFFICES ASSUME NEW i, NEW k, NEW m \in 1..Len(q), k < m, UnsubscribeAt(q, m, i)
               PROVE  Ended(p, i, k, Len(q) + 1) /\ Ended(p, i, k, Len(p) + 1)
    OBVIOUS
  <2>1. m \in 1..Len(p) /\ m < Len(q) + 1 /\ m < Len(p) + 1
    BY <1>1
  <2>2. QED
    BY <1>2, <2>1 DEF Ended
<1>4. EndsHeld(p, subs)
  <2> SUFFICES ASSUME NEW k \in 1..Len(p), NEW e \in Destination, NEW j \in Id, NEW i \in Id,
                      SubscribeAt(p, k, j, e), <<i, e>> \in subs
               PROVE  Ended(p, i, 0, k)
    BY DEF EndsHeld
  <2>1. CASE k \in 1..Len(q)
    BY <1>1, <1>2, <2>1 DEF EndsHeld
  <2>2. CASE k = Len(q) + 1
    <3>1. <<i, d>> \in subs /\ dests[d] # i
      BY <1>2, <2>2
    <3>2. PICK m \in 1..Len(q) : UnsubscribeAt(q, m, i)
      BY <3>1 DEF Leftover
    <3>3. 0 < m
      BY <1>1
    <3>4. QED
      BY <1>3, <2>2, <3>2, <3>3
  <2>3. QED
    BY <1>1, <2>1, <2>2
<1>5. EndsSent(p)
  <2> SUFFICES ASSUME NEW k \in 1..Len(p), NEW l \in 1..Len(p), NEW e \in Destination,
                      NEW j \in Id, NEW i \in Id, l < k,
                      SubscribeAt(p, k, j, e), SubscribeAt(p, l, i, e)
               PROVE  Ended(p, i, l, k)
    BY DEF EndsSent
  <2>1. l \in 1..Len(q)
    BY <1>1
  <2>2. CASE k \in 1..Len(q)
    BY <1>1, <1>2, <2>1, <2>2 DEF EndsSent
  <2>3. CASE k = Len(q) + 1
    <3>1. SubscribeAt(q, l, i, d) /\ dests[d] # i
      BY <1>2, <2>1, <2>3
    <3>2. Ended(q, i, l, Len(q) + 1)
      BY <2>1, <3>1 DEF EndsForgotten
    <3>3. QED
      BY <1>1, <2>3, <3>2
  <2>4. QED
    BY <1>1, <2>2, <2>3
<1>6. EndsForgotten(p, next)
  <2> SUFFICES ASSUME NEW k \in 1..Len(p), NEW e \in Destination, NEW j \in Id,
                      SubscribeAt(p, k, j, e), next[e] # j
               PROVE  Ended(p, j, k, Len(p) + 1)
    BY DEF EndsForgotten
  <2>1. k \in 1..Len(q)
    BY <1>1, <1>2
  <2>2. SubscribeAt(q, k, j, e) /\ dests[e] # j
    BY <1>2, <2>1
  <2>3. Ended(q, j, k, Len(q) + 1)
    BY <2>1, <2>2 DEF EndsForgotten
  <2>4. QED
    BY <1>3, <2>3 DEF Ended
<1>7. Known(p, subs, next, lost)
  <2> SUFFICES ASSUME NEW e \in Destination, NEW i \in Id, next[e] = i, i \notin lost
               PROVE  /\ <<i, e>> \in subs \/ \E k \in 1..Len(p) : SubscribeAt(p, k, i, e)
                      /\ \A k \in 1..Len(p) : ~UnsubscribeAt(p, k, i)
    BY DEF Known
  <2>1. CASE e = d
    BY <1>1, <1>2, <2>1
  <2>2. CASE e # d
    BY <1>1, <1>2, <2>2 DEF Known
  <2>3. QED
    BY <2>1, <2>2
<1>8. Leftover(p, subs, next)
  <2> SUFFICES ASSUME NEW e \in Destination, NEW i \in Id, <<i, e>> \in subs, next[e] # i
               PROVE  \E k \in 1..Len(p) : UnsubscribeAt(p, k, i)
    BY DEF Leftover
  <2>1. dests[e] # i
    OBVIOUS
  <2>2. QED
    BY <1>1, <1>2, <2>1 DEF Leftover
<1>9. QED
  BY <1>4, <1>5, <1>6, <1>7, <1>8 DEF p, f

\* The client unsubscribes: it forgets the subscription the command ends.
LEMMA UnsubscribeAppend ==
  ASSUME NEW q \in Seq(Commands), NEW id \in Id, NEW d \in Destination, NEW rid \in Id,
         NEW subs, NEW dests, NEW next, NEW lost,
         dests[d] = id, next[d] \notin Id,
         \A e \in Destination : e # d => next[e] = dests[e] /\ dests[e] # id,
         EndsHeld(q, subs), EndsSent(q), EndsForgotten(q, dests),
         Known(q, subs, dests, lost), Leftover(q, subs, dests)
  PROVE  LET p == Append(q, UNSUBSCRIBE(id, rid))
         IN /\ EndsHeld(p, subs) /\ EndsSent(p) /\ EndsForgotten(p, next)
            /\ Known(p, subs, next, lost) /\ Leftover(p, subs, next)
<1> DEFINE f == UNSUBSCRIBE(id, rid)
           p == Append(q, f)
<1>0. f \in Commands /\ f.cmd = "UNSUBSCRIBE" /\ f.id = id
  BY FrameTypes DEF UNSUBSCRIBE
<1> HIDE DEF f
<1>1. /\ Len(q) \in Nat /\ Len(p) = Len(q) + 1
      /\ \A k \in 1..Len(q) : p[k] = q[k] /\ k \in 1..Len(p) /\ k < Len(q) + 1
      /\ p[Len(q) + 1] = f /\ Len(q) + 1 \in 1..Len(p)
      /\ \A k \in 1..Len(p) : k \in 1..Len(q) \/ k = Len(q) + 1
      /\ \A i, l, k : Ended(q, i, l, k) => Ended(p, i, l, k)
  BY <1>0, LinkAppend
<1> HIDE DEF p
<1>2. /\ \A k \in 1..Len(q) : \A i, e : SubscribeAt(p, k, i, e) <=> SubscribeAt(q, k, i, e)
      /\ \A k \in 1..Len(q) : \A i : UnsubscribeAt(p, k, i) <=> UnsubscribeAt(q, k, i)
      /\ \A i, e : ~SubscribeAt(p, Len(q) + 1, i, e)
      /\ \A i : UnsubscribeAt(p, Len(q) + 1, i) <=> i = id
  BY <1>0, <1>1 DEF SubscribeAt, UnsubscribeAt
<1>3. \A k \in 1..Len(p) : \A i, e : SubscribeAt(p, k, i, e) =>
        k \in 1..Len(q) /\ SubscribeAt(q, k, i, e)
  BY <1>1, <1>2
<1>4. EndsHeld(p, subs)
  BY <1>1, <1>3 DEF EndsHeld
<1>5. EndsSent(p)
  BY <1>1, <1>3 DEF EndsSent
<1>6. EndsForgotten(p, next)
  <2> SUFFICES ASSUME NEW k \in 1..Len(p), NEW e \in Destination, NEW j \in Id,
                      SubscribeAt(p, k, j, e), next[e] # j
               PROVE  Ended(p, j, k, Len(p) + 1)
    BY DEF EndsForgotten
  <2>1. k \in 1..Len(q) /\ SubscribeAt(q, k, j, e)
    BY <1>3
  <2>2. PICK m \in 1..Len(p) : k < m /\ UnsubscribeAt(p, m, j)
    <3>1. CASE dests[e] = j
      <4>1. e = d /\ j = id
        BY <3>1
      <4>2. QED
        BY <1>1, <1>2, <2>1, <4>1
    <3>2. CASE dests[e] # j
      <4>1. Ended(q, j, k, Len(q) + 1)
        BY <2>1, <3>2 DEF EndsForgotten
      <4>2. QED
        BY <1>1, <1>2, <4>1 DEF Ended
    <3>3. QED
      BY <3>1, <3>2
  <2>3. m < Len(p) + 1
    BY <1>1
  <2>4. QED
    BY <2>2, <2>3 DEF Ended
<1>7. Known(p, subs, next, lost)
  <2> SUFFICES ASSUME NEW e \in Destination, NEW i \in Id, next[e] = i, i \notin lost
               PROVE  /\ <<i, e>> \in subs \/ \E k \in 1..Len(p) : SubscribeAt(p, k, i, e)
                      /\ \A k \in 1..Len(p) : ~UnsubscribeAt(p, k, i)
    BY DEF Known
  <2>1. e # d /\ dests[e] = i /\ i # id
    OBVIOUS
  <2>2. QED
    BY <1>1, <1>2, <2>1 DEF Known
<1>8. Leftover(p, subs, next)
  <2> SUFFICES ASSUME NEW e \in Destination, NEW i \in Id, <<i, e>> \in subs, next[e] # i
               PROVE  \E k \in 1..Len(p) : UnsubscribeAt(p, k, i)
    BY DEF Leftover
  <2>1. CASE dests[e] = i
    <3>1. i = id
      BY <2>1
    <3>2. QED
      BY <1>1, <1>2, <3>1
  <2>2. CASE dests[e] # i
    BY <1>1, <1>2, <2>2 DEF Leftover
  <2>3. QED
    BY <2>1, <2>2
<1>9. QED
  BY <1>4, <1>5, <1>6, <1>7, <1>8 DEF p, f

\* Steps that keep the subscriptions on both sides.
LEMMA LinkKept ==
  ASSUME BaseInv, LinkInv, [Next]_vars,
         UNCHANGED <<session, serverSubs, destinations, unsent>>,
         ~destroyed' => ~destroyed,
         \/ UNCHANGED toServer
         \/ toServer # <<>> /\ ~Asks(Head(toServer)) /\ toServer' = Tail(toServer)
         \/ \E f \in Commands : ~Asks(f) /\ toServer' = Append(toServer, f)
  PROVE  LinkInv'
<1>1. toServer \in Seq(Commands)
  BY DEF BaseInv, TypeOK
<1>2. ASSUME session = "open"
      PROVE  /\ EndsHeld(toServer', serverSubs) /\ EndsSent(toServer')
             /\ ~destroyed => /\ EndsForgotten(toServer', destinations)
                              /\ Known(toServer', serverSubs, destinations, unsent)
                              /\ Leftover(toServer', serverSubs, destinations)
  <2>1. CASE UNCHANGED toServer
    BY <1>2, <2>1 DEF LinkInv
  <2>2. CASE toServer # <<>> /\ ~Asks(Head(toServer)) /\ toServer' = Tail(toServer)
    BY <1>1, <1>2, <2>2, PlainTail, TailOrder DEF LinkInv
  <2>3. CASE \E f \in Commands : ~Asks(f) /\ toServer' = Append(toServer, f)
    BY <1>1, <1>2, <2>3, PlainAppend DEF LinkInv
  <2>4. QED
    BY <2>1, <2>2, <2>3
<1>3. QED
  BY <1>2 DEF LinkInv

LEMMA SubscribeFirstLink ==
  ASSUME BaseInv, Phases, LinkInv, NEW d \in Destination, NEW h \in Handler,
         SubscribeFirst(d, h), session = "open"
  PROVE  LinkInv'
<1> DEFINE id == counter
           rid == counter + 1
<1>1. /\ id \in Id /\ rid \in Id /\ Id \subseteq Nat
      /\ destinations[d] \notin Id /\ destinations'[d] = id
      /\ \A e \in Destination : e # d => destinations'[e] = destinations[e]
      /\ SendCommand(SUBSCRIBE(id, d, rid), {id, rid})
      /\ UNCHANGED <<session, serverSubs, destroyed>>
  BY SubscribeFirstEffect, MapFacts DEF server
<1>2. toServer \in Seq(Commands)
  BY DEF BaseInv, TypeOK
<1>3. ~destroyed
  BY DEF SubscribeFirst
<1>4. \A k \in 1..Len(toServer) : ~UnsubscribeAt(toServer, k, id)
  BY <1>1 DEF BaseInv, FreshLinks, Members, UnsubscribeAt
<1>5. /\ EndsHeld(toServer, serverSubs) /\ EndsSent(toServer)
      /\ EndsForgotten(toServer, destinations)
      /\ Known(toServer, serverSubs, destinations, unsent)
      /\ Leftover(toServer, serverSubs, destinations)
  BY <1>3 DEF LinkInv
<1>6. CASE ready
  <2> HIDE DEF id, rid
  <2>1. toServer' = Append(toServer, SUBSCRIBE(id, d, rid)) /\ UNCHANGED unsent
    BY <1>1, <1>6 DEF SendCommand
  <2>2. /\ EndsHeld(toServer', serverSubs) /\ EndsSent(toServer')
        /\ EndsForgotten(toServer', destinations')
        /\ Known(toServer', serverSubs, destinations', unsent)
        /\ Leftover(toServer', serverSubs, destinations')
    BY <1>1, <1>2, <1>4, <1>5, <2>1, SubscribeAppend
  <2>3. QED
    BY <1>1, <2>1, <2>2 DEF LinkInv
<1>7. CASE ~ready
  <2> HIDE DEF id, rid
  <2>1. UNCHANGED toServer /\ unsent' = unsent \cup {id, rid}
    BY <1>1, <1>7 DEF SendCommand
  <2>2. serverSubs = {} /\ \A k \in 1..Len(toServer) : toServer[k].cmd # "SUBSCRIBE"
    BY <1>3, <1>7 DEF Phases, Members
  <2>3. EndsForgotten(toServer, destinations')
    BY <2>2 DEF EndsForgotten, SubscribeAt
  <2>4. Known(toServer, serverSubs, destinations', unsent')
    BY <1>1, <1>5, <2>1 DEF Known
  <2>5. Leftover(toServer, serverSubs, destinations')
    BY <2>2 DEF Leftover
  <2>6. QED
    BY <1>1, <1>5, <2>1, <2>3, <2>4, <2>5 DEF LinkInv
<1>8. QED
  BY <1>6, <1>7

LEMMA UnsubscribeLastLink ==
  ASSUME BaseInv, Phases, LinkInv, NEW d \in Destination, NEW h \in Handler,
         UnsubscribeLast(d, h), session = "open"
  PROVE  LinkInv'
<1> DEFINE id == destinations[d]
           rid == counter
<1>1. /\ id \in Id /\ rid \in Id /\ Id \subseteq Nat
      /\ destinations'[d] \notin Id
      /\ \A e \in Destination : e # d =>
           destinations'[e] = destinations[e] /\ destinations[e] # id
      /\ SendCommand(UNSUBSCRIBE(id, rid), {rid})
      /\ UNCHANGED <<session, serverSubs, destroyed>>
  BY UnsubscribeLastEffect, MapFacts DEF server
<1>2. toServer \in Seq(Commands)
  BY DEF BaseInv, TypeOK
<1>3. ~destroyed
  BY DEF UnsubscribeLast
<1>4. /\ EndsHeld(toServer, serverSubs) /\ EndsSent(toServer)
      /\ EndsForgotten(toServer, destinations)
      /\ Known(toServer, serverSubs, destinations, unsent)
      /\ Leftover(toServer, serverSubs, destinations)
  BY <1>3 DEF LinkInv
<1>5. destinations[d] = id
  OBVIOUS
<1>6. CASE ready
  <2> HIDE DEF id, rid
  <2>1. toServer' = Append(toServer, UNSUBSCRIBE(id, rid)) /\ UNCHANGED unsent
    BY <1>1, <1>6 DEF SendCommand
  <2>2. /\ EndsHeld(toServer', serverSubs) /\ EndsSent(toServer')
        /\ EndsForgotten(toServer', destinations')
        /\ Known(toServer', serverSubs, destinations', unsent)
        /\ Leftover(toServer', serverSubs, destinations')
    BY <1>1, <1>2, <1>4, <1>5, <2>1, UnsubscribeAppend
  <2>3. QED
    BY <1>1, <2>1, <2>2 DEF LinkInv
<1>7. CASE ~ready
  <2> HIDE DEF id, rid
  <2>1. UNCHANGED toServer /\ unsent' = unsent \cup {rid}
    BY <1>1, <1>7 DEF SendCommand
  <2>2. serverSubs = {} /\ \A k \in 1..Len(toServer) : toServer[k].cmd # "SUBSCRIBE"
    BY <1>3, <1>7 DEF Phases, Members
  <2>3. EndsForgotten(toServer, destinations')
    BY <2>2 DEF EndsForgotten, SubscribeAt
  <2>4. Known(toServer, serverSubs, destinations', unsent')
    BY <1>1, <1>4, <2>1 DEF Known
  <2>5. Leftover(toServer, serverSubs, destinations')
    BY <2>2 DEF Leftover
  <2>6. QED
    BY <1>1, <1>4, <2>1, <2>3, <2>4, <2>5 DEF LinkInv
<1>8. QED
  BY <1>6, <1>7

LEMMA ServerSubscribesLink ==
  ASSUME BaseInv, LinkInv, OneServerSubscription, ServerSubscribes
  PROVE  LinkInv' /\ OneServerSubscription'
<1> DEFINE new == <<Head(toServer).id, Head(toServer).dest>>
<1>1. /\ session = "open" /\ toServer # <<>> /\ Head(toServer).cmd = "SUBSCRIBE"
      /\ toServer' = Tail(toServer) /\ serverSubs' = serverSubs \cup {new}
      /\ UNCHANGED <<session, destroyed, destinations, unsent>>
  BY DEF ServerSubscribes, Told, ClientStays, client
<1>2. toServer \in Seq(Commands)
  BY DEF BaseInv, TypeOK
<1>3. EndsHeld(toServer, serverSubs) /\ EndsSent(toServer)
  BY <1>1 DEF LinkInv
<1>4. /\ \A i \in Id : <<i, Head(toServer).dest>> \notin serverSubs
      /\ EndsHeld(toServer', serverSubs') /\ EndsSent(toServer')
      /\ ~destroyed => /\ Known(toServer', serverSubs', destinations, unsent)
                       /\ Leftover(toServer', serverSubs', destinations)
                       /\ EndsForgotten(toServer', destinations)
  BY <1>1, <1>2, <1>3, SubscribeTail, TailOrder DEF LinkInv
<1>5. LinkInv'
  BY <1>1, <1>4 DEF LinkInv
<1>6. OneServerSubscription'
  <2> DEFINE d == Head(toServer).dest
  <2>1. \A s \in serverSubs : s = <<s[1], s[2]>> /\ s[1] \in Id
    BY DEF BaseInv, TypeOK, ServerTyped
  <2>2. \A s \in serverSubs : s[2] # d
    BY <1>4, <2>1
  <2>3. new[2] = d
    OBVIOUS
  <2> HIDE DEF new, d
  <2>4. QED
    BY <1>1, <2>2, <2>3 DEF OneServerSubscription
<1>7. QED
  BY <1>5, <1>6

LEMMA ServerUnsubscribesLink ==
  ASSUME BaseInv, LinkInv, ServerUnsubscribes
  PROVE  LinkInv'
<1>1. /\ session = "open" /\ toServer # <<>> /\ Head(toServer).cmd = "UNSUBSCRIBE"
      /\ toServer' = Tail(toServer)
      /\ serverSubs' = {s \in serverSubs : s[1] # Head(toServer).id}
      /\ UNCHANGED <<session, destroyed, destinations, unsent>>
  BY DEF ServerUnsubscribes, Told, ClientStays, client
<1>2. toServer \in Seq(Commands)
  BY DEF BaseInv, TypeOK
<1>3. /\ EndsHeld(toServer', serverSubs') /\ EndsSent(toServer')
      /\ ~destroyed => /\ Known(toServer', serverSubs', destinations, unsent)
                       /\ Leftover(toServer', serverSubs', destinations)
                       /\ EndsForgotten(toServer', destinations)
  BY <1>1, <1>2, UnsubscribeTail, TailOrder DEF LinkInv
<1>4. QED
  BY <1>1, <1>3 DEF LinkInv

\* When the session opens nothing is on the link, and what the client knows of
\* was never sent.
LEMMA ServerConnectsLink ==
  ASSUME BaseInv, Phases, ServerConnects
  PROVE  LinkInv'
<1>1. /\ session = "opening" /\ toServer' = Tail(toServer)
      /\ UNCHANGED <<serverSubs, destinations, unsent, destroyed>>
  BY DEF ServerConnects, Told, ClientStays, client
<1>2. /\ toServer = <<Frame("CONNECT")>> /\ serverSubs = {}
      /\ \A d \in Destination : destinations[d] # None => destinations[d] \in unsent
  BY <1>1 DEF Phases
<1>3. \A d \in Destination, id \in Id : destinations'[d] = id => id \in unsent'
  BY <1>1, <1>2, MapFacts
<1>4. toServer' = <<>> /\ Len(toServer') = 0 /\ serverSubs' = {}
  <2>1. toServer' = <<>>
    BY <1>1, <1>2
  <2>2. QED
    BY <1>1, <1>2, <2>1
<1>5. QED
  BY <1>3, <1>4 DEF LinkInv, EndsHeld, EndsSent, EndsForgotten, Known, Leftover

LEMMA NextServer ==
  ASSUME BaseInv, ServerInv, [Next]_vars
  PROVE  ServerInv'
<1>1. Phases /\ LinkInv /\ OneServerSubscription /\ Phases'
  BY PhasesKept DEF ServerInv
<1>2. OneServerSubscription'
  <2>1. CASE ServerSubscribes
    BY <1>1, <2>1, ServerSubscribesLink
  <2>2. CASE serverSubs' \subseteq serverSubs
    BY <1>1, <2>2 DEF OneServerSubscription
  <2>3. QED
    BY <2>1, <2>2, HeldStep
<1>3. LinkInv'
  <2>1. CASE session' # "open"
    BY <2>1 DEF LinkInv
  <2>2. CASE ServerConnects
    BY <1>1, <2>2, ServerConnectsLink
  <2>3. ASSUME session = "open", session' = "open"
        PROVE  LinkInv'
    <3>1. CASE \E d \in Destination, h \in Handler : SubscribeFirst(d, h) \/ UnsubscribeLast(d, h)
      BY <1>1, <2>3, <3>1, SubscribeFirstLink, UnsubscribeLastLink
    <3>2. CASE ServerSubscribes \/ ServerUnsubscribes
      BY <1>1, <3>2, ServerSubscribesLink, ServerUnsubscribesLink
    <3>3. CASE Destroy
      <4>1. /\ UNCHANGED <<session, serverSubs>> /\ destroyed' = TRUE
            /\ toServer' = toServer \/ toServer' = Append(toServer, Frame("DISCONNECT"))
        BY <3>3 DEF Destroy, server
      <4>2. PICK f \in Commands : f = Frame("DISCONNECT") /\ ~Asks(f)
        BY FrameTypes DEF Frame, Asks
      <4>3. EndsHeld(toServer', serverSubs) /\ EndsSent(toServer')
        <5>1. toServer \in Seq(Commands) /\ EndsHeld(toServer, serverSubs) /\ EndsSent(toServer)
          BY <1>1, <2>3 DEF BaseInv, TypeOK, LinkInv
        <5>2. QED
          BY <4>1, <4>2, <5>1, PlainAppend
      <4>4. QED
        BY <4>1, <4>3 DEF LinkInv
    <3>4. ASSUME UNCHANGED <<session, serverSubs, destinations, unsent, destroyed>>,
                 \/ UNCHANGED toServer
                 \/ \E f \in Commands : ~Asks(f) /\ toServer' = Append(toServer, f)
          PROVE  LinkInv'
      BY <1>1, <3>4, LinkKept
    <3>5. CASE \/ \E d \in Destination, h \in Handler : SubscribeAgain(d, h) \/ UnsubscribeOne(d, h)
               \/ Dispatch \/ Client \/ ServerSends \/ ServerFails \/ UNCHANGED vars
      <4>1. UNCHANGED <<session, serverSubs, destinations, destroyed, unsent>>
        BY <2>3, <3>5 DEF SubscribeAgain, UnsubscribeOne, Dispatch, Client, ReceiveConnected,
           ReceiveError, ReceiveMessage, ReceiveStray, HandlerEnds, MessageEnds,
           ReceiveReceipt, ReceiveStrayReceipt, NextNotice, ReceiptEnds, ServerSends,
           ServerFails, SendCommand, ClientStays, vars, client, server
      <4>2. \/ UNCHANGED toServer
            \/ \E f \in Commands : ~Asks(f) /\ toServer' = Append(toServer, f)
        <5>1. CASE Dispatch
          <6>1. Frame("SEND") \in Commands /\ ~Asks(Frame("SEND"))
            BY FrameTypes DEF Frame, Asks
          <6>2. QED
            BY <5>1, <6>1, SendCommandStep DEF Dispatch
        <5>2. CASE ReceiveStray \/ MessageEnds
          <6>1. \E mid \in Mids, handled \in BOOLEAN : Reply(mid, handled)
            <7>1. CASE ReceiveStray
              <8>1. fromServer # <<>> /\ Head(fromServer).cmd = "MESSAGE"
                    /\ Reply(Head(fromServer).mid, FALSE)
                BY <7>1 DEF ReceiveStray, Receives
              <8>2. Head(fromServer).mid \in Mids
                BY <8>1, LinkHeads, FrameFields DEF BaseInv
              <8>3. QED
                BY <8>1, <8>2
            <7>2. CASE MessageEnds
              BY <7>2, ContextFacts DEF MessageEnds
            <7>3. QED
              BY <5>2, <7>1, <7>2
          <6>2. QED
            BY <6>1, ReplyStep DEF Asks
        <5>3. QED
          BY <3>5, <5>1, <5>2 DEF SubscribeAgain, UnsubscribeOne, Client, ReceiveConnected,
             ReceiveError, ReceiveMessage, HandlerEnds, ReceiveReceipt, ReceiveStrayReceipt,
             NextNotice, ReceiptEnds, ServerSends, ServerFails, vars
      <4>3. QED
        BY <3>4, <4>1, <4>2
    <3>6. CASE ServerHears \/ ServerIgnores \/ ServerDisconnects
      <4>1. ServerHears
        BY <2>3, <3>6 DEF ServerIgnores, ServerDisconnects
      <4>2. /\ UNCHANGED <<session, serverSubs, destinations, unsent, destroyed>>
            /\ toServer # <<>> /\ Head(toServer).cmd \in {"SEND", "ACK", "NACK"}
            /\ toServer' = Tail(toServer)
        BY <4>1 DEF ServerHears, Told, ClientStays, client, server
      <4>3. QED
        BY <1>1, <4>2, LinkKept DEF Asks
    <3>7. QED
      BY <1>1, <2>2, <3>1, <3>2, <3>3, <3>5, <3>6 DEF Next, App, Server, ServerReads
  <2>4. QED
    BY <2>1, <2>2, <2>3, SessionStep
<1>4. QED
  BY <1>1, <1>2, <1>3 DEF ServerInv

\* The invariant behind the agreement of client and server: an old subscription
\* ends on the link before a new one for its destination begins.
THEOREM ServerInvariant == Spec => []ServerInv
<1>1. Init => ServerInv
  <2> SUFFICES ASSUME Init PROVE ServerInv
    OBVIOUS
  <2>1. /\ ready = FALSE /\ session = "opening" /\ serverSubs = {}
        /\ toServer = <<Frame("CONNECT")>> /\ fromServer = <<>>
        /\ destinations = [d \in Destination |-> None]
    BY DEF Init
  <2>2. Phases
    BY <2>1, EmptyMembers DEF Phases
  <2>3. LinkInv /\ OneServerSubscription
    BY <2>1 DEF LinkInv, OneServerSubscription
  <2>4. QED
    BY <2>2, <2>3 DEF ServerInv
<1>2. BaseInv /\ ServerInv /\ [Next]_vars => ServerInv'
  BY NextServer
<1>3. QED
  BY <1>1, <1>2, BaseInvariant, PTL DEF Spec

\* The server never holds two subscriptions of the client for one destination,
\* however subscribe and unsubscribe follow each other on the link
\* (stomp.js:89-90, 95-122, 138-159).
THEOREM SubscribedOnce == Spec => []OneServerSubscription
<1>1. ServerInv => OneServerSubscription
  BY DEF ServerInv
<1>2. QED
  BY <1>1, ServerInvariant, PTL

\* What the client believes and what the server will hold once it has read the
\* link agree while the session is open (stomp.js:95-122, 138-159).
THEOREM ClientServerInStep == Spec => []InStep
<1>1. BaseInv /\ ServerInv => InStep
  <2> SUFFICES ASSUME ServerInv, session = "open", ~destroyed,
                      NEW d \in Destination, NEW id \in Id
               PROVE  /\ destinations[d] = id /\ id \notin unsent =>
                           /\ <<id, d>> \in serverSubs \/ Asked("SUBSCRIBE", id)
                           /\ ~Asked("UNSUBSCRIBE", id)
                      /\ <<id, d>> \in serverSubs =>
                           destinations[d] = id \/ Asked("UNSUBSCRIBE", id)
    BY DEF InStep
  <2>1. /\ Known(toServer, serverSubs, destinations, unsent)
        /\ Leftover(toServer, serverSubs, destinations)
    BY DEF ServerInv, LinkInv
  <2>2. QED
    BY <2>1 DEF Known, Leftover, Asked, SubscribeAt, UnsubscribeAt
<1>2. QED
  BY <1>1, BaseInvariant, ServerInvariant, PTL
-----------------------------------------------------------------------------
(* The store of receipts neither leaks nor lacks. *)

LEMMA AskTail ==
  ASSUME NEW S, NEW q \in Seq(S), q # <<>>, OnceOnLink(q)
  PROVE  /\ OnceOnLink(Tail(q))
         /\ \A rid \in Id :
              /\ Asking(q, rid) <=> Asking(Tail(q), rid) \/ AsksReceipt(Head(q), rid)
              /\ AsksReceipt(Head(q), rid) => ~Asking(Tail(q), rid)
<1>1. /\ Head(q) = q[1] /\ Len(q) \in Nat /\ Len(q) > 0 /\ Len(Tail(q)) = Len(q) - 1
      /\ \A i \in 1..Len(Tail(q)) : Tail(q)[i] = q[i + 1]
      /\ Members(q) = Members(Tail(q)) \cup {Head(q)}
  BY TailMembers
<1>2. \A i \in 1..Len(Tail(q)) : i + 1 \in 1..Len(q) /\ 1 \in 1..Len(q) /\ i + 1 # 1
  BY <1>1
<1>3. OnceOnLink(Tail(q))
  <2> SUFFICES ASSUME NEW i \in 1..Len(Tail(q)), NEW j \in 1..Len(Tail(q)), NEW rid \in Id,
                      AsksReceipt(Tail(q)[i], rid), AsksReceipt(Tail(q)[j], rid)
               PROVE  i = j
    BY DEF OnceOnLink
  <2>1. AsksReceipt(q[i + 1], rid) /\ AsksReceipt(q[j + 1], rid)
    BY <1>1
  <2>2. i + 1 = j + 1
    BY <1>2, <2>1 DEF OnceOnLink
  <2>3. QED
    BY <2>2
<1>4. ASSUME NEW rid \in Id, AsksReceipt(Head(q), rid), Asking(Tail(q), rid)
      PROVE  FALSE
  <2>1. PICK i \in 1..Len(Tail(q)) : AsksReceipt(Tail(q)[i], rid)
    BY <1>4 DEF Asking, Members
  <2>2. AsksReceipt(q[i + 1], rid) /\ AsksReceipt(q[1], rid)
    BY <1>1, <1>4, <2>1
  <2>3. QED
    BY <1>2, <2>2 DEF OnceOnLink
<1>5. QED
  BY <1>1, <1>3, <1>4 DEF Asking

LEMMA AskAppend ==
  ASSUME NEW S, NEW q \in Seq(S), NEW f \in S, OnceOnLink(q),
         \A rid \in Id : AsksReceipt(f, rid) => ~Asking(q, rid)
  PROVE  /\ OnceOnLink(Append(q, f))
         /\ \A rid \in Id : Asking(Append(q, f), rid) <=> Asking(q, rid) \/ AsksReceipt(f, rid)
<1>1. PICK p : p = Append(q, f)
  OBVIOUS
<1>2. /\ Len(q) \in Nat /\ Len(p) = Len(q) + 1 /\ p[Len(q) + 1] = f
      /\ \A i \in 1..Len(q) : p[i] = q[i]
      /\ Members(p) = Members(q) \cup {f}
  BY <1>1, AppendMembers, LenProperties
<1>3. OnceOnLink(p)
  <2> SUFFICES ASSUME NEW i \in 1..Len(p), NEW j \in 1..Len(p), NEW rid \in Id,
                      AsksReceipt(p[i], rid), AsksReceipt(p[j], rid)
               PROVE  i = j
    BY DEF OnceOnLink
  <2>1. \A k \in 1..Len(p) : k \in 1..Len(q) \/ k = Len(q) + 1
    BY <1>2
  <2>2. \A k \in 1..Len(q) : AsksReceipt(p[k], rid) => Asking(q, rid)
    BY <1>2 DEF Asking, Members
  <2>3. \A k \in 1..Len(q) : AsksReceipt(p[k], rid) => AsksReceipt(q[k], rid)
    BY <1>2
  <2>4. QED
    BY <1>2, <2>1, <2>2, <2>3 DEF OnceOnLink
<1>4. QED
  BY <1>1, <1>2, <1>3 DEF Asking

\* What is under way was given out before.
LEMMA AskedIsOld ==
  ASSUME BaseInv, NEW rid \in Id
  PROVE  /\ UnderWay(rid) <=> Asking(toServer, rid) \/ Asking(fromServer, rid)
         /\ UnderWay(rid) \/ InRun(rid) => rid < counter
<1>1. UnderWay(rid) <=> Asking(toServer, rid) \/ Asking(fromServer, rid)
  BY DEF UnderWay, Asking, Members
<1>2. ASSUME NEW f \in Members(toServer), AsksReceipt(f, rid)
      PROVE  rid < counter
  <2>1. f \in Commands
    BY DEF BaseInv, TypeOK, Members
  <2>2. QED
    BY <1>2, <2>1, FrameFields DEF BaseInv, FreshLinks, AsksReceipt
<1>3. ASSUME NEW f \in Members(fromServer), AsksReceipt(f, rid)
      PROVE  rid < counter
  <2>1. f \in Replies
    BY DEF BaseInv, TypeOK, Members
  <2>2. QED
    BY <1>3, <2>1, FrameFields DEF BaseInv, FreshLinks, AsksReceipt
<1>4. InRun(rid) => rid < counter
  BY DEF InRun, BaseInv, FreshContext
<1>5. QED
  BY <1>1, <1>2, <1>3, <1>4 DEF Asking

\* A new receipt is asked for, or would have been.
LEMMA SendReceipts ==
  ASSUME BaseInv, ReceiptInv, BaseInv', NEW rid \in Id, NEW f \in Commands, NEW ids,
         counter <= rid, f.cmd \in {"SUBSCRIBE", "UNSUBSCRIBE"}, f.rid = rid, rid \in ids,
         SendCommand(f, ids), DOMAIN receipts' = DOMAIN receipts \cup {rid},
         UNCHANGED <<ctx, fromServer, session, destroyed>>
  PROVE  ReceiptInv'
<1>1. counter \in Nat /\ Id \subseteq Nat
  BY MapFacts
<1>2. toServer \in Seq(Commands) /\ OnceOnLink(toServer)
  BY DEF BaseInv, TypeOK, ReceiptInv, ReceiptsOnce
<1>3. \A r \in Id : AsksReceipt(f, r) <=> r = rid
  BY DEF AsksReceipt
<1>4. ~UnderWay(rid) /\ ~InRun(rid) /\ ~Asking(toServer, rid) /\ ~Asking(fromServer, rid)
  BY <1>1, AskedIsOld
<1>5. /\ OnceOnLink(toServer')
      /\ \A r \in Id : Asking(toServer, r) => Asking(toServer', r)
      /\ \A r \in Id : Asking(toServer', r) => Asking(toServer, r) \/ r = rid
      /\ rid \in unsent' \/ Asking(toServer', rid)
      /\ unsent \subseteq unsent'
  <2>1. CASE ready
    <3>1. toServer' = Append(toServer, f) /\ UNCHANGED unsent
      BY <2>1 DEF SendCommand
    <3>2. \A r \in Id : AsksReceipt(f, r) => ~Asking(toServer, r)
      BY <1>3, <1>4
    <3>3. OnceOnLink(Append(toServer, f)) /\ \A r \in Id :
             Asking(Append(toServer, f), r) <=> Asking(toServer, r) \/ AsksReceipt(f, r)
      BY <1>2, <3>2, AskAppend
    <3>4. QED
      BY <1>3, <3>1, <3>3
  <2>2. CASE ~ready
    BY <1>2, <2>2 DEF SendCommand
  <2>3. QED
    BY <2>1, <2>2
<1>6. ReceiptsOnce'
  BY <1>4, <1>5 DEF ReceiptInv, ReceiptsOnce, InRun
<1>7. ReceiptsOnTheirWay'
  <2>1. \A r \in Id : UnderWay(r)' <=> Asking(toServer', r) \/ Asking(fromServer', r)
    <3> TAKE r \in Id
    <3>1. QED
      BY DEF UnderWay, Asking, Members
  <2>2. \A r \in Id : UnderWay(r) <=> Asking(toServer, r) \/ Asking(fromServer, r)
    BY AskedIsOld
  <2>3. DOMAIN receipts \subseteq Id
    BY DEF BaseInv, TypeOK, MapsTyped
  <2>4. ASSUME session' # "closed", NEW r \in DOMAIN receipts'
        PROVE  UnderWay(r)' \/ r \in unsent' \/ (ctx'.at = "receipt" /\ ctx'.rid = r)
    BY <1>5, <2>1, <2>2, <2>3, <2>4 DEF ReceiptInv, ReceiptsOnTheirWay
  <2>5. ASSUME ~destroyed', NEW r \in Id, UnderWay(r)'
        PROVE  r \in DOMAIN receipts'
    BY <1>5, <2>1, <2>2, <2>5 DEF ReceiptInv, ReceiptsOnTheirWay
  <2>6. QED
    BY <2>4, <2>5 DEF ReceiptsOnTheirWay
<1>8. QED
  BY <1>6, <1>7 DEF ReceiptInv

\* Nothing new is asked for or answered, and the store keeps its entries; what
\* was under way may go only when the session ends.
LEMMA KeepReceipts ==
  ASSUME BaseInv, ReceiptInv, DOMAIN receipts' = DOMAIN receipts,
         UNCHANGED <<unsent, destroyed>>,
         session' # "closed" => session # "closed",
         OnceOnLink(toServer'), OnceOnLink(fromServer'),
         \A rid \in Id :
           /\ Asking(toServer', rid) => Asking(toServer, rid)
           /\ Asking(fromServer', rid) <=> Asking(fromServer, rid)
           /\ session' # "closed" /\ Asking(toServer, rid) => Asking(toServer', rid)
           /\ ctx'.at = "receipt" /\ ctx'.rid = rid <=> ctx.at = "receipt" /\ ctx.rid = rid
  PROVE  ReceiptInv'
<1>1. ReceiptsOnce'
  BY DEF ReceiptInv, ReceiptsOnce, InRun
<1>2. \A rid \in Id : UnderWay(rid) <=> Asking(toServer, rid) \/ Asking(fromServer, rid)
  BY AskedIsOld
<1>3. \A rid \in Id : UnderWay(rid)' <=> Asking(toServer', rid) \/ Asking(fromServer', rid)
  <2> TAKE rid \in Id
  <2>1. QED
    BY DEF UnderWay, Asking, Members
<1>4. DOMAIN receipts \subseteq Id
  BY DEF BaseInv, TypeOK, MapsTyped
<1>5. ReceiptsOnTheirWay'
  BY <1>2, <1>3, <1>4 DEF ReceiptInv, ReceiptsOnTheirWay
<1>6. QED
  BY <1>1, <1>5 DEF ReceiptInv

\* The server reads a command that asks for a receipt, and confirms it.
LEMMA ConfirmReceipts ==
  ASSUME BaseInv, ReceiptInv, [Next]_vars, ServerSubscribes \/ ServerUnsubscribes
  PROVE  ReceiptInv'
<1> DEFINE f == Head(toServer)
           rid == f.rid
<1>1. /\ toServer # <<>> /\ toServer' = Tail(toServer)
      /\ f.cmd \in {"SUBSCRIBE", "UNSUBSCRIBE"}
      /\ fromServer' = Append(fromServer, RECEIPT(rid))
      /\ UNCHANGED <<session, client, ctx, unsent>>
  BY DEF ServerSubscribes, ServerUnsubscribes, Told, Tell, ClientStays
<1>2. f \in Commands
  BY <1>1, LinkHeads DEF BaseInv
<1>3. /\ rid \in Id /\ RECEIPT(rid) \in Replies
      /\ \A r \in Id : AsksReceipt(f, r) <=> r = rid
      /\ \A r \in Id : AsksReceipt(RECEIPT(rid), r) <=> r = rid
  BY <1>1, <1>2, FrameFields, FrameTypes DEF AsksReceipt, RECEIPT
<1>4. /\ toServer \in Seq(Commands) /\ OnceOnLink(toServer)
      /\ fromServer \in Seq(Replies) /\ OnceOnLink(fromServer)
  BY DEF BaseInv, TypeOK, ReceiptInv, ReceiptsOnce
<1>5. /\ OnceOnLink(toServer')
      /\ \A r \in Id : Asking(toServer, r) <=> Asking(toServer', r) \/ r = rid
      /\ ~Asking(toServer', rid)
  BY <1>1, <1>3, <1>4, AskTail
<1>6. ~Asking(fromServer, rid) /\ ~InRun(rid)
  BY <1>3, <1>5 DEF ReceiptInv, ReceiptsOnce
<1>7. /\ OnceOnLink(fromServer')
      /\ \A r \in Id : Asking(fromServer', r) <=> Asking(fromServer, r) \/ r = rid
  <2>1. \A r \in Id : AsksReceipt(RECEIPT(rid), r) => ~Asking(fromServer, r)
    BY <1>3, <1>6
  <2> HIDE DEF rid
  <2>2. QED
    BY <1>1, <1>3, <1>4, <2>1, AskAppend
<1> HIDE DEF f, rid
<1>8. ReceiptsOnce'
  BY <1>1, <1>3, <1>5, <1>6, <1>7 DEF ReceiptInv, ReceiptsOnce, InRun
<1>9. \A r \in Id : UnderWay(r) <=> Asking(toServer, r) \/ Asking(fromServer, r)
  BY AskedIsOld
<1>10. \A r \in Id : UnderWay(r)' <=> Asking(toServer', r) \/ Asking(fromServer', r)
  <2> TAKE r \in Id
  <2>1. QED
    BY DEF UnderWay, Asking, Members
<1>11. \A r \in Id : UnderWay(r)' <=> UnderWay(r)
  BY <1>5, <1>7, <1>9, <1>10
<1>12. DOMAIN receipts \subseteq Id
  BY DEF BaseInv, TypeOK, MapsTyped
<1>13. ReceiptsOnTheirWay'
  BY <1>1, <1>11, <1>12 DEF ReceiptInv, ReceiptsOnTheirWay, client
<1>14. QED
  BY <1>8, <1>13 DEF ReceiptInv

\* A receipt is taken from the link.
LEMMA TakeReceipts ==
  ASSUME BaseInv, ReceiptInv, ReceiveReceipt \/ ReceiveStrayReceipt
  PROVE  ReceiptInv'
<1> DEFINE f == Head(fromServer)
           rid == f.rid
<1>1. /\ fromServer # <<>> /\ fromServer' = Tail(fromServer) /\ f.cmd = "RECEIPT"
      /\ ctx = Idle /\ UNCHANGED <<client, toServer, server, unsent>>
      /\ \/ rid \in DOMAIN receipts /\ ctx'.at = "receipt" /\ ctx'.rid = rid
         \/ rid \notin DOMAIN receipts /\ UNCHANGED ctx
  BY DEF ReceiveReceipt, ReceiveStrayReceipt, Receives, Consume
<1>2. f \in Replies
  BY <1>1, LinkHeads DEF BaseInv
<1>3. rid \in Id /\ \A r \in Id : AsksReceipt(f, r) <=> r = rid
  BY <1>1, <1>2, FrameFields DEF AsksReceipt
<1>4. /\ fromServer \in Seq(Replies) /\ OnceOnLink(fromServer) /\ OnceOnLink(toServer)
  BY DEF BaseInv, TypeOK, ReceiptInv, ReceiptsOnce
<1>5. /\ OnceOnLink(fromServer')
      /\ \A r \in Id : Asking(fromServer, r) <=> Asking(fromServer', r) \/ r = rid
      /\ ~Asking(fromServer', rid)
  BY <1>1, <1>3, <1>4, AskTail
<1>6. ~Asking(toServer, rid)
  BY <1>3, <1>5 DEF ReceiptInv, ReceiptsOnce
<1>7. ctx.at # "receipt"
  BY <1>1 DEF Idle
<1> HIDE DEF f, rid
<1>8. ReceiptsOnce'
  BY <1>1, <1>3, <1>4, <1>5, <1>6, <1>7 DEF ReceiptInv, ReceiptsOnce, InRun
<1>9. \A r \in Id : UnderWay(r) <=> Asking(toServer, r) \/ Asking(fromServer, r)
  BY AskedIsOld
<1>10. \A r \in Id : UnderWay(r)' <=> Asking(toServer', r) \/ Asking(fromServer', r)
  <2> TAKE r \in Id
  <2>1. QED
    BY DEF UnderWay, Asking, Members
<1>11. \A r \in Id : UnderWay(r) <=> UnderWay(r)' \/ r = rid
  BY <1>1, <1>5, <1>9, <1>10
<1>12. DOMAIN receipts \subseteq Id
  BY DEF BaseInv, TypeOK, MapsTyped
<1>13. ReceiptsOnTheirWay'
  BY <1>1, <1>7, <1>11, <1>12 DEF ReceiptInv, ReceiptsOnTheirWay, client, server
<1>14. QED
  BY <1>8, <1>13 DEF ReceiptInv

\* The notices of a receipt are sent, and its entry goes.
LEMMA FinishReceipts ==
  ASSUME BaseInv, ReceiptInv, ReceiptEnds
  PROVE  ReceiptInv'
<1>1. /\ ctx.at = "receipt" /\ ctx' = Idle /\ receipts' = Drop(receipts, ctx.rid)
      /\ UNCHANGED <<toServer, fromServer, session, unsent, destroyed>>
  BY DEF ReceiptEnds, server
<1>2. DOMAIN receipts' = DOMAIN receipts \ {ctx.rid}
  BY <1>1, DropFacts
<1>3. ctx'.at # "receipt"
  BY <1>1 DEF Idle
<1>4. ReceiptsOnce'
  BY <1>1, <1>3 DEF ReceiptInv, ReceiptsOnce, InRun
<1>5. /\ \A r \in Id : UnderWay(r)' <=> UnderWay(r)
      /\ ctx.rid \in Id => ~UnderWay(ctx.rid)
  <2>1. \A r \in Id : UnderWay(r)' <=> UnderWay(r)
    <3> TAKE r \in Id
    <3>1. QED
      BY <1>1 DEF UnderWay
  <2>2. ctx.rid \in Id => ~UnderWay(ctx.rid)
    BY <1>1, AskedIsOld DEF ReceiptInv, ReceiptsOnce, InRun
  <2>3. QED
    BY <2>1, <2>2
<1>6. DOMAIN receipts \subseteq Id
  BY DEF BaseInv, TypeOK, MapsTyped
<1>7. ReceiptsOnTheirWay'
  BY <1>1, <1>2, <1>3, <1>5, <1>6 DEF ReceiptInv, ReceiptsOnTheirWay
<1>8. QED
  BY <1>4, <1>7 DEF ReceiptInv

\* A step that sends no command that asks for a receipt, and in which the server
\* confirms none, asks for nothing new; the link loses commands that ask only
\* when the session is closed.
LEMMA PlainToServer ==
  ASSUME BaseInv, ReceiptInv, [Next]_vars, ~ServerSubscribes, ~ServerUnsubscribes,
         \A f \in Commands : ~Sends(f)
  PROVE  /\ OnceOnLink(toServer')
         /\ \A rid \in Id :
              /\ Asking(toServer', rid) => Asking(toServer, rid)
              /\ session' # "closed" /\ Asking(toServer, rid) => Asking(toServer', rid)
<1>1. toServer \in Seq(Commands) /\ OnceOnLink(toServer)
  BY DEF BaseInv, TypeOK, ReceiptInv, ReceiptsOnce
<1>2. CASE UNCHANGED toServer
  BY <1>1, <1>2
<1>3. CASE ServerReads /\ toServer # <<>> /\ toServer' = Tail(toServer)
  <2>1. session' # "closed" => ~Asks(Head(toServer))
    BY <1>3 DEF ServerReads, ServerConnects, ServerHears, ServerDisconnects, ServerIgnores,
       Told, Asks, server
  <2>2. Head(toServer) \in Commands
    BY <1>3, LinkHeads DEF BaseInv
  <2>3. \A rid \in Id : session' # "closed" => ~AsksReceipt(Head(toServer), rid)
    BY <2>1, <2>2, FrameFields DEF AsksReceipt, Asks
  <2>4. QED
    BY <1>1, <1>3, <2>3, AskTail
<1>4. CASE CommandSent
  <2>1. PICK f \in Commands : toServer' = Append(toServer, f) /\ ~Asks(f)
    BY <1>4 DEF CommandSent
  <2>2. \A rid \in Id : ~AsksReceipt(f, rid)
    BY <2>1, FrameFields DEF AsksReceipt, Asks
  <2>3. QED
    BY <1>1, <2>1, <2>2, AskAppend
<1>5. QED
  BY <1>2, <1>3, <1>4, ToServerStep

LEMMA PlainFromServer ==
  ASSUME BaseInv, ReceiptInv, [Next]_vars, ~ServerSubscribes, ~ServerUnsubscribes,
         ~ReceiveReceipt, ~ReceiveStrayReceipt
  PROVE  /\ OnceOnLink(fromServer')
         /\ \A rid \in Id : Asking(fromServer', rid) <=> Asking(fromServer, rid)
<1>1. fromServer \in Seq(Replies) /\ OnceOnLink(fromServer)
  BY DEF BaseInv, TypeOK, ReceiptInv, ReceiptsOnce
<1>2. CASE UNCHANGED fromServer
  BY <1>1, <1>2
<1>3. CASE Client /\ ~UNCHANGED fromServer
  <2>1. /\ fromServer # <<>> /\ fromServer' = Tail(fromServer)
        /\ Head(fromServer).cmd \in {"CONNECTED", "ERROR", "MESSAGE"}
    BY <1>3 DEF Client, ReceiveConnected, ReceiveError, ReceiveMessage, ReceiveStray,
       HandlerEnds, MessageEnds, NextNotice, ReceiptEnds, Receives, Consume
  <2>2. \A rid \in Id : ~AsksReceipt(Head(fromServer), rid)
    BY <2>1 DEF AsksReceipt
  <2>3. QED
    BY <1>1, <2>1, <2>2, AskTail
<1>4. CASE ReplySent
  <2>1. PICK f \in Replies : fromServer' = Append(fromServer, f) /\ f.cmd # "RECEIPT"
    BY <1>4 DEF ReplySent, Confirms
  <2>2. \A rid \in Id : ~AsksReceipt(f, rid)
    BY <2>1, FrameFields DEF AsksReceipt
  <2>3. QED
    BY <1>1, <2>1, <2>2, AskAppend
<1>5. QED
  BY <1>2, <1>3, <1>4, FromServerStep

\* Only ReceiveReceipt and ReceiptEnds begin and end the run of a receipt.
LEMMA SameRun ==
  ASSUME BaseInv, [Next]_vars, ~ReceiveReceipt, ~ReceiptEnds, NEW rid \in Id
  PROVE  ctx'.at = "receipt" /\ ctx'.rid = rid <=> ctx.at = "receipt" /\ ctx.rid = rid
<1>1. CASE UNCHANGED ctx
  BY <1>1
<1>2. CASE ReceiveMessage
  BY <1>2 DEF ReceiveMessage, Receives, Idle
<1>3. CASE HandlerEnds
  <2>1. PICK ok \in BOOLEAN : ctx' = [ctx EXCEPT !.todo = Tail(@), !.handled = @ /\ ok]
    BY <1>3 DEF HandlerEnds
  <2>2. ctx.at = "message" /\ ctx'.at = "message"
    BY <1>3, <2>1, ContextFacts DEF HandlerEnds
  <2>3. QED
    BY <2>2
<1>4. CASE MessageEnds
  BY <1>4 DEF MessageEnds, Idle
<1>5. CASE NextNotice
  <2>1. ctx.at = "receipt" /\ ctx' = [ctx EXCEPT !.todo = Tail(@)]
    BY <1>5 DEF NextNotice
  <2>2. ctx'.at = "receipt" /\ ctx'.rid = ctx.rid
    BY <2>1, ContextFacts
  <2>3. QED
    BY <2>1, <2>2
<1>6. CASE App \/ Server
  BY <1>6 DEF App, SubscribeFirst, SubscribeAgain, UnsubscribeOne, UnsubscribeLast, Dispatch,
     Destroy, Server, ServerReads, ServerConnects, ServerSubscribes, ServerUnsubscribes,
     ServerHears, ServerDisconnects, ServerIgnores, ServerSends, ServerFails, ClientStays
<1>7. CASE ReceiveConnected \/ ReceiveError \/ ReceiveStray \/ ReceiveStrayReceipt
  BY <1>7 DEF ReceiveConnected, ReceiveError, ReceiveStray, ReceiveStrayReceipt
<1>8. QED
  BY <1>1, <1>2, <1>3, <1>4, <1>5, <1>6, <1>7 DEF Next, Client, vars

\* Whatever asks for a receipt uses up an id.
LEMMA SendsCounts ==
  ASSUME BaseInv, NEW f, Sends(f)
  PROVE  counter' # counter
<1>1. counter \in Nat
  BY MapFacts
<1>2. ASSUME NEW d \in Destination, NEW h \in Handler, SubscribeFirst(d, h)
      PROVE  counter' = counter + 2
  BY <1>2 DEF SubscribeFirst
<1>3. ASSUME NEW d \in Destination, NEW h \in Handler, UnsubscribeLast(d, h)
      PROVE  counter' = counter + 1
  BY <1>3 DEF UnsubscribeLast
<1>4. QED
  BY <1>1, <1>2, <1>3 DEF Sends

LEMMA NextReceipts ==
  ASSUME BaseInv, BaseInv', ReceiptInv, [Next]_vars
  PROVE  ReceiptInv'
<1>1. ASSUME NEW d \in Destination, NEW h \in Handler, SubscribeFirst(d, h)
      PROVE  ReceiptInv'
  <2> DEFINE id == counter
             rid == counter + 1
             f == SUBSCRIBE(id, d, rid)
  <2>1. /\ id \in Id /\ rid \in Id /\ DOMAIN receipts' = DOMAIN receipts \cup {rid}
        /\ SendCommand(f, {id, rid}) /\ UNCHANGED <<destroyed, ctx, fromServer, session>>
    BY <1>1, SubscribeFirstEffect DEF server
  <2>2. f \in Commands /\ f.cmd = "SUBSCRIBE" /\ f.rid = rid
    BY <2>1, FrameTypes DEF SUBSCRIBE
  <2>3. counter <= rid
    BY MapFacts
  <2> HIDE DEF id, rid, f
  <2>4. QED
    BY <2>1, <2>2, <2>3, SendReceipts
<1>2. ASSUME NEW d \in Destination, NEW h \in Handler, UnsubscribeLast(d, h)
      PROVE  ReceiptInv'
  <2> DEFINE rid == counter
             f == UNSUBSCRIBE(destinations[d], rid)
  <2>1. /\ rid \in Id /\ destinations[d] \in Id
        /\ DOMAIN receipts' = DOMAIN receipts \cup {rid}
        /\ SendCommand(f, {rid}) /\ UNCHANGED <<destroyed, ctx, fromServer, session>>
    BY <1>2, UnsubscribeLastEffect, MapFacts DEF server
  <2>2. f \in Commands /\ f.cmd = "UNSUBSCRIBE" /\ f.rid = rid
    BY <2>1, FrameTypes DEF UNSUBSCRIBE
  <2>3. counter <= rid
    BY MapFacts
  <2> HIDE DEF rid, f
  <2>4. QED
    BY <2>1, <2>2, <2>3, SendReceipts
<1>3. CASE ServerSubscribes \/ ServerUnsubscribes
  BY <1>3, ConfirmReceipts
<1>4. CASE ReceiveReceipt \/ ReceiveStrayReceipt
  BY <1>4, TakeReceipts
<1>5. CASE ReceiptEnds
  BY <1>5, FinishReceipts
<1>6. CASE Destroy
  <2>1. /\ destroyed' /\ DOMAIN receipts' = {} /\ UNCHANGED <<counter, ctx, fromServer>>
    BY <1>6 DEF Destroy, Empty
  <2>2. \A f \in Commands : ~Sends(f)
    BY <2>1, SendsCounts
  <2>3. ~ServerSubscribes /\ ~ServerUnsubscribes
    BY <1>6, <2>1 DEF Destroy, ServerSubscribes, ServerUnsubscribes, Tell
  <2>4. OnceOnLink(toServer') /\ \A rid \in Id : Asking(toServer', rid) => Asking(toServer, rid)
    BY <2>2, <2>3, PlainToServer
  <2>5. ReceiptsOnce'
    BY <2>1, <2>4 DEF ReceiptInv, ReceiptsOnce, InRun
  <2>6. QED
    BY <2>1, <2>5 DEF ReceiptInv, ReceiptsOnTheirWay
<1>7. ASSUME UNCHANGED <<counter, unsent, destroyed>>, DOMAIN receipts' = DOMAIN receipts,
             ~ServerSubscribes, ~ServerUnsubscribes, ~ReceiveReceipt, ~ReceiveStrayReceipt,
             ~ReceiptEnds
      PROVE  ReceiptInv'
  <2>1. \A f \in Commands : ~Sends(f)
    BY <1>7, SendsCounts
  <2>2. session' # "closed" => session # "closed"
    BY SessionStep
  <2>3. QED
    BY <1>7, <2>1, <2>2, PlainToServer, PlainFromServer, SameRun, KeepReceipts
<1>8. ASSUME NEW d \in Destination, NEW h \in Handler, SubscribeAgain(d, h) \/ UnsubscribeOne(d, h)
      PROVE  UNCHANGED <<counter, unsent, destroyed>> /\ DOMAIN receipts' = DOMAIN receipts
  <2>1. CASE SubscribeAgain(d, h)
    BY <2>1, HandlersEffect, SubscribeAgainEffect
  <2>2. CASE UnsubscribeOne(d, h)
    BY <2>2, HandlersEffect DEF UnsubscribeOne
  <2>3. QED
    BY <1>8, <2>1, <2>2
<1>9. CASE Quiet
  <2>1. UNCHANGED <<counter, receipts, destroyed>>
    BY <1>9, QuietMaps
  <2>2. UNCHANGED unsent
    BY <1>9 DEF Quiet, Dispatch, ReceiveConnected, ReceiveError, ReceiveMessage, ReceiveStray,
       HandlerEnds, MessageEnds, ReceiveReceipt, ReceiveStrayReceipt, NextNotice, Server,
       ServerReads, ServerConnects, ServerSubscribes, ServerUnsubscribes, ServerHears,
       ServerDisconnects, ServerIgnores, ServerSends, ServerFails, ClientStays, SendCommand, vars
  <2>3. QED
    BY <1>3, <1>4, <1>5, <1>7, <2>1, <2>2
<1>10. QED
  BY <1>1, <1>2, <1>3, <1>4, <1>5, <1>6, <1>7, <1>8, <1>9, StepCases

\* The invariant behind the store of receipts: a receipt is on one link at most,
\* and not any more when its notices are sent.
THEOREM ReceiptInvariant == Spec => []ReceiptInv
<1>1. Init => ReceiptInv
  <2> SUFFICES ASSUME Init PROVE ReceiptInv
    OBVIOUS
  <2>1. /\ toServer = <<Frame("CONNECT")>> /\ fromServer = <<>> /\ ctx = Idle
        /\ DOMAIN receipts = {} /\ Len(toServer) = 1 /\ toServer[1].cmd = "CONNECT"
        /\ Len(fromServer) = 0
    BY DEF Init, Empty, Frame
  <2>2. \A i \in 1..Len(toServer), rid \in Id : ~AsksReceipt(toServer[i], rid)
    BY <2>1 DEF AsksReceipt
  <2>3. \A rid \in Id : ~UnderWay(rid) /\ ~Asking(toServer, rid) /\ ~Asking(fromServer, rid)
    BY <2>1, <2>2 DEF UnderWay, Asking, Members
  <2>4. ReceiptsOnce
    BY <2>1, <2>2, <2>3 DEF ReceiptsOnce, OnceOnLink
  <2>5. ReceiptsOnTheirWay
    BY <2>1, <2>3 DEF ReceiptsOnTheirWay
  <2>6. QED
    BY <2>4, <2>5 DEF ReceiptInv
<1>2. BaseInv /\ BaseInv' /\ ReceiptInv /\ [Next]_vars => ReceiptInv'
  BY NextReceipts
<1>3. QED
  BY <1>1, <1>2, BaseInvariant, PTL DEF Spec

\* The store of receipts neither leaks nor lacks: an entry waits for a receipt
\* that is still to come, is being run, or belongs to a command that was never
\* sent, and a receipt that comes has its entry (stomp.js:280-286).
THEOREM ReceiptsComplete == Spec => []ReceiptsOnTheirWay
<1>1. ReceiptInv => ReceiptsOnTheirWay
  BY DEF ReceiptInv
<1>2. QED
  BY <1>1, ReceiptInvariant, PTL
=============================================================================
