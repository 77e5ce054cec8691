-------------------------- MODULE MessageBusProofs --------------------------
(***************************************************************************)
(* Theorems about MessageBus, for every tree of buses, every wiring and    *)
(* every depth of the stack.                                               *)
(***************************************************************************)
EXTENDS MessageBus, HandlerListProofs

Frames == SendFrames \cup HandleFrames

-----------------------------------------------------------------------------
(* The constants: where channels, outputs and headers lead. *)

LEMMA ChannelFacts ==
  ASSUME NEW c \in Channel
  PROVE  /\ HomeOf(c) \in Bus
         /\ DLC(HomeOf(c)) \in Channel
         /\ IMC(HomeOf(c)) \in Channel
<1>1. HomeOf(c) \in Bus
  <2>1. CASE c \in AppChannel
    BY <2>1, ChannelAssumption DEF HomeOf
  <2>2. CASE c \notin AppChannel
    <3>1. PICK b \in Bus : c = DLC(b) \/ c = IMC(b)
      BY <2>2 DEF Channel
    <3>2. c[2] = b
      BY <3>1 DEF DLC, IMC
    <3>3. QED
      BY <2>2, <3>2 DEF HomeOf
  <2>3. QED
    BY <2>1, <2>2
<1>2. QED
  BY <1>1 DEF Channel

LEMMA RouteFacts ==
  ASSUME NEW h \in Handler, NEW m \in Message
  PROVE  NextOutput(h, m) \in ChannelRef /\ NextError(h, m) \in ChannelRef
<1>1. ChannelOf(h) \in ChannelRef
  <2>1. CASE h \in AppHandler
    BY <2>1, HandlerAssumption DEF ChannelOf
  <2>2. CASE h \notin AppHandler
    <3>1. PICK c \in Channel : h = Forwarder(c)
      BY <2>2 DEF Handler
    <3>2. h[2] = c
      BY <3>1 DEF Forwarder
    <3>3. QED
      BY <2>2, <3>2 DEF ChannelOf, ChannelRef
  <2>3. QED
    BY <2>1, <2>2
<1>2. ReplyTo[m] \in ChannelRef /\ ErrorTo[m] \in ChannelRef
  BY MessageAssumption
<1>3. h \in AppHandler => ErrorOutput[h] \in ChannelRef
  BY HandlerAssumption
<1>4. QED
  BY <1>1, <1>2, <1>3 DEF NextOutput, NextError

-----------------------------------------------------------------------------
(* The invariant.  It adds to TypeOK, Coherent and NoDoubleDelivery that the *)
(* activations are well nested: a send is called by the application, by a    *)
(* handler or by a send that reports; a handler is called by a dispatch that *)
(* will not call it again.                                                   *)

FrameOK(f) ==
  IsSend(f) => /\ Distinct(f.todo)
               /\ f.at = "dead" => f.ch # DLC(HomeOf(f.ch))
               /\ f.at = "invalid" => f.ch # IMC(HomeOf(f.ch))

LinkOK(f, g) ==
  IF IsSend(f)
    THEN IsSend(g) => g.at \in {"dead", "invalid"}
    ELSE IsSend(g) /\ g.at \in {"tap", "dispatch"} /\ f.h \notin Members(g.todo)

StackOK(q) ==
  /\ \A i \in 1..Len(q) : FrameOK(q[i])
  /\ \A i \in 2..Len(q) : LinkOK(q[i-1], q[i])
  /\ q # <<>> => IsSend(q[Len(q)])

ListsOK ==
  \A c \in Channel : /\ IsList(handlers[c]) => Distinct(handlers[c])
                     /\ IsList(taps[c]) => Distinct(taps[c])

Sound ==
  /\ stack \in Seq(Frames) /\ StackOK(stack)
  /\ exc \in {"none", "error", "overflow"} /\ SendContainsErrors

BusInv == TypeOK /\ ListsOK /\ Sound

\* A frame that an activation may become: same kind, same handler.
Same(f, g) == IsSend(f) = IsSend(g) /\ (~IsSend(g) => f.h = g.h)

LEMMA FrameKinds ==
  ASSUME NEW f \in Frames
  PROVE  /\ f.at \in {"tap", "dispatch", "dead", "invalid"}
              => f \in SendFrames /\ IsSend(f)
         /\ f.at \in {"body", "output", "error"}
              => f \in HandleFrames /\ ~IsSend(f)
         /\ f \in SendFrames => IsSend(f)
         /\ f \in HandleFrames => ~IsSend(f)
  BY DEF Frames, SendFrames, HandleFrames, IsSend

LEMMA StackPush ==
  ASSUME NEW q \in Seq(Frames), q # <<>>, StackOK(q),
         NEW a \in Frames, NEW b \in Frames,
         FrameOK(a), FrameOK(b), LinkOK(a, b), Same(b, Head(q))
  PROVE  StackOK(<<a, b>> \o Tail(q)) /\ <<a, b>> \o Tail(q) \in Seq(Frames)
<1> DEFINE p == <<a, b>> \o Tail(q)
<1>1. /\ p \in Seq(Frames) /\ Len(p) = Len(q) + 1 /\ p[1] = a /\ p[2] = b
      /\ \A i \in 3..Len(p) : p[i] = q[i-1]
  BY PushFacts
<1>2. Len(q) \in Nat /\ Len(q) > 0 /\ Head(q) = q[1]
  BY LenProperties, EmptySeq, PopFacts
<1> HIDE DEF p
<1>3. \A i \in 1..Len(p) : FrameOK(p[i])
  <2>1. \A i \in 3..Len(p) : i - 1 \in 1..Len(q)
    BY <1>1, <1>2
  <2>2. \A i \in 1..Len(p) : i = 1 \/ i = 2 \/ i \in 3..Len(p)
    BY <1>1, <1>2
  <2>3. QED
    BY <1>1, <2>1, <2>2 DEF StackOK
<1>4. \A i \in 2..Len(p) : LinkOK(p[i-1], p[i])
  <2> SUFFICES ASSUME NEW i \in 2..Len(p) PROVE LinkOK(p[i-1], p[i])
    OBVIOUS
  <2>1. CASE i = 2
    BY <1>1, <2>1
  <2>2. CASE i = 3
    <3>1. p[2] = b /\ p[3] = q[2] /\ 2 \in 2..Len(q)
      BY <1>1, <1>2, <2>2
    <3>2. LinkOK(q[1], q[2])
      BY <3>1 DEF StackOK
    <3>3. QED
      BY <1>2, <2>2, <3>1, <3>2 DEF LinkOK, Same
  <2>3. CASE i > 3
    <3>1. i - 1 \in 3..Len(p) /\ i - 1 \in 2..Len(q) /\ i \in 3..Len(p)
      BY <1>1, <1>2, <2>3
    <3>2. p[i] = q[i-1] /\ p[i-1] = q[(i-1)-1]
      BY <1>1, <3>1
    <3>3. QED
      BY <3>1, <3>2 DEF StackOK
  <2>4. QED
    BY <1>1, <1>2, <2>1, <2>2, <2>3
<1>5. IsSend(p[Len(p)])
  <2>1. CASE Len(q) = 1
    BY <1>1, <1>2, <2>1 DEF Same, StackOK
  <2>2. CASE Len(q) > 1
    <3>1. Len(p) \in 3..Len(p) /\ Len(p) - 1 = Len(q)
      BY <1>1, <1>2, <2>2
    <3>2. QED
      BY <1>1, <3>1 DEF StackOK
  <2>3. Len(q) = 1 \/ Len(q) > 1
    <3>1. \A n \in Nat : n > 0 => n = 1 \/ n > 1
      OBVIOUS
    <3>2. QED
      BY <1>2, <3>1
  <2>4. QED
    BY <2>1, <2>2, <2>3
<1>6. QED
  BY <1>1, <1>3, <1>4, <1>5 DEF StackOK, p

LEMMA StackGoto ==
  ASSUME NEW q \in Seq(Frames), q # <<>>, StackOK(q),
         NEW b \in Frames, FrameOK(b), Same(b, Head(q))
  PROVE  StackOK(<<b>> \o Tail(q)) /\ <<b>> \o Tail(q) \in Seq(Frames)
         /\ <<b>> \o Tail(q) # <<>> /\ Head(<<b>> \o Tail(q)) = b
<1> DEFINE p == <<b>> \o Tail(q)
<1>1. /\ p \in Seq(Frames) /\ Len(p) = Len(q) /\ p[1] = b
      /\ \A i \in 2..Len(p) : p[i] = q[i]
  BY GotoFacts
<1>2. Len(q) \in Nat /\ Len(q) > 0 /\ Head(q) = q[1]
  BY LenProperties, EmptySeq, PopFacts
<1> HIDE DEF p
<1>3. p # <<>> /\ Head(p) = b
  BY <1>1, <1>2, EmptySeq, PopFacts
<1>4. \A i \in 1..Len(p) : FrameOK(p[i])
  <2>1. \A i \in 1..Len(p) : i = 1 \/ i \in 2..Len(p)
    BY <1>1, <1>2
  <2>2. QED
    BY <1>1, <2>1 DEF StackOK
<1>5. \A i \in 2..Len(p) : LinkOK(p[i-1], p[i])
  <2> SUFFICES ASSUME NEW i \in 2..Len(p) PROVE LinkOK(p[i-1], p[i])
    OBVIOUS
  <2>1. LinkOK(q[i-1], q[i])
    BY <1>1 DEF StackOK
  <2>2. CASE i = 2
    BY <1>1, <1>2, <2>1, <2>2 DEF LinkOK, Same
  <2>3. CASE i > 2
    <3>1. i - 1 \in 2..Len(p)
      BY <1>1, <1>2, <2>3
    <3>2. QED
      BY <1>1, <2>1, <3>1
  <2>4. QED
    BY <2>2, <2>3
<1>6. IsSend(p[Len(p)])
  <2>1. IsSend(q[Len(q)])
    BY DEF StackOK
  <2>2. CASE Len(q) = 1
    BY <1>1, <1>2, <2>1, <2>2 DEF Same
  <2>3. CASE Len(q) > 1
    <3>1. Len(p) \in 2..Len(p)
      BY <1>1, <1>2, <2>3
    <3>2. QED
      BY <1>1, <2>1, <3>1
  <2>4. Len(q) = 1 \/ Len(q) > 1
    <3>1. \A n \in Nat : n > 0 => n = 1 \/ n > 1
      OBVIOUS
    <3>2. QED
      BY <1>2, <3>1
  <2>5. QED
    BY <2>2, <2>3, <2>4
<1>7. QED
  BY <1>1, <1>3, <1>4, <1>5, <1>6 DEF StackOK, p

LEMMA StackPop ==
  ASSUME NEW q \in Seq(Frames), q # <<>>, StackOK(q)
  PROVE  /\ Tail(q) \in Seq(Frames) /\ StackOK(Tail(q))
         /\ ~IsSend(Head(q)) => /\ Tail(q) # <<>> /\ IsSend(Head(Tail(q)))
                                /\ Head(Tail(q)).at \in {"tap", "dispatch"}
<1> DEFINE p == Tail(q)
<1>1. /\ p \in Seq(Frames) /\ Len(p) = Len(q) - 1 /\ Head(q) = q[1]
      /\ \A i \in 1..Len(p) : p[i] = q[i+1]
  BY PopFacts
<1>2. Len(q) \in Nat /\ Len(q) > 0
  BY LenProperties, EmptySeq
<1> HIDE DEF p
<1>3. \A i \in 1..Len(p) : FrameOK(p[i])
  <2>1. \A i \in 1..Len(p) : i + 1 \in 1..Len(q)
    BY <1>1, <1>2
  <2>2. QED
    BY <1>1, <2>1 DEF StackOK
<1>4. \A i \in 2..Len(p) : LinkOK(p[i-1], p[i])
  <2> SUFFICES ASSUME NEW i \in 2..Len(p) PROVE LinkOK(p[i-1], p[i])
    OBVIOUS
  <2>1. /\ i + 1 \in 2..Len(q) /\ i \in 1..Len(p) /\ i - 1 \in 1..Len(p)
        /\ (i + 1) - 1 = i /\ (i - 1) + 1 = i
    BY <1>1, <1>2
  <2>2. p[i] = q[i+1] /\ p[i-1] = q[i]
    BY <1>1, <2>1
  <2>3. LinkOK(q[(i+1)-1], q[i+1])
    BY <2>1 DEF StackOK
  <2>4. QED
    BY <2>1, <2>2, <2>3
<1>5. p # <<>> => IsSend(p[Len(p)])
  <2> SUFFICES ASSUME p # <<>> PROVE IsSend(p[Len(p)])
    OBVIOUS
  <2>1. Len(p) > 0
    BY <1>1, EmptySeq
  <2>2. Len(p) \in 1..Len(p) /\ Len(p) + 1 = Len(q)
    BY <1>1, <1>2, <2>1
  <2>3. QED
    BY <1>1, <2>2 DEF StackOK
<1>6. ASSUME ~IsSend(Head(q))
      PROVE  p # <<>> /\ IsSend(Head(p)) /\ Head(p).at \in {"tap", "dispatch"}
  <2>1. Len(q) # 1
    BY <1>1, <1>2, <1>6 DEF StackOK
  <2>2. 2 \in 2..Len(q) /\ 1 \in 1..Len(p) /\ 2 - 1 = 1 /\ 1 + 1 = 2
    BY <1>1, <1>2, <2>1
  <2>3. LinkOK(q[1], q[2])
    BY <2>2 DEF StackOK
  <2>4. p # <<>> /\ Head(p) = q[2]
    BY <1>1, <2>2, EmptySeq, PopFacts
  <2>5. QED
    BY <1>1, <1>6, <2>3, <2>4 DEF LinkOK
<1>7. QED
  BY <1>1, <1>3, <1>4, <1>5, <1>6 DEF StackOK, p
-----------------------------------------------------------------------------
(* The ways an activation continues keep the stack well nested. *)

LEMMA TopFacts ==
  ASSUME BusInv, stack # <<>>
  PROVE  /\ stack \in Seq(Frames) /\ StackOK(stack)
         /\ Top \in Frames /\ FrameOK(Top) /\ Top.msg \in Message
<1>1. stack \in Seq(Frames) /\ StackOK(stack)
  BY DEF BusInv, Sound
<1>2. Head(stack) \in Frames /\ Head(stack) = stack[1] /\ Len(stack) > 0 /\ Len(stack) \in Nat
  BY <1>1, PopFacts, EmptySeq, LenProperties
<1>3. 1 \in 1..Len(stack)
  BY <1>2
<1>4. FrameOK(Head(stack))
  BY <1>1, <1>2, <1>3 DEF StackOK
<1>5. Head(stack).msg \in Message
  BY <1>2 DEF Frames, SendFrames, HandleFrames
<1>6. QED
  BY <1>1, <1>2, <1>4, <1>5 DEF Top

LEMMA SendTop ==
  ASSUME BusInv, stack # <<>>, Top.at \in {"tap", "dispatch", "dead", "invalid"}
  PROVE  Top \in SendFrames /\ IsSend(Top)
  BY TopFacts, FrameKinds

LEMMA HandleTop ==
  ASSUME BusInv, stack # <<>>, Top.at \in {"body", "output", "error"}
  PROVE  Top \in HandleFrames /\ ~IsSend(Top)
  BY TopFacts, FrameKinds

LEMMA NewSend ==
  ASSUME BusInv, NEW c \in Channel, NEW m \in Message
  PROVE  /\ SendFrame(c, m) \in SendFrames
         /\ FrameOK(SendFrame(c, m)) /\ IsSend(SendFrame(c, m))
<1>1. IsList(taps[c]) => taps[c] \in Seq(Handler) /\ Distinct(taps[c])
  BY DEF BusInv, TypeOK, ListsOK, IsList
<1>2. <<>> \in Seq(Handler) /\ Distinct(<<>>)
  BY EmptySeq DEF Distinct
<1>3. SendFrame(c, m) \in SendFrames
  BY <1>1, <1>2 DEF SendFrame, SendFrames
<1>4. QED
  BY <1>1, <1>2, <1>3 DEF SendFrame, FrameOK, IsSend

LEMMA NewHandle ==
  ASSUME NEW h \in Handler, NEW m \in Message
  PROVE  HandleFrame(h, m) \in HandleFrames /\ ~IsSend(HandleFrame(h, m))
  BY DEF HandleFrame, HandleFrames, IsSend

LEMMA CallSound ==
  ASSUME BusInv, stack # <<>>, NEW a \in Frames, NEW b \in Frames,
         FrameOK(a), FrameOK(b), LinkOK(a, b), Same(b, Top), Call(b, a)
  PROVE  Sound'
<1>1. stack \in Seq(Frames) /\ StackOK(stack) /\ Same(b, Head(stack))
  BY TopFacts DEF Top
<1>2. CASE stack' = <<a, b>> \o Tail(stack) /\ exc' = "none"
  <2>1. stack' \in Seq(Frames) /\ StackOK(stack')
    BY <1>1, <1>2, StackPush
  <2>2. QED
    BY <1>2, <2>1 DEF Sound, SendContainsErrors
<1>3. CASE stack' = <<b>> \o Tail(stack) /\ exc' = "overflow"
  <2>1. stack' \in Seq(Frames) /\ StackOK(stack')
    BY <1>1, <1>3, StackGoto
  <2>2. QED
    BY <1>3, <2>1 DEF Sound, SendContainsErrors
<1>4. QED
  BY <1>2, <1>3 DEF Call

LEMMA GotoSound ==
  ASSUME BusInv, stack # <<>>, NEW b \in Frames, FrameOK(b), Same(b, Top),
         stack' = <<b>> \o Tail(stack),
         \/ exc' \in {"none", "overflow"}
         \/ exc' = "error" /\ b.at \notin {"dead", "invalid"}
  PROVE  Sound'
<1>1. stack \in Seq(Frames) /\ StackOK(stack) /\ Same(b, Head(stack))
  BY TopFacts DEF Top
<1>2. /\ stack' \in Seq(Frames) /\ StackOK(stack')
      /\ stack' # <<>> /\ Head(stack') = b
  BY <1>1, StackGoto
<1>3. QED
  BY <1>2 DEF Sound, SendContainsErrors, Top

LEMMA ReturnSound ==
  ASSUME BusInv, stack # <<>>, Return
  PROVE  Sound'
<1>1. stack' \in Seq(Frames) /\ StackOK(stack')
  BY TopFacts, StackPop DEF Return
<1>2. QED
  BY <1>1 DEF Return, Sound, SendContainsErrors

\* A throw out of a handler lands in a dispatch; out of a send that reports,
\* it is not an error of a handler.
LEMMA PropagateSound ==
  ASSUME BusInv, stack # <<>>, Propagate,
         Top.at \in {"body", "output", "error", "invalid"}
  PROVE  Sound'
<1>1. stack' = Tail(stack) /\ exc' = exc /\ stack' \in Seq(Frames) /\ StackOK(stack')
  BY TopFacts, StackPop DEF Propagate
<1>2. exc' \in {"none", "error", "overflow"}
  BY <1>1 DEF BusInv, Sound
<1>3. ASSUME exc' = "error"
      PROVE  stack' # <<>> /\ Head(stack').at \notin {"dead", "invalid"}
  <2>1. Top.at \in {"body", "output", "error"}
    BY <1>1, <1>3 DEF BusInv, Sound, SendContainsErrors
  <2>2. ~IsSend(Head(stack))
    BY <2>1, HandleTop DEF Top
  <2>3. stack' # <<>> /\ Head(stack').at \in {"tap", "dispatch"}
    BY <1>1, <2>2, TopFacts, StackPop
  <2>4. QED
    BY <2>3
<1>4. QED
  BY <1>1, <1>2, <1>3 DEF Sound, SendContainsErrors, Top

LEMMA FailSound ==
  ASSUME BusInv, stack # <<>>, Top \in SendFrames, Fail
  PROVE  Sound'
<1>1. Top.ch \in Channel /\ Top.msg \in Message /\ IMC(HomeOf(Top.ch)) \in Channel
  BY ChannelFacts DEF SendFrames
<1>2. CASE Top.ch = IMC(HomeOf(Top.ch))
  BY <1>2, ReturnSound DEF Fail
<1>3. CASE Top.ch # IMC(HomeOf(Top.ch))
  <2> DEFINE b == [Top EXCEPT !.at = "invalid", !.todo = <<>>]
             a == SendFrame(IMC(HomeOf(Top.ch)), Top.msg)
  <2>1. Call(b, a)
    BY <1>3 DEF Fail
  <2>2. <<>> \in Seq(Handler) /\ Distinct(<<>>)
    BY EmptySeq DEF Distinct
  <2>3. /\ b \in SendFrames /\ b.at = "invalid" /\ b.ch = Top.ch
        /\ b.todo = <<>> /\ IsSend(b) /\ IsSend(Top)
    BY <2>2 DEF SendFrames, IsSend
  <2>4. a \in SendFrames /\ FrameOK(a) /\ IsSend(a)
    BY <1>1, NewSend
  <2> HIDE DEF a, b
  <2>5. FrameOK(b) /\ LinkOK(a, b) /\ Same(b, Top)
    BY <1>3, <2>2, <2>3, <2>4 DEF FrameOK, LinkOK, Same
  <2>6. QED
    BY <2>1, <2>3, <2>4, <2>5, CallSound DEF Frames
<1>4. QED
  BY <1>2, <1>3

LEMMA UndeliveredSound ==
  ASSUME BusInv, stack # <<>>, Top \in SendFrames, Undelivered
  PROVE  Sound'
<1>1. Top.ch \in Channel /\ Top.msg \in Message /\ DLC(HomeOf(Top.ch)) \in Channel
  BY ChannelFacts DEF SendFrames
<1>2. CASE Top.ch = DLC(HomeOf(Top.ch))
  BY <1>2, ReturnSound DEF Undelivered
<1>3. CASE Top.ch # DLC(HomeOf(Top.ch))
  <2> DEFINE b == [Top EXCEPT !.at = "dead"]
             a == SendFrame(DLC(HomeOf(Top.ch)), Top.msg)
  <2>1. Call(b, a)
    BY <1>3 DEF Undelivered
  <2>3. /\ b \in SendFrames /\ b.at = "dead" /\ b.ch = Top.ch
        /\ b.todo = Top.todo /\ IsSend(b) /\ IsSend(Top)
    BY DEF SendFrames, IsSend
  <2>4. a \in SendFrames /\ FrameOK(a) /\ IsSend(a)
    BY <1>1, NewSend
  <2> HIDE DEF a, b
  <2>5. FrameOK(b) /\ LinkOK(a, b) /\ Same(b, Top)
    BY <1>3, <2>3, <2>4, TopFacts DEF FrameOK, LinkOK, Same
  <2>6. QED
    BY <2>1, <2>3, <2>4, <2>5, CallSound DEF Frames
<1>4. QED
  BY <1>2, <1>3

\* A step that leaves subscriptions and buses alone.
LEMMA QuietStep ==
  ASSUME BusInv, Quiet, Sound',
         settled' \in [Message -> 0..2], faulty' \subseteq Message
  PROVE  BusInv'
<1>1. TypeOK'
  BY DEF BusInv, TypeOK, Quiet, Sound, Frames
<1>2. ListsOK'
  BY DEF BusInv, ListsOK, Quiet
<1>3. QED
  BY <1>1, <1>2 DEF BusInv

LEMMA NoHistoryStep ==
  ASSUME BusInv, Quiet, Sound', NoHistory
  PROVE  BusInv'
  BY QuietStep DEF BusInv, TypeOK, NoHistory

LEMMA BlameStep ==
  ASSUME BusInv, Quiet, Sound', NEW m \in Message, Blame(m)
  PROVE  BusInv'
  BY QuietStep DEF BusInv, TypeOK, Blame

-----------------------------------------------------------------------------
(* One lemma per action. *)

LEMMA CallHandlerInv ==
  ASSUME BusInv, CallHandler
  PROVE  BusInv'
<1> DEFINE b == [Top EXCEPT !.todo = Tail(@)]
           a == HandleFrame(Head(Top.todo), Top.msg)
<1>1. /\ stack # <<>> /\ Top.at \in {"tap", "dispatch"} /\ Top.todo # <<>>
      /\ Call(b, a) /\ Quiet /\ NoHistory
  BY DEF CallHandler, Running
<1>2. Top \in SendFrames /\ IsSend(Top) /\ FrameOK(Top) /\ Top.msg \in Message
  BY <1>1, SendTop, TopFacts
<1>3. Top.todo \in Seq(Handler)
  BY <1>2 DEF SendFrames
<1>4. /\ Tail(Top.todo) \in Seq(Handler) /\ Head(Top.todo) \in Handler
      /\ Distinct(Tail(Top.todo)) /\ Head(Top.todo) \notin Members(Tail(Top.todo))
  BY <1>1, <1>2, <1>3, TailDistinct, PopFacts DEF FrameOK
<1>5. /\ b \in SendFrames /\ b.at = Top.at /\ b.todo = Tail(Top.todo)
      /\ IsSend(b)
  BY <1>2, <1>4 DEF SendFrames, IsSend
<1>6. a \in HandleFrames /\ ~IsSend(a) /\ a.h = Head(Top.todo)
  BY <1>2, <1>4, NewHandle DEF HandleFrame
<1> HIDE DEF a, b
<1>7. FrameOK(a) /\ FrameOK(b) /\ LinkOK(a, b) /\ Same(b, Top)
  BY <1>1, <1>2, <1>4, <1>5, <1>6 DEF FrameOK, LinkOK, Same
<1>8. Sound'
  BY <1>1, <1>5, <1>6, <1>7, CallSound DEF Frames
<1>9. QED
  BY <1>1, <1>8, NoHistoryStep

LEMMA DispatchInv ==
  ASSUME BusInv, Dispatch
  PROVE  BusInv'
<1> DEFINE q == handlers[Top.ch]
<1>1. stack # <<>> /\ Top.at = "tap" /\ Quiet
  BY DEF Dispatch, Running
<1>2. Top \in SendFrames /\ IsSend(Top) /\ Top.msg \in Message /\ Top.ch \in Channel
  BY <1>1, SendTop, TopFacts DEF SendFrames
<1>3. CASE q = Gone /\ Fail /\ Blame(Top.msg)
  BY <1>1, <1>2, <1>3, FailSound, BlameStep
<1>4. CASE q = <<>> /\ Undelivered /\ NoHistory
  BY <1>1, <1>2, <1>4, UndeliveredSound, NoHistoryStep
<1>5. ASSUME IsList(q), NoHistory, NEW todo \in Seq(Handler), Distinct(todo),
             Goto([Top EXCEPT !.at = "dispatch", !.todo = todo])
      PROVE  BusInv'
  <2> DEFINE b == [Top EXCEPT !.at = "dispatch", !.todo = todo]
  <2>1. /\ b \in SendFrames /\ IsSend(b) /\ b.at = "dispatch" /\ b.todo = todo
    BY <1>2, <1>5 DEF SendFrames, IsSend
  <2>2. Goto(b)
    BY <1>5
  <2> HIDE DEF b
  <2>3. FrameOK(b) /\ Same(b, Top)
    BY <1>2, <1>5, <2>1 DEF FrameOK, Same
  <2>4. Sound'
    BY <1>1, <2>1, <2>2, <2>3, GotoSound DEF Goto, Frames
  <2>5. QED
    BY <1>1, <1>5, <2>4, NoHistoryStep
<1>6. ASSUME IsList(q) PROVE q \in Seq(Handler) /\ Distinct(q)
  BY <1>2, <1>6 DEF BusInv, TypeOK, ListsOK, IsList
<1>7. ASSUME IsList(q), NEW h \in Members(q)
      PROVE  <<h>> \in Seq(Handler) /\ Distinct(<<h>>)
  <2>1. h \in Handler
    BY <1>6, <1>7, ElementOfSeq DEF Members
  <2>2. Len(<<h>>) = 1 /\ \A i, j \in 1..1 : i = j
    OBVIOUS
  <2>3. QED
    BY <2>1, <2>2 DEF Distinct
<1>8. CASE /\ IsList(q) /\ q # <<>>
           /\ IF StyleOf(Top.ch) = "default"
                THEN \E h \in Members(q) :
                       Goto([Top EXCEPT !.at = "dispatch", !.todo = <<h>>])
                ELSE Goto([Top EXCEPT !.at = "dispatch", !.todo = q])
           /\ NoHistory
  <2>1. CASE StyleOf(Top.ch) = "default"
    BY <1>5, <1>7, <1>8, <2>1
  <2>2. CASE StyleOf(Top.ch) # "default"
    BY <1>5, <1>6, <1>8, <2>2
  <2>3. QED
    BY <2>1, <2>2
<1>9. QED
  BY <1>3, <1>4, <1>8 DEF Dispatch

LEMMA SendEndsInv ==
  ASSUME BusInv, EndDispatch \/ SinkReturns
  PROVE  BusInv'
<1>1. /\ stack # <<>> /\ Quiet /\ NoHistory
      /\ Top.at \in {"dispatch", "dead", "invalid"} /\ (Fail \/ Return)
  BY DEF EndDispatch, SinkReturns, Running
<1>2. Sound'
  BY <1>1, SendTop, FailSound, ReturnSound
<1>3. QED
  BY <1>1, <1>2, NoHistoryStep

LEMMA SendCatchesInv ==
  ASSUME BusInv, CatchInTap \/ CatchInDispatch \/ CatchInDead \/ ThrowFromInvalid
  PROVE  BusInv'
<1>1. /\ stack # <<>> /\ Quiet /\ NoHistory
      /\ Top.at \in {"tap", "dispatch", "dead", "invalid"}
  BY DEF CatchInTap, CatchInDispatch, CatchInDead, ThrowFromInvalid, Catching
<1>2. Top \in SendFrames /\ IsSend(Top) /\ FrameOK(Top)
  BY <1>1, SendTop, TopFacts
<1>3. CASE CatchInTap
  <2>1. Same(Top, Top) /\ Top \in Frames
    BY <1>2 DEF Same, Frames
  <2>2. QED
    BY <1>1, <1>2, <1>3, <2>1, GotoSound, NoHistoryStep DEF CatchInTap, Goto
<1>4. CASE CatchInDispatch
  <2> DEFINE b == [Top EXCEPT !.err = TRUE]
  <2>1. /\ b \in SendFrames /\ b.at = Top.at /\ b.todo = Top.todo
        /\ b.ch = Top.ch /\ IsSend(b) /\ Goto(b)
    BY <1>2, <1>4 DEF SendFrames, IsSend, CatchInDispatch
  <2> HIDE DEF b
  <2>2. FrameOK(b) /\ Same(b, Top)
    BY <1>2, <2>1 DEF FrameOK, Same
  <2>3. QED
    BY <1>1, <2>1, <2>2, GotoSound, NoHistoryStep DEF Goto, Frames
<1>5. CASE CatchInDead
  BY <1>1, <1>2, <1>5, FailSound, NoHistoryStep DEF CatchInDead
<1>6. CASE ThrowFromInvalid
  BY <1>1, <1>6, PropagateSound, NoHistoryStep DEF ThrowFromInvalid, Catching
<1>7. QED
  BY <1>3, <1>4, <1>5, <1>6

\* A handler's frame moves to its next send.
LEMMA HandleGoto ==
  ASSUME BusInv, stack # <<>>, Top \in HandleFrames,
         NEW pc \in {"output", "error"}
  PROVE  LET b == [Top EXCEPT !.at = pc] IN
         /\ b \in HandleFrames /\ ~IsSend(b) /\ b.at = pc
         /\ FrameOK(b) /\ Same(b, Top)
  BY DEF HandleFrames, IsSend, FrameOK, Same

LEMMA HandleCalls ==
  ASSUME BusInv, stack # <<>>, NEW b \in HandleFrames, ~IsSend(b), FrameOK(b),
         Same(b, Top), NEW c \in Channel, NEW m \in Message,
         Call(b, SendFrame(c, m))
  PROVE  Sound'
<1>1. /\ SendFrame(c, m) \in SendFrames /\ FrameOK(SendFrame(c, m))
      /\ LinkOK(SendFrame(c, m), b)
  BY NewSend DEF LinkOK
<1>2. QED
  BY <1>1, CallSound DEF Frames

LEMMA HandleInv ==
  ASSUME BusInv, HandleStep
  PROVE  BusInv'
<1>1. CASE HandlerReturns
  <2>1. stack # <<>> /\ Return /\ Quiet /\ Top.msg \in Message
    BY <1>1, TopFacts DEF HandlerReturns, Running
  <2>2. settled' \in [Message -> 0..2] /\ faulty' \subseteq Message
    BY <1>1, <2>1 DEF HandlerReturns, BusInv, TypeOK
  <2>3. QED
    BY <2>1, <2>2, ReturnSound, QuietStep
<1>2. CASE HandlerForwards
  <2> DEFINE out == NextOutput(Top.h, Top.msg)
             b == [Top EXCEPT !.at = "output"]
  <2>1. stack # <<>> /\ Top.at = "body" /\ Quiet /\ out \notin {None, Noop}
    BY <1>2 DEF HandlerForwards, Running
  <2>2. Top \in HandleFrames /\ Top.h \in Handler /\ Top.msg \in Message
    BY <2>1, HandleTop DEF HandleFrames
  <2>3. b \in HandleFrames /\ ~IsSend(b) /\ b.at = "output" /\ FrameOK(b) /\ Same(b, Top)
    BY <2>1, <2>2, HandleGoto
  <2>4. CASE /\ stack' = <<b>> \o Tail(stack) /\ exc' = "error" /\ Blame(Top.msg)
    <3> HIDE DEF b
    <3>1. QED
      BY <2>1, <2>2, <2>3, <2>4, GotoSound, BlameStep DEF Frames
  <2>5. CASE out # Missing /\ Call(b, SendFrame(out, Top.msg)) /\ NoHistory
    <3>1. out \in Channel
      BY <2>1, <2>2, <2>5, RouteFacts DEF ChannelRef
    <3> HIDE DEF b, out
    <3>2. QED
      BY <2>1, <2>2, <2>3, <2>5, <3>1, HandleCalls, NoHistoryStep
  <2>6. QED
    BY <1>2, <2>4, <2>5 DEF HandlerForwards
<1>3. CASE HandlerThrows
  <2>1. /\ stack # <<>> /\ Top.at = "body" /\ Quiet /\ Blame(Top.msg)
        /\ Top.msg \in Message /\ stack' = stack /\ exc' = "error"
    BY <1>3, TopFacts DEF HandlerThrows, Running
  <2>2. Sound'
    BY <2>1 DEF BusInv, Sound, SendContainsErrors, Top
  <2>3. QED
    BY <2>1, <2>2, BlameStep
<1>4. CASE ForwardReturns
  BY <1>4, ReturnSound, NoHistoryStep DEF ForwardReturns, Running
<1>5. CASE CatchInHandler
  <2> DEFINE err == NextError(Top.h, Top.msg)
             b == [Top EXCEPT !.at = "error"]
  <2>1. stack # <<>> /\ Top.at \in {"body", "output"} /\ Quiet /\ NoHistory
    BY <1>5 DEF CatchInHandler, Catching
  <2>2. Top \in HandleFrames /\ Top.msg \in Message
    BY <2>1, HandleTop DEF HandleFrames
  <2>3. b \in HandleFrames /\ ~IsSend(b) /\ b.at = "error" /\ FrameOK(b) /\ Same(b, Top)
    BY <2>1, <2>2, HandleGoto
  <2>4. CASE Propagate \/ Return
    BY <2>1, <2>4, PropagateSound, ReturnSound, NoHistoryStep
  <2>5. CASE stack' = <<b>> \o Tail(stack) /\ exc' = "error"
    <3> HIDE DEF b
    <3>1. QED
      BY <2>1, <2>3, <2>5, GotoSound, NoHistoryStep DEF Frames
  <2>6. CASE err \in Channel /\ Call(b, SendFrame(err, Top.msg))
    <3> HIDE DEF b, err
    <3>1. QED
      BY <2>1, <2>2, <2>3, <2>6, HandleCalls, NoHistoryStep
  <2>7. QED
    BY <1>5, <2>4, <2>5, <2>6 DEF CatchInHandler
<1>6. CASE ThrowFromError
  BY <1>6, PropagateSound, NoHistoryStep DEF ThrowFromError, Catching
<1>7. QED
  BY <1>1, <1>2, <1>3, <1>4, <1>5, <1>6 DEF HandleStep

LEMMA AppCatchesInv ==
  ASSUME BusInv, AppCatches
  PROVE  BusInv'
<1>1. stack' = stack /\ exc' = "none" /\ Quiet /\ NoHistory
  BY DEF AppCatches
<1>2. Sound'
  BY <1>1 DEF BusInv, Sound, SendContainsErrors
<1>3. QED
  BY <1>1, <1>2, NoHistoryStep

-----------------------------------------------------------------------------
(* The application's calls. *)

LEMMA AppCallThrowsInv ==
  ASSUME BusInv, AppTurn, AppCallThrows
  PROVE  BusInv'
<1>1. /\ stack' = stack /\ exc' = IF stack = <<>> THEN "none" ELSE "error"
      /\ Quiet
      /\ stack # <<>> => Top.at = "body"
  BY DEF AppCallThrows, AppTurn, Quiet
<1>2. Sound'
  BY <1>1 DEF BusInv, Sound, SendContainsErrors, Top
<1>3. CASE stack = <<>>
  BY <1>1, <1>2, <1>3, NoHistoryStep DEF AppCallThrows
<1>4. CASE stack # <<>>
  BY <1>1, <1>2, <1>4, TopFacts, BlameStep DEF AppCallThrows
<1>5. QED
  BY <1>3, <1>4

\* A call that changes subscriptions keeps the lists free of duplicates.
LEMMA ListStep ==
  ASSUME BusInv, UNCHANGED <<stack, exc, room, sent, settled, faulty>>,
         handlers' \in [Channel -> Seq(Handler) \cup {Gone}],
         taps' \in [Channel -> Seq(Handler) \cup {None, Gone}],
         destroyed' \subseteq Bus, ListsOK'
  PROVE  BusInv'
<1>1. Sound'
  BY DEF BusInv, Sound, SendContainsErrors, Top
<1>2. TypeOK'
  BY DEF BusInv, TypeOK
<1>3. QED
  BY <1>1, <1>2 DEF BusInv

LEMMA SendInv ==
  ASSUME BusInv, NEW c \in Entry, NEW m \in Message, Send(c, m)
  PROVE  BusInv'
<1>1. c \in Channel
  BY ChannelAssumption
<1>2. sent' \in [Message -> Channel \cup {None}]
  BY <1>1 DEF Send, BusInv, TypeOK
<1>3. room' \in Nat \ {0}
  BY RoomAssumption DEF Send, BusInv, TypeOK
<1>4. Sound'
  <2>1. CASE stack = <<>>
    <3>1. stack' = <<SendFrame(c, m)>> /\ exc' = "none" 
      BY <2>1 DEF Send, AppTurn
    <3>2. SendFrame(c, m) \in SendFrames /\ FrameOK(SendFrame(c, m)) /\ IsSend(SendFrame(c, m))
      BY <1>1, NewSend
    <3>3. /\ stack' \in Seq(Frames) /\ Len(stack') = 1 /\ stack'[1] = SendFrame(c, m)
      BY <3>1, <3>2 DEF Frames
    <3>4. StackOK(stack')
      BY <3>2, <3>3 DEF StackOK
    <3>5. QED
      BY <3>1, <3>3, <3>4 DEF Sound, SendContainsErrors
  <2>2. CASE stack # <<>>
    <3>1. Call(Top, SendFrame(c, m)) /\ Top.at = "body"
      BY <2>2 DEF Send, AppTurn
    <3>2. Top \in HandleFrames /\ ~IsSend(Top) /\ FrameOK(Top) /\ Same(Top, Top)
      BY <2>2, <3>1, HandleTop, TopFacts DEF Same
    <3>3. QED
      BY <1>1, <2>2, <3>1, <3>2, HandleCalls
  <2>3. QED
    BY <2>1, <2>2
<1>5. TypeOK'
  BY <1>2, <1>3, <1>4 DEF Send, BusInv, TypeOK, Sound, Frames, NoHistory
<1>6. ListsOK'
  BY DEF Send, BusInv, ListsOK
<1>7. QED
  BY <1>4, <1>5, <1>6 DEF BusInv

LEMMA SubscribeInv ==
  ASSUME BusInv, NEW c \in Channel, NEW h \in AppHandler,
         Subscribe(c, h) \/ Unsubscribe(c, h)
  PROVE  BusInv'
<1>1. CASE AppCallThrows
  BY <1>1, AppCallThrowsInv DEF Subscribe, Unsubscribe
<1>2. ASSUME handlers[c] # Gone,
             UNCHANGED <<taps, destroyed, stack, room, exc, sent, settled, faulty>>,
             \/ handlers' = [handlers EXCEPT ![c] = Add(@, h)]
             \/ handlers' = [handlers EXCEPT ![c] = Without(@, h)]
      PROVE  BusInv'
  <2>1. h \in Handler /\ handlers[c] \in Seq(Handler) /\ Distinct(handlers[c])
    <3>1. handlers[c] \in Seq(Handler)
      BY <1>2 DEF BusInv, TypeOK
    <3>2. handlers[c] # None
      BY <3>1, MarkAssumption
    <3>3. QED
      BY <1>2, <3>1, <3>2 DEF BusInv, ListsOK, IsList, Handler
  <2>2. /\ Add(handlers[c], h) \in Seq(Handler) /\ Distinct(Add(handlers[c], h))
        /\ Without(handlers[c], h) \in Seq(Handler) /\ Distinct(Without(handlers[c], h))
    BY <2>1, AddFacts, WithoutFacts
  <2>3. \A d \in Channel : d # c => handlers'[d] = handlers[d]
    BY <1>2 DEF BusInv, TypeOK
  <2>4. handlers'[c] \in Seq(Handler) /\ Distinct(handlers'[c])
    BY <1>2, <2>2 DEF BusInv, TypeOK
  <2>5. handlers' \in [Channel -> Seq(Handler) \cup {Gone}]
    BY <1>2, <2>2 DEF BusInv, TypeOK
  <2>6. ListsOK'
    BY <1>2, <2>3, <2>4 DEF BusInv, ListsOK
  <2>7. QED
    BY <1>2, <2>5, <2>6, ListStep DEF BusInv, TypeOK
<1>3. QED
  BY <1>1, <1>2 DEF Subscribe, Unsubscribe, NoHistory

LEMMA TapInv ==
  ASSUME BusInv, NEW c \in Channel, NEW h \in AppHandler, Tap(c, h) \/ Untap(c, h)
  PROVE  BusInv'
<1>1. CASE AppCallThrows
  BY <1>1, AppCallThrowsInv DEF Tap, Untap
<1>2. ASSUME taps[c] # Gone,
             UNCHANGED <<handlers, destroyed, stack, room, exc, sent, settled, faulty>>,
             \/ taps' = [taps EXCEPT ![c] = IF @ = None THEN <<h>> ELSE Add(@, h)]
             \/ taps[c] # None /\ taps' = [taps EXCEPT ![c] = Without(@, h)]
      PROVE  BusInv'
  <2>1. h \in Handler
    BY DEF Handler
  <2>2. taps[c] # None => taps[c] \in Seq(Handler) /\ Distinct(taps[c])
    BY <1>2 DEF BusInv, TypeOK, ListsOK, IsList
  <2>3. <<h>> \in Seq(Handler) /\ Distinct(<<h>>)
    <3>1. Len(<<h>>) = 1 /\ \A i, j \in 1..1 : i = j
      OBVIOUS
    <3>2. QED
      BY <2>1, <3>1 DEF Distinct
  <2>4. taps[c] # None =>
          /\ Add(taps[c], h) \in Seq(Handler) /\ Distinct(Add(taps[c], h))
          /\ Without(taps[c], h) \in Seq(Handler) /\ Distinct(Without(taps[c], h))
    BY <2>1, <2>2, AddFacts, WithoutFacts
  <2>5. \A d \in Channel : d # c => taps'[d] = taps[d]
    BY <1>2 DEF BusInv, TypeOK
  <2>6. taps'[c] \in Seq(Handler) /\ Distinct(taps'[c])
    BY <1>2, <2>3, <2>4 DEF BusInv, TypeOK
  <2>7. taps' \in [Channel -> Seq(Handler) \cup {None, Gone}]
    BY <1>2, <2>3, <2>4 DEF BusInv, TypeOK
  <2>8. ListsOK'
    BY <1>2, <2>5, <2>6 DEF BusInv, ListsOK
  <2>9. QED
    BY <1>2, <2>7, <2>8, ListStep DEF BusInv, TypeOK
<1>3. QED
  BY <1>1, <1>2 DEF Tap, Untap, NoHistory

LEMMA DestroyBusInv ==
  ASSUME BusInv, NEW b \in Bus, DestroyBus(b)
  PROVE  BusInv'
<1>1. UNCHANGED <<stack, exc, room, sent, settled, faulty>>
  BY DEF DestroyBus, NoHistory
<1>2. /\ handlers' \in [Channel -> Seq(Handler) \cup {Gone}]
      /\ taps' \in [Channel -> Seq(Handler) \cup {None, Gone}]
  BY DEF DestroyBus, BusInv, TypeOK
<1>3. destroyed' \subseteq Bus
  BY DEF DestroyBus, Below, BusInv, TypeOK
<1>4. \A c \in Channel : /\ handlers'[c] \in {handlers[c], Gone}
                         /\ taps'[c] \in {taps[c], Gone}
  BY DEF DestroyBus
<1>5. ListsOK'
  BY <1>4 DEF BusInv, ListsOK, IsList
<1>6. QED
  BY <1>1, <1>2, <1>3, <1>5, ListStep
-----------------------------------------------------------------------------
(* The theorems. *)

\* The first lists: the application's handlers, after the forwarder of a sink.
LEMMA InitLists ==
  ASSUME Init
  PROVE  \A c \in Channel : handlers[c] \in Seq(Handler) /\ Distinct(handlers[c])
<1>1. \A c \in Channel : Wiring[c] \in Seq(Handler) /\ Distinct(Wiring[c])
  <2>1. \A c \in Channel : Wiring[c] \in Seq(AppHandler)
    BY HandlerAssumption
  <2>2. AppHandler \subseteq Handler
    BY DEF Handler
  <2>3. QED
    BY <2>1, <2>2, HandlerAssumption, SeqMonotonic DEF Distinct
<1>2. ASSUME NEW c \in Channel, c \notin AppChannel, c[2] # Root
      PROVE  LET q == <<Forwarder(<<c[1], Parent[c[2]]>>)>> \o Wiring[c]
             IN  q \in Seq(Handler) /\ Distinct(q)
  <2> DEFINE f == Forwarder(<<c[1], Parent[c[2]]>>)
             w == Wiring[c]
  <2>1. PICK b \in Bus : c = DLC(b) \/ c = IMC(b)
    BY <1>2 DEF Channel
  <2>2. /\ c[2] = b /\ c[1] \in {"deadLetterChannel", "invalidMessageChannel"}
        /\ Parent[b] \in Bus
    BY <1>2, <2>1, BusAssumption DEF DLC, IMC
  <2>3. <<c[1], Parent[c[2]]>> \in Channel
    BY <2>2 DEF Channel, DLC, IMC
  <2>4. f \in Handler /\ f \notin AppHandler
    BY <2>3, HandlerAssumption DEF Handler
  <2>5. w \in Seq(Handler) /\ Distinct(w) /\ w \in Seq(AppHandler)
    BY <1>1, HandlerAssumption
  <2> HIDE DEF f, w
  <2>6. <<f>> \in Seq(Handler) /\ Len(<<f>>) = 1 /\ <<f>>[1] = f
    BY <2>4
  <2>7. /\ <<f>> \o w \in Seq(Handler) /\ Len(<<f>> \o w) = 1 + Len(w)
        /\ \A i \in 1..1 + Len(w) :
             (<<f>> \o w)[i] = IF i <= 1 THEN <<f>>[i] ELSE w[i - 1]
    BY <2>5, <2>6, ConcatProperties
  <2>8. Len(w) \in Nat /\ \A i \in 1..Len(w) : w[i] \in AppHandler
    BY <2>5, LenProperties, ElementOfSeq
  <2>9. \A i \in 1..1 + Len(w) : i = 1 \/ (i - 1 \in 1..Len(w) /\ ~(i <= 1))
    <3>1. \A n \in Nat : \A i \in 1..1 + n : i = 1 \/ (i - 1 \in 1..n /\ ~(i <= 1))
      OBVIOUS
    <3>2. QED
      BY <2>8, <3>1
  <2>10. \A i, j \in 1..1 + Len(w) : i - 1 = j - 1 => i = j
    BY <2>8
  <2>11. Distinct(<<f>> \o w)
    BY <2>4, <2>5, <2>6, <2>7, <2>8, <2>9, <2>10 DEF Distinct
  <2>12. QED
    BY <2>7, <2>11 DEF f, w
<1>3. QED
  BY <1>1, <1>2 DEF Init

LEMMA InitInv ==
  ASSUME Init
  PROVE  BusInv
<1>1. \A c \in Channel : handlers[c] \in Seq(Handler) /\ Distinct(handlers[c])
  BY InitLists
<1>2. handlers \in [Channel -> Seq(Handler) \cup {Gone}]
  BY <1>1 DEF Init
<1>3. /\ taps \in [Channel -> Seq(Handler) \cup {None, Gone}]
      /\ \A c \in Channel : ~IsList(taps[c])
  BY DEF Init, IsList
<1>4. stack \in Seq(Frames) /\ Len(stack) = 0
  BY EmptySeq DEF Init
<1>5. Sound
  BY <1>4 DEF Init, Sound, StackOK, SendContainsErrors
<1>6. TypeOK
  BY <1>2, <1>3, <1>4, RoomAssumption DEF Init, TypeOK, Frames
<1>7. ListsOK
  BY <1>1, <1>3 DEF ListsOK
<1>8. QED
  BY <1>5, <1>6, <1>7 DEF BusInv

LEMMA StepInv ==
  ASSUME BusInv, [Next]_vars
  PROVE  BusInv'
<1>1. CASE SendStep
  BY <1>1, CallHandlerInv, DispatchInv, SendEndsInv, SendCatchesInv DEF SendStep
<1>2. CASE HandleStep
  BY <1>2, HandleInv
<1>3. CASE AppCatches
  BY <1>3, AppCatchesInv
<1>4. CASE AppStep
  <2>1. ASSUME NEW c \in Entry, NEW m \in Message, Send(c, m) PROVE BusInv'
    BY <2>1, SendInv
  <2>2. ASSUME NEW p \in Mutable, Subscribe(p[1], p[2]) \/ Unsubscribe(p[1], p[2])
        PROVE  BusInv'
    <3>1. p[1] \in Channel /\ p[2] \in AppHandler
      BY HandlerAssumption
    <3>2. QED
      BY <2>2, <3>1, SubscribeInv
  <2>3. ASSUME NEW p \in Tappable, Tap(p[1], p[2]) \/ Untap(p[1], p[2])
        PROVE  BusInv'
    <3>1. p[1] \in Channel /\ p[2] \in AppHandler
      BY HandlerAssumption
    <3>2. QED
      BY <2>3, <3>1, TapInv
  <2>4. ASSUME NEW b \in Disposable, DestroyBus(b) PROVE BusInv'
    BY <2>4, BusAssumption, DestroyBusInv
  <2>5. QED
    BY <1>4, <2>1, <2>2, <2>3, <2>4 DEF AppStep
<1>5. CASE UNCHANGED vars
  BY <1>5 DEF vars, BusInv, TypeOK, ListsOK, Sound, SendContainsErrors, Top
<1>6. QED
  BY <1>1, <1>2, <1>3, <1>4, <1>5 DEF Next, MachineStep

\* The invariant holds throughout.
THEOREM BusInvariant == Spec => []BusInv
<1>1. Init => BusInv
  BY InitInv
<1>2. BusInv /\ [Next]_vars => BusInv'
  BY StepInv
<1>3. QED
  BY <1>1, <1>2, PTL DEF Spec

\* The state keeps its type: subscribers, stack and exception, whatever the
\* handlers do while they are being called.
THEOREM TypeCorrect == Spec => []TypeOK
<1>1. BusInv => TypeOK
  BY DEF BusInv
<1>2. QED
  BY <1>1, BusInvariant, PTL

\* For every wiring, an error of a handler or of a channel name never gets out
\* of channel.send (msgs.js:328-347): the application only ever sees the end of
\* the stack.
THEOREM ErrorsContained == Spec => []SendContainsErrors
<1>1. BusInv => SendContainsErrors
  BY DEF BusInv, Sound
<1>2. QED
  BY <1>1, BusInvariant, PTL

LEMMA StackReading ==
  ASSUME BusInv, NEW i \in 1..Len(stack)
  PROVE  /\ FrameOK(stack[i]) /\ stack[i] \in Frames
         /\ i > 1 => LinkOK(stack[i-1], stack[i]) /\ stack[i-1] \in Frames
         /\ ~IsSend(stack[i]) => /\ i < Len(stack)
                                 /\ LinkOK(stack[i], stack[i+1])
<1>1. stack \in Seq(Frames) /\ StackOK(stack)
  BY DEF BusInv, Sound
<1>2. Len(stack) \in Nat /\ \A j \in 1..Len(stack) : stack[j] \in Frames
  BY <1>1, LenProperties, ElementOfSeq
<1>3. FrameOK(stack[i]) /\ stack[i] \in Frames
  BY <1>1, <1>2 DEF StackOK
<1>4. ASSUME i > 1
      PROVE  LinkOK(stack[i-1], stack[i]) /\ stack[i-1] \in Frames
  <2>1. i \in 2..Len(stack) /\ i - 1 \in 1..Len(stack)
    BY <1>2, <1>4
  <2>2. QED
    BY <1>1, <1>2, <2>1 DEF StackOK
<1>5. ASSUME ~IsSend(stack[i])
      PROVE  i < Len(stack) /\ LinkOK(stack[i], stack[i+1])
  <2>1. stack # <<>>
    BY <1>1, <1>2, EmptySeq
  <2>2. i # Len(stack)
    BY <1>1, <1>5, <2>1 DEF StackOK
  <2>3. i < Len(stack) /\ i + 1 \in 2..Len(stack) /\ (i + 1) - 1 = i
    BY <1>2, <2>2
  <2>4. LinkOK(stack[(i+1)-1], stack[i+1])
    BY <1>1, <2>3 DEF StackOK
  <2>5. QED
    BY <2>3, <2>4
<1>6. QED
  BY <1>3, <1>4, <1>5

\* For every wiring and every re-entrant change of the subscriptions, one
\* dispatch calls a handler at most once.
THEOREM DeliveredOnce == Spec => []NoDoubleDelivery
<1>1. BusInv => NoDoubleDelivery
  <2> SUFFICES ASSUME BusInv, NEW i \in 1..Len(stack), IsSend(stack[i])
               PROVE  /\ Distinct(stack[i].todo)
                      /\ i > 1 /\ stack[i].at \in {"tap", "dispatch"}
                           => stack[i-1].h \notin Members(stack[i].todo)
    BY DEF NoDoubleDelivery
  <2>1. Distinct(stack[i].todo)
    BY StackReading DEF FrameOK
  <2>2. ASSUME i > 1, stack[i].at \in {"tap", "dispatch"}
        PROVE  stack[i-1].h \notin Members(stack[i].todo)
    BY <2>2, StackReading DEF LinkOK
  <2>3. QED
    BY <2>1, <2>2
<1>2. QED
  BY <1>1, BusInvariant, PTL

\* Handlers run only inside a dispatch, and a send that reports a message is
\* not the sink it reports to, for every wiring.
THEOREM WellNested == Spec => []Coherent
<1>1. BusInv => Coherent
  <2> SUFFICES ASSUME BusInv, NEW i \in 1..Len(stack)
               PROVE  IF IsSend(stack[i])
                        THEN /\ stack[i].at = "dead"
                                  => stack[i].ch # DLC(HomeOf(stack[i].ch))
                             /\ stack[i].at = "invalid"
                                  => stack[i].ch # IMC(HomeOf(stack[i].ch))
                        ELSE /\ i < Len(stack)
                             /\ stack[i+1].at \in {"tap", "dispatch"}
    BY DEF Coherent, BusInv, ListsOK
  <2>1. CASE IsSend(stack[i])
    BY <2>1, StackReading DEF FrameOK
  <2>2. CASE ~IsSend(stack[i])
    BY <2>2, StackReading DEF LinkOK
  <2>3. QED
    BY <2>1, <2>2
<1>2. QED
  BY <1>1, BusInvariant, PTL

\* Where the frame of the running activation is after a call or a step of its own.
LEMMA CallKeepsFrame ==
  ASSUME BusInv, stack # <<>>, NEW a \in Frames, NEW b \in Frames, Call(b, a)
  PROVE  Len(stack') >= Len(stack) /\ stack'[Len(stack') - Len(stack) + 1] = b
<1>1. stack \in Seq(Frames) /\ Len(stack) \in Nat
  BY TopFacts, LenProperties
<1>2. CASE stack' = <<a, b>> \o Tail(stack)
  <2>1. Len(stack') = Len(stack) + 1 /\ stack'[2] = b
    BY <1>1, <1>2, PushFacts
  <2>2. Len(stack') - Len(stack) + 1 = 2 /\ Len(stack') >= Len(stack)
    BY <1>1, <2>1
  <2>3. QED
    BY <2>1, <2>2
<1>3. CASE stack' = <<b>> \o Tail(stack)
  <2>1. Len(stack') = Len(stack) /\ stack'[1] = b
    BY <1>1, <1>3, GotoFacts
  <2>2. Len(stack') - Len(stack) + 1 = 1 /\ Len(stack') >= Len(stack)
    BY <1>1, <2>1
  <2>3. QED
    BY <2>1, <2>2
<1>4. QED
  BY <1>2, <1>3 DEF Call

\* No dispatch ends before it called every handler it copied, for every wiring
\* and whatever these handlers throw or change.
THEOREM NobodyIsSkipped == Spec => EveryoneIsCalled
<1> DEFINE Stays(b) == /\ Len(stack') >= Len(stack)
                       /\ stack'[Len(stack') - Len(stack) + 1] = b
           Kept == /\ Len(stack') >= Len(stack)
                   /\ LET me == stack'[Len(stack') - Len(stack) + 1] IN
                        me.at = Top.at /\ me.ch = Top.ch
           Busy == /\ stack # <<>> /\ Top.at \in {"tap", "dispatch"}
                   /\ Top.todo # <<>>
<1>1. ASSUME BusInv, Next, Busy PROVE Kept
  <2>1. Top \in SendFrames /\ stack \in Seq(Frames)
    BY <1>1, SendTop, TopFacts
  <2>2. ASSUME NEW b \in SendFrames, Goto(b) PROVE Stays(b)
    <3>1. Len(stack') = Len(stack) /\ stack'[1] = b /\ Len(stack) \in Nat
      BY <1>1, <2>1, <2>2, GotoFacts, LenProperties DEF Goto, Frames
    <3>2. Len(stack') - Len(stack) + 1 = 1 /\ Len(stack') >= Len(stack)
      BY <3>1
    <3>3. QED
      BY <3>1, <3>2
  <2>3. CASE CallHandler
    <3> DEFINE b == [Top EXCEPT !.todo = Tail(@)]
               a == HandleFrame(Head(Top.todo), Top.msg)
    <3>1. Tail(Top.todo) \in Seq(Handler) /\ Head(Top.todo) \in Handler
      BY <1>1, <2>1, PopFacts DEF SendFrames
    <3>2. b \in SendFrames /\ b.at = Top.at /\ b.ch = Top.ch /\ Call(b, a)
      BY <2>1, <2>3, <3>1 DEF SendFrames, CallHandler
    <3>3. a \in HandleFrames
      BY <2>1, <3>1, NewHandle DEF SendFrames
    <3> HIDE DEF a, b
    <3>4. Stays(b)
      BY <1>1, <3>2, <3>3, CallKeepsFrame DEF Frames
    <3>5. QED
      BY <3>2, <3>4
  <2>4. CASE CatchInTap
    BY <2>1, <2>2, <2>4 DEF CatchInTap
  <2>5. CASE CatchInDispatch
    <3> DEFINE b == [Top EXCEPT !.err = TRUE]
    <3>1. b \in SendFrames /\ b.at = Top.at /\ b.ch = Top.ch /\ Goto(b)
      BY <2>1, <2>5 DEF SendFrames, CatchInDispatch
    <3> HIDE DEF b
    <3>2. Stays(b)
      BY <2>2, <3>1
    <3>3. QED
      BY <3>1, <3>2
  <2>6. ~Dispatch /\ ~EndDispatch /\ ~SinkReturns /\ ~CatchInDead /\ ~ThrowFromInvalid
    BY <1>1 DEF Dispatch, EndDispatch, SinkReturns, CatchInDead, ThrowFromInvalid,
                Running, Catching
  <2>7. ~HandleStep /\ ~AppCatches
    BY <1>1 DEF HandleStep, HandlerReturns, HandlerForwards, HandlerThrows,
                ForwardReturns, CatchInHandler, ThrowFromError, AppCatches,
                Running, Catching
  <2>8. ~AppTurn
    BY <1>1 DEF AppTurn
  <2>9. ~AppStep
    BY <2>8 DEF AppStep, Send, Subscribe, Unsubscribe, Tap, Untap, DestroyBus
  <2>10. QED
    BY <1>1, <2>3, <2>4, <2>5, <2>6, <2>7, <2>9 DEF Next, MachineStep, SendStep
<1>2. BusInv /\ [Next]_vars => [DispatchGoesOn]_vars
  <2> SUFFICES ASSUME BusInv, [Next]_vars PROVE [DispatchGoesOn]_vars
    OBVIOUS
  <2>1. CASE Next
    BY <1>1, <2>1 DEF DispatchGoesOn
  <2>2. CASE UNCHANGED vars
    BY <2>2
  <2>3. QED
    BY <2>1, <2>2
<1>3. QED
  BY <1>2, BusInvariant, PTL DEF Spec, EveryoneIsCalled
-----------------------------------------------------------------------------
(* The way of a message over the stack.  Whether what an activation does     *)
(* counts depends on those below it.  Held(q, i, at): the messages of those  *)
(* below the i-th that are at a given place.  If a tap of one of its sends   *)
(* runs below, nothing that is done with the message counts.                 *)

Held(q, i, at) == {q[j].msg : j \in {k \in i+1..Len(q) : q[k].at = at}}

LEMMA HeldPush ==
  ASSUME NEW q \in Seq(Frames), q # <<>>, NEW a \in Frames, NEW b \in Frames, NEW at
  PROVE  LET p == <<a, b>> \o Tail(q) IN
         /\ Held(p, 1, at) = Held(q, 1, at) \cup (IF b.at = at THEN {b.msg} ELSE {})
         /\ Held(p, 2, at) = Held(q, 1, at)
         /\ \A i \in 3..Len(p) : Held(p, i, at) = Held(q, i-1, at)
<1> DEFINE p == <<a, b>> \o Tail(q)
<1>1. /\ Len(p) = Len(q) + 1 /\ p[1] = a /\ p[2] = b
      /\ \A i \in 3..Len(p) : p[i] = q[i-1]
  BY PushFacts
<1>2. Len(q) \in Nat /\ Len(q) > 0
  BY LenProperties, EmptySeq
<1> HIDE DEF p
<1>3. ASSUME NEW i \in 2..Len(p)
      PROVE  Held(p, i, at) = Held(q, i-1, at)
  <2>1. ASSUME NEW j \in i+1..Len(p), p[j].at = at
        PROVE  p[j].msg \in Held(q, i-1, at)
    <3>1. j - 1 \in (i-1)+1..Len(q) /\ p[j] = q[j-1]
      BY <1>1, <1>2, <1>3, <2>1
    <3>2. QED
      BY <2>1, <3>1 DEF Held
  <2>2. ASSUME NEW j \in (i-1)+1..Len(q), q[j].at = at
        PROVE  q[j].msg \in Held(p, i, at)
    <3>1. j + 1 \in i+1..Len(p) /\ j + 1 \in 3..Len(p) /\ (j + 1) - 1 = j
      BY <1>1, <1>2, <1>3, <2>2
    <3>2. p[j+1] = q[j]
      BY <1>1, <3>1
    <3>3. QED
      BY <2>2, <3>1, <3>2 DEF Held
  <2>3. QED
    BY <2>1, <2>2 DEF Held
<1>4. Held(p, 2, at) = Held(q, 1, at)
  <2>1. 2 \in 2..Len(p) /\ 2 - 1 = 1
    BY <1>1, <1>2
  <2>2. QED
    BY <1>3, <2>1
<1>5. Held(p, 1, at) = Held(p, 2, at) \cup (IF b.at = at THEN {b.msg} ELSE {})
  <2>1. \A j : j \in 1+1..Len(p) <=> j = 2 \/ j \in 2+1..Len(p)
    BY <1>1, <1>2
  <2>2. QED
    BY <1>1, <2>1 DEF Held
<1>6. ASSUME NEW i \in 3..Len(p) PROVE Held(p, i, at) = Held(q, i-1, at)
  BY <1>1, <1>2, <1>3
<1>7. QED
  BY <1>4, <1>5, <1>6 DEF p

LEMMA HeldGoto ==
  ASSUME NEW q \in Seq(Frames), q # <<>>, NEW b \in Frames, NEW at
  PROVE  LET p == <<b>> \o Tail(q) IN
         \A i \in 1..Len(p) : Held(p, i, at) = Held(q, i, at)
<1> DEFINE p == <<b>> \o Tail(q)
<1>1. Len(p) = Len(q) /\ \A i \in 2..Len(p) : p[i] = q[i]
  BY GotoFacts
<1>2. Len(q) \in Nat
  BY LenProperties
<1> HIDE DEF p
<1>3. ASSUME NEW i \in 1..Len(p) PROVE Held(p, i, at) = Held(q, i, at)
  <2>1. \A j \in i+1..Len(p) : j \in 2..Len(p)
    BY <1>1, <1>2
  <2>2. QED
    BY <1>1, <2>1 DEF Held
<1>4. QED
  BY <1>3 DEF p

LEMMA HeldPop ==
  ASSUME NEW q \in Seq(Frames), q # <<>>, NEW at
  PROVE  /\ \A i \in 1..Len(Tail(q)) : Held(Tail(q), i, at) = Held(q, i+1, at)
         /\ Tail(q) # <<>> =>
              /\ Held(q, 1, at) = Held(q, 2, at) \cup
                                    (IF q[2].at = at THEN {q[2].msg} ELSE {})
              /\ Head(Tail(q)) = q[2] /\ Held(Tail(q), 1, at) = Held(q, 2, at)
              /\ 2 \in 2..Len(q) /\ q[2] \in Frames
<1> DEFINE p == Tail(q)
<1>1. /\ Len(p) = Len(q) - 1 /\ \A i \in 1..Len(p) : p[i] = q[i+1]
      /\ p \in Seq(Frames)
  BY PopFacts
<1>2. Len(q) \in Nat /\ Len(q) > 0
  BY LenProperties, EmptySeq
<1>3. p # <<>> => Head(p) = p[1] /\ Head(p) \in Frames /\ Len(p) > 0
  BY <1>1, PopFacts, EmptySeq, LenProperties
<1> HIDE DEF p
<1>4. ASSUME NEW i \in 1..Len(p) PROVE Held(p, i, at) = Held(q, i+1, at)
  <2>1. ASSUME NEW j \in i+1..Len(p)
        PROVE  j + 1 \in (i+1)+1..Len(q) /\ p[j] = q[j+1]
    BY <1>1, <1>2
  <2>2. ASSUME NEW j \in (i+1)+1..Len(q)
        PROVE  j - 1 \in i+1..Len(p) /\ p[j-1] = q[j]
    <3>1. j - 1 \in i+1..Len(p) /\ j - 1 \in 1..Len(p) /\ (j - 1) + 1 = j
      BY <1>1, <1>2, <2>2
    <3>2. QED
      BY <1>1, <3>1
  <2>3. Held(p, i, at) \subseteq Held(q, i+1, at)
    BY <2>1 DEF Held
  <2>4. Held(q, i+1, at) \subseteq Held(p, i, at)
    BY <2>2 DEF Held
  <2>5. QED
    BY <2>3, <2>4
<1>5. ASSUME p # <<>>
      PROVE  /\ Held(q, 1, at) = Held(q, 2, at) \cup
                                   (IF q[2].at = at THEN {q[2].msg} ELSE {})
             /\ Head(p) = q[2] /\ Held(p, 1, at) = Held(q, 2, at)
             /\ 2 \in 2..Len(q) /\ q[2] \in Frames
  <2>1. 1 \in 1..Len(p) /\ 1 + 1 = 2 /\ 2 \in 2..Len(q)
    BY <1>1, <1>2, <1>3, <1>5
  <2>2. \A j : j \in 1+1..Len(q) <=> j = 2 \/ j \in 2+1..Len(q)
    BY <1>2, <2>1
  <2>3. Held(q, 1, at) = Held(q, 2, at) \cup (IF q[2].at = at THEN {q[2].msg} ELSE {})
    BY <2>2 DEF Held
  <2>4. Head(p) = q[2] /\ q[2] \in Frames
    BY <1>1, <1>3, <1>5, <2>1
  <2>5. QED
    BY <1>4, <2>1, <2>3, <2>4
<1>6. QED
  BY <1>4, <1>5 DEF p

\* OnTap(m), for the message of the running activation.
LEMMA TopOnTap ==
  ASSUME stack # <<>>, NEW m
  PROVE  OnTap(m) <=> m \in Held(stack, 1, "tap")
  BY DEF OnTap, Held
-----------------------------------------------------------------------------
(* Why a message is invalid.  The channels that take such messages are sent   *)
(* to by nobody but the buses.                                                *)

\* An activation is called with the message of its caller, unless that one is in its
\* transform and sends another.
Near(f, g) ==
  /\ f.msg = g.msg \/ g.at = "body"
  /\ ~IsSend(f) => f.msg = g.msg

\* What a step does not change in the frame of the running activation.
Alike(f, g) ==
  /\ f.msg = g.msg /\ IsSend(f) = IsSend(g)
  /\ IF IsSend(g) THEN f.ch = g.ch ELSE f.h = g.h

\* A message is reported, and a dispatch ends in an error, only if something failed
\* for it, outside of a tap below ("fair": the messages of which this is known); and
\* the only way into an invalid message channel is through another one.
Fault(f, fair) ==
  IsSend(f) => /\ f.ch \in Invalid \/ f.err => f.msg \in fair
               /\ f.ch \notin Invalid => \A h \in Members(f.todo) : ~Leads(h)

Leading(f, g) == ~IsSend(f) /\ Leads(f.h) => g.ch \in Invalid

FaultStack(q, failed) ==
  /\ \A i \in 2..Len(q) : Near(q[i-1], q[i]) /\ Leading(q[i-1], q[i])
  /\ \A i \in 1..Len(q) : Fault(q[i], failed \cup Held(q, i, "tap"))

LEMMA FaultGrows ==
  ASSUME NEW f, NEW s, NEW t, Fault(f, s), s \subseteq t
  PROVE  Fault(f, t)
  BY DEF Fault

LEMMA FaultPush ==
  ASSUME NEW q \in Seq(Frames), q # <<>>, NEW old, NEW failed, old \subseteq failed,
         FaultStack(q, old), NEW a \in Frames, NEW b \in Frames,
         Near(a, b), Leading(a, b), Alike(b, Head(q)),
         Fault(a, failed \cup Held(q, 1, "tap")),
         Fault(b, failed \cup Held(q, 1, "tap"))
  PROVE  FaultStack(<<a, b>> \o Tail(q), failed)
<1> DEFINE p == <<a, b>> \o Tail(q)
<1>1. /\ Len(p) = Len(q) + 1 /\ p[1] = a /\ p[2] = b
      /\ \A i \in 3..Len(p) : p[i] = q[i-1]
  BY PushFacts
<1>2. /\ Held(q, 1, "tap") \subseteq Held(p, 1, "tap") /\ Held(p, 2, "tap") = Held(q, 1, "tap")
      /\ \A i \in 3..Len(p) : Held(p, i, "tap") = Held(q, i-1, "tap")
  BY HeldPush
<1>3. Len(q) \in Nat /\ Len(q) > 0 /\ Head(q) = q[1]
  BY LenProperties, EmptySeq, PopFacts
<1> HIDE DEF p
<1>4. ASSUME NEW i \in 1..Len(p) PROVE Fault(p[i], failed \cup Held(p, i, "tap"))
  <2>1. CASE i = 1
    BY <1>1, <1>2, <2>1, FaultGrows
  <2>2. CASE i = 2
    BY <1>1, <1>2, <2>2
  <2>3. CASE i \in 3..Len(p)
    <3>1. i - 1 \in 1..Len(q)
      BY <1>1, <1>3, <2>3
    <3>2. Fault(q[i-1], old \cup Held(q, i-1, "tap"))
      BY <3>1 DEF FaultStack
    <3>3. Fault(q[i-1], failed \cup Held(q, i-1, "tap"))
      BY <3>2, FaultGrows
    <3>4. QED
      BY <1>1, <1>2, <2>3, <3>3
  <2>4. QED
    BY <1>1, <1>3, <2>1, <2>2, <2>3
<1>5. ASSUME NEW i \in 2..Len(p) PROVE Near(p[i-1], p[i]) /\ Leading(p[i-1], p[i])
  <2>1. CASE i = 2
    BY <1>1, <2>1
  <2>2. CASE i = 3
    <3>1. /\ p[2] = b /\ p[3] = q[2] /\ 2 \in 2..Len(q) /\ 2 - 1 = 1
      BY <1>1, <1>3, <2>2
    <3>2. Near(q[1], q[2]) /\ Leading(q[1], q[2])
      BY <3>1 DEF FaultStack
    <3>3. Near(b, q[2]) /\ Leading(b, q[2])
      BY <1>3, <3>2 DEF Near, Leading, Alike
    <3>4. QED
      BY <2>2, <3>1, <3>3
  <2>3. CASE i > 3
    <3>1. i - 1 \in 2..Len(q) /\ i \in 3..Len(p) /\ i - 1 \in 3..Len(p)
      BY <1>1, <1>3, <2>3
    <3>2. p[i] = q[i-1] /\ p[i-1] = q[(i-1)-1]
      BY <1>1, <3>1
    <3>3. QED
      BY <3>1, <3>2 DEF FaultStack
  <2>4. QED
    BY <1>1, <1>3, <2>1, <2>2, <2>3
<1>6. QED
  BY <1>4, <1>5 DEF FaultStack, p

LEMMA FaultGoto ==
  ASSUME NEW q \in Seq(Frames), q # <<>>, NEW old, NEW failed, old \subseteq failed,
         FaultStack(q, old), NEW b \in Frames, Alike(b, Head(q)),
         Fault(b, failed \cup Held(q, 1, "tap"))
  PROVE  FaultStack(<<b>> \o Tail(q), failed)
<1> DEFINE p == <<b>> \o Tail(q)
<1>1. Len(p) = Len(q) /\ p[1] = b /\ \A i \in 2..Len(p) : p[i] = q[i]
  BY GotoFacts
<1>2. \A i \in 1..Len(p) : Held(p, i, "tap") = Held(q, i, "tap")
  BY HeldGoto
<1>3. Len(q) \in Nat /\ Len(q) > 0 /\ Head(q) = q[1]
  BY LenProperties, EmptySeq, PopFacts
<1> HIDE DEF p
<1>4. ASSUME NEW i \in 1..Len(p) PROVE Fault(p[i], failed \cup Held(p, i, "tap"))
  <2>1. CASE i = 1
    BY <1>1, <1>2, <2>1
  <2>2. CASE i \in 2..Len(p)
    <3>1. Fault(q[i], old \cup Held(q, i, "tap"))
      BY <1>1 DEF FaultStack
    <3>2. Fault(q[i], failed \cup Held(q, i, "tap"))
      BY <3>1, FaultGrows
    <3>3. QED
      BY <1>1, <1>2, <2>2, <3>2
  <2>3. QED
    BY <1>1, <1>3, <2>1, <2>2
<1>5. ASSUME NEW i \in 2..Len(p) PROVE Near(p[i-1], p[i]) /\ Leading(p[i-1], p[i])
  <2>1. Near(q[i-1], q[i]) /\ Leading(q[i-1], q[i])
    BY <1>1, <1>5 DEF FaultStack
  <2>2. CASE i = 2
    BY <1>1, <1>3, <2>1, <2>2 DEF Near, Leading, Alike
  <2>3. CASE i > 2
    <3>1. i - 1 \in 2..Len(p)
      BY <1>1, <1>3, <2>3
    <3>2. QED
      BY <1>1, <1>5, <2>1, <3>1
  <2>4. QED
    BY <2>2, <2>3
<1>6. QED
  BY <1>4, <1>5 DEF FaultStack, p

LEMMA FaultPop ==
  ASSUME NEW q \in Seq(Frames), q # <<>>, NEW old, NEW failed, old \subseteq failed,
         FaultStack(q, old)
  PROVE  FaultStack(Tail(q), failed)
<1> DEFINE p == Tail(q)
<1>1. Len(p) = Len(q) - 1 /\ \A i \in 1..Len(p) : p[i] = q[i+1]
  BY PopFacts
<1>2. \A i \in 1..Len(p) : Held(p, i, "tap") = Held(q, i+1, "tap")
  BY HeldPop
<1>3. Len(q) \in Nat
  BY LenProperties
<1> HIDE DEF p
<1>4. ASSUME NEW i \in 1..Len(p) PROVE Fault(p[i], failed \cup Held(p, i, "tap"))
  <2>1. i + 1 \in 1..Len(q)
    BY <1>1, <1>3
  <2>2. Fault(q[i+1], old \cup Held(q, i+1, "tap"))
    BY <2>1 DEF FaultStack
  <2>3. Fault(q[i+1], failed \cup Held(q, i+1, "tap"))
    BY <2>2, FaultGrows
  <2>4. QED
    BY <1>1, <1>2, <2>3
<1>5. ASSUME NEW i \in 2..Len(p) PROVE Near(p[i-1], p[i]) /\ Leading(p[i-1], p[i])
  <2>1. i + 1 \in 2..Len(q) /\ (i + 1) - 1 = i /\ i - 1 \in 1..Len(p) /\ (i - 1) + 1 = i
    BY <1>1, <1>3
  <2>2. p[i] = q[i+1] /\ p[i-1] = q[i]
    BY <1>1, <2>1
  <2>3. QED
    BY <2>1, <2>2 DEF FaultStack
<1>6. QED
  BY <1>4, <1>5 DEF FaultStack, p
-----------------------------------------------------------------------------
(* What each step does to it, as long as the stack does not end.             *)

NobodyLeads ==
  \A c \in Channel :
    /\ IsList(handlers[c]) /\ c \notin Invalid => \A h \in Members(handlers[c]) : ~Leads(h)
    /\ IsList(taps[c]) => \A h \in Members(taps[c]) : ~Leads(h)

ErrorsHaveCause ==
  exc = "error" => Top.at = "tap" \/ Top.msg \in faulty \cup Held(stack, 1, "tap")

FaultyWay == FaultStack(stack, faulty) /\ ErrorsHaveCause
FaultInv == FaultyWay /\ NobodyLeads

LEMMA TopFault ==
  ASSUME BusInv, FaultInv, stack # <<>>
  PROVE  /\ stack \in Seq(Frames) /\ Top \in Frames /\ Top.msg \in Message
         /\ FaultStack(stack, faulty) /\ Fault(Top, faulty \cup Held(stack, 1, "tap"))
<1>1. stack \in Seq(Frames) /\ Top \in Frames /\ Top.msg \in Message
  BY TopFacts
<1>2. Top = stack[1] /\ 1 \in 1..Len(stack)
  BY <1>1, PopFacts, EmptySeq, LenProperties DEF Top
<1>3. QED
  BY <1>1, <1>2 DEF FaultInv, FaultyWay, FaultStack

\* The dispatch that called the running handler.
LEMMA CallerFault ==
  ASSUME BusInv, FaultInv, stack # <<>>, ~IsSend(Top)
  PROVE  /\ Tail(stack) # <<>> /\ Head(Tail(stack)) = stack[2] /\ IsSend(stack[2])
         /\ stack[2].at \in {"tap", "dispatch"}
         /\ Top.msg = stack[2].msg /\ Leading(Top, stack[2])
         /\ Fault(stack[2], faulty \cup Held(stack, 2, "tap"))
         /\ Held(stack, 2, "tap") \subseteq Held(stack, 1, "tap")
         /\ Held(Tail(stack), 1, "tap") = Held(stack, 2, "tap")
         /\ stack[2].at # "tap" => Held(stack, 1, "tap") = Held(stack, 2, "tap")
<1>1. stack \in Seq(Frames) /\ StackOK(stack) /\ Top = stack[1]
  BY TopFacts, PopFacts DEF Top
<1>2. /\ Tail(stack) # <<>> /\ IsSend(Head(Tail(stack)))
      /\ Head(Tail(stack)).at \in {"tap", "dispatch"}
  BY <1>1, StackPop DEF Top
<1>3. /\ Head(Tail(stack)) = stack[2] /\ 2 \in 2..Len(stack)
      /\ Held(Tail(stack), 1, "tap") = Held(stack, 2, "tap")
      /\ Held(stack, 1, "tap") = Held(stack, 2, "tap") \cup
                                   (IF stack[2].at = "tap" THEN {stack[2].msg} ELSE {})
  BY <1>1, <1>2, HeldPop
<1>4. 2 - 1 = 1 /\ 2 \in 1..Len(stack)
  BY <1>3
<1>5. /\ Near(stack[1], stack[2]) /\ Leading(stack[1], stack[2])
      /\ Fault(stack[2], faulty \cup Held(stack, 2, "tap"))
  BY <1>3, <1>4 DEF FaultInv, FaultyWay, FaultStack
<1>6. QED
  BY <1>1, <1>2, <1>3, <1>5 DEF Near

LEMMA SendFault ==
  ASSUME BusInv, FaultInv, NEW c \in Channel, NEW m \in Message, NEW fair,
         c \in Invalid => m \in fair
  PROVE  Fault(SendFrame(c, m), fair)
<1>1. \A h \in Members(SendFrame(c, m).todo) : ~Leads(h)
  <2>1. CASE IsList(taps[c])
    BY <2>1 DEF FaultInv, NobodyLeads, SendFrame
  <2>2. CASE ~IsList(taps[c])
    BY <2>2, EmptyMembers DEF SendFrame
  <2>3. QED
    BY <2>1, <2>2
<1>2. SendFrame(c, m).ch = c /\ SendFrame(c, m).msg = m /\ SendFrame(c, m).err = FALSE
  BY DEF SendFrame
<1>3. QED
  BY <1>1, <1>2 DEF Fault

LEMMA FaultCall ==
  ASSUME BusInv, FaultInv, stack # <<>>, NEW a \in Frames, NEW b \in Frames,
         Call(b, a), exc' # "overflow", faulty \subseteq faulty',
         Near(a, b), Leading(a, b), Alike(b, Top),
         Fault(a, faulty' \cup Held(stack, 1, "tap")),
         Fault(b, faulty' \cup Held(stack, 1, "tap"))
  PROVE  FaultyWay'
<1>1. stack' = <<a, b>> \o Tail(stack) /\ exc' = "none"
  BY DEF Call
<1>2. FaultStack(stack', faulty')
  BY <1>1, TopFault, FaultPush DEF Top
<1>3. QED
  BY <1>1, <1>2 DEF FaultyWay, ErrorsHaveCause

LEMMA FaultOn ==
  ASSUME BusInv, FaultInv, stack # <<>>, NEW b \in Frames,
         stack' = <<b>> \o Tail(stack), faulty \subseteq faulty', Alike(b, Top),
         Fault(b, faulty' \cup Held(stack, 1, "tap")),
         exc' = "error" => Top.msg \in faulty' \cup Held(stack, 1, "tap")
  PROVE  FaultyWay'
<1>1. stack \in Seq(Frames) /\ FaultStack(stack, faulty)
  BY TopFault
<1>2. FaultStack(stack', faulty')
  BY <1>1, FaultGoto DEF Top
<1>3. /\ stack' \in Seq(Frames) /\ stack'[1] = b /\ Len(stack') = Len(stack)
  BY <1>1, GotoFacts
<1>4. Len(stack) \in Nat /\ Len(stack) > 0
  BY <1>1, LenProperties, EmptySeq
<1>5. stack' # <<>> /\ Head(stack') = b /\ 1 \in 1..Len(stack')
  BY <1>3, <1>4, EmptySeq, PopFacts
<1>6. Held(stack', 1, "tap") = Held(stack, 1, "tap")
  BY <1>1, <1>5, HeldGoto
<1>7. b.msg = Top.msg
  BY DEF Alike
<1>8. QED
  BY <1>2, <1>5, <1>6, <1>7 DEF FaultyWay, ErrorsHaveCause, Top

LEMMA FaultReturn ==
  ASSUME BusInv, FaultInv, stack # <<>>, Return, faulty \subseteq faulty'
  PROVE  FaultyWay'
<1>1. FaultStack(stack', faulty') /\ exc' = "none"
  BY TopFault, FaultPop DEF Return
<1>2. QED
  BY <1>1 DEF FaultyWay, ErrorsHaveCause

\* What a handler throws lands in its dispatch, which belongs to the same message.
LEMMA FaultPropagate ==
  ASSUME BusInv, FaultInv, stack # <<>>, Propagate, exc # "overflow", exc # "none",
         Top.at \in {"body", "output", "error", "invalid"}, faulty' = faulty
  PROVE  FaultyWay'
<1>1. stack' = Tail(stack) /\ exc' = exc /\ FaultStack(stack', faulty')
  BY TopFault, FaultPop DEF Propagate
<1>2. exc = "error" /\ Top.at \in {"body", "output", "error"}
  BY DEF BusInv, Sound, SendContainsErrors
<1>3. ~IsSend(Top)
  BY <1>2, HandleTop
<1>4. Top.msg \in faulty \cup Held(stack, 1, "tap")
  BY <1>2 DEF FaultInv, FaultyWay, ErrorsHaveCause
<1>5. /\ Head(stack') = stack[2] /\ Top.msg = stack[2].msg
      /\ Held(stack', 1, "tap") = Held(stack, 2, "tap")
      /\ stack[2].at # "tap" => Held(stack, 1, "tap") = Held(stack, 2, "tap")
  BY <1>1, <1>3, CallerFault
<1>6. QED
  BY <1>1, <1>4, <1>5 DEF FaultyWay, ErrorsHaveCause, Top

\* The catch of send reports a message that something failed for.
LEMMA FaultFail ==
  ASSUME BusInv, FaultInv, stack # <<>>, Top \in SendFrames, Fail, exc' # "overflow",
         faulty \subseteq faulty', Top.msg \in faulty' \cup Held(stack, 1, "tap")
  PROVE  FaultyWay'
<1>1. CASE Top.ch = IMC(HomeOf(Top.ch))
  BY <1>1, FaultReturn DEF Fail
<1>2. CASE Top.ch # IMC(HomeOf(Top.ch))
  <2> DEFINE b == [Top EXCEPT !.at = "invalid", !.todo = <<>>]
             a == SendFrame(IMC(HomeOf(Top.ch)), Top.msg)
  <2>1. Call(b, a)
    BY <1>2 DEF Fail
  <2>2. Top.ch \in Channel /\ Top.msg \in Message /\ IMC(HomeOf(Top.ch)) \in Channel
    BY ChannelFacts DEF SendFrames
  <2>3. <<>> \in Seq(Handler)
    BY EmptySeq
  <2>4. /\ b \in SendFrames /\ b.at = "invalid" /\ b.ch = Top.ch /\ b.msg = Top.msg
        /\ b.todo = <<>> /\ IsSend(b) /\ IsSend(Top)
    BY <2>3 DEF SendFrames, IsSend
  <2>5. a \in SendFrames /\ IsSend(a) /\ a.msg = Top.msg
    BY <2>2, NewSend DEF SendFrame
  <2>6. Fault(a, faulty' \cup Held(stack, 1, "tap"))
    BY <2>2, SendFault
  <2> HIDE DEF a, b
  <2>7. Fault(b, faulty' \cup Held(stack, 1, "tap"))
    BY <2>4, EmptyMembers DEF Fault
  <2>8. Near(a, b) /\ Leading(a, b) /\ Alike(b, Top)
    BY <2>4, <2>5 DEF Near, Leading, Alike
  <2>9. QED
    BY <2>1, <2>4, <2>5, <2>6, <2>7, <2>8, FaultCall DEF Frames
<1>3. QED
  BY <1>1, <1>2

LEMMA FaultUndelivered ==
  ASSUME BusInv, FaultInv, stack # <<>>, Top \in SendFrames, Undelivered,
         exc' # "overflow", faulty' = faulty
  PROVE  FaultyWay'
<1>1. CASE Top.ch = DLC(HomeOf(Top.ch))
  BY <1>1, FaultReturn DEF Undelivered
<1>2. CASE Top.ch # DLC(HomeOf(Top.ch))
  <2> DEFINE b == [Top EXCEPT !.at = "dead"]
             a == SendFrame(DLC(HomeOf(Top.ch)), Top.msg)
  <2>1. Call(b, a)
    BY <1>2 DEF Undelivered
  <2>2. Top.ch \in Channel /\ Top.msg \in Message /\ DLC(HomeOf(Top.ch)) \in Channel
    BY ChannelFacts DEF SendFrames
  <2>3. DLC(HomeOf(Top.ch)) \notin Invalid
    BY DEF DLC, IMC, Invalid
  <2>4. /\ b \in SendFrames /\ b.at = "dead" /\ b.ch = Top.ch /\ b.msg = Top.msg
        /\ b.todo = Top.todo /\ b.err = Top.err /\ IsSend(b) /\ IsSend(Top)
    BY DEF SendFrames, IsSend
  <2>5. a \in SendFrames /\ IsSend(a) /\ a.msg = Top.msg
    BY <2>2, NewSend DEF SendFrame
  <2>6. Fault(a, faulty' \cup Held(stack, 1, "tap"))
    BY <2>2, <2>3, SendFault
  <2> HIDE DEF a, b
  <2>7. Fault(b, faulty' \cup Held(stack, 1, "tap"))
    BY <2>4, TopFault DEF Fault
  <2>8. Near(a, b) /\ Leading(a, b) /\ Alike(b, Top)
    BY <2>4, <2>5 DEF Near, Leading, Alike
  <2>9. QED
    BY <2>1, <2>4, <2>5, <2>6, <2>7, <2>8, FaultCall DEF Frames
<1>3. QED
  BY <1>1, <1>2

LEMMA BlameFacts ==
  ASSUME stack # <<>>, NEW m, Blame(m)
  PROVE  faulty \subseteq faulty' /\ m \in faulty' \cup Held(stack, 1, "tap")
  BY TopOnTap DEF Blame

LEMMA QuietLeads ==
  ASSUME FaultInv, Quiet
  PROVE  NobodyLeads'
  BY DEF FaultInv, NobodyLeads, Quiet
LEMMA CallHandlerFault ==
  ASSUME BusInv, FaultInv, CallHandler, exc' # "overflow"
  PROVE  FaultyWay'
<1> DEFINE b == [Top EXCEPT !.todo = Tail(@)]
           a == HandleFrame(Head(Top.todo), Top.msg)
<1>1. /\ stack # <<>> /\ Top.at \in {"tap", "dispatch"} /\ Top.todo # <<>>
      /\ Call(b, a) /\ faulty' = faulty
  BY DEF CallHandler, Running, NoHistory
<1>2. Top \in SendFrames /\ IsSend(Top) /\ Top.todo \in Seq(Handler) /\ Top.msg \in Message
  BY <1>1, SendTop DEF SendFrames
<1>3. /\ Head(Top.todo) \in Members(Top.todo) /\ Head(Top.todo) \in Handler
      /\ Tail(Top.todo) \in Seq(Handler) /\ Members(Tail(Top.todo)) \subseteq Members(Top.todo)
  BY <1>1, <1>2, TailMembers
<1>4. /\ b \in SendFrames /\ b.at = Top.at /\ b.todo = Tail(Top.todo) /\ b.ch = Top.ch
      /\ b.msg = Top.msg /\ b.err = Top.err /\ IsSend(b)
  BY <1>2, <1>3 DEF SendFrames, IsSend
<1>5. a \in HandleFrames /\ ~IsSend(a) /\ a.h = Head(Top.todo) /\ a.msg = Top.msg
  BY <1>2, <1>3, NewHandle DEF HandleFrame
<1> HIDE DEF a, b
<1>6. Fault(Top, faulty' \cup Held(stack, 1, "tap"))
  BY <1>1, TopFault
<1>7. Fault(b, faulty' \cup Held(stack, 1, "tap")) /\ Fault(a, faulty' \cup Held(stack, 1, "tap"))
  BY <1>2, <1>3, <1>4, <1>5, <1>6 DEF Fault
<1>8. Near(a, b) /\ Leading(a, b) /\ Alike(b, Top)
  BY <1>2, <1>3, <1>4, <1>5, <1>6 DEF Near, Leading, Alike, Fault
<1>9. QED
  BY <1>1, <1>4, <1>5, <1>7, <1>8, FaultCall DEF Frames

LEMMA DispatchFault ==
  ASSUME BusInv, FaultInv, Dispatch, exc' # "overflow"
  PROVE  FaultyWay'
<1> DEFINE q == handlers[Top.ch]
<1>1. stack # <<>> /\ Top.at = "tap"
  BY DEF Dispatch, Running
<1>2. Top \in SendFrames /\ IsSend(Top) /\ Top.ch \in Channel
  BY <1>1, SendTop DEF SendFrames
<1>3. CASE q = Gone /\ Fail /\ Blame(Top.msg)
  BY <1>1, <1>2, <1>3, BlameFacts, FaultFail
<1>4. CASE q = <<>> /\ Undelivered /\ NoHistory
  BY <1>1, <1>2, <1>4, FaultUndelivered DEF NoHistory
<1>5. ASSUME NoHistory, IsList(q), NEW todo \in Seq(Handler), Members(todo) \subseteq Members(q),
             Goto([Top EXCEPT !.at = "dispatch", !.todo = todo])
      PROVE  FaultyWay'
  <2> DEFINE b == [Top EXCEPT !.at = "dispatch", !.todo = todo]
  <2>1. /\ b \in SendFrames /\ IsSend(b) /\ b.todo = todo /\ b.ch = Top.ch
        /\ b.msg = Top.msg /\ b.err = Top.err
    BY <1>2, <1>5 DEF SendFrames, IsSend
  <2>2. stack' = <<b>> \o Tail(stack) /\ exc' = "none" /\ faulty' = faulty
    BY <1>5 DEF Goto, NoHistory
  <2> HIDE DEF b
  <2>3. Alike(b, Top)
    BY <1>2, <2>1 DEF Alike
  <2>4. Top.ch \notin Invalid => \A h \in Members(q) : ~Leads(h)
    BY <1>2, <1>5 DEF FaultInv, NobodyLeads
  <2>5. Fault(b, faulty' \cup Held(stack, 1, "tap"))
    BY <1>1, <1>2, <1>5, <2>1, <2>2, <2>4, TopFault DEF Fault
  <2>6. QED
    BY <1>1, <2>1, <2>2, <2>3, <2>5, FaultOn DEF Frames
<1>6. ASSUME IsList(q) PROVE q \in Seq(Handler)
  BY <1>2, <1>6 DEF BusInv, TypeOK, IsList
<1>7. ASSUME IsList(q), NEW h \in Members(q)
      PROVE  <<h>> \in Seq(Handler) /\ Members(<<h>>) \subseteq Members(q)
  <2>1. h \in Handler
    BY <1>6, <1>7, ElementOfSeq DEF Members
  <2>2. Len(<<h>>) = 1 /\ <<h>>[1] = h /\ \A i \in 1..1 : i = 1
    OBVIOUS
  <2>3. Members(<<h>>) = {h}
    BY <2>2 DEF Members
  <2>4. QED
    BY <1>7, <2>1, <2>3
<1>8. CASE /\ IsList(q) /\ q # <<>>
           /\ IF StyleOf(Top.ch) = "default"
                THEN \E h \in Members(q) :
                       Goto([Top EXCEPT !.at = "dispatch", !.todo = <<h>>])
                ELSE Goto([Top EXCEPT !.at = "dispatch", !.todo = q])
           /\ NoHistory
  <2>1. CASE StyleOf(Top.ch) = "default"
    BY <1>5, <1>7, <1>8, <2>1
  <2>2. CASE StyleOf(Top.ch) # "default"
    BY <1>5, <1>6, <1>8, <2>2
  <2>3. QED
    BY <2>1, <2>2
<1>9. QED
  BY <1>3, <1>4, <1>8 DEF Dispatch

LEMMA SendFaults ==
  ASSUME BusInv, FaultInv, exc # "overflow", exc' # "overflow",
         EndDispatch \/ SinkReturns \/ CatchInTap \/ CatchInDispatch
           \/ CatchInDead \/ ThrowFromInvalid
  PROVE  FaultyWay'
<1>1. /\ stack # <<>> /\ faulty' = faulty
      /\ Top.at \in {"tap", "dispatch", "dead", "invalid"}
  BY DEF EndDispatch, SinkReturns, CatchInTap, CatchInDispatch, CatchInDead,
         ThrowFromInvalid, Running, Catching, NoHistory
<1>2. /\ Top \in SendFrames /\ IsSend(Top)
      /\ Fault(Top, faulty' \cup Held(stack, 1, "tap"))
  BY <1>1, SendTop, TopFault
<1>3. CASE EndDispatch
  <2>1. CASE Top.err
    BY <1>1, <1>2, <1>3, <2>1, FaultFail DEF EndDispatch, Fault
  <2>2. CASE ~Top.err
    BY <1>1, <1>3, <2>2, FaultReturn DEF EndDispatch
  <2>3. QED
    BY <2>1, <2>2
<1>4. CASE SinkReturns
  BY <1>1, <1>4, FaultReturn DEF SinkReturns
<1>5. CASE CatchInTap
  BY <1>1, <1>2, <1>5, FaultOn DEF CatchInTap, Goto, Alike, Frames
<1>6. CASE CatchInDispatch
  <2> DEFINE b == [Top EXCEPT !.err = TRUE]
  <2>1. /\ b \in SendFrames /\ b.ch = Top.ch /\ b.todo = Top.todo /\ b.msg = Top.msg
        /\ IsSend(b) /\ stack' = <<b>> \o Tail(stack) /\ exc' = "none"
    BY <1>2, <1>6 DEF SendFrames, IsSend, CatchInDispatch, Goto
  <2> HIDE DEF b
  <2>2. exc = "error" /\ Top.at = "dispatch"
    BY <1>6 DEF CatchInDispatch, Catching, BusInv, Sound
  <2>3. Top.msg \in faulty' \cup Held(stack, 1, "tap")
    BY <1>1, <2>2 DEF FaultInv, FaultyWay, ErrorsHaveCause
  <2>4. Fault(b, faulty' \cup Held(stack, 1, "tap"))
    BY <1>2, <2>1, <2>3 DEF Fault
  <2>5. Alike(b, Top)
    BY <1>2, <2>1 DEF Alike
  <2>6. QED
    BY <1>1, <2>1, <2>4, <2>5, FaultOn DEF Frames
<1>7. ~CatchInDead /\ ~ThrowFromInvalid
  BY DEF CatchInDead, ThrowFromInvalid, Catching, BusInv, Sound, SendContainsErrors
<1>8. QED
  BY <1>3, <1>4, <1>5, <1>6, <1>7

\* A handler's frame that moves to its next send, and one that makes it.
LEMMA HandleOnFault ==
  ASSUME BusInv, FaultInv, stack # <<>>, Top \in HandleFrames, NEW pc \in {"output", "error"},
         stack' = <<[Top EXCEPT !.at = pc]>> \o Tail(stack), faulty \subseteq faulty',
         Top.msg \in faulty' \cup Held(stack, 1, "tap")
  PROVE  FaultyWay'
<1> DEFINE b == [Top EXCEPT !.at = pc]
<1>1. /\ b \in HandleFrames /\ ~IsSend(b) /\ ~IsSend(Top) /\ b.h = Top.h
      /\ b.msg = Top.msg /\ IsSend(b) = IsSend(Top)
  BY DEF HandleFrames, IsSend
<1>2. stack' = <<b>> \o Tail(stack)
  OBVIOUS
<1> HIDE DEF b
<1>3. Alike(b, Top) /\ Fault(b, faulty' \cup Held(stack, 1, "tap"))
  BY <1>1 DEF Alike, Fault
<1>4. QED
  BY <1>1, <1>2, <1>3, FaultOn DEF Frames

LEMMA HandleCallsFault ==
  ASSUME BusInv, FaultInv, stack # <<>>, Top \in HandleFrames, NEW b \in HandleFrames,
         b.h = Top.h, b.msg = Top.msg, NEW c \in Channel, NEW m \in Message,
         Call(b, SendFrame(c, m)), exc' # "overflow", faulty' = faulty,
         m = Top.msg \/ b.at = "body",
         c \in Invalid => m \in faulty \cup Held(stack, 1, "tap")
  PROVE  FaultyWay'
<1> DEFINE a == SendFrame(c, m)
<1>1. ~IsSend(b) /\ ~IsSend(Top) /\ IsSend(b) = IsSend(Top)
  BY DEF HandleFrames, IsSend
<1>2. a \in SendFrames /\ IsSend(a) /\ a.msg = m
  BY NewSend DEF SendFrame
<1>3. Fault(a, faulty' \cup Held(stack, 1, "tap"))
  BY SendFault
<1>4. Call(b, a)
  OBVIOUS
<1> HIDE DEF a
<1>5. Near(a, b) /\ Leading(a, b) /\ Alike(b, Top) /\ Fault(b, faulty' \cup Held(stack, 1, "tap"))
  BY <1>1, <1>2 DEF Near, Leading, Alike, Fault
<1>6. QED
  BY <1>2, <1>3, <1>4, <1>5, FaultCall DEF Frames

\* Where a handler sends on to an invalid message channel, its caller is one.
LEMMA ForwardsToInvalid ==
  ASSUME BusInv, FaultInv, OnlyReported, stack # <<>>, Top \in HandleFrames,
         NextOutput(Top.h, Top.msg) \in Invalid
  PROVE  Top.msg \in faulty \cup Held(stack, 1, "tap")
<1>1. ~IsSend(Top) /\ Top.msg \in Message
  BY DEF HandleFrames, IsSend
<1>2. Leads(Top.h)
  <2>1. ReplyTo[Top.msg] \notin Invalid
    BY <1>1 DEF OnlyReported
  <2>2. QED
    BY <2>1 DEF NextOutput, Leads
<1>3. /\ IsSend(stack[2]) /\ stack[2].ch \in Invalid /\ Top.msg = stack[2].msg
      /\ Fault(stack[2], faulty \cup Held(stack, 2, "tap"))
      /\ Held(stack, 2, "tap") \subseteq Held(stack, 1, "tap")
  BY <1>1, <1>2, CallerFault DEF Leading
<1>4. QED
  BY <1>3 DEF Fault

LEMMA HandleFaults ==
  ASSUME BusInv, FaultInv, OnlyReported, HandleStep, exc # "overflow", exc' # "overflow"
  PROVE  FaultyWay'
<1>1. CASE HandlerReturns
  BY <1>1, FaultReturn DEF HandlerReturns, Running
<1>2. CASE HandlerForwards
  <2> DEFINE out == NextOutput(Top.h, Top.msg)
             b == [Top EXCEPT !.at = "output"]
  <2>1. stack # <<>> /\ Top.at = "body" /\ out \notin {None, Noop}
    BY <1>2 DEF HandlerForwards, Running
  <2>2. Top \in HandleFrames /\ Top.h \in Handler /\ Top.msg \in Message
    BY <2>1, HandleTop DEF HandleFrames
  <2>3. CASE stack' = <<b>> \o Tail(stack) /\ Blame(Top.msg)
    BY <2>1, <2>2, <2>3, BlameFacts, HandleOnFault
  <2>4. CASE out # Missing /\ Call(b, SendFrame(out, Top.msg)) /\ NoHistory
    <3>1. out \in Channel
      BY <2>1, <2>2, <2>4, RouteFacts DEF ChannelRef
    <3>2. b \in HandleFrames /\ b.h = Top.h /\ b.msg = Top.msg
      BY <2>2 DEF HandleFrames
    <3>3. out \in Invalid => Top.msg \in faulty \cup Held(stack, 1, "tap")
      BY <2>1, <2>2, ForwardsToInvalid
    <3> HIDE DEF b, out
    <3>4. QED
      BY <2>1, <2>2, <2>4, <3>1, <3>2, <3>3, HandleCallsFault DEF NoHistory
  <2>5. QED
    BY <1>2, <2>3, <2>4 DEF HandlerForwards
<1>3. CASE HandlerThrows
  <2>1. /\ stack # <<>> /\ Blame(Top.msg) /\ stack' = stack
    BY <1>3 DEF HandlerThrows, Running
  <2>2. faulty \subseteq faulty' /\ Top.msg \in faulty' \cup Held(stack, 1, "tap")
    BY <2>1, BlameFacts
  <2>3. FaultStack(stack, faulty')
    <3>1. ASSUME NEW i \in 1..Len(stack)
          PROVE  Fault(stack[i], faulty' \cup Held(stack, i, "tap"))
      <4>1. Fault(stack[i], faulty \cup Held(stack, i, "tap"))
        BY DEF FaultInv, FaultyWay, FaultStack
      <4>2. QED
        BY <2>2, <4>1, FaultGrows
    <3>2. QED
      BY <3>1 DEF FaultInv, FaultyWay, FaultStack
  <2>4. QED
    BY <2>1, <2>2, <2>3 DEF FaultyWay, ErrorsHaveCause, Top
<1>4. CASE ForwardReturns
  BY <1>4, FaultReturn DEF ForwardReturns, Running, NoHistory
<1>5. CASE CatchInHandler
  <2> DEFINE err == NextError(Top.h, Top.msg)
             b == [Top EXCEPT !.at = "error"]
  <2>1. stack # <<>> /\ Top.at \in {"body", "output"} /\ faulty' = faulty /\ exc = "error"
    BY <1>5 DEF CatchInHandler, Catching, NoHistory, BusInv, Sound
  <2>2. Top \in HandleFrames /\ Top.msg \in Message
    BY <2>1, HandleTop DEF HandleFrames
  <2>3. Top.msg \in faulty \cup Held(stack, 1, "tap")
    BY <2>1 DEF FaultInv, FaultyWay, ErrorsHaveCause
  <2>4. CASE Propagate \/ Return
    BY <2>1, <2>4, FaultPropagate, FaultReturn
  <2>5. CASE stack' = <<b>> \o Tail(stack)
    BY <2>1, <2>2, <2>3, <2>5, HandleOnFault
  <2>6. CASE err \in Channel /\ Call(b, SendFrame(err, Top.msg))
    <3>1. b \in HandleFrames /\ b.h = Top.h /\ b.msg = Top.msg
      BY <2>2 DEF HandleFrames
    <3> HIDE DEF b, err
    <3>2. QED
      BY <2>1, <2>2, <2>3, <2>6, <3>1, HandleCallsFault
  <2>7. QED
    BY <1>5, <2>4, <2>5, <2>6 DEF CatchInHandler
<1>6. CASE ThrowFromError
  BY <1>6, FaultPropagate DEF ThrowFromError, Catching, NoHistory
<1>7. QED
  BY <1>1, <1>2, <1>3, <1>4, <1>5, <1>6 DEF HandleStep
LEMMA AppFaults ==
  ASSUME BusInv, FaultInv, OnlyReported, AppStep, exc' # "overflow"
  PROVE  FaultInv'
<1>1. ASSUME stack' = stack, faulty \subseteq faulty',
             exc' = "error" => stack # <<>> /\ Top.msg \in faulty' \cup Held(stack, 1, "tap")
      PROVE  FaultyWay'
  <2>1. ASSUME NEW i \in 1..Len(stack)
        PROVE  Fault(stack[i], faulty' \cup Held(stack, i, "tap"))
    <3>1. Fault(stack[i], faulty \cup Held(stack, i, "tap"))
      BY DEF FaultInv, FaultyWay, FaultStack
    <3>2. QED
      BY <1>1, <3>1, FaultGrows
  <2>2. FaultStack(stack, faulty')
    BY <2>1 DEF FaultInv, FaultyWay, FaultStack
  <2>3. QED
    BY <1>1, <2>2 DEF FaultyWay, ErrorsHaveCause, Top
<1>2. ASSUME AppCallThrows, UNCHANGED <<handlers, taps>> PROVE FaultInv'
  <2>1. FaultyWay'
    BY <1>1, <1>2, BlameFacts DEF AppCallThrows, NoHistory
  <2>2. NobodyLeads'
    BY <1>2 DEF FaultInv, NobodyLeads
  <2>3. QED
    BY <2>1, <2>2 DEF FaultInv
<1>3. ASSUME UNCHANGED <<stack, exc, faulty>>, AppTurn PROVE FaultyWay'
  BY <1>3, <1>1 DEF AppTurn
<1>4. ASSUME NEW c \in Entry, NEW m \in Message, Send(c, m) PROVE FaultInv'
  <2>1. c \in Channel /\ c \notin Invalid
    BY ChannelAssumption DEF OnlyReported
  <2>2. NobodyLeads'
    BY <1>4 DEF Send, FaultInv, NobodyLeads
  <2>3. CASE stack = <<>>
    <3>1. stack' = <<SendFrame(c, m)>> /\ exc' = "none"
      BY <1>4, <2>3 DEF Send, AppTurn
    <3>2. Len(stack') = 1 /\ stack'[1] = SendFrame(c, m)
      BY <3>1
    <3>3. Fault(SendFrame(c, m), faulty' \cup Held(stack', 1, "tap"))
      BY <2>1, SendFault
    <3>4. FaultStack(stack', faulty')
      BY <3>2, <3>3 DEF FaultStack
    <3>5. QED
      BY <2>2, <3>1, <3>4 DEF FaultInv, FaultyWay, ErrorsHaveCause
  <2>4. CASE stack # <<>>
    <3>1. Call(Top, SendFrame(c, m)) /\ Top.at = "body" /\ faulty' = faulty
      BY <1>4, <2>4 DEF Send, AppTurn, NoHistory
    <3>2. Top \in HandleFrames
      BY <2>4, <3>1, HandleTop
    <3>3. QED
      BY <2>1, <2>2, <2>4, <3>1, <3>2, HandleCallsFault DEF FaultInv
  <2>5. QED
    BY <2>3, <2>4
<1>5. ASSUME NEW p \in Mutable, Subscribe(p[1], p[2]) \/ Unsubscribe(p[1], p[2])
      PROVE  FaultInv'
  <2>1. p[1] \in Channel /\ p[2] \in AppHandler
    BY HandlerAssumption
  <2> SUFFICES ASSUME NEW c \in Channel, NEW h \in AppHandler, Subscribe(c, h) \/ Unsubscribe(c, h)
               PROVE  FaultInv'
    BY <1>5, <2>1
  <2>2. CASE handlers[c] = Gone
    BY <1>2, <2>2 DEF Subscribe, Unsubscribe, AppCallThrows
  <2>3. CASE handlers[c] # Gone
    <3>1. /\ UNCHANGED <<stack, exc, faulty, taps>> /\ AppTurn
          /\ \/ handlers' = [handlers EXCEPT ![c] = Add(@, h)]
             \/ handlers' = [handlers EXCEPT ![c] = Without(@, h)]
      BY <2>3 DEF Subscribe, Unsubscribe, NoHistory
    <3>2. handlers \in [Channel -> Seq(Handler) \cup {Gone}] /\ h \in Handler
      BY DEF BusInv, TypeOK, Handler
    <3>3. handlers[c] \in Seq(Handler) /\ IsList(handlers[c])
      BY <2>3, <3>2, MarkAssumption DEF IsList
    <3>4. /\ Members(Add(handlers[c], h)) \subseteq Members(handlers[c]) \cup {h}
          /\ Members(Without(handlers[c], h)) \subseteq Members(handlers[c])
      <4>1. Members(Add(handlers[c], h)) = Members(handlers[c]) \cup {h}
        BY <3>2, <3>3, AddFacts
      <4>2. Members(Without(handlers[c], h)) \subseteq Members(handlers[c])
        BY <3>2, <3>3, WithoutFacts
      <4>3. QED
        BY <4>1, <4>2
    <3>5. Members(handlers'[c]) \subseteq Members(handlers[c]) \cup {h}
      BY <3>1, <3>2, <3>4
    <3>6. \A d \in Channel : d # c => handlers'[d] = handlers[d]
      BY <3>1, <3>2
    <3>7. ~Leads(h)
      BY DEF OnlyReported
    <3>8. NobodyLeads'
      BY <3>1, <3>3, <3>5, <3>6, <3>7 DEF FaultInv, NobodyLeads
    <3>9. QED
      BY <1>3, <3>1, <3>8 DEF FaultInv
  <2>4. QED
    BY <2>2, <2>3
<1>6. ASSUME NEW p \in Tappable, Tap(p[1], p[2]) \/ Untap(p[1], p[2])
      PROVE  FaultInv'
  <2>1. p[1] \in Channel /\ p[2] \in AppHandler
    BY HandlerAssumption
  <2> SUFFICES ASSUME NEW c \in Channel, NEW h \in AppHandler, Tap(c, h) \/ Untap(c, h)
               PROVE  FaultInv'
    BY <1>6, <2>1
  <2>2. CASE taps[c] = Gone
    BY <1>2, <2>2 DEF Tap, Untap, AppCallThrows
  <2>3. CASE taps[c] # Gone
    <3>1. /\ UNCHANGED <<stack, exc, faulty, handlers>> /\ AppTurn
          /\ \/ taps' = [taps EXCEPT ![c] = IF @ = None THEN <<h>> ELSE Add(@, h)]
             \/ taps[c] # None /\ taps' = [taps EXCEPT ![c] = Without(@, h)]
      BY <2>3 DEF Tap, Untap, NoHistory
    <3>2. taps \in [Channel -> Seq(Handler) \cup {None, Gone}] /\ h \in Handler
      BY DEF BusInv, TypeOK, Handler
    <3>3. taps[c] # None =>
            /\ IsList(taps[c])
            /\ Members(Add(taps[c], h)) \subseteq Members(taps[c]) \cup {h}
            /\ Members(Without(taps[c], h)) \subseteq Members(taps[c])
      BY <2>3, <3>2, AddFacts, WithoutFacts DEF IsList
    <3>4. Members(<<h>>) = {h}
      <4>1. Len(<<h>>) = 1 /\ <<h>>[1] = h /\ \A i \in 1..1 : i = 1
        OBVIOUS
      <4>2. QED
        BY <4>1 DEF Members
    <3>5. \/ taps'[c] = <<h>>
          \/ taps[c] # None /\ taps'[c] \in {Add(taps[c], h), Without(taps[c], h)}
      BY <3>1, <3>2
    <3>6. \A d \in Channel : d # c => taps'[d] = taps[d]
      BY <3>1, <3>2
    <3>7. ~Leads(h)
      BY DEF OnlyReported
    <3>8. \A g \in Members(taps'[c]) : ~Leads(g)
      <4>1. CASE taps'[c] = <<h>>
        BY <3>4, <3>7, <4>1
      <4>2. CASE taps[c] # None /\ taps'[c] \in {Add(taps[c], h), Without(taps[c], h)}
        <5>1. \A g \in Members(taps[c]) : ~Leads(g)
          BY <3>3, <4>2 DEF FaultInv, NobodyLeads
        <5>2. Members(taps'[c]) \subseteq Members(taps[c]) \cup {h}
          BY <3>3, <4>2
        <5>3. QED
          BY <3>7, <5>1, <5>2
      <4>3. QED
        BY <3>5, <4>1, <4>2
    <3>9. NobodyLeads'
      BY <3>1, <3>6, <3>8 DEF FaultInv, NobodyLeads
    <3>10. QED
      BY <1>3, <3>1, <3>9 DEF FaultInv
  <2>4. QED
    BY <2>2, <2>3
<1>7. ASSUME NEW b \in Disposable, DestroyBus(b) PROVE FaultInv'
  <2>1. UNCHANGED <<stack, exc, faulty>> /\ AppTurn
    BY <1>7 DEF DestroyBus, NoHistory
  <2>2. \A c \in Channel : handlers'[c] \in {handlers[c], Gone} /\ taps'[c] \in {taps[c], Gone}
    BY <1>7 DEF DestroyBus
  <2>3. NobodyLeads'
    BY <2>2 DEF FaultInv, NobodyLeads, IsList
  <2>4. QED
    BY <1>3, <2>1, <2>3 DEF FaultInv
<1>8. QED
  BY <1>4, <1>5, <1>6, <1>7 DEF AppStep

LEMMA InitFault ==
  ASSUME OnlyReported, Init
  PROVE  FaultInv
<1>1. stack = <<>> /\ Len(stack) = 0 /\ exc = "none"
  BY DEF Init
<1>2. FaultyWay
  BY <1>1 DEF FaultyWay, FaultStack, ErrorsHaveCause
<1>3. ASSUME NEW c \in Channel PROVE ~IsList(taps[c])
  BY DEF Init, IsList
<1>4. ASSUME NEW c \in Channel, c \notin Invalid, NEW h \in Members(handlers[c])
      PROVE  ~Leads(h)
  <2> DEFINE f == Forwarder(<<c[1], Parent[c[2]]>>)
  <2>1. Wiring[c] \in Seq(AppHandler)
    BY HandlerAssumption
  <2>2. \A g \in Members(Wiring[c]) : ~Leads(g)
    BY <2>1, ElementOfSeq DEF OnlyReported, Members
  <2>3. CASE ~(c \notin AppChannel /\ c[2] # Root)
    <3>1. handlers[c] = Wiring[c]
      BY <2>3 DEF Init
    <3>2. QED
      BY <1>4, <2>2, <3>1
  <2>4. CASE c \notin AppChannel /\ c[2] # Root
    <3>1. handlers[c] = <<f>> \o Wiring[c]
      BY <2>4 DEF Init
    <3>2. PICK b \in Bus : c = DLC(b)
      BY <1>4, <2>4 DEF Channel, Invalid
    <3>3. <<c[1], Parent[c[2]]>> = DLC(Parent[b]) /\ Parent[b] \in Bus
      BY <2>4, <3>2, BusAssumption DEF DLC
    <3>4. f = Forwarder(DLC(Parent[b])) /\ DLC(Parent[b]) \in Channel
      BY <3>3 DEF Channel
    <3>5. f \notin AppHandler /\ ChannelOf(f) = DLC(Parent[b])
      BY <3>4, HandlerAssumption DEF ChannelOf, Forwarder
    <3>6. ~Leads(f)
      BY <3>5 DEF Leads, Invalid, DLC, IMC
    <3> HIDE DEF f
    <3>7. Members(<<f>> \o Wiring[c]) \subseteq {f} \cup Members(Wiring[c])
      <4>1. /\ Len(<<f>> \o Wiring[c]) = 1 + Len(Wiring[c]) /\ Len(Wiring[c]) \in Nat
            /\ \A i \in 1..1 + Len(Wiring[c]) :
                 (<<f>> \o Wiring[c])[i] = IF i <= 1 THEN f ELSE Wiring[c][i - 1]
        <5>1. <<f>> \in Seq({f}) /\ Len(<<f>>) = 1 /\ <<f>>[1] = f
          OBVIOUS
        <5>2. <<f>> \in Seq(AppHandler \cup {f}) /\ Wiring[c] \in Seq(AppHandler \cup {f})
          BY <2>1, SeqMonotonic
        <5>3. \A i \in 1..1 + Len(Wiring[c]) : i <= 1 => i = 1
          OBVIOUS
        <5>4. QED
          BY <5>1, <5>2, <5>3, ConcatProperties, LenProperties
      <4>2. \A i \in 1..1 + Len(Wiring[c]) : i <= 1 \/ i - 1 \in 1..Len(Wiring[c])
        BY <4>1
      <4>3. QED
        BY <4>1, <4>2 DEF Members
    <3>8. QED
      BY <1>4, <2>2, <3>1, <3>6, <3>7
  <2>5. QED
    BY <2>3, <2>4
<1>5. QED
  BY <1>2, <1>3, <1>4 DEF FaultInv, NobodyLeads

LEMMA StepFault ==
  ASSUME OnlyReported, BusInv, FaultInv, [Next]_vars, exc # "overflow", exc' # "overflow"
  PROVE  FaultInv'
<1>1. CASE SendStep
  <2>1. Quiet
    BY <1>1 DEF SendStep, CallHandler, Dispatch, EndDispatch, SinkReturns, CatchInTap,
                CatchInDispatch, CatchInDead, ThrowFromInvalid
  <2>2. FaultyWay'
    BY <1>1, CallHandlerFault, DispatchFault, SendFaults DEF SendStep
  <2>3. QED
    BY <2>1, <2>2, QuietLeads DEF FaultInv
<1>2. CASE HandleStep
  <2>1. Quiet
    BY <1>2 DEF HandleStep, HandlerReturns, HandlerForwards, HandlerThrows, ForwardReturns,
                CatchInHandler, ThrowFromError
  <2>2. QED
    BY <1>2, <2>1, HandleFaults, QuietLeads DEF FaultInv
<1>3. CASE AppCatches
  BY <1>3 DEF AppCatches, Quiet, NoHistory, FaultInv, FaultyWay, NobodyLeads, ErrorsHaveCause
<1>4. CASE AppStep
  BY <1>4, AppFaults
<1>5. CASE UNCHANGED vars
  BY <1>5 DEF vars, FaultInv, FaultyWay, NobodyLeads, ErrorsHaveCause, Top
<1>6. QED
  BY <1>1, <1>2, <1>3, <1>4, <1>5 DEF Next, MachineStep

\* For every wiring in which only the buses report invalid messages, and as long as the
\* stack does not run out, a message is reported invalid only after something failed for
\* it outside of its taps (msgs.js:329-346).
THEOREM InvalidHasCause ==
  ASSUME OnlyReported
  PROVE  Spec /\ [](exc # "overflow") => []InvalidOnlyAfterFault
<1>1. Init => FaultInv
  BY InitFault
<1>2. BusInv /\ FaultInv /\ exc # "overflow" /\ (exc # "overflow")' /\ [Next]_vars => FaultInv'
  BY StepFault
<1>3. FaultInv => InvalidOnlyAfterFault
  <2> SUFFICES ASSUME FaultInv, NEW i \in 1..Len(stack), IsSend(stack[i]), stack[i].ch \in Invalid
               PROVE  stack[i].msg \in faulty \/ OnTap(stack[i].msg)
    BY DEF InvalidOnlyAfterFault, Invalid
  <2>1. stack[i].msg \in faulty \cup Held(stack, i, "tap")
    BY DEF FaultInv, FaultyWay, FaultStack, Fault
  <2>2. \A j \in i+1..Len(stack) : j \in 2..Len(stack)
    OBVIOUS
  <2>3. QED
    BY <2>1, <2>2 DEF Held, OnTap
<1>4. QED
  BY <1>1, <1>2, <1>3, BusInvariant, PTL DEF Spec
-----------------------------------------------------------------------------
(* The fate of a message where nothing is broadcast.                         *)

\* What is left of an activation is to return.
Done(f) ==
  \/ f.at \in {"dead", "invalid", "output", "error"}
  \/ f.at = "dispatch" /\ f.todo = <<>> /\ ~f.err

\* An activation that another one runs in calls nobody else, unless it calls taps.
Waiting(f) == f.at = "dispatch" => Done(f)

\* A message is under way in one activation at a time.  When a handler has consumed it,
\* the others have nothing to do but return.  "tapped" and "held" are the messages that
\* taps and transforms below are running for.
Fate(f, tapped, held, from, consumed) ==
  /\ from[f.msg] # None /\ f.msg \notin held
  /\ f.at = "tap" => ~f.err
  /\ f.at = "dispatch" => Len(f.todo) <= 1 /\ (f.err => f.todo = <<>>)
  /\ f.msg \in tapped \/ Done(f) \/ consumed[f.msg] = 0

FateStack(q, from, consumed) ==
  /\ \A i \in 2..Len(q) : Near(q[i-1], q[i]) /\ Waiting(q[i])
  /\ \A i \in 1..Len(q) : Fate(q[i], Held(q, i, "tap"), Held(q, i, "body"), from, consumed)

LEMMA FateSent ==
  ASSUME NEW f \in Frames, NEW s, NEW t, NEW old, NEW from, NEW consumed,
         Fate(f, s, t, old, consumed), \A m \in Message : old[m] # None => from[m] # None
  PROVE  Fate(f, s, t, from, consumed)
<1>1. f.msg \in Message
  BY DEF Frames, SendFrames, HandleFrames
<1>2. QED
  BY <1>1 DEF Fate

LEMMA FatePush ==
  ASSUME NEW q \in Seq(Frames), q # <<>>, NEW old, NEW from, NEW consumed,
         \A m \in Message : old[m] # None => from[m] # None,
         FateStack(q, old, consumed), NEW a \in Frames, NEW b \in Frames,
         Near(a, b), Waiting(b), Alike(b, Head(q)),
         Fate(a, Held(q, 1, "tap") \cup (IF b.at = "tap" THEN {b.msg} ELSE {}),
                 Held(q, 1, "body") \cup (IF b.at = "body" THEN {b.msg} ELSE {}),
                 from, consumed),
         Fate(b, Held(q, 1, "tap"), Held(q, 1, "body"), from, consumed)
  PROVE  FateStack(<<a, b>> \o Tail(q), from, consumed)
<1> DEFINE p == <<a, b>> \o Tail(q)
<1>1. /\ Len(p) = Len(q) + 1 /\ p[1] = a /\ p[2] = b
      /\ \A i \in 3..Len(p) : p[i] = q[i-1]
  BY PushFacts
<1>2. ASSUME NEW at
      PROVE  /\ Held(p, 1, at) = Held(q, 1, at) \cup (IF b.at = at THEN {b.msg} ELSE {})
             /\ Held(p, 2, at) = Held(q, 1, at)
             /\ \A i \in 3..Len(p) : Held(p, i, at) = Held(q, i-1, at)
  BY HeldPush
<1>3. Len(q) \in Nat /\ Len(q) > 0 /\ Head(q) = q[1] /\ \A i \in 1..Len(q) : q[i] \in Frames
  BY LenProperties, EmptySeq, PopFacts, ElementOfSeq
<1> HIDE DEF p
<1>4. ASSUME NEW i \in 1..Len(p)
      PROVE  Fate(p[i], Held(p, i, "tap"), Held(p, i, "body"), from, consumed)
  <2>1. CASE i = 1
    BY <1>1, <1>2, <2>1
  <2>2. CASE i = 2
    BY <1>1, <1>2, <2>2
  <2>3. CASE i \in 3..Len(p)
    <3>1. i - 1 \in 1..Len(q)
      BY <1>1, <1>3, <2>3
    <3>2. Fate(q[i-1], Held(q, i-1, "tap"), Held(q, i-1, "body"), old, consumed)
      BY <3>1 DEF FateStack
    <3>3. Fate(q[i-1], Held(q, i-1, "tap"), Held(q, i-1, "body"), from, consumed)
      BY <1>3, <3>1, <3>2, FateSent
    <3>4. QED
      BY <1>1, <1>2, <2>3, <3>3
  <2>4. QED
    BY <1>1, <1>3, <2>1, <2>2, <2>3
<1>5. ASSUME NEW i \in 2..Len(p) PROVE Near(p[i-1], p[i]) /\ Waiting(p[i])
  <2>1. CASE i = 2
    BY <1>1, <2>1
  <2>2. CASE i = 3
    <3>1. /\ p[2] = b /\ p[3] = q[2] /\ 2 \in 2..Len(q) /\ 2 - 1 = 1
      BY <1>1, <1>3, <2>2
    <3>2. Near(q[1], q[2]) /\ Waiting(q[2])
      BY <3>1 DEF FateStack
    <3>3. Near(b, q[2])
      BY <1>3, <3>2 DEF Near, Alike
    <3>4. QED
      BY <2>2, <3>1, <3>2, <3>3
  <2>3. CASE i > 3
    <3>1. i - 1 \in 2..Len(q) /\ i \in 3..Len(p) /\ i - 1 \in 3..Len(p)
      BY <1>1, <1>3, <2>3
    <3>2. p[i] = q[i-1] /\ p[i-1] = q[(i-1)-1]
      BY <1>1, <3>1
    <3>3. QED
      BY <3>1, <3>2 DEF FateStack
  <2>4. QED
    BY <1>1, <1>3, <2>1, <2>2, <2>3
<1>6. QED
  BY <1>4, <1>5 DEF FateStack, p

LEMMA FateGoto ==
  ASSUME NEW q \in Seq(Frames), q # <<>>, NEW old, NEW from, NEW consumed,
         \A m \in Message : old[m] # None => from[m] # None,
         FateStack(q, old, consumed), NEW b \in Frames, Alike(b, Head(q)),
         Fate(b, Held(q, 1, "tap"), Held(q, 1, "body"), from, consumed)
  PROVE  FateStack(<<b>> \o Tail(q), from, consumed)
<1> DEFINE p == <<b>> \o Tail(q)
<1>1. Len(p) = Len(q) /\ p[1] = b /\ \A i \in 2..Len(p) : p[i] = q[i]
  BY GotoFacts
<1>2. ASSUME NEW at
      PROVE  \A i \in 1..Len(p) : Held(p, i, at) = Held(q, i, at)
  BY HeldGoto
<1>3. Len(q) \in Nat /\ Len(q) > 0 /\ Head(q) = q[1] /\ \A i \in 1..Len(q) : q[i] \in Frames
  BY LenProperties, EmptySeq, PopFacts, ElementOfSeq
<1> HIDE DEF p
<1>4. ASSUME NEW i \in 1..Len(p)
      PROVE  Fate(p[i], Held(p, i, "tap"), Held(p, i, "body"), from, consumed)
  <2>1. CASE i = 1
    BY <1>1, <1>2, <2>1
  <2>2. CASE i \in 2..Len(p)
    <3>1. Fate(q[i], Held(q, i, "tap"), Held(q, i, "body"), old, consumed)
      BY <1>1 DEF FateStack
    <3>2. Fate(q[i], Held(q, i, "tap"), Held(q, i, "body"), from, consumed)
      BY <1>1, <1>3, <3>1, FateSent
    <3>3. QED
      BY <1>1, <1>2, <2>2, <3>2
  <2>3. QED
    BY <1>1, <1>3, <2>1, <2>2
<1>5. ASSUME NEW i \in 2..Len(p) PROVE Near(p[i-1], p[i]) /\ Waiting(p[i])
  <2>1. Near(q[i-1], q[i]) /\ Waiting(q[i]) /\ p[i] = q[i]
    BY <1>1, <1>5 DEF FateStack
  <2>2. CASE i = 2
    BY <1>1, <1>3, <2>1, <2>2 DEF Near, Alike
  <2>3. CASE i > 2
    <3>1. i - 1 \in 2..Len(p)
      BY <1>1, <1>3, <2>3
    <3>2. QED
      BY <1>1, <1>5, <2>1, <3>1
  <2>4. QED
    BY <2>2, <2>3
<1>6. QED
  BY <1>4, <1>5 DEF FateStack, p

\* An activation returns; the message may just have been consumed by it.
LEMMA FatePop ==
  ASSUME NEW q \in Seq(Frames), q # <<>>, NEW from, NEW consumed, NEW now,
         FateStack(q, from, consumed),
         \A m \in Message :
           \/ now[m] = consumed[m]
           \/ m \notin Held(q, 1, "tap") /\ m \notin Held(q, 1, "body")
  PROVE  FateStack(Tail(q), from, now)
<1> DEFINE p == Tail(q)
<1>1. Len(p) = Len(q) - 1 /\ \A i \in 1..Len(p) : p[i] = q[i+1]
  BY PopFacts
<1>2. ASSUME NEW at
      PROVE  \A i \in 1..Len(p) : Held(p, i, at) = Held(q, i+1, at)
  BY HeldPop
<1>3. Len(q) \in Nat /\ \A i \in 1..Len(q) : q[i] \in Frames
  BY LenProperties, ElementOfSeq
<1> HIDE DEF p
<1>4. ASSUME NEW i \in 1..Len(p)
      PROVE  Fate(p[i], Held(p, i, "tap"), Held(p, i, "body"), from, now)
  <2> DEFINE f == q[i+1]
  <2>1. i + 1 \in 1..Len(q) /\ i + 1 \in 2..Len(q)
    BY <1>1, <1>3
  <2>2. Fate(f, Held(q, i+1, "tap"), Held(q, i+1, "body"), from, consumed) /\ Waiting(f)
    BY <2>1 DEF FateStack
  <2>3. f \in Frames
    BY <1>3, <2>1
  <2>4. f.at \in {"tap", "body"} => f.msg \in Held(q, 1, f.at)
    BY <2>1 DEF Held
  <2> HIDE DEF f
  <2>5. f.msg \in Message
    BY <2>3 DEF Frames, SendFrames, HandleFrames
  <2>6. f.at \notin {"tap", "body"} => Done(f)
    BY <2>2, <2>3 DEF Done, Waiting, Frames, SendFrames, HandleFrames
  <2>7. Done(f) \/ now[f.msg] = consumed[f.msg]
    BY <2>4, <2>5, <2>6
  <2>8. Fate(f, Held(q, i+1, "tap"), Held(q, i+1, "body"), from, now)
    BY <2>2, <2>7 DEF Fate
  <2>9. QED
    BY <1>1, <1>2, <2>8 DEF f
<1>5. ASSUME NEW i \in 2..Len(p) PROVE Near(p[i-1], p[i]) /\ Waiting(p[i])
  <2>1. i + 1 \in 2..Len(q) /\ (i + 1) - 1 = i /\ i - 1 \in 1..Len(p) /\ (i - 1) + 1 = i
    BY <1>1, <1>3
  <2>2. p[i] = q[i+1] /\ p[i-1] = q[i]
    BY <1>1, <2>1
  <2>3. QED
    BY <2>1, <2>2 DEF FateStack
<1>6. QED
  BY <1>4, <1>5 DEF FateStack, p
-----------------------------------------------------------------------------
(* What each step does to it.                                                *)

Unsettled == Top.msg \in Held(stack, 1, "tap") \/ settled[Top.msg] = 0
FateWay == /\ FateStack(stack, sent, settled)
           /\ exc # "none" /\ stack # <<>> => Unsettled /\ Waiting(Top)
Tallied == \A m \in Message : settled[m] <= 1 /\ (sent[m] = None => settled[m] = 0)
Lonely == \A c \in Channel :
            StyleOf(c) # "default" /\ IsList(handlers[c]) => Len(handlers[c]) <= 1
FateInv == FateWay /\ Tallied /\ Lonely

LEMMA TopFate ==
  ASSUME BusInv, FateInv, stack # <<>>
  PROVE  /\ stack \in Seq(Frames) /\ Top \in Frames /\ Top.msg \in Message
         /\ FateStack(stack, sent, settled)
         /\ Fate(Top, Held(stack, 1, "tap"), Held(stack, 1, "body"), sent, settled)
         /\ Done(Top) \/ Unsettled
<1>1. stack \in Seq(Frames) /\ Top \in Frames /\ Top.msg \in Message
  BY TopFacts
<1>2. Top = stack[1] /\ 1 \in 1..Len(stack)
  BY <1>1, PopFacts, EmptySeq, LenProperties DEF Top
<1>3. Fate(Top, Held(stack, 1, "tap"), Held(stack, 1, "body"), sent, settled)
  BY <1>2 DEF FateInv, FateWay, FateStack
<1>4. QED
  BY <1>1, <1>3 DEF FateInv, FateWay, Fate, Unsettled

\* An activation calls another one with its message.
LEMMA FateCall ==
  ASSUME BusInv, FateInv, stack # <<>>, Unsettled, NEW a \in Frames, NEW b \in Frames,
         Call(b, a), UNCHANGED <<sent, settled>>,
         a.msg = Top.msg, a.at \in {"tap", "body"}, a.at = "tap" => ~a.err,
         b.at # "body", Waiting(b), Alike(b, Top),
         Fate(b, Held(stack, 1, "tap"), Held(stack, 1, "body"), sent, settled)
  PROVE  FateWay'
<1>1. /\ stack \in Seq(Frames) /\ FateStack(stack, sent, settled) /\ b.msg = Top.msg
      /\ Fate(Top, Held(stack, 1, "tap"), Held(stack, 1, "body"), sent, settled)
  BY TopFate DEF Alike
<1>2. CASE stack' = <<a, b>> \o Tail(stack) /\ exc' = "none"
  <2>1. Fate(a, Held(stack, 1, "tap") \cup (IF b.at = "tap" THEN {b.msg} ELSE {}),
                Held(stack, 1, "body") \cup (IF b.at = "body" THEN {b.msg} ELSE {}),
                sent, settled)
    BY <1>1 DEF Fate, Unsettled
  <2>2. Near(a, b)
    BY <1>1 DEF Near
  <2>3. FateStack(stack', sent, settled)
    BY <1>1, <1>2, <2>1, <2>2, FatePush DEF Top
  <2>4. QED
    BY <1>2, <2>3 DEF FateWay
<1>3. CASE stack' = <<b>> \o Tail(stack) /\ exc' = "overflow"
  <2>1. FateStack(stack', sent, settled)
    BY <1>1, <1>3, FateGoto DEF Top
  <2>2. Head(stack') = b /\ Held(stack', 1, "tap") = Held(stack, 1, "tap")
    <3>1. /\ stack' \in Seq(Frames) /\ stack'[1] = b /\ Len(stack') = Len(stack)
      BY <1>1, <1>3, GotoFacts
    <3>2. stack' # <<>> /\ 1 \in 1..Len(stack')
      BY <1>1, <3>1, EmptySeq, LenProperties
    <3>3. QED
      BY <1>1, <1>3, <3>1, <3>2, PopFacts, HeldGoto
  <2>3. QED
    BY <1>1, <2>1, <2>2 DEF FateWay, Unsettled, Top
<1>4. QED
  BY <1>2, <1>3 DEF Call

LEMMA FateOn ==
  ASSUME BusInv, FateInv, stack # <<>>, NEW b \in Frames,
         stack' = <<b>> \o Tail(stack), UNCHANGED <<sent, settled>>, Alike(b, Top),
         Fate(b, Held(stack, 1, "tap"), Held(stack, 1, "body"), sent, settled),
         exc' # "none" => Unsettled /\ Waiting(b)
  PROVE  FateWay'
<1>1. stack \in Seq(Frames) /\ FateStack(stack, sent, settled) /\ b.msg = Top.msg
  BY TopFate DEF Alike
<1>2. FateStack(stack', sent, settled)
  BY <1>1, FateGoto DEF Top
<1>3. Head(stack') = b /\ Held(stack', 1, "tap") = Held(stack, 1, "tap")
  <2>1. /\ stack' \in Seq(Frames) /\ stack'[1] = b /\ Len(stack') = Len(stack)
    BY <1>1, GotoFacts
  <2>2. stack' # <<>> /\ 1 \in 1..Len(stack')
    BY <1>1, <2>1, EmptySeq, LenProperties
  <2>3. QED
    BY <1>1, <2>1, <2>2, PopFacts, HeldGoto
<1>4. QED
  BY <1>1, <1>2, <1>3 DEF FateWay, Unsettled, Top

LEMMA FateReturn ==
  ASSUME BusInv, FateInv, stack # <<>>, Return, UNCHANGED <<sent, settled>>
  PROVE  FateWay'
<1>1. FateStack(stack', sent, settled) /\ exc' = "none"
  BY TopFate, FatePop DEF Return
<1>2. QED
  BY <1>1 DEF FateWay

LEMMA FatePropagate ==
  ASSUME BusInv, FateInv, stack # <<>>, Propagate, exc # "none", UNCHANGED <<sent, settled>>
  PROVE  FateWay'
<1>1. /\ stack' = Tail(stack) /\ FateStack(stack', sent, settled)
      /\ stack \in Seq(Frames) /\ Top = stack[1]
  BY TopFate, FatePop, PopFacts DEF Propagate, Top
<1>2. ASSUME stack' # <<>>
      PROVE  Unsettled' /\ Waiting(Top)'
  <2> DEFINE g == stack[2]
  <2>1. /\ Head(stack') = g /\ 2 \in 2..Len(stack) /\ g \in Frames
        /\ Held(stack', 1, "tap") = Held(stack, 2, "tap")
        /\ Held(stack, 1, "tap") = Held(stack, 2, "tap") \cup
                                     (IF g.at = "tap" THEN {g.msg} ELSE {})
    BY <1>1, <1>2, HeldPop
  <2>2. 2 - 1 = 1 /\ 2 \in 1..Len(stack)
    BY <2>1
  <2>3. /\ Near(stack[1], g) /\ Waiting(g)
        /\ Fate(g, Held(stack, 2, "tap"), Held(stack, 2, "body"), sent, settled)
    BY <2>1, <2>2 DEF FateInv, FateWay, FateStack
  <2>4. Unsettled
    BY DEF FateInv, FateWay
  <2> HIDE DEF g
  <2>5. g.msg \in Held(stack, 2, "tap") \/ settled[g.msg] = 0
    <3>1. CASE g.at \in {"tap", "body"}
      BY <2>3, <3>1 DEF Fate, Done
    <3>2. CASE g.at \notin {"tap", "body"}
      BY <1>1, <2>1, <2>3, <2>4, <3>2 DEF Near, Unsettled
    <3>3. QED
      BY <3>1, <3>2
  <2>6. QED
    BY <2>1, <2>3, <2>5 DEF Unsettled, Top
<1>3. QED
  BY <1>1, <1>2 DEF FateWay

LEMMA FateFail ==
  ASSUME BusInv, FateInv, stack # <<>>, Top \in SendFrames, Unsettled, Fail,
         UNCHANGED <<sent, settled>>
  PROVE  FateWay'
<1>1. CASE Top.ch = IMC(HomeOf(Top.ch))
  BY <1>1, FateReturn DEF Fail
<1>2. CASE Top.ch # IMC(HomeOf(Top.ch))
  <2> DEFINE b == [Top EXCEPT !.at = "invalid", !.todo = <<>>]
             a == SendFrame(IMC(HomeOf(Top.ch)), Top.msg)
  <2>1. Call(b, a)
    BY <1>2 DEF Fail
  <2>2. Top.ch \in Channel /\ Top.msg \in Message /\ IMC(HomeOf(Top.ch)) \in Channel
    BY ChannelFacts DEF SendFrames
  <2>3. <<>> \in Seq(Handler)
    BY EmptySeq
  <2>4. /\ b \in SendFrames /\ b.at = "invalid" /\ b.ch = Top.ch /\ b.msg = Top.msg
        /\ IsSend(b) /\ IsSend(Top)
    BY <2>3 DEF SendFrames, IsSend
  <2>5. a \in SendFrames /\ a.msg = Top.msg /\ a.at = "tap" /\ ~a.err
    BY <2>2, NewSend DEF SendFrame
  <2> HIDE DEF a, b
  <2>6. Fate(b, Held(stack, 1, "tap"), Held(stack, 1, "body"), sent, settled)
    BY <2>4, TopFate DEF Fate, Done
  <2>7. Waiting(b) /\ Alike(b, Top)
    BY <2>4 DEF Waiting, Alike
  <2>8. QED
    BY <2>1, <2>4, <2>5, <2>6, <2>7, FateCall DEF Frames
<1>3. QED
  BY <1>1, <1>2

LEMMA FateUndelivered ==
  ASSUME BusInv, FateInv, stack # <<>>, Top \in SendFrames, Unsettled, Undelivered,
         UNCHANGED <<sent, settled>>
  PROVE  FateWay'
<1>1. CASE Top.ch = DLC(HomeOf(Top.ch))
  BY <1>1, FateReturn DEF Undelivered
<1>2. CASE Top.ch # DLC(HomeOf(Top.ch))
  <2> DEFINE b == [Top EXCEPT !.at = "dead"]
             a == SendFrame(DLC(HomeOf(Top.ch)), Top.msg)
  <2>1. Call(b, a)
    BY <1>2 DEF Undelivered
  <2>2. Top.ch \in Channel /\ Top.msg \in Message /\ DLC(HomeOf(Top.ch)) \in Channel
    BY ChannelFacts DEF SendFrames
  <2>3. /\ b \in SendFrames /\ b.at = "dead" /\ b.ch = Top.ch /\ b.msg = Top.msg
        /\ IsSend(b) /\ IsSend(Top)
    BY DEF SendFrames, IsSend
  <2>4. a \in SendFrames /\ a.msg = Top.msg /\ a.at = "tap" /\ ~a.err
    BY <2>2, NewSend DEF SendFrame
  <2> HIDE DEF a, b
  <2>5. Fate(b, Held(stack, 1, "tap"), Held(stack, 1, "body"), sent, settled)
    BY <2>3, TopFate DEF Fate, Done
  <2>6. Waiting(b) /\ Alike(b, Top)
    BY <2>3 DEF Waiting, Alike
  <2>7. QED
    BY <2>1, <2>3, <2>4, <2>5, <2>6, FateCall DEF Frames
<1>3. QED
  BY <1>1, <1>2

\* A step of the machine that neither sends nor consumes leaves the tally alone.
LEMMA FateQuiet ==
  ASSUME FateInv, FateWay', Quiet, settled' = settled
  PROVE  FateInv'
  BY DEF FateInv, Tallied, Lonely, Quiet
LEMMA CallHandlerFate ==
  ASSUME BusInv, FateInv, CallHandler
  PROVE  FateWay'
<1> DEFINE b == [Top EXCEPT !.todo = Tail(@)]
           a == HandleFrame(Head(Top.todo), Top.msg)
<1>1. /\ stack # <<>> /\ Top.at \in {"tap", "dispatch"} /\ Top.todo # <<>>
      /\ Call(b, a) /\ UNCHANGED <<sent, settled>>
  BY DEF CallHandler, Running, NoHistory, Quiet
<1>2. Top \in SendFrames /\ IsSend(Top) /\ Top.todo \in Seq(Handler) /\ Top.msg \in Message
  BY <1>1, SendTop DEF SendFrames
<1>3. /\ Head(Top.todo) \in Handler /\ Tail(Top.todo) \in Seq(Handler)
      /\ Len(Tail(Top.todo)) = Len(Top.todo) - 1 /\ Len(Top.todo) \in Nat
  BY <1>1, <1>2, TailMembers
<1>4. /\ b \in SendFrames /\ b.at = Top.at /\ b.todo = Tail(Top.todo) /\ b.ch = Top.ch
      /\ b.msg = Top.msg /\ b.err = Top.err /\ IsSend(b)
  BY <1>2, <1>3 DEF SendFrames, IsSend
<1>5. a \in HandleFrames /\ a.msg = Top.msg /\ a.at = "body"
  BY <1>2, <1>3, NewHandle DEF HandleFrame
<1> HIDE DEF a, b
<1>6. Unsettled /\ Fate(Top, Held(stack, 1, "tap"), Held(stack, 1, "body"), sent, settled)
  BY <1>1, TopFate DEF Done
<1>7. Top.at = "dispatch" => Len(Tail(Top.todo)) <= 0 /\ ~Top.err
  <2>1. Top.at = "dispatch" => Len(Top.todo) <= 1 /\ ~Top.err
    BY <1>1, <1>6 DEF Fate
  <2>2. QED
    BY <1>3, <2>1
<1>8. Top.at = "dispatch" => Tail(Top.todo) = <<>>
  <2>1. Len(Tail(Top.todo)) \in Nat
    BY <1>3, LenProperties
  <2>2. Top.at = "dispatch" => Len(Tail(Top.todo)) = 0
    <3>1. \A n \in Nat : n <= 0 => n = 0
      OBVIOUS
    <3>2. QED
      BY <1>7, <2>1, <3>1
  <2>3. QED
    BY <1>3, <2>2, EmptySeq
<1>9. Waiting(b) /\ Alike(b, Top)
  BY <1>2, <1>4, <1>7, <1>8 DEF Waiting, Done, Alike
<1>10. Fate(b, Held(stack, 1, "tap"), Held(stack, 1, "body"), sent, settled)
  <2>1. Top.at = "dispatch" => Len(b.todo) <= 1
    <3>1. Len(<<>>) <= 1
      OBVIOUS
    <3>2. QED
      BY <1>4, <1>8, <3>1
  <2>2. QED
    BY <1>4, <1>6, <1>7, <2>1 DEF Fate, Unsettled
<1>11. QED
  BY <1>1, <1>4, <1>5, <1>6, <1>9, <1>10, FateCall DEF Frames

LEMMA DispatchFate ==
  ASSUME BusInv, FateInv, Dispatch
  PROVE  FateWay'
<1> DEFINE q == handlers[Top.ch]
<1>1. stack # <<>> /\ Top.at = "tap" /\ UNCHANGED sent
  BY DEF Dispatch, Running, Quiet
<1>2. Top \in SendFrames /\ IsSend(Top) /\ Top.ch \in Channel
  BY <1>1, SendTop DEF SendFrames
<1>3. Unsettled /\ Fate(Top, Held(stack, 1, "tap"), Held(stack, 1, "body"), sent, settled)
  BY <1>1, TopFate DEF Done
<1>4. CASE q = Gone /\ Fail /\ Blame(Top.msg)
  BY <1>1, <1>2, <1>3, <1>4, FateFail DEF Blame
<1>5. CASE q = <<>> /\ Undelivered /\ NoHistory
  BY <1>1, <1>2, <1>3, <1>5, FateUndelivered DEF NoHistory
<1>6. ASSUME NoHistory, NEW todo \in Seq(Handler), Len(todo) <= 1,
             Goto([Top EXCEPT !.at = "dispatch", !.todo = todo])
      PROVE  FateWay'
  <2> DEFINE b == [Top EXCEPT !.at = "dispatch", !.todo = todo]
  <2>1. /\ b \in SendFrames /\ IsSend(b) /\ b.todo = todo /\ b.ch = Top.ch
        /\ b.msg = Top.msg /\ b.err = Top.err /\ b.at = "dispatch"
    BY <1>2, <1>6 DEF SendFrames, IsSend
  <2>2. stack' = <<b>> \o Tail(stack) /\ exc' = "none" /\ UNCHANGED <<sent, settled>>
    BY <1>1, <1>6 DEF Goto, NoHistory
  <2> HIDE DEF b
  <2>3. Alike(b, Top)
    BY <1>2, <2>1 DEF Alike
  <2>4. Fate(b, Held(stack, 1, "tap"), Held(stack, 1, "body"), sent, settled)
    BY <1>1, <1>3, <1>6, <2>1 DEF Fate, Unsettled
  <2>5. QED
    BY <1>1, <2>1, <2>2, <2>3, <2>4, FateOn DEF Frames
<1>7. ASSUME IsList(q) PROVE q \in Seq(Handler)
  BY <1>2, <1>7 DEF BusInv, TypeOK, IsList
<1>8. ASSUME IsList(q), NEW h \in Members(q)
      PROVE  <<h>> \in Seq(Handler) /\ Len(<<h>>) <= 1
  <2>1. h \in Handler
    BY <1>7, <1>8, ElementOfSeq DEF Members
  <2>2. QED
    BY <2>1
<1>9. CASE /\ IsList(q) /\ q # <<>>
           /\ IF StyleOf(Top.ch) = "default"
                THEN \E h \in Members(q) :
                       Goto([Top EXCEPT !.at = "dispatch", !.todo = <<h>>])
                ELSE Goto([Top EXCEPT !.at = "dispatch", !.todo = q])
           /\ NoHistory
  <2>1. CASE StyleOf(Top.ch) = "default"
    BY <1>6, <1>8, <1>9, <2>1
  <2>2. CASE StyleOf(Top.ch) # "default"
    <3>1. Len(q) <= 1
      BY <1>2, <1>9, <2>2 DEF FateInv, Lonely
    <3>2. QED
      BY <1>6, <1>7, <1>9, <2>2, <3>1
  <2>3. QED
    BY <2>1, <2>2
<1>10. QED
  BY <1>4, <1>5, <1>9 DEF Dispatch

LEMMA SendFates ==
  ASSUME BusInv, FateInv,
         EndDispatch \/ SinkReturns \/ CatchInTap \/ CatchInDispatch
           \/ CatchInDead \/ ThrowFromInvalid
  PROVE  FateWay'
<1>1. /\ stack # <<>> /\ UNCHANGED <<sent, settled>>
      /\ Top.at \in {"tap", "dispatch", "dead", "invalid"}
  BY DEF EndDispatch, SinkReturns, CatchInTap, CatchInDispatch, CatchInDead,
         ThrowFromInvalid, Running, Catching, NoHistory, Quiet
<1>2. /\ Top \in SendFrames /\ IsSend(Top)
      /\ Fate(Top, Held(stack, 1, "tap"), Held(stack, 1, "body"), sent, settled)
      /\ Done(Top) \/ Unsettled
  BY <1>1, SendTop, TopFate
<1>3. exc # "none" => Unsettled /\ Waiting(Top)
  BY <1>1 DEF FateInv, FateWay
<1>4. CASE EndDispatch
  <2>1. CASE Top.err
    BY <1>1, <1>2, <1>4, <2>1, FateFail DEF EndDispatch, Running, Done
  <2>2. CASE ~Top.err
    BY <1>1, <1>4, <2>2, FateReturn DEF EndDispatch
  <2>3. QED
    BY <2>1, <2>2
<1>5. CASE SinkReturns
  BY <1>1, <1>5, FateReturn DEF SinkReturns
<1>6. CASE CatchInTap
  BY <1>1, <1>2, <1>6, FateOn DEF CatchInTap, Goto, Alike, Frames
<1>7. CASE CatchInDispatch
  <2> DEFINE b == [Top EXCEPT !.err = TRUE]
  <2>1. /\ b \in SendFrames /\ b.ch = Top.ch /\ b.todo = Top.todo /\ b.msg = Top.msg
        /\ b.at = Top.at /\ IsSend(b) /\ stack' = <<b>> \o Tail(stack) /\ exc' = "none"
    BY <1>2, <1>7 DEF SendFrames, IsSend, CatchInDispatch, Goto
  <2> HIDE DEF b
  <2>2. Unsettled /\ Waiting(Top) /\ Top.at = "dispatch"
    BY <1>3, <1>7 DEF CatchInDispatch, Catching
  <2>3. Top.todo = <<>>
    BY <2>2 DEF Waiting, Done
  <2>4. Fate(b, Held(stack, 1, "tap"), Held(stack, 1, "body"), sent, settled)
    BY <1>2, <2>1, <2>2, <2>3, EmptySeq DEF Fate, Unsettled
  <2>5. Alike(b, Top)
    BY <1>2, <2>1 DEF Alike
  <2>6. QED
    BY <1>1, <2>1, <2>4, <2>5, FateOn DEF Frames
<1>8. CASE CatchInDead
  BY <1>1, <1>2, <1>3, <1>8, FateFail DEF CatchInDead, Catching
<1>9. CASE ThrowFromInvalid
  BY <1>1, <1>9, FatePropagate DEF ThrowFromInvalid, Catching
<1>10. QED
  BY <1>4, <1>5, <1>6, <1>7, <1>8, <1>9

LEMMA HandleOnFate ==
  ASSUME BusInv, FateInv, stack # <<>>, Top \in HandleFrames, NEW pc \in {"output", "error"},
         stack' = <<[Top EXCEPT !.at = pc]>> \o Tail(stack), UNCHANGED <<sent, settled>>, Unsettled
  PROVE  FateWay'
<1> DEFINE b == [Top EXCEPT !.at = pc]
<1>1. /\ b \in HandleFrames /\ b.h = Top.h /\ b.msg = Top.msg /\ b.at = pc
      /\ ~IsSend(Top) /\ IsSend(b) = IsSend(Top)
  BY DEF HandleFrames, IsSend
<1>2. stack' = <<b>> \o Tail(stack)
  OBVIOUS
<1> HIDE DEF b
<1>3. Alike(b, Top) /\ Waiting(b)
  BY <1>1 DEF Alike, Waiting
<1>4. Fate(b, Held(stack, 1, "tap"), Held(stack, 1, "body"), sent, settled)
  BY <1>1, TopFate DEF Fate, Done
<1>5. QED
  BY <1>1, <1>2, <1>3, <1>4, FateOn DEF Frames

LEMMA HandleCallsFate ==
  ASSUME BusInv, FateInv, stack # <<>>, Top \in HandleFrames, NEW pc \in {"output", "error"},
         NEW c \in Channel, Call([Top EXCEPT !.at = pc], SendFrame(c, Top.msg)),
         UNCHANGED <<sent, settled>>, Unsettled
  PROVE  FateWay'
<1> DEFINE b == [Top EXCEPT !.at = pc]
           a == SendFrame(c, Top.msg)
<1>1. /\ b \in HandleFrames /\ b.h = Top.h /\ b.msg = Top.msg /\ b.at = pc
      /\ ~IsSend(Top) /\ IsSend(b) = IsSend(Top)
  BY DEF HandleFrames, IsSend
<1>2. a \in SendFrames /\ a.msg = Top.msg /\ a.at = "tap" /\ ~a.err
  BY NewSend DEF SendFrame, HandleFrames
<1>3. Call(b, a)
  OBVIOUS
<1> HIDE DEF a, b
<1>4. Alike(b, Top) /\ Waiting(b)
  BY <1>1 DEF Alike, Waiting
<1>5. Fate(b, Held(stack, 1, "tap"), Held(stack, 1, "body"), sent, settled)
  BY <1>1, TopFate DEF Fate, Done
<1>6. QED
  BY <1>1, <1>2, <1>3, <1>4, <1>5, FateCall DEF Frames

\* A handler consumes the message, for the first time.
LEMMA ConsumedFate ==
  ASSUME BusInv, FateInv, HandlerReturns
  PROVE  FateInv'
<1>1. /\ stack # <<>> /\ Top.at = "body" /\ Return /\ Quiet /\ sent' = sent
      /\ settled' = IF OnTap(Top.msg) \/ settled[Top.msg] = 2 THEN settled
                      ELSE [settled EXCEPT ![Top.msg] = @ + 1]
  BY DEF HandlerReturns, Running, Quiet
<1>2. /\ Top.msg \in Message /\ Unsettled
      /\ Fate(Top, Held(stack, 1, "tap"), Held(stack, 1, "body"), sent, settled)
  BY <1>1, TopFate DEF Done
<1>3. settled \in [Message -> 0..2]
  BY DEF BusInv, TypeOK
<1>4. \/ settled' = settled
      \/ /\ Top.msg \notin Held(stack, 1, "tap") /\ settled[Top.msg] = 0
         /\ settled' = [settled EXCEPT ![Top.msg] = @ + 1]
  BY <1>1, <1>2, TopOnTap DEF Unsettled
<1>5. \A m \in Message :
        \/ settled'[m] = settled[m]
        \/ m \notin Held(stack, 1, "tap") /\ m \notin Held(stack, 1, "body")
  BY <1>2, <1>3, <1>4 DEF Fate
<1>6. FateStack(stack', sent, settled')
  BY <1>1, <1>5, TopFate, FatePop DEF Return
<1>7. FateWay'
  BY <1>1, <1>6 DEF Return, FateWay
<1>8. Tallied'
  <2>1. sent[Top.msg] # None
    BY <1>2 DEF Fate
  <2>2. CASE settled' = settled
    BY <1>1, <2>2 DEF FateInv, Tallied
  <2>3. CASE settled[Top.msg] = 0 /\ settled' = [settled EXCEPT ![Top.msg] = @ + 1]
    <3>1. settled'[Top.msg] = 1 /\ \A m \in Message : m # Top.msg => settled'[m] = settled[m]
      BY <1>2, <1>3, <2>3
    <3>2. QED
      BY <1>1, <2>1, <3>1 DEF FateInv, Tallied
  <2>4. QED
    BY <1>4, <2>2, <2>3
<1>9. Lonely'
  BY <1>1 DEF FateInv, Lonely, Quiet
<1>10. QED
  BY <1>7, <1>8, <1>9 DEF FateInv

LEMMA HandleFates ==
  ASSUME BusInv, FateInv, HandleStep
  PROVE  FateInv'
<1>1. CASE HandlerReturns
  BY <1>1, ConsumedFate
<1>2. CASE HandlerForwards
  <2> DEFINE out == NextOutput(Top.h, Top.msg)
             b == [Top EXCEPT !.at = "output"]
  <2>1. stack # <<>> /\ Top.at = "body" /\ out \notin {None, Noop} /\ Quiet /\ sent' = sent
    BY <1>2 DEF HandlerForwards, Running, Quiet
  <2>2. Top \in HandleFrames /\ Top.h \in Handler /\ Top.msg \in Message
    BY <2>1, HandleTop DEF HandleFrames
  <2>3. Unsettled
    BY <2>1, TopFate DEF Done
  <2>4. CASE stack' = <<b>> \o Tail(stack) /\ Blame(Top.msg)
    BY <2>1, <2>2, <2>3, <2>4, HandleOnFate, FateQuiet DEF Blame
  <2>5. CASE out # Missing /\ Call(b, SendFrame(out, Top.msg)) /\ NoHistory
    <3>1. out \in Channel
      BY <2>1, <2>2, <2>5, RouteFacts DEF ChannelRef
    <3> HIDE DEF out
    <3>2. QED
      BY <2>1, <2>2, <2>3, <2>5, <3>1, HandleCallsFate, FateQuiet DEF NoHistory
  <2>6. QED
    BY <1>2, <2>4, <2>5 DEF HandlerForwards
<1>3. CASE HandlerThrows
  <2>1. /\ stack # <<>> /\ Top.at = "body" /\ stack' = stack /\ Quiet
        /\ UNCHANGED <<sent, settled>>
    BY <1>3 DEF HandlerThrows, Running, Blame, Quiet
  <2>2. Unsettled /\ Waiting(Top)
    BY <2>1, TopFate DEF Done, Waiting
  <2>3. FateWay'
    BY <2>1, <2>2 DEF FateInv, FateWay, Unsettled, Top
  <2>4. QED
    BY <2>1, <2>3, FateQuiet
<1>4. CASE ForwardReturns
  BY <1>4, FateReturn, FateQuiet DEF ForwardReturns, Running, NoHistory, Quiet
<1>5. CASE CatchInHandler
  <2> DEFINE err == NextError(Top.h, Top.msg)
             b == [Top EXCEPT !.at = "error"]
  <2>1. /\ stack # <<>> /\ Top.at \in {"body", "output"} /\ exc # "none" /\ Quiet
        /\ UNCHANGED <<sent, settled>>
    BY <1>5 DEF CatchInHandler, Catching, NoHistory, Quiet
  <2>2. Top \in HandleFrames
    BY <2>1, HandleTop
  <2>3. Unsettled
    BY <2>1 DEF FateInv, FateWay
  <2>4. CASE Propagate \/ Return
    BY <2>1, <2>4, FatePropagate, FateReturn, FateQuiet
  <2>5. CASE stack' = <<b>> \o Tail(stack)
    BY <2>1, <2>2, <2>3, <2>5, HandleOnFate, FateQuiet
  <2>6. CASE err \in Channel /\ Call(b, SendFrame(err, Top.msg))
    <3> HIDE DEF err
    <3>1. QED
      BY <2>1, <2>2, <2>3, <2>6, HandleCallsFate, FateQuiet
  <2>7. QED
    BY <1>5, <2>4, <2>5, <2>6 DEF CatchInHandler
<1>6. CASE ThrowFromError
  BY <1>6, FatePropagate, FateQuiet DEF ThrowFromError, Catching, NoHistory, Quiet
<1>7. QED
  BY <1>1, <1>2, <1>3, <1>4, <1>5, <1>6 DEF HandleStep

\* A new message: nothing on the stack belongs to it.
LEMMA SendFate ==
  ASSUME BusInv, FateInv, NEW c \in Entry, NEW m \in Message, Send(c, m)
  PROVE  FateInv'
<1>1. /\ c \in Channel /\ c # None /\ sent[m] = None /\ settled' = settled /\ exc = "none"
      /\ sent' = [sent EXCEPT ![m] = c] /\ handlers' = handlers
  BY ChannelAssumption DEF Send, AppTurn, NoHistory
<1>2. sent \in [Message -> Channel \cup {None}]
  BY DEF BusInv, TypeOK
<1>3. sent'[m] # None /\ \A n \in Message : sent[n] # None => sent'[n] # None
  BY <1>1, <1>2
<1>4. settled[m] = 0
  BY <1>1 DEF FateInv, Tallied
<1>5. Tallied'
  <2>1. \A n \in Message : sent'[n] = None => sent[n] = None
    BY <1>3
  <2>2. QED
    BY <1>1, <2>1 DEF FateInv, Tallied
<1>6. Lonely'
  BY <1>1 DEF FateInv, Lonely
<1> DEFINE a == SendFrame(c, m)
<1>7. a \in SendFrames /\ IsSend(a) /\ a.msg = m /\ a.at = "tap" /\ ~a.err
  BY <1>1, NewSend DEF SendFrame
<1>8. CASE stack = <<>>
  <2>1. stack' = <<a>> /\ exc' = "none"
    BY <1>1, <1>8 DEF Send
  <2> HIDE DEF a
  <2>2. Len(stack') = 1 /\ stack'[1] = a
    BY <2>1
  <2>3. m \notin Held(stack', 1, "body")
    BY <2>2 DEF Held
  <2>4. Fate(a, Held(stack', 1, "tap"), Held(stack', 1, "body"), sent', settled')
    BY <1>1, <1>3, <1>4, <1>7, <2>3 DEF Fate
  <2>5. FateStack(stack', sent', settled')
    BY <2>2, <2>4 DEF FateStack
  <2>6. QED
    BY <1>5, <1>6, <2>1, <2>5 DEF FateInv, FateWay
<1>9. CASE stack # <<>>
  <2>1. Call(Top, a) /\ Top.at = "body"
    BY <1>1, <1>9 DEF Send, AppTurn
  <2>2. /\ stack \in Seq(Frames) /\ Top \in Frames /\ FateStack(stack, sent, settled)
        /\ Fate(Top, Held(stack, 1, "tap"), Held(stack, 1, "body"), sent, settled)
        /\ Unsettled /\ Waiting(Top) /\ Alike(Top, Top)
    BY <1>9, <2>1, TopFate DEF Done, Waiting, Alike
  <2>3. Fate(Top, Held(stack, 1, "tap"), Held(stack, 1, "body"), sent', settled)
    BY <1>3, <2>2, FateSent
  <2>4. \A i \in 1..Len(stack) : stack[i].msg # m
    BY <1>1 DEF FateInv, FateWay, FateStack, Fate
  <2>5. m \notin Held(stack, 1, "body") /\ m # Top.msg
    <3>1. Top = stack[1] /\ 1 \in 1..Len(stack)
      BY <1>9, <2>2, PopFacts, EmptySeq, LenProperties DEF Top
    <3>2. \A j \in 1+1..Len(stack) : j \in 1..Len(stack)
      OBVIOUS
    <3>3. QED
      BY <2>4, <3>1, <3>2 DEF Held
  <2> HIDE DEF a
  <2>6. Fate(a, Held(stack, 1, "tap") \cup (IF Top.at = "tap" THEN {Top.msg} ELSE {}),
                Held(stack, 1, "body") \cup (IF Top.at = "body" THEN {Top.msg} ELSE {}),
                sent', settled)
    BY <1>3, <1>4, <1>7, <2>5 DEF Fate
  <2>7. Near(a, Top)
    BY <1>7, <2>1 DEF Near
  <2>8. FateWay'
    <3>1. CASE stack' = <<a, Top>> \o Tail(stack) /\ exc' = "none"
      <4>1. FateStack(stack', sent', settled)
        BY <1>3, <1>7, <1>9, <2>2, <2>3, <2>6, <2>7, <3>1, FatePush DEF Top, Frames
      <4>2. QED
        BY <1>1, <3>1, <4>1 DEF FateWay
    <3>2. CASE stack' = <<Top>> \o Tail(stack) /\ exc' = "overflow"
      <4>1. FateStack(stack', sent', settled)
        BY <1>3, <1>9, <2>2, <2>3, <3>2, FateGoto DEF Top
      <4>2. stack' = stack
        BY <1>9, <2>2, <3>2, HeadTailProperties DEF Top
      <4>3. QED
        BY <1>1, <2>2, <4>1, <4>2 DEF FateWay, Unsettled, Top
    <3>3. QED
      BY <2>1, <3>1, <3>2 DEF Call
  <2>9. QED
    BY <1>5, <1>6, <2>8 DEF FateInv
<1>10. QED
  BY <1>8, <1>9

LEMMA AppFates ==
  ASSUME PointToPoint, BusInv, FateInv, AppStep
  PROVE  FateInv'
<1>1. ASSUME UNCHANGED <<stack, sent, settled>>, exc' # "none" => stack = <<>> \/ Top.at = "body"
      PROVE  FateWay'
  <2>1. stack # <<>> /\ Top.at = "body" => Unsettled /\ Waiting(Top)
    BY TopFate DEF Done, Waiting
  <2>2. QED
    BY <1>1, <2>1 DEF FateInv, FateWay, Unsettled, Top
<1>2. ASSUME AppTurn, AppCallThrows PROVE FateInv'
  <2>1. FateWay'
    BY <1>1, <1>2 DEF AppTurn, AppCallThrows, NoHistory, Blame
  <2>2. QED
    BY <1>2, <2>1 DEF AppCallThrows, FateInv, Tallied, Lonely, NoHistory, Blame
<1>3. ASSUME UNCHANGED <<stack, exc, sent, settled>>, AppTurn PROVE FateWay' /\ Tallied'
  BY <1>1, <1>3 DEF AppTurn, FateInv, Tallied
<1>4. ASSUME NEW c \in Entry, NEW m \in Message, Send(c, m) PROVE FateInv'
  BY <1>4, SendFate
<1>5. ASSUME NEW p \in Mutable, Subscribe(p[1], p[2]) \/ Unsubscribe(p[1], p[2])
      PROVE  FateInv'
  <2>1. p[1] \in Channel /\ p[2] \in AppHandler /\ p = <<p[1], p[2]>>
    BY HandlerAssumption
  <2>2. StyleOf(p[1]) = "default"
    BY <2>1 DEF PointToPoint
  <2> SUFFICES ASSUME NEW c \in Channel, NEW h, StyleOf(c) = "default",
                      Subscribe(c, h) \/ Unsubscribe(c, h)
               PROVE  FateInv'
    BY <1>5, <2>1, <2>2
  <2>3. CASE handlers[c] = Gone
    BY <1>2, <2>3 DEF Subscribe, Unsubscribe
  <2>4. CASE handlers[c] # Gone
    <3>1. /\ UNCHANGED <<stack, exc, sent, settled>> /\ AppTurn
          /\ \/ handlers' = [handlers EXCEPT ![c] = Add(@, h)]
             \/ handlers' = [handlers EXCEPT ![c] = Without(@, h)]
      BY <2>4 DEF Subscribe, Unsubscribe, NoHistory
    <3>2. \A d \in Channel : d # c => handlers'[d] = handlers[d]
      BY <3>1 DEF BusInv, TypeOK
    <3>3. Lonely'
      BY <3>2 DEF FateInv, Lonely
    <3>4. QED
      BY <1>3, <3>1, <3>3 DEF FateInv
  <2>5. QED
    BY <2>3, <2>4
<1>6. ASSUME NEW p \in Tappable, Tap(p[1], p[2]) \/ Untap(p[1], p[2])
      PROVE  FateInv'
  <2>1. CASE taps[p[1]] = Gone
    BY <1>2, <1>6, <2>1 DEF Tap, Untap
  <2>2. CASE taps[p[1]] # Gone
    BY <1>3, <1>6, <2>2 DEF Tap, Untap, NoHistory, FateInv, Lonely
  <2>3. QED
    BY <2>1, <2>2
<1>7. ASSUME NEW b \in Disposable, DestroyBus(b) PROVE FateInv'
  <2>1. UNCHANGED <<stack, exc, sent, settled>> /\ AppTurn
    BY <1>7 DEF DestroyBus, NoHistory
  <2>2. \A c \in Channel : handlers'[c] \in {handlers[c], Gone}
    BY <1>7 DEF DestroyBus
  <2>3. Lonely'
    BY <2>2 DEF FateInv, Lonely, IsList
  <2>4. QED
    BY <1>3, <2>1, <2>3 DEF FateInv
<1>8. QED
  BY <1>4, <1>5, <1>6, <1>7 DEF AppStep

LEMMA InitFate ==
  ASSUME PointToPoint, Init
  PROVE  FateInv
<1>1. stack = <<>> /\ Len(stack) = 0 /\ exc = "none"
  BY DEF Init
<1>2. FateWay
  BY <1>1 DEF FateWay, FateStack
<1>3. Tallied
  BY DEF Init, Tallied
<1>4. ASSUME NEW c \in Channel, StyleOf(c) # "default" PROVE Len(handlers[c]) <= 1
  <2>1. Wiring[c] \in Seq(AppHandler) /\ Len(Wiring[c]) \in Nat
    BY HandlerAssumption, LenProperties
  <2>2. CASE ~(c \notin AppChannel /\ c[2] # Root)
    BY <1>4, <2>2 DEF Init, PointToPoint
  <2>3. CASE c \notin AppChannel /\ c[2] # Root
    <3> DEFINE f == Forwarder(<<c[1], Parent[c[2]]>>)
    <3>1. handlers[c] = <<f>> \o Wiring[c]
      BY <2>3 DEF Init
    <3>2. Len(Wiring[c]) <= 0
      BY <1>4, <2>3 DEF PointToPoint
    <3> HIDE DEF f
    <3>3. Len(Wiring[c]) = 0
      <4>1. \A n \in Nat : n <= 0 => n = 0
        OBVIOUS
      <4>2. QED
        BY <2>1, <3>2, <4>1
    <3>4. Wiring[c] = <<>>
      BY <2>1, <3>3, EmptySeq
    <3>5. Len(<<f>> \o <<>>) = 1
      OBVIOUS
    <3>6. QED
      BY <3>1, <3>4, <3>5
  <2>4. QED
    BY <2>2, <2>3
<1>5. QED
  BY <1>2, <1>3, <1>4 DEF FateInv, Lonely

LEMMA StepFate ==
  ASSUME PointToPoint, BusInv, FateInv, [Next]_vars
  PROVE  FateInv'
<1>1. CASE SendStep
  <2>1. Quiet /\ settled' = settled
    BY <1>1 DEF SendStep, CallHandler, Dispatch, EndDispatch, SinkReturns, CatchInTap,
                CatchInDispatch, CatchInDead, ThrowFromInvalid, NoHistory, Blame
  <2>2. FateWay'
    BY <1>1, CallHandlerFate, DispatchFate, SendFates DEF SendStep
  <2>3. QED
    BY <2>1, <2>2, FateQuiet
<1>2. CASE HandleStep
  BY <1>2, HandleFates
<1>3. CASE AppCatches
  BY <1>3 DEF AppCatches, Quiet, NoHistory, FateInv, FateWay, Tallied, Lonely
<1>4. CASE AppStep
  BY <1>4, AppFates
<1>5. CASE UNCHANGED vars
  BY <1>5 DEF vars, FateInv, FateWay, Tallied, Lonely, Unsettled, Top
<1>6. QED
  BY <1>1, <1>2, <1>3, <1>4, <1>5 DEF Next, MachineStep

\* For every wiring without broadcasts, cycles included, a message is consumed at most
\* once, however often it is passed on, reported or sent to error channels, and wherever
\* the stack ends (unicast.js:44-56, msgs.js:329-347).
THEOREM ConsumedOnce ==
  ASSUME PointToPoint
  PROVE  Spec => []OneFate
<1>1. Init => FateInv
  BY InitFate
<1>2. BusInv /\ FateInv /\ [Next]_vars => FateInv'
  BY StepFate
<1>3. FateInv => OneFate
  BY DEF FateInv, Tallied, OneFate
<1>4. QED
  BY <1>1, <1>2, <1>3, BusInvariant, PTL DEF Spec
-----------------------------------------------------------------------------
(* Nothing is lost in silence.                                               *)

\* The messages that must not get lost.
Open == {m \in Message :
           sent[m] # None /\ settled[m] = 0 /\ HomeOf(sent[m]) \notin destroyed}

\* Channel c goes only together with channel s.
Behind(c, origin) == \A d \in Disposable : HomeOf(c) \in Below(d) => HomeOf(origin) \in Below(d)

\* A forwarder leads from a sink of a bus to one of its parent.
Upward(h, c) ==
  h \notin AppHandler => /\ c \notin AppChannel /\ HomeOf(c) # Root
                         /\ h[2] \in Channel /\ HomeOf(h[2]) = Parent[HomeOf(c)]

Surely(todo) == \E h \in Members(todo) : Sure(h)

Reach(f, from) ==
  /\ from[f.msg] # None
  /\ IsSend(f) => /\ Behind(f.ch, from[f.msg])
                  /\ \A h \in Members(f.todo) : Upward(h, f.ch)

\* A sink that reports an open message has a sure listener to call, or is calling it.
Attended(f, g, tapped, open) ==
  /\ ~IsSend(f) => Upward(f.h, g.ch)
  /\ g.at = "dispatch" /\ g.ch \notin AppChannel /\ g.msg \in open \ tapped
       => Surely(g.todo) \/ (~IsSend(f) /\ Sure(f.h))

LossStack(q, from, open) ==
  /\ \A i \in 2..Len(q) : /\ Near(q[i-1], q[i])
                          /\ Attended(q[i-1], q[i], Held(q, i, "tap"), open)
  /\ \A i \in 1..Len(q) : Reach(q[i], from)

\* An open message is in an activation, outside of its taps.
UnderWay(q, open) ==
  \A m \in open : \E i \in 1..Len(q) : q[i].msg = m /\ m \notin Held(q, i, "tap")

\* No activation for an open message is done.
Pending ==
  stack # <<>> /\ Top.msg \in Open \ Held(stack, 1, "tap") =>
    /\ exc = "none" => ~Done(Top)
    /\ Top.at = "dispatch" /\ Top.ch \notin AppChannel => Surely(Top.todo)

SureReturns == exc = "error" /\ ~IsSend(Top) => ~Sure(Top.h)

LossWay == /\ LossStack(stack, sent, Open) /\ UnderWay(stack, Open)
           /\ Pending /\ SureReturns

Listened ==
  \A c \in Channel :
    /\ c \notin AppChannel /\ HomeOf(c) \notin destroyed =>
         /\ IsList(handlers[c])
         /\ \E h \in Members(handlers[c]) : Sure(h) /\ <<c, h>> \notin Mutable
    /\ IsList(handlers[c]) => \A h \in Members(handlers[c]) : Upward(h, c)
    /\ IsList(taps[c]) => \A h \in Members(taps[c]) : h \in AppHandler

WholeTrees == \A x \in destroyed : \E d \in Disposable : x \in Below(d) /\ Below(d) \subseteq destroyed

LossInv == LossWay /\ Listened /\ WholeTrees

\* A frame keeps what it has when other messages are sent, and when fewer are open.
LEMMA ReachSent ==
  ASSUME NEW f \in Frames, NEW old, NEW from, Reach(f, old),
         \A m \in Message : old[m] # None => from[m] = old[m]
  PROVE  Reach(f, from)
<1>1. f.msg \in Message
  BY DEF Frames, SendFrames, HandleFrames
<1>2. from[f.msg] = old[f.msg]
  BY <1>1 DEF Reach
<1>3. QED
  BY <1>2 DEF Reach

LEMMA AttendedLess ==
  ASSUME NEW f, NEW g \in Frames, NEW tapped, NEW open, NEW fewer, NEW old, Reach(g, old),
         \A m \in Message : old[m] # None /\ m \in fewer => m \in open,
         Attended(f, g, tapped, open)
  PROVE  Attended(f, g, tapped, fewer)
<1>1. g.msg \in Message /\ old[g.msg] # None
  BY DEF Frames, SendFrames, HandleFrames, Reach
<1>2. QED
  BY <1>1 DEF Attended

LEMMA LossPush ==
  ASSUME NEW q \in Seq(Frames), q # <<>>, NEW old, NEW from, NEW open, NEW now,
         \A m \in Message : old[m] # None => from[m] = old[m],
         \A m \in Message : old[m] # None /\ m \in now => m \in open,
         LossStack(q, old, open), UnderWay(q, open), NEW a \in Frames, NEW b \in Frames,
         Near(a, b), Alike(b, Head(q)), Attended(a, b, Held(q, 1, "tap"), now),
         Reach(a, from), Reach(b, from),
         \A m \in now :
           \/ m \in open
           \/ /\ m = a.msg
              /\ m \notin Held(q, 1, "tap") \cup (IF b.at = "tap" THEN {b.msg} ELSE {})
  PROVE  LET p == <<a, b>> \o Tail(q) IN LossStack(p, from, now) /\ UnderWay(p, now)
<1> DEFINE p == <<a, b>> \o Tail(q)
<1>1. /\ Len(p) = Len(q) + 1 /\ p[1] = a /\ p[2] = b
      /\ \A i \in 3..Len(p) : p[i] = q[i-1]
  BY PushFacts
<1>2. /\ Held(p, 1, "tap") = Held(q, 1, "tap") \cup (IF b.at = "tap" THEN {b.msg} ELSE {})
      /\ Held(p, 2, "tap") = Held(q, 1, "tap")
      /\ \A i \in 3..Len(p) : Held(p, i, "tap") = Held(q, i-1, "tap")
  BY HeldPush
<1>3. Len(q) \in Nat /\ Len(q) > 0 /\ Head(q) = q[1] /\ \A i \in 1..Len(q) : q[i] \in Frames
  BY LenProperties, EmptySeq, PopFacts, ElementOfSeq
<1> HIDE DEF p
<1>4. ASSUME NEW i \in 1..Len(p) PROVE Reach(p[i], from)
  <2>1. CASE i = 1
    BY <1>1, <2>1
  <2>2. CASE i = 2
    BY <1>1, <2>2
  <2>3. CASE i \in 3..Len(p)
    <3>1. i - 1 \in 1..Len(q)
      BY <1>1, <1>3, <2>3
    <3>2. Reach(q[i-1], old)
      BY <3>1 DEF LossStack
    <3>3. Reach(q[i-1], from)
      BY <1>3, <3>1, <3>2, ReachSent
    <3>4. QED
      BY <1>1, <2>3, <3>3
  <2>4. QED
    BY <1>1, <1>3, <2>1, <2>2, <2>3
<1>5. ASSUME NEW i \in 2..Len(p)
      PROVE  Near(p[i-1], p[i]) /\ Attended(p[i-1], p[i], Held(p, i, "tap"), now)
  <2>1. CASE i = 2
    BY <1>1, <1>2, <2>1
  <2>2. CASE i = 3
    <3>1. /\ p[2] = b /\ p[3] = q[2] /\ 2 \in 2..Len(q) /\ 2 - 1 = 1 /\ 2 \in 1..Len(q)
          /\ Held(p, 3, "tap") = Held(q, 2, "tap")
      BY <1>1, <1>2, <1>3, <2>2
    <3>2. /\ Near(q[1], q[2]) /\ Attended(q[1], q[2], Held(q, 2, "tap"), open)
          /\ Reach(q[2], old) /\ q[2] \in Frames
      BY <1>3, <3>1 DEF LossStack
    <3>3. Attended(q[1], q[2], Held(q, 2, "tap"), now)
      BY <3>2, AttendedLess
    <3>4. Near(b, q[2]) /\ Attended(b, q[2], Held(q, 2, "tap"), now)
      BY <1>3, <3>2, <3>3 DEF Near, Attended, Alike
    <3>5. QED
      BY <2>2, <3>1, <3>4
  <2>3. CASE i > 3
    <3>1. i - 1 \in 2..Len(q) /\ i - 1 \in 1..Len(q) /\ i \in 3..Len(p) /\ i - 1 \in 3..Len(p)
      BY <1>1, <1>3, <2>3
    <3>2. /\ p[i] = q[i-1] /\ p[i-1] = q[(i-1)-1] /\ Held(p, i, "tap") = Held(q, i-1, "tap")
      BY <1>1, <1>2, <3>1
    <3>3. /\ Near(p[i-1], p[i]) /\ Attended(p[i-1], p[i], Held(p, i, "tap"), open)
          /\ Reach(p[i], old) /\ p[i] \in Frames
      BY <1>3, <3>1, <3>2 DEF LossStack
    <3>4. QED
      BY <3>3, AttendedLess
  <2>4. QED
    BY <1>1, <1>3, <2>1, <2>2, <2>3
<1>6. ASSUME NEW m \in now
      PROVE  \E i \in 1..Len(p) : p[i].msg = m /\ m \notin Held(p, i, "tap")
  <2>1. CASE m \in open
    <3>1. PICK i \in 1..Len(q) : q[i].msg = m /\ m \notin Held(q, i, "tap")
      BY <2>1 DEF UnderWay
    <3>2. CASE i = 1
      <4>1. b.msg = m /\ 2 \in 1..Len(p)
        BY <1>1, <1>3, <3>1, <3>2 DEF Alike
      <4>2. QED
        BY <1>1, <1>2, <3>1, <3>2, <4>1
    <3>3. CASE i > 1
      <4>1. i + 1 \in 3..Len(p) /\ i + 1 \in 1..Len(p) /\ (i + 1) - 1 = i
        BY <1>1, <1>3, <3>3
      <4>2. p[i+1] = q[i] /\ Held(p, i+1, "tap") = Held(q, i, "tap")
        BY <1>1, <1>2, <4>1
      <4>3. QED
        BY <3>1, <4>1, <4>2
    <3>4. QED
      BY <3>2, <3>3
  <2>2. CASE m = a.msg /\ m \notin Held(p, 1, "tap")
    <3>1. 1 \in 1..Len(p)
      BY <1>1, <1>3
    <3>2. QED
      BY <1>1, <2>2, <3>1
  <2>3. QED
    BY <1>2, <2>1, <2>2
<1>7. QED
  BY <1>4, <1>5, <1>6 DEF LossStack, UnderWay, p

LEMMA LossGoto ==
  ASSUME NEW q \in Seq(Frames), q # <<>>, NEW from, NEW open,
         LossStack(q, from, open), UnderWay(q, open),
         NEW b \in Frames, Alike(b, Head(q)), Reach(b, from)
  PROVE  LET p == <<b>> \o Tail(q) IN LossStack(p, from, open) /\ UnderWay(p, open)
<1> DEFINE p == <<b>> \o Tail(q)
<1>1. Len(p) = Len(q) /\ p[1] = b /\ \A i \in 2..Len(p) : p[i] = q[i]
  BY GotoFacts
<1>2. \A i \in 1..Len(p) : Held(p, i, "tap") = Held(q, i, "tap")
  BY HeldGoto
<1>3. Len(q) \in Nat /\ Len(q) > 0 /\ Head(q) = q[1]
  BY LenProperties, EmptySeq, PopFacts
<1> HIDE DEF p
<1>4. ASSUME NEW i \in 1..Len(p) PROVE Reach(p[i], from) /\ p[i].msg = q[i].msg
  <2>1. CASE i = 1
    BY <1>1, <1>3, <2>1 DEF Alike
  <2>2. CASE i \in 2..Len(p)
    BY <1>1, <2>2 DEF LossStack
  <2>3. QED
    BY <1>1, <1>3, <2>1, <2>2
<1>5. ASSUME NEW i \in 2..Len(p)
      PROVE  Near(p[i-1], p[i]) /\ Attended(p[i-1], p[i], Held(p, i, "tap"), open)
  <2>1. /\ Near(q[i-1], q[i]) /\ Attended(q[i-1], q[i], Held(q, i, "tap"), open)
        /\ p[i] = q[i] /\ Held(p, i, "tap") = Held(q, i, "tap")
    BY <1>1, <1>2, <1>5 DEF LossStack
  <2>2. CASE i = 2
    <3>1. p[i-1] = b /\ q[i-1] = Head(q)
      BY <1>1, <1>3, <2>2
    <3>2. QED
      BY <2>1, <3>1 DEF Near, Attended, Alike
  <2>3. CASE i > 2
    <3>1. i - 1 \in 2..Len(p)
      BY <1>1, <1>3, <2>3
    <3>2. QED
      BY <1>1, <2>1, <3>1
  <2>4. QED
    BY <2>2, <2>3
<1>6. UnderWay(p, open)
  BY <1>1, <1>2, <1>4 DEF UnderWay
<1>7. QED
  BY <1>4, <1>5, <1>6 DEF LossStack, p

\* Nothing moves, but fewer messages are open.
LEMMA LossStays ==
  ASSUME NEW q, NEW from, NEW open, NEW fewer, fewer \subseteq open,
         LossStack(q, from, open), UnderWay(q, open)
  PROVE  LossStack(q, from, fewer) /\ UnderWay(q, fewer)
<1>1. ASSUME NEW f, NEW g, NEW t, Attended(f, g, t, open) PROVE Attended(f, g, t, fewer)
  BY <1>1 DEF Attended
<1>2. LossStack(q, from, fewer)
  BY <1>1 DEF LossStack
<1>3. QED
  BY <1>2 DEF UnderWay

\* An activation returns: its message is not open any more, its caller deals with it, or
\* it was only observed.
LEMMA LossPop ==
  ASSUME NEW q \in Seq(Frames), q # <<>>, NEW from, NEW open, NEW fewer, fewer \subseteq open,
         LossStack(q, from, open), UnderWay(q, open),
         \/ Head(q).msg \notin fewer \/ Head(q).msg \in Held(q, 1, "tap")
         \/ Tail(q) # <<>> /\ q[2].msg = Head(q).msg
  PROVE  LossStack(Tail(q), from, fewer) /\ UnderWay(Tail(q), fewer)
<1> DEFINE p == Tail(q)
<1>1. Len(p) = Len(q) - 1 /\ (\A i \in 1..Len(p) : p[i] = q[i+1]) /\ Head(q) = q[1]
  BY PopFacts
<1>2. /\ \A i \in 1..Len(p) : Held(p, i, "tap") = Held(q, i+1, "tap")
      /\ p # <<>> => /\ Held(q, 2, "tap") \subseteq Held(q, 1, "tap")
                     /\ 2 \in 2..Len(q)
  BY HeldPop
<1>3. Len(q) \in Nat
  BY LenProperties
<1> HIDE DEF p
<1>4. LossStack(q, from, fewer) /\ UnderWay(q, fewer)
  BY LossStays
<1>5. ASSUME NEW i \in 1..Len(p) PROVE Reach(p[i], from)
  <2>1. i + 1 \in 1..Len(q)
    BY <1>1, <1>3
  <2>2. QED
    BY <1>1, <2>1 DEF LossStack
<1>6. ASSUME NEW i \in 2..Len(p)
      PROVE  Near(p[i-1], p[i]) /\ Attended(p[i-1], p[i], Held(p, i, "tap"), fewer)
  <2>1. /\ i + 1 \in 2..Len(q) /\ (i + 1) - 1 = i /\ i - 1 \in 1..Len(p) /\ (i - 1) + 1 = i
        /\ i \in 1..Len(p)
    BY <1>1, <1>3
  <2>2. p[i] = q[i+1] /\ p[i-1] = q[i] /\ Held(p, i, "tap") = Held(q, i+1, "tap")
    BY <1>1, <1>2, <2>1
  <2>3. QED
    BY <1>4, <2>1, <2>2 DEF LossStack
<1>7. ASSUME NEW m \in fewer
      PROVE  \E i \in 1..Len(p) : p[i].msg = m /\ m \notin Held(p, i, "tap")
  <2>1. PICK i \in 1..Len(q) : q[i].msg = m /\ m \notin Held(q, i, "tap")
    BY <1>4 DEF UnderWay
  <2>2. CASE i = 1
    <3>1. p # <<>> /\ q[2].msg = m
      BY <1>1, <2>1, <2>2 DEF p
    <3>2. 1 \in 1..Len(p) /\ 1 + 1 = 2
      BY <1>1, <1>2, <1>3, <3>1
    <3>3. p[1] = q[2] /\ Held(p, 1, "tap") = Held(q, 2, "tap")
      BY <1>1, <1>2, <3>2
    <3>4. QED
      BY <1>2, <2>1, <2>2, <3>1, <3>2, <3>3
  <2>3. CASE i > 1
    <3>1. i - 1 \in 1..Len(p) /\ (i - 1) + 1 = i
      BY <1>1, <1>3, <2>3
    <3>2. p[i-1] = q[i] /\ Held(p, i-1, "tap") = Held(q, i, "tap")
      BY <1>1, <1>2, <3>1
    <3>3. QED
      BY <2>1, <3>1, <3>2
  <2>4. QED
    BY <2>2, <2>3
<1>8. QED
  BY <1>5, <1>6, <1>7 DEF LossStack, UnderWay, p
-----------------------------------------------------------------------------
(* What each step does to it, as long as the stack does not run out.         *)

Calm == exc # "overflow"

\* Nobody waits for the message of the running activation, or it is only observed.
Accounted == Top.msg \notin Open \/ Top.msg \in Held(stack, 1, "tap")

LEMMA TopLoss ==
  ASSUME BusInv, LossInv, stack # <<>>
  PROVE  /\ stack \in Seq(Frames) /\ Top \in Frames /\ Top.msg \in Message
         /\ Top = stack[1] /\ 1 \in 1..Len(stack) /\ Top = Head(stack)
         /\ LossStack(stack, sent, Open) /\ UnderWay(stack, Open)
         /\ Reach(Top, sent)
<1>1. stack \in Seq(Frames) /\ Top \in Frames /\ Top.msg \in Message
  BY TopFacts
<1>2. Top = stack[1] /\ 1 \in 1..Len(stack) /\ Top = Head(stack)
  BY <1>1, PopFacts, EmptySeq, LenProperties DEF Top
<1>3. LossStack(stack, sent, Open) /\ UnderWay(stack, Open)
  BY DEF LossInv, LossWay
<1>4. Reach(Top, sent)
  BY <1>2, <1>3 DEF LossStack
<1>5. QED
  BY <1>1, <1>2, <1>3, <1>4

\* The sinks an open message gets to are not destroyed.
LEMMA LiveSink ==
  ASSUME BusInv, LossInv, stack # <<>>, Top \in SendFrames, Top.msg \in Open,
         Top.ch \notin AppChannel
  PROVE  IsList(handlers[Top.ch]) /\ Surely(handlers[Top.ch])
<1>1. Reach(Top, sent) /\ IsSend(Top) /\ Top.ch \in Channel
  BY TopLoss, FrameKinds DEF SendFrames, Frames
<1>2. Behind(Top.ch, sent[Top.msg]) /\ HomeOf(sent[Top.msg]) \notin destroyed
  BY <1>1 DEF Reach, Open
<1>3. HomeOf(Top.ch) \notin destroyed
  BY <1>2 DEF LossInv, WholeTrees, Behind
<1>4. QED
  BY <1>1, <1>3 DEF LossInv, Listened, Surely

LEMMA NewReach ==
  ASSUME BusInv, LossInv, NEW c \in Channel, NEW m \in Message, NEW from, from[m] # None,
         Behind(c, from[m])
  PROVE  Reach(SendFrame(c, m), from)
<1> DEFINE a == SendFrame(c, m)
<1>1. a.msg = m /\ a.ch = c /\ a.todo = IF IsList(taps[c]) THEN taps[c] ELSE <<>>
  BY DEF SendFrame
<1> HIDE DEF a
<1>2. Members(<<>>) = {}
  BY DEF Members
<1>3. \A h \in Members(a.todo) : Upward(h, c)
  BY <1>1, <1>2 DEF LossInv, Listened, Upward
<1>4. QED
  BY <1>1, <1>3 DEF Reach, a

LEMMA SinkReach ==
  ASSUME BusInv, LossInv, stack # <<>>, Top \in SendFrames,
         NEW c \in {DLC(HomeOf(Top.ch)), IMC(HomeOf(Top.ch))}
  PROVE  c \in Channel /\ Reach(SendFrame(c, Top.msg), sent)
<1>1. /\ Reach(Top, sent) /\ IsSend(Top) /\ Top.ch \in Channel /\ Top.msg \in Message
  BY TopLoss, FrameKinds DEF SendFrames, Frames
<1>2. HomeOf(Top.ch) \in Bus /\ c \in Channel
  BY <1>1, ChannelFacts
<1>3. HomeOf(c) = HomeOf(Top.ch)
  <2>1. c \notin AppChannel
    BY <1>2, ChannelAssumption
  <2>2. c[2] = HomeOf(Top.ch)
    BY DEF DLC, IMC
  <2>3. QED
    BY <2>1, <2>2 DEF HomeOf
<1>4. Behind(c, sent[Top.msg]) /\ sent[Top.msg] # None
  BY <1>1, <1>3 DEF Reach, Behind
<1>5. QED
  BY <1>1, <1>2, <1>4, NewReach

\* An activation calls another one with its message.
LEMMA LossCall ==
  ASSUME BusInv, LossInv, stack # <<>>, NEW a \in Frames, NEW b \in Frames,
         Call(b, a), Calm', UNCHANGED <<sent, settled, destroyed>>,
         a.msg = Top.msg, a.at \in {"tap", "body"}, Alike(b, Top), Reach(a, sent),
         Reach(b, sent), Attended(a, b, Held(stack, 1, "tap"), Open)
  PROVE  LossWay'
<1>1. stack' = <<a, b>> \o Tail(stack) /\ exc' = "none"
  BY DEF Call, Calm
<1>2. Open' = Open
  BY DEF Open
<1>3. Near(a, b)
  BY DEF Near, Alike
<1>4. LossStack(stack', sent, Open) /\ UnderWay(stack', Open)
  BY <1>1, <1>3, TopLoss, LossPush
<1>5. Head(stack') = a
  <2>1. stack' \in Seq(Frames) /\ stack'[1] = a /\ Len(stack') = Len(stack) + 1
    BY <1>1, TopLoss, PushFacts
  <2>2. stack' # <<>>
    BY <2>1, TopLoss, EmptySeq, LenProperties
  <2>3. QED
    BY <2>1, <2>2, PopFacts
<1>6. QED
  BY <1>1, <1>2, <1>4, <1>5 DEF LossWay, Pending, SureReturns, Done, Top

LEMMA LossOn ==
  ASSUME BusInv, LossInv, stack # <<>>, NEW b \in Frames,
         stack' = <<b>> \o Tail(stack), UNCHANGED <<sent, settled, destroyed>>,
         Alike(b, Top), Reach(b, sent),
         ~Accounted => /\ exc' = "none" => ~Done(b)
                       /\ b.at = "dispatch" /\ b.ch \notin AppChannel => Surely(b.todo),
         exc' = "error" /\ ~IsSend(b) => ~Sure(b.h)
  PROVE  LossWay'
<1>1. Open' = Open
  BY DEF Open
<1>2. LossStack(stack', sent, Open) /\ UnderWay(stack', Open)
  BY TopLoss, LossGoto
<1>3. Head(stack') = b /\ Held(stack', 1, "tap") = Held(stack, 1, "tap")
  <2>1. /\ stack' \in Seq(Frames) /\ stack'[1] = b /\ Len(stack') = Len(stack)
    BY TopLoss, GotoFacts
  <2>2. stack' # <<>> /\ 1 \in 1..Len(stack')
    BY <2>1, TopLoss, EmptySeq, LenProperties
  <2>3. QED
    BY <2>1, <2>2, TopLoss, PopFacts, HeldGoto
<1>4. b.msg = Top.msg
  BY DEF Alike
<1>5. Pending'
  BY <1>1, <1>3, <1>4 DEF Pending, Accounted, Top
<1>6. QED
  BY <1>1, <1>2, <1>3, <1>5 DEF LossWay, SureReturns, Top

LEMMA LossReturn ==
  ASSUME BusInv, LossInv, stack # <<>>, Return, UNCHANGED <<sent, destroyed>>, Open' \subseteq Open,
         Top.msg \notin Open' \/ Top.msg \in Held(stack, 1, "tap")
  PROVE  LossWay'
<1>1. stack' = Tail(stack) /\ exc' = "none"
  BY DEF Return
<1>2. LossStack(stack', sent, Open') /\ UnderWay(stack', Open')
  BY <1>1, TopLoss, LossPop
<1>3. ASSUME stack' # <<>> PROVE Pending'
  <2> DEFINE g == stack[2]
  <2>1. /\ Head(stack') = g /\ 2 \in 2..Len(stack)
        /\ Held(stack', 1, "tap") = Held(stack, 2, "tap")
        /\ Held(stack, 1, "tap") = Held(stack, 2, "tap") \cup
                                     (IF g.at = "tap" THEN {g.msg} ELSE {})
    BY <1>1, <1>3, TopLoss, HeldPop
  <2>2. Near(stack[1], g)
    <3>1. 2 - 1 = 1
      OBVIOUS
    <3>2. QED
      BY <2>1, <3>1, TopLoss DEF LossStack
  <2> HIDE DEF g
  <2>3. CASE g.at \in {"tap", "body"}
    BY <2>1, <2>3 DEF Pending, Top, Done
  <2>4. CASE g.at \notin {"tap", "body"}
    <3>1. g.msg = Top.msg /\ Held(stack', 1, "tap") = Held(stack, 1, "tap")
      BY <2>1, <2>2, <2>4, TopLoss DEF Near
    <3>2. QED
      BY <2>1, <3>1 DEF Pending, Top
  <2>5. QED
    BY <2>3, <2>4
<1>4. Pending'
  BY <1>3 DEF Pending
<1>5. QED
  BY <1>1, <1>2, <1>4 DEF LossWay, SureReturns

LEMMA LossPropagate ==
  ASSUME BusInv, LossInv, stack # <<>>, Propagate, exc = "error", Top \in HandleFrames,
         UNCHANGED <<sent, settled, destroyed>>
  PROVE  LossWay'
<1>1. stack' = Tail(stack) /\ exc' = "error" /\ Open' = Open
  BY DEF Propagate, Open
<1>2. ~IsSend(Top)
  BY FrameKinds DEF Frames
<1>3. stack' # <<>> /\ IsSend(Head(stack')) /\ Head(stack').at \in {"tap", "dispatch"}
  BY <1>1, <1>2, TopFacts, TopLoss, StackPop
<1> DEFINE g == stack[2]
<1>4. /\ Head(stack') = g /\ 2 \in 2..Len(stack)
      /\ Held(stack', 1, "tap") = Held(stack, 2, "tap")
      /\ Held(stack, 1, "tap") = Held(stack, 2, "tap") \cup
                                   (IF g.at = "tap" THEN {g.msg} ELSE {})
  BY <1>1, <1>3, TopLoss, HeldPop
<1>5. Near(Top, g) /\ Attended(Top, g, Held(stack, 2, "tap"), Open)
  <2>1. 2 - 1 = 1
    OBVIOUS
  <2>2. QED
    BY <1>4, <2>1, TopLoss DEF LossStack
<1> HIDE DEF g
<1>6. g.msg = Top.msg
  BY <1>2, <1>5 DEF Near
<1>7. LossStack(stack', sent, Open) /\ UnderWay(stack', Open)
  <2>1. Tail(stack) # <<>> /\ stack[2].msg = Head(stack).msg
    BY <1>1, <1>3, <1>6, TopLoss DEF g
  <2>2. QED
    BY <1>1, <2>1, TopLoss, LossPop
<1>8. ~Sure(Top.h)
  BY <1>2 DEF LossInv, LossWay, SureReturns
<1>9. Pending'
  BY <1>1, <1>4, <1>5, <1>8 DEF Pending, Attended, Top
<1>10. SureReturns'
  BY <1>3 DEF SureReturns, Top
<1>11. QED
  BY <1>1, <1>7, <1>9, <1>10 DEF LossWay

LEMMA LossFail ==
  ASSUME BusInv, LossInv, stack # <<>>, Top \in SendFrames, Fail, Calm',
         UNCHANGED <<sent, settled, destroyed>>, Accounted \/ Top.ch # IMC(HomeOf(Top.ch))
  PROVE  LossWay'
<1>1. CASE Top.ch = IMC(HomeOf(Top.ch))
  <2>1. Return /\ Open' = Open /\ Accounted
    BY <1>1 DEF Fail, Open
  <2>2. QED
    BY <2>1, LossReturn DEF Accounted
<1>2. CASE Top.ch # IMC(HomeOf(Top.ch))
  <2> DEFINE c == IMC(HomeOf(Top.ch))
             b == [Top EXCEPT !.at = "invalid", !.todo = <<>>]
             a == SendFrame(c, Top.msg)
  <2>1. Call(b, a)
    BY <1>2 DEF Fail
  <2>2. c \in Channel /\ Reach(a, sent) /\ Reach(Top, sent) /\ Top.msg \in Message
    BY SinkReach, TopLoss
  <2>3. <<>> \in Seq(Handler) /\ Members(<<>>) = {}
    BY EmptySeq DEF Members
  <2>4. /\ b \in SendFrames /\ b.at = "invalid" /\ b.ch = Top.ch /\ b.msg = Top.msg
        /\ b.todo = <<>> /\ IsSend(b) /\ IsSend(Top)
    BY <2>3 DEF SendFrames, IsSend
  <2>5. a \in SendFrames /\ a.msg = Top.msg /\ a.at = "tap" /\ IsSend(a)
    <3>1. a \in SendFrames /\ IsSend(a)
      BY <2>2, NewSend
    <3>2. QED
      BY <3>1 DEF SendFrame
  <2> HIDE DEF a, b, c
  <2>6. Alike(b, Top) /\ Reach(b, sent) /\ Attended(a, b, Held(stack, 1, "tap"), Open)
    BY <2>2, <2>3, <2>4, <2>5 DEF Alike, Reach, Attended
  <2>7. QED
    BY <2>1, <2>2, <2>4, <2>5, <2>6, LossCall DEF Frames
<1>3. QED
  BY <1>1, <1>2

LEMMA LossUndelivered ==
  ASSUME BusInv, LossInv, stack # <<>>, Top \in SendFrames, Undelivered, Calm',
         UNCHANGED <<sent, settled, destroyed>>, Accounted \/ Top.ch # DLC(HomeOf(Top.ch))
  PROVE  LossWay'
<1>1. CASE Top.ch = DLC(HomeOf(Top.ch))
  <2>1. Return /\ Open' = Open /\ Accounted
    BY <1>1 DEF Undelivered, Open
  <2>2. QED
    BY <2>1, LossReturn DEF Accounted
<1>2. CASE Top.ch # DLC(HomeOf(Top.ch))
  <2> DEFINE c == DLC(HomeOf(Top.ch))
             b == [Top EXCEPT !.at = "dead"]
             a == SendFrame(c, Top.msg)
  <2>1. Call(b, a)
    BY <1>2 DEF Undelivered
  <2>2. c \in Channel /\ Reach(a, sent) /\ Reach(Top, sent) /\ Top.msg \in Message
    BY SinkReach, TopLoss
  <2>3. /\ b \in SendFrames /\ b.at = "dead" /\ b.ch = Top.ch /\ b.msg = Top.msg
        /\ b.todo = Top.todo /\ IsSend(b) /\ IsSend(Top)
    BY DEF SendFrames, IsSend
  <2>4. a \in SendFrames /\ a.msg = Top.msg /\ a.at = "tap" /\ IsSend(a)
    <3>1. a \in SendFrames /\ IsSend(a)
      BY <2>2, NewSend
    <3>2. QED
      BY <3>1 DEF SendFrame
  <2> HIDE DEF a, b, c
  <2>5. Alike(b, Top) /\ Reach(b, sent) /\ Attended(a, b, Held(stack, 1, "tap"), Open)
    BY <2>2, <2>3, <2>4 DEF Alike, Reach, Attended
  <2>6. QED
    BY <2>1, <2>2, <2>3, <2>4, <2>5, LossCall DEF Frames
<1>3. QED
  BY <1>1, <1>2

\* A step of the machine that changes no list.
LEMMA LossQuiet ==
  ASSUME LossInv, LossWay', Quiet
  PROVE  LossInv'
  BY DEF LossInv, Listened, WholeTrees, Quiet
LEMMA CallHandlerLoss ==
  ASSUME BusInv, LossInv, CallHandler, Calm'
  PROVE  LossWay'
<1> DEFINE h == Head(Top.todo)
           b == [Top EXCEPT !.todo = Tail(@)]
           a == HandleFrame(h, Top.msg)
<1>1. /\ stack # <<>> /\ Top.at \in {"tap", "dispatch"} /\ Top.todo # <<>>
      /\ Call(b, a) /\ UNCHANGED <<sent, settled, destroyed>>
  BY DEF CallHandler, Running, NoHistory, Quiet
<1>2. /\ Top \in SendFrames /\ IsSend(Top) /\ Top.todo \in Seq(Handler) /\ Top.msg \in Message
      /\ Reach(Top, sent)
  BY <1>1, SendTop, TopLoss DEF SendFrames
<1>3. /\ h \in Handler /\ Tail(Top.todo) \in Seq(Handler)
      /\ Members(Top.todo) = {h} \cup Members(Tail(Top.todo))
  BY <1>1, <1>2, TailMembers
<1>4. /\ b \in SendFrames /\ b.at = Top.at /\ b.todo = Tail(Top.todo) /\ b.ch = Top.ch
      /\ b.msg = Top.msg /\ IsSend(b)
  BY <1>2, <1>3 DEF SendFrames, IsSend
<1>5. a \in HandleFrames /\ a.msg = Top.msg /\ a.at = "body" /\ a.h = h /\ ~IsSend(a)
  <2>1. a \in HandleFrames /\ ~IsSend(a)
    BY <1>2, <1>3, NewHandle
  <2>2. QED
    BY <2>1 DEF HandleFrame
<1> HIDE DEF a, b, h
<1>6. Alike(b, Top) /\ Reach(b, sent) /\ Reach(a, sent)
  BY <1>2, <1>3, <1>4, <1>5 DEF Alike, Reach
<1>7. Upward(h, b.ch)
  BY <1>2, <1>3, <1>4 DEF Reach
<1>8. ASSUME b.at = "dispatch", b.ch \notin AppChannel, b.msg \in Open \ Held(stack, 1, "tap")
      PROVE  Surely(b.todo) \/ Sure(h)
  <2>1. Surely(Top.todo)
    BY <1>1, <1>4, <1>8 DEF LossInv, LossWay, Pending
  <2>2. QED
    BY <1>3, <1>4, <2>1 DEF Surely
<1>9. Attended(a, b, Held(stack, 1, "tap"), Open)
  BY <1>5, <1>7, <1>8 DEF Attended
<1>10. QED
  BY <1>1, <1>4, <1>5, <1>6, <1>9, LossCall DEF Frames

LEMMA DispatchLoss ==
  ASSUME BusInv, LossInv, Dispatch, Calm'
  PROVE  LossWay'
<1> DEFINE q == handlers[Top.ch]
<1>1. stack # <<>> /\ Top.at = "tap" /\ UNCHANGED <<sent, destroyed>>
  BY DEF Dispatch, Running, Quiet
<1>2. Top \in SendFrames /\ IsSend(Top) /\ Top.ch \in Channel /\ Reach(Top, sent)
  BY <1>1, SendTop, TopLoss DEF SendFrames
<1>3. ASSUME ~Accounted, Top.ch \notin AppChannel PROVE IsList(q) /\ Surely(q)
  BY <1>1, <1>2, <1>3, LiveSink DEF Accounted
<1>4. /\ Top.ch = IMC(HomeOf(Top.ch)) \/ Top.ch = DLC(HomeOf(Top.ch)) => Top.ch \notin AppChannel
  BY <1>2, ChannelFacts, ChannelAssumption
<1>5. ASSUME q = Gone \/ q = <<>>
      PROVE  Accounted \/ Top.ch \in AppChannel
  <2>1. ~Surely(<<>>) /\ ~IsList(Gone)
    BY DEF Surely, Members, IsList
  <2>2. QED
    BY <1>3, <1>5, <2>1
<1>6. CASE q = Gone /\ Fail /\ Blame(Top.msg)
  BY <1>1, <1>2, <1>4, <1>5, <1>6, LossFail DEF Blame
<1>7. CASE q = <<>> /\ Undelivered /\ NoHistory
  BY <1>1, <1>2, <1>4, <1>5, <1>7, LossUndelivered DEF NoHistory
<1>8. ASSUME NoHistory, NEW todo \in Seq(Handler), todo # <<>>, Members(todo) \subseteq Members(q),
             ~Accounted /\ Top.ch \notin AppChannel => Surely(todo), IsList(q),
             Goto([Top EXCEPT !.at = "dispatch", !.todo = todo])
      PROVE  LossWay'
  <2> DEFINE b == [Top EXCEPT !.at = "dispatch", !.todo = todo]
  <2>1. /\ b \in SendFrames /\ IsSend(b) /\ b.todo = todo /\ b.ch = Top.ch
        /\ b.msg = Top.msg /\ b.at = "dispatch"
    BY <1>2, <1>8 DEF SendFrames, IsSend
  <2>2. /\ stack' = <<b>> \o Tail(stack) /\ exc' = "none"
        /\ UNCHANGED <<sent, settled, destroyed>>
    BY <1>1, <1>8 DEF Goto, NoHistory
  <2> HIDE DEF b
  <2>3. \A h \in Members(q) : Upward(h, Top.ch)
    BY <1>2, <1>8 DEF LossInv, Listened
  <2>4. Alike(b, Top) /\ Reach(b, sent) /\ ~Done(b)
    BY <1>2, <1>8, <2>1, <2>3 DEF Alike, Reach, Done
  <2>5. QED
    BY <1>1, <1>8, <2>1, <2>2, <2>4, LossOn DEF Frames
<1>9. CASE /\ IsList(q) /\ q # <<>>
           /\ IF StyleOf(Top.ch) = "default"
                THEN \E h \in Members(q) :
                       Goto([Top EXCEPT !.at = "dispatch", !.todo = <<h>>])
                ELSE Goto([Top EXCEPT !.at = "dispatch", !.todo = q])
           /\ NoHistory
  <2>1. q \in Seq(Handler)
    BY <1>2, <1>9 DEF BusInv, TypeOK, IsList
  <2>2. CASE StyleOf(Top.ch) = "default"
    <3>1. PICK h \in Members(q) : Goto([Top EXCEPT !.at = "dispatch", !.todo = <<h>>])
      BY <1>9, <2>2
    <3>2. h \in Handler /\ Members(<<h>>) = {h}
      BY <2>1, ElementOfSeq DEF Members
    <3>3. Top.ch \in AppChannel
      BY <2>2 DEF StyleOf
    <3>4. <<h>> \in Seq(Handler) /\ <<h>> # <<>>
      BY <3>2
    <3>5. QED
      BY <1>8, <1>9, <3>1, <3>2, <3>3, <3>4
  <2>3. CASE StyleOf(Top.ch) # "default"
    BY <1>3, <1>8, <1>9, <2>1, <2>3
  <2>4. QED
    BY <2>2, <2>3
<1>10. QED
  BY <1>6, <1>7, <1>9 DEF Dispatch

LEMMA SendLosses ==
  ASSUME BusInv, LossInv, Calm, Calm',
         EndDispatch \/ SinkReturns \/ CatchInTap \/ CatchInDispatch
           \/ CatchInDead \/ ThrowFromInvalid
  PROVE  LossWay'
<1>1. /\ stack # <<>> /\ UNCHANGED <<sent, settled, destroyed>>
      /\ Top.at \in {"tap", "dispatch", "dead", "invalid"}
  BY DEF EndDispatch, SinkReturns, CatchInTap, CatchInDispatch, CatchInDead,
         ThrowFromInvalid, Running, Catching, NoHistory, Quiet
<1>2. /\ Top \in SendFrames /\ IsSend(Top) /\ Reach(Top, sent) /\ Top.ch \in Channel
  BY <1>1, SendTop, TopLoss DEF SendFrames
<1>3. exc # "none" => exc = "error" /\ Top.at \notin {"dead", "invalid"}
  BY <1>1 DEF BusInv, Sound, SendContainsErrors, Calm
<1>4. exc = "none" /\ Done(Top) => Accounted
  BY <1>1 DEF LossInv, LossWay, Pending, Accounted
<1>5. Open' = Open
  BY <1>1 DEF Open
<1>6. CASE EndDispatch
  <2>1. exc = "none" /\ Top.at = "dispatch" /\ Top.todo = <<>>
    BY <1>6 DEF EndDispatch, Running
  <2>2. CASE Top.err
    <3>1. Accounted \/ Top.ch # IMC(HomeOf(Top.ch))
      <4>1. ~Surely(<<>>)
        BY DEF Surely, Members
      <4>2. Top.ch = IMC(HomeOf(Top.ch)) => Top.ch \notin AppChannel
        BY <1>2, ChannelFacts, ChannelAssumption
      <4>3. QED
        BY <1>1, <2>1, <4>1, <4>2 DEF LossInv, LossWay, Pending, Accounted
    <3>2. QED
      BY <1>1, <1>2, <1>6, <2>2, <3>1, LossFail DEF EndDispatch
  <2>3. CASE ~Top.err
    <3>1. Accounted /\ Return
      BY <1>4, <1>6, <2>1, <2>3 DEF EndDispatch, Done
    <3>2. QED
      BY <1>1, <1>5, <3>1, LossReturn DEF Accounted
  <2>4. QED
    BY <2>2, <2>3
<1>7. CASE SinkReturns
  <2>1. Accounted /\ Return
    BY <1>4, <1>7 DEF SinkReturns, Running, Done
  <2>2. QED
    BY <1>1, <1>5, <2>1, LossReturn DEF Accounted
<1>8. CASE CatchInTap
  BY <1>1, <1>2, <1>8, LossOn DEF CatchInTap, Catching, Goto, Alike, Frames, Done
<1>9. CASE CatchInDispatch
  <2> DEFINE b == [Top EXCEPT !.err = TRUE]
  <2>1. /\ b \in SendFrames /\ b.ch = Top.ch /\ b.todo = Top.todo /\ b.msg = Top.msg
        /\ b.at = Top.at /\ b.err /\ IsSend(b) /\ stack' = <<b>> \o Tail(stack)
        /\ exc' = "none" /\ Top.at = "dispatch"
    BY <1>2, <1>9 DEF SendFrames, IsSend, CatchInDispatch, Catching, Goto
  <2> HIDE DEF b
  <2>2. Alike(b, Top) /\ Reach(b, sent) /\ ~Done(b)
    BY <1>2, <2>1 DEF Alike, Reach, Done
  <2>3. ~Accounted /\ b.ch \notin AppChannel => Surely(b.todo)
    BY <1>1, <2>1 DEF LossInv, LossWay, Pending, Accounted
  <2>4. QED
    BY <1>1, <2>1, <2>2, <2>3, LossOn DEF Frames
<1>10. CASE CatchInDead
  BY <1>3, <1>10 DEF CatchInDead, Catching
<1>11. CASE ThrowFromInvalid
  BY <1>3, <1>11 DEF ThrowFromInvalid, Catching
<1>12. QED
  BY <1>6, <1>7, <1>8, <1>9, <1>10, <1>11

\* The message of the running handler is an open one; where it leads.
LEMMA LastingBehind ==
  ASSUME NEW c \in Channel, Lasting(c), NEW origin
  PROVE  Behind(c, origin)
  BY DEF Lasting, Behind

LEMMA OutputBehind ==
  ASSUME NothingLeaks, BusInv, LossInv, stack # <<>>, Top \in HandleFrames,
         NextOutput(Top.h, Top.msg) \in Channel
  PROVE  Behind(NextOutput(Top.h, Top.msg), sent[Top.msg])
<1> DEFINE out == NextOutput(Top.h, Top.msg)
<1>1. Top.h \in Handler /\ Top.msg \in Message /\ ~IsSend(Top)
  BY FrameKinds DEF HandleFrames, Frames
<1>2. None \notin Channel
  BY ChannelAssumption
<1>3. CASE Top.h \in AppHandler
  <2>1. out = Output[Top.h] \/ out = ReplyTo[Top.msg]
    BY <1>3 DEF NextOutput, ChannelOf
  <2>2. Lasting(out)
    BY <1>1, <1>3, <2>1 DEF NothingLeaks
  <2>3. QED
    BY <2>2, LastingBehind
<1>4. CASE Top.h \notin AppHandler
  <2> DEFINE g == stack[2]
  <2>1. Tail(stack) # <<>> /\ IsSend(Head(Tail(stack)))
    BY <1>1, TopLoss, TopFacts, StackPop
  <2>2. Head(Tail(stack)) = g /\ 2 \in 2..Len(stack) /\ g \in Frames
    BY <2>1, TopLoss, HeldPop
  <2>3. 2 - 1 = 1 /\ 2 \in 1..Len(stack)
    BY <2>2
  <2>4. /\ Near(Top, g) /\ Attended(Top, g, Held(stack, 2, "tap"), Open) /\ Reach(g, sent)
    BY <2>2, <2>3, TopLoss DEF LossStack
  <2> HIDE DEF g
  <2>5. Upward(Top.h, g.ch) /\ g.msg = Top.msg /\ Behind(g.ch, sent[Top.msg]) /\ g.ch \in Channel
    BY <1>1, <2>1, <2>2, <2>4, FrameKinds DEF Attended, Near, Reach, Frames, SendFrames, HandleFrames, IsSend
  <2>6. out = Top.h[2]
    BY <1>2, <1>4, <2>5 DEF NextOutput, ChannelOf, Upward
  <2>7. /\ HomeOf(g.ch) \in Bus \ {Root} /\ HomeOf(out) = Parent[HomeOf(g.ch)]
    BY <1>4, <2>5, <2>6, ChannelFacts DEF Upward
  <2> HIDE DEF out
  <2>8. ASSUME NEW d \in Disposable, HomeOf(out) \in Below(d)
        PROVE  HomeOf(g.ch) \in Below(d)
    BY <2>7, <2>8 DEF Below
  <2>9. QED
    BY <2>5, <2>8 DEF Behind, out
<1>5. QED
  BY <1>3, <1>4

LEMMA ErrorBehind ==
  ASSUME NothingLeaks, stack # <<>>, Top \in HandleFrames
  PROVE  LET err == NextError(Top.h, Top.msg) IN
         err # Noop /\ (err \in Channel => Behind(err, sent[Top.msg]))
<1> DEFINE err == NextError(Top.h, Top.msg)
<1>1. Top.h \in Handler /\ Top.msg \in Message
  BY DEF HandleFrames
<1>2. err # Noop /\ (err \in Channel => Lasting(err))
  BY <1>1 DEF NextError, NothingLeaks
<1>3. QED
  BY <1>2, LastingBehind

LEMMA HandleOnLoss ==
  ASSUME BusInv, LossInv, stack # <<>>, Top \in HandleFrames, NEW pc \in {"output", "error"},
         stack' = <<[Top EXCEPT !.at = pc]>> \o Tail(stack), exc' = "error",
         UNCHANGED <<sent, settled, destroyed>>, ~Sure(Top.h)
  PROVE  LossWay'
<1> DEFINE b == [Top EXCEPT !.at = pc]
<1>1. /\ b \in HandleFrames /\ b.h = Top.h /\ b.msg = Top.msg /\ b.at = pc
      /\ ~IsSend(b) /\ IsSend(b) = IsSend(Top) /\ stack' = <<b>> \o Tail(stack)
  BY DEF HandleFrames, IsSend
<1> HIDE DEF b
<1>2. Alike(b, Top) /\ Reach(b, sent)
  BY <1>1, TopLoss DEF Alike, Reach
<1>3. QED
  BY <1>1, <1>2, LossOn DEF Frames

LEMMA HandleCallsLoss ==
  ASSUME BusInv, LossInv, stack # <<>>, Top \in HandleFrames, NEW pc \in {"output", "error"},
         NEW c \in Channel, Behind(c, sent[Top.msg]), Calm',
         Call([Top EXCEPT !.at = pc], SendFrame(c, Top.msg)),
         UNCHANGED <<sent, settled, destroyed>>
  PROVE  LossWay'
<1> DEFINE b == [Top EXCEPT !.at = pc]
           a == SendFrame(c, Top.msg)
<1>1. /\ b \in HandleFrames /\ b.h = Top.h /\ b.msg = Top.msg /\ b.at = pc
      /\ ~IsSend(b) /\ IsSend(b) = IsSend(Top) /\ Top.msg \in Message /\ Call(b, a)
  BY DEF HandleFrames, IsSend
<1>2. a \in SendFrames /\ a.msg = Top.msg /\ a.at = "tap" /\ IsSend(a)
  <2>1. a \in SendFrames /\ IsSend(a)
    BY <1>1, NewSend
  <2>2. QED
    BY <2>1 DEF SendFrame
<1>3. sent[Top.msg] # None /\ Reach(Top, sent)
  BY TopLoss DEF Reach
<1>4. Reach(a, sent)
  BY <1>1, <1>3, NewReach
<1> HIDE DEF a, b
<1>5. Alike(b, Top) /\ Reach(b, sent) /\ Attended(a, b, Held(stack, 1, "tap"), Open)
  BY <1>1, <1>2, <1>3 DEF Alike, Reach, Attended
<1>6. QED
  BY <1>1, <1>2, <1>4, <1>5, LossCall DEF Frames

LEMMA ConsumedLoss ==
  ASSUME BusInv, LossInv, HandlerReturns
  PROVE  LossWay'
<1>1. /\ stack # <<>> /\ Return /\ UNCHANGED <<sent, destroyed>>
      /\ settled' = IF OnTap(Top.msg) \/ settled[Top.msg] = 2 THEN settled
                      ELSE [settled EXCEPT ![Top.msg] = @ + 1]
  BY DEF HandlerReturns, Running, Quiet
<1>2. Top.msg \in Message /\ settled \in [Message -> 0..2]
  BY <1>1, TopLoss DEF BusInv, TypeOK
<1>3. \A m \in Message : settled'[m] = 0 => settled[m] = 0
  BY <1>1, <1>2
<1>4. Open' \subseteq Open
  BY <1>1, <1>3 DEF Open
<1>5. OnTap(Top.msg) \/ settled'[Top.msg] # 0
  BY <1>1, <1>2
<1>6. Top.msg \notin Open' \/ Top.msg \in Held(stack, 1, "tap")
  BY <1>1, <1>5, TopOnTap DEF Open
<1>7. QED
  BY <1>1, <1>4, <1>6, LossReturn

LEMMA HandleLosses ==
  ASSUME NothingLeaks, BusInv, LossInv, Calm, Calm', HandleStep
  PROVE  LossInv'
<1>1. CASE HandlerReturns
  BY <1>1, ConsumedLoss, LossQuiet DEF HandlerReturns
<1>2. CASE HandlerForwards
  <2> DEFINE out == NextOutput(Top.h, Top.msg)
             b == [Top EXCEPT !.at = "output"]
  <2>1. /\ stack # <<>> /\ Top.at = "body" /\ out \notin {None, Noop} /\ Quiet
        /\ UNCHANGED <<sent, destroyed>>
    BY <1>2 DEF HandlerForwards, Running, Quiet
  <2>2. Top \in HandleFrames /\ Top.h \in Handler /\ Top.msg \in Message
    BY <2>1, HandleTop DEF HandleFrames
  <2>3. CASE out = Missing /\ exc' = "error" /\ stack' = <<b>> \o Tail(stack) /\ Blame(Top.msg)
    <3>1. CASE Top.h \in AppHandler
      <4>1. Noop # None /\ Noop # Missing
        BY ChannelAssumption
      <4>2. Output[Top.h] # Noop
        BY <2>3, <3>1, <4>1 DEF NextOutput, ChannelOf
      <4>3. ~Sure(Top.h)
        BY <3>1, <4>2 DEF Sure
      <4>4. QED
        BY <2>1, <2>2, <2>3, <4>3, HandleOnLoss, LossQuiet DEF Blame
    <3>2. CASE Top.h \notin AppHandler
      <4>1. PICK c \in Channel : Top.h = Forwarder(c)
        BY <2>2, <3>2 DEF Handler
      <4>2. ChannelOf(Top.h) = c
        BY <3>2, <4>1 DEF ChannelOf, Forwarder
      <4>3. None \notin Channel /\ Missing \notin Channel
        BY ChannelAssumption
      <4>4. out = c
        BY <4>2, <4>3 DEF NextOutput
      <4>5. QED
        BY <2>3, <4>3, <4>4
    <3>3. QED
      BY <3>1, <3>2
  <2>4. CASE out # Missing /\ Call(b, SendFrame(out, Top.msg)) /\ NoHistory
    <3>1. out \in Channel
      BY <2>1, <2>2, <2>4, RouteFacts DEF ChannelRef
    <3>2. Behind(out, sent[Top.msg])
      BY <2>1, <2>2, <3>1, OutputBehind
    <3> HIDE DEF out
    <3>3. QED
      BY <2>1, <2>2, <2>4, <3>1, <3>2, HandleCallsLoss, LossQuiet DEF NoHistory
  <2>5. QED
    BY <1>2, <2>3, <2>4 DEF HandlerForwards
<1>3. CASE HandlerThrows
  <2>1. /\ stack # <<>> /\ Top.at = "body" /\ stack' = stack /\ exc' = "error" /\ Quiet
        /\ UNCHANGED <<sent, settled, destroyed>> /\ Top.h \in Throwers
    BY <1>3 DEF HandlerThrows, Running, Blame, Quiet
  <2>2. ~Sure(Top.h)
    BY <2>1, HandlerAssumption DEF Sure
  <2>3. Open' = Open
    BY <2>1 DEF Open
  <2>4. LossWay'
    BY <2>1, <2>2, <2>3 DEF LossInv, LossWay, Pending, SureReturns, Top
  <2>5. QED
    BY <2>1, <2>4, LossQuiet
<1>4. CASE ForwardReturns
  <2>1. /\ stack # <<>> /\ exc = "none" /\ Top.at \in {"output", "error"} /\ Return /\ Quiet
        /\ UNCHANGED <<sent, settled, destroyed>>
    BY <1>4 DEF ForwardReturns, Running, NoHistory, Quiet
  <2>2. Accounted /\ Open' = Open
    BY <2>1 DEF LossInv, LossWay, Pending, Accounted, Done, Open
  <2>3. QED
    BY <2>1, <2>2, LossReturn, LossQuiet DEF Accounted
<1>5. CASE CatchInHandler
  <2> DEFINE err == NextError(Top.h, Top.msg)
             b == [Top EXCEPT !.at = "error"]
  <2>1. /\ stack # <<>> /\ Top.at \in {"body", "output"} /\ exc = "error" /\ Quiet
        /\ UNCHANGED <<sent, settled, destroyed>>
    BY <1>5 DEF CatchInHandler, Catching, NoHistory, Quiet, Calm, BusInv, TypeOK
  <2>2. Top \in HandleFrames /\ ~IsSend(Top)
    BY <2>1, HandleTop
  <2>3. ~Sure(Top.h)
    BY <2>1, <2>2 DEF LossInv, LossWay, SureReturns
  <2>4. err # Noop /\ (err \in Channel => Behind(err, sent[Top.msg]))
    BY <2>1, <2>2, ErrorBehind
  <2>5. CASE Propagate
    BY <2>1, <2>2, <2>5, LossPropagate, LossQuiet
  <2>6. CASE stack' = <<b>> \o Tail(stack) /\ exc' = "error"
    BY <2>1, <2>2, <2>3, <2>6, HandleOnLoss, LossQuiet
  <2>7. CASE err \in Channel /\ Call(b, SendFrame(err, Top.msg))
    <3> HIDE DEF err
    <3>1. QED
      BY <2>1, <2>2, <2>4, <2>7, HandleCallsLoss, LossQuiet
  <2>8. QED
    BY <1>5, <2>4, <2>5, <2>6, <2>7 DEF CatchInHandler
<1>6. CASE ThrowFromError
  <2>1. /\ stack # <<>> /\ exc = "error" /\ Top \in HandleFrames /\ Propagate /\ Quiet
        /\ UNCHANGED <<sent, settled, destroyed>>
    BY <1>6, HandleTop
    DEF ThrowFromError, Catching, NoHistory, Quiet, Calm, BusInv, TypeOK
  <2>2. QED
    BY <2>1, LossPropagate, LossQuiet
<1>7. QED
  BY <1>1, <1>2, <1>3, <1>4, <1>5, <1>6 DEF HandleStep

\* A new message is under way in the send that was called.
LEMMA SendLoss ==
  ASSUME BusInv, LossInv, NEW c \in Entry, NEW m \in Message, Send(c, m), Calm'
  PROVE  LossInv'
<1>1. /\ c \in Channel /\ c # None /\ sent[m] = None /\ exc = "none"
      /\ UNCHANGED <<settled, destroyed, handlers, taps>>
      /\ sent' = [sent EXCEPT ![m] = c]
  BY ChannelAssumption DEF Send, AppTurn, NoHistory
<1>2. sent \in [Message -> Channel \cup {None}]
  BY DEF BusInv, TypeOK
<1>3. sent'[m] = c /\ \A n \in Message : sent[n] # None => sent'[n] = sent[n]
  BY <1>1, <1>2
<1>4. \A n \in Message : n # m => sent'[n] = sent[n]
  BY <1>1, <1>2
<1>5. /\ \A n \in Message : sent[n] # None /\ n \in Open' => n \in Open
      /\ \A n \in Open' : n \in Open \/ n = m
  BY <1>1, <1>3, <1>4 DEF Open
<1>6. Listened' /\ WholeTrees'
  BY <1>1 DEF LossInv, Listened, WholeTrees
<1> DEFINE a == SendFrame(c, m)
<1>7. a \in SendFrames /\ IsSend(a) /\ a.msg = m /\ a.at = "tap"
  BY <1>1, NewSend DEF SendFrame
<1>8. Reach(a, sent')
  <2>1. Behind(c, sent'[m])
    BY <1>3 DEF Behind
  <2> DEFINE now == sent'
  <2>2. Behind(c, now[m]) /\ now[m] # None
    BY <1>1, <1>3, <2>1
  <2> HIDE DEF now
  <2>3. Reach(a, now)
    BY <1>1, <2>2, NewReach
  <2>4. QED
    BY <2>3 DEF now
<1>9. CASE stack = <<>>
  <2>1. stack' = <<a>> /\ exc' = "none"
    BY <1>1, <1>9 DEF Send
  <2>2. Open = {}
    BY <1>9 DEF LossInv, LossWay, UnderWay
  <2> HIDE DEF a
  <2>3. Len(stack') = 1 /\ stack'[1] = a /\ Head(stack') = a /\ 1 \in 1..Len(stack')
    BY <2>1
  <2>4. m \notin Held(stack', 1, "tap")
    BY <2>3 DEF Held
  <2>5. LossStack(stack', sent', Open') /\ UnderWay(stack', Open')
    BY <1>5, <1>7, <1>8, <2>2, <2>3, <2>4 DEF LossStack, UnderWay
  <2>6. Pending' /\ SureReturns'
    BY <1>7, <2>1, <2>3 DEF Pending, SureReturns, Done, Top
  <2>7. QED
    BY <1>6, <2>5, <2>6 DEF LossInv, LossWay
<1>10. CASE stack # <<>>
  <2>1. Call(Top, a) /\ Top.at = "body"
    BY <1>1, <1>10 DEF Send, AppTurn
  <2>2. stack' = <<a, Top>> \o Tail(stack) /\ exc' = "none"
    BY <2>1 DEF Call, Calm
  <2>3. /\ stack \in Seq(Frames) /\ Top \in Frames /\ Alike(Top, Top) /\ Top = Head(stack)
        /\ LossStack(stack, sent, Open) /\ UnderWay(stack, Open) /\ Reach(Top, sent)
    BY <1>10, TopLoss DEF Alike
  <2>4. Reach(Top, sent')
    BY <1>3, <2>3, ReachSent
  <2>5. m \notin Held(stack, 1, "tap")
    <3>1. \A i \in 1..Len(stack) : stack[i].msg # m
      BY <1>1, <2>3 DEF LossStack, Reach
    <3>2. \A j \in 1+1..Len(stack) : j \in 1..Len(stack)
      OBVIOUS
    <3>3. QED
      BY <3>1, <3>2 DEF Held
  <2> HIDE DEF a
  <2>6. Near(a, Top) /\ Attended(a, Top, Held(stack, 1, "tap"), Open')
    BY <1>7, <2>1 DEF Near, Attended
  <2>7. LossStack(stack', sent', Open') /\ UnderWay(stack', Open')
    BY <1>3, <1>5, <1>7, <1>8, <1>10, <2>1, <2>2, <2>3, <2>4, <2>5, <2>6, LossPush DEF Frames
  <2>8. Head(stack') = a
    <3>1. stack' \in Seq(Frames) /\ stack'[1] = a /\ Len(stack') = Len(stack) + 1
      BY <1>7, <1>10, <2>2, <2>3, PushFacts DEF Frames
    <3>2. stack' # <<>>
      BY <2>3, <3>1, EmptySeq, LenProperties
    <3>3. QED
      BY <3>1, <3>2, PopFacts
  <2>9. Pending' /\ SureReturns'
    BY <1>7, <2>2, <2>8 DEF Pending, SureReturns, Done, Top
  <2>10. QED
    BY <1>6, <2>7, <2>9 DEF LossInv, LossWay
<1>11. QED
  BY <1>9, <1>10

\* The application changes lists or destroys buses: what is under way stays so, and there
\* may be fewer messages that must not get lost.
LEMMA LossIdle ==
  ASSUME BusInv, LossInv, UNCHANGED <<stack, sent, settled>>, destroyed \subseteq destroyed',
         \/ exc' = exc
         \/ exc' = "none" /\ stack = <<>>
         \/ exc' = "error" /\ stack # <<>> /\ ~IsSend(Top) /\ ~Sure(Top.h) /\ Top.at = "body"
  PROVE  LossWay'
<1>1. Open' \subseteq Open
  BY DEF Open
<1>2. LossStack(stack, sent, Open) /\ UnderWay(stack, Open)
  BY DEF LossInv, LossWay
<1>3. LossStack(stack, sent, Open') /\ UnderWay(stack, Open')
  BY <1>1, <1>2, LossStays
<1>4. Pending'
  BY <1>1 DEF LossInv, LossWay, Pending, Top, Done
<1>5. SureReturns'
  <2>1. CASE exc' = exc
    BY <2>1 DEF LossInv, LossWay, SureReturns, Top
  <2>2. CASE exc' = "none"
    BY <2>2 DEF SureReturns
  <2>3. CASE exc' = "error" /\ ~Sure(Top.h)
    BY <2>3 DEF SureReturns, Top
  <2>4. QED
    BY <2>1, <2>2, <2>3
<1>6. QED
  BY <1>3, <1>4, <1>5 DEF LossWay

LEMMA AppLosses ==
  ASSUME BusInv, LossInv, Calm', AppStep
  PROVE  LossInv'
<1>1. ASSUME AppTurn, AppCallThrows PROVE LossInv'
  <2>1. /\ UNCHANGED <<handlers, taps, destroyed, stack, sent, settled>> /\ exc = "none"
        /\ exc' = IF stack = <<>> THEN "none" ELSE "error"
        /\ stack # <<>> => Top.at = "body" /\ Top.h \in Actors
    BY <1>1 DEF AppTurn, AppCallThrows, NoHistory, Blame
  <2>2. stack # <<>> => ~IsSend(Top) /\ ~Sure(Top.h)
    BY <2>1, HandleTop, HandlerAssumption DEF Sure
  <2>3. LossWay'
    BY <2>1, <2>2, LossIdle
  <2>4. QED
    BY <2>1, <2>3 DEF LossInv, Listened, WholeTrees
<1>2. ASSUME NEW p \in Mutable, Subscribe(p[1], p[2]) \/ Unsubscribe(p[1], p[2])
      PROVE  LossInv'
  <2>1. p[1] \in Channel /\ p[2] \in AppHandler /\ p = <<p[1], p[2]>>
    BY HandlerAssumption
  <2> SUFFICES ASSUME NEW c \in Channel, NEW h \in AppHandler, <<c, h>> \in Mutable,
                      Subscribe(c, h) \/ Unsubscribe(c, h)
               PROVE  LossInv'
    BY <1>2, <2>1
  <2>2. CASE handlers[c] = Gone
    BY <1>1, <2>2 DEF Subscribe, Unsubscribe
  <2>3. CASE handlers[c] # Gone
    <3>1. /\ UNCHANGED <<stack, exc, sent, settled, destroyed, taps>>
          /\ \/ handlers' = [handlers EXCEPT ![c] = Add(@, h)]
             \/ handlers' = [handlers EXCEPT ![c] = Without(@, h)]
      BY <2>3 DEF Subscribe, Unsubscribe, NoHistory
    <3>2. handlers \in [Channel -> Seq(Handler) \cup {Gone}] /\ h \in Handler
      BY DEF BusInv, TypeOK, Handler
    <3>3. handlers[c] \in Seq(Handler) /\ IsList(handlers[c])
      BY <2>3, <3>2, MarkAssumption DEF IsList
    <3>4. /\ Members(Add(handlers[c], h)) = Members(handlers[c]) \cup {h}
          /\ Members(Without(handlers[c], h)) \subseteq Members(handlers[c])
          /\ Members(handlers[c]) \ {h} \subseteq Members(Without(handlers[c], h))
          /\ Add(handlers[c], h) \in Seq(Handler) /\ Without(handlers[c], h) \in Seq(Handler)
      <4>1. /\ Members(Add(handlers[c], h)) = Members(handlers[c]) \cup {h}
            /\ Add(handlers[c], h) \in Seq(Handler) 
        BY <3>2, <3>3, AddFacts
      <4>2. /\ Members(Without(handlers[c], h)) \subseteq Members(handlers[c])
            /\ Members(handlers[c]) \ {h} \subseteq Members(Without(handlers[c], h))
            /\ Without(handlers[c], h) \in Seq(Handler)
        BY <3>2, <3>3, WithoutFacts
      <4>3. QED
        BY <4>1, <4>2
    <3>5. handlers'[c] \in {Add(handlers[c], h), Without(handlers[c], h)}
      BY <3>1, <3>2
    <3>6. /\ Members(handlers'[c]) \subseteq Members(handlers[c]) \cup {h}
          /\ Members(handlers[c]) \ {h} \subseteq Members(handlers'[c])
          /\ IsList(handlers'[c])
      <4>1. \A q \in Seq(Handler) : IsList(q)
        BY MarkAssumption DEF IsList
      <4>2. QED
        BY <3>4, <3>5, <4>1
    <3>7. \A d \in Channel : d # c => handlers'[d] = handlers[d]
      BY <3>1, <3>2
    <3>8. ASSUME c \notin AppChannel, HomeOf(c) \notin destroyed
          PROVE  \E g \in Members(handlers'[c]) : Sure(g) /\ <<c, g>> \notin Mutable
      <4>1. PICK g \in Members(handlers[c]) : Sure(g) /\ <<c, g>> \notin Mutable
        BY <3>8 DEF LossInv, Listened
      <4>2. g # h
        BY <2>3, <4>1
      <4>3. QED
        BY <3>6, <4>1, <4>2
    <3>9. \A g \in Members(handlers'[c]) : Upward(g, c)
      BY <3>3, <3>6 DEF LossInv, Listened, Upward
    <3>10. Listened'
      BY <3>1, <3>6, <3>7, <3>8, <3>9 DEF LossInv, Listened
    <3>11. LossWay'
      BY <3>1, LossIdle
    <3>12. QED
      BY <3>1, <3>10, <3>11 DEF LossInv, WholeTrees
  <2>4. QED
    BY <2>2, <2>3
<1>3. ASSUME NEW p \in Tappable, Tap(p[1], p[2]) \/ Untap(p[1], p[2])
      PROVE  LossInv'
  <2>1. p[1] \in Channel /\ p[2] \in AppHandler
    BY HandlerAssumption
  <2> SUFFICES ASSUME NEW c \in Channel, NEW h \in AppHandler, Tap(c, h) \/ Untap(c, h)
               PROVE  LossInv'
    BY <1>3, <2>1
  <2>2. CASE taps[c] = Gone
    BY <1>1, <2>2 DEF Tap, Untap
  <2>3. CASE taps[c] # Gone
    <3>1. /\ UNCHANGED <<stack, exc, sent, settled, destroyed, handlers>>
          /\ \/ taps' = [taps EXCEPT ![c] = IF @ = None THEN <<h>> ELSE Add(@, h)]
             \/ taps[c] # None /\ taps' = [taps EXCEPT ![c] = Without(@, h)]
      BY <2>3 DEF Tap, Untap, NoHistory
    <3>2. taps \in [Channel -> Seq(Handler) \cup {None, Gone}] /\ h \in Handler
      BY DEF BusInv, TypeOK, Handler
    <3>3. taps[c] # None =>
            /\ IsList(taps[c])
            /\ Members(Add(taps[c], h)) \subseteq Members(taps[c]) \cup {h}
            /\ Members(Without(taps[c], h)) \subseteq Members(taps[c])
      BY <2>3, <3>2, AddFacts, WithoutFacts DEF IsList
    <3>4. Members(<<h>>) = {h}
      <4>1. Len(<<h>>) = 1 /\ <<h>>[1] = h /\ \A i \in 1..1 : i = 1
        OBVIOUS
      <4>2. QED
        BY <4>1 DEF Members
    <3>5. \/ taps'[c] = <<h>>
          \/ taps[c] # None /\ taps'[c] \in {Add(taps[c], h), Without(taps[c], h)}
      BY <3>1, <3>2
    <3>6. \A d \in Channel : d # c => taps'[d] = taps[d]
      BY <3>1, <3>2
    <3>7. \A g \in Members(taps'[c]) : g \in AppHandler
      <4>1. CASE taps'[c] = <<h>>
        BY <3>4, <4>1
      <4>2. CASE taps[c] # None /\ taps'[c] \in {Add(taps[c], h), Without(taps[c], h)}
        BY <3>3, <4>2 DEF LossInv, Listened
      <4>3. QED
        BY <3>5, <4>1, <4>2
    <3>8. Listened'
      BY <3>1, <3>6, <3>7 DEF LossInv, Listened
    <3>9. LossWay'
      BY <3>1, LossIdle
    <3>10. QED
      BY <3>1, <3>8, <3>9 DEF LossInv, WholeTrees
  <2>4. QED
    BY <2>2, <2>3
<1>4. ASSUME NEW b \in Disposable, DestroyBus(b) PROVE LossInv'
  <2>1. UNCHANGED <<stack, exc, sent, settled>> /\ destroyed' = destroyed \cup Below(b)
    BY <1>4 DEF DestroyBus, NoHistory
  <2>2. \A c \in Channel : handlers'[c] \in {handlers[c], Gone} /\ taps'[c] \in {taps[c], Gone}
    BY <1>4 DEF DestroyBus
  <2>3. ASSUME NEW c \in Channel, c \notin AppChannel, HomeOf(c) \notin destroyed'
        PROVE  HomeOf(c) \notin destroyed /\ handlers'[c] = handlers[c]
    <3>1. PICK z \in Bus : c = DLC(z) \/ c = IMC(z)
      BY <2>3 DEF Channel
    <3>2. HomeOf(c) = z
      BY <2>3, <3>1 DEF HomeOf, DLC, IMC
    <3>3. z \notin Below(b) /\ z \notin destroyed
      BY <2>1, <2>3, <3>2
    <3>4. \A x \in Below(b) : Components[x] \subseteq AppChannel
      BY ChannelAssumption DEF Below
    <3>5. c \notin Doomed(b)
      <4>1. \A x : c = DLC(x) \/ c = IMC(x) => x = z
        BY <3>1 DEF DLC, IMC
      <4>2. \A x \in Below(b) \ destroyed : c \notin Components[x]
        BY <2>3, <3>4
      <4>3. \A x \in Below(b) : c \notin {DLC(x), IMC(x)}
        BY <3>3, <4>1
      <4>4. QED
        BY <4>2, <4>3 DEF Doomed
    <3>6. QED
      BY <1>4, <3>2, <3>3, <3>5 DEF DestroyBus
  <2>4. Listened'
    BY <2>2, <2>3 DEF LossInv, Listened, IsList
  <2>5. WholeTrees'
    BY <2>1 DEF LossInv, WholeTrees
  <2>6. LossWay'
    BY <2>1, LossIdle
  <2>7. QED
    BY <2>4, <2>5, <2>6 DEF LossInv
<1>5. ASSUME NEW c \in Entry, NEW m \in Message, Send(c, m) PROVE LossInv'
  BY <1>5, SendLoss
<1>6. QED
  BY <1>2, <1>3, <1>4, <1>5 DEF AppStep

LEMMA InitLoss ==
  ASSUME NothingLeaks, Init
  PROVE  LossInv
<1>1. stack = <<>> /\ Len(stack) = 0 /\ exc = "none" /\ destroyed = {} /\ Open = {}
  BY DEF Init, Open
<1>2. LossWay
  BY <1>1 DEF LossWay, LossStack, UnderWay, Pending, SureReturns
<1>3. ASSUME NEW c \in Channel PROVE ~IsList(taps[c])
  BY DEF Init, IsList
<1>4. Gone \notin Seq(Handler) /\ None \notin Seq(Handler)
  BY MarkAssumption
<1>5. ASSUME NEW c \in Channel
      PROVE  /\ IsList(handlers[c])
             /\ \A h \in Members(handlers[c]) : Upward(h, c)
             /\ c \notin AppChannel =>
                  \E h \in Members(handlers[c]) : Sure(h) /\ <<c, h>> \notin Mutable
  <2> DEFINE f == Forwarder(<<c[1], Parent[c[2]]>>)
  <2>1. Wiring[c] \in Seq(AppHandler)
    BY HandlerAssumption
  <2>2. \A g \in Members(Wiring[c]) : Upward(g, c)
    BY <2>1, ElementOfSeq DEF Upward, Members
  <2>3. IsList(handlers[c])
    BY <1>4, InitLists DEF IsList
  <2>4. CASE ~(c \notin AppChannel /\ c[2] # Root)
    <3>1. handlers[c] = Wiring[c]
      BY <2>4 DEF Init
    <3>2. c \notin AppChannel => c \in {DLC(Root), IMC(Root)}
      BY <2>4 DEF Channel, DLC, IMC
    <3>3. QED
      BY <2>2, <2>3, <3>1, <3>2 DEF NothingLeaks
  <2>5. CASE c \notin AppChannel /\ c[2] # Root
    <3>1. handlers[c] = <<f>> \o Wiring[c]
      BY <2>5 DEF Init
    <3>2. PICK b \in Bus : c = DLC(b) \/ c = IMC(b)
      BY <2>5 DEF Channel
    <3>3. c[2] = b /\ Parent[b] \in Bus /\ b # Root
      BY <2>5, <3>2, BusAssumption DEF DLC, IMC
    <3> DEFINE up == <<c[1], Parent[c[2]]>>
    <3>4. up \in Channel /\ up \notin AppChannel /\ HomeOf(up) = Parent[b]
      BY <3>2, <3>3, ChannelAssumption DEF Channel, HomeOf, DLC, IMC
    <3> HIDE DEF up
    <3>5. f[2] = up /\ f \notin AppHandler
      <4>1. f = Forwarder(up)
        BY DEF up
      <4> HIDE DEF f
      <4>2. f \notin AppHandler
        BY <3>4, <4>1, HandlerAssumption
      <4>3. QED
        BY <4>1, <4>2 DEF Forwarder
    <3>6. Upward(f, c) /\ Sure(f) /\ <<c, f>> \notin Mutable
      BY <2>5, <3>3, <3>4, <3>5, HandlerAssumption DEF Upward, Sure, HomeOf
    <3> HIDE DEF f
    <3>7. f \in Members(<<f>> \o Wiring[c])
          /\ Members(<<f>> \o Wiring[c]) \subseteq {f} \cup Members(Wiring[c])
      <4>1. /\ Len(<<f>> \o Wiring[c]) = 1 + Len(Wiring[c]) /\ Len(Wiring[c]) \in Nat
            /\ \A i \in 1..1 + Len(Wiring[c]) :
                 (<<f>> \o Wiring[c])[i] = IF i <= 1 THEN f ELSE Wiring[c][i - 1]
        <5>1. <<f>> \in Seq({f}) /\ Len(<<f>>) = 1 /\ <<f>>[1] = f
          OBVIOUS
        <5>2. <<f>> \in Seq(AppHandler \cup {f}) /\ Wiring[c] \in Seq(AppHandler \cup {f})
          BY <2>1, SeqMonotonic
        <5>3. \A i \in 1..1 + Len(Wiring[c]) : i <= 1 => i = 1
          OBVIOUS
        <5>4. QED
          BY <5>1, <5>2, <5>3, ConcatProperties, LenProperties
      <4>2. \A i \in 1..1 + Len(Wiring[c]) : i <= 1 \/ i - 1 \in 1..Len(Wiring[c])
        BY <4>1
      <4>3. 1 \in 1..1 + Len(Wiring[c]) /\ (<<f>> \o Wiring[c])[1] = f
        BY <4>1
      <4>4. QED
        BY <4>1, <4>2, <4>3 DEF Members
    <3>8. QED
      BY <2>2, <2>3, <3>1, <3>6, <3>7
  <2>6. QED
    BY <2>4, <2>5
<1>6. Listened
  BY <1>3, <1>5 DEF Listened
<1>7. WholeTrees
  BY <1>1 DEF WholeTrees
<1>8. QED
  BY <1>2, <1>6, <1>7 DEF LossInv

LEMMA StepLoss ==
  ASSUME NothingLeaks, BusInv, LossInv, [Next]_vars, Calm, Calm'
  PROVE  LossInv'
<1>1. CASE SendStep
  <2>1. Quiet
    BY <1>1 DEF SendStep, CallHandler, Dispatch, EndDispatch, SinkReturns, CatchInTap,
                CatchInDispatch, CatchInDead, ThrowFromInvalid
  <2>2. LossWay'
    BY <1>1, CallHandlerLoss, DispatchLoss, SendLosses DEF SendStep
  <2>3. QED
    BY <2>1, <2>2, LossQuiet
<1>2. CASE HandleStep
  BY <1>2, HandleLosses
<1>3. CASE AppCatches
  <2>1. /\ UNCHANGED <<stack, sent, settled, destroyed>> /\ Quiet /\ exc' = "none"
        /\ stack = <<>>
    BY <1>3 DEF AppCatches, Quiet, NoHistory
  <2>2. QED
    BY <2>1, LossIdle, LossQuiet
<1>4. CASE AppStep
  BY <1>4, AppLosses
<1>5. CASE UNCHANGED vars
  BY <1>5, LossIdle, LossQuiet DEF vars, Quiet
<1>6. QED
  BY <1>1, <1>2, <1>3, <1>4, <1>5 DEF Next, MachineStep

\* For every wiring in which nothing leaks, and as long as the stack does not run out,
\* each message is consumed in the end, by a listener of a sink if by nobody else, or
\* the bus it was sent to is destroyed, whatever throws, subscribes, taps and destroys
\* other buses meanwhile (msgs.js:327-347, 506-514, 729-743).
THEOREM EveryMessageEndsSomewhere ==
  ASSUME NothingLeaks
  PROVE  Spec /\ [](exc # "overflow") => []NoSilentLoss
<1>1. Init => LossInv
  BY InitLoss
<1>2. BusInv /\ LossInv /\ exc # "overflow" /\ (exc # "overflow")' /\ [Next]_vars => LossInv'
  BY StepLoss DEF Calm
<1>3. BusInv /\ LossInv => NoSilentLoss
  <2> SUFFICES ASSUME BusInv, LossInv, Idle
               PROVE  \A m \in Message : sent[m] # None =>
                        settled[m] > 0 \/ HomeOf(sent[m]) \in destroyed
    BY DEF NoSilentLoss
  <2>1. Len(stack) = 0
    BY DEF Idle
  <2>2. Open = {}
    BY <2>1 DEF LossInv, LossWay, UnderWay
  <2>3. \A m \in Message : settled[m] = 0 \/ settled[m] > 0
    BY DEF BusInv, TypeOK
  <2>4. QED
    BY <2>2, <2>3 DEF Open
<1>4. QED
  BY <1>1, <1>2, <1>3, BusInvariant, PTL DEF Spec
=============================================================================
