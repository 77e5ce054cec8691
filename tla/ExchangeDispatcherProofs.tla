---------------------- MODULE ExchangeDispatcherProofs ----------------------
(***************************************************************************)
(* Theorems about ExchangeDispatcher, for every set of topics, every       *)
(* matcher and any number of nested dispatches.                            *)
(***************************************************************************)
EXTENDS ExchangeDispatcher, HandlerListProofs

\* What a matcher may get wrong: it takes what it should not, or misses what it
\* should take.
Sound == \A s \in Subscription, t \in Topic : Match[<<s, t>>] => Documented[<<s, t>>]
Complete == \A s \in Subscription, t \in Topic : Documented[<<s, t>>] => Match[<<s, t>>]

Served(p, called) ==
  \E i \in 1..Len(called) :
    called[i][1] = p[1] /\ (strategy = "broadcast" => called[i][2] = p[2])

\* A dispatch visits a topic once: what is still to be visited or called was not
\* called before.
Once(f) ==
  /\ \A s \in f.todo : Match[<<s, f.topic>>]
  /\ Distinct(f.queue)
  /\ f.queue # <<>> =>
       f.at \in Subscription /\ Match[<<f.at, f.topic>>] /\ f.at \notin f.todo
  /\ Distinct(f.called)
  /\ \A p \in Members(f.called) :
       /\ Match[<<p[1], f.topic>>] /\ p[1] \notin f.todo
       /\ p[1] = f.at => p[2] \notin Members(f.queue)

\* A dispatch without an error has called somebody or is about to.
Finds(f) == f.err \/ f.todo # {} \/ f.queue # <<>> \/ f.called # <<>>

\* Who stays is subscribed, and is served or about to be.
Stays(f, p) ==
  /\ Documented[<<p[1], f.topic>>]
  /\ p[1] \in DOMAIN topics /\ p[2] \in Members(topics[p[1]])
  /\ Match[<<p[1], f.topic>>] =>
       \/ p[1] \in f.todo
       \/ /\ f.at = p[1] /\ f.queue # <<>>
          /\ strategy = "broadcast" => p[2] \in Members(f.queue)
       \/ Served(p, f.called)

FrameOK(f) == Once(f) /\ Finds(f) /\ \A p \in f.stayed : Stays(f, p)

\* The inductive invariant.
ExchangeInv ==
  /\ TypeOK
  /\ \A i \in 1..Len(stack) : FrameOK(stack[i])
  /\ TakenMeansCalled
  /\ Complete => StayersServed
-----------------------------------------------------------------------------
(* How the steps change the stack. *)

\* The frames below the running one wait for a handler, and are not touched.
LEMMA GotoKeeps ==
  ASSUME ExchangeInv, stack # <<>>, UNCHANGED <<topics, strategy>>,
         NEW f \in Frames, FrameOK(f), stack' = <<f>> \o Tail(stack)
  PROVE  /\ stack' \in Seq(Frames) /\ Len(stack') <= MaxDepth
         /\ \A i \in 2..Len(stack') : stack'[i].running # None
         /\ (\A i \in 1..Len(stack) : FrameOK(stack[i]))'
<1>1. stack \in Seq(Frames)
  BY DEF ExchangeInv, TypeOK
<1>2. /\ stack' \in Seq(Frames) /\ Len(stack') = Len(stack) /\ stack'[1] = f
      /\ \A i \in 2..Len(stack') : stack'[i] = stack[i]
  BY <1>1, GotoFacts
<1>3. Len(stack) \in Nat
  BY <1>1, LenProperties
<1>4. \A i \in 1..Len(stack') : FrameOK(stack'[i])
  BY <1>2, <1>3 DEF ExchangeInv
<1>5. ASSUME NEW i \in 1..Len(stack') PROVE FrameOK(stack[i])'
  <2>1. FrameOK(stack'[i])
    BY <1>4
  <2>2. Once(stack[i])' /\ Finds(stack[i])'
    BY <2>1 DEF FrameOK, Once, Finds
  <2>3. ASSUME NEW p \in stack'[i].stayed PROVE Stays(stack[i], p)'
    BY <2>1, <2>3 DEF FrameOK, Stays, Served
  <2>4. QED
    BY <2>2, <2>3 DEF FrameOK
<1>6. QED
  BY <1>2, <1>3, <1>5 DEF ExchangeInv, TypeOK

\* The running dispatch, if there is one.
LEMMA TopFacts ==
  ASSUME ExchangeInv, stack # <<>>
  PROVE  Top \in Frames /\ FrameOK(Top) /\ Top = stack[1]
<1>1. stack \in Seq(Frames)
  BY DEF ExchangeInv, TypeOK
<1>2. Head(stack) = stack[1] /\ Head(stack) \in Frames /\ Len(stack) \in Nat /\ Len(stack) > 0
  BY <1>1, TailMembers
<1>3. QED
  BY <1>2 DEF ExchangeInv, Top

\* Dispatches go on as they were when subscriptions come, or when some go that
\* are no longer among those that stay.
LEMMA FramesKeep ==
  ASSUME ExchangeInv, NEW gone, UNCHANGED strategy, Len(stack') = Len(stack),
         \A i \in 1..Len(stack) :
           /\ stack'[i].topic = stack[i].topic /\ stack'[i].todo = stack[i].todo
           /\ stack'[i].at = stack[i].at /\ stack'[i].queue = stack[i].queue
           /\ stack'[i].called = stack[i].called /\ stack'[i].err = stack[i].err
           /\ stack'[i].stayed = stack[i].stayed \ gone,
         \A s \in DOMAIN topics, h \in Handler :
           h \in Members(topics[s]) /\ <<s, h>> \notin gone =>
             s \in DOMAIN topics' /\ h \in Members(topics'[s])
  PROVE  (\A i \in 1..Len(stack) : FrameOK(stack[i]))'
<1> SUFFICES ASSUME NEW i \in 1..Len(stack) PROVE FrameOK(stack[i])'
  OBVIOUS
<1>1. FrameOK(stack[i]) /\ stack[i] \in Frames
  BY ElementOfSeq DEF ExchangeInv, TypeOK
<1>2. Once(stack[i])' /\ Finds(stack[i])'
  BY <1>1 DEF FrameOK, Once, Finds
<1>3. ASSUME NEW p \in stack'[i].stayed PROVE Stays(stack[i], p)'
  <2>1. p \in stack[i].stayed /\ p \notin gone /\ Stays(stack[i], p)
    BY <1>1, <1>3 DEF FrameOK
  <2>2. p \in Subscription \X Handler
    BY <1>1, <2>1 DEF Frames, Pairs
  <2>3. p[1] \in DOMAIN topics' /\ p[2] \in Members(topics'[p[1]])
    BY <2>1, <2>2 DEF Stays
  <2>4. QED
    BY <2>1, <2>3 DEF Stays, Served
<1>4. QED
  BY <1>2, <1>3 DEF FrameOK

LEMMA LeaveKeeps ==
  ASSUME ExchangeInv, NEW gone, Leave(gone), UNCHANGED strategy,
         \A s \in DOMAIN topics, h \in Handler :
           h \in Members(topics[s]) /\ <<s, h>> \notin gone =>
             s \in DOMAIN topics' /\ h \in Members(topics'[s])
  PROVE  /\ stack' \in Seq(Frames) /\ Len(stack') <= MaxDepth
         /\ \A i \in 2..Len(stack') : stack'[i].running # None
         /\ (\A i \in 1..Len(stack) : FrameOK(stack[i]))'
<1>1. /\ stack \in Seq(Frames) /\ Len(stack) \in Nat
      /\ \A i \in 1..Len(stack) : stack[i] \in Frames
  BY LenProperties, ElementOfSeq DEF ExchangeInv, TypeOK
<1> DEFINE left(i) == [stack[i] EXCEPT !.stayed = @ \ gone]
<1>2. stack' = [i \in 1..Len(stack) |-> left(i)]
  BY DEF Leave
<1>3. \A i \in 1..Len(stack) :
        /\ left(i) \in Frames
        /\ left(i).stayed = stack[i].stayed \ gone
        /\ left(i).running = stack[i].running
        /\ left(i).topic = stack[i].topic /\ left(i).todo = stack[i].todo
        /\ left(i).at = stack[i].at /\ left(i).queue = stack[i].queue
        /\ left(i).called = stack[i].called /\ left(i).err = stack[i].err
  BY <1>1 DEF Frames
<1> HIDE DEF left
<1>4. stack' \in Seq(Frames) /\ Len(stack') = Len(stack)
  BY <1>1, <1>2, <1>3, IsASeq, LenProperties
<1>5. (\A i \in 1..Len(stack) : FrameOK(stack[i]))'
  BY <1>2, <1>3, <1>4, FramesKeep
<1>6. \A i \in 2..Len(stack') : stack'[i].running # None
  BY <1>1, <1>2, <1>3, <1>4 DEF ExchangeInv, TypeOK
<1>7. QED
  BY <1>4, <1>5, <1>6 DEF ExchangeInv, TypeOK
-----------------------------------------------------------------------------
(* The steps of the application. *)

\* What the other conjuncts of the invariant need, when no dispatch ends.
LEMMA KeepsOutcome ==
  ASSUME ExchangeInv, UNCHANGED <<strategy, outcome>>
  PROVE  /\ DOMAIN outcome' = {"result", "threw", "called", "stayed"}
         /\ outcome'.result \in Results
         /\ strategy' \in Strategies
         /\ TakenMeansCalled'
         /\ Complete => StayersServed'
  BY DEF ExchangeInv, TypeOK, TakenMeansCalled, StayersServed

LEMMA SubscribeKeeps ==
  ASSUME ExchangeInv, NEW s \in Subscription, NEW h \in Handler, Subscribe(s, h)
  PROVE  ExchangeInv'
<1>1. /\ DOMAIN topics \subseteq Subscription /\ calls \in 0..MaxCalls
      /\ \A r \in DOMAIN topics :
           topics[r] \in Seq(Handler) \ {<<>>} /\ Distinct(topics[r])
  BY DEF ExchangeInv, TypeOK
<1>2. UNCHANGED <<strategy, destroyed, stack, outcome>> /\ ~destroyed
      /\ calls' = calls + 1 /\ calls < MaxCalls
  BY DEF Subscribe, AppTurn
<1>3. /\ DOMAIN topics \subseteq DOMAIN topics' /\ DOMAIN topics' \subseteq Subscription
      /\ \A r \in DOMAIN topics' :
           topics'[r] \in Seq(Handler) \ {<<>>} /\ Distinct(topics'[r])
      /\ \A r \in DOMAIN topics : Members(topics[r]) \subseteq Members(topics'[r])
  <2>1. CASE s \in DOMAIN topics
    <3>1. topics' = [topics EXCEPT ![s] = Add(topics[s], h)]
      BY <2>1 DEF Subscribe
    <3>2. /\ Add(topics[s], h) \in Seq(Handler) \ {<<>>} /\ Distinct(Add(topics[s], h))
          /\ Members(topics[s]) \subseteq Members(Add(topics[s], h))
      BY <1>1, <2>1, AddFacts
    <3>3. QED
      BY <1>1, <2>1, <3>1, <3>2
  <2>2. CASE s \notin DOMAIN topics
    <3>1. topics' = [r \in DOMAIN topics \cup {s} |-> IF r = s THEN <<h>> ELSE topics[r]]
      BY <2>2 DEF Subscribe, Put
    <3>2. <<h>> \in Seq(Handler) \ {<<>>} /\ Distinct(<<h>>)
      BY DEF Distinct
    <3>3. QED
      BY <1>1, <2>2, <3>1, <3>2
  <2>3. QED
    BY <2>1, <2>2
<1>4. (\A i \in 1..Len(stack) : FrameOK(stack[i]))'
  <2>1. \A i \in 1..Len(stack) : stack'[i].stayed = stack[i].stayed \ {}
    BY <1>2
  <2>2. QED
    BY <1>2, <1>3, <2>1, FramesKeep
<1>5. TypeOK'
  BY <1>1, <1>2, <1>3, BoundAssumption DEF ExchangeInv, TypeOK
<1>6. QED
  BY <1>2, <1>4, <1>5, KeepsOutcome DEF ExchangeInv

LEMMA UnsubscribeKeeps ==
  ASSUME ExchangeInv, NEW s \in Subscription, NEW h \in Handler, Unsubscribe(s, h)
  PROVE  ExchangeInv'
<1> DEFINE rest == Without(topics[s], h)
<1>1. /\ DOMAIN topics \subseteq Subscription /\ calls \in 0..MaxCalls
      /\ \A r \in DOMAIN topics :
           topics[r] \in Seq(Handler) \ {<<>>} /\ Distinct(topics[r])
      /\ s \in DOMAIN topics
  BY DEF ExchangeInv, TypeOK, Unsubscribe
<1>2. /\ UNCHANGED <<strategy, destroyed, outcome>> /\ Leave({<<s, h>>})
      /\ calls' = calls + 1 /\ calls < MaxCalls
      /\ topics' = IF rest = <<>> THEN [r \in DOMAIN topics \ {s} |-> topics[r]]
                                  ELSE [topics EXCEPT ![s] = rest]
  BY DEF Unsubscribe, AppTurn, Restrict
<1>3. /\ rest \in Seq(Handler) /\ Distinct(rest)
      /\ Members(topics[s]) \ {h} \subseteq Members(rest)
  BY <1>1, WithoutFacts
<1>4. rest = <<>> => Members(topics[s]) \subseteq {h}
  BY <1>3, EmptyMembers
<1> HIDE DEF rest
<1>5. /\ DOMAIN topics' \subseteq Subscription
      /\ \A r \in DOMAIN topics' :
           topics'[r] \in Seq(Handler) \ {<<>>} /\ Distinct(topics'[r])
      /\ topics = <<>> => topics' = <<>>
      /\ \A r \in DOMAIN topics, x \in Handler :
           x \in Members(topics[r]) /\ <<r, x>> \notin {<<s, h>>} =>
             r \in DOMAIN topics' /\ x \in Members(topics'[r])
  <2>1. CASE rest = <<>>
    BY <1>1, <1>2, <1>4, <2>1
  <2>2. CASE rest # <<>>
    BY <1>1, <1>2, <1>3, <2>2
  <2>3. QED
    BY <2>1, <2>2
<1>6. /\ stack' \in Seq(Frames) /\ Len(stack') <= MaxDepth
      /\ \A i \in 2..Len(stack') : stack'[i].running # None
      /\ (\A i \in 1..Len(stack) : FrameOK(stack[i]))'
  BY <1>2, <1>5, LeaveKeeps
<1>7. TypeOK'
  <2>1. calls' \in 0..MaxCalls
    BY <1>1, <1>2, BoundAssumption
  <2>2. destroyed' \in BOOLEAN /\ (destroyed' => topics' = <<>>)
    BY <1>2, <1>5, Zenon DEF ExchangeInv, TypeOK
  <2>3. QED
    BY <1>2, <1>5, <1>6, <2>1, <2>2 DEF ExchangeInv, TypeOK
<1>8. QED
  BY <1>2, <1>6, <1>7, KeepsOutcome DEF ExchangeInv

LEMMA DestroyKeeps ==
  ASSUME ExchangeInv, Destroy
  PROVE  ExchangeInv'
<1>1. /\ topics' = <<>> /\ destroyed' = TRUE /\ Leave(Subscription \X Handler)
      /\ UNCHANGED <<strategy, outcome>> /\ calls' = calls + 1 /\ calls < MaxCalls
  BY DEF Destroy, AppTurn
<1>2. DOMAIN topics \subseteq Subscription /\ calls \in 0..MaxCalls
  BY DEF ExchangeInv, TypeOK
<1>3. /\ stack' \in Seq(Frames) /\ Len(stack') <= MaxDepth
      /\ \A i \in 2..Len(stack') : stack'[i].running # None
      /\ (\A i \in 1..Len(stack) : FrameOK(stack[i]))'
  BY <1>1, <1>2, LeaveKeeps
<1>4. TypeOK'
  <2>1. DOMAIN topics' = {}
    BY <1>1
  <2>2. calls' \in 0..MaxCalls
    BY <1>1, <1>2, BoundAssumption
  <2>3. QED
    BY <1>1, <1>3, <2>1, <2>2 DEF ExchangeInv, TypeOK
<1>5. QED
  BY <1>1, <1>3, <1>4, KeepsOutcome DEF ExchangeInv

LEMMA DispatchKeeps ==
  ASSUME ExchangeInv, NEW t \in Topic, Dispatch(t)
  PROVE  ExchangeInv'
<1> DEFINE matching == {s \in DOMAIN topics : Match[<<s, t>>]}
           frame == Frame(t, matching)
<1>1. /\ DOMAIN topics \subseteq Subscription /\ calls \in 0..MaxCalls
      /\ stack \in Seq(Frames) /\ Len(stack) \in Nat
      /\ (destroyed => topics = <<>>) /\ destroyed \in BOOLEAN
  BY LenProperties DEF ExchangeInv, TypeOK
<1>2. /\ UNCHANGED <<strategy, topics, destroyed>> /\ Len(stack) < MaxDepth
      /\ calls' = calls + 1 /\ calls < MaxCalls
      /\ stack # <<>> => Top.running # None
  BY DEF Dispatch, AppTurn
<1>3. calls' \in 0..MaxCalls
  BY <1>1, <1>2, BoundAssumption
<1>4. /\ frame.topic = t /\ frame.todo = matching /\ frame.at = <<>>
      /\ frame.queue = <<>> /\ frame.called = <<>> /\ frame.err = FALSE
      /\ frame.running = None
      /\ frame.stayed = {p \in Subscription \X Handler :
                           /\ p[1] \in DOMAIN topics /\ Documented[<<p[1], t>>]
                           /\ p[2] \in Members(topics[p[1]])}
  BY DEF Frame
<1>5. ASSUME UNCHANGED stack, topics = <<>> \/ matching = {},
             NEW result \in {"throws", "false"}, Ends(frame, result)
      PROVE  ExchangeInv'
  <2>1. /\ outcome'.called = <<>> /\ outcome'.stayed = frame.stayed
        /\ outcome'.result \in {"throws", "false"}
        /\ DOMAIN outcome' = {"result", "threw", "called", "stayed"}
    BY <1>4, <1>5 DEF Ends
  <2>2. DOMAIN topics = {} \/ matching = {}
    BY <1>1, <1>5
  <2>3. Complete => frame.stayed = {}
    BY <1>1, <1>4, <2>2 DEF Complete
  <2>4. (\A i \in 1..Len(stack) : FrameOK(stack[i]))'
    BY <1>2, <1>5 DEF ExchangeInv, FrameOK, Once, Finds, Stays, Served
  <2>5. TypeOK'
    BY <1>1, <1>2, <1>3, <1>5, <2>1 DEF ExchangeInv, TypeOK, Results
  <2>6. TakenMeansCalled' /\ (Complete => StayersServed')
    BY <2>1, <2>3 DEF TakenMeansCalled, StayersServed
  <2>7. QED
    BY <2>4, <2>5, <2>6 DEF ExchangeInv
<1>6. CASE matching # {} /\ stack' = <<frame>> \o stack /\ UNCHANGED outcome
  <2>1. frame \in Frames
    BY <1>1, EmptySeq DEF Frame, Frames, Pairs
  <2>2. FrameOK(frame)
    BY <1>4, <1>6, EmptyMembers DEF FrameOK, Once, Finds, Stays
  <2> HIDE DEF frame
  <2>3. /\ stack' \in Seq(Frames) /\ Len(stack') = Len(stack) + 1 /\ stack'[1] = frame
        /\ \A i \in 2..Len(stack') : stack'[i] = stack[i - 1]
    BY <1>1, <1>6, <2>1, EnterFacts
  <2>4. ASSUME NEW i \in 2..Len(stack') PROVE i - 1 \in 1..Len(stack) /\ stack # <<>>
    BY <1>1, <2>3
  <2>5. ASSUME NEW i \in 2..Len(stack') PROVE stack'[i].running # None
    <3>1. CASE i = 2
      BY <1>2, <2>3, <2>4, <2>5, <3>1, TopFacts
    <3>2. CASE i # 2
      BY <1>1, <2>3, <2>4, <2>5, <3>2 DEF ExchangeInv, TypeOK
    <3>3. QED
      BY <3>1, <3>2
  <2>6. ASSUME NEW i \in 1..Len(stack') PROVE FrameOK(stack[i])'
    <3>1. FrameOK(stack'[i])
      BY <1>1, <2>2, <2>3, <2>4 DEF ExchangeInv
    <3>2. Once(stack[i])' /\ Finds(stack[i])'
      BY <3>1 DEF FrameOK, Once, Finds
    <3>3. ASSUME NEW p \in stack'[i].stayed PROVE Stays(stack[i], p)'
      BY <1>2, <3>1, <3>3 DEF FrameOK, Stays, Served
    <3>4. QED
      BY <3>2, <3>3 DEF FrameOK
  <2>7. TypeOK'
    <3>1. Len(stack') <= MaxDepth
      BY <1>1, <1>2, <2>3, BoundAssumption
    <3>2. destroyed' \in BOOLEAN /\ (destroyed' => topics' = <<>>)
      BY <1>1, <1>2, Zenon
    <3>3. QED
      BY <1>2, <1>3, <1>6, <2>3, <2>5, <3>1, <3>2 DEF ExchangeInv, TypeOK
  <2>8. QED
    BY <1>2, <1>6, <2>6, <2>7, KeepsOutcome DEF ExchangeInv
<1>7. \/ destroyed /\ Ends(frame, "throws") /\ UNCHANGED stack
      \/ matching = {} /\ Ends(frame, "false") /\ UNCHANGED stack
      \/ matching # {} /\ stack' = <<frame>> \o stack /\ UNCHANGED outcome
  BY Zenon DEF Dispatch
<1>8. \/ /\ UNCHANGED stack /\ (topics = <<>> \/ matching = {})
         /\ Ends(frame, "throws") \/ Ends(frame, "false")
      \/ matching # {} /\ stack' = <<frame>> \o stack /\ UNCHANGED outcome
  BY <1>1, <1>7, Zenon
<1> HIDE DEF frame, matching
<1>9. QED
  BY <1>5, <1>6, <1>8
-----------------------------------------------------------------------------
(* The steps of a dispatch. *)

\* A step within the running dispatch keeps the invariant when the frame does.
LEMMA StepKeeps ==
  ASSUME ExchangeInv, stack # <<>>, UNCHANGED <<strategy, topics, destroyed, calls, outcome>>,
         NEW f \in Frames, FrameOK(f), Goto(f)
  PROVE  ExchangeInv'
<1>1. /\ stack' \in Seq(Frames) /\ Len(stack') <= MaxDepth
      /\ \A i \in 2..Len(stack') : stack'[i].running # None
      /\ (\A i \in 1..Len(stack) : FrameOK(stack[i]))'
  BY GotoKeeps DEF Goto
<1>2. TypeOK'
  BY <1>1 DEF ExchangeInv, TypeOK
<1>3. QED
  BY <1>1, <1>2, KeepsOutcome DEF ExchangeInv

LEMMA VisitKeeps ==
  ASSUME ExchangeInv, Visit
  PROVE  ExchangeInv'
<1>1. stack # <<>> /\ Top \in Frames /\ FrameOK(Top) /\ Top.queue = <<>>
  BY TopFacts DEF Visit, Between
<1>2. PICK s \in Top.todo \cap DOMAIN topics :
        \E queue \in IF strategy = "unicast" THEN {<<h>> : h \in Members(topics[s])}
                                             ELSE {topics[s]} :
          Goto([Top EXCEPT !.todo = @ \ {s}, !.at = s, !.queue = queue])
  BY DEF Visit
<1>3. PICK queue \in IF strategy = "unicast" THEN {<<h>> : h \in Members(topics[s])}
                                            ELSE {topics[s]} :
        Goto([Top EXCEPT !.todo = @ \ {s}, !.at = s, !.queue = queue])
  BY <1>2
<1> DEFINE f == [Top EXCEPT !.todo = @ \ {s}, !.at = s, !.queue = queue]
<1>4. /\ topics[s] \in Seq(Handler) \ {<<>>} /\ Distinct(topics[s])
      /\ DOMAIN topics \subseteq Subscription
      /\ \A h \in Members(topics[s]) : h \in Handler
  BY <1>2, ElementOfSeq DEF ExchangeInv, TypeOK, Members
<1>5. /\ queue \in Seq(Handler) /\ queue # <<>> /\ Distinct(queue)
      /\ strategy = "broadcast" => queue = topics[s]
  <2>1. CASE strategy = "unicast"
    <3>1. PICK h \in Handler : queue = <<h>>
      BY <1>3, <1>4, <2>1
    <3>2. QED
      BY <2>1, <3>1 DEF Distinct
  <2>2. CASE strategy # "unicast"
    BY <1>3, <1>4, <2>2
  <2>3. QED
    BY <2>1, <2>2
<1>6. /\ f \in Frames
      /\ f.topic = Top.topic /\ f.todo = Top.todo \ {s} /\ f.at = s /\ f.queue = queue
      /\ f.called = Top.called /\ f.err = Top.err /\ f.stayed = Top.stayed
  BY <1>1, <1>2, <1>4, <1>5 DEF Frames
<1> HIDE DEF f
<1>7. Once(f) /\ Finds(f)
  BY <1>1, <1>2, <1>4, <1>5, <1>6 DEF FrameOK, Once, Finds
<1>8. ASSUME NEW p \in f.stayed PROVE Stays(f, p)
  <2>1. Stays(Top, p)
    BY <1>1, <1>6, <1>8 DEF FrameOK
  <2>2. QED
    BY <1>1, <1>5, <1>6, <2>1 DEF Stays
<1>9. Goto(f) /\ FrameOK(f)
  BY <1>3, <1>7, <1>8 DEF FrameOK, f
<1>10. QED
  BY <1>1, <1>6, <1>9, StepKeeps DEF Visit

LEMMA VisitVanishedKeeps ==
  ASSUME ExchangeInv, VisitVanished
  PROVE  ExchangeInv'
<1>1. stack # <<>> /\ Top \in Frames /\ FrameOK(Top)
  BY TopFacts DEF VisitVanished, Between
<1>2. PICK s \in Top.todo \ DOMAIN topics :
        Goto([Top EXCEPT !.todo = @ \ {s}, !.err = TRUE])
  BY DEF VisitVanished
<1> DEFINE f == [Top EXCEPT !.todo = @ \ {s}, !.err = TRUE]
<1>3. /\ f \in Frames
      /\ f.topic = Top.topic /\ f.todo = Top.todo \ {s} /\ f.at = Top.at
      /\ f.queue = Top.queue /\ f.called = Top.called /\ f.err
      /\ f.stayed = Top.stayed
  BY <1>1 DEF Frames
<1> HIDE DEF f
<1>4. Once(f) /\ Finds(f)
  BY <1>1, <1>3 DEF FrameOK, Once, Finds
<1>5. ASSUME NEW p \in f.stayed PROVE Stays(f, p)
  <2>1. Stays(Top, p)
    BY <1>1, <1>3, <1>5 DEF FrameOK
  <2>2. p[1] # s
    BY <1>2, <2>1 DEF Stays
  <2>3. QED
    BY <1>3, <2>1, <2>2 DEF Stays
<1>6. Goto(f) /\ FrameOK(f)
  BY <1>2, <1>4, <1>5 DEF FrameOK, f
<1>7. QED
  BY <1>1, <1>3, <1>6, StepKeeps DEF VisitVanished

LEMMA CallHandlerKeeps ==
  ASSUME ExchangeInv, CallHandler
  PROVE  ExchangeInv'
<1>1. stack # <<>> /\ Top \in Frames /\ FrameOK(Top) /\ Top.queue # <<>>
  BY TopFacts DEF CallHandler, Between
<1> DEFINE h == Head(Top.queue)
           call == <<Top.at, h>>
           f == [Top EXCEPT !.queue = Tail(@), !.running = h,
                            !.called = Append(@, call)]
<1>2. /\ Top.queue \in Seq(Handler) /\ Top.called \in Seq(Pairs)
      /\ Top.at \in Subscription
  BY <1>1 DEF Frames, FrameOK, Once
<1>3. /\ h \in Handler /\ h \in Members(Top.queue) /\ Tail(Top.queue) \in Seq(Handler)
      /\ Members(Top.queue) = Members(Tail(Top.queue)) \cup {h}
      /\ Distinct(Tail(Top.queue)) /\ h \notin Members(Tail(Top.queue))
  BY <1>1, <1>2, TailMembers, TailDistinct DEF FrameOK, Once
<1>4. call \in Pairs /\ call[1] = Top.at /\ call[2] = h
  BY <1>2, <1>3 DEF Pairs
<1>5. call \notin Members(Top.called)
  BY <1>1, <1>3, <1>4 DEF FrameOK, Once
<1> HIDE DEF h, call
<1>6. /\ Append(Top.called, call) \in Seq(Pairs)
      /\ Append(Top.called, call) # <<>> /\ Distinct(Append(Top.called, call))
      /\ Members(Append(Top.called, call)) = Members(Top.called) \cup {call}
      /\ Len(Append(Top.called, call)) = Len(Top.called) + 1
      /\ \A i \in 1..Len(Top.called) : Append(Top.called, call)[i] = Top.called[i]
      /\ Append(Top.called, call)[Len(Top.called) + 1] = call
      /\ Len(Top.called) \in Nat
  BY <1>1, <1>2, <1>4, <1>5, AppendMembers, LenProperties DEF FrameOK, Once
<1>7. /\ f \in Frames
      /\ f.topic = Top.topic /\ f.todo = Top.todo /\ f.at = Top.at
      /\ f.queue = Tail(Top.queue) /\ f.called = Append(Top.called, call)
      /\ f.err = Top.err /\ f.stayed = Top.stayed
  BY <1>1, <1>3, <1>6 DEF Frames
<1> HIDE DEF f
<1>8. Once(f)
  BY <1>1, <1>2, <1>3, <1>4, <1>6, <1>7 DEF FrameOK, Once
<1>9. ASSUME NEW p \in f.stayed PROVE Stays(f, p)
  <2>1. Stays(Top, p)
    BY <1>1, <1>7, <1>9 DEF FrameOK
  <2>2. CASE Top.at = p[1] /\ (strategy = "broadcast" => p[2] = h)
    <3>1. Len(Top.called) + 1 \in 1..Len(f.called)
      BY <1>6, <1>7
    <3>2. Served(p, f.called)
      BY <1>4, <1>6, <1>7, <2>2, <3>1 DEF Served
    <3>3. QED
      BY <1>7, <2>1, <3>2 DEF Stays
  <2>3. CASE strategy = "broadcast" /\ Top.at = p[1] /\ p[2] # h
             /\ p[2] \in Members(Top.queue)
    <3>1. p[2] \in Members(f.queue) /\ f.queue # <<>>
      BY <1>3, <1>7, <2>3, EmptyMembers
    <3>2. QED
      BY <1>7, <2>1, <2>3, <3>1 DEF Stays
  <2>4. CASE Served(p, Top.called)
    <3>1. Served(p, f.called)
      BY <1>6, <1>7, <2>4 DEF Served
    <3>2. QED
      BY <1>7, <2>1, <3>1 DEF Stays
  <2>5. QED
    BY <1>7, <2>1, <2>2, <2>3, <2>4 DEF Stays
<1>10. Goto(f) /\ FrameOK(f)
  BY <1>6, <1>7, <1>8, <1>9 DEF CallHandler, FrameOK, Finds, f, h, call
<1>11. QED
  BY <1>1, <1>7, <1>10, StepKeeps DEF CallHandler

LEMMA HandlerEndsKeeps ==
  ASSUME ExchangeInv, HandlerEnds
  PROVE  ExchangeInv'
<1>1. stack # <<>> /\ Top \in Frames /\ FrameOK(Top)
  BY TopFacts DEF HandlerEnds
<1>2. PICK ok \in BOOLEAN :
        Goto([Top EXCEPT !.running = None, !.err = @ \/ ~ok, !.threw = @ \/ ~ok])
  BY DEF HandlerEnds
<1> DEFINE f == [Top EXCEPT !.running = None, !.err = @ \/ ~ok, !.threw = @ \/ ~ok]
<1>3. /\ f \in Frames
      /\ f.topic = Top.topic /\ f.todo = Top.todo /\ f.at = Top.at
      /\ f.queue = Top.queue /\ f.called = Top.called /\ (Top.err => f.err)
      /\ f.stayed = Top.stayed
  BY <1>1 DEF Frames
<1> HIDE DEF f
<1>4. Once(f) /\ Finds(f)
  BY <1>1, <1>3 DEF FrameOK, Once, Finds
<1>5. ASSUME NEW p \in f.stayed PROVE Stays(f, p)
  BY <1>1, <1>3, <1>5 DEF FrameOK, Stays
<1>6. Goto(f) /\ FrameOK(f)
  BY <1>2, <1>4, <1>5 DEF FrameOK, f
<1>7. QED
  BY <1>1, <1>3, <1>6, StepKeeps DEF HandlerEnds

LEMMA DispatchEndsKeeps ==
  ASSUME ExchangeInv, DispatchEnds
  PROVE  ExchangeInv'
<1>1. /\ stack # <<>> /\ Top \in Frames /\ FrameOK(Top)
      /\ Top.queue = <<>> /\ Top.todo = {}
      /\ UNCHANGED <<strategy, topics, destroyed, calls>> /\ stack' = Tail(stack)
  BY TopFacts DEF DispatchEnds, Between
<1>2. /\ DOMAIN outcome' = {"result", "threw", "called", "stayed"}
      /\ outcome'.result = IF Top.err THEN "throws" ELSE "true"
      /\ outcome'.called = Top.called /\ outcome'.stayed = Top.stayed
  BY DEF DispatchEnds, Ends
<1>3. stack \in Seq(Frames)
  BY DEF ExchangeInv, TypeOK
<1>4. /\ stack' \in Seq(Frames) /\ Len(stack') = Len(stack) - 1 /\ Len(stack) \in Nat
      /\ \A i \in 1..Len(stack') : stack'[i] = stack[i + 1]
  BY <1>1, <1>3, TailMembers
<1>5. ASSUME NEW i \in 1..Len(stack') PROVE FrameOK(stack[i])'
  <2>1. FrameOK(stack'[i])
    BY <1>4 DEF ExchangeInv
  <2>2. Once(stack[i])' /\ Finds(stack[i])'
    BY <2>1 DEF FrameOK, Once, Finds
  <2>3. ASSUME NEW p \in stack'[i].stayed PROVE Stays(stack[i], p)'
    BY <1>1, <2>1, <2>3 DEF FrameOK, Stays, Served
  <2>4. QED
    BY <2>2, <2>3 DEF FrameOK
<1>6. \A i \in 2..Len(stack') : stack'[i].running # None
  BY <1>4 DEF ExchangeInv, TypeOK
<1>7. Len(stack') <= MaxDepth
  BY <1>4, BoundAssumption DEF ExchangeInv, TypeOK
<1>8. TypeOK'
  BY <1>1, <1>2, <1>4, <1>6, <1>7 DEF ExchangeInv, TypeOK, Results
<1>9. TakenMeansCalled'
  BY <1>1, <1>2 DEF TakenMeansCalled, FrameOK, Finds
<1>10. ASSUME Complete, NEW p \in Top.stayed PROVE Served(p, Top.called)
  <2>1. p \in Subscription \X Handler /\ Top.topic \in Topic /\ Stays(Top, p)
    BY <1>1, <1>10 DEF Frames, Pairs, FrameOK
  <2>2. QED
    BY <1>1, <1>10, <2>1 DEF Stays, Complete
<1>11. Complete => StayersServed'
  BY <1>1, <1>2, <1>10 DEF StayersServed, Served
<1>12. QED
  BY <1>5, <1>8, <1>9, <1>11 DEF ExchangeInv
-----------------------------------------------------------------------------
LEMMA InitKeeps ==
  ASSUME Init
  PROVE  ExchangeInv
<1>1. /\ strategy \in Strategies /\ topics \in Initial /\ destroyed = FALSE
      /\ stack = <<>> /\ calls = 0
      /\ outcome = [result |-> "none", threw |-> FALSE, called |-> <<>>, stayed |-> {}]
  BY DEF Init
<1>2. TypeOK
  <2>1. calls \in 0..MaxCalls
    BY <1>1, BoundAssumption
  <2>2. /\ DOMAIN topics \subseteq Subscription
        /\ \A s \in DOMAIN topics :
             topics[s] \in Seq(Handler) \ {<<>>} /\ Distinct(topics[s])
    BY <1>1, InitialAssumption
  <2>3. stack \in Seq(Frames) /\ Len(stack) = 0 /\ Len(stack) <= MaxDepth
    BY <1>1, EmptySeq, BoundAssumption
  <2>4. destroyed \in BOOLEAN /\ (destroyed => topics = <<>>)
    BY <1>1
  <2>5. DOMAIN outcome = {"result", "threw", "called", "stayed"} /\ outcome.result \in Results
    BY <1>1 DEF Results
  <2>6. \A i \in 2..Len(stack) : stack[i].running # None
    BY <2>3
  <2>7. QED
    BY <1>1, <2>1, <2>2, <2>3, <2>4, <2>5, <2>6 DEF TypeOK
<1>3. TakenMeansCalled /\ StayersServed
  BY <1>1 DEF TakenMeansCalled, StayersServed
<1>4. \A i \in 1..Len(stack) : FrameOK(stack[i])
  BY <1>1
<1>5. QED
  BY <1>2, <1>3, <1>4 DEF ExchangeInv

LEMMA NextKeeps ==
  ASSUME ExchangeInv, [Next]_vars
  PROVE  ExchangeInv'
<1>1. CASE UNCHANGED vars
  <2>1. UNCHANGED <<strategy, topics, destroyed, stack, calls, outcome>>
    BY <1>1 DEF vars
  <2>2. \A i \in 1..Len(stack) : FrameOK(stack[i])
    BY DEF ExchangeInv
  <2>3. (\A i \in 1..Len(stack) : FrameOK(stack[i]))'
    BY <2>1, <2>2 DEF FrameOK, Once, Finds, Stays, Served
  <2>4. QED
    BY <2>1, <2>3 DEF ExchangeInv, TypeOK, TakenMeansCalled, StayersServed
<1>2. CASE \E p \in Mutable : Subscribe(p[1], p[2]) \/ Unsubscribe(p[1], p[2])
  <2>1. PICK p \in Mutable : Subscribe(p[1], p[2]) \/ Unsubscribe(p[1], p[2])
    BY <1>2
  <2>2. p[1] \in Subscription /\ p[2] \in Handler
    BY InitialAssumption
  <2>3. QED
    BY <2>1, <2>2, SubscribeKeeps, UnsubscribeKeeps
<1>3. CASE Machine
  BY <1>3, VisitKeeps, VisitVanishedKeeps, CallHandlerKeeps, HandlerEndsKeeps,
     DispatchEndsKeeps DEF Machine
<1>4. QED
  BY <1>1, <1>2, <1>3, DestroyKeeps, DispatchKeeps DEF Next, App

\* The invariant is inductive.
THEOREM ExchangeInvariant == Spec => []ExchangeInv
  BY InitKeeps, NextKeeps, PTL DEF Spec

\* The state of an exchange dispatcher keeps its shape: every topic there is has
\* handlers, each of them once, and dispatches nest properly (exchange.js:37-62).
THEOREM ExchangeTyped == Spec => []TypeOK
<1>1. ExchangeInv => TypeOK
  BY DEF ExchangeInv
<1>2. QED
  BY <1>1, ExchangeInvariant, PTL

\* Whatever the matcher and whatever handlers do meanwhile, a dispatch that
\* reports the message as taken has called a handler (exchange.js:93-110).
THEOREM TakenByHandler == Spec => []TakenMeansCalled
<1>1. ExchangeInv => TakenMeansCalled
  BY DEF ExchangeInv
<1>2. QED
  BY <1>1, ExchangeInvariant, PTL

\* With a matcher that takes only what the documentation says, no dispatch calls
\* a handler for a topic that is not its own; and none is called twice for one
\* subscription, however dispatches nest and subscriptions change
\* (exchange.js:89-104).
THEOREM CalledOnceAsSubscribed ==
  ASSUME Sound
  PROVE  Spec => []CalledAsSubscribed
<1>1. ASSUME ExchangeInv PROVE CalledAsSubscribed
  <2> SUFFICES ASSUME NEW i \in 1..Len(stack)
               PROVE  /\ Distinct(stack[i].called)
                      /\ \A p \in Members(stack[i].called) :
                           Documented[<<p[1], stack[i].topic>>]
    BY DEF CalledAsSubscribed
  <2>1. stack[i] \in Frames /\ Once(stack[i])
    BY <1>1, ElementOfSeq DEF ExchangeInv, TypeOK, FrameOK
  <2>2. ASSUME NEW p \in Members(stack[i].called)
        PROVE  p[1] \in Subscription /\ stack[i].topic \in Topic
    BY <2>1, ElementOfSeq DEF Frames, Members, Pairs
  <2>3. QED
    BY <2>1, <2>2 DEF Once, Sound
<1>2. QED
  BY <1>1, ExchangeInvariant, PTL

\* With a matcher that misses nothing the documentation says, who stays
\* subscribed during a dispatch is served by it, whatever other handlers throw,
\* subscribe, unsubscribe or send (exchange.js:84-110).
THEOREM WhoStaysIsServed ==
  ASSUME Complete
  PROVE  Spec => []StayersServed
<1>1. ExchangeInv => StayersServed
  BY DEF ExchangeInv
<1>2. QED
  BY <1>1, ExchangeInvariant, PTL
=============================================================================
