-------------------------- MODULE RequestFlowProofs --------------------------
(***************************************************************************)
(* Proofs about RequestFlow, for every wiring of endpoints, any number of  *)
(* calls and every choice of balancer, whatever endpoints throw and        *)
(* services answer.                                                        *)
(***************************************************************************)
EXTENDS RequestFlow, HandlerListProofs, FiniteSetTheorems

-----------------------------------------------------------------------------
(* The order of a bucket.  It is total, so that each position has its part, *)
(* also when two parts carry one number.                                    *)

Behind(bucket, i, j) ==
  \/ bucket[j].seq < bucket[i].seq
  \/ bucket[j].seq = bucket[i].seq /\ j < i

LEMMA PositionFacts ==
  ASSUME NEW n \in Nat, NEW b, DOMAIN b = 1..n, \A i \in 1..n : b[i].seq \in Nat
  PROVE  /\ \A i \in 1..n : Position(b, i) \in 1..n
         /\ \A i, j \in 1..n : Behind(b, j, i) => Position(b, i) < Position(b, j)
<1> DEFINE Lower(i) == {j \in 1..n : Behind(b, i, j)}
<1>1. \A i \in 1..n : Position(b, i) = 1 + Cardinality(Lower(i))
  BY Zenon DEF Position, Behind
<1>2. IsFiniteSet(1..n) /\ Cardinality(1..n) = n
  BY FS_Interval
<1>3. \A i \in 1..n : ~Behind(b, i, i)
  BY DEF Behind
<1>4. \A i \in 1..n, j \in 1..n, k \in 1..n : Behind(b, j, i) /\ Behind(b, i, k) => Behind(b, j, k)
  BY DEF Behind
<1> HIDE DEF Lower
<1>5. \A i \in 1..n : Lower(i) \subseteq 1..n /\ i \notin Lower(i)
  BY <1>3 DEF Lower
<1>6. \A i \in 1..n : IsFiniteSet(Lower(i)) /\ Cardinality(Lower(i)) \in Nat
                      /\ Cardinality(Lower(i)) <= n /\ Cardinality(Lower(i)) # n
  <2> SUFFICES ASSUME NEW i \in 1..n
               PROVE  IsFiniteSet(Lower(i)) /\ Cardinality(Lower(i)) \in Nat
                      /\ Cardinality(Lower(i)) <= n /\ Cardinality(Lower(i)) # n
    OBVIOUS
  <2>1. Lower(i) \in SUBSET (1..n) /\ Lower(i) # 1..n
    BY <1>5
  <2>2. IsFiniteSet(Lower(i)) /\ Cardinality(Lower(i)) <= n /\ Cardinality(Lower(i)) # n
    BY <1>2, <2>1, FS_Subset
  <2> QED BY <2>2, FS_CardinalityType
<1>7. ASSUME NEW i \in 1..n, NEW j \in 1..n, Behind(b, j, i)
      PROVE  Cardinality(Lower(i)) < Cardinality(Lower(j))
  <2>1. Lower(i) \subseteq Lower(j) /\ i \in Lower(j) /\ i \notin Lower(i)
    BY <1>3, <1>4, <1>7 DEF Lower
  <2>2. Lower(i) \in SUBSET Lower(j) /\ Lower(i) # Lower(j)
    BY <2>1
  <2>3. Cardinality(Lower(i)) <= Cardinality(Lower(j))
        /\ Cardinality(Lower(i)) # Cardinality(Lower(j))
    BY <1>6, <2>2, FS_Subset
  <2> QED BY <1>6, <2>3
<1> QED BY <1>1, <1>6, <1>7

LEMMA PositionsAreTaken ==
  ASSUME NEW n \in Nat, NEW b, DOMAIN b = 1..n, \A i \in 1..n : b[i].seq \in Nat,
         NEW k \in 1..n
  PROVE  \E i \in 1..n : Position(b, i) = k
<1> DEFINE f == [i \in 1..n |-> Position(b, i)]
<1>1. \A i, j \in 1..n : i # j => Behind(b, i, j) \/ Behind(b, j, i)
  BY DEF Behind
<1>2. \A i, j \in 1..n : Position(b, i) = Position(b, j) => i = j
  <2>1. \A i \in 1..n : Position(b, i) \in 1..n
    BY PositionFacts
  <2>2. \A i, j \in 1..n : Behind(b, j, i) => Position(b, i) < Position(b, j)
    BY PositionFacts
  <2> QED BY <1>1, <2>1, <2>2
<1>3. f \in [1..n -> 1..n]
  BY PositionFacts
<1>4. f \in Injection(1..n, 1..n)
  BY <1>2, <1>3 DEF Injection, IsInjective
<1>5. IsFiniteSet(1..n)
  BY FS_Interval
<1>6. f \in Surjection(1..n, 1..n)
  BY <1>4, <1>5, FS_Injection
<1>7. \E i \in 1..n : f[i] = k
  BY <1>6 DEF Surjection
<1> QED BY <1>7

\* Sorting a bucket keeps its parts.
LEMMA InOrderFacts ==
  ASSUME NEW S, \A m \in S : m.seq \in Nat, NEW b \in Seq(S)
  PROVE  /\ InOrder(b) \in Seq(S) /\ Len(InOrder(b)) = Len(b)
         /\ \A k \in 1..Len(b) : \E i \in 1..Len(b) :
              Position(b, i) = k /\ InOrder(b)[k] = b[i]
<1> DEFINE n == Len(b)
           At(k) == CHOOSE i \in DOMAIN b : Position(b, i) = k
<1>1. n \in Nat /\ DOMAIN b = 1..n /\ \A i \in 1..n : b[i] \in S /\ b[i].seq \in Nat
  OBVIOUS
<1>2. InOrder(b) = [k \in DOMAIN b |-> b[At(k)]]
  BY Zenon DEF InOrder
<1> HIDE DEF n
<1>3. \A k \in 1..n : At(k) \in 1..n /\ Position(b, At(k)) = k
  <2>1. ASSUME NEW k \in 1..n PROVE \E i \in DOMAIN b : Position(b, i) = k
    <3> HIDE DEF At
    <3>1. n \in Nat /\ DOMAIN b = 1..n /\ \A i \in 1..n : b[i].seq \in Nat
      BY <1>1
    <3>2. \E i \in 1..n : Position(b, i) = k
      BY <3>1, PositionsAreTaken
    <3> QED BY <3>1, <3>2, Zenon
  <2>2. \A k \in 1..n : At(k) \in DOMAIN b /\ Position(b, At(k)) = k
    BY <2>1, Zenon
  <2> QED BY <1>1, <2>2
<1> HIDE DEF At
<1>4. InOrder(b) \in [1..n -> S]
  BY <1>1, <1>2, <1>3
<1>5. InOrder(b) \in Seq(S) /\ Len(InOrder(b)) = n
  BY <1>1, <1>4
<1> QED BY <1>2, <1>3, <1>5 DEF n
-----------------------------------------------------------------------------
(* Types.  A message with a correlation is a part of its call, and its      *)
(* number is below the size.                                                *)

GoodMessages == {m \in Messages : m.corr # None => m.corr = m.call /\ m.seq < m.size}
Sends == [to : Targets, msg : GoodMessages]
Tasks == [service : Endpoint, msg : GoodMessages, reply : Targets, error : Targets]

SubscriptionsOK ==
  /\ strategy \in Strategies /\ changes \in 0..MaxChanges
  /\ DOMAIN handlers = Channel
  /\ \A c \in Channel : handlers[c] \in Seq(Endpoint) /\ Distinct(handlers[c])
BalancingOK ==
  last \in [Channel -> Endpoint \cup {None}] /\ turns \in [Channel -> Seq(Endpoint)]
WorkOK == work \in Seq(Sends) /\ tasks \subseteq Tasks
BucketsOK ==
  /\ DOMAIN buckets = Endpoint \X Call
  /\ \A b \in Endpoint \X Call :
       /\ buckets[b] \in Seq(GoodMessages)
       /\ \A m \in Range(buckets[b]) : m.corr = b[2]
GatewayOK ==
  promise \in [Call -> {"idle", "pending", "resolved", "rejected"}] /\ DOMAIN value = Call
HistoryOK == failed \subseteq Call /\ lost \subseteq Call \X Ways

TypeInv ==
  SubscriptionsOK /\ BalancingOK /\ WorkOK /\ BucketsOK /\ GatewayOK /\ HistoryOK

LEMMA WiringFacts ==
  /\ \A e \in Endpoint : {Output[e], Errors[e], Discard[e]} \subseteq Channel \cup {None}
  /\ \A e \in Endpoint : Kind[e] \in Kinds
  /\ \A e \in Endpoint : \A list \in Routes[e] : list \in Seq(Channel \cup {None})
  /\ \A e \in Endpoint : Kind[e] \in {"splitter", "aggregator"} => Output[e] # None
  /\ Entry \subseteq Channel /\ Faulty \subseteq Endpoint
<1>1. Output \in [Endpoint -> Channel \cup {None}] /\ Errors \in [Endpoint -> Channel \cup {None}]
      /\ Discard \in [Endpoint -> Channel \cup {None}]
  BY WiringAssumption
<1> QED BY <1>1, WiringAssumption

LEMMA TargetFacts ==
  /\ Channel \subseteq Targets /\ None \in Targets
  /\ \A c \in Call : ReplyTo(c) \in Targets /\ ErrorTo(c) \in Targets
  /\ \A e \in Endpoint, c \in Call : Forget(e, c) \in Targets
  /\ \A e \in Endpoint : \A k \in 0..Len(Stages[e]) : After(e, k) \in Targets
<1>1. \A e \in Endpoint : \A k \in 0..Len(Stages[e]) : After(e, k) \in Afters
  BY DEF Afters
<1>2. \A e \in Endpoint, c \in Call : Forget(e, c) \in {Forget(d, b) : d \in Endpoint, b \in Call}
  OBVIOUS
<1> QED BY <1>1, <1>2 DEF Targets

LEMMA StageFacts ==
  ASSUME NEW e \in Endpoint
  PROVE  Len(Stages[e]) \in Nat /\ \A k \in 1..Len(Stages[e]) : Stages[e][k] \in Endpoint
<1>1. Stages[e] \in Seq({s \in Endpoint : Kind[s] # "chain"})
  BY StagesAssumption
<1> QED BY <1>1

\* What the parts of a split and the message made of a bucket are.
LEMMA PartFacts ==
  ASSUME NEW m \in GoodMessages, NEW n \in Nat, NEW k \in 1..n, NEW keep \in BOOLEAN
  PROVE  /\ Part(m, k, n, keep) \in GoodMessages
         /\ Part(m, k, n, keep).call = m.call /\ Part(m, k, n, keep).corr = m.call
         /\ Part(m, k, n, keep).seq = k - 1 /\ Part(m, k, n, keep).size = n
         /\ Part(m, k, n, keep).body = m.body
         /\ Part(m, k, n, keep).reply \in {m.reply, None}
         /\ Part(m, k, n, keep).error \in {m.error, None}
<1>1. m \in Messages
  BY DEF GoodMessages
<1> DEFINE p == [call |-> m.call, reply |-> IF keep THEN m.reply ELSE None,
                 error |-> IF keep THEN m.error ELSE None, corr |-> m.call,
                 seq |-> k - 1, size |-> n, body |-> m.body]
<1>2. Part(m, k, n, keep) = p
  <2>1. m = [call |-> m.call, reply |-> m.reply, error |-> m.error, corr |-> m.corr,
             seq |-> m.seq, size |-> m.size, body |-> m.body]
    BY <1>1 DEF Messages
  <2>2. CASE keep
    <3>1. Part(m, k, n, keep) = [m EXCEPT !.reply = m.reply, !.error = m.error,
                                          !.corr = m.call, !.seq = k - 1, !.size = n]
      BY <2>1, <2>2 DEF Part
    <3> QED BY <2>1, <2>2, <3>1
  <2>3. CASE ~keep
    <3>1. Part(m, k, n, keep) = [m EXCEPT !.reply = None, !.error = None,
                                          !.corr = m.call, !.seq = k - 1, !.size = n]
      BY <2>1, <2>3 DEF Part
    <3> QED BY <2>1, <2>3, <3>1
  <2> QED BY <2>2, <2>3
<1>3. m.call \in Call /\ m.reply \in Targets /\ m.error \in Targets
      /\ m.body \in Seq([part : Call \X Nat, reply : Targets]) /\ k - 1 \in Nat /\ k - 1 < n
  BY <1>1 DEF Messages
<1>4. p \in Messages
  BY <1>3, TargetFacts DEF Messages
<1> QED BY <1>2, <1>3, <1>4 DEF GoodMessages

LEMMA AggregateFacts ==
  ASSUME NEW b \in Seq(GoodMessages), b # <<>>
  PROVE  /\ Aggregate(b) \in GoodMessages
         /\ Aggregate(b).call = b[1].call /\ Aggregate(b).corr = None
         /\ Aggregate(b).reply = None /\ Aggregate(b).error = None
         /\ Aggregate(b).body = [i \in DOMAIN b |-> [part |-> <<b[i].call, b[i].seq>>,
                                                     reply |-> b[i].reply]]
<1>1. Len(b) \in Nat \ {0} /\ DOMAIN b = 1..Len(b) /\ \A i \in 1..Len(b) : b[i] \in GoodMessages
  OBVIOUS
<1>2. \A i \in 1..Len(b) : b[i].call \in Call /\ b[i].seq \in Nat /\ b[i].reply \in Targets
  BY <1>1 DEF GoodMessages, Messages
<1> DEFINE body == [i \in DOMAIN b |-> [part |-> <<b[i].call, b[i].seq>>, reply |-> b[i].reply]]
<1>3. body \in Seq([part : Call \X Nat, reply : Targets])
  BY <1>1, <1>2
<1>4. Aggregate(b) = [call |-> b[1].call, reply |-> None, error |-> None, corr |-> None,
                      seq |-> 0, size |-> 0, body |-> body]
  BY DEF Aggregate
<1> HIDE DEF body
<1>5. Aggregate(b) \in Messages
  BY <1>1, <1>2, <1>3, <1>4, TargetFacts DEF Messages
<1> QED BY <1>4, <1>5 DEF GoodMessages, body

\* The next send.
LEMMA WorkFacts ==
  ASSUME WorkOK, work # <<>>
  PROVE  /\ Next1 \in Sends /\ Rest \in Seq(Sends)
         /\ Next1.to \in Targets /\ Next1.msg \in GoodMessages
         /\ Next1.msg.call \in Call /\ Next1.msg.corr \in Call \cup {None}
         /\ Next1.msg.reply \in Targets /\ Next1.msg.error \in Targets
         /\ \A to \in Targets, m \in GoodMessages : <<Send(to, m)>> \o Rest \in Seq(Sends)
<1>1. Next1 \in Sends /\ Rest \in Seq(Sends)
  BY DEF WorkOK, Next1, Rest
<1>2. Next1.to \in Targets /\ Next1.msg \in GoodMessages
  BY <1>1 DEF Sends
<1>3. Next1.msg \in Messages
  BY <1>2 DEF GoodMessages
<1>4. \A to \in Targets, m \in GoodMessages : Send(to, m) \in Sends
  BY DEF Send, Sends
<1>5. \A s \in Sends : <<s>> \o Rest \in Seq(Sends)
  BY <1>1, EnterFacts
<1> QED BY <1>1, <1>2, <1>3, <1>4, <1>5 DEF Messages

LEMMA WorkTails == ASSUME WorkOK, work # <<>>, work' = Rest PROVE work' \in Seq(Sends)
  BY WorkFacts

LEMMA LosesFacts ==
  ASSUME HistoryOK, NEW m \in GoodMessages, NEW how \in Ways, Loses(m, how)
  PROVE  lost' \subseteq Call \X Ways
<1>1. m.call \in Call
  BY DEF GoodMessages, Messages
<1> QED BY <1>1 DEF HistoryOK, Loses

\* The next handler of a channel is one of its subscribers.
LEMMA BalancedFacts ==
  ASSUME NEW list \in Seq(Endpoint), list # <<>>, NEW before, NEW e \in Balanced(list, before)
  PROVE  /\ e \in Endpoint /\ e \in Range(list) /\ strategy \in {"random", "roundRobin"}
         /\ strategy = "roundRobin" => e = RoundRobin(list, before)
<1>1. Len(list) \in Nat \ {0} /\ DOMAIN list = 1..Len(list)
      /\ \A i \in 1..Len(list) : list[i] \in Endpoint
  OBVIOUS
<1>2. CASE strategy = "random"
  <2>1. e \in Range(list)
    BY <1>2 DEF Balanced
  <2> QED BY <1>1, <1>2, <2>1 DEF Range
<1>3. CASE strategy = "roundRobin"
  <2>1. e = RoundRobin(list, before)
    BY <1>3 DEF Balanced
  <2>2. IndexOf(list, before) \in Nat
    <3>1. CASE before \in Range(list)
      <4>1. \E i \in DOMAIN list : list[i] = before
        BY <3>1 DEF Range
      <4>2. IndexOf(list, before) \in DOMAIN list
        BY <3>1, <4>1, Zenon DEF IndexOf
      <4> QED BY <1>1, <4>2
    <3>2. CASE before \notin Range(list)
      BY <3>2 DEF IndexOf
    <3> QED BY <3>1, <3>2
  <2>3. (IndexOf(list, before) % Len(list)) + 1 \in 1..Len(list)
    BY <1>1, <2>2
  <2> QED BY <1>1, <1>3, <2>1, <2>3 DEF RoundRobin, Range
<1>4. CASE strategy \notin {"random", "roundRobin"}
  BY <1>4 DEF Balanced
<1> QED BY <1>2, <1>3, <1>4

\* The message given to e, and where what e returns goes.
LEMMA GivenFacts ==
  ASSUME TypeInv, NEW e \in Endpoint, Given(e)
  PROVE  /\ work # <<>> /\ BalancingOK'
         /\ Override \in Targets /\ NextOutput(e, Next1.msg) \in Targets
         /\ NextError(e, Next1.msg) \in Targets
         /\ InChain => Next1.to[2] \in Endpoint /\ Errors[Next1.to[2]] \in Channel \cup {None}
<1>1. work # <<>> /\ WorkOK /\ BalancingOK /\ SubscriptionsOK
  BY DEF Given, Idle, TypeInv
<1>2. BalancingOK'
  <2>1. CASE UNCHANGED balancing
    BY <1>1, <2>1 DEF balancing, BalancingOK
  <2>2. CASE FromChannel(e) /\ ~UNCHANGED balancing
    <3> DEFINE c == Next1.to
    <3>1. c \in Channel /\ last' = [last EXCEPT ![c] = e]
          /\ turns' = [turns EXCEPT ![c] = Append(turns[c], e)]
      BY <2>2 DEF FromChannel
    <3> HIDE DEF c
    <3>2. Append(turns[c], e) \in Seq(Endpoint)
      BY <1>1, <3>1 DEF BalancingOK
    <3> QED BY <1>1, <3>1, <3>2 DEF BalancingOK
  <2> QED BY <2>1, <2>2 DEF Given, FromChain
<1>3. ASSUME InChain
      PROVE  /\ Override \in Targets /\ Next1.to[2] \in Endpoint
             /\ Errors[Next1.to[2]] \in Channel \cup {None}
  <2>0. PICK d \in Endpoint : \E k \in 1..Len(Stages[d]) : Next1.to = After(d, k - 1)
    BY <1>3 DEF InChain, NextStages
  <2>1. PICK k \in 1..Len(Stages[d]) : Next1.to = After(d, k - 1)
    BY <2>0
  <2>2. Next1.to[2] = d /\ Next1.to[3] = k - 1
    BY <2>1 DEF After
  <2>3. Override = After(d, (k - 1) + 1)
    BY <1>3, <2>2 DEF Override
  <2>4. k \in 0..Len(Stages[d]) /\ (k - 1) + 1 = k
    BY <2>1, StageFacts
  <2>5. Override \in Targets
    BY <2>3, <2>4, TargetFacts
  <2> QED BY <2>2, <2>5, WiringFacts
<1>4. Override \in Targets
  BY <1>3, TargetFacts DEF Override
<1>5. NextOutput(e, Next1.msg) \in Targets /\ NextError(e, Next1.msg) \in Targets
  <2>1. Next1.msg.reply \in Targets /\ Next1.msg.error \in Targets
    BY <1>1, WorkFacts
  <2>2. Output[e] \in Targets /\ Errors[e] \in Targets
    BY WiringFacts, TargetFacts
  <2> QED BY <1>4, <2>1, <2>2 DEF NextOutput, NextError
<1> QED BY <1>1, <1>2, <1>3, <1>4, <1>5

\* What becomes of a message that a handler returned, or threw at.
LEMMA ForwardsFacts ==
  ASSUME TypeInv, work # <<>>, NEW to \in Targets, Forwards(Next1.msg, to)
  PROVE  work' \in Seq(Sends) /\ lost' \subseteq Call \X Ways
<1>1. WorkOK /\ HistoryOK
  BY DEF TypeInv
<1>2. CASE to = None
  BY <1>1, <1>2, WorkFacts, LosesFacts DEF Forwards, Ways
<1>3. CASE to # None
  BY <1>1, <1>3, WorkFacts DEF Forwards, HistoryOK
<1> QED BY <1>2, <1>3

\* The error follows what the handler has sent before it threw.
LEMMA ThrowsAfterFacts ==
  ASSUME TypeInv, NEW e \in Endpoint, Given(e), NEW sends \in Seq(Sends),
         ThrowsAfter(sends, e, Next1.msg)
  PROVE  work' \in Seq(Sends) /\ HistoryOK'
<1>1. HistoryOK /\ work # <<>> /\ WorkOK
  BY GivenFacts DEF TypeInv
<1>2. Next1.msg.call \in Call /\ Next1.msg \in GoodMessages /\ Rest \in Seq(Sends)
  BY <1>1, WorkFacts
<1>3. failed' \subseteq Call
  BY <1>1, <1>2 DEF ThrowsAfter, HistoryOK
<1> DEFINE to == ErrorTarget(e, Next1.msg)
           s == Send(to, Next1.msg)
<1>4. to \in Targets
  BY GivenFacts, TargetFacts DEF ErrorTarget
<1>5. IF to = None THEN Loses(Next1.msg, "invalid") /\ work' = sends \o Rest
                   ELSE work' = Append(sends, s) \o Rest /\ UNCHANGED lost
  BY DEF ThrowsAfter
<1>6. s \in Sends
  BY <1>2, <1>4 DEF Send, Sends
<1> HIDE DEF to, s
<1>7. CASE to = None
  <2>1. work' \in Seq(Sends)
    <3>1. sends \o Rest \in Seq(Sends)
      BY <1>2
    <3> QED BY <1>5, <1>7, <3>1
  <2> QED BY <1>1, <1>2, <1>3, <1>5, <1>7, <2>1, LosesFacts DEF HistoryOK, Ways
<1>8. CASE to # None
  <2>1. work' \in Seq(Sends)
    <3>1. Append(sends, s) \in Seq(Sends)
      BY <1>6
    <3>2. Append(sends, s) \o Rest \in Seq(Sends)
      BY <1>2, <3>1
    <3> QED BY <1>5, <1>8, <3>2
  <2> QED BY <1>1, <1>3, <1>5, <1>8, <2>1 DEF HistoryOK
<1> QED BY <1>7, <1>8

LEMMA ThrowsFacts ==
  ASSUME TypeInv, NEW e \in Endpoint, Given(e), Throws(e, Next1.msg)
  PROVE  work' \in Seq(Sends) /\ HistoryOK'
<1>1. <<>> \in Seq(Sends)
  OBVIOUS
<1> QED BY <1>1, ThrowsAfterFacts DEF Throws

\* A handler that threw at once has sent nothing but the error.
LEMMA ThrowsAtOnce ==
  ASSUME WorkOK, work # <<>>, NEW e \in Endpoint, Throws(e, Next1.msg)
  PROVE  /\ failed' = failed \cup {Next1.msg.call}
         /\ IF ErrorTarget(e, Next1.msg) = None
            THEN Loses(Next1.msg, "invalid") /\ work' = Rest
            ELSE work' = <<Send(ErrorTarget(e, Next1.msg), Next1.msg)>> \o Rest /\ UNCHANGED lost
<1>1. Rest \in Seq(Sends)
  BY WorkFacts
<1>2. <<>> \o Rest = Rest
  BY <1>1
<1>3. \A x : Append(<<>>, x) = <<x>>
  OBVIOUS
<1> QED BY <1>2, <1>3 DEF Throws, ThrowsAfter

LEMMA InitTypes == Init => TypeInv
<1> SUFFICES ASSUME Init PROVE TypeInv
  OBVIOUS
<1>1. SubscriptionsOK
  BY InitialAssumption, OptionAssumption DEF Init, SubscriptionsOK
<1>2. BalancingOK
  BY DEF Init, BalancingOK
<1>3. WorkOK
  BY DEF Init, WorkOK
<1>4. BucketsOK
  <2>1. \A b \in Endpoint \X Call : buckets[b] = <<>> /\ Range(buckets[b]) = {}
    BY DEF Init, Range
  <2> QED BY <2>1 DEF Init, BucketsOK
<1>5. GatewayOK /\ HistoryOK
  BY DEF Init, GatewayOK, HistoryOK
<1> QED BY <1>1, <1>2, <1>3, <1>4, <1>5 DEF TypeInv

LEMMA AppTypes == ASSUME TypeInv, App PROVE TypeInv'
<1> USE DEF TypeInv
<1>1. ASSUME NEW c \in Call, Ask(c) PROVE TypeInv'
  <2>1. PICK to \in Entry : work' = <<Send(to, Request(c))>>
    BY <1>1 DEF Ask
  <2>2. to \in Targets
    BY WiringFacts, TargetFacts
  <2>3. Request(c) \in GoodMessages
    <3>1. <<>> \in Seq([part : Call \X Nat, reply : Targets])
      OBVIOUS
    <3> QED BY <3>1, TargetFacts DEF Request, GoodMessages, Messages
  <2>4. WorkOK'
    <3>1. Send(to, Request(c)) \in Sends
      BY <2>2, <2>3 DEF Send, Sends
    <3>2. tasks' = tasks
      BY <1>1 DEF Ask
    <3> QED BY <2>1, <3>1, <3>2 DEF WorkOK
  <2>5. GatewayOK'
    BY <1>1 DEF Ask, GatewayOK
  <2> QED BY <1>1, <2>4, <2>5 DEF Ask, subscriptions, balancing, SubscriptionsOK, BalancingOK,
                                  BucketsOK, HistoryOK
<1>2. ASSUME NEW c \in Channel, NEW list \in Seq(Endpoint), Distinct(list), Changes(c, list)
      PROVE  TypeInv'
  <2>1. SubscriptionsOK'
    BY <1>2, OptionAssumption DEF Changes, SubscriptionsOK
  <2>2. BalancingOK'
    <3>1. <<>> \in Seq(Endpoint)
      OBVIOUS
    <3> QED BY <1>2, <3>1 DEF Changes, BalancingOK
  <2> QED BY <1>2, <2>1, <2>2 DEF Changes, gateway, WorkOK, BucketsOK, GatewayOK, HistoryOK
<1>3. ASSUME NEW p \in Mutable, Subscribe(p[1], p[2]) \/ Unsubscribe(p[1], p[2])
      PROVE  TypeInv'
  <2>1. p[1] \in Channel /\ p[2] \in Endpoint
    BY WiringAssumption
  <2> DEFINE q == handlers[p[1]]
  <2>2. q \in Seq(Endpoint) /\ Distinct(q)
    BY <2>1 DEF SubscriptionsOK
  <2>3. CASE Subscribe(p[1], p[2])
    <3>1. Append(q, p[2]) \in Seq(Endpoint)
      BY <2>1, <2>2
    <3>2. Distinct(Append(q, p[2]))
      <4>1. \A i \in 1..Len(q) : q[i] # p[2]
        BY <2>2, <2>3 DEF Subscribe, Range
      <4>2. /\ Len(q) \in Nat /\ Len(Append(q, p[2])) = Len(q) + 1
            /\ \A i \in 1..Len(q) : Append(q, p[2])[i] = q[i]
            /\ Append(q, p[2])[Len(q) + 1] = p[2]
        BY <2>1, <2>2, AppendMembers
      <4>3. \A i \in 1..(Len(q) + 1) : i \in 1..Len(q) \/ i = Len(q) + 1
        BY <4>2
      <4> QED BY <2>2, <4>1, <4>2, <4>3 DEF Distinct
    <3> QED BY <1>2, <2>1, <2>3, <3>1, <3>2 DEF Subscribe
  <2>4. CASE Unsubscribe(p[1], p[2])
    BY <1>2, <2>1, <2>2, <2>4, WithoutFacts DEF Unsubscribe
  <2> QED BY <1>3, <2>3, <2>4
<1> QED BY <1>1, <1>3 DEF App

LEMMA ServiceTypes == ASSUME TypeInv, ServiceAnswers \/ ServiceRejects PROVE TypeInv'
<1>1. ASSUME NEW t \in tasks, NEW to \in Targets, Settles(t, to), failed' \subseteq Call
      PROVE  TypeInv'
  <2>1. t.msg \in GoodMessages /\ tasks' \subseteq Tasks /\ HistoryOK
    BY <1>1 DEF TypeInv, WorkOK, Settles, Tasks
  <2>2. WorkOK' /\ HistoryOK'
    <3>1. CASE Dropped(to)
      BY <1>1, <2>1, <3>1, LosesFacts DEF Settles, TypeInv, WorkOK, HistoryOK, Ways
    <3>2. CASE ~Dropped(to)
      <4>1. Send(to, t.msg) \in Sends
        BY <1>1, <2>1 DEF Send, Sends
      <4>2. work' = <<Send(to, t.msg)>> /\ lost' = lost
        BY <1>1, <3>2 DEF Settles
      <4>3. work' \in Seq(Sends)
        BY <4>1, <4>2
      <4> QED BY <1>1, <2>1, <4>2, <4>3 DEF WorkOK, HistoryOK
    <3> QED BY <3>1, <3>2
  <2> QED BY <1>1, <2>2 DEF Settles, TypeInv, subscriptions, balancing, gateway, SubscriptionsOK,
                            BalancingOK, BucketsOK, GatewayOK
<1>2. \A t \in tasks : t.reply \in Targets /\ t.error \in Targets /\ t.msg.call \in Call
  BY DEF TypeInv, WorkOK, Tasks, GoodMessages, Messages
<1>3. CASE ServiceAnswers
  <2>1. failed' \subseteq Call
    BY <1>3 DEF ServiceAnswers, TypeInv, HistoryOK
  <2> QED BY <1>1, <1>2, <1>3, <2>1 DEF ServiceAnswers
<1>4. CASE ServiceRejects
  <2>1. PICK t \in tasks : Settles(t, t.error) /\ failed' = failed \cup {t.msg.call}
    BY <1>4 DEF ServiceRejects
  <2>2. failed' \subseteq Call
    BY <1>2, <2>1 DEF TypeInv, HistoryOK
  <2> QED BY <1>1, <1>2, <2>1, <2>2
<1> QED BY <1>3, <1>4

\* What the steps within a turn leave alone.
LEMMA TurnTypes ==
  ASSUME TypeInv, UNCHANGED subscriptions, BalancingOK', work' \in Seq(Sends),
         tasks' \subseteq Tasks, BucketsOK', GatewayOK', HistoryOK'
  PROVE  TypeInv'
  BY DEF TypeInv, WorkOK, subscriptions, SubscriptionsOK

LEMMA SameTypes ==
  ASSUME TypeInv
  PROVE  /\ UNCHANGED balancing => BalancingOK'
         /\ UNCHANGED tasks => tasks' \subseteq Tasks
         /\ UNCHANGED buckets => BucketsOK'
         /\ UNCHANGED gateway => GatewayOK'
         /\ UNCHANGED failed /\ lost' \subseteq Call \X Ways => HistoryOK'
         /\ UNCHANGED <<failed, lost>> => HistoryOK'
  BY DEF TypeInv, balancing, gateway, BalancingOK, WorkOK, BucketsOK, GatewayOK, HistoryOK

LEMMA TransportTypes ==
  ASSUME TypeInv, Unheard \/ Unbalanced \/ DeleteBucket \/ Settle
  PROVE  TypeInv'
<1>1. work # <<>> /\ WorkOK /\ HistoryOK
  BY DEF Unheard, Unbalanced, ToChannel, DeleteBucket, Settle, TypeInv
<1>2. work' \in Seq(Sends)
  BY <1>1, WorkTails DEF Unheard, Unbalanced, DeleteBucket, Settle
<1>3. UNCHANGED <<strategy, handlers, changes>> /\ UNCHANGED balancing /\ UNCHANGED tasks
  BY DEF Unheard, Unbalanced, DeleteBucket, Settle, subscriptions
<1>4. HistoryOK'
  <2>1. Next1.msg \in GoodMessages
    BY <1>1, WorkFacts
  <2>2. CASE Unheard \/ Unbalanced
    <3>1. failed' = failed /\ (Loses(Next1.msg, "dead") \/ Loses(Next1.msg, "invalid"))
      BY <2>2 DEF Unheard, Unbalanced
    <3> QED BY <1>1, <2>1, <3>1, LosesFacts DEF Ways, HistoryOK
  <2>3. CASE DeleteBucket \/ Settle
    BY <1>1, <2>3 DEF DeleteBucket, Settle, HistoryOK
  <2> QED BY <2>2, <2>3
<1>5. BucketsOK'
  <2>1. CASE DeleteBucket
    <3>1. PICK e \in Endpoint, c \in Call : buckets' = [buckets EXCEPT ![<<e, c>>] = <<>>]
      BY <2>1 DEF DeleteBucket
    <3>2. <<>> \in Seq(GoodMessages) /\ Range(<<>>) = {}
      BY DEF Range
    <3>3. BucketsOK /\ <<e, c>> \in Endpoint \X Call
      BY DEF TypeInv
    <3>4. ASSUME NEW b \in Endpoint \X Call
          PROVE  buckets'[b] \in Seq(GoodMessages) /\ \A m \in Range(buckets'[b]) : m.corr = b[2]
      <4>1. CASE b = <<e, c>>
        BY <3>1, <3>2, <3>3, <4>1 DEF BucketsOK
      <4>2. CASE b # <<e, c>>
        BY <3>1, <3>3, <4>2 DEF BucketsOK
      <4> QED BY <4>1, <4>2
    <3> QED BY <3>1, <3>3, <3>4 DEF BucketsOK
  <2>2. CASE ~DeleteBucket
    BY <2>2, SameTypes DEF Unheard, Unbalanced, Settle
  <2> QED BY <2>1, <2>2
<1>6. GatewayOK'
  <2>1. CASE Settle
    <3>1. GatewayOK
      BY DEF TypeInv
    <3>2. PICK c \in Call :
            \/ UNCHANGED gateway
            \/ /\ promise' = [promise EXCEPT ![c] = "resolved"]
               /\ value' = [value EXCEPT ![c] = Next1.msg.body]
            \/ /\ promise' = [promise EXCEPT ![c] = IF promise[c] = "pending" THEN "rejected"
                                                    ELSE promise[c]]
               /\ UNCHANGED value
      BY <2>1 DEF Settle
    <3> QED BY <3>1, <3>2 DEF GatewayOK, gateway
  <2>2. CASE ~Settle
    BY <2>2, SameTypes DEF Unheard, Unbalanced, DeleteBucket
  <2> QED BY <2>1, <2>2
<1> QED BY <1>2, <1>3, <1>4, <1>5, <1>6, SameTypes, TurnTypes DEF subscriptions

\* Handlers that pass messages on, or lose them.
LEMMA PassingTypes ==
  ASSUME TypeInv, NEW e \in Endpoint,
         \/ EndpointThrows(e) \/ Transform(e) \/ FilterPasses(e) \/ FilterDiscards(e)
         \/ Route(e) \/ Ignore(e) \/ ChainBegins(e) \/ ChainEnds(e)
  PROVE  TypeInv'
<1> DEFINE m == Next1.msg
<1>1. UNCHANGED subscriptions /\ UNCHANGED tasks /\ UNCHANGED buckets /\ UNCHANGED gateway
  BY DEF EndpointThrows, Transform, FilterPasses, FilterDiscards, Route, Ignore, ChainBegins,
         ChainEnds
<1>2. WorkOK /\ HistoryOK
  BY DEF TypeInv
<1>3. CASE ChainEnds(e)
  <2>1. work # <<>> /\ UNCHANGED balancing /\ UNCHANGED failed /\ Forwards(m, NextOutput(e, m))
    BY <1>3 DEF ChainEnds
  <2>2. m.reply \in Targets
    BY <1>2, <2>1, WorkFacts
  <2>3. NextOutput(e, m) \in Targets
    <3>1. CASE InChain
      <4>1. PICK d \in Endpoint : \E k \in 1..Len(Stages[d]) : Next1.to = After(d, k - 1)
        BY <3>1 DEF InChain, NextStages
      <4>2. PICK k \in 1..Len(Stages[d]) : Next1.to = After(d, k - 1)
        BY <4>1
      <4>3. Next1.to[2] = d /\ Next1.to[3] = k - 1 /\ k \in 0..Len(Stages[d]) /\ (k - 1) + 1 = k
        BY <4>2, StageFacts DEF After
      <4>4. NextOutput(e, m) = After(d, k)
        BY <3>1, <4>3 DEF NextOutput, Override
      <4> QED BY <4>3, <4>4, TargetFacts
    <3>2. CASE ~InChain
      BY <2>2, <3>2, WiringFacts, TargetFacts DEF NextOutput
    <3> QED BY <3>1, <3>2
  <2>4. work' \in Seq(Sends) /\ lost' \subseteq Call \X Ways
    BY <2>1, <2>3, ForwardsFacts
  <2> QED BY <1>1, <2>1, <2>4, SameTypes, TurnTypes
<1>4. CASE ~ChainEnds(e)
  <2>1. Given(e)
    BY <1>4 DEF EndpointThrows, Transform, FilterPasses, FilterDiscards, Route, Ignore, ChainBegins
  <2>2. work # <<>> /\ BalancingOK' /\ NextOutput(e, m) \in Targets /\ m \in GoodMessages
        /\ \A to \in Targets : <<Send(to, m)>> \o Rest \in Seq(Sends)
        /\ m.body \in Seq([part : Call \X Nat, reply : Targets])
    BY <1>2, <2>1, GivenFacts, WorkFacts DEF GoodMessages, Messages
  <2>3. work' \in Seq(Sends) /\ HistoryOK'
    <3>1. CASE EndpointThrows(e)
      BY <2>1, <3>1, ThrowsFacts DEF EndpointThrows
    <3>2. CASE Transform(e) \/ FilterPasses(e)
      <4>1. Forwards(m, NextOutput(e, m)) /\ failed' = failed
        BY <3>2 DEF Transform, FilterPasses
      <4>2. work' \in Seq(Sends) /\ lost' \subseteq Call \X Ways
        BY <2>2, <4>1, ForwardsFacts
      <4> QED BY <1>2, <4>1, <4>2 DEF HistoryOK
    <3>3. CASE FilterDiscards(e)
      <4>1. CASE Discard[e] = None
        <5>1. Loses(m, "discarded") /\ work' = Rest /\ failed' = failed
          BY <3>3, <4>1 DEF FilterDiscards
        <5> QED BY <1>2, <2>2, <5>1, LosesFacts, WorkTails DEF Ways, HistoryOK
      <4>2. CASE Discard[e] # None
        <5>1. work' = <<Send(Discard[e], m)>> \o Rest /\ UNCHANGED <<lost, failed>>
          BY <3>3, <4>2 DEF FilterDiscards
        <5>2. Discard[e] \in Targets
          BY WiringFacts, TargetFacts
        <5> QED BY <1>2, <2>2, <5>1, <5>2 DEF HistoryOK
      <4> QED BY <4>1, <4>2
    <3>4. CASE Route(e)
      <4>1. PICK list \in Recipients(e, m) : \E n \in 0..Len(list) : RouteTo(e, list, n)
        BY <3>4 DEF Route
      <4>2. PICK n \in 0..Len(list) : RouteTo(e, list, n)
        BY <4>1
      <4>3. list \in Seq(Targets)
        <5>1. m.body # <<>> => m.body[1].reply \in Targets
          <6>0. ASSUME NEW S, NEW s \in Seq(S), s # <<>> PROVE s[1] \in S
            BY <6>0
          <6>1. m.body # <<>> => m.body[1] \in [part : Call \X Nat, reply : Targets]
            BY <2>2, <6>0
          <6> QED BY <6>1
        <5>2. CASE Routes[e] = {}
          <6>1. list = <<IF m.body # <<>> THEN m.body[1].reply ELSE None>>
            BY <4>1, <5>2 DEF Recipients
          <6> QED BY <5>1, <6>1, TargetFacts
        <5>3. CASE Routes[e] # {}
          <6>1. list \in Seq(Channel \cup {None}) /\ Channel \cup {None} \subseteq Targets
            BY <4>1, <5>3, WiringFacts, TargetFacts DEF Recipients
          <6> QED BY <6>1
        <5> QED BY <5>2, <5>3
      <4> DEFINE sends == [k \in 1..n |-> Send(list[k], m)]
      <4>4. sends \in Seq(Sends)
        <5>1. \A k \in 1..n : list[k] \in Targets
          BY <4>2, <4>3
        <5>2. \A k \in 1..n : Send(list[k], m) \in Sends
          BY <2>2, <5>1 DEF Send, Sends
        <5> HIDE DEF m
        <5> QED BY <4>2, <5>2
      <4>5. CASE n = Len(list)
        <5>1. /\ work' = sends \o Rest /\ UNCHANGED failed
              /\ IF n = 0 THEN Loses(m, "consumed") ELSE UNCHANGED lost
          BY <4>2, <4>5 DEF RouteTo
        <5> HIDE DEF sends
        <5>2. work' \in Seq(Sends)
          BY <1>2, <2>2, <4>4, <5>1, WorkFacts
        <5> QED BY <1>2, <2>2, <5>1, <5>2, LosesFacts DEF HistoryOK, Ways
      <4>6. CASE n # Len(list)
        <5>1. ThrowsAfter(sends, e, m)
          BY <4>2, <4>6 DEF RouteTo
        <5> HIDE DEF sends
        <5> QED BY <2>1, <4>4, <5>1, ThrowsAfterFacts
      <4> QED BY <4>5, <4>6
    <3>5. CASE Ignore(e)
      <4>1. Loses(m, "consumed") /\ work' = Rest /\ failed' = failed
        BY <3>5 DEF Ignore
      <4> QED BY <1>2, <2>2, <4>1, LosesFacts, WorkTails DEF Ways, HistoryOK
    <3>6. CASE ChainBegins(e)
      <4>1. work' = <<Send(After(e, 0), m)>> \o Rest /\ UNCHANGED <<lost, failed>>
        BY <3>6 DEF ChainBegins
      <4>2. After(e, 0) \in Targets
        BY StageFacts, TargetFacts
      <4> QED BY <1>2, <2>2, <4>1, <4>2 DEF HistoryOK
    <3> QED BY <1>4, <3>1, <3>2, <3>3, <3>4, <3>5, <3>6
  <2> QED BY <1>1, <2>2, <2>3, SameTypes, TurnTypes
<1> QED BY <1>3, <1>4

LEMMA SplitTypes == ASSUME TypeInv, NEW e \in Endpoint, Split(e) PROVE TypeInv'
<1> DEFINE m == Next1.msg
<1>1. Given(e) /\ UNCHANGED subscriptions /\ UNCHANGED tasks /\ UNCHANGED buckets
      /\ UNCHANGED gateway /\ UNCHANGED failed /\ Kind[e] = "splitter"
  BY DEF Split
<1>2. work # <<>> /\ BalancingOK' /\ m \in GoodMessages /\ Rest \in Seq(Sends) /\ HistoryOK
  BY <1>1, GivenFacts, WorkFacts DEF TypeInv
<1>3. PICK n \in PartCounts, keep \in KeepHeaders :
        /\ work' = [k \in 1..n |-> Send(Output[e], Part(m, k, n, keep))] \o Rest
        /\ IF n = 0 THEN Loses(m, "consumed") ELSE UNCHANGED lost
  BY DEF Split
<1>4. n \in Nat /\ keep \in BOOLEAN /\ Output[e] \in Targets
  BY OptionAssumption, WiringFacts, TargetFacts
<1>5. \A k \in 1..n : Send(Output[e], Part(m, k, n, keep)) \in Sends
  BY <1>2, <1>4, PartFacts DEF Send, Sends
<1> HIDE DEF m
<1>6. [k \in 1..n |-> Send(Output[e], Part(m, k, n, keep))] \in Seq(Sends)
  BY <1>4, <1>5
<1>7. work' \in Seq(Sends)
  BY <1>2, <1>3, <1>6
<1>8. lost' \subseteq Call \X Ways
  BY <1>2, <1>3, LosesFacts DEF HistoryOK, Ways
<1> QED BY <1>1, <1>2, <1>7, <1>8, SameTypes, TurnTypes

LEMMA ServeTypes == ASSUME TypeInv, NEW e \in Endpoint, Serve(e) PROVE TypeInv'
<1> DEFINE m == Next1.msg
           t == [service |-> e, msg |-> m, reply |-> NextOutput(e, m), error |-> NextError(e, m)]
<1>1. Given(e) /\ UNCHANGED subscriptions /\ UNCHANGED buckets /\ UNCHANGED gateway
      /\ UNCHANGED <<failed, lost>> /\ work' = Rest /\ tasks' = tasks \cup {t}
  BY DEF Serve
<1>2. work # <<>> /\ BalancingOK' /\ m \in GoodMessages /\ WorkOK
      /\ NextOutput(e, m) \in Targets /\ NextError(e, m) \in Targets
  BY <1>1, GivenFacts, WorkFacts DEF TypeInv
<1>3. t \in Tasks
  BY <1>2 DEF Tasks
<1>4. work' \in Seq(Sends) /\ tasks' \subseteq Tasks
  BY <1>1, <1>2, <1>3, WorkTails DEF WorkOK
<1> QED BY <1>1, <1>2, <1>4, SameTypes, TurnTypes

\* The bucket a part is put into.
Bucket(e, m) == Append(buckets[<<e, m.corr>>], m)

LEMMA BucketFacts ==
  ASSUME TypeInv, NEW e \in Endpoint, NEW m \in GoodMessages, m.corr # None
  PROVE  /\ <<e, m.corr>> \in Endpoint \X Call
         /\ Bucket(e, m) \in Seq(GoodMessages) /\ Bucket(e, m) # <<>>
         /\ InOrder(Bucket(e, m)) \in Seq(GoodMessages) /\ InOrder(Bucket(e, m)) # <<>>
         /\ \A x \in Range(Bucket(e, m)) : x.corr = m.corr
         /\ \A x \in Range(InOrder(Bucket(e, m))) : x.corr = m.corr
<1> DEFINE b == <<e, m.corr>>
           q == buckets[b]
           p == Append(q, m)
<1>1. b \in Endpoint \X Call
  BY DEF GoodMessages, Messages
<1>2. q \in Seq(GoodMessages) /\ \A x \in Range(q) : x.corr = m.corr
  BY <1>1 DEF TypeInv, BucketsOK
<1> HIDE DEF q
<1>3. p \in Seq(GoodMessages) /\ p # <<>> /\ Len(p) \in Nat \ {0} /\ DOMAIN p = 1..Len(p)
      /\ \A i \in 1..Len(p) : p[i] = m \/ p[i] \in Range(q)
  BY <1>2 DEF Range
<1> HIDE DEF p
<1>4. \A i \in 1..Len(p) : p[i].corr = m.corr
  BY <1>2, <1>3
<1>5. \A x \in GoodMessages : x.seq \in Nat
  BY DEF GoodMessages, Messages
<1>6. /\ InOrder(p) \in Seq(GoodMessages) /\ Len(InOrder(p)) = Len(p)
      /\ \A k \in 1..Len(p) : \E i \in 1..Len(p) : InOrder(p)[k] = p[i]
  BY <1>3, <1>5, InOrderFacts
<1>7. \A x \in Range(p) : x.corr = m.corr
  BY <1>3, <1>4 DEF Range
<1>8. \A x \in Range(InOrder(p)) : x.corr = m.corr
  <2>1. DOMAIN InOrder(p) = 1..Len(p)
    BY <1>6
  <2> QED BY <1>4, <1>6, <2>1 DEF Range
<1>9. InOrder(p) # <<>>
  BY <1>3, <1>6
<1> QED BY <1>1, <1>3, <1>6, <1>7, <1>8, <1>9 DEF Bucket, p, q

LEMMA CorrelateTypes == ASSUME TypeInv, NEW e \in Endpoint, Correlate(e) PROVE TypeInv'
<1> DEFINE m == Next1.msg
           b == <<e, m.corr>>
           p == Bucket(e, m)
<1>1. Given(e) /\ UNCHANGED subscriptions /\ UNCHANGED tasks /\ UNCHANGED gateway /\ m.corr # None
  BY DEF Correlate
<1>2. work # <<>> /\ BalancingOK' /\ m \in GoodMessages /\ HistoryOK /\ BucketsOK /\ WorkOK
      /\ Rest \in Seq(Sends)
  BY <1>1, GivenFacts, WorkFacts DEF TypeInv
<1>3. \/ buckets' = [buckets EXCEPT ![b] = p] /\ work' = Rest /\ UNCHANGED <<lost, failed>>
      \/ /\ buckets' = [buckets EXCEPT ![b] = InOrder(p)]
         /\ \/ /\ work' = <<Send(Output[e], Aggregate(InOrder(p))),
                            Send(Forget(e, m.corr), m)>> \o Rest
               /\ UNCHANGED <<lost, failed>>
            \/ Throws(e, m)
  BY DEF Correlate, Bucket
<1> HIDE DEF m, p
<1>4. /\ b \in Endpoint \X Call /\ p \in Seq(GoodMessages) /\ InOrder(p) \in Seq(GoodMessages)
      /\ InOrder(p) # <<>> /\ \A x \in Range(p) \cup Range(InOrder(p)) : x.corr = m.corr
  BY <1>1, <1>2, BucketFacts DEF p
<1>5. BucketsOK'
  <2>1. PICK q \in {p, InOrder(p)} : buckets' = [buckets EXCEPT ![b] = q]
    BY <1>3
  <2>2. ASSUME NEW d \in Endpoint \X Call
        PROVE  buckets'[d] \in Seq(GoodMessages) /\ \A x \in Range(buckets'[d]) : x.corr = d[2]
    <3>1. CASE d = b
      BY <1>2, <1>4, <2>1, <3>1 DEF BucketsOK
    <3>2. CASE d # b
      BY <1>2, <2>1, <3>2 DEF BucketsOK
    <3> QED BY <3>1, <3>2
  <2> QED BY <1>2, <2>1, <2>2 DEF BucketsOK
<1>6. work' \in Seq(Sends) /\ HistoryOK'
  <2>1. CASE work' = Rest /\ UNCHANGED <<lost, failed>>
    BY <1>2, <2>1 DEF HistoryOK
  <2>2. CASE /\ work' = <<Send(Output[e], Aggregate(InOrder(p))), Send(Forget(e, m.corr), m)>> \o Rest
             /\ UNCHANGED <<lost, failed>>
    <3>1. Output[e] \in Targets /\ Forget(e, m.corr) \in Targets
      BY <1>4, WiringFacts, TargetFacts
    <3>2. Send(Output[e], Aggregate(InOrder(p))) \in Sends /\ Send(Forget(e, m.corr), m) \in Sends
      BY <1>2, <1>4, <3>1, AggregateFacts DEF Send, Sends
    <3>3. ASSUME NEW x \in Sends, NEW y \in Sends PROVE <<x, y>> \o Rest \in Seq(Sends)
      BY <1>2, <3>3
    <3> QED BY <1>2, <2>2, <3>2, <3>3 DEF HistoryOK
  <2>3. CASE Throws(e, m)
    BY <1>1, <2>3, ThrowsFacts DEF m
  <2> QED BY <1>3, <2>1, <2>2, <2>3
<1> QED BY <1>1, <1>2, <1>5, <1>6, SameTypes, TurnTypes

LEMMA TypeStep == ASSUME TypeInv, [Next]_vars PROVE TypeInv'
<1>1. CASE Handle
  <2>1. PICK e \in Endpoint :
          \/ EndpointThrows(e) \/ Transform(e) \/ FilterPasses(e) \/ FilterDiscards(e)
          \/ Route(e) \/ Split(e) \/ Ignore(e) \/ Correlate(e) \/ Serve(e)
          \/ ChainBegins(e) \/ ChainEnds(e)
    BY <1>1 DEF Handle
  <2> QED BY <2>1, PassingTypes, SplitTypes, CorrelateTypes, ServeTypes
<1>2. CASE UNCHANGED vars
  BY <1>2 DEF vars, TypeInv, SubscriptionsOK, BalancingOK, WorkOK, BucketsOK, GatewayOK, HistoryOK
<1> QED BY <1>1, <1>2, AppTypes, ServiceTypes, TransportTypes DEF Next, Turn

LEMMA TypeInvSuffices == TypeInv => TypeOK
<1> SUFFICES ASSUME TypeInv PROVE TypeOK
  OBVIOUS
<1>1. GoodMessages \subseteq Messages /\ \A m \in GoodMessages : m.corr # None => m.seq < m.size
  BY DEF GoodMessages
<1>2. ASSUME NEW S, NEW T, S \subseteq T, NEW q \in Seq(S) PROVE q \in Seq(T)
  <2>1. Len(q) \in Nat /\ q = [i \in 1..Len(q) |-> q[i]] /\ \A i \in 1..Len(q) : q[i] \in T
    BY <1>2
  <2> QED BY <2>1
<1>3. work \in Seq([to : Targets, msg : Messages])
  <2>1. Sends \subseteq [to : Targets, msg : Messages]
    BY <1>1 DEF Sends
  <2> QED BY <1>2, <2>1 DEF TypeInv, WorkOK
<1>4. tasks \subseteq [service : Endpoint, msg : Messages, reply : Targets, error : Targets]
  BY <1>1 DEF TypeInv, WorkOK, Tasks
<1>5. ASSUME NEW b \in Endpoint \X Call
      PROVE  buckets[b] \in Seq(Messages) /\ \A m \in Range(buckets[b]) : m.corr = b[2] /\ m.seq < m.size
  <2>1. buckets[b] \in Seq(GoodMessages) /\ \A m \in Range(buckets[b]) : m.corr = b[2]
    BY DEF TypeInv, BucketsOK
  <2>2. \A m \in Range(buckets[b]) : m \in GoodMessages
    BY <2>1 DEF Range
  <2>3. b[2] # None
    BY NoneAssumption
  <2> QED BY <1>1, <1>2, <2>1, <2>2, <2>3
<1> QED
  BY <1>3, <1>4, <1>5 DEF TypeInv, TypeOK, SubscriptionsOK, BalancingOK, BucketsOK, GatewayOK, HistoryOK

\* The values of the variables, for every flow: among them that a bucket holds parts
\* of its own correlation only, each with a number below its size
\* (correlating.js:48-54).
THEOREM FlowTyped == Spec => []TypeOK
<1> QED
  BY InitTypes, TypeStep, TypeInvSuffices, PTL DEF Spec
-----------------------------------------------------------------------------
(* Turns.  Those who were called since the subscribers of a channel changed  *)
(* stand one behind the other in its list, up to its end and on from its     *)
(* start.                                                                    *)

Turning(c) ==
  LET q == handlers[c]
      t == turns[c]
  IN /\ strategy # "roundRobin" => t = <<>>
     /\ \A i \in 1..Len(t) : t[i] \in Range(q)
     /\ t # <<>> => last[c] = t[Len(t)]
     /\ \A i, j \in 1..Len(t) : i < j /\ j < i + Len(q) =>
          \/ IndexOf(q, t[j]) = IndexOf(q, t[i]) + (j - i)
          \/ IndexOf(q, t[j]) = IndexOf(q, t[i]) + (j - i) - Len(q)

TurnInv == \A c \in Channel : Turning(c)

LEMMA IndexFacts ==
  ASSUME NEW q \in Seq(Endpoint), Distinct(q)
  PROVE  /\ \A x \in Range(q) : IndexOf(q, x) \in 1..Len(q) /\ q[IndexOf(q, x)] = x
         /\ \A i \in 1..Len(q) : IndexOf(q, q[i]) = i
<1>1. DOMAIN q = 1..Len(q)
  OBVIOUS
<1>2. ASSUME NEW x \in Range(q) PROVE IndexOf(q, x) \in 1..Len(q) /\ q[IndexOf(q, x)] = x
  <2>1. \E i \in DOMAIN q : q[i] = x
    BY DEF Range
  <2>2. IndexOf(q, x) \in DOMAIN q /\ q[IndexOf(q, x)] = x
    BY <2>1, Zenon DEF IndexOf
  <2> QED BY <1>1, <2>2
<1>3. ASSUME NEW i \in 1..Len(q) PROVE IndexOf(q, q[i]) = i
  <2>1. q[i] \in Range(q)
    BY <1>1 DEF Range
  <2> QED BY <1>2, <2>1 DEF Distinct
<1> QED BY <1>2, <1>3

\* Round robin calls the next one in the list, or the first one after the last.
LEMMA RoundRobinFacts ==
  ASSUME NEW q \in Seq(Endpoint), q # <<>>, Distinct(q), NEW before \in Range(q)
  PROVE  LET k == IndexOf(q, before)
             e == RoundRobin(q, before)
         IN e \in Range(q) /\ IndexOf(q, e) = IF k = Len(q) THEN 1 ELSE k + 1
<1> DEFINE n == Len(q)
           k == IndexOf(q, before)
<1>1. n \in Nat \ {0} /\ DOMAIN q = 1..n
  OBVIOUS
<1>2. k \in 1..n
  BY IndexFacts
<1> HIDE DEF n, k
<1>3. (k % n) + 1 = IF k = n THEN 1 ELSE k + 1
  <2>1. CASE k = n
    BY <1>1, <2>1
  <2>2. CASE k # n
    BY <1>1, <1>2, <2>2
  <2> QED BY <2>1, <2>2
<1>4. RoundRobin(q, before) = q[(k % n) + 1]
  BY DEF RoundRobin, k, n
<1>5. (k % n) + 1 \in 1..n
  BY <1>1, <1>2, <1>3
<1>6. IndexOf(q, q[(k % n) + 1]) = (k % n) + 1
  BY <1>5, IndexFacts DEF n
<1> QED BY <1>1, <1>3, <1>4, <1>5, <1>6 DEF Range, k, n

\* What a step does to the balancing of a channel.
LEMMA BalancingStep ==
  ASSUME TypeInv, [Next]_vars, NEW c \in Channel
  PROVE  /\ strategy' = strategy
         /\ \/ handlers'[c] = handlers[c] /\ turns'[c] = turns[c] /\ last'[c] = last[c]
            \/ turns'[c] = <<>>
            \/ \E e \in Endpoint :
                 /\ strategy = "roundRobin" /\ handlers'[c] = handlers[c] /\ handlers[c] # <<>>
                 /\ e \in Range(handlers[c]) /\ e = RoundRobin(handlers[c], last[c])
                 /\ turns'[c] = Append(turns[c], e) /\ last'[c] = e
<1>1. SubscriptionsOK /\ BalancingOK
  BY DEF TypeInv
<1>2. ASSUME NEW e \in Endpoint, FromChannel(e), UNCHANGED subscriptions
      PROVE  \/ UNCHANGED balancing
             \/ turns'[c] = turns[c] /\ last'[c] = last[c]
             \/ /\ strategy = "roundRobin" /\ handlers[c] # <<>>
                /\ e \in Range(handlers[c]) /\ e = RoundRobin(handlers[c], last[c])
                /\ turns'[c] = Append(turns[c], e) /\ last'[c] = e
  <2> DEFINE d == Next1.to
  <2>1. /\ d \in Channel /\ handlers[d] # <<>> /\ e \in Balanced(handlers[d], last[d])
        /\ IF strategy = "random" THEN UNCHANGED balancing
           ELSE /\ last' = [last EXCEPT ![d] = e]
                /\ turns' = [turns EXCEPT ![d] = Append(turns[d], e)]
    BY <1>2 DEF FromChannel
  <2> HIDE DEF d
  <2>2. handlers[d] \in Seq(Endpoint)
    BY <1>1, <2>1 DEF SubscriptionsOK
  <2>3. /\ e \in Range(handlers[d]) /\ strategy \in {"random", "roundRobin"}
        /\ strategy = "roundRobin" => e = RoundRobin(handlers[d], last[d])
    BY <2>1, <2>2, BalancedFacts
  <2> QED BY <1>1, <2>1, <2>3 DEF BalancingOK
<1>3. ASSUME NEW e \in Endpoint, Given(e), UNCHANGED subscriptions
      PROVE  \/ UNCHANGED balancing
             \/ turns'[c] = turns[c] /\ last'[c] = last[c]
             \/ /\ strategy = "roundRobin" /\ handlers[c] # <<>>
                /\ e \in Range(handlers[c]) /\ e = RoundRobin(handlers[c], last[c])
                /\ turns'[c] = Append(turns[c], e) /\ last'[c] = e
  BY <1>2, <1>3 DEF Given, FromChain
<1>4. CASE UNCHANGED subscriptions /\ UNCHANGED balancing
  BY <1>4 DEF subscriptions, balancing
<1>5. CASE Handle
  <2>1. PICK e \in Endpoint :
          /\ Given(e) \/ UNCHANGED balancing
          /\ UNCHANGED subscriptions
    BY <1>5 DEF Handle, EndpointThrows, Transform, FilterPasses, FilterDiscards, Route, Split,
                Ignore, Correlate, Serve, ChainBegins, ChainEnds
  <2> QED BY <1>3, <1>4, <2>1 DEF subscriptions, balancing
<1>6. ASSUME NEW d \in Channel, NEW list, Changes(d, list)
      PROVE  /\ strategy' = strategy
             /\ \/ handlers'[c] = handlers[c] /\ turns'[c] = turns[c] /\ last'[c] = last[c]
                \/ turns'[c] = <<>>
  BY <1>1, <1>6 DEF Changes, SubscriptionsOK, BalancingOK
<1>7. CASE App
  <2>1. CASE \E d \in Call : Ask(d)
    BY <1>4, <2>1 DEF Ask
  <2>2. CASE \E p \in Mutable : Subscribe(p[1], p[2]) \/ Unsubscribe(p[1], p[2])
    <3>1. PICK p \in Mutable : Subscribe(p[1], p[2]) \/ Unsubscribe(p[1], p[2])
      BY <2>2
    <3>2. p[1] \in Channel
      BY WiringAssumption
    <3> QED BY <1>6, <3>1, <3>2 DEF Subscribe, Unsubscribe
  <2> QED BY <1>7, <2>1, <2>2 DEF App
<1>8. CASE ~Handle /\ ~App
  BY <1>4, <1>8 DEF Next, Turn, Unheard, Unbalanced, DeleteBucket, Settle, ServiceAnswers,
                    ServiceRejects, Settles, vars, subscriptions, balancing
<1> QED BY <1>5, <1>7, <1>8

LEMMA TurningAppend ==
  ASSUME TypeInv, NEW c \in Channel, Turning(c), strategy' = strategy, strategy = "roundRobin",
         handlers'[c] = handlers[c], handlers[c] # <<>>, NEW e \in Range(handlers[c]),
         e = RoundRobin(handlers[c], last[c]), turns'[c] = Append(turns[c], e), last'[c] = e
  PROVE  Turning(c)'
<1> DEFINE q == handlers[c]
           t == turns[c]
           u == turns'[c]
           n == Len(q)
           m == Len(t)
           Ix(x) == IndexOf(q, x)
<1>1. q \in Seq(Endpoint) /\ Distinct(q) /\ t \in Seq(Endpoint) /\ n \in Nat \ {0} /\ m \in Nat
  BY DEF TypeInv, SubscriptionsOK, BalancingOK
<1>2. e \in Endpoint
  BY <1>1 DEF Range
<1>3. Len(u) = m + 1 /\ u[m + 1] = e /\ \A i \in 1..m : u[i] = t[i]
  BY <1>1, <1>2
<1>4. \A i \in 1..m : t[i] \in Range(q)
  BY DEF Turning
<1>5. \A x \in Range(q) : Ix(x) \in 1..n
  BY <1>1, IndexFacts
<1>6. m # 0 => Ix(e) = IF Ix(t[m]) = n THEN 1 ELSE Ix(t[m]) + 1
  <2> SUFFICES ASSUME m # 0 PROVE Ix(e) = IF Ix(t[m]) = n THEN 1 ELSE Ix(t[m]) + 1
    OBVIOUS
  <2>1. last[c] = t[m] /\ t[m] \in Range(q)
    BY <1>1, <1>4 DEF Turning
  <2> QED BY <1>1, <2>1, RoundRobinFacts
<1>7. \A i, j \in 1..m : i < j /\ j < i + n =>
        Ix(t[j]) = Ix(t[i]) + (j - i) \/ Ix(t[j]) = Ix(t[i]) + (j - i) - n
  BY DEF Turning
<1> HIDE DEF t, u, n, m, Ix
<1>8. ASSUME NEW i \in 1..m, m + 1 < i + n
      PROVE  Ix(e) = Ix(t[i]) + (m + 1 - i) \/ Ix(e) = Ix(t[i]) + (m + 1 - i) - n
  <2>1. m \in 1..m /\ m # 0 /\ Ix(t[i]) \in 1..n /\ Ix(t[m]) \in 1..n
    BY <1>1, <1>4, <1>5
  <2>2. CASE i = m
    BY <1>1, <1>6, <2>1, <2>2
  <2>3. CASE i # m
    <3>1. i < m /\ m < i + n
      BY <1>1, <1>8, <2>3
    <3>2. Ix(t[m]) = Ix(t[i]) + (m - i) \/ Ix(t[m]) = Ix(t[i]) + (m - i) - n
      BY <1>7, <2>1, <3>1
    <3> DEFINE a == Ix(t[i])
               b == Ix(t[m])
               z == Ix(e)
    <3>3. a \in 1..n /\ b \in 1..n /\ z = IF b = n THEN 1 ELSE b + 1
      BY <1>6, <2>1
    <3>4. b = a + (m - i) \/ b = a + (m - i) - n
      BY <3>2
    <3> HIDE DEF a, b, z
    <3>5. i \in Nat /\ i < m /\ m + 1 < i + n
      BY <1>1, <1>8, <3>1
    <3>6. ASSUME b = n PROVE z = a + (m + 1 - i) \/ z = a + (m + 1 - i) - n
      BY <1>1, <3>3, <3>4, <3>5, <3>6
    <3>7. ASSUME b # n PROVE z = a + (m + 1 - i) \/ z = a + (m + 1 - i) - n
      BY <1>1, <3>3, <3>4, <3>5, <3>7
    <3>8. z = a + (m + 1 - i) \/ z = a + (m + 1 - i) - n
      BY <3>6, <3>7
    <3> QED BY <3>8 DEF a, z
  <2> QED BY <2>2, <2>3
<1>9. ASSUME NEW i \in 1..Len(u), NEW j \in 1..Len(u), i < j, j < i + n
      PROVE  Ix(u[j]) = Ix(u[i]) + (j - i) \/ Ix(u[j]) = Ix(u[i]) + (j - i) - n
  <2>1. i \in 1..m
    BY <1>1, <1>3, <1>9
  <2>2. CASE j \in 1..m
    BY <1>3, <1>7, <1>9, <2>1, <2>2
  <2>3. CASE j = m + 1
    BY <1>1, <1>3, <1>8, <1>9, <2>1, <2>3
  <2> QED BY <1>1, <1>3, <2>2, <2>3
<1>10. \A i \in 1..Len(u) : u[i] \in Range(q)
  <2> SUFFICES ASSUME NEW i \in 1..Len(u) PROVE u[i] \in Range(q)
    OBVIOUS
  <2>1. i \in 1..m \/ i = m + 1
    BY <1>1, <1>3
  <2> QED BY <1>3, <1>4, <2>1
<1>11. last'[c] = u[Len(u)] /\ handlers'[c] = q
  BY <1>3
<1> QED BY <1>9, <1>10, <1>11 DEF Turning, u, n, Ix

LEMMA TurnStep == ASSUME TypeInv, TurnInv, [Next]_vars PROVE TurnInv'
<1> SUFFICES ASSUME NEW c \in Channel PROVE Turning(c)'
  BY DEF TurnInv
<1>1. Turning(c)
  BY DEF TurnInv
<1>2. strategy' = strategy
  BY BalancingStep
<1>3. CASE handlers'[c] = handlers[c] /\ turns'[c] = turns[c] /\ last'[c] = last[c]
  BY <1>1, <1>2, <1>3 DEF Turning
<1>4. CASE turns'[c] = <<>>
  BY <1>4 DEF Turning
<1>5. CASE \E e \in Endpoint :
             /\ strategy = "roundRobin" /\ handlers'[c] = handlers[c] /\ handlers[c] # <<>>
             /\ e \in Range(handlers[c]) /\ e = RoundRobin(handlers[c], last[c])
             /\ turns'[c] = Append(turns[c], e) /\ last'[c] = e
  BY <1>1, <1>2, <1>5, TurningAppend
<1> QED BY <1>3, <1>4, <1>5, BalancingStep

LEMMA TurnInit == Init => TurnInv
  BY DEF Init, TurnInv, Turning

LEMMA TurnInvSuffices == TypeInv /\ TurnInv => TurnsTaken
<1> SUFFICES ASSUME TypeInv, TurnInv, NEW c \in Channel,
                    NEW i \in 1..Len(turns[c]), NEW j \in 1..Len(turns[c]),
                    i < j, j < i + Len(handlers[c])
             PROVE  turns[c][i] # turns[c][j]
  BY DEF TurnsTaken
<1> DEFINE q == handlers[c]
           x == IndexOf(q, turns[c][i])
           y == IndexOf(q, turns[c][j])
<1>1. q \in Seq(Endpoint) /\ Distinct(q) /\ Len(q) \in Nat /\ turns[c] \in Seq(Endpoint)
  BY DEF TypeInv, SubscriptionsOK, BalancingOK
<1>2. turns[c][i] \in Range(q) /\ (y = x + (j - i) \/ y = x + (j - i) - Len(q))
  BY DEF TurnInv, Turning
<1>3. x \in 1..Len(q)
  BY <1>1, <1>2, IndexFacts
<1>4. i \in Nat /\ j \in Nat /\ i < j /\ j < i + Len(q)
  BY <1>1
<1>5. Len(q) \in Nat /\ x \in Nat
  <2>1. Len(q) \in Nat
    BY <1>1
  <2> QED BY <1>3, <2>1
<1>6. y = x + (j - i) \/ y = x + (j - i) - Len(q)
  BY <1>2
<1> HIDE DEF x, y, q
<1>7. x # y
  BY <1>4, <1>5, <1>6
<1> QED BY <1>7 DEF x, y

\* While the subscribers of a channel stay the same, round robin calls all of them
\* before it calls one again (unicast.js:73-80).
THEOREM EverybodyHasTurns == Spec => []TurnsTaken
<1>1. Spec => []TypeInv
  BY InitTypes, TypeStep, PTL DEF Spec
<1> QED
  BY <1>1, TurnInit, TurnStep, TurnInvSuffices, PTL DEF Spec
-----------------------------------------------------------------------------
(* What is under way.  A token is a send of this turn, or a promise of a     *)
(* service with the channels it may settle to.  Sends are numbered from the  *)
(* last one, so that a token stays what it is while others come and go       *)
(* before it.                                                                *)

Spot(n, s) == [at |-> <<"work", n>>, msg |-> s.msg, goals |-> {s.to}]
WorkTokens(q) == {Spot(Len(q) - i, q[i]) : i \in 1..Len(q)}
TaskToken(t) ==
  [at |-> <<"task", t>>, msg |-> t.msg, goals |-> {t.reply, t.error} \ (Afters \cup {None})]
Tokens == WorkTokens(work) \cup {TaskToken(t) : t \in tasks}

\* Not the statement that deletes a bucket.
Live(x) == \A e \in Endpoint, c \in Call : Forget(e, c) \notin x.goals

\* The target is in the zone, or a chain that is subscribed there is as far.
Within(zone, to) ==
  \/ to \in zone
  \/ \E c \in Call : to = ReplyTo(c) \/ to = ErrorTo(c)
  \/ \E c \in zone : \E e \in Subscribers(c) :
       /\ Kind[e] = "chain"
       /\ \E k \in 0..Len(Stages[e]) :
            /\ to = After(e, k)
            /\ \A j \in 1..k : Kind[Stages[e][j]] \in {"transformer", "filter"}
Reached(x, zone) == \A g \in x.goals : Within(zone, g)

Unanswered(zone) == \A c \in zone : \A e \in Subscribers(c) : ~Answers(e)

\* Token y does not leave a zone that x was in, and does not answer if nobody in
\* the zone does.
Follows(c, x, y) ==
  \A zone \in SUBSET Channel : Closed(zone) /\ Reached(x, zone) =>
    /\ Reached(y, zone)
    /\ Unanswered(zone) /\ x.msg.body = <<>> /\ ReplyTo(c) \notin x.goals => ReplyTo(c) \notin y.goals
-----------------------------------------------------------------------------
(* The three phases of a call c: T are its tokens, B its buckets, p is its   *)
(* promise; L are the calls of which something was lost, F those for which   *)
(* something failed.                                                         *)

\* Before it is split, it is one message.
Unsplit(c, T, B, p, L) ==
  /\ \A e \in Endpoint : B[e] = <<>>
  /\ \A x \in T : Live(x) /\ x.msg.corr = None /\ x.msg.body = <<>>
  /\ \A x, y \in T : x = y
  /\ p = "idle" => T = {}
  /\ p = "pending" /\ c \notin L => T # {}

\* Then each of its n parts is under way to a, in the bucket of a, or was lost, or
\* failed and has rejected the call.
Divided(zone, a, n, c, T, B, p, L, F) ==
  /\ Collects(zone, a) /\ p # "idle"
  /\ \A x \in T :
       /\ Live(x) /\ x.msg.corr = c /\ x.msg.body = <<>> /\ x.msg.size = n
       /\ Reached(x, zone) /\ ReplyTo(c) \notin x.goals
  /\ \A x, y \in T : x.msg.seq = y.msg.seq => x = y
  /\ \A e \in Endpoint \ {a} : B[e] = <<>>
  /\ Len(B[a]) < n /\ \A i \in 1..Len(B[a]) : B[a][i].size = n
  /\ \A i, j \in 1..Len(B[a]) : B[a][i].seq = B[a][j].seq => i = j
  /\ \A i \in 1..Len(B[a]), x \in T : B[a][i].seq # x.msg.seq
  /\ \A k \in 0..(n-1) :
       \/ \E x \in T : x.msg.seq = k
       \/ \E i \in 1..Len(B[a]) : B[a][i].seq = k
       \/ c \in L
       \/ p # "pending" /\ c \in F

Complete(c, n, body) ==
  DOMAIN body = 1..n /\ \A i \in 1..n : body[i].part = <<c, i - 1>>

\* In the end it is one message again, made of all its parts, or the last part, if
\* the bucket could not be released.
Gathered(zone, a, n, c, T, B, p, L, F) ==
  /\ Closed(zone) /\ Lacks("splitter", zone) /\ p # "idle"
  /\ \A e \in Endpoint \ {a} : B[e] = <<>>
  /\ B[a] # <<>> => c \in F \/ \E x \in T : ~Live(x)
  /\ \A x \in T :
       \/ x.goals = {Forget(a, c)}
       \/ /\ Live(x) /\ Reached(x, zone)
          /\ \/ x.msg.corr = None /\ Complete(c, n, x.msg.body)
             \/ x.msg.corr # None /\ x.msg.body = <<>> /\ Lacks("aggregator", zone)
  /\ \A x, y \in T : Live(x) /\ Live(y) => x = y
  /\ p = "pending" /\ c \notin L => \E x \in T : Live(x)

Phase(c, T, B, p, L, F) ==
  \/ Unsplit(c, T, B, p, L)
  \/ \E zone \in SUBSET Channel, a \in Endpoint, n \in PartCounts \ {0} :
       Divided(zone, a, n, c, T, B, p, L, F) \/ Gathered(zone, a, n, c, T, B, p, L, F)

\* The message of x goes on as y.
LEMMA MovePhase ==
  ASSUME NEW c \in Call, NEW T, NEW B, NEW p, NEW L, NEW F, NEW G, F \subseteq G,
         Phase(c, T, B, p, L, F), NEW x \in T, NEW y, Live(x), Live(y), y.msg = x.msg,
         Follows(c, x, y)
  PROVE  Phase(c, (T \ {x}) \cup {y}, B, p, L, G)
<1> DEFINE U == (T \ {x}) \cup {y}
<1>1. CASE Unsplit(c, T, B, p, L)
  <2>1. U = {y}
    BY <1>1 DEF Unsplit
  <2> QED BY <1>1, <2>1 DEF Unsplit, Phase
<1>2. ASSUME NEW zone \in SUBSET Channel, NEW a \in Endpoint, NEW n \in PartCounts \ {0},
             Divided(zone, a, n, c, T, B, p, L, F)
      PROVE  Divided(zone, a, n, c, U, B, p, L, G)
  <2>1. Closed(zone) /\ Unanswered(zone)
    BY <1>2 DEF Divided, Collects, Unanswered
  <2>2. Reached(y, zone) /\ ReplyTo(c) \notin y.goals
    BY <1>2, <2>1 DEF Divided, Follows
  <2>3. \A z \in U : /\ Live(z) /\ z.msg.corr = c /\ z.msg.body = <<>> /\ z.msg.size = n
                     /\ Reached(z, zone) /\ ReplyTo(c) \notin z.goals
    BY <1>2, <2>2 DEF Divided
  <2>4. \A z \in U : \E w \in T : w.msg = z.msg
    OBVIOUS
  <2>5. \A z, w \in U : z.msg.seq = w.msg.seq => z = w
    BY <1>2 DEF Divided
  <2>6. \A w \in T : \E z \in U : w.msg = z.msg
    OBVIOUS
  <2> HIDE DEF U
  <2>7. \A i \in 1..Len(B[a]), z \in U : B[a][i].seq # z.msg.seq
    BY <1>2, <2>4 DEF Divided
  <2>8. \A k \in 0..(n-1) : \/ \E z \in U : z.msg.seq = k
                            \/ \E i \in 1..Len(B[a]) : B[a][i].seq = k
                            \/ c \in L
                            \/ p # "pending" /\ c \in G
    BY <1>2, <2>6 DEF Divided
  <2> QED BY <1>2, <2>3, <2>5, <2>7, <2>8 DEF Divided
<1>3. ASSUME NEW zone \in SUBSET Channel, NEW a \in Endpoint, NEW n \in PartCounts \ {0},
             Gathered(zone, a, n, c, T, B, p, L, F)
      PROVE  Gathered(zone, a, n, c, U, B, p, L, G)
  <2>1. x.goals # {Forget(a, c)}
    BY DEF Live
  <2>2. Reached(y, zone)
    BY <1>3, <2>1 DEF Gathered, Follows
  <2>3. \A z \in U : \/ z.goals = {Forget(a, c)}
                     \/ /\ Live(z) /\ Reached(z, zone)
                        /\ \/ z.msg.corr = None /\ Complete(c, n, z.msg.body)
                           \/ z.msg.corr # None /\ z.msg.body = <<>> /\ Lacks("aggregator", zone)
    BY <1>3, <2>1, <2>2 DEF Gathered
  <2>4. \A z, w \in U : Live(z) /\ Live(w) => z = w
    BY <1>3 DEF Gathered
  <2>5. \A z \in T : ~Live(z) => z \in U
    OBVIOUS
  <2>6. B[a] # <<>> => c \in G \/ \E z \in U : ~Live(z)
    BY <1>3, <2>5 DEF Gathered
  <2> QED BY <1>3, <2>3, <2>4, <2>6 DEF Gathered
<1> QED BY <1>1, <1>2, <1>3 DEF Phase

\* The message of x is lost.
LEMMA LosePhase ==
  ASSUME NEW c \in Call, NEW T, NEW B, NEW p, NEW L, NEW F, NEW G, F \subseteq G,
         Phase(c, T, B, p, L, F), NEW x \in T, Live(x), NEW K, c \in K
  PROVE  Phase(c, T \ {x}, B, p, K, G)
<1>1. CASE Unsplit(c, T, B, p, L)
  BY <1>1 DEF Unsplit, Phase
<1>2. ASSUME NEW zone \in SUBSET Channel, NEW a \in Endpoint, NEW n \in PartCounts \ {0},
             Divided(zone, a, n, c, T, B, p, L, F)
      PROVE  Divided(zone, a, n, c, T \ {x}, B, p, K, G)
  BY <1>2 DEF Divided
<1>3. ASSUME NEW zone \in SUBSET Channel, NEW a \in Endpoint, NEW n \in PartCounts \ {0},
             Gathered(zone, a, n, c, T, B, p, L, F)
      PROVE  Gathered(zone, a, n, c, T \ {x}, B, p, K, G)
  BY <1>3 DEF Gathered
<1> QED BY <1>1, <1>2, <1>3 DEF Phase

\* The message of x answers or rejects the call.
LEMMA SettlePhase ==
  ASSUME NEW c \in Call, NEW T, NEW B, NEW p, NEW L, NEW F,
         Phase(c, T, B, p, L, F), NEW x \in T, Live(x), ReplyTo(c) \in x.goals \/ c \in F,
         NEW q, q # "pending", q # "idle"
  PROVE  Phase(c, T \ {x}, B, q, L, F)
<1>1. CASE Unsplit(c, T, B, p, L)
  BY <1>1 DEF Unsplit, Phase
<1>2. ASSUME NEW zone \in SUBSET Channel, NEW a \in Endpoint, NEW n \in PartCounts \ {0},
             Divided(zone, a, n, c, T, B, p, L, F)
      PROVE  Divided(zone, a, n, c, T \ {x}, B, q, L, F)
  BY <1>2 DEF Divided
<1>3. ASSUME NEW zone \in SUBSET Channel, NEW a \in Endpoint, NEW n \in PartCounts \ {0},
             Gathered(zone, a, n, c, T, B, p, L, F)
      PROVE  Gathered(zone, a, n, c, T \ {x}, B, q, L, F)
  BY <1>3 DEF Gathered
<1> QED BY <1>1, <1>2, <1>3 DEF Phase

\* A bucket is deleted.
LEMMA ForgetPhase ==
  ASSUME NEW c \in Call, NEW T, NEW B, NEW C, NEW p, NEW L, NEW F, Phase(c, T, B, p, L, F),
         NEW x \in T, NEW e \in Endpoint, x.goals = {Forget(e, c)}, C[e] = <<>>,
         \A d \in Endpoint \ {e} : C[d] = B[d]
  PROVE  Phase(c, T \ {x}, C, p, L, F)
<1>1. ~Live(x)
  BY DEF Live
<1>2. ~Unsplit(c, T, B, p, L)
  BY <1>1 DEF Unsplit
<1>3. ASSUME NEW zone \in SUBSET Channel, NEW a \in Endpoint, NEW n \in PartCounts \ {0}
      PROVE  ~Divided(zone, a, n, c, T, B, p, L, F)
  BY <1>1 DEF Divided
<1>4. ASSUME NEW zone \in SUBSET Channel, NEW a \in Endpoint, NEW n \in PartCounts \ {0},
             Gathered(zone, a, n, c, T, B, p, L, F)
      PROVE  Gathered(zone, a, n, c, T \ {x}, C, p, L, F)
  <2>1. x.goals = {Forget(a, c)}
    BY <1>1, <1>4 DEF Gathered
  <2>2. e = a
    <3>1. Forget(e, c) = Forget(a, c)
      BY <2>1
    <3>2. Forget(e, c)[2] = e /\ Forget(a, c)[2] = a
      BY DEF Forget
    <3> QED BY <3>1, <3>2
  <2>3. C[a] = <<>> /\ \A d \in Endpoint \ {a} : C[d] = <<>>
    BY <1>4, <2>2 DEF Gathered
  <2>4. \A z \in T : Live(z) => z \in T \ {x}
    BY <1>1
  <2> QED BY <1>4, <2>3, <2>4 DEF Gathered
<1> QED BY <1>2, <1>3, <1>4 DEF Phase

\* The call begins.
LEMMA AskPhase ==
  ASSUME NEW c \in Call, NEW T, NEW B, NEW L, NEW F, Phase(c, T, B, "idle", L, F),
         NEW y, Live(y), y.msg.corr = None, y.msg.body = <<>>
  PROVE  T = {} /\ Phase(c, {y}, B, "pending", L, F)
<1>1. Unsplit(c, T, B, "idle", L)
  BY DEF Phase, Divided, Gathered
<1> QED BY <1>1 DEF Unsplit, Phase

\* The tokens of N come in place of x.
Replaced(T, x, N) == (T \ {x}) \cup N
Pieces(part, n) == {part[k] : k \in 1..n}

\* The message of x is split into n parts.
LEMMA SplitPhase ==
  ASSUME NEW c \in Call, NEW T, NEW B, NEW p, NEW L, NEW F, Phase(c, T, B, p, L, F), SplitOnce,
         NEW x \in T, Live(x), NEW e \in Endpoint, Kind[e] = "splitter",
         \A zone \in SUBSET Channel : Lacks("splitter", zone) => ~Reached(x, zone),
         NEW n \in PartCounts \ {0}, NEW part,
         \A k \in 1..n : /\ part[k].msg.corr = c /\ part[k].msg.seq = k - 1 /\ part[k].msg.size = n
                         /\ part[k].msg.body = x.msg.body /\ part[k].goals = {Output[e]}
  PROVE  Phase(c, Replaced(T, x, Pieces(part, n)), B, p, L, F)
<1> DEFINE U == {part[k] : k \in 1..n}
<1>1. Unsplit(c, T, B, p, L)
  BY DEF Phase, Divided, Gathered, Collects, Live
<1>2. PICK zone \in SUBSET Channel, a \in Endpoint : Output[e] \in zone /\ Collects(zone, a)
  BY DEF SplitOnce, PartsCollected
<1>3. T \ {x} = {} /\ p # "idle" /\ x.msg.body = <<>> /\ (\A d \in Endpoint : B[d] = <<>>)
  BY <1>1 DEF Unsplit
<1>4. n \in Nat /\ n > 0
  <2>1. PartCounts \subseteq Nat
    BY OptionAssumption
  <2>2. n \in Nat /\ n # 0
    BY <2>1
  <2> QED BY <2>2
<1>5. \A y \in U : /\ Live(y) /\ y.msg.corr = c /\ y.msg.body = <<>> /\ y.msg.size = n
                   /\ Reached(y, zone) /\ ReplyTo(c) \notin y.goals
  <2>1. \A d \in Endpoint, f \in Call : Output[e] # Forget(d, f)
    BY <1>2, TargetAssumption
  <2>2. Output[e] # ReplyTo(c)
    BY <1>2, TargetAssumption
  <2> QED BY <1>2, <1>3, <2>1, <2>2 DEF Live, Reached, Within
<1>6. \A y, z \in U : y.msg.seq = z.msg.seq => y = z
  <2> SUFFICES ASSUME NEW j \in 1..n, NEW k \in 1..n, part[j].msg.seq = part[k].msg.seq
               PROVE  j = k
    OBVIOUS
  <2>1. j - 1 = k - 1
    OBVIOUS
  <2> QED BY <1>4, <2>1
<1>7. \A k \in 0..(n-1) : \E y \in U : y.msg.seq = k
  <2> SUFFICES ASSUME NEW k \in 0..(n-1) PROVE part[k + 1] \in U /\ part[k + 1].msg.seq = k
    OBVIOUS
  <2>1. k + 1 \in 1..n /\ (k + 1) - 1 = k
    BY <1>4
  <2> QED BY <2>1
<1>8. B[a] = <<>> /\ Len(B[a]) = 0 /\ 1..Len(B[a]) = {}
  <2>1. B[a] = <<>>
    BY <1>3
  <2>2. Len(<<>>) = 0 /\ 1..0 = {}
    OBVIOUS
  <2> QED BY <2>1, <2>2
<1>9. Len(B[a]) < n
  BY <1>4, <1>8
<1>10. Divided(zone, a, n, c, U, B, p, L, F)
  BY <1>2, <1>3, <1>5, <1>6, <1>7, <1>8, <1>9 DEF Divided
<1>11. Replaced(T, x, Pieces(part, n)) = U
  BY <1>3 DEF Replaced, Pieces
<1>12. Phase(c, U, B, p, L, F)
  BY <1>10 DEF Phase
<1> QED BY <1>11, <1>12

\* Parts with all different numbers below their own number are sorted by these.
LEMMA SortedFacts ==
  ASSUME NEW n \in Nat, NEW b \in Seq(GoodMessages), Len(b) = n,
         \A i \in 1..n : b[i].seq < n,
         \A i, j \in 1..n : b[i].seq = b[j].seq => i = j
  PROVE  /\ \A k \in 0..(n-1) : \E i \in 1..n : b[i].seq = k
         /\ \A k \in 1..n : InOrder(b)[k].seq = k - 1 /\ \E i \in 1..n : InOrder(b)[k] = b[i]
<1>1. DOMAIN b = 1..n /\ \A i \in 1..n : b[i] \in GoodMessages
  OBVIOUS
<1>2. \A i \in 1..n : b[i].seq \in 0..(n-1)
  <2>1. \A m \in GoodMessages : m.seq \in Nat
    BY DEF GoodMessages, Messages
  <2> QED BY <1>1, <2>1
<1> DEFINE f == [i \in 1..n |-> b[i].seq + 1]
<1>3. f \in [1..n -> 1..n] /\ \A i, j \in 1..n : f[i] = f[j] => i = j
  <2>1. \A i \in 1..n : f[i] = b[i].seq + 1
    OBVIOUS
  <2>2. \A k \in 0..(n-1) : k \in Nat /\ k + 1 \in 1..n
    OBVIOUS
  <2>3. f \in [1..n -> 1..n]
    BY <1>2, <2>2
  <2>4. ASSUME NEW i \in 1..n, NEW j \in 1..n, f[i] = f[j] PROVE i = j
    <3>1. b[i].seq \in Nat /\ b[j].seq \in Nat
      BY <1>2, <2>2
    <3>2. b[i].seq = b[j].seq
      BY <2>1, <2>4, <3>1
    <3> QED BY <3>2
  <2> QED BY <2>3, <2>4
<1>4. f \in Surjection(1..n, 1..n)
  <2>1. IsFiniteSet(1..n)
    BY FS_Interval
  <2>2. f \in Injection(1..n, 1..n)
    BY <1>3 DEF Injection, IsInjective
  <2> HIDE DEF f
  <2> QED BY <2>1, <2>2, FS_Injection
<1>5. \A k \in 1..n : \E i \in 1..n : b[i].seq + 1 = k
  BY <1>4 DEF Surjection
<1>6. ASSUME NEW k \in 0..(n-1) PROVE \E i \in 1..n : b[i].seq = k
  <2>1. PICK i \in 1..n : b[i].seq + 1 = k + 1
    BY <1>5
  <2>2. b[i].seq = k
    BY <1>2, <2>1
  <2> QED BY <2>2
<1>7. ASSUME NEW i \in 1..n PROVE Position(b, i) = b[i].seq + 1
  <2> DEFINE Lower == {j \in 1..n : Behind(b, i, j)}
             s == b[i].seq
             h == [j \in Lower |-> b[j].seq + 1]
  <2>1. Position(b, i) = 1 + Cardinality(Lower)
    BY <1>1, Zenon DEF Position, Behind
  <2>2. s \in Nat /\ s < n
    BY <1>2
  <2>3. \A j \in 1..n : j \in Lower <=> b[j].seq < s
    <3>1. \A j \in 1..n : b[j].seq = s => j = i
      OBVIOUS
    <3> QED BY <1>2, <3>1 DEF Behind
  <2> HIDE DEF Lower, s
  <2>4. Lower \subseteq 1..n
    BY DEF Lower
  <2>5. h \in [Lower -> 1..s]
    BY <1>2, <2>2, <2>3, <2>4
  <2>6. \A j, k \in Lower : h[j] = h[k] => j = k
    BY <1>2, <2>4
  <2>7. ASSUME NEW k \in 1..s PROVE \E j \in Lower : h[j] = k
    <3>1. k \in 1..n
      BY <2>2
    <3>2. PICK j \in 1..n : b[j].seq + 1 = k
      BY <1>5, <3>1
    <3>3. b[j].seq < s
      BY <1>2, <2>2, <3>2
    <3> QED BY <2>3, <3>2, <3>3
  <2>8. h \in Bijection(Lower, 1..s)
    BY <2>5, <2>6, <2>7 DEF Bijection, Injection, IsInjective, Surjection
  <2>9. IsFiniteSet(Lower)
    <3>1. IsFiniteSet(1..n) /\ Lower \in SUBSET (1..n)
      BY <2>4, FS_Interval
    <3> QED BY <3>1, FS_Subset
  <2>10. Cardinality(1..s) = Cardinality(Lower)
    <3>1. ExistsBijection(Lower, 1..s)
      BY <2>8 DEF ExistsBijection
    <3> QED BY <2>9, <3>1, FS_Bijection
  <2>11. Cardinality(1..s) = s
    BY <2>2, FS_Interval
  <2>12. 1 + s = s + 1
    BY <2>2
  <2> QED BY <2>1, <2>10, <2>11, <2>12 DEF s
<1>8. ASSUME NEW k \in 1..n
      PROVE  InOrder(b)[k].seq = k - 1 /\ \E i \in 1..n : InOrder(b)[k] = b[i]
  <2>1. \A m \in GoodMessages : m.seq \in Nat
    BY DEF GoodMessages, Messages
  <2>2. PICK i \in 1..n : Position(b, i) = k /\ InOrder(b)[k] = b[i]
    BY <2>1, InOrderFacts
  <2>3. b[i].seq + 1 = k /\ b[i].seq \in Nat
    BY <1>2, <1>7, <2>2
  <2>4. b[i].seq = k - 1
    BY <2>3
  <2> QED BY <2>2, <2>4
<1> QED BY <1>6, <1>8

\* Parts of a call that get to an aggregator get to the one that collects them.
LEMMA AtAggregator ==
  ASSUME NEW c \in Call, NEW T, NEW B, NEW p, NEW L, NEW F, Phase(c, T, B, p, L, F),
         NEW x \in T, Live(x), x.msg.corr # None, NEW e \in Endpoint, Kind[e] = "aggregator",
         \A zone \in SUBSET Channel : Reached(x, zone) => \E d \in zone : e \in Handlers(d)
  PROVE  \E zone \in SUBSET Channel, n \in PartCounts \ {0} : Divided(zone, e, n, c, T, B, p, L, F)
<1>1. ~Unsplit(c, T, B, p, L)
  BY DEF Unsplit
<1>2. PICK zone \in SUBSET Channel, a \in Endpoint, n \in PartCounts \ {0} :
        Divided(zone, a, n, c, T, B, p, L, F) \/ Gathered(zone, a, n, c, T, B, p, L, F)
  BY <1>1 DEF Phase
<1>3. Reached(x, zone)
  BY <1>2 DEF Divided, Gathered, Live
<1>4. PICK d \in zone : e \in Handlers(d)
  BY <1>3
<1>5. ~Gathered(zone, a, n, c, T, B, p, L, F)
  BY <1>4 DEF Gathered, Live, Lacks
<1>6. e = a
  BY <1>2, <1>4, <1>5 DEF Divided, Collects
<1> QED BY <1>2, <1>5, <1>6

\* The message of x is put into the bucket of e, which is not full.
LEMMA StorePhase ==
  ASSUME NEW c \in Call, NEW T, NEW B, NEW C, NEW p, NEW L, NEW F,
         NEW zone \in SUBSET Channel, NEW e \in Endpoint, NEW n \in PartCounts \ {0},
         Divided(zone, e, n, c, T, B, p, L, F), NEW x \in T,
         B[e] \in Seq(GoodMessages), x.msg \in GoodMessages,
         C[e] = Append(B[e], x.msg), Len(C[e]) < n, \A d \in Endpoint \ {e} : C[d] = B[d]
  PROVE  Phase(c, Replaced(T, x, {}), C, p, L, F)
<1> DEFINE q == B[e]
           b == C[e]
           m == Len(q)
<1>1. /\ m \in Nat /\ Len(b) = m + 1 /\ b[m + 1] = x.msg /\ \A i \in 1..m : b[i] = q[i]
      /\ \A i \in 1..Len(b) : i \in 1..m \/ i = m + 1
  OBVIOUS
<1> HIDE DEF b, q, m
<1>2. /\ \A y \in T : y # x => y.msg.seq # x.msg.seq
      /\ \A i \in 1..m : q[i].size = n /\ \A y \in T : q[i].seq # y.msg.seq
      /\ \A i, j \in 1..m : q[i].seq = q[j].seq => i = j
      /\ x.msg.size = n
  BY DEF Divided, q, m
<1>3. \A i \in 1..Len(b) : b[i].size = n
  BY <1>1, <1>2
<1>4. \A i, j \in 1..Len(b) : b[i].seq = b[j].seq => i = j
  BY <1>1, <1>2
<1>5. \A i \in 1..Len(b), y \in T \ {x} : b[i].seq # y.msg.seq
  BY <1>1, <1>2
<1>6. \A k \in 0..(n-1) : \/ \E y \in T \ {x} : y.msg.seq = k
                          \/ \E i \in 1..Len(b) : b[i].seq = k
                          \/ c \in L
                          \/ p # "pending" /\ c \in F
  <2> SUFFICES ASSUME NEW k \in 0..(n-1),
                      ~(\E y \in T \ {x} : y.msg.seq = k), c \notin L, ~(p # "pending" /\ c \in F)
               PROVE  \E i \in 1..Len(b) : b[i].seq = k
    OBVIOUS
  <2>1. x.msg.seq = k \/ \E i \in 1..m : q[i].seq = k
    BY DEF Divided, q, m
  <2>2. m + 1 \in 1..Len(b) /\ \A i \in 1..m : i \in 1..Len(b)
    BY <1>1
  <2> QED BY <1>1, <2>1, <2>2
<1>7. Divided(zone, e, n, c, T \ {x}, C, p, L, F)
  <2>1. \A y \in T \ {x} : /\ Live(y) /\ y.msg.corr = c /\ y.msg.body = <<>> /\ y.msg.size = n
                           /\ Reached(y, zone) /\ ReplyTo(c) \notin y.goals
    BY DEF Divided
  <2>2. \A d \in Endpoint \ {e} : C[d] = <<>>
    BY DEF Divided
  <2>3. Collects(zone, e) /\ p # "idle" /\ \A y, z \in T \ {x} : y.msg.seq = z.msg.seq => y = z
    BY DEF Divided
  <2> QED BY <1>3, <1>4, <1>5, <1>6, <2>1, <2>2, <2>3 DEF Divided, b
<1>8. Replaced(T, x, {}) = T \ {x}
  BY DEF Replaced
<1>9. Phase(c, T \ {x}, C, p, L, F)
  BY <1>7 DEF Phase
<1> QED BY <1>8, <1>9

PartsInOrder(c, b, n) == \A k \in 1..n : b[k].seq = k - 1 /\ b[k].call = c

\* When the bucket is full all parts are in it, and none is under way.
LEMMA FullFacts ==
  ASSUME NEW c \in Call, NEW T, NEW B, NEW p, NEW L, NEW F,
         NEW zone \in SUBSET Channel, NEW e \in Endpoint, NEW n \in PartCounts \ {0},
         Divided(zone, e, n, c, T, B, p, L, F), NEW x \in T,
         B[e] \in Seq(GoodMessages), \A m \in Range(B[e]) : m.corr = c,
         \A y \in T : y.msg \in GoodMessages,
         Len(Append(B[e], x.msg)) >= n
  PROVE  /\ T = {x} /\ Len(Append(B[e], x.msg)) = n
         /\ PartsInOrder(c, InOrder(Append(B[e], x.msg)), n)
<1>13. PICK b : b = Append(B[e], x.msg)
  OBVIOUS
<1> DEFINE q == B[e]
           m == Len(q)
<1>1. /\ m \in Nat /\ Len(b) = m + 1 /\ b[m + 1] = x.msg /\ \A i \in 1..m : b[i] = q[i]
      /\ b \in Seq(GoodMessages) /\ x.msg \in GoodMessages
      /\ \A i \in 1..m : q[i] \in GoodMessages /\ q[i] \in Range(q)
      /\ Len(b) >= n
  BY <1>13 DEF Range
<1>2. n \in Nat /\ n # 0
  <2>1. PartCounts \subseteq Nat
    BY OptionAssumption
  <2> QED BY <2>1
<1> HIDE DEF q, m
<1>3. /\ \A y \in T : y # x => y.msg.seq # x.msg.seq
      /\ \A i \in 1..m : q[i].size = n /\ \A y \in T : q[i].seq # y.msg.seq
      /\ \A i, j \in 1..m : q[i].seq = q[j].seq => i = j
      /\ \A y \in T : y.msg.size = n /\ y.msg.corr = c
      /\ m < n
  BY DEF Divided, q, m
<1>4. Len(b) = n /\ n = m + 1
  BY <1>1, <1>2, <1>3
<1>5. \A i \in 1..n : i \in 1..m \/ i = m + 1
  BY <1>1, <1>4
<1>6. \A g \in GoodMessages : g.corr # None => g.corr = g.call /\ g.seq < g.size /\ g.seq \in Nat
  BY DEF GoodMessages, Messages
<1>7. c # None
  BY NoneAssumption
<1>8. \A i \in 1..n : b[i].seq < n /\ b[i].corr = c /\ b[i] \in GoodMessages
  <2>1. \A i \in 1..m : q[i].corr = c
    BY <1>1 DEF q
  <2> QED BY <1>1, <1>3, <1>5, <1>6, <1>7, <2>1
<1>9. \A i, j \in 1..n : b[i].seq = b[j].seq => i = j
  BY <1>1, <1>3, <1>5
<1>10. /\ \A k \in 0..(n-1) : \E i \in 1..n : b[i].seq = k
       /\ \A k \in 1..n : InOrder(b)[k].seq = k - 1 /\ \E i \in 1..n : InOrder(b)[k] = b[i]
  BY <1>1, <1>2, <1>4, <1>8, <1>9, SortedFacts
<1>11. ASSUME NEW y \in T, y # x PROVE FALSE
  <2>1. y.msg.seq \in 0..(n-1)
    BY <1>2, <1>3, <1>6, <1>7
  <2>2. PICK i \in 1..n : b[i].seq = y.msg.seq
    BY <1>10, <2>1
  <2> QED BY <1>1, <1>3, <1>5, <1>11, <2>2
<1>12. \A k \in 1..n : InOrder(b)[k].call = c
  <2>1. \A i \in 1..n : b[i].call = c
    BY <1>6, <1>7, <1>8
  <2> SUFFICES ASSUME NEW k \in 1..n PROVE InOrder(b)[k].call = c
    OBVIOUS
  <2>2. PICK i \in 1..n : InOrder(b)[k] = b[i]
    BY <1>10
  <2> QED BY <2>1, <2>2
<1> QED BY <1>4, <1>10, <1>11, <1>12, <1>13 DEF PartsInOrder

\* The bucket is full and is released.
LEMMA ReleasePhase ==
  ASSUME NEW c \in Call, NEW T, NEW B, NEW C, NEW p, NEW L, NEW F, SplitOnce,
         NEW zone \in SUBSET Channel, NEW e \in Endpoint, NEW n \in PartCounts \ {0},
         Divided(zone, e, n, c, T, B, p, L, F), NEW x, T = {x}, Kind[e] = "aggregator",
         \A d \in Endpoint \ {e} : C[d] = B[d],
         NEW y, y.goals = {Output[e]}, y.msg.corr = None, Complete(c, n, y.msg.body),
         NEW z, z.goals = {Forget(e, c)}
  PROVE  Phase(c, Replaced(T, x, {y, z}), C, p, L, F)
<1>1. PICK to \in SUBSET Channel : Output[e] \in to /\ Closed(to) /\ Lacks("splitter", to)
  BY DEF SplitOnce, PartsCollected
<1>2. Live(y) /\ Reached(y, to)
  <2>1. \A d \in Endpoint, f \in Call : Output[e] # Forget(d, f)
    BY <1>1, TargetAssumption
  <2> QED BY <1>1, <2>1 DEF Live, Reached, Within
<1>3. ~Live(z)
  BY DEF Live
<1>4. Replaced(T, x, {y, z}) = {y, z}
  BY DEF Replaced
<1>5. \A d \in Endpoint \ {e} : C[d] = <<>>
  BY DEF Divided
<1>6. p # "idle"
  BY DEF Divided
<1>7. Gathered(to, e, n, c, {y, z}, C, p, L, F)
  BY <1>1, <1>2, <1>3, <1>5, <1>6 DEF Gathered
<1>8. Phase(c, {y, z}, C, p, L, F)
  BY <1>7 DEF Phase
<1> QED BY <1>4, <1>8

\* The bucket is full and could not be released: the last part goes on as y, or is lost.
LEMMA UnreleasedPhase ==
  ASSUME NEW c \in Call, NEW T, NEW B, NEW C, NEW p, NEW L, NEW F,
         NEW zone \in SUBSET Channel, NEW e \in Endpoint, NEW n \in PartCounts \ {0},
         Divided(zone, e, n, c, T, B, p, L, F), NEW x, T = {x}, c \in F,
         \A d \in Endpoint \ {e} : C[d] = B[d],
         NEW Y, NEW K, Y = {} => c \in K,
         NEW spent \in SUBSET Channel, Closed(spent), Lacks("splitter", spent),
         Lacks("aggregator", spent),
         \A y \in Y : /\ Live(y) /\ y.msg = x.msg /\ Reached(y, spent)
                      /\ \A w \in Y : w = y
  PROVE  Phase(c, Replaced(T, x, Y), C, p, K, F)
<1>1. Replaced(T, x, Y) = Y
  BY DEF Replaced
<1>2. x.msg.corr # None /\ x.msg.body = <<>> /\ p # "idle"
  BY NoneAssumption DEF Divided
<1>3. \A d \in Endpoint \ {e} : C[d] = <<>>
  BY DEF Divided
<1>4. Gathered(spent, e, n, c, Y, C, p, K, F)
  BY <1>2, <1>3 DEF Gathered
<1>5. Phase(c, Y, C, p, K, F)
  BY <1>4 DEF Phase
<1> QED BY <1>1, <1>5
-----------------------------------------------------------------------------
(* The tokens after a step. *)

\* The parts of a token that is a send.
LEMMA SpotFacts ==
  ASSUME NEW n, NEW s
  PROVE  Spot(n, s).at = <<"work", n>> /\ Spot(n, s).msg = s.msg /\ Spot(n, s).goals = {s.to}
  BY DEF Spot

\* Taking the next send takes its token.
LEMMA TailTokens ==
  ASSUME NEW S, NEW q \in Seq(S), q # <<>>
  PROVE  /\ Spot(Len(q) - 1, Head(q)) \in WorkTokens(q)
         /\ WorkTokens(Tail(q)) = WorkTokens(q) \ {Spot(Len(q) - 1, Head(q))}
<1> DEFINE n == Len(q)
           r == Tail(q)
           x == Spot(n - 1, Head(q))
<1>1. /\ n \in Nat /\ n > 0 /\ Len(r) = n - 1 /\ Head(q) = q[1]
      /\ \A i \in 1..Len(r) : r[i] = q[i + 1]
  BY PopFacts
<1> HIDE DEF n, r
<1>2. x = Spot(n - 1, q[1]) /\ 1 \in 1..n
  BY <1>1
<1>3. x \in WorkTokens(q)
  BY <1>2 DEF WorkTokens, n
<1>4. ASSUME NEW y \in WorkTokens(r) PROVE y \in WorkTokens(q) /\ y # x
  <2>1. PICK i \in 1..Len(r) : y = Spot(Len(r) - i, r[i])
    BY DEF WorkTokens
  <2>2. i + 1 \in 1..n /\ Len(r) - i = n - (i + 1) /\ Len(r) - i # n - 1 /\ r[i] = q[i + 1]
    BY <1>1
  <2>3. y = Spot(n - (i + 1), q[i + 1])
    BY <2>1, <2>2
  <2>4. y \in WorkTokens(q)
    BY <2>2, <2>3 DEF WorkTokens, n
  <2>5. y.at[2] = Len(r) - i /\ x.at[2] = n - 1
    BY <2>1, SpotFacts
  <2> QED BY <2>2, <2>4, <2>5
<1>5. ASSUME NEW y \in WorkTokens(q), y # x PROVE y \in WorkTokens(r)
  <2>1. PICK i \in 1..n : y = Spot(n - i, q[i])
    BY DEF WorkTokens, n
  <2>2. i # 1
    BY <1>2, <1>5, <2>1
  <2>3. i - 1 \in 1..Len(r) /\ n - i = Len(r) - (i - 1) /\ r[i - 1] = q[i]
    <3>1. i - 1 \in 1..Len(r) /\ n - i = Len(r) - (i - 1) /\ (i - 1) + 1 = i
      BY <1>1, <2>2
    <3> QED BY <1>1, <3>1
  <2>4. y = Spot(Len(r) - (i - 1), r[i - 1])
    BY <2>1, <2>3
  <2> QED BY <2>3, <2>4 DEF WorkTokens
<1> HIDE DEF x
<1>6. WorkTokens(r) = WorkTokens(q) \ {x}
  BY <1>4, <1>5
<1> QED BY <1>3, <1>6 DEF x, n, r

\* Sends that are put in front leave the numbers of the others as they are.
LEMMA PushTokens ==
  ASSUME NEW S, NEW q \in Seq(S), NEW r \in Seq(S)
  PROVE  /\ r \o q \in Seq(S)
         /\ WorkTokens(r \o q)
              = WorkTokens(q) \cup {Spot(Len(q) + Len(r) - i, r[i]) : i \in 1..Len(r)}
<1> DEFINE p == r \o q
           n == Len(q)
           m == Len(r)
           N == {Spot(n + m - i, r[i]) : i \in 1..m}
<1>1. /\ p \in Seq(S) /\ n \in Nat /\ m \in Nat /\ Len(p) = n + m
      /\ \A i \in 1..m : p[i] = r[i]
      /\ \A i \in 1..n : p[m + i] = q[i]
  OBVIOUS
<1> HIDE DEF p, n, m
<1>2. ASSUME NEW y \in WorkTokens(p) PROVE y \in WorkTokens(q) \/ y \in N
  <2>1. PICK i \in 1..(n + m) : y = Spot(n + m - i, p[i])
    BY <1>1 DEF WorkTokens
  <2>2. CASE i \in 1..m
    BY <1>1, <2>1, <2>2
  <2>3. CASE i \notin 1..m
    <3>1. i - m \in 1..n /\ n + m - i = n - (i - m) /\ m + (i - m) = i
      BY <1>1, <2>3
    <3>2. p[i] = q[i - m]
      BY <1>1, <3>1
    <3>3. y = Spot(n - (i - m), q[i - m])
      BY <2>1, <3>1, <3>2
    <3> QED BY <3>1, <3>3 DEF WorkTokens, n
  <2> QED BY <2>2, <2>3
<1>3. ASSUME NEW y \in N PROVE y \in WorkTokens(p)
  <2>1. PICK i \in 1..m : y = Spot(n + m - i, r[i])
    OBVIOUS
  <2>2. i \in 1..Len(p) /\ y = Spot(Len(p) - i, p[i])
    BY <1>1, <2>1
  <2> QED BY <2>2 DEF WorkTokens
<1>4. ASSUME NEW y \in WorkTokens(q) PROVE y \in WorkTokens(p)
  <2>1. PICK i \in 1..n : y = Spot(n - i, q[i])
    BY DEF WorkTokens, n
  <2>2. m + i \in 1..Len(p) /\ Len(p) - (m + i) = n - i /\ p[m + i] = q[i]
    BY <1>1
  <2>3. y = Spot(Len(p) - (m + i), p[m + i])
    BY <2>1, <2>2
  <2> QED BY <2>2, <2>3 DEF WorkTokens
<1> HIDE DEF N
<1>5. WorkTokens(p) = WorkTokens(q) \cup N
  BY <1>2, <1>3, <1>4
<1> QED BY <1>1, <1>5 DEF p, n, m, N

\* The parts of a token that is a promise of a service.
LEMMA TaskTokenFacts ==
  ASSUME NEW t
  PROVE  /\ TaskToken(t).at = <<"task", t>> /\ TaskToken(t).msg = t.msg
         /\ TaskToken(t).goals = {t.reply, t.error} \ (Afters \cup {None})
         /\ \A u : TaskToken(t) = TaskToken(u) => t = u
         /\ \A q : TaskToken(t) \notin WorkTokens(q)
<1>1. /\ TaskToken(t).at = <<"task", t>> /\ TaskToken(t).msg = t.msg
      /\ TaskToken(t).goals = {t.reply, t.error} \ (Afters \cup {None})
  BY DEF TaskToken
<1>2. ASSUME NEW u, TaskToken(t) = TaskToken(u) PROVE t = u
  <2>1. TaskToken(u).at[2] = u /\ TaskToken(t).at[2] = t
    BY DEF TaskToken
  <2> QED BY <1>2, <2>1
<1>3. ASSUME NEW q, TaskToken(t) \in WorkTokens(q) PROVE FALSE
  <2>1. PICK i \in 1..Len(q) : TaskToken(t) = Spot(Len(q) - i, q[i])
    BY <1>3 DEF WorkTokens
  <2>2. TaskToken(t).at[1] = "task" /\ TaskToken(t).at[1] = "work"
    BY <1>1, <2>1, SpotFacts
  <2> QED BY <2>2
<1> QED BY <1>1, <1>2, <1>3

Top == Spot(Len(work) - 1, Next1)

\* The token of the next message.
LEMMA TopFacts ==
  ASSUME WorkOK, work # <<>>
  PROVE  /\ Top \in Tokens /\ Top.msg = Next1.msg /\ Top.goals = {Next1.to}
         /\ \A t : Top # TaskToken(t)
         /\ Top.at[1] = "work" /\ Len(Rest) = Len(work) - 1 /\ Len(work) \in Nat
<1>1. work \in Seq(Sends)
  BY DEF WorkOK
<1>2. Top \in WorkTokens(work)
  BY <1>1, TailTokens DEF Top, Next1
<1>3. Len(Rest) = Len(work) - 1 /\ Len(work) \in Nat
  BY <1>1, PopFacts DEF Rest
<1> QED BY <1>2, <1>3, TaskTokenFacts, SpotFacts DEF Tokens, Top

\* The next send is made, and others come in its place.
LEMMA TakeTokens ==
  ASSUME WorkOK, work # <<>>, UNCHANGED tasks
  PROVE  /\ work' = Rest => Tokens' = Tokens \ {Top}
         /\ \A r \in Seq(Sends) : work' = r \o Rest =>
              Tokens' = (Tokens \ {Top}) \cup {Spot(Len(Rest) + Len(r) - i, r[i]) : i \in 1..Len(r)}
<1> DEFINE P == {TaskToken(t) : t \in tasks}
<1>1. Tokens = WorkTokens(work) \cup P /\ Tokens' = WorkTokens(work') \cup P /\ Top \notin P
  BY TopFacts DEF Tokens
<1>2. work \in Seq(Sends) /\ Rest \in Seq(Sends) /\ WorkTokens(Rest) = WorkTokens(work) \ {Top}
  BY TailTokens, PopFacts DEF WorkOK, Rest, Top, Next1
<1> HIDE DEF P
<1>3. CASE work' = Rest
  BY <1>1, <1>2, <1>3
<1>4. ASSUME NEW r \in Seq(Sends), work' = r \o Rest
      PROVE  Tokens' = (Tokens \ {Top}) \cup {Spot(Len(Rest) + Len(r) - i, r[i]) : i \in 1..Len(r)}
  <2> DEFINE N == {Spot(Len(Rest) + Len(r) - i, r[i]) : i \in 1..Len(r)}
  <2>1. WorkTokens(work') = WorkTokens(Rest) \cup N
    BY <1>2, <1>4, PushTokens
  <2> HIDE DEF N
  <2>2. Tokens' = (Tokens \ {Top}) \cup N
    BY <1>1, <1>2, <2>1
  <2> QED BY <2>2 DEF N
<1>5. work' = Rest => Tokens' = Tokens \ {Top}
  BY <1>3
<1> QED BY <1>4, <1>5

\* The next message gives way to one send.
LEMMA SendTokens ==
  ASSUME WorkOK, work # <<>>, UNCHANGED tasks, NEW s \in Sends, work' = <<s>> \o Rest
  PROVE  Tokens' = (Tokens \ {Top}) \cup {Spot(Len(Rest), s)}
<1>1. <<s>> \in Seq(Sends) /\ Len(<<s>>) = 1 /\ 1..1 = {1} /\ <<s>>[1] = s
  OBVIOUS
<1>2. Len(Rest) \in Nat
  BY TopFacts
<1>3. Len(Rest) + 1 - 1 = Len(Rest)
  BY <1>2
<1>4. {Spot(Len(Rest) + Len(<<s>>) - i, <<s>>[i]) : i \in 1..Len(<<s>>)} = {Spot(Len(Rest), s)}
  BY <1>1, <1>3
<1> QED BY <1>1, <1>4, TakeTokens
-----------------------------------------------------------------------------
(* What the headers of messages name.  They name nobody but the caller, and  *)
(* nobody is sent an error of a call that did not fail.                      *)

MessageOK(m) ==
  /\ m.reply \in {None, ReplyTo(m.call)} /\ m.error \in {None, ErrorTo(m.call)}
  /\ \A i \in 1..Len(m.body) : m.body[i].reply \in {None, ReplyTo(m.call)}

\* Before it is answered, no message leaves a zone that requests are sent to, and
\* none is a reply if nobody in the zone answers.
Served(zone) == Entry \subseteq zone /\ Closed(zone) /\ Unanswered(zone)
Unreplied(x) ==
  Live(x) /\ x.msg.body = <<>> =>
    \A zone \in SUBSET Channel : Served(zone) =>
      Reached(x, zone) /\ ReplyTo(x.msg.call) \notin x.goals

GoalsOK(x, F) ==
  /\ x.at[1] # "work" => Live(x)
  /\ Unreplied(x)
  /\ \A c \in Call :
    /\ ReplyTo(c) \in x.goals \/ ErrorTo(c) \in x.goals => c = x.msg.call
    /\ x.at[1] = "work" /\ ErrorTo(c) \in x.goals => c \in F

HeadersInv ==
  /\ \A c \in Channel : Range(handlers[c]) \subseteq Subscribers(c)
  /\ \A x \in Tokens : MessageOK(x.msg) /\ GoalsOK(x, failed)
  /\ \A b \in Endpoint \X Call : \A m \in Range(buckets[b]) : MessageOK(m)

Of(c) == {x \in Tokens : x.msg.call = c}
BucketsIn(b, c) == [e \in Endpoint |-> b[<<e, c>>]]
CallsOK == \A c \in Call : Phase(c, Of(c), BucketsIn(buckets, c), promise[c], LostCalls, failed)
-----------------------------------------------------------------------------
(* Where a handler may send a message to. *)

\* What is subscribed and can be a target is one thing each.
LEMMA TargetsApart ==
  /\ \A c \in Channel \cup {None}, d \in Call : c # ReplyTo(d) /\ c # ErrorTo(d)
  /\ \A c \in Channel \cup {None}, e \in Endpoint, d \in Call : c # Forget(e, d)
  /\ \A c \in Channel \cup {None} : c \notin Afters
  /\ \A e \in Endpoint : \A k \in 0..Len(Stages[e]) : After(e, k) \in Afters
  /\ \A t \in Afters : \A c \in Call : t # ReplyTo(c) /\ t # ErrorTo(c)
  /\ \A t \in Afters : \A e \in Endpoint, c \in Call : t # Forget(e, c)
  /\ \A c, d \in Call : ReplyTo(c) # ErrorTo(d)
  /\ \A c, d \in Call : ReplyTo(c) = ReplyTo(d) => c = d
  /\ \A c, d \in Call : ErrorTo(c) = ErrorTo(d) => c = d
  /\ \A e \in Endpoint, c, d \in Call : Forget(e, d) # ReplyTo(c) /\ Forget(e, d) # ErrorTo(c)
<1>1. \A c \in Channel \cup {None}, d \in Call : c # ReplyTo(d) /\ c # ErrorTo(d)
  BY TargetAssumption
<1>2. \A c \in Channel \cup {None}, e \in Endpoint, d \in Call : c # Forget(e, d)
  BY TargetAssumption
<1>3. \A c \in Channel \cup {None} : c \notin Afters
  BY TargetAssumption
<1>4. \A e \in Endpoint : \A k \in 0..Len(Stages[e]) : After(e, k) \in Afters
  BY DEF Afters
<1>5. ASSUME NEW t \in Afters PROVE t[1] = "after"
  <2>1. PICK e \in Endpoint : t \in {After(e, k) : k \in 0..Len(Stages[e])}
    BY DEF Afters
  <2>2. PICK k \in 0..Len(Stages[e]) : t = After(e, k)
    BY <2>1
  <2> QED BY <2>2 DEF After
<1>6. \A c \in Call : ReplyTo(c)[1] = "reply" /\ ErrorTo(c)[1] = "error"
                      /\ ReplyTo(c)[2] = c /\ ErrorTo(c)[2] = c
  BY DEF ReplyTo, ErrorTo
<1>7. \A e \in Endpoint, c \in Call : Forget(e, c)[1] = "forget"
  BY DEF Forget
<1> QED BY <1>1, <1>2, <1>3, <1>4, <1>5, <1>6, <1>7

\* A chain that is k stages far belongs to the zone, and its stages pass on.
LEMMA EndsWithin ==
  ASSUME NEW zone \in SUBSET Channel, NEW e \in Endpoint, NEW k \in Nat, Within(zone, After(e, k)),
         k <= Len(Stages[e])
  PROVE  /\ Kind[e] = "chain" /\ \E c \in zone : e \in Subscribers(c)
         /\ \A j \in 1..k : Kind[Stages[e][j]] \in {"transformer", "filter"}
<1>1. k \in 0..Len(Stages[e])
  BY StageFacts
<1>2. After(e, k) \in Afters
  BY <1>1, TargetsApart
<1>3. After(e, k) \notin zone /\ \A c \in Call : After(e, k) # ReplyTo(c) /\ After(e, k) # ErrorTo(c)
  BY <1>2, TargetsApart
<1>0. PICK c \in zone : \E d \in Subscribers(c) :
        /\ Kind[d] = "chain"
        /\ \E j \in 0..Len(Stages[d]) :
             /\ After(e, k) = After(d, j)
             /\ \A i \in 1..j : Kind[Stages[d][i]] \in {"transformer", "filter"}
  BY <1>3 DEF Within
<1>4. PICK d \in Subscribers(c) :
        /\ Kind[d] = "chain"
        /\ \E j \in 0..Len(Stages[d]) :
             /\ After(e, k) = After(d, j)
             /\ \A i \in 1..j : Kind[Stages[d][i]] \in {"transformer", "filter"}
  BY <1>0
<1>5. PICK j \in 0..Len(Stages[d]) :
        /\ After(e, k) = After(d, j)
        /\ \A i \in 1..j : Kind[Stages[d][i]] \in {"transformer", "filter"}
  BY <1>4
<1>6. After(e, k)[2] = e /\ After(d, j)[2] = d /\ After(e, k)[3] = k /\ After(d, j)[3] = j
  BY DEF After
<1>7. e = d /\ k = j
  BY <1>5, <1>6
<1> QED BY <1>4, <1>5, <1>7

\* Whoever is ever subscribed is an endpoint.
LEMMA SubscribersAre == \A c \in Channel : Subscribers(c) \subseteq Endpoint
<1> SUFFICES ASSUME NEW c \in Channel, NEW e \in Range(Initial[c]) PROVE e \in Endpoint
  BY DEF Subscribers
<1>1. Initial[c] \in Seq(Endpoint)
  BY InitialAssumption
<1> QED BY <1>1 DEF Range

\* The chain and the stage of it that the next message is for.
LEMMA InChainFacts ==
  ASSUME InChain
  PROVE  \E d \in Endpoint : \E k \in 1..Len(Stages[d]) :
           /\ Next1.to = After(d, k - 1) /\ Next1.to[2] = d /\ Next1.to[3] = k - 1
           /\ (k - 1) + 1 = k /\ k - 1 \in 0..Len(Stages[d]) /\ k - 1 \in Nat /\ k \in 0..Len(Stages[d])
           /\ Override = After(d, k) /\ Override \in Afters
<1>0. PICK d \in Endpoint : \E k \in 1..Len(Stages[d]) : Next1.to = After(d, k - 1)
  BY DEF InChain, NextStages
<1>1. PICK k \in 1..Len(Stages[d]) : Next1.to = After(d, k - 1)
  BY <1>0
<1>2. Next1.to[2] = d /\ Next1.to[3] = k - 1
  BY <1>1 DEF After
<1>3. Len(Stages[d]) \in Nat
  BY StageFacts
<1>4. (k - 1) + 1 = k /\ k - 1 \in 0..Len(Stages[d]) /\ k - 1 \in Nat /\ k \in 0..Len(Stages[d])
  BY <1>3
<1>5. Override = After(d, k)
  BY <1>2, <1>4 DEF Override
<1>6. Override \in Afters
  BY <1>4, <1>5, TargetsApart
<1> QED BY <1>1, <1>2, <1>4, <1>5, <1>6

\* Whoever is given a message that is sent to a zone belongs to the zone.
LEMMA GivenWithin ==
  ASSUME TypeInv, HeadersInv, NEW e \in Endpoint, Given(e), NEW zone \in SUBSET Channel,
         Within(zone, Next1.to)
  PROVE  \E c \in zone :
           /\ e \in Handlers(c)
           /\ ~InChain => e \in Subscribers(c)
           /\ InChain => /\ Next1.to[2] \in Subscribers(c) /\ Kind[e] # "chain"
                         /\ Kind[e] \in {"transformer", "filter"} => Within(zone, Override)
<1>1. CASE FromChannel(e)
  <2> DEFINE c == Next1.to
  <2>1. c \in Channel /\ handlers[c] # <<>> /\ e \in Balanced(handlers[c], last[c])
    BY <1>1 DEF FromChannel
  <2>2. handlers[c] \in Seq(Endpoint) /\ Range(handlers[c]) \subseteq Subscribers(c)
    BY <2>1 DEF TypeInv, SubscriptionsOK, HeadersInv
  <2>3. e \in Subscribers(c)
    BY <2>1, <2>2, BalancedFacts
  <2>4. c \notin Afters /\ \A d \in Call : c # ReplyTo(d) /\ c # ErrorTo(d)
    BY <2>1, TargetsApart
  <2>5. c \in zone
    <3>1. \A d \in zone : \A f \in Subscribers(d) : f \in Endpoint
      BY SubscribersAre
    <3>2. \A d \in zone : \A f \in Subscribers(d) : \A k \in 0..Len(Stages[f]) : c # After(f, k)
      BY <2>4, <3>1, TargetsApart
    <3> QED BY <2>4, <3>2 DEF Within
  <2>6. ~InChain
    <3> SUFFICES ASSUME InChain PROVE FALSE
      OBVIOUS
    <3>1. PICK d \in Endpoint : \E k \in 1..Len(Stages[d]) :
            Next1.to = After(d, k - 1) /\ k - 1 \in 0..Len(Stages[d])
      BY InChainFacts
    <3> QED BY <2>4, <3>1, TargetsApart
  <2> QED BY <2>3, <2>5, <2>6 DEF Handlers
<1>2. CASE FromChain(e)
  <2>1. InChain /\ e = Stages[Next1.to[2]][Next1.to[3] + 1]
    BY <1>2 DEF FromChain
  <2>0. PICK d \in Endpoint : \E k \in 1..Len(Stages[d]) :
          /\ Next1.to = After(d, k - 1) /\ Next1.to[2] = d /\ Next1.to[3] = k - 1
          /\ (k - 1) + 1 = k /\ k - 1 \in 0..Len(Stages[d]) /\ k - 1 \in Nat /\ k \in 0..Len(Stages[d])
          /\ Override = After(d, k)
    BY <2>1, InChainFacts
  <2>2. PICK k \in 1..Len(Stages[d]) :
          /\ Next1.to = After(d, k - 1) /\ Next1.to[2] = d /\ Next1.to[3] = k - 1
          /\ (k - 1) + 1 = k /\ k - 1 \in 0..Len(Stages[d]) /\ k - 1 \in Nat /\ k \in 0..Len(Stages[d])
          /\ Override = After(d, k)
    BY <2>0
  <2>3. e = Stages[d][k] /\ Stages[d] \in Seq({s \in Endpoint : Kind[s] # "chain"})
    BY <2>1, <2>2, StagesAssumption
  <2>4. e \in Range(Stages[d]) /\ Kind[e] # "chain"
    BY <2>3 DEF Range
  <2> DEFINE i == k - 1
  <2>5. i \in Nat /\ i <= Len(Stages[d]) /\ Within(zone, After(d, i))
    BY <2>2
  <2> HIDE DEF i
  <2>11. /\ Kind[d] = "chain" /\ \E c \in zone : d \in Subscribers(c)
        /\ \A j \in 1..i : Kind[Stages[d][j]] \in {"transformer", "filter"}
    BY <2>5, EndsWithin
  <2>6. /\ Kind[d] = "chain" /\ \E c \in zone : d \in Subscribers(c)
        /\ \A j \in 1..(k - 1) : Kind[Stages[d][j]] \in {"transformer", "filter"}
    BY <2>11 DEF i
  <2>7. PICK c \in zone : d \in Subscribers(c)
    BY <2>6
  <2>8. e \in Handlers(c)
    BY <2>4, <2>7 DEF Handlers
  <2>9. ASSUME Kind[e] \in {"transformer", "filter"} PROVE Within(zone, Override)
    <3>1. \A j \in 1..k : j \in 1..(k - 1) \/ j = k
      OBVIOUS
    <3>2. \A j \in 1..k : Kind[Stages[d][j]] \in {"transformer", "filter"}
      BY <2>3, <2>6, <2>9, <3>1
    <3> QED BY <2>2, <2>6, <2>7, <3>2 DEF Within
  <2> QED BY <2>1, <2>2, <2>4, <2>7, <2>8, <2>9
<1> QED BY <1>1, <1>2 DEF Given
-----------------------------------------------------------------------------
(* One token goes on, or is lost; the others stay. *)

\* A phase stays what it is when more is lost or fails.
LEMMA SamePhase ==
  ASSUME NEW c \in Call, NEW T, NEW B, NEW p, NEW L, NEW F, NEW K, NEW G,
         c \in L => c \in K, c \in F => c \in G, Phase(c, T, B, p, L, F)
  PROVE  Phase(c, T, B, p, K, G)
<1>1. CASE Unsplit(c, T, B, p, L)
  BY <1>1 DEF Unsplit, Phase
<1>2. ASSUME NEW zone \in SUBSET Channel, NEW a \in Endpoint, NEW n \in PartCounts \ {0},
             Divided(zone, a, n, c, T, B, p, L, F)
      PROVE  Divided(zone, a, n, c, T, B, p, K, G)
  BY <1>2 DEF Divided
<1>3. ASSUME NEW zone \in SUBSET Channel, NEW a \in Endpoint, NEW n \in PartCounts \ {0},
             Gathered(zone, a, n, c, T, B, p, L, F)
      PROVE  Gathered(zone, a, n, c, T, B, p, K, G)
  BY <1>3 DEF Gathered
<1> QED BY <1>1, <1>2, <1>3 DEF Phase

\* What is lost stays lost.
LEMMA LostFacts ==
  /\ \A m, how : Loses(m, how) => LostCalls \subseteq LostCalls' /\ m.call \in LostCalls'
  /\ UNCHANGED lost => LostCalls' = LostCalls
<1>1. ASSUME NEW m, NEW how, Loses(m, how)
      PROVE  LostCalls \subseteq LostCalls' /\ m.call \in LostCalls'
  <2>1. lost' = lost \cup {<<m.call, how>>} /\ <<m.call, how>>[1] = m.call
    BY <1>1 DEF Loses
  <2> QED BY <2>1 DEF LostCalls
<1> QED BY <1>1 DEF LostCalls

\* A step that concerns one call.
LEMMA CallsStep ==
  ASSUME CallsOK, NEW x \in Tokens, NEW N, NEW d \in Call, x.msg.call = d,
         \A y \in N : y.msg.call = d, Tokens' = Replaced(Tokens, x, N),
         failed \subseteq failed', LostCalls \subseteq LostCalls',
         \A c \in Call \ {d} : promise'[c] = promise[c] /\ BucketsIn(buckets', c) = BucketsIn(buckets, c),
         Phase(d, Replaced(Of(d), x, N), BucketsIn(buckets', d), promise'[d], LostCalls', failed')
  PROVE  CallsOK'
<1>1. Of(d)' = Replaced(Of(d), x, N)
  BY DEF Of, Replaced
<1>2. \A c \in Call \ {d} : Of(c)' = Of(c)
  BY DEF Of, Replaced
<1>3. ASSUME NEW c \in Call \ {d}
      PROVE  Phase(c, Of(c)', BucketsIn(buckets', c), promise'[c], LostCalls', failed')
  <2>1. Phase(c, Of(c), BucketsIn(buckets, c), promise[c], LostCalls, failed)
    BY DEF CallsOK
  <2>2. Phase(c, Of(c), BucketsIn(buckets, c), promise[c], LostCalls', failed')
    BY <2>1, SamePhase
  <2> QED BY <1>2, <1>3, <2>2
<1>4. ASSUME NEW c \in Call
      PROVE  Phase(c, Of(c)', BucketsIn(buckets', c), promise'[c], LostCalls', failed')
  BY <1>1, <1>3
<1> QED BY <1>4 DEF CallsOK

\* Where the message of x may go on to; F are the calls for which something failed.
Proper(x, to, F) ==
  /\ \A e \in Endpoint, c \in Call : to # Forget(e, c)
  /\ \A c \in Call : to = ReplyTo(c) \/ to = ErrorTo(c) => c = x.msg.call
  /\ \A c \in Call : to = ErrorTo(c) => c \in F
  /\ \A zone \in SUBSET Channel : Closed(zone) /\ Reached(x, zone) =>
       /\ Within(zone, to)
       /\ Unanswered(zone) /\ x.msg.body = <<>> =>
            \A c \in Call : ReplyTo(c) \notin x.goals => to # ReplyTo(c)

\* What is under way are messages of calls.
LEMMA TokenFacts ==
  ASSUME TypeInv, NEW x \in Tokens
  PROVE  x.msg \in GoodMessages /\ x.msg.call \in Call
<1>1. x.msg \in GoodMessages
  <2>1. CASE x \in WorkTokens(work)
    <3>1. PICK i \in 1..Len(work) : x = Spot(Len(work) - i, work[i])
      BY <2>1 DEF WorkTokens
    <3>2. work[i] \in Sends
      BY DEF TypeInv, WorkOK
    <3> QED BY <3>1, <3>2, SpotFacts DEF Sends
  <2>2. CASE x \in {TaskToken(t) : t \in tasks}
    <3>1. PICK t \in tasks : x = TaskToken(t)
      BY <2>2
    <3>2. t \in Tasks
      BY DEF TypeInv, WorkOK
    <3> QED BY <3>1, <3>2, TaskTokenFacts DEF Tasks
  <2> QED BY <2>1, <2>2 DEF Tokens
<1> QED BY <1>1 DEF GoodMessages, Messages

\* A step in which one message goes on to proper places, or is lost.
LEMMA MoveStep ==
  ASSUME TypeInv, HeadersInv, CallsOK, NEW x \in Tokens, Live(x),
         UNCHANGED <<handlers, buckets, promise>>, failed \subseteq failed',
         LostCalls \subseteq LostCalls',
         \/ Tokens' = Tokens \ {x} /\ x.msg.call \in LostCalls'
         \/ \E y : /\ Tokens' = (Tokens \ {x}) \cup {y} /\ y.msg = x.msg
                   /\ \A g \in y.goals : Proper(x, g, IF y.at[1] = "work" THEN failed' ELSE Call)
  PROVE  HeadersInv' /\ CallsOK'
<1>0. PICK d \in Call : d = x.msg.call
  BY TokenFacts
<1>1. d \in Call /\ x \in Of(d) /\ x.msg.call = d
  BY <1>0 DEF Of
<1>2. Phase(d, Of(d), BucketsIn(buckets, d), promise[d], LostCalls, failed)
  BY <1>1 DEF CallsOK
<1>3. \A c \in Call : BucketsIn(buckets', c) = BucketsIn(buckets, c)
  OBVIOUS
<1>4. \A z \in Tokens : MessageOK(z.msg) /\ GoalsOK(z, failed')
  BY DEF HeadersInv, GoalsOK
<1>5. CASE Tokens' = Tokens \ {x} /\ d \in LostCalls'
  <2>1. Phase(d, Of(d) \ {x}, BucketsIn(buckets, d), promise[d], LostCalls', failed')
    BY <1>1, <1>2, <1>5, LosePhase
  <2>2. Of(d) \ {x} = Replaced(Of(d), x, {}) /\ Tokens \ {x} = Replaced(Tokens, x, {})
    BY DEF Replaced
  <2>3. Phase(d, Replaced(Of(d), x, {}), BucketsIn(buckets', d), promise'[d], LostCalls', failed')
    BY <1>1, <1>3, <2>1, <2>2
  <2>4. Tokens' = Replaced(Tokens, x, {})
    BY <1>5, <2>2
  <2>5. CallsOK'
    <3>1. \A y \in {} : y.msg.call = d
      OBVIOUS
    <3>2. \A c \in Call \ {d} : promise'[c] = promise[c] /\ BucketsIn(buckets', c) = BucketsIn(buckets, c)
      BY <1>3
    <3> QED BY <1>1, <2>3, <2>4, <3>1, <3>2, CallsStep
  <2>6. HeadersInv'
    BY <1>4, <1>5 DEF HeadersInv
  <2> QED BY <2>5, <2>6
<1>6. CASE \E y : /\ Tokens' = (Tokens \ {x}) \cup {y} /\ y.msg = x.msg
                  /\ \A g \in y.goals : Proper(x, g, IF y.at[1] = "work" THEN failed' ELSE Call)
  <2>1. PICK y : /\ Tokens' = (Tokens \ {x}) \cup {y} /\ y.msg = x.msg
                 /\ \A g \in y.goals : Proper(x, g, IF y.at[1] = "work" THEN failed' ELSE Call)
    BY <1>6
  <2>2. Live(y)
    BY <2>1 DEF Live, Proper
  <2>3. Follows(d, x, y)
    <3>1. ASSUME NEW zone \in SUBSET Channel, Closed(zone), Reached(x, zone)
          PROVE  /\ Reached(y, zone)
                 /\ Unanswered(zone) /\ x.msg.body = <<>> /\ ReplyTo(d) \notin x.goals
                      => ReplyTo(d) \notin y.goals
      <4>1. \A g \in y.goals :
              /\ Within(zone, g)
              /\ Unanswered(zone) /\ x.msg.body = <<>> =>
                   \A c \in Call : ReplyTo(c) \notin x.goals => g # ReplyTo(c)
        BY <2>1, <3>1 DEF Proper
      <4> QED BY <1>1, <4>1 DEF Reached
    <3> QED BY <3>1 DEF Follows
  <2>4. GoalsOK(y, failed')
    <3>1. \A g \in y.goals : \A c \in Call : g = ReplyTo(c) \/ g = ErrorTo(c) => c = y.msg.call
      BY <2>1 DEF Proper
    <3>2. y.at[1] = "work" => \A g \in y.goals : \A c \in Call : g = ErrorTo(c) => c \in failed'
      BY <2>1 DEF Proper
    <3>3. Unreplied(y)
      <4>1. Unreplied(x)
        BY DEF HeadersInv, GoalsOK
      <4>2. \A zone \in SUBSET Channel : Served(zone) => Closed(zone) /\ Unanswered(zone)
        BY DEF Served
      <4> QED BY <1>1, <2>1, <2>3, <4>1, <4>2 DEF Unreplied, Follows
    <3> QED BY <2>2, <3>1, <3>2, <3>3 DEF GoalsOK
  <2>5. Phase(d, (Of(d) \ {x}) \cup {y}, BucketsIn(buckets, d), promise[d], LostCalls, failed')
    BY <1>1, <1>2, <2>1, <2>2, <2>3, MovePhase
  <2>6. Phase(d, Replaced(Of(d), x, {y}), BucketsIn(buckets', d), promise'[d], LostCalls', failed')
    <3>1. Phase(d, (Of(d) \ {x}) \cup {y}, BucketsIn(buckets, d), promise[d], LostCalls', failed')
      BY <1>1, <2>5, SamePhase
    <3> QED BY <1>1, <1>3, <3>1 DEF Replaced
  <2>7. CallsOK'
    <3>1. \A z \in {y} : z.msg.call = d
      BY <1>1, <2>1
    <3>2. Tokens' = Replaced(Tokens, x, {y})
      BY <2>1 DEF Replaced
    <3>3. \A c \in Call \ {d} : promise'[c] = promise[c] /\ BucketsIn(buckets', c) = BucketsIn(buckets, c)
      BY <1>3
    <3> QED BY <1>1, <2>6, <3>1, <3>2, <3>3, CallsStep
  <2>8. HeadersInv'
    <3>1. MessageOK(y.msg)
      BY <1>4, <2>1
    <3>2. \A z \in Tokens' : MessageOK(z.msg) /\ GoalsOK(z, failed')
      BY <1>4, <2>1, <2>4, <3>1
    <3> QED BY <3>2 DEF HeadersInv
  <2> QED BY <2>7, <2>8
<1> QED BY <1>1, <1>5, <1>6
-----------------------------------------------------------------------------
(* Where handlers send messages is proper. *)

\* A channel that somebody in the zone passes on to is proper.
LEMMA ProperChannel ==
  ASSUME NEW x, NEW F, NEW e \in Endpoint, NEW to \in Passes(e), to \in Channel,
         \A zone \in SUBSET Channel : Reached(x, zone) => \E c \in zone : e \in Handlers(c)
  PROVE  Proper(x, to, F)
<1>1. \A zone \in SUBSET Channel : Closed(zone) /\ Reached(x, zone) => Within(zone, to)
  BY DEF Closed, Within
<1> QED BY <1>1, TargetsApart DEF Proper

\* So is the reply of a message that may be answered,
LEMMA ProperReply ==
  ASSUME NEW x, x.msg.call \in Call, NEW F,
         \/ x.msg.body # <<>>
         \/ \A zone \in SUBSET Channel : Reached(x, zone) =>
              \E c \in zone : \E e \in Subscribers(c) : Answers(e)
  PROVE  Proper(x, ReplyTo(x.msg.call), F)
<1> DEFINE to == ReplyTo(x.msg.call)
<1>1. \A e \in Endpoint, c \in Call : to # Forget(e, c)
  BY TargetsApart
<1>2. \A c \in Call : to # ErrorTo(c) /\ (to = ReplyTo(c) => c = x.msg.call)
  BY TargetsApart
<1>3. \A zone \in SUBSET Channel : Within(zone, to)
  BY DEF Within
<1>4. \A zone \in SUBSET Channel : Reached(x, zone) => ~(Unanswered(zone) /\ x.msg.body = <<>>)
  BY DEF Unanswered
<1> HIDE DEF to
<1>5. Proper(x, to, F)
  BY <1>1, <1>2, <1>3, <1>4 DEF Proper
<1> QED BY <1>5 DEF to

\* the error channel of a call that failed,
LEMMA ProperError ==
  ASSUME NEW x, x.msg.call \in Call, NEW F, x.msg.call \in F
  PROVE  Proper(x, ErrorTo(x.msg.call), F)
<1> DEFINE to == ErrorTo(x.msg.call)
<1>1. \A e \in Endpoint, c \in Call : to # Forget(e, c)
  BY TargetsApart
<1>2. \A c \in Call : to # ReplyTo(c) /\ (to = ErrorTo(c) => c = x.msg.call)
  BY TargetsApart
<1>3. \A zone \in SUBSET Channel : Within(zone, to)
  BY DEF Within
<1> HIDE DEF to
<1>5. Proper(x, to, F)
  BY <1>1, <1>2, <1>3 DEF Proper
<1> QED BY <1>5 DEF to

\* and the next stage of a chain.
LEMMA ProperStage ==
  ASSUME NEW x, NEW F, NEW to \in Afters,
         \A zone \in SUBSET Channel : Reached(x, zone) => Within(zone, to)
  PROVE  Proper(x, to, F)
BY TargetsApart DEF Proper

\* Who is given the next message belongs to the zones it is in.
LEMMA TopGiven ==
  ASSUME TypeInv, HeadersInv, NEW e \in Endpoint, Given(e)
  PROVE  /\ Top \in Tokens /\ Live(Top) /\ Top.msg = Next1.msg /\ Top.goals = {Next1.to}
         /\ Next1.msg.call \in Call /\ MessageOK(Next1.msg)
         /\ \A zone \in SUBSET Channel : Reached(Top, zone) =>
              /\ Within(zone, Next1.to)
              /\ \E c \in zone : e \in Handlers(c)
              /\ ~InChain => \E c \in zone : e \in Subscribers(c)
              /\ InChain => \E c \in zone : Next1.to[2] \in Handlers(c)
              /\ InChain /\ Kind[e] \in {"transformer", "filter"} => Within(zone, Override)
<1>1. work # <<>> /\ WorkOK
  BY GivenFacts DEF TypeInv
<1>2. Top \in Tokens /\ Top.msg = Next1.msg /\ Top.goals = {Next1.to} /\ Next1.msg.call \in Call
  BY <1>1, TopFacts, WorkFacts
<1>3. MessageOK(Next1.msg)
  BY <1>2 DEF HeadersInv
<1>4. Next1.to \in Channel \/ Next1.to \in Afters
  <2>1. CASE FromChannel(e)
    BY <2>1 DEF FromChannel
  <2>2. CASE FromChain(e)
    <3>0. PICK d \in Endpoint : \E k \in 1..Len(Stages[d]) :
            Next1.to = After(d, k - 1) /\ k - 1 \in 0..Len(Stages[d])
      BY <2>2, InChainFacts DEF FromChain
    <3>1. PICK k \in 1..Len(Stages[d]) : Next1.to = After(d, k - 1) /\ k - 1 \in 0..Len(Stages[d])
      BY <3>0
    <3> DEFINE j == k - 1
    <3>2. j \in 0..Len(Stages[d]) /\ Next1.to = After(d, j)
      BY <3>1
    <3> HIDE DEF j
    <3> QED BY <3>2, TargetsApart
  <2> QED BY <2>1, <2>2 DEF Given
<1>5. Live(Top)
  BY <1>2, <1>4, TargetsApart DEF Live
<1>6. ASSUME NEW zone \in SUBSET Channel, Reached(Top, zone)
      PROVE  /\ Within(zone, Next1.to)
             /\ \E c \in zone : e \in Handlers(c)
             /\ ~InChain => \E c \in zone : e \in Subscribers(c)
             /\ InChain => \E c \in zone : Next1.to[2] \in Handlers(c)
             /\ InChain /\ Kind[e] \in {"transformer", "filter"} => Within(zone, Override)
  <2>1. Within(zone, Next1.to)
    BY <1>2, <1>6 DEF Reached
  <2>2. PICK c \in zone :
           /\ e \in Handlers(c)
           /\ ~InChain => e \in Subscribers(c)
           /\ InChain => /\ Next1.to[2] \in Subscribers(c) /\ Kind[e] # "chain"
                         /\ Kind[e] \in {"transformer", "filter"} => Within(zone, Override)
    BY <2>1, GivenWithin
  <2>3. Subscribers(c) \subseteq Handlers(c)
    BY DEF Handlers
  <2> QED BY <2>1, <2>2, <2>3
<1> QED BY <1>2, <1>3, <1>5, <1>6

\* Where a handler forwards to is proper.
LEMMA OutputProper ==
  ASSUME TypeInv, HeadersInv, NEW e \in Endpoint, Given(e), NEW F,
         Kind[e] \in {"transformer", "filter", "service"}, Kind[e] = "service" => ~InChain,
         NextOutput(e, Next1.msg) # None
  PROVE  Proper(Top, NextOutput(e, Next1.msg), F)
<1> DEFINE m == Next1.msg
<1>1. CASE InChain
  <2>0. PICK d \in Endpoint : \E k \in 1..Len(Stages[d]) : Override \in Afters
    BY <1>1, InChainFacts
  <2>1. NextOutput(e, m) = Override /\ Override \in Afters
    BY <1>1, <2>0 DEF NextOutput
  <2>2. \A zone \in SUBSET Channel : Reached(Top, zone) => Within(zone, Override)
    BY <1>1, TopGiven
  <2>3. Proper(Top, Override, F)
    BY <2>1, <2>2, ProperStage
  <2> QED BY <2>1, <2>3
<1>2. CASE ~InChain /\ Output[e] # None
  <2>1. NextOutput(e, m) = Output[e] /\ Output[e] \in Channel
    BY <1>2, WiringFacts DEF NextOutput
  <2>2. Output[e] \in Passes(e)
    BY <1>2 DEF Passes
  <2>3. \A zone \in SUBSET Channel : Reached(Top, zone) => \E c \in zone : e \in Handlers(c)
    BY TopGiven
  <2>4. Proper(Top, Output[e], F)
    BY <2>1, <2>2, <2>3, ProperChannel
  <2> QED BY <2>1, <2>4
<1>3. CASE ~InChain /\ Output[e] = None
  <2>1. NextOutput(e, m) = m.reply /\ m.reply # None
    BY <1>3 DEF NextOutput
  <2>2. m.reply = ReplyTo(m.call) /\ Top.msg = m /\ m.call \in Call
    BY <2>1, TopGiven DEF MessageOK
  <2>3. Answers(e)
    BY <1>3 DEF Answers
  <2>4. \A zone \in SUBSET Channel : Reached(Top, zone) => \E c \in zone : e \in Subscribers(c)
    BY <1>3, TopGiven
  <2>5. \A zone \in SUBSET Channel : Reached(Top, zone) =>
          \E c \in zone : \E d \in Subscribers(c) : Answers(d)
    BY <2>3, <2>4
  <2>6. Proper(Top, ReplyTo(Top.msg.call), F)
    BY <2>2, <2>5, ProperReply
  <2> QED BY <2>1, <2>2, <2>6
<1> QED BY <1>1, <1>2, <1>3

\* Where its error goes is proper.
LEMMA ErrorProper ==
  ASSUME TypeInv, HeadersInv, NEW e \in Endpoint, Given(e), NEW F, Next1.msg.call \in F,
         NextError(e, Next1.msg) # None
  PROVE  Proper(Top, NextError(e, Next1.msg), F)
<1> DEFINE m == Next1.msg
<1>1. CASE Errors[e] # None
  <2>1. NextError(e, m) = Errors[e] /\ Errors[e] \in Channel
    BY <1>1, WiringFacts DEF NextError
  <2>2. Errors[e] \in Passes(e)
    BY <1>1 DEF Passes
  <2>3. \A zone \in SUBSET Channel : Reached(Top, zone) => \E c \in zone : e \in Handlers(c)
    BY TopGiven
  <2>4. Proper(Top, Errors[e], F)
    BY <2>1, <2>2, <2>3, ProperChannel
  <2> QED BY <2>1, <2>4
<1>2. CASE Errors[e] = None
  <2>1. NextError(e, m) = m.error /\ m.error # None
    BY <1>2 DEF NextError
  <2>2. m.error = ErrorTo(m.call) /\ Top.msg = m /\ m.call \in Call
    BY <2>1, TopGiven DEF MessageOK
  <2>5. Proper(Top, ErrorTo(Top.msg.call), F)
    BY <2>2, ProperError
  <2> QED BY <2>1, <2>2, <2>5
<1> QED BY <1>1, <1>2

ThrownTo(e) == ErrorTarget(e, Next1.msg)

\* Where the error of a stage goes is proper.
LEMMA ThrownProper ==
  ASSUME TypeInv, HeadersInv, NEW e \in Endpoint, Given(e), NEW F, Next1.msg.call \in F,
         ThrownTo(e) # None
  PROVE  Proper(Top, ThrownTo(e), F)
<1>1. CASE NextError(e, Next1.msg) # None \/ ~InChain
  BY <1>1, ErrorProper DEF ThrownTo, ErrorTarget
<1>2. CASE NextError(e, Next1.msg) = None /\ InChain
  <2> DEFINE d == Next1.to[2]
  <2>1. ThrownTo(e) = Errors[d] /\ d \in Endpoint /\ Errors[d] \in Channel
    BY <1>2, GivenFacts DEF ThrownTo, ErrorTarget
  <2>2. Errors[d] \in Passes(d)
    BY <2>1 DEF Passes
  <2>3. \A zone \in SUBSET Channel : Reached(Top, zone) => \E c \in zone : d \in Handlers(c)
    BY <1>2, TopGiven
  <2> HIDE DEF d
  <2>4. Proper(Top, Errors[d], F)
    BY <2>1, <2>2, <2>3, ProperChannel
  <2> QED BY <2>1, <2>4
<1> QED BY <1>1, <1>2
-----------------------------------------------------------------------------
(* The next message goes on, or is lost. *)

\* The next message is sent on as it is.
LEMMA GoesOn ==
  ASSUME TypeInv, HeadersInv, CallsOK, work # <<>>, Live(Top),
         UNCHANGED <<handlers, tasks, buckets, promise, lost>>, failed \subseteq failed',
         NEW to \in Targets, work' = <<Send(to, Next1.msg)>> \o Rest, Proper(Top, to, failed')
  PROVE  HeadersInv' /\ CallsOK'
<1>1. WorkOK
  BY DEF TypeInv
<1>2. Top \in Tokens /\ Top.msg = Next1.msg
  BY <1>1, TopFacts
<1> DEFINE s == Send(to, Next1.msg)
<1>3. s \in Sends /\ s.to = to /\ s.msg = Next1.msg
  BY <1>1, WorkFacts DEF Send, Sends
<1> HIDE DEF s
<1>4. work' = <<s>> \o Rest
  BY DEF s
<1>5. PICK y : y = Spot(Len(Rest), s)
  OBVIOUS
<1>6. Tokens' = (Tokens \ {Top}) \cup {y}
  BY <1>1, <1>3, <1>4, <1>5, SendTokens
<1>7. y.at[1] = "work" /\ y.msg = Next1.msg /\ y.goals = {to}
  BY <1>3, <1>5, SpotFacts
<1>8. LostCalls' = LostCalls
  BY LostFacts
<1>9. \A g \in y.goals : Proper(Top, g, IF y.at[1] = "work" THEN failed' ELSE Call)
  BY <1>7
<1>10. \E z : /\ Tokens' = (Tokens \ {Top}) \cup {z} /\ z.msg = Top.msg
              /\ \A g \in z.goals : Proper(Top, g, IF z.at[1] = "work" THEN failed' ELSE Call)
  BY <1>2, <1>6, <1>7, <1>9
<1>11. UNCHANGED <<handlers, buckets, promise>> /\ LostCalls \subseteq LostCalls'
  BY <1>8
<1> QED BY <1>2, <1>10, <1>11, MoveStep

\* The next message ends.
LEMMA IsLost ==
  ASSUME TypeInv, HeadersInv, CallsOK, work # <<>>, Live(Top),
         UNCHANGED <<handlers, tasks, buckets, promise>>, failed \subseteq failed',
         work' = Rest, NEW how, Loses(Next1.msg, how)
  PROVE  HeadersInv' /\ CallsOK'
<1>1. WorkOK
  BY DEF TypeInv
<1>2. Top \in Tokens /\ Top.msg = Next1.msg
  BY <1>1, TopFacts
<1>3. Tokens' = Tokens \ {Top}
  BY <1>1, TakeTokens
<1>4. LostCalls \subseteq LostCalls' /\ Next1.msg.call \in LostCalls'
  BY LostFacts
<1>5. UNCHANGED <<handlers, buckets, promise>> /\ Top.msg.call \in LostCalls'
  BY <1>2, <1>4
<1> QED BY <1>2, <1>3, <1>4, <1>5, MoveStep

\* The next message is forwarded, if there is an output.
LEMMA ForwardsOn ==
  ASSUME TypeInv, HeadersInv, CallsOK, work # <<>>, Live(Top),
         UNCHANGED <<handlers, tasks, buckets, promise, failed>>,
         NEW to \in Targets, Forwards(Next1.msg, to), to # None => Proper(Top, to, failed')
  PROVE  HeadersInv' /\ CallsOK'
<1>1. CASE to = None
  BY <1>1, IsLost DEF Forwards
<1>2. CASE to # None
  BY <1>2, GoesOn DEF Forwards
<1> QED BY <1>1, <1>2

\* The next message is sent to an error channel, if there is one.
LEMMA ThrowsOn ==
  ASSUME TypeInv, HeadersInv, CallsOK, NEW e \in Endpoint, Given(e), Throws(e, Next1.msg),
         UNCHANGED <<handlers, tasks, buckets, promise>>
  PROVE  HeadersInv' /\ CallsOK'
<1>1. /\ failed' = failed \cup {Next1.msg.call}
      /\ IF ThrownTo(e) = None THEN Loses(Next1.msg, "invalid") /\ work' = Rest
         ELSE work' = <<Send(ThrownTo(e), Next1.msg)>> \o Rest /\ UNCHANGED lost
  BY GivenFacts, ThrowsAtOnce DEF TypeInv, ThrownTo
<1>2. failed \subseteq failed' /\ Next1.msg.call \in failed'
  BY <1>1
<1>3. work # <<>> /\ Live(Top)
  BY GivenFacts, TopGiven
<1>4. ThrownTo(e) \in Targets
  BY GivenFacts, TargetFacts DEF ThrownTo, ErrorTarget
<1>5. CASE ThrownTo(e) = None
  BY <1>1, <1>2, <1>3, <1>5, IsLost
<1>6. CASE ThrownTo(e) # None
  <2>1. Proper(Top, ThrownTo(e), failed')
    BY <1>2, <1>6, ThrownProper
  <2> QED BY <1>1, <1>2, <1>3, <1>4, <1>6, <2>1, GoesOn
<1> QED BY <1>5, <1>6
-----------------------------------------------------------------------------
(* The steps that pass a message on or lose it. *)

\* Nobody takes the message.
LEMMA UntakenCalls ==
  ASSUME TypeInv, HeadersInv, CallsOK, Unheard \/ Unbalanced
  PROVE  HeadersInv' /\ CallsOK'
<1>1. work # <<>> /\ Next1.to \in Channel /\ WorkOK
  BY DEF Unheard, Unbalanced, ToChannel, TypeInv
<1>2. Live(Top)
  BY <1>1, TopFacts, TargetsApart DEF Live
<1>3. /\ UNCHANGED <<handlers, tasks, buckets, promise>> /\ failed \subseteq failed' /\ work' = Rest
      /\ \E how : Loses(Next1.msg, how)
  BY DEF Unheard, Unbalanced, subscriptions, gateway
<1> QED BY <1>1, <1>2, <1>3, IsLost

\* Transformers, filters, and an aggregator that ignores the message.
LEMMA FilterCalls ==
  ASSUME TypeInv, HeadersInv, CallsOK, NEW e \in Endpoint,
         Transform(e) \/ FilterPasses(e) \/ FilterDiscards(e) \/ Ignore(e)
  PROVE  HeadersInv' /\ CallsOK'
<1>1. Given(e) /\ UNCHANGED <<handlers, tasks, buckets, promise, failed>>
  BY DEF Transform, FilterPasses, FilterDiscards, Ignore, subscriptions, gateway
<1>2. work # <<>> /\ Live(Top) /\ failed \subseteq failed' /\ NextOutput(e, Next1.msg) \in Targets
  BY <1>1, GivenFacts, TopGiven
<1>3. CASE Transform(e) \/ FilterPasses(e)
  <2>0. Kind[e] \in {"transformer", "filter", "service"} /\ Kind[e] # "service"
    BY <1>3 DEF Transform, FilterPasses
  <2>1. Forwards(Next1.msg, NextOutput(e, Next1.msg))
    BY <1>3 DEF Transform, FilterPasses
  <2>2. ASSUME NextOutput(e, Next1.msg) # None PROVE Proper(Top, NextOutput(e, Next1.msg), failed')
    <3> QED BY <1>1, <2>0, <2>2, OutputProper
  <2> QED BY <1>1, <1>2, <2>1, <2>2, ForwardsOn
<1>4. CASE FilterDiscards(e)
  <2>1. CASE Discard[e] = None
    <3>1. Loses(Next1.msg, "discarded") /\ work' = Rest
      BY <1>4, <2>1 DEF FilterDiscards
    <3> QED BY <1>1, <1>2, <3>1, IsLost
  <2>2. CASE Discard[e] # None
    <3>1. work' = <<Send(Discard[e], Next1.msg)>> \o Rest /\ UNCHANGED lost
      BY <1>4, <2>2 DEF FilterDiscards
    <3>2. Discard[e] \in Channel /\ Discard[e] \in Targets
      BY <2>2, WiringFacts, TargetFacts
    <3>3. Discard[e] \in Passes(e)
      BY <1>4, <2>2 DEF FilterDiscards, Passes
    <3>4. \A zone \in SUBSET Channel : Reached(Top, zone) => \E c \in zone : e \in Handlers(c)
      BY <1>1, TopGiven
    <3>5. Proper(Top, Discard[e], failed')
      BY <3>2, <3>3, <3>4, ProperChannel
    <3> QED BY <1>1, <1>2, <3>1, <3>2, <3>5, GoesOn
  <2> QED BY <2>1, <2>2
<1>5. CASE Ignore(e)
  <2>1. Loses(Next1.msg, "consumed") /\ work' = Rest
    BY <1>5 DEF Ignore
  <2> QED BY <1>1, <1>2, <2>1, IsLost
<1> QED BY <1>3, <1>4, <1>5

LEMMA NoSends ==
  ASSUME NEW n, n = 0, NEW list, NEW m PROVE [k \in 1..n |-> Send(list[k], m)] = <<>>
  OBVIOUS

\* Routers that name one recipient at most; it may be the caller of the first part.
LEMMA RouteCalls ==
  ASSUME TypeInv, HeadersInv, CallsOK, RoutedOnce, NEW e \in Endpoint, Route(e)
  PROVE  HeadersInv' /\ CallsOK'
<1> DEFINE m == Next1.msg
<1>1. Given(e) /\ Kind[e] = "router" /\ UNCHANGED <<handlers, tasks, buckets, promise>>
  BY DEF Route, subscriptions, gateway
<1>2. /\ work # <<>> /\ Live(Top) /\ Top.msg = m /\ m.call \in Call /\ MessageOK(m)
      /\ m \in GoodMessages /\ Rest \in Seq(Sends)
  BY <1>1, GivenFacts, TopGiven, WorkFacts DEF TypeInv
<1>3. PICK list \in Recipients(e, m) : \E n \in 0..Len(list) : RouteTo(e, list, n)
  BY DEF Route
<1>4. PICK n \in 0..Len(list) : RouteTo(e, list, n)
  BY <1>3
<1>5. Len(list) \in {0, 1}
  <2>1. CASE Routes[e] # {}
    <3>1. list \in Seq(Channel \cup {None}) /\ Len(list) <= 1
      BY <1>1, <1>3, <2>1, WiringFacts DEF Recipients, RoutedOnce
    <3>2. Len(list) \in Nat
      BY <3>1
    <3>3. \A l \in Nat : l <= 1 => l \in {0, 1}
      OBVIOUS
    <3> QED BY <3>1, <3>2, <3>3
  <2>2. CASE Routes[e] = {}
    BY <1>3, <2>2 DEF Recipients
  <2> QED BY <2>1, <2>2
<1>6. CASE n = 0 /\ Len(list) = 0
  <2>1. work' = <<>> \o Rest /\ Loses(m, "consumed") /\ UNCHANGED failed
    <3> DEFINE sends == [k \in 1..n |-> Send(list[k], m)]
    <3>1. sends = <<>>
      BY <1>6, NoSends
    <3>2. n = Len(list) /\ n = 0
      BY <1>6
    <3>3. /\ work' = sends \o Rest /\ UNCHANGED failed
          /\ IF n = 0 THEN Loses(m, "consumed") ELSE UNCHANGED lost
      BY <1>4, <3>2 DEF RouteTo
    <3> HIDE DEF sends
    <3> QED BY <3>1, <3>2, <3>3
  <2>2. work' = Rest
    BY <1>2, <2>1
  <2> QED BY <1>1, <1>2, <2>1, <2>2, IsLost
<1>7. CASE n = 0 /\ Len(list) = 1
  <2>1. ThrowsAfter(<<>>, e, m)
    <3> DEFINE sends == [k \in 1..n |-> Send(list[k], m)]
    <3>1. sends = <<>>
      BY <1>7, NoSends
    <3>2. n # Len(list)
      BY <1>7
    <3>3. ThrowsAfter(sends, e, m)
      BY <1>4, <3>2 DEF RouteTo
    <3> HIDE DEF sends
    <3> QED BY <3>1, <3>3
  <2>2. Throws(e, m)
    BY <2>1 DEF Throws
  <2> QED BY <1>1, <2>2, ThrowsOn
<1>8. CASE n = 1 /\ Len(list) = 1
  <2> DEFINE to == list[1]
  <2>1. work' = <<Send(to, m)>> \o Rest /\ UNCHANGED <<lost, failed>> /\ to # None
    <3>1. [k \in 1..n |-> Send(list[k], m)] = <<Send(to, m)>>
      BY <1>8
    <3> QED BY <1>4, <1>8, <3>1 DEF RouteTo
  <2>2. to \in Targets /\ Proper(Top, to, failed')
    <3>1. CASE Routes[e] # {}
      <4>1. list \in Routes[e] /\ list \in Seq(Channel \cup {None}) /\ 1 \in DOMAIN list
        BY <1>3, <1>8, <3>1, WiringFacts DEF Recipients
      <4>2. to \in Channel /\ to \in Range(list)
        BY <2>1, <4>1 DEF Range
      <4>3. to \in Passes(e)
        BY <1>1, <2>1, <4>1, <4>2 DEF Passes
      <4>4. \A zone \in SUBSET Channel : Reached(Top, zone) => \E c \in zone : e \in Handlers(c)
        BY <1>1, TopGiven
      <4> QED BY <4>2, <4>3, <4>4, ProperChannel, TargetFacts
    <3>2. CASE Routes[e] = {}
      <4>1. m.body # <<>> /\ to = m.body[1].reply
        BY <1>3, <2>1, <3>2 DEF Recipients
      <4>2. 1 \in 1..Len(m.body)
        <5>1. m.body \in Seq([part : Call \X Nat, reply : Targets])
          BY <1>2 DEF GoodMessages, Messages
        <5> QED BY <4>1, <5>1
      <4>3. to = ReplyTo(m.call)
        BY <1>2, <2>1, <4>1, <4>2 DEF MessageOK
      <4>4. Proper(Top, ReplyTo(Top.msg.call), failed')
        BY <1>2, <4>1, ProperReply
      <4> QED BY <1>2, <4>3, <4>4, TargetFacts
    <3> QED BY <3>1, <3>2
  <2> HIDE DEF to
  <2>3. failed \subseteq failed' /\ UNCHANGED lost
    BY <2>1
  <2> QED BY <1>1, <1>2, <2>1, <2>2, <2>3, GoesOn
<1>9. n \in 0..Len(list)
  BY <1>4
<1>10. CASE Len(list) = 0
  <2>1. n = 0
    BY <1>9, <1>10
  <2> QED BY <1>6, <1>10, <2>1
<1>11. CASE Len(list) = 1
  <2>1. n = 0 \/ n = 1
    BY <1>9, <1>11
  <2> QED BY <1>7, <1>8, <1>11, <2>1
<1> QED BY <1>5, <1>10, <1>11

\* A chain takes a message, or gives back what its last stage made.
LEMMA ChainCalls ==
  ASSUME TypeInv, HeadersInv, CallsOK, NEW e \in Endpoint, ChainBegins(e) \/ ChainEnds(e)
  PROVE  HeadersInv' /\ CallsOK'
<1> DEFINE m == Next1.msg
           n == Len(Stages[e])
<1>0. /\ UNCHANGED <<handlers, tasks, buckets, promise, failed>> /\ failed \subseteq failed'
      /\ Kind[e] = "chain" /\ n \in Nat
  BY StageFacts DEF ChainBegins, ChainEnds, subscriptions, gateway
<1>1. CASE ChainBegins(e)
  <2>1. Given(e) /\ work' = <<Send(After(e, 0), m)>> \o Rest /\ UNCHANGED lost
    BY <1>1 DEF ChainBegins
  <2>2. work # <<>> /\ Live(Top)
    BY <2>1, GivenFacts, TopGiven
  <2>3. 0 \in 0..n
    BY <1>0
  <2>4. After(e, 0) \in Afters /\ After(e, 0) \in Targets
    BY <2>3, TargetsApart, TargetFacts
  <2>5. ASSUME NEW zone \in SUBSET Channel, Reached(Top, zone) PROVE Within(zone, After(e, 0))
    <3>1. ~InChain
      <4> SUFFICES ASSUME InChain PROVE FALSE
        OBVIOUS
      <4>1. Within(zone, Next1.to)
        BY <2>1, <2>5, TopGiven
      <4> QED BY <1>0, <2>1, <4>1, GivenWithin
    <3>2. PICK c \in zone : e \in Subscribers(c)
      BY <2>1, <2>5, <3>1, TopGiven
    <3>3. \A j \in 1..0 : Kind[Stages[e][j]] \in {"transformer", "filter"}
      OBVIOUS
    <3> QED BY <1>0, <2>3, <3>2, <3>3 DEF Within
  <2>6. Proper(Top, After(e, 0), failed')
    BY <2>4, <2>5, ProperStage
  <2> QED BY <1>0, <2>1, <2>2, <2>4, <2>6, GoesOn
<1>2. CASE ChainEnds(e)
  <2>1. work # <<>> /\ Next1.to = After(e, n) /\ Forwards(m, NextOutput(e, m)) /\ WorkOK
    BY <1>2 DEF ChainEnds, TypeInv
  <2>2. After(e, n) \in Afters
    BY <1>0, TargetsApart
  <2>3. Top \in Tokens /\ Top.msg = m /\ Top.goals = {After(e, n)} /\ m.call \in Call
    BY <2>1, TopFacts, WorkFacts
  <2>4. Live(Top) /\ MessageOK(m)
    BY <2>2, <2>3, TargetsApart DEF Live, HeadersInv
  <2>5. ~InChain
    <3> SUFFICES ASSUME InChain PROVE FALSE
      OBVIOUS
    <3>0. PICK d \in Endpoint : \E k \in 1..Len(Stages[d]) : Next1.to[2] = d /\ Next1.to[3] = k - 1
      BY InChainFacts
    <3>1. PICK k \in 1..Len(Stages[d]) : Next1.to[2] = d /\ Next1.to[3] = k - 1
      BY <3>0
    <3>2. Next1.to[2] = e /\ Next1.to[3] = n
      BY <2>1 DEF After
    <3>3. k \in 1..n /\ n = k - 1
      BY <3>1, <3>2
    <3> QED BY <1>0, <3>3
  <2>6. NextOutput(e, m) = IF Output[e] # None THEN Output[e] ELSE m.reply
    BY <2>5 DEF NextOutput
  <2>7. \A zone \in SUBSET Channel : Reached(Top, zone) =>
          /\ \E c \in zone : e \in Subscribers(c)
          /\ \A j \in 1..n : Kind[Stages[e][j]] \in {"transformer", "filter"}
    <3> SUFFICES ASSUME NEW zone \in SUBSET Channel, Reached(Top, zone)
                 PROVE  /\ \E c \in zone : e \in Subscribers(c)
                        /\ \A j \in 1..n : Kind[Stages[e][j]] \in {"transformer", "filter"}
      OBVIOUS
    <3>1. Within(zone, After(e, n))
      BY <2>3 DEF Reached
    <3>2. n <= Len(Stages[e])
      BY <1>0
    <3> HIDE DEF n
    <3> QED BY <1>0, <3>1, <3>2, EndsWithin
  <2>8. CASE Output[e] # None
    <3>1. Output[e] \in Channel /\ Output[e] \in Passes(e) /\ Output[e] \in Targets
      BY <1>0, <2>8, WiringFacts, TargetFacts DEF Passes
    <3>2. \A zone \in SUBSET Channel : Reached(Top, zone) => \E c \in zone : e \in Handlers(c)
      BY <2>7 DEF Handlers
    <3>3. Proper(Top, Output[e], failed')
      BY <3>1, <3>2, ProperChannel
    <3> QED BY <1>0, <2>1, <2>4, <2>6, <2>8, <3>1, <3>3, ForwardsOn
  <2>9. CASE Output[e] = None
    <3>1. m.reply \in Targets
      BY <2>1, WorkFacts
    <3>2. \A zone \in SUBSET Channel : Reached(Top, zone) =>
            \E c \in zone : \E d \in Subscribers(c) : Answers(d)
      <4>1. (\A j \in 1..n : Kind[Stages[e][j]] \in {"transformer", "filter"}) => Answers(e)
        <5>1. Stages[e] \in Seq({s \in Endpoint : Kind[s] # "chain"})
          BY StagesAssumption
        <5>2. \A s \in Range(Stages[e]) : \E j \in 1..n : s = Stages[e][j]
          BY <5>1 DEF Range
        <5> QED BY <1>0, <2>9, <5>2 DEF Answers
      <4> QED BY <2>7, <4>1
    <3>3. Proper(Top, ReplyTo(Top.msg.call), failed')
      BY <2>3, <3>2, ProperReply
    <3>4. m.reply # None => m.reply = ReplyTo(m.call)
      BY <2>4 DEF MessageOK
    <3>5. m.reply # None => Proper(Top, m.reply, failed')
      BY <2>3, <3>3, <3>4
    <3> QED BY <1>0, <2>1, <2>4, <2>6, <2>9, <3>1, <3>5, ForwardsOn
  <2> QED BY <2>8, <2>9
<1> QED BY <1>1, <1>2

\* A service takes a message: it goes on as its promise.
LEMMA ServeCalls ==
  ASSUME TypeInv, HeadersInv, CallsOK, NEW e \in Endpoint, Serve(e)
  PROVE  HeadersInv' /\ CallsOK'
<1> DEFINE m == Next1.msg
           t == [service |-> e, msg |-> m, reply |-> NextOutput(e, m), error |-> NextError(e, m)]
<1>1. /\ Given(e) /\ Kind[e] = "service" /\ tasks' = tasks \cup {t} /\ work' = Rest
      /\ UNCHANGED <<handlers, buckets, promise, failed, lost>>
  BY DEF Serve, subscriptions, gateway
<1>2. /\ work # <<>> /\ WorkOK /\ Live(Top) /\ Top \in Tokens /\ Top.msg = m /\ m.call \in Call
  BY <1>1, GivenFacts, TopGiven DEF TypeInv
<1>3. t.msg = m /\ t.reply = NextOutput(e, m) /\ t.error = NextError(e, m)
  OBVIOUS
<1> HIDE DEF t
<1>4. PICK y : y = TaskToken(t)
  OBVIOUS
<1>5. /\ y.at = <<"task", t>> /\ y.msg = m
      /\ y.goals = {NextOutput(e, m), NextError(e, m)} \ (Afters \cup {None})
  BY <1>3, <1>4, TaskTokenFacts
<1>6. Tokens' = (Tokens \ {Top}) \cup {y}
  <2>1. work \in Seq(Sends)
    BY <1>2 DEF WorkOK
  <2>2. WorkTokens(work') = WorkTokens(work) \ {Top}
    BY <1>1, <1>2, <2>1, TailTokens DEF Top, Next1, Rest
  <2>3. {TaskToken(u) : u \in tasks'} = {TaskToken(u) : u \in tasks} \cup {y}
    BY <1>1, <1>4
  <2>4. Top \notin {TaskToken(u) : u \in tasks}
    BY <1>2, TopFacts
  <2> QED BY <2>2, <2>3, <2>4 DEF Tokens
<1>7. \A g \in y.goals : Proper(Top, g, Call)
  <2>1. ASSUME NextOutput(e, m) \notin Afters, NextOutput(e, m) # None
        PROVE  Proper(Top, NextOutput(e, m), Call)
    <3>1. ~InChain
      <4> SUFFICES ASSUME InChain PROVE FALSE
        OBVIOUS
      <4>1. PICK d \in Endpoint : \E k \in 1..Len(Stages[d]) : Override \in Afters
        BY InChainFacts
      <4> QED BY <2>1, <4>1 DEF NextOutput
    <3> QED BY <1>1, <2>1, <3>1, OutputProper
  <2>2. ASSUME NextError(e, m) # None PROVE Proper(Top, NextError(e, m), Call)
    BY <1>1, <1>2, <2>2, ErrorProper
  <2> QED BY <1>5, <2>1, <2>2
<1>8. y.at[1] # "work"
  BY <1>5
<1>9. \E z : /\ Tokens' = (Tokens \ {Top}) \cup {z} /\ z.msg = Top.msg
             /\ \A g \in z.goals : Proper(Top, g, IF z.at[1] = "work" THEN failed' ELSE Call)
  <2>1. \A g \in y.goals : Proper(Top, g, IF y.at[1] = "work" THEN failed' ELSE Call)
    BY <1>7, <1>8
  <2> QED BY <1>2, <1>5, <1>6, <2>1
<1>10. UNCHANGED <<handlers, buckets, promise>> /\ LostCalls \subseteq LostCalls' /\ failed \subseteq failed'
  BY <1>1, LostFacts
<1> QED BY <1>2, <1>9, <1>10, MoveStep

\* The promise of a service is settled to one of its channels.
LEMMA SettlesCalls ==
  ASSUME TypeInv, HeadersInv, CallsOK, NEW t \in tasks, NEW to, to \in {t.reply, t.error},
         Settles(t, to), failed \subseteq failed',
         \A c \in Call : to = ErrorTo(c) => t.msg.call \in failed'
  PROVE  HeadersInv' /\ CallsOK'
<1>1. PICK x : x = TaskToken(t)
  OBVIOUS
<1>2. /\ x \in Tokens /\ x.msg = t.msg /\ x.goals = {t.reply, t.error} \ (Afters \cup {None})
      /\ x.at = <<"task", t>>
  BY <1>1, TaskTokenFacts DEF Tokens
<1>3. /\ work = <<>> /\ tasks' = tasks \ {t} /\ UNCHANGED <<handlers, buckets, promise>>
      /\ IF to \in Afters \cup {None} THEN Loses(t.msg, "swallowed") /\ UNCHANGED work
         ELSE work' = <<Send(to, t.msg)>> /\ UNCHANGED lost
  BY DEF Settles, Idle, Dropped, subscriptions, gateway
<1>4. WorkTokens(work) = {}
  <2>1. Len(<<>>) = 0 /\ 1..0 = {}
    OBVIOUS
  <2> QED BY <1>3, <2>1 DEF WorkTokens
<1>5. {TaskToken(u) : u \in tasks'} = {TaskToken(u) : u \in tasks} \ {x}
  BY <1>1, <1>3, TaskTokenFacts
<1>6. /\ t \in Tasks /\ t.msg \in GoodMessages /\ t.msg.call \in Call /\ t.reply \in Targets
      /\ t.error \in Targets
  BY DEF TypeInv, WorkOK, Tasks, GoodMessages, Messages
<1>7. Live(x) /\ GoalsOK(x, failed)
  BY <1>2 DEF HeadersInv, GoalsOK
<1>8. failed \subseteq failed' /\ LostCalls \subseteq LostCalls'
  BY <1>3, LostFacts
<1>9. CASE to \in Afters \cup {None}
  <2>1. Tokens' = Tokens \ {x}
    BY <1>1, <1>3, <1>4, <1>5, <1>9, TaskTokenFacts DEF Tokens
  <2>2. x.msg.call \in LostCalls'
    BY <1>2, <1>3, <1>9, LostFacts
  <2> QED BY <1>2, <1>3, <1>7, <1>8, <2>1, <2>2, MoveStep
<1>10. CASE to \notin Afters \cup {None}
  <2>1. PICK s : s = Send(to, t.msg)
    OBVIOUS
  <2>2. s.to = to /\ s.msg = t.msg /\ work' = <<s>>
    BY <1>3, <1>10, <2>1 DEF Send
  <2>3. PICK y : y = Spot(0, s)
    OBVIOUS
  <2>4. y.at[1] = "work" /\ y.msg = x.msg /\ y.goals = {to}
    BY <1>2, <2>2, <2>3, SpotFacts
  <2>5. WorkTokens(work') = {y}
    <3>1. Len(<<s>>) = 1 /\ 1..1 = {1} /\ <<s>>[1] = s /\ 1 - 1 = 0
      OBVIOUS
    <3> QED BY <2>2, <2>3, <3>1 DEF WorkTokens
  <2>6. Tokens' = (Tokens \ {x}) \cup {y}
    BY <1>4, <1>5, <2>5 DEF Tokens
  <2>7. to \in x.goals
    BY <1>2, <1>10
  <2>8. Proper(x, to, failed')
    <3>1. \A e \in Endpoint, c \in Call : to # Forget(e, c)
      BY <1>7, <2>7 DEF Live
    <3>2. \A c \in Call : to = ReplyTo(c) \/ to = ErrorTo(c) => c = x.msg.call
      BY <1>7, <2>7 DEF GoalsOK
    <3>3. \A c \in Call : to = ErrorTo(c) => c \in failed'
      BY <1>2, <3>2
    <3>4. \A zone \in SUBSET Channel : Reached(x, zone) =>
            Within(zone, to) /\ \A c \in Call : ReplyTo(c) \notin x.goals => to # ReplyTo(c)
      BY <2>7 DEF Reached
    <3> QED BY <3>1, <3>2, <3>3, <3>4 DEF Proper
  <2>9. \E z : /\ Tokens' = (Tokens \ {x}) \cup {z} /\ z.msg = x.msg
               /\ \A g \in z.goals : Proper(x, g, IF z.at[1] = "work" THEN failed' ELSE Call)
    BY <2>4, <2>6, <2>8
  <2> QED BY <1>2, <1>3, <1>7, <1>8, <2>9, MoveStep
<1> QED BY <1>9, <1>10
-----------------------------------------------------------------------------
(* The steps that divide a message or put it together. *)

SetBucket(b, e, d, q) == [b EXCEPT ![<<e, d>>] = q]

\* What setting one bucket does to it,
LEMMA BucketSetFacts ==
  ASSUME TypeInv, NEW e \in Endpoint, NEW d \in Call, NEW q,
         buckets' = SetBucket(buckets, e, d, q)
  PROVE  /\ BucketsIn(buckets', d)[e] = q
         /\ \A b \in Endpoint \X Call : buckets'[b] = IF b = <<e, d>> THEN q ELSE buckets[b]
<1>1. DOMAIN buckets = Endpoint \X Call
  BY DEF TypeInv, BucketsOK
<1> QED BY <1>1 DEF SetBucket, BucketsIn

\* and to the others.
LEMMA OtherBuckets ==
  ASSUME TypeInv, NEW e \in Endpoint, NEW d \in Call, NEW q,
         buckets' = SetBucket(buckets, e, d, q)
  PROVE  /\ \A c \in Call \ {d} : BucketsIn(buckets', c) = BucketsIn(buckets, c)
         /\ \A f \in Endpoint \ {e} : BucketsIn(buckets', d)[f] = BucketsIn(buckets, d)[f]
<1>1. DOMAIN buckets = Endpoint \X Call
  BY DEF TypeInv, BucketsOK
<1>2. \A f \in Endpoint, c \in Call : buckets'[<<f, c>>] = IF f = e /\ c = d THEN q ELSE buckets[<<f, c>>]
  BY <1>1 DEF SetBucket
<1> QED BY <1>2 DEF BucketsIn

\* What is in a bucket after a message was put into it, sorted or not.
LEMMA BucketMessages ==
  ASSUME TypeInv, HeadersInv, NEW e \in Endpoint, NEW m \in GoodMessages, m.corr # None,
         MessageOK(m)
  PROVE  /\ \A x \in Range(Bucket(e, m)) : MessageOK(x)
         /\ \A x \in Range(InOrder(Bucket(e, m))) : MessageOK(x)
<1> DEFINE b == <<e, m.corr>>
           q == buckets[b]
           p == Append(q, m)
<1>1. b \in Endpoint \X Call
  BY DEF GoodMessages, Messages
<1>2. q \in Seq(GoodMessages) /\ \A x \in Range(q) : MessageOK(x)
  BY <1>1 DEF TypeInv, BucketsOK, HeadersInv
<1> HIDE DEF q
<1>3. p \in Seq(GoodMessages) /\ Len(p) \in Nat \ {0} /\ DOMAIN p = 1..Len(p)
      /\ \A i \in 1..Len(p) : p[i] = m \/ p[i] \in Range(q)
  BY <1>2 DEF Range
<1> HIDE DEF p
<1>4. \A i \in 1..Len(p) : MessageOK(p[i])
  BY <1>2, <1>3
<1>5. \A x \in GoodMessages : x.seq \in Nat
  BY DEF GoodMessages, Messages
<1>6. /\ InOrder(p) \in Seq(GoodMessages) /\ Len(InOrder(p)) = Len(p)
      /\ \A k \in 1..Len(p) : \E i \in 1..Len(p) : InOrder(p)[k] = p[i]
  BY <1>3, <1>5, InOrderFacts
<1>7. DOMAIN InOrder(p) = 1..Len(p)
  BY <1>6
<1>8. \A k \in 1..Len(p) : MessageOK(InOrder(p)[k])
  BY <1>4, <1>6
<1>9. p = Bucket(e, m)
  BY DEF p, q, Bucket
<1> QED BY <1>3, <1>4, <1>7, <1>8, <1>9 DEF Range

\* A splitter gives as many parts as its rule returned.
LEMMA SplitCalls ==
  ASSUME TypeInv, HeadersInv, CallsOK, SplitOnce, NEW e \in Endpoint, Split(e)
  PROVE  HeadersInv' /\ CallsOK'
<1> DEFINE m == Next1.msg
<1>1. Given(e) /\ UNCHANGED <<handlers, tasks, buckets, promise, failed>> /\ Kind[e] = "splitter"
  BY DEF Split, subscriptions, gateway
<1>2. /\ work # <<>> /\ WorkOK /\ m \in GoodMessages /\ Rest \in Seq(Sends) /\ m.call \in Call
      /\ Top \in Tokens /\ Live(Top) /\ Top.msg = m /\ MessageOK(m)
  BY <1>1, GivenFacts, WorkFacts, TopGiven DEF TypeInv
<1>3. PICK n \in PartCounts, keep \in KeepHeaders :
        /\ work' = [k \in 1..n |-> Send(Output[e], Part(m, k, n, keep))] \o Rest
        /\ IF n = 0 THEN Loses(m, "consumed") ELSE UNCHANGED lost
  BY DEF Split
<1>4. n \in Nat /\ keep \in BOOLEAN /\ Output[e] \in Channel /\ Output[e] \in Targets
  BY <1>1, OptionAssumption, WiringFacts, TargetFacts
<1> DEFINE r == [k \in 1..n |-> Send(Output[e], Part(m, k, n, keep))]
<1>5. \A k \in 1..n : /\ r[k] \in Sends /\ r[k].to = Output[e] /\ r[k].msg = Part(m, k, n, keep)
  BY <1>2, <1>4, PartFacts DEF Send, Sends
<1> HIDE DEF r
<1>6. r \in Seq(Sends) /\ Len(r) = n
  <2>1. DOMAIN r = 1..n /\ r = [k \in 1..n |-> r[k]]
    BY DEF r
  <2> QED BY <1>4, <1>5, <2>1
<1>7. CASE n = 0
  <2>1. r = <<>>
    BY <1>6, <1>7
  <2>2. work' = Rest
    <3>1. work' = r \o Rest
      BY <1>3 DEF r
    <3> QED BY <1>2, <2>1, <3>1
  <2>3. failed \subseteq failed' /\ Loses(m, "consumed")
    BY <1>1, <1>3, <1>7
  <2> QED BY <1>1, <1>2, <2>2, <2>3, IsLost
<1>8. CASE n # 0
  <2> DEFINE part == [k \in 1..n |-> Spot(Len(Rest) + Len(r) - k, r[k])]
             U == {part[k] : k \in 1..n}
  <2>1. PICK d \in Call : d = m.call
    BY <1>2
  <2>2. \A k \in 1..n : /\ part[k].msg = Part(m, k, n, keep) /\ part[k].goals = {Output[e]}
                        /\ part[k].at[1] = "work"
    BY <1>5, SpotFacts
  <2>14. U = {Spot(Len(Rest) + Len(r) - i, r[i]) : i \in 1..Len(r)}
    BY <1>6
  <2> HIDE DEF part
  <2>3. \A k \in 1..n : /\ part[k].msg.corr = d /\ part[k].msg.seq = k - 1 /\ part[k].msg.size = n
                        /\ part[k].msg.body = Top.msg.body /\ part[k].goals = {Output[e]}
                        /\ part[k].msg.call = d
    <3>1. \A k \in 1..n : /\ Part(m, k, n, keep).call = m.call /\ Part(m, k, n, keep).corr = m.call
                          /\ Part(m, k, n, keep).seq = k - 1 /\ Part(m, k, n, keep).size = n
                          /\ Part(m, k, n, keep).body = m.body
      BY <1>2, <1>4, PartFacts
    <3> QED BY <1>2, <2>1, <2>2, <3>1
  <2>4. Tokens' = (Tokens \ {Top}) \cup U
    <3>1. work' = r \o Rest
      BY <1>3 DEF r
    <3>2. Tokens' = (Tokens \ {Top}) \cup {Spot(Len(Rest) + Len(r) - i, r[i]) : i \in 1..Len(r)}
      BY <1>1, <1>2, <1>6, <3>1, TakeTokens
    <3> QED BY <2>14, <3>2
  <2>5. \A y \in U : y.msg.call = d /\ MessageOK(y.msg) /\ GoalsOK(y, failed')
    <3> SUFFICES ASSUME NEW k \in 1..n
                 PROVE  part[k].msg.call = d /\ MessageOK(part[k].msg) /\ GoalsOK(part[k], failed')
      OBVIOUS
    <3>4. Unreplied(part[k])
      <4> SUFFICES ASSUME m.body = <<>>, NEW zone \in SUBSET Channel, Served(zone)
                   PROVE  Reached(part[k], zone) /\ ReplyTo(d) \notin part[k].goals
        BY <1>2, <2>3 DEF Unreplied
      <4>1. Reached(Top, zone)
        BY <1>2 DEF HeadersInv, GoalsOK, Unreplied
      <4>2. PICK c \in zone : e \in Handlers(c)
        BY <1>1, <4>1, TopGiven
      <4>3. Output[e] \in Passes(e)
        BY <1>1, <1>4, WiringFacts DEF Passes
      <4>4. Output[e] \in zone
        BY <4>2, <4>3 DEF Served, Closed
      <4> QED BY <1>4, <2>2, <4>4, TargetsApart DEF Reached, Within
    <3>1. GoalsOK(part[k], failed')
      BY <1>4, <2>2, <3>4, TargetsApart DEF GoalsOK
    <3>2. /\ Part(m, k, n, keep).call = m.call /\ Part(m, k, n, keep).body = m.body
          /\ Part(m, k, n, keep).reply \in {m.reply, None}
          /\ Part(m, k, n, keep).error \in {m.error, None}
      BY <1>2, <1>4, PartFacts
    <3>3. MessageOK(Part(m, k, n, keep))
      BY <1>2, <3>2 DEF MessageOK
    <3> QED BY <2>2, <2>3, <3>1, <3>3
  <2>6. \A zone \in SUBSET Channel : Lacks("splitter", zone) => ~Reached(Top, zone)
    BY <1>1, TopGiven DEF Lacks
  <2>7. Phase(d, Of(d), BucketsIn(buckets, d), promise[d], LostCalls, failed)
    BY DEF CallsOK
  <2>8. n \in PartCounts \ {0} /\ Top \in Of(d) /\ Top.msg.call = d
    BY <1>2, <1>8, <2>1 DEF Of
  <2>9. Phase(d, Replaced(Of(d), Top, U), BucketsIn(buckets, d), promise[d], LostCalls, failed)
    <3>1. \A k \in 1..n : /\ part[k].msg.corr = d /\ part[k].msg.seq = k - 1 /\ part[k].msg.size = n
                          /\ part[k].msg.body = Top.msg.body /\ part[k].goals = {Output[e]}
      BY <2>3
    <3>2. U = Pieces(part, n)
      BY DEF Pieces
    <3>3. \A zone \in SUBSET Channel : Lacks("splitter", zone) => ~Reached(Top, zone)
      BY <2>6
    <3>4. Top \in Of(d) /\ n \in PartCounts \ {0} /\ Live(Top) /\ Kind[e] = "splitter"
      BY <1>1, <1>2, <2>8
    <3> HIDE DEF U
    <3>5. Phase(d, Replaced(Of(d), Top, Pieces(part, n)), BucketsIn(buckets, d), promise[d], LostCalls, failed)
      BY <2>7, <3>1, <3>3, <3>4, SplitPhase
    <3> QED BY <3>2, <3>5
  <2> HIDE DEF U
  <2>10. LostCalls' = LostCalls
    BY <1>3, <1>8, LostFacts
  <2>11. Phase(d, Replaced(Of(d), Top, U), BucketsIn(buckets', d), promise'[d], LostCalls', failed')
    BY <1>1, <2>9, <2>10
  <2>12. CallsOK'
    <3>1. \A y \in U : y.msg.call = d
      BY <2>5
    <3>2. Tokens' = Replaced(Tokens, Top, U)
      BY <2>4 DEF Replaced
    <3>3. failed \subseteq failed' /\ LostCalls \subseteq LostCalls'
      BY <1>1, <2>10
    <3>4. \A c \in Call \ {d} : promise'[c] = promise[c] /\ BucketsIn(buckets', c) = BucketsIn(buckets, c)
      BY <1>1
    <3> QED BY <1>2, <2>8, <2>11, <3>1, <3>2, <3>3, <3>4, CallsStep
  <2>13. HeadersInv'
    BY <1>1, <2>4, <2>5 DEF HeadersInv
  <2> QED BY <2>12, <2>13
<1> QED BY <1>7, <1>8
-----------------------------------------------------------------------------
\* A message that gets to an aggregator is a part of its call.
LEMMA PartArrives ==
  ASSUME TypeInv, HeadersInv, CallsOK, NEW e \in Endpoint, Given(e), Kind[e] = "aggregator",
         Next1.msg.corr # None
  PROVE  \E d \in Call : \E zone \in SUBSET Channel : \E n \in PartCounts \ {0} :
           /\ d = Next1.msg.call /\ d = Next1.msg.corr /\ Top \in Of(d)
           /\ Divided(zone, e, n, d, Of(d), BucketsIn(buckets, d), promise[d], LostCalls, failed)
<1>1. work # <<>> /\ WorkOK
  BY GivenFacts DEF TypeInv
<1>2. /\ Next1.msg \in GoodMessages /\ Top \in Tokens /\ Live(Top) /\ Top.msg = Next1.msg
      /\ Next1.msg.call \in Call
  BY <1>1, WorkFacts, TopGiven
<1>3. PICK d \in Call : d = Next1.msg.call
  BY <1>2
<1>4. d = Next1.msg.corr /\ Top \in Of(d)
  BY <1>2, <1>3 DEF GoodMessages, Of
<1>5. Phase(d, Of(d), BucketsIn(buckets, d), promise[d], LostCalls, failed)
  BY DEF CallsOK
<1>6. \A zone \in SUBSET Channel : Reached(Top, zone) => \E c \in zone : e \in Handlers(c)
  BY TopGiven
<1>7. Top.msg.corr # None
  BY <1>2
<1>8. \E zone \in SUBSET Channel, n \in PartCounts \ {0} :
        Divided(zone, e, n, d, Of(d), BucketsIn(buckets, d), promise[d], LostCalls, failed)
  BY <1>2, <1>4, <1>5, <1>6, <1>7, AtAggregator
<1> QED BY <1>3, <1>4, <1>8

\* A part is put into a bucket that it does not fill.
LEMMA StoreCalls ==
  ASSUME TypeInv, HeadersInv, CallsOK, NEW e \in Endpoint, Given(e), Kind[e] = "aggregator",
         Next1.msg.corr # None, UNCHANGED <<handlers, tasks, promise, lost, failed>>,
         Len(Bucket(e, Next1.msg)) < Next1.msg.size, work' = Rest,
         buckets' = [buckets EXCEPT ![<<e, Next1.msg.corr>>] = Bucket(e, Next1.msg)]
  PROVE  HeadersInv' /\ CallsOK'
<1> DEFINE m == Next1.msg
<1>0. PICK d \in Call : \E zone \in SUBSET Channel : \E n \in PartCounts \ {0} :
        /\ d = m.call /\ d = m.corr /\ Top \in Of(d)
        /\ Divided(zone, e, n, d, Of(d), BucketsIn(buckets, d), promise[d], LostCalls, failed)
  BY PartArrives
<1>1. PICK zone \in SUBSET Channel : \E n \in PartCounts \ {0} :
        /\ d = m.call /\ d = m.corr /\ Top \in Of(d)
        /\ Divided(zone, e, n, d, Of(d), BucketsIn(buckets, d), promise[d], LostCalls, failed)
  BY <1>0
<1>2. PICK n \in PartCounts \ {0} :
        /\ d = m.call /\ d = m.corr /\ Top \in Of(d)
        /\ Divided(zone, e, n, d, Of(d), BucketsIn(buckets, d), promise[d], LostCalls, failed)
  BY <1>1
<1>3. work # <<>> /\ WorkOK
  BY GivenFacts DEF TypeInv
<1>4. m \in GoodMessages /\ Top \in Tokens /\ Top.msg = m /\ MessageOK(m)
  BY <1>3, WorkFacts, TopGiven
<1>13. PICK q : q = Bucket(e, m)
  OBVIOUS
<1>14. PICK x : x = Top
  OBVIOUS
<1>5. /\ \A c \in Call \ {d} : BucketsIn(buckets', c) = BucketsIn(buckets, c)
      /\ BucketsIn(buckets', d)[e] = q
      /\ \A f \in Endpoint \ {e} : BucketsIn(buckets', d)[f] = BucketsIn(buckets, d)[f]
      /\ BucketsIn(buckets, d)[e] = buckets[<<e, d>>]
      /\ \A b \in Endpoint \X Call : buckets'[b] = IF b = <<e, d>> THEN q ELSE buckets[b]
  <2>1. buckets' = SetBucket(buckets, e, d, q)
    BY <1>2, <1>13 DEF SetBucket
  <2>2. BucketsIn(buckets, d)[e] = buckets[<<e, d>>]
    BY DEF BucketsIn
  <2>3. /\ BucketsIn(buckets', d)[e] = q
        /\ \A b \in Endpoint \X Call : buckets'[b] = IF b = <<e, d>> THEN q ELSE buckets[b]
    BY ONLY TypeInv, e \in Endpoint, d \in Call, <2>1, BucketSetFacts
  <2>4. /\ \A c \in Call \ {d} : BucketsIn(buckets', c) = BucketsIn(buckets, c)
        /\ \A f \in Endpoint \ {e} : BucketsIn(buckets', d)[f] = BucketsIn(buckets, d)[f]
    BY <2>1, OtherBuckets
  <2> QED BY <2>2, <2>3, <2>4
<1>6. /\ buckets[<<e, d>>] \in Seq(GoodMessages)
      /\ q = Append(buckets[<<e, d>>], m)
  BY <1>2, <1>13 DEF TypeInv, BucketsOK, Bucket
<1>7. m.size = n
  BY <1>2, <1>4 DEF Divided
<1>8. Phase(d, Replaced(Of(d), Top, {}), BucketsIn(buckets', d), promise[d], LostCalls, failed)
  <2>1. BucketsIn(buckets, d)[e] \in Seq(GoodMessages) /\ x.msg \in GoodMessages /\ x \in Of(d)
    BY <1>2, <1>4, <1>5, <1>6, <1>14
  <2>2. Divided(zone, e, n, d, Of(d), BucketsIn(buckets, d), promise[d], LostCalls, failed)
    BY <1>2
  <2>3. BucketsIn(buckets', d)[e] = Append(BucketsIn(buckets, d)[e], x.msg)
    BY <1>4, <1>5, <1>6, <1>14
  <2>4. Len(BucketsIn(buckets', d)[e]) < n
    BY <1>5, <1>7, <1>13
  <2>5. \A f \in Endpoint \ {e} : BucketsIn(buckets', d)[f] = BucketsIn(buckets, d)[f]
    BY <1>5
  <2>6. Phase(d, Replaced(Of(d), x, {}), BucketsIn(buckets', d), promise[d], LostCalls, failed)
    BY ONLY d \in Call, e \in Endpoint, zone \in SUBSET Channel, n \in PartCounts \ {0},
            <2>1, <2>2, <2>3, <2>4, <2>5, StorePhase
  <2> QED BY <1>14, <2>6
<1>9. Tokens' = Tokens \ {Top}
  BY <1>3, TakeTokens
<1>10. LostCalls' = LostCalls
  BY LostFacts
<1>11. CallsOK'
  <2>1. Phase(d, Replaced(Of(d), x, {}), BucketsIn(buckets', d), promise'[d], LostCalls', failed')
    BY <1>8, <1>10, <1>14
  <2>2. Tokens' = Replaced(Tokens, x, {})
    BY <1>9, <1>14 DEF Replaced
  <2>3. \A c \in Call \ {d} : promise'[c] = promise[c] /\ BucketsIn(buckets', c) = BucketsIn(buckets, c)
    BY <1>5
  <2>4. failed \subseteq failed' /\ LostCalls \subseteq LostCalls' /\ x.msg.call = d /\ x \in Tokens
    BY <1>2, <1>4, <1>10, <1>14
  <2>5. \A y \in {} : y.msg.call = d
    OBVIOUS
  <2> QED BY ONLY CallsOK, d \in Call, <2>1, <2>2, <2>3, <2>4, <2>5, CallsStep
<1>12. HeadersInv'
  <2>1. \A z \in Range(q) : MessageOK(z)
    BY <1>4, <1>13, BucketMessages
  <2>2. \A b \in Endpoint \X Call : \A z \in Range(buckets'[b]) : MessageOK(z)
    BY <1>5, <2>1 DEF HeadersInv
  <2> QED BY <1>9, <2>2 DEF HeadersInv
<1> QED BY <1>11, <1>12

\* What a full bucket is made of.
LEMMA BucketIsFull ==
  ASSUME TypeInv, HeadersInv, CallsOK, NEW e \in Endpoint, Given(e), Kind[e] = "aggregator",
         Next1.msg.corr # None, Len(Bucket(e, Next1.msg)) >= Next1.msg.size
  PROVE  \E d \in Call : \E zone \in SUBSET Channel : \E n \in PartCounts \ {0} :
           /\ d = Next1.msg.call /\ d = Next1.msg.corr /\ Of(d) = {Top}
           /\ Divided(zone, e, n, d, Of(d), BucketsIn(buckets, d), promise[d], LostCalls, failed)
           /\ Len(Bucket(e, Next1.msg)) = n
           /\ \A k \in 1..n : /\ InOrder(Bucket(e, Next1.msg))[k].seq = k - 1
                              /\ InOrder(Bucket(e, Next1.msg))[k].call = d
<1> DEFINE m == Next1.msg
<1>0. PICK d \in Call : \E zone \in SUBSET Channel : \E n \in PartCounts \ {0} :
        /\ d = m.call /\ d = m.corr /\ Top \in Of(d)
        /\ Divided(zone, e, n, d, Of(d), BucketsIn(buckets, d), promise[d], LostCalls, failed)
  BY PartArrives
<1>1. PICK zone \in SUBSET Channel : \E n \in PartCounts \ {0} :
        /\ d = m.call /\ d = m.corr /\ Top \in Of(d)
        /\ Divided(zone, e, n, d, Of(d), BucketsIn(buckets, d), promise[d], LostCalls, failed)
  BY <1>0
<1>2. PICK n \in PartCounts \ {0} :
        /\ d = m.call /\ d = m.corr /\ Top \in Of(d)
        /\ Divided(zone, e, n, d, Of(d), BucketsIn(buckets, d), promise[d], LostCalls, failed)
  BY <1>1
<1>3. work # <<>> /\ WorkOK
  BY GivenFacts DEF TypeInv
<1>4. m \in GoodMessages /\ Top \in Tokens /\ Top.msg = m
  BY <1>3, WorkFacts, TopGiven
<1>5. /\ BucketsIn(buckets, d)[e] = buckets[<<e, d>>]
      /\ buckets[<<e, d>>] \in Seq(GoodMessages)
      /\ \A x \in Range(buckets[<<e, d>>]) : x.corr = d
      /\ Bucket(e, m) = Append(buckets[<<e, d>>], m)
  BY <1>2 DEF TypeInv, BucketsOK, Bucket, BucketsIn
<1>6. m.size = n
  BY <1>2, <1>4 DEF Divided
<1>7. \A y \in Of(d) : y.msg \in GoodMessages
  BY TokenFacts DEF Of
<1>8. PICK b : b = Bucket(e, m)
  OBVIOUS
<1>11. PICK x : x = Top
  OBVIOUS
<1>9. /\ Of(d) = {x} /\ Len(b) = n
      /\ \A k \in 1..n : InOrder(b)[k].seq = k - 1 /\ InOrder(b)[k].call = d
  <2>1. Divided(zone, e, n, d, Of(d), BucketsIn(buckets, d), promise[d], LostCalls, failed)
    BY <1>2
  <2>2. /\ x \in Of(d) /\ BucketsIn(buckets, d)[e] \in Seq(GoodMessages)
        /\ \A g \in Range(BucketsIn(buckets, d)[e]) : g.corr = d
    BY <1>2, <1>5, <1>11
  <2> DEFINE q == Append(BucketsIn(buckets, d)[e], x.msg)
  <2>3. b = q /\ Len(q) >= n
    BY <1>4, <1>5, <1>6, <1>8, <1>11
  <2>4. /\ Of(d) = {x} /\ Len(q) = n
        /\ PartsInOrder(d, InOrder(q), n)
    BY ONLY d \in Call, e \in Endpoint, zone \in SUBSET Channel, n \in PartCounts \ {0},
            <1>7, <2>1, <2>2, <2>3, FullFacts
  <2> HIDE DEF q
  <2> QED BY <2>3, <2>4 DEF PartsInOrder
<1>10. /\ d = m.call /\ d = m.corr /\ Of(d) = {Top}
       /\ Divided(zone, e, n, d, Of(d), BucketsIn(buckets, d), promise[d], LostCalls, failed)
       /\ Len(Bucket(e, m)) = n
       /\ \A k \in 1..n : /\ InOrder(Bucket(e, m))[k].seq = k - 1
                          /\ InOrder(Bucket(e, m))[k].call = d
  BY <1>2, <1>8, <1>9, <1>11
<1> QED BY <1>10
-----------------------------------------------------------------------------
\* The bucket of a call that is sorted: the others stay.
LEMMA SortedBucket ==
  ASSUME TypeInv, HeadersInv, NEW e \in Endpoint, Given(e), NEW d \in Call,
         d = Next1.msg.corr,
         buckets' = [buckets EXCEPT ![<<e, Next1.msg.corr>>] = InOrder(Bucket(e, Next1.msg))]
  PROVE  /\ \A c \in Call \ {d} : BucketsIn(buckets', c) = BucketsIn(buckets, c)
         /\ \A f \in Endpoint \ {e} : BucketsIn(buckets', d)[f] = BucketsIn(buckets, d)[f]
         /\ \A b \in Endpoint \X Call : \A z \in Range(buckets'[b]) : MessageOK(z)
<1> DEFINE m == Next1.msg
<1>1. work # <<>> /\ WorkOK
  BY GivenFacts DEF TypeInv
<1>2. m \in GoodMessages /\ MessageOK(m) /\ m.corr # None
  BY <1>1, WorkFacts, TopGiven, NoneAssumption
<1>3. PICK q : q = InOrder(Bucket(e, m))
  OBVIOUS
<1>4. buckets' = SetBucket(buckets, e, d, q)
  BY <1>3 DEF SetBucket
<1>5. /\ \A c \in Call \ {d} : BucketsIn(buckets', c) = BucketsIn(buckets, c)
      /\ \A f \in Endpoint \ {e} : BucketsIn(buckets', d)[f] = BucketsIn(buckets, d)[f]
  BY ONLY TypeInv, e \in Endpoint, d \in Call, <1>4, OtherBuckets
<1>6. \A b \in Endpoint \X Call : buckets'[b] = IF b = <<e, d>> THEN q ELSE buckets[b]
  BY ONLY TypeInv, e \in Endpoint, d \in Call, <1>4, BucketSetFacts
<1>7. \A z \in Range(q) : MessageOK(z)
  BY <1>2, <1>3, BucketMessages
<1>8. \A b \in Endpoint \X Call : \A z \in Range(buckets'[b]) : MessageOK(z)
  BY <1>6, <1>7 DEF HeadersInv
<1> QED BY <1>5, <1>8

\* The next message gives way to two sends.
LEMMA TwoTokens ==
  ASSUME WorkOK, work # <<>>, UNCHANGED tasks, NEW s \in Sends, NEW u \in Sends,
         work' = <<s, u>> \o Rest
  PROVE  Tokens' = Replaced(Tokens, Top, {Spot(Len(Rest) + 1, s), Spot(Len(Rest), u)})
<1>1. <<s, u>> \in Seq(Sends) /\ Len(<<s, u>>) = 2 /\ 1..2 = {1, 2} /\ <<s, u>>[1] = s /\ <<s, u>>[2] = u
  OBVIOUS
<1>2. Len(Rest) \in Nat
  BY TopFacts
<1>3. Len(Rest) + 2 - 1 = Len(Rest) + 1 /\ Len(Rest) + 2 - 2 = Len(Rest)
  BY <1>2
<1>4. {Spot(Len(Rest) + Len(<<s, u>>) - i, <<s, u>>[i]) : i \in 1..Len(<<s, u>>)}
        = {Spot(Len(Rest) + 1, s), Spot(Len(Rest), u)}
  BY <1>1, <1>3
<1>5. Tokens' = (Tokens \ {Top}) \cup {Spot(Len(Rest) + Len(<<s, u>>) - i, <<s, u>>[i]) : i \in 1..Len(<<s, u>>)}
  BY <1>1, TakeTokens
<1> QED BY <1>4, <1>5 DEF Replaced

\* The last part fills the bucket, and the bucket is released.
LEMMA ReleaseCalls ==
  ASSUME TypeInv, HeadersInv, CallsOK, SplitOnce, NEW e \in Endpoint, Given(e), Kind[e] = "aggregator",
         Next1.msg.corr # None, UNCHANGED <<handlers, tasks, promise, lost, failed>>,
         Len(Bucket(e, Next1.msg)) >= Next1.msg.size,
         buckets' = [buckets EXCEPT ![<<e, Next1.msg.corr>>] = InOrder(Bucket(e, Next1.msg))],
         work' = <<Send(Output[e], Aggregate(InOrder(Bucket(e, Next1.msg)))),
                   Send(Forget(e, Next1.msg.corr), Next1.msg)>> \o Rest
  PROVE  HeadersInv' /\ CallsOK'
<1> DEFINE m == Next1.msg
<1>1. PICK q : q = InOrder(Bucket(e, m))
  OBVIOUS
<1>2. PICK d \in Call : \E zone \in SUBSET Channel : \E n \in PartCounts \ {0} :
        /\ d = m.call /\ d = m.corr /\ Of(d) = {Top}
        /\ Divided(zone, e, n, d, Of(d), BucketsIn(buckets, d), promise[d], LostCalls, failed)
        /\ Len(Bucket(e, m)) = n
        /\ \A k \in 1..n : /\ InOrder(Bucket(e, m))[k].seq = k - 1
                           /\ InOrder(Bucket(e, m))[k].call = d
  BY BucketIsFull
<1>3. PICK zone \in SUBSET Channel : \E n \in PartCounts \ {0} :
        /\ d = m.call /\ d = m.corr /\ Of(d) = {Top}
        /\ Divided(zone, e, n, d, Of(d), BucketsIn(buckets, d), promise[d], LostCalls, failed)
        /\ Len(Bucket(e, m)) = n
        /\ \A k \in 1..n : /\ InOrder(Bucket(e, m))[k].seq = k - 1
                           /\ InOrder(Bucket(e, m))[k].call = d
  BY <1>2
<1>27. PICK n \in PartCounts \ {0} :
        /\ d = m.call /\ d = m.corr /\ Of(d) = {Top}
        /\ Divided(zone, e, n, d, Of(d), BucketsIn(buckets, d), promise[d], LostCalls, failed)
        /\ Len(Bucket(e, m)) = n
        /\ \A k \in 1..n : /\ InOrder(Bucket(e, m))[k].seq = k - 1
                           /\ InOrder(Bucket(e, m))[k].call = d
  BY <1>3
<1>4. /\ d = m.call /\ d = m.corr /\ Of(d) = {Top}
      /\ Divided(zone, e, n, d, Of(d), BucketsIn(buckets, d), promise[d], LostCalls, failed)
      /\ Len(Bucket(e, m)) = n
      /\ \A k \in 1..n : q[k].seq = k - 1 /\ q[k].call = d
  BY <1>1, <1>27
<1>5. work # <<>> /\ WorkOK
  BY GivenFacts DEF TypeInv
<1>6. m \in GoodMessages /\ Top \in Tokens /\ Top.msg = m /\ MessageOK(m)
  BY <1>5, WorkFacts, TopGiven
<1>7. q \in Seq(GoodMessages) /\ Len(q) = n /\ q # <<>> /\ DOMAIN q = 1..n /\ n \in Nat \ {0}
  <2>1. Bucket(e, m) \in Seq(GoodMessages) /\ q # <<>>
    BY <1>1, <1>6, BucketFacts
  <2>2. \A x \in GoodMessages : x.seq \in Nat
    BY DEF GoodMessages, Messages
  <2>3. q \in Seq(GoodMessages) /\ Len(q) = Len(Bucket(e, m))
    BY <1>1, <2>1, <2>2, InOrderFacts
  <2> QED BY <1>4, <2>1, <2>3
<1>8. PICK a : a = Aggregate(q)
  OBVIOUS
<1>9. /\ a \in GoodMessages /\ a.call = d /\ a.corr = None /\ a.reply = None /\ a.error = None
      /\ a.body = [i \in 1..n |-> [part |-> <<q[i].call, q[i].seq>>, reply |-> q[i].reply]]
  <2>1. 1 \in 1..n
    BY <1>7
  <2>2. q[1].call = d
    BY <1>4, <2>1
  <2> QED BY <1>7, <1>8, <2>2, AggregateFacts
<1>10. Complete(d, n, a.body)
  BY <1>4, <1>9 DEF Complete
<1>11. \A i \in 1..n : MessageOK(q[i])
  BY <1>1, <1>6, <1>7, BucketMessages DEF Range
<1>12. MessageOK(a)
  <2>1. \A i \in 1..n : a.body[i].reply \in {None, ReplyTo(d)}
    BY <1>4, <1>9, <1>11 DEF MessageOK
  <2>2. Len(a.body) = n
    BY <1>7, <1>9
  <2> QED BY <1>9, <2>1, <2>2 DEF MessageOK
<1>13. PICK s : s = Send(Output[e], a)
  OBVIOUS
<1>14. PICK u : u = Send(Forget(e, d), m)
  OBVIOUS
<1>15. /\ s \in Sends /\ u \in Sends /\ s.to = Output[e] /\ s.msg = a /\ u.to = Forget(e, d) /\ u.msg = m
       /\ Output[e] \in Channel
  BY <1>6, <1>9, <1>13, <1>14, WiringFacts, TargetFacts DEF Send, Sends
<1>16. work' = <<s, u>> \o Rest
  BY <1>1, <1>4, <1>8, <1>13, <1>14
<1>17. PICK y : y = Spot(Len(Rest) + 1, s)
  OBVIOUS
<1>18. PICK z : z = Spot(Len(Rest), u)
  OBVIOUS
<1>19. PICK x : x = Top
  OBVIOUS
<1>20. Tokens' = Replaced(Tokens, x, {y, z})
  BY <1>5, <1>15, <1>16, <1>17, <1>18, <1>19, TwoTokens
<1>21. /\ y.at[1] = "work" /\ y.msg = a /\ y.goals = {Output[e]}
       /\ z.at[1] = "work" /\ z.msg = m /\ z.goals = {Forget(e, d)}
  BY <1>15, <1>17, <1>18, SpotFacts
<1>22. /\ \A c \in Call \ {d} : BucketsIn(buckets', c) = BucketsIn(buckets, c)
       /\ \A f \in Endpoint \ {e} : BucketsIn(buckets', d)[f] = BucketsIn(buckets, d)[f]
       /\ \A b \in Endpoint \X Call : \A g \in Range(buckets'[b]) : MessageOK(g)
  BY <1>4, SortedBucket
<1>23. Phase(d, Replaced(Of(d), x, {y, z}), BucketsIn(buckets', d), promise[d], LostCalls, failed)
  <2>1. Divided(zone, e, n, d, Of(d), BucketsIn(buckets, d), promise[d], LostCalls, failed)
    BY <1>4
  <2>2. Of(d) = {x} /\ Kind[e] = "aggregator"
    BY <1>4, <1>19
  <2>3. \A f \in Endpoint \ {e} : BucketsIn(buckets', d)[f] = BucketsIn(buckets, d)[f]
    BY <1>22
  <2>4. /\ y.goals = {Output[e]} /\ y.msg.corr = None /\ Complete(d, n, y.msg.body)
        /\ z.goals = {Forget(e, d)}
    BY <1>9, <1>10, <1>21
  <2> QED BY ONLY SplitOnce, d \in Call, e \in Endpoint, zone \in SUBSET Channel, n \in PartCounts \ {0},
                  <2>1, <2>2, <2>3, <2>4, ReleasePhase
<1>24. LostCalls' = LostCalls
  BY LostFacts
<1>25. CallsOK'
  <2>1. Phase(d, Replaced(Of(d), x, {y, z}), BucketsIn(buckets', d), promise'[d], LostCalls', failed')
    BY <1>23, <1>24
  <2>2. \A c \in Call \ {d} : promise'[c] = promise[c] /\ BucketsIn(buckets', c) = BucketsIn(buckets, c)
    BY <1>22
  <2>3. /\ failed \subseteq failed' /\ LostCalls \subseteq LostCalls' /\ x.msg.call = d /\ x \in Tokens
    BY <1>4, <1>6, <1>19, <1>24
  <2>4. \A v \in {y, z} : v.msg.call = d
    BY <1>4, <1>9, <1>21
  <2> QED BY ONLY CallsOK, d \in Call, <1>20, <2>1, <2>2, <2>3, <2>4, CallsStep
<1>26. HeadersInv'
  <2>1. GoalsOK(y, failed') /\ MessageOK(y.msg)
    <3>1. y.msg.body # <<>>
      <4>1. DOMAIN y.msg.body = 1..n /\ 1 \in 1..n
        BY <1>7, <1>9, <1>21
      <4>2. DOMAIN <<>> = {}
        OBVIOUS
      <4> QED BY <4>1, <4>2
    <3>2. Unreplied(y)
      BY <3>1 DEF Unreplied
    <3> QED BY <1>12, <1>15, <1>21, <3>2, TargetsApart DEF GoalsOK
  <2>2. GoalsOK(z, failed') /\ MessageOK(z.msg)
    <3>1. Unreplied(z)
      BY <1>21 DEF Unreplied, Live
    <3> QED BY <1>6, <1>21, <3>1, TargetsApart DEF GoalsOK
  <2>3. \A v \in Tokens' : MessageOK(v.msg) /\ GoalsOK(v, failed')
    BY <1>20, <2>1, <2>2 DEF HeadersInv, Replaced
  <2> QED BY <1>22, <2>3 DEF HeadersInv
<1> QED BY <1>25, <1>26
-----------------------------------------------------------------------------
\* Where the last part goes when its bucket could not be released.
LEMMA SpentFacts ==
  ASSUME TypeInv, HeadersInv, NEW e \in Endpoint, Given(e), Kind[e] = "aggregator",
         NEW zone \in SUBSET Channel, Collects(zone, e), Within(zone, Next1.to)
  PROVE  \E spent \in SUBSET Channel :
           /\ Closed(spent) /\ Lacks("splitter", spent) /\ Lacks("aggregator", spent)
           /\ ThrownTo(e) # None => Within(spent, ThrownTo(e))
<1> DEFINE m == Next1.msg
           d == Next1.to[2]
<1>1. Closed({}) /\ Lacks("splitter", {}) /\ Lacks("aggregator", {}) /\ {} \in SUBSET Channel
  BY DEF Closed, Lacks
<1>2. PICK c \in zone : e \in Handlers(c) /\ (InChain => d \in Handlers(c))
  <2>1. PICK c \in zone : e \in Handlers(c) /\ (InChain => d \in Subscribers(c))
    BY GivenWithin
  <2> QED BY <2>1 DEF Handlers
<1>3. \A f \in Handlers(c) : Errors[f] # None =>
        \E spent \in SUBSET Channel :
          /\ Errors[f] \in spent /\ Closed(spent)
          /\ Lacks("splitter", spent) /\ Lacks("aggregator", spent)
  BY <1>2 DEF Collects
<1>4. ASSUME NEW f \in Handlers(c), ThrownTo(e) = Errors[f], ThrownTo(e) # None
      PROVE  \E spent \in SUBSET Channel :
               /\ Closed(spent) /\ Lacks("splitter", spent) /\ Lacks("aggregator", spent)
               /\ ThrownTo(e) # None => Within(spent, ThrownTo(e))
  <2>1. PICK spent \in SUBSET Channel :
          /\ Errors[f] \in spent /\ Closed(spent)
          /\ Lacks("splitter", spent) /\ Lacks("aggregator", spent)
    BY <1>3, <1>4
  <2>2. Within(spent, ThrownTo(e))
    BY <1>4, <2>1 DEF Within
  <2> QED BY <2>1, <2>2
<1>5. ThrownTo(e) = None \/ ThrownTo(e) = Errors[e] \/ ThrownTo(e) = m.error
      \/ (InChain /\ ThrownTo(e) = Errors[d])
  <2>1. CASE NextError(e, m) # None \/ ~InChain
    <3>1. ThrownTo(e) = NextError(e, m)
      BY <2>1 DEF ThrownTo, ErrorTarget
    <3> QED BY <3>1 DEF NextError
  <2>2. CASE ~(NextError(e, m) # None \/ ~InChain)
    <3>1. ThrownTo(e) = Errors[d]
      BY <2>2 DEF ThrownTo, ErrorTarget
    <3> QED BY <2>2, <3>1
  <2> QED BY <2>1, <2>2
<1>6. CASE ThrownTo(e) = None
  BY <1>1, <1>6
<1>7. CASE ThrownTo(e) # None /\ ThrownTo(e) = m.error
  <2>1. m.error = ErrorTo(m.call) /\ m.call \in Call
    BY <1>7, TopGiven DEF MessageOK
  <2>2. Within({}, ThrownTo(e))
    BY <1>7, <2>1 DEF Within
  <2> QED BY <1>1, <2>2
<1> QED BY <1>2, <1>4, <1>5, <1>6, <1>7

\* The last part fills the bucket, and the release throws.
LEMMA UnreleasedCalls ==
  ASSUME TypeInv, HeadersInv, CallsOK, NEW e \in Endpoint, Given(e), Kind[e] = "aggregator",
         Next1.msg.corr # None, UNCHANGED <<handlers, tasks, promise>>,
         Len(Bucket(e, Next1.msg)) >= Next1.msg.size,
         buckets' = [buckets EXCEPT ![<<e, Next1.msg.corr>>] = InOrder(Bucket(e, Next1.msg))],
         Throws(e, Next1.msg)
  PROVE  HeadersInv' /\ CallsOK'
<1> DEFINE m == Next1.msg
<1>1. PICK d \in Call : \E zone \in SUBSET Channel : \E n \in PartCounts \ {0} :
        /\ d = m.call /\ d = m.corr /\ Of(d) = {Top}
        /\ Divided(zone, e, n, d, Of(d), BucketsIn(buckets, d), promise[d], LostCalls, failed)
  BY BucketIsFull
<1>2. PICK zone \in SUBSET Channel : \E n \in PartCounts \ {0} :
        /\ d = m.call /\ d = m.corr /\ Of(d) = {Top}
        /\ Divided(zone, e, n, d, Of(d), BucketsIn(buckets, d), promise[d], LostCalls, failed)
  BY <1>1
<1>3. PICK n \in PartCounts \ {0} :
        /\ d = m.call /\ d = m.corr /\ Of(d) = {Top}
        /\ Divided(zone, e, n, d, Of(d), BucketsIn(buckets, d), promise[d], LostCalls, failed)
  BY <1>2
<1>4. /\ work # <<>> /\ WorkOK /\ Live(Top) /\ Top \in Tokens /\ Top.msg = m /\ MessageOK(m)
      /\ Top.goals = {Next1.to} /\ m \in GoodMessages /\ ThrownTo(e) \in Targets
  BY GivenFacts, TopGiven, WorkFacts, TargetFacts DEF TypeInv, ThrownTo, ErrorTarget
<1>5. /\ failed' = failed \cup {d}
      /\ IF ThrownTo(e) = None THEN Loses(m, "invalid") /\ work' = Rest
         ELSE work' = <<Send(ThrownTo(e), m)>> \o Rest /\ UNCHANGED lost
  BY <1>3, <1>4, ThrowsAtOnce DEF ThrownTo
<1>6. LostCalls \subseteq LostCalls' /\ (ThrownTo(e) = None => d \in LostCalls')
  BY <1>3, <1>5, LostFacts
<1>7. /\ \A c \in Call \ {d} : BucketsIn(buckets', c) = BucketsIn(buckets, c)
      /\ \A f \in Endpoint \ {e} : BucketsIn(buckets', d)[f] = BucketsIn(buckets, d)[f]
      /\ \A b \in Endpoint \X Call : \A g \in Range(buckets'[b]) : MessageOK(g)
  BY <1>3, SortedBucket
<1>8. PICK spent \in SUBSET Channel :
           /\ Closed(spent) /\ Lacks("splitter", spent) /\ Lacks("aggregator", spent)
           /\ ThrownTo(e) # None => Within(spent, ThrownTo(e))
  <2>1. Within(zone, Next1.to) /\ Collects(zone, e)
    BY <1>3, <1>4 DEF Divided, Reached
  <2> QED BY <2>1, SpentFacts
<1>9. PICK y : y = Spot(Len(Rest), Send(ThrownTo(e), m))
  OBVIOUS
<1>10. y.at[1] = "work" /\ y.msg = m /\ y.goals = {ThrownTo(e)}
  BY <1>9, SpotFacts DEF Send
<1>11. PICK Y : Y = IF ThrownTo(e) = None THEN {} ELSE {y}
  OBVIOUS
<1>12. Tokens' = Replaced(Tokens, Top, Y)
  <2>1. CASE ThrownTo(e) = None
    <3>1. Tokens' = Tokens \ {Top}
      BY <1>4, <1>5, <2>1, TakeTokens
    <3> QED BY <1>11, <2>1, <3>1 DEF Replaced
  <2>2. CASE ThrownTo(e) # None
    <3>1. PICK s : s = Send(ThrownTo(e), m)
      OBVIOUS
    <3>2. s \in Sends /\ work' = <<s>> \o Rest
      BY <1>4, <1>5, <2>2, <3>1 DEF Send, Sends
    <3>3. Tokens' = (Tokens \ {Top}) \cup {Spot(Len(Rest), s)}
      BY <1>4, <3>2, SendTokens
    <3> QED BY <1>9, <1>11, <2>2, <3>1, <3>3 DEF Replaced
  <2> QED BY <2>1, <2>2
<1>13. ThrownTo(e) # None => Proper(Top, ThrownTo(e), failed')
  <2> SUFFICES ASSUME ThrownTo(e) # None PROVE Proper(Top, ThrownTo(e), failed')
    OBVIOUS
  <2>1. Next1.msg.call \in failed'
    BY <1>3, <1>5
  <2> QED BY <2>1, ThrownProper
<1>14. \A v \in Y : /\ v.at[1] = "work" /\ v.msg = m /\ Live(v) /\ Reached(v, spent)
                    /\ GoalsOK(v, failed') /\ \A w \in Y : w = v
  <2> SUFFICES ASSUME ThrownTo(e) # None
               PROVE  Live(y) /\ Reached(y, spent) /\ GoalsOK(y, failed')
    BY <1>10, <1>11
  <2>1. Live(y)
    BY <1>10, <1>13 DEF Live, Proper
  <2>2. Reached(y, spent)
    BY <1>8, <1>10 DEF Reached
  <2>3. GoalsOK(y, failed')
    <3>1. Unreplied(y)
      <4>1. Unreplied(Top)
        BY <1>4 DEF HeadersInv, GoalsOK
      <4>2. \A s \in SUBSET Channel : Served(s) => Closed(s) /\ Unanswered(s)
        BY DEF Served
      <4>3. \A s \in SUBSET Channel : Served(s) /\ m.body = <<>> =>
              Within(s, ThrownTo(e)) /\ ThrownTo(e) # ReplyTo(d)
        BY <1>4, <1>13, <4>1, <4>2 DEF Unreplied, Proper
      <4> QED BY <1>3, <1>10, <4>3 DEF Unreplied, Reached
    <3> QED BY <1>4, <1>10, <1>13, <2>1, <3>1 DEF GoalsOK, Proper
  <2> QED BY <2>1, <2>2, <2>3
<1>15. PICK x : x = Top
  OBVIOUS
<1>16. Phase(d, Replaced(Of(d), x, Y), BucketsIn(buckets', d), promise[d], LostCalls', failed')
  <2>1. Divided(zone, e, n, d, Of(d), BucketsIn(buckets, d), promise[d], LostCalls, failed)
    BY <1>3
  <2>2. Divided(zone, e, n, d, Of(d), BucketsIn(buckets, d), promise[d], LostCalls, failed')
    BY <1>5, <2>1 DEF Divided
  <2>3. Of(d) = {x} /\ d \in failed' /\ (Y = {} => d \in LostCalls')
    BY <1>3, <1>5, <1>6, <1>11, <1>15
  <2>4. \A f \in Endpoint \ {e} : BucketsIn(buckets', d)[f] = BucketsIn(buckets, d)[f]
    BY <1>7
  <2>5. Closed(spent) /\ Lacks("splitter", spent) /\ Lacks("aggregator", spent)
    BY <1>8
  <2>6. \A v \in Y : Live(v) /\ v.msg = x.msg /\ Reached(v, spent) /\ \A w \in Y : w = v
    BY <1>4, <1>14, <1>15
  <2> QED BY ONLY d \in Call, e \in Endpoint, zone \in SUBSET Channel, n \in PartCounts \ {0},
                  spent \in SUBSET Channel, <2>2, <2>3, <2>4, <2>5, <2>6, UnreleasedPhase
<1>17. CallsOK'
  <2>1. Phase(d, Replaced(Of(d), x, Y), BucketsIn(buckets', d), promise'[d], LostCalls', failed')
    BY <1>16
  <2>2. \A c \in Call \ {d} : promise'[c] = promise[c] /\ BucketsIn(buckets', c) = BucketsIn(buckets, c)
    BY <1>7
  <2>3. /\ failed \subseteq failed' /\ LostCalls \subseteq LostCalls' /\ x.msg.call = d /\ x \in Tokens
    BY <1>3, <1>4, <1>5, <1>6, <1>15
  <2>4. \A v \in Y : v.msg.call = d
    BY <1>3, <1>14
  <2>5. Tokens' = Replaced(Tokens, x, Y)
    BY <1>12, <1>15
  <2> QED BY ONLY CallsOK, d \in Call, <2>1, <2>2, <2>3, <2>4, <2>5, CallsStep
<1>18. HeadersInv'
  <2>1. \A v \in Tokens : MessageOK(v.msg) /\ GoalsOK(v, failed')
    BY <1>5 DEF HeadersInv, GoalsOK
  <2>2. \A v \in Tokens' : MessageOK(v.msg) /\ GoalsOK(v, failed')
    BY <1>4, <1>12, <1>14, <2>1 DEF Replaced
  <2> QED BY <1>7, <2>2 DEF HeadersInv
<1> QED BY <1>17, <1>18

\* Every outcome of an aggregator that takes a part.
LEMMA CorrelateCalls ==
  ASSUME TypeInv, HeadersInv, CallsOK, SplitOnce, NEW e \in Endpoint, Correlate(e)
  PROVE  HeadersInv' /\ CallsOK'
<1> DEFINE m == Next1.msg
<1>1. /\ Kind[e] = "aggregator" /\ Given(e) /\ m.corr # None
      /\ UNCHANGED <<handlers, tasks, promise>>
      /\ \/ /\ Len(Bucket(e, m)) < m.size
            /\ buckets' = [buckets EXCEPT ![<<e, m.corr>>] = Bucket(e, m)]
            /\ work' = Rest /\ UNCHANGED <<lost, failed>>
         \/ /\ Len(Bucket(e, m)) >= m.size
            /\ buckets' = [buckets EXCEPT ![<<e, m.corr>>] = InOrder(Bucket(e, m))]
            /\ \/ /\ work' = <<Send(Output[e], Aggregate(InOrder(Bucket(e, m)))),
                               Send(Forget(e, m.corr), m)>> \o Rest
                  /\ UNCHANGED <<lost, failed>>
               \/ Throws(e, m)
  BY DEF Correlate, Bucket, subscriptions, gateway
<1>2. CASE /\ Len(Bucket(e, m)) < m.size
           /\ buckets' = [buckets EXCEPT ![<<e, m.corr>>] = Bucket(e, m)]
           /\ work' = Rest /\ UNCHANGED <<lost, failed>>
  BY <1>1, <1>2, StoreCalls
<1>3. CASE /\ Len(Bucket(e, m)) >= m.size
           /\ buckets' = [buckets EXCEPT ![<<e, m.corr>>] = InOrder(Bucket(e, m))]
           /\ work' = <<Send(Output[e], Aggregate(InOrder(Bucket(e, m)))),
                        Send(Forget(e, m.corr), m)>> \o Rest
           /\ UNCHANGED <<lost, failed>>
  BY <1>1, <1>3, ReleaseCalls
<1>4. CASE /\ Len(Bucket(e, m)) >= m.size
           /\ buckets' = [buckets EXCEPT ![<<e, m.corr>>] = InOrder(Bucket(e, m))]
           /\ Throws(e, m)
  BY <1>1, <1>4, UnreleasedCalls
<1> QED BY <1>1, <1>2, <1>3, <1>4
-----------------------------------------------------------------------------
(* The statement that deletes a bucket, and the end of a message at the      *)
(* gateway.                                                                  *)

\* A bucket is deleted by the call it was released for.
LEMMA DeleteCalls ==
  ASSUME TypeInv, HeadersInv, CallsOK, DeleteBucket
  PROVE  HeadersInv' /\ CallsOK'
<1>1. /\ work # <<>> /\ WorkOK /\ Top \in Tokens /\ Top.msg = Next1.msg /\ Top.goals = {Next1.to}
      /\ Next1.msg.call \in Call
  BY TopFacts, WorkFacts DEF DeleteBucket, TypeInv
<1>2. PICK e \in Endpoint, c \in Call :
        Next1.to = Forget(e, c) /\ buckets' = [buckets EXCEPT ![<<e, c>>] = <<>>]
  BY DEF DeleteBucket
<1>3. PICK d \in Call : d = Next1.msg.call
  BY <1>1
<1>4. Phase(d, Of(d), BucketsIn(buckets, d), promise[d], LostCalls, failed) /\ Top \in Of(d)
  BY <1>1, <1>3 DEF CallsOK, Of
<1>5. ~Live(Top)
  BY <1>1, <1>2 DEF Live
<1>6. \E a \in Endpoint : Top.goals = {Forget(a, d)}
  BY <1>4, <1>5 DEF Phase, Unsplit, Divided, Gathered
<1>7. c = d
  <2>1. PICK a \in Endpoint : Top.goals = {Forget(a, d)}
    BY <1>6
  <2>2. Forget(e, c) = Forget(a, d)
    BY <1>1, <1>2, <2>1
  <2>3. Forget(e, c)[3] = c /\ Forget(a, d)[3] = d
    BY DEF Forget
  <2> QED BY <2>2, <2>3
<1>8. buckets' = SetBucket(buckets, e, d, <<>>)
  BY <1>2, <1>7 DEF SetBucket
<1>9. /\ BucketsIn(buckets', d)[e] = <<>>
      /\ \A b \in Endpoint \X Call : buckets'[b] = IF b = <<e, d>> THEN <<>> ELSE buckets[b]
  BY <1>8, BucketSetFacts
<1>10. /\ \A f \in Call \ {d} : BucketsIn(buckets', f) = BucketsIn(buckets, f)
       /\ \A f \in Endpoint \ {e} : BucketsIn(buckets', d)[f] = BucketsIn(buckets, d)[f]
  BY <1>8, OtherBuckets
<1>11. UNCHANGED <<handlers, tasks, promise, failed, lost>> /\ work' = Rest
  BY DEF DeleteBucket, subscriptions, gateway
<1>12. LostCalls' = LostCalls
  BY <1>11, LostFacts
<1>13. Tokens' = Tokens \ {Top}
  BY <1>1, <1>11, TakeTokens
<1>14. PICK x : x = Top
  OBVIOUS
<1>15. Phase(d, Of(d) \ {x}, BucketsIn(buckets', d), promise[d], LostCalls, failed)
  <2>1. x \in Of(d) /\ x.goals = {Forget(e, d)}
    BY <1>1, <1>2, <1>4, <1>7, <1>14
  <2>2. BucketsIn(buckets', d)[e] = <<>>
    BY <1>9
  <2>3. \A f \in Endpoint \ {e} : BucketsIn(buckets', d)[f] = BucketsIn(buckets, d)[f]
    BY <1>10
  <2>4. Phase(d, Of(d), BucketsIn(buckets, d), promise[d], LostCalls, failed)
    BY <1>4
  <2> QED BY ONLY d \in Call, e \in Endpoint, <2>1, <2>2, <2>3, <2>4, ForgetPhase
<1>16. CallsOK'
  <2>1. Phase(d, Replaced(Of(d), x, {}), BucketsIn(buckets', d), promise'[d], LostCalls', failed')
    <3>1. Replaced(Of(d), x, {}) = Of(d) \ {x}
      BY DEF Replaced
    <3> QED BY <1>11, <1>12, <1>15, <3>1
  <2>2. \A f \in Call \ {d} : promise'[f] = promise[f] /\ BucketsIn(buckets', f) = BucketsIn(buckets, f)
    BY <1>10, <1>11
  <2>3. failed \subseteq failed' /\ LostCalls \subseteq LostCalls' /\ x.msg.call = d /\ x \in Tokens
    BY <1>1, <1>3, <1>11, <1>12, <1>14
  <2>4. \A y \in {} : y.msg.call = d
    OBVIOUS
  <2>5. Tokens' = Replaced(Tokens, x, {})
    BY <1>13, <1>14 DEF Replaced
  <2> QED BY ONLY CallsOK, d \in Call, <2>1, <2>2, <2>3, <2>4, <2>5, CallsStep
<1>17. HeadersInv'
  <2>1. \A b \in Endpoint \X Call : \A m \in Range(buckets'[b]) : MessageOK(m)
    <3>1. Range(<<>>) = {}
      BY DEF Range
    <3> QED BY <1>9, <3>1 DEF HeadersInv
  <2> QED BY <1>11, <1>13, <2>1 DEF HeadersInv
<1> QED BY <1>16, <1>17

\* A message ends at the gateway and settles the promise.
LEMMA SettleCalls ==
  ASSUME TypeInv, HeadersInv, CallsOK, Settle
  PROVE  HeadersInv' /\ CallsOK'
<1>1. /\ work # <<>> /\ WorkOK /\ Top \in Tokens /\ Top.msg = Next1.msg /\ Top.goals = {Next1.to}
      /\ Next1.msg.call \in Call /\ Top.at[1] = "work"
  BY TopFacts, WorkFacts DEF Settle, TypeInv
<1>2. PICK d \in Call :
       \/ /\ Next1.to = ReplyTo(d)
          /\ IF promise[d] # "pending" THEN UNCHANGED gateway
             ELSE /\ promise' = [promise EXCEPT ![d] = "resolved"]
                  /\ value' = [value EXCEPT ![d] = Next1.msg.body]
       \/ /\ Next1.to = ErrorTo(d)
          /\ promise' = [promise EXCEPT ![d] = IF @ = "pending" THEN "rejected" ELSE @]
          /\ UNCHANGED value
  BY DEF Settle
<1>3. GoalsOK(Top, failed)
  BY <1>1 DEF HeadersInv
<1>4. d = Next1.msg.call /\ (ReplyTo(d) \in Top.goals \/ d \in failed)
  BY <1>1, <1>2, <1>3 DEF GoalsOK
<1>5. Live(Top)
  BY <1>1, <1>2, TargetsApart DEF Live
<1>6. Phase(d, Of(d), BucketsIn(buckets, d), promise[d], LostCalls, failed) /\ Top \in Of(d)
  BY <1>1, <1>4 DEF CallsOK, Of
<1>7. promise[d] # "idle"
  BY <1>6 DEF Phase, Unsplit, Divided, Gathered
<1>8. DOMAIN promise = Call /\ promise[d] \in {"idle", "pending", "resolved", "rejected"}
  BY DEF TypeInv, GatewayOK
<1>9. /\ promise'[d] # "pending" /\ promise'[d] # "idle"
      /\ \A f \in Call \ {d} : promise'[f] = promise[f]
  BY <1>2, <1>7, <1>8 DEF gateway
<1>10. UNCHANGED <<handlers, tasks, buckets, failed, lost>> /\ work' = Rest
  BY DEF Settle, subscriptions
<1>11. Tokens' = Tokens \ {Top} /\ LostCalls' = LostCalls
  BY <1>1, <1>10, TakeTokens, LostFacts
<1>12. PICK x : x = Top
  OBVIOUS
<1>13. PICK q : q = promise'[d]
  OBVIOUS
<1>14. Phase(d, Of(d) \ {x}, BucketsIn(buckets, d), q, LostCalls, failed)
  <2>1. /\ x \in Of(d) /\ Live(x) /\ (ReplyTo(d) \in x.goals \/ d \in failed)
        /\ q # "pending" /\ q # "idle"
    BY <1>4, <1>5, <1>6, <1>9, <1>12, <1>13
  <2>2. Phase(d, Of(d), BucketsIn(buckets, d), promise[d], LostCalls, failed)
    BY <1>6
  <2> QED BY ONLY d \in Call, <2>1, <2>2, SettlePhase
<1>15. CallsOK'
  <2>1. Phase(d, Replaced(Of(d), x, {}), BucketsIn(buckets', d), promise'[d], LostCalls', failed')
    <3>1. Replaced(Of(d), x, {}) = Of(d) \ {x}
      BY DEF Replaced
    <3> QED BY <1>10, <1>11, <1>13, <1>14, <3>1
  <2>2. \A f \in Call \ {d} : promise'[f] = promise[f] /\ BucketsIn(buckets', f) = BucketsIn(buckets, f)
    BY <1>9, <1>10
  <2>3. failed \subseteq failed' /\ LostCalls \subseteq LostCalls' /\ x.msg.call = d /\ x \in Tokens
    BY <1>1, <1>4, <1>10, <1>11, <1>12
  <2>4. \A y \in {} : y.msg.call = d
    OBVIOUS
  <2>5. Tokens' = Replaced(Tokens, x, {})
    BY <1>11, <1>12 DEF Replaced
  <2> QED BY ONLY CallsOK, d \in Call, <2>1, <2>2, <2>3, <2>4, <2>5, CallsStep
<1>16. HeadersInv'
  BY <1>10, <1>11 DEF HeadersInv
<1> QED BY <1>15, <1>16
-----------------------------------------------------------------------------
(* What begins a turn. *)

\* A call begins with one message.
LEMMA AskCalls ==
  ASSUME TypeInv, HeadersInv, CallsOK, NEW d \in Call, Ask(d)
  PROVE  HeadersInv' /\ CallsOK'
<1>1. /\ work = <<>> /\ promise[d] = "idle"
      /\ promise' = [promise EXCEPT ![d] = "pending"]
      /\ UNCHANGED <<handlers, tasks, buckets, failed, lost>>
  BY DEF Ask, Idle, subscriptions
<1>2. PICK to \in Entry : work' = <<Send(to, Request(d))>>
  BY DEF Ask
<1>3. DOMAIN promise = Call
  BY DEF TypeInv, GatewayOK
<1>4. PICK s : s = Send(to, Request(d))
  OBVIOUS
<1>5. s.to = to /\ s.msg = Request(d) /\ work' = <<s>> /\ to \in Channel
  BY <1>2, <1>4, WiringAssumption DEF Send
<1>6. PICK y : y = Spot(0, s)
  OBVIOUS
<1>7. y.at[1] = "work" /\ y.msg = Request(d) /\ y.goals = {to}
  BY <1>5, <1>6, SpotFacts
<1>8. WorkTokens(work) = {} /\ WorkTokens(work') = {y}
  <2>1. Len(<<>>) = 0 /\ 1..0 = {}
    OBVIOUS
  <2>2. Len(<<s>>) = 1 /\ 1..1 = {1} /\ <<s>>[1] = s /\ 1 - 1 = 0
    OBVIOUS
  <2>3. WorkTokens(work) = {}
    BY <1>1, <2>1 DEF WorkTokens
  <2>4. WorkTokens(work') = {y}
    BY <1>5, <1>6, <2>2 DEF WorkTokens
  <2> QED BY <2>3, <2>4
<1>9. Tokens' = Tokens \cup {y}
  BY <1>1, <1>8 DEF Tokens
<1>10. /\ y.msg.call = d /\ y.msg.corr = None /\ y.msg.body = <<>> /\ MessageOK(y.msg)
  <2>1. Len(<<>>) = 0 /\ 1..0 = {}
    OBVIOUS
  <2> QED BY <1>7, <2>1 DEF Request, MessageOK
<1>11. Live(y) /\ GoalsOK(y, failed)
  <2>1. Live(y)
    BY <1>5, <1>7, TargetsApart DEF Live
  <2>2. \A c \in Call : ReplyTo(c) \notin y.goals /\ ErrorTo(c) \notin y.goals
    BY <1>5, <1>7, TargetsApart
  <2>3. Unreplied(y)
    BY <1>5, <1>7, <1>10, <2>2 DEF Unreplied, Served, Reached, Within
  <2> QED BY <1>7, <2>1, <2>2, <2>3 DEF GoalsOK
<1>12. Of(d) = {} /\ Phase(d, {y}, BucketsIn(buckets, d), "pending", LostCalls, failed)
  <2>1. Phase(d, Of(d), BucketsIn(buckets, d), "idle", LostCalls, failed)
    BY <1>1 DEF CallsOK
  <2>2. Live(y) /\ y.msg.corr = None /\ y.msg.body = <<>>
    BY <1>10, <1>11
  <2> QED BY ONLY d \in Call, <2>1, <2>2, AskPhase
<1>13. Of(d)' = {y}
  BY <1>9, <1>10, <1>12 DEF Of
<1>14. LostCalls' = LostCalls
  BY <1>1, LostFacts
<1>15. CallsOK'
  <2> SUFFICES ASSUME NEW c \in Call
               PROVE  Phase(c, Of(c)', BucketsIn(buckets', c), promise'[c], LostCalls', failed')
    BY DEF CallsOK
  <2>1. CASE c = d
    BY <1>1, <1>3, <1>12, <1>13, <1>14, <2>1
  <2>2. CASE c # d
    <3>1. Of(c)' = Of(c)
      BY <1>9, <1>10, <2>2 DEF Of
    <3>2. Phase(c, Of(c), BucketsIn(buckets, c), promise[c], LostCalls, failed)
      BY DEF CallsOK
    <3> QED BY <1>1, <1>3, <1>14, <2>2, <3>1, <3>2
  <2> QED BY <2>1, <2>2
<1>16. HeadersInv'
  BY <1>1, <1>9, <1>10, <1>11 DEF HeadersInv
<1> QED BY <1>15, <1>16

\* Who subscribes and unsubscribes in between has been counted with already.
LEMMA ChangesCalls ==
  ASSUME TypeInv, HeadersInv, CallsOK, NEW p \in Mutable,
         Subscribe(p[1], p[2]) \/ Unsubscribe(p[1], p[2])
  PROVE  HeadersInv' /\ CallsOK'
<1> DEFINE q == handlers[p[1]]
<1>1. p = <<p[1], p[2]>> /\ p[1] \in Channel /\ p[2] \in Endpoint
  BY WiringAssumption
<1>2. PICK list : /\ handlers' = [handlers EXCEPT ![p[1]] = list]
                  /\ list = Append(q, p[2]) \/ list = Without(q, p[2])
                  /\ UNCHANGED <<work, tasks, buckets, promise, failed, lost>>
  BY DEF Subscribe, Unsubscribe, Changes, gateway
<1>3. DOMAIN handlers = Channel /\ q \in Seq(Endpoint)
  BY <1>1 DEF TypeInv, SubscriptionsOK
<1>4. p[2] \in Subscribers(p[1])
  BY <1>1 DEF Subscribers
<1>5. Range(list) \subseteq Range(q) \cup {p[2]}
  <2>1. CASE list = Append(q, p[2])
    BY <1>3, <2>1 DEF Range
  <2>2. CASE list = Without(q, p[2])
    <3>1. Members(list) \subseteq Members(q) /\ list \in Seq(Endpoint)
      BY <1>3, <2>2, WithoutFacts
    <3>2. Range(list) = Members(list) /\ Range(q) = Members(q)
      BY <1>3, <3>1 DEF Range, Members
    <3> QED BY <3>1, <3>2
  <2> QED BY <1>2, <2>1, <2>2
<1>6. \A c \in Channel : Range(handlers'[c]) \subseteq Subscribers(c)
  BY <1>1, <1>2, <1>3, <1>4, <1>5 DEF HeadersInv
<1>7. Tokens' = Tokens /\ LostCalls' = LostCalls
  BY <1>2, LostFacts DEF Tokens
<1>8. CallsOK'
  BY <1>2, <1>7 DEF CallsOK, Of
<1>9. HeadersInv'
  BY <1>2, <1>6, <1>7 DEF HeadersInv
<1> QED BY <1>8, <1>9
-----------------------------------------------------------------------------
(* The invariant of calls. *)

\* What a service answers is not sent to an error channel of a call.
TasksOK == \A t \in tasks, c \in Call : t.reply # ErrorTo(c)

CallInv == TypeInv /\ HeadersInv /\ CallsOK /\ TasksOK

\* The reply channel of a promise is an output, a reply or the rest of a chain.
LEMMA ServeTasks ==
  ASSUME TypeInv, HeadersInv, TasksOK, NEW e \in Endpoint, Serve(e)
  PROVE  TasksOK'
<1> DEFINE m == Next1.msg
           t == [service |-> e, msg |-> m, reply |-> NextOutput(e, m), error |-> NextError(e, m)]
<1>1. Given(e) /\ tasks' = tasks \cup {t}
  BY DEF Serve
<1>2. ASSUME NEW c \in Call PROVE NextOutput(e, m) # ErrorTo(c)
  <2>1. CASE InChain
    <3>1. Override \in Afters
      BY <2>1, InChainFacts
    <3> QED BY <2>1, <3>1, TargetsApart DEF NextOutput
  <2>2. CASE ~InChain /\ Output[e] # None
    BY <2>2, WiringFacts, TargetsApart DEF NextOutput
  <2>3. CASE ~InChain /\ Output[e] = None
    <3>1. m.reply \in {None, ReplyTo(m.call)} /\ m.call \in Call
      BY <1>1, TopGiven DEF MessageOK
    <3>2. NextOutput(e, m) = m.reply
      BY <2>3 DEF NextOutput
    <3> QED BY <3>1, <3>2, TargetsApart
  <2> QED BY <2>1, <2>2, <2>3
<1>3. t.reply = NextOutput(e, m)
  OBVIOUS
<1> HIDE DEF t
<1> QED BY <1>1, <1>2, <1>3 DEF TasksOK

\* One step for each kind of endpoint.
LEMMA HandleCalls ==
  ASSUME CallInv, SplitOnce, Handle
  PROVE  HeadersInv' /\ CallsOK' /\ TasksOK'
<1>1. PICK e \in Endpoint :
        \/ EndpointThrows(e) \/ Transform(e) \/ FilterPasses(e) \/ FilterDiscards(e)
        \/ Route(e) \/ Split(e) \/ Ignore(e) \/ Correlate(e) \/ Serve(e)
        \/ ChainBegins(e) \/ ChainEnds(e)
  BY DEF Handle
<1>2. TypeInv /\ HeadersInv /\ CallsOK /\ TasksOK
  BY DEF CallInv
<1>3. CASE EndpointThrows(e)
  <2>1. /\ Given(e) /\ Throws(e, Next1.msg) /\ UNCHANGED <<handlers, tasks, buckets, promise>>
    BY <1>3 DEF EndpointThrows, subscriptions, gateway
  <2> QED BY <1>2, <2>1, ThrowsOn DEF TasksOK
<1>4. CASE Transform(e) \/ FilterPasses(e) \/ FilterDiscards(e) \/ Ignore(e)
  <2>1. UNCHANGED tasks
    BY <1>4 DEF Transform, FilterPasses, FilterDiscards, Ignore
  <2> QED BY <1>2, <1>4, <2>1, FilterCalls DEF TasksOK
<1>5. CASE Route(e)
  <2>1. UNCHANGED tasks
    BY <1>5 DEF Route
  <2>2. RoutedOnce
    BY DEF SplitOnce
  <2> QED BY <1>2, <1>5, <2>1, <2>2, RouteCalls DEF TasksOK
<1>6. CASE Split(e)
  <2>1. UNCHANGED tasks
    BY <1>6 DEF Split
  <2> QED BY <1>2, <1>6, <2>1, SplitCalls DEF TasksOK
<1>7. CASE Correlate(e)
  <2>1. UNCHANGED tasks
    BY <1>7 DEF Correlate
  <2> QED BY <1>2, <1>7, <2>1, CorrelateCalls DEF TasksOK
<1>8. CASE Serve(e)
  BY <1>2, <1>8, ServeCalls, ServeTasks
<1>9. CASE ChainBegins(e) \/ ChainEnds(e)
  <2>1. UNCHANGED tasks
    BY <1>9 DEF ChainBegins, ChainEnds
  <2> QED BY <1>2, <1>9, <2>1, ChainCalls DEF TasksOK
<1> QED BY <1>1, <1>3, <1>4, <1>5, <1>6, <1>7, <1>8, <1>9

\* What happens in a turn.
LEMMA TurnCalls ==
  ASSUME CallInv, SplitOnce, Turn
  PROVE  HeadersInv' /\ CallsOK' /\ TasksOK'
<1>1. TypeInv /\ HeadersInv /\ CallsOK /\ TasksOK
  BY DEF CallInv
<1>2. CASE Unheard \/ Unbalanced
  <2>1. UNCHANGED tasks
    BY <1>2 DEF Unheard, Unbalanced
  <2> QED BY <1>1, <1>2, <2>1, UntakenCalls DEF TasksOK
<1>3. CASE Handle
  BY <1>3, HandleCalls
<1>4. CASE DeleteBucket
  <2>1. UNCHANGED tasks
    BY <1>4 DEF DeleteBucket
  <2> QED BY <1>1, <1>4, <2>1, DeleteCalls DEF TasksOK
<1>5. CASE Settle
  <2>1. UNCHANGED tasks
    BY <1>5 DEF Settle
  <2> QED BY <1>1, <1>5, <2>1, SettleCalls DEF TasksOK
<1> QED BY <1>2, <1>3, <1>4, <1>5 DEF Turn

\* What the application does.
LEMMA AppCalls ==
  ASSUME CallInv, App
  PROVE  HeadersInv' /\ CallsOK' /\ TasksOK'
<1>1. TypeInv /\ HeadersInv /\ CallsOK /\ TasksOK
  BY DEF CallInv
<1>2. UNCHANGED tasks
  BY DEF App, Ask, Subscribe, Unsubscribe, Changes
<1>3. CASE \E c \in Call : Ask(c)
  BY <1>1, <1>2, <1>3, AskCalls DEF TasksOK
<1>4. CASE \E p \in Mutable : Subscribe(p[1], p[2]) \/ Unsubscribe(p[1], p[2])
  BY <1>1, <1>2, <1>4, ChangesCalls DEF TasksOK
<1> QED BY <1>3, <1>4 DEF App

\* What services do.
LEMMA ServiceCalls ==
  ASSUME CallInv, ServiceAnswers \/ ServiceRejects
  PROVE  HeadersInv' /\ CallsOK' /\ TasksOK'
<1>1. TypeInv /\ HeadersInv /\ CallsOK /\ TasksOK
  BY DEF CallInv
<1>2. CASE ServiceAnswers
  <2>1. PICK t \in tasks : Settles(t, t.reply) /\ UNCHANGED failed
    BY <1>2 DEF ServiceAnswers
  <2>2. \A c \in Call : t.reply # ErrorTo(c)
    BY <1>1 DEF TasksOK
  <2>3. PICK to : to = t.reply
    OBVIOUS
  <2>4. to \in {t.reply, t.error} /\ Settles(t, to) /\ \A c \in Call : to = ErrorTo(c) => t.msg.call \in failed'
    BY <2>1, <2>2, <2>3
  <2>5. failed \subseteq failed' /\ tasks' \subseteq tasks
    BY <2>1 DEF Settles
  <2> QED BY <1>1, <2>4, <2>5, SettlesCalls DEF TasksOK
<1>3. CASE ServiceRejects
  <2>1. PICK t \in tasks : Settles(t, t.error) /\ failed' = failed \cup {t.msg.call}
    BY <1>3 DEF ServiceRejects
  <2>2. PICK to : to = t.error
    OBVIOUS
  <2>3. to \in {t.reply, t.error} /\ Settles(t, to) /\ \A c \in Call : to = ErrorTo(c) => t.msg.call \in failed'
    BY <2>1, <2>2
  <2>4. failed \subseteq failed' /\ tasks' \subseteq tasks
    BY <2>1 DEF Settles
  <2> QED BY <1>1, <2>3, <2>4, SettlesCalls DEF TasksOK
<1> QED BY <1>2, <1>3

\* In the beginning nothing is under way.
LEMMA InitCalls == ASSUME Init PROVE HeadersInv /\ CallsOK /\ TasksOK
<1>1. Tokens = {}
  <2>1. Len(<<>>) = 0 /\ 1..0 = {}
    OBVIOUS
  <2>2. work = <<>> /\ tasks = {}
    BY DEF Init
  <2>3. WorkTokens(work) = {}
    BY <2>1, <2>2 DEF WorkTokens
  <2> QED BY <2>2, <2>3 DEF Tokens
<1>2. HeadersInv
  <2>1. \A c \in Channel : Range(handlers[c]) \subseteq Subscribers(c)
    BY DEF Init, Subscribers
  <2>2. \A b \in Endpoint \X Call : Range(buckets[b]) = {}
    BY DEF Init, Range
  <2> QED BY <1>1, <2>1, <2>2 DEF HeadersInv
<1>3. CallsOK
  <2> SUFFICES ASSUME NEW c \in Call
               PROVE  Phase(c, Of(c), BucketsIn(buckets, c), promise[c], LostCalls, failed)
    BY DEF CallsOK
  <2>1. Of(c) = {}
    BY <1>1 DEF Of
  <2>2. \A e \in Endpoint : BucketsIn(buckets, c)[e] = <<>>
    BY DEF Init, BucketsIn
  <2>3. promise[c] = "idle"
    BY DEF Init
  <2>4. Unsplit(c, Of(c), BucketsIn(buckets, c), promise[c], LostCalls)
    BY <2>1, <2>2, <2>3 DEF Unsplit
  <2> QED BY <2>4 DEF Phase
<1>4. TasksOK
  BY DEF Init, TasksOK
<1> QED BY <1>2, <1>3, <1>4

\* No step breaks the invariant.
LEMMA CallStep == ASSUME CallInv, SplitOnce, [Next]_vars PROVE CallInv'
<1>1. TypeInv'
  BY TypeStep DEF CallInv
<1>2. CASE App
  BY <1>1, <1>2, AppCalls DEF CallInv
<1>3. CASE ServiceAnswers \/ ServiceRejects
  BY <1>1, <1>3, ServiceCalls DEF CallInv
<1>4. CASE Turn
  BY <1>1, <1>4, TurnCalls DEF CallInv
<1>5. CASE UNCHANGED vars
  BY <1>1, <1>5 DEF CallInv, HeadersInv, CallsOK, TasksOK, Tokens, Of, LostCalls, vars
<1> QED BY <1>2, <1>3, <1>4, <1>5 DEF Next

\* The invariant holds where a message is split at most once.
LEMMA CallInvariant == SplitOnce => (Spec => []CallInv)
<1> SUFFICES ASSUME SplitOnce PROVE Spec => []CallInv
  OBVIOUS
<1>1. Init => CallInv
  BY InitTypes, InitCalls DEF CallInv
<1>2. CallInv /\ [Next]_vars => CallInv'
  BY CallStep
<1> QED BY <1>1, <1>2, PTL DEF Spec
-----------------------------------------------------------------------------
(* What is left when nothing is under way for a call.                        *)

\* A bucket that is not full lacks a part.
LEMMA MissingPart ==
  ASSUME NEW n \in Nat, NEW b, Len(b) \in Nat, Len(b) < n
  PROVE  \E k \in 0..(n-1) : \A i \in 1..Len(b) : b[i].seq # k
<1> SUFFICES ASSUME \A k \in 0..(n-1) : \E i \in 1..Len(b) : b[i].seq = k
             PROVE  FALSE
  OBVIOUS
<1> DEFINE f == [k \in 0..(n-1) |-> CHOOSE i \in 1..Len(b) : b[i].seq = k]
<1>1. \A k \in 0..(n-1) : f[k] \in 1..Len(b) /\ b[f[k]].seq = k
  OBVIOUS
<1>2. f \in [0..(n-1) -> 1..Len(b)]
  BY <1>1
<1>3. \A j, k \in 0..(n-1) : f[j] = f[k] => j = k
  BY <1>1
<1> HIDE DEF f
<1>5. PICK m \in Nat : m = Len(b)
  OBVIOUS
<1>6. 0 \in Int /\ 1 \in Int /\ n - 1 \in Int /\ m \in Int
  BY <1>5
<1>7. IsFiniteSet(0..(n-1)) /\ IsFiniteSet(1..m)
  BY <1>6, FS_Interval
<1>8. Cardinality(0..(n-1)) = IF 0 > n - 1 THEN 0 ELSE (n - 1) - 0 + 1
  BY <1>6, FS_Interval
<1>9. Cardinality(1..m) = IF 1 > m THEN 0 ELSE m - 1 + 1
  BY <1>6, FS_Interval
<1>10. Cardinality(1..m) < Cardinality(0..(n-1))
  BY <1>5, <1>8, <1>9
<1>11. f \in [0..(n-1) -> 1..m]
  BY <1>2, <1>5
<1>12. \E j, k \in 0..(n-1) : j # k /\ f[j] = f[k]
  BY ONLY <1>7, <1>10, <1>11, FS_PigeonHole
<1> QED BY <1>3, <1>12

\* A call for which nothing is under way has no tokens.
LEMMA NothingUnderWay ==
  ASSUME NEW c \in Call, ~UnderWay(c)
  PROVE  Of(c) = {}
<1> SUFFICES ASSUME NEW x \in Tokens, x.msg.call = c PROVE FALSE
  BY DEF Of
<1>1. CASE x \in WorkTokens(work)
  <2>1. PICK i \in 1..Len(work) : x = Spot(Len(work) - i, work[i])
    BY <1>1 DEF WorkTokens
  <2>2. work[i].msg.call = c
    BY <2>1, SpotFacts
  <2> QED BY <2>2 DEF UnderWay
<1>2. CASE x \in {TaskToken(t) : t \in tasks}
  <2>1. PICK t \in tasks : x = TaskToken(t)
    BY <1>2
  <2>2. t.msg.call = c
    BY <2>1, TaskTokenFacts
  <2> QED BY <2>2 DEF UnderWay
<1> QED BY <1>1, <1>2 DEF Tokens

\* Then it is settled and its buckets are empty, but for a reason.
LEMMA IdleFacts ==
  ASSUME CallInv, NEW c \in Call, ~UnderWay(c), c \notin LostCalls
  PROVE  /\ promise[c] # "pending"
         /\ \A e \in Endpoint : buckets[<<e, c>>] # <<>> => c \in failed
<1> DEFINE B == BucketsIn(buckets, c)
<1>1. Of(c) = {}
  BY NothingUnderWay
<1>2. Phase(c, {}, B, promise[c], LostCalls, failed)
  BY <1>1 DEF CallInv, CallsOK
<1>3. \A e \in Endpoint : B[e] = buckets[<<e, c>>] /\ Len(B[e]) \in Nat
  BY DEF CallInv, TypeInv, BucketsOK, BucketsIn
<1> HIDE DEF B
<1>4. CASE Unsplit(c, {}, B, promise[c], LostCalls)
  BY <1>3, <1>4 DEF Unsplit
<1>5. ASSUME NEW zone \in SUBSET Channel, NEW a \in Endpoint, NEW n \in PartCounts \ {0},
             Divided(zone, a, n, c, {}, B, promise[c], LostCalls, failed)
      PROVE  promise[c] # "pending" /\ c \in failed
  <2>1. n \in Nat /\ Len(B[a]) < n
    BY <1>5, OptionAssumption DEF Divided
  <2>2. PICK k \in 0..(n-1) : \A i \in 1..Len(B[a]) : B[a][i].seq # k
    <3>1. PICK b : b = B[a]
      OBVIOUS
    <3>2. Len(b) \in Nat /\ Len(b) < n
      BY <1>3, <2>1, <3>1
    <3>3. \E k \in 0..(n-1) : \A i \in 1..Len(b) : b[i].seq # k
      BY ONLY <2>1, <3>2, MissingPart
    <3> QED BY <3>1, <3>3
  <2> QED BY <1>5, <2>2 DEF Divided
<1>6. ASSUME NEW zone \in SUBSET Channel, NEW a \in Endpoint, NEW n \in PartCounts \ {0},
             Gathered(zone, a, n, c, {}, B, promise[c], LostCalls, failed)
      PROVE  promise[c] # "pending" /\ \A e \in Endpoint : B[e] # <<>> => c \in failed
  BY <1>6 DEF Gathered
<1> QED BY <1>2, <1>3, <1>4, <1>5, <1>6 DEF Phase

\* If the flow splits a message at most once, a promise does not hang without a
\* trace.
THEOREM HangsForACause == SplitOnce => (Spec => []PendingIsExplained)
<1> SUFFICES ASSUME SplitOnce PROVE Spec => []PendingIsExplained
  OBVIOUS
<1>1. CallInv => PendingIsExplained
  BY IdleFacts DEF PendingIsExplained
<1>2. Spec => []CallInv
  BY CallInvariant
<1> QED BY <1>1, <1>2, PTL

\* If the flow splits a message at most once, a bucket is held only for parts that
\* are to come, or that were lost or failed.
THEOREM BucketsHeldForACause == SplitOnce => (Spec => []BucketsAwaitParts)
<1> SUFFICES ASSUME SplitOnce PROVE Spec => []BucketsAwaitParts
  OBVIOUS
<1>1. CallInv => BucketsAwaitParts
  BY IdleFacts DEF BucketsAwaitParts
<1>2. Spec => []CallInv
  BY CallInvariant
<1> QED BY <1>1, <1>2, PTL
-----------------------------------------------------------------------------
(* The flow does what a gateway promises.                                    *)

\* What is under way is for a call that was made.
LEMMA TokenIsAsked ==
  ASSUME CallInv, NEW x \in Tokens PROVE x.msg.call \in Call /\ promise[x.msg.call] # "idle"
<1>1. PICK c \in Call : c = x.msg.call
  BY TokenFacts DEF CallInv
<1>2. x \in Of(c) /\ Phase(c, Of(c), BucketsIn(buckets, c), promise[c], LostCalls, failed)
  BY <1>1 DEF Of, CallInv, CallsOK
<1>3. promise[c] # "idle"
  BY <1>2 DEF Phase, Unsplit, Divided, Gathered
<1> QED BY <1>1, <1>3

\* A reply that reaches the gateway is whole.
LEMMA ReplyIsWhole ==
  ASSUME CallInv, AnswersAreMade, work # <<>>, NEW c \in Call, Next1.to = ReplyTo(c)
  PROVE  \E n \in PartCounts \ {0} : Complete(c, n, Next1.msg.body)
<1>1. TypeInv /\ HeadersInv /\ CallsOK /\ WorkOK
  BY DEF CallInv, TypeInv
<1>2. Top \in Tokens /\ Top.msg = Next1.msg /\ Top.goals = {Next1.to}
  BY <1>1, TopFacts
<1>3. Live(Top) /\ ReplyTo(c) \in Top.goals
  BY <1>2, TargetsApart DEF Live
<1>4. GoalsOK(Top, failed)
  BY <1>1, <1>2 DEF HeadersInv
<1>5. Top.msg.call = c
  BY <1>3, <1>4 DEF GoalsOK
<1>6. Top.msg.body # <<>>
  <2>1. PICK zone \in SUBSET Channel : Served(zone)
    BY DEF AnswersAreMade, Served, Unanswered
  <2> QED BY <1>3, <1>4, <1>5, <2>1 DEF GoalsOK, Unreplied
<1>7. Top \in Of(c) /\ Phase(c, Of(c), BucketsIn(buckets, c), promise[c], LostCalls, failed)
  BY <1>1, <1>2, <1>5 DEF Of, CallsOK
<1>8. PICK zone \in SUBSET Channel, a \in Endpoint, n \in PartCounts \ {0} :
        Gathered(zone, a, n, c, Of(c), BucketsIn(buckets, c), promise[c], LostCalls, failed)
  BY <1>6, <1>7 DEF Phase, Unsplit, Divided
<1>9. Complete(c, n, Top.msg.body)
  BY <1>3, <1>6, <1>7, <1>8 DEF Gathered, Live
<1> QED BY <1>2, <1>9

PartsOf(b) == [i \in DOMAIN b |-> b[i].part]

\* The parts of a complete body are the whole answer.
LEMMA AnswerIsWhole ==
  ASSUME NEW c, NEW n \in Nat, NEW b, Complete(c, n, b)
  PROVE  PartsOf(b) = Gateway!Whole(c, n)
BY DEF Complete, PartsOf, Gateway!Whole

\* Initial states map to initial states.
LEMMA GatewayStarts == Init => Gateway!Init
<1> SUFFICES ASSUME Init PROVE Gateway!Init
  OBVIOUS
<1>1. promise = [c \in Call |-> "idle"] /\ value = [c \in Call |-> <<>>] /\ failed = {}
  BY DEF Init
<1>2. PartsOf(<<>>) = <<>>
  BY DEF PartsOf
<1>3. [c \in Call |-> PartsOf(value[c])] = [c \in Call |-> <<>>]
  BY <1>1, <1>2
<1> QED BY <1>1, <1>3 DEF Gateway!Init, PartsOf

\* Something fails for a call that was made.
LEMMA FailStep ==
  ASSUME CallInv, NEW x \in Tokens, failed' = failed \cup {x.msg.call}, UNCHANGED gateway
  PROVE  Gateway!Next
<1>1. PICK c \in Call : c = x.msg.call /\ promise[c] # "idle"
  BY TokenIsAsked
<1>2. Gateway!Fail(c)
  BY <1>1 DEF Gateway!Fail, gateway
<1> QED BY <1>2 DEF Gateway!Next

\* The end of a message at the gateway resolves or rejects a call, or does nothing.
LEMMA SettleStep ==
  ASSUME CallInv, AnswersAreMade, Settle PROVE [Gateway!Next]_Gateway!vars
<1>1. /\ work # <<>> /\ UNCHANGED failed /\ WorkOK /\ GoalsOK(Top, failed) /\ Top.at[1] = "work"
      /\ Top.goals = {Next1.to}
  BY TopFacts DEF Settle, CallInv, TypeInv, HeadersInv
<1>2. DOMAIN promise = Call /\ DOMAIN value = Call
  BY DEF CallInv, TypeInv, GatewayOK
<1>3. PICK c \in Call :
       \/ /\ Next1.to = ReplyTo(c)
          /\ IF promise[c] # "pending" THEN UNCHANGED gateway
             ELSE /\ promise' = [promise EXCEPT ![c] = "resolved"]
                  /\ value' = [value EXCEPT ![c] = Next1.msg.body]
       \/ /\ Next1.to = ErrorTo(c)
          /\ promise' = [promise EXCEPT ![c] = IF @ = "pending" THEN "rejected" ELSE @]
          /\ UNCHANGED value
  BY DEF Settle
<1>4. CASE UNCHANGED <<promise, value>>
  BY <1>1, <1>4 DEF Gateway!vars
<1>5. CASE /\ Next1.to = ReplyTo(c) /\ promise[c] = "pending"
           /\ promise' = [promise EXCEPT ![c] = "resolved"]
           /\ value' = [value EXCEPT ![c] = Next1.msg.body]
  <2>1. PICK n \in PartCounts \ {0} : Complete(c, n, Next1.msg.body)
    BY <1>1, <1>5, ReplyIsWhole
  <2>2. PartsOf(Next1.msg.body) = Gateway!Whole(c, n)
    BY <2>1, OptionAssumption, AnswerIsWhole
  <2>3. [d \in Call |-> PartsOf(value'[d])]
          = [[d \in Call |-> PartsOf(value[d])] EXCEPT ![c] = Gateway!Whole(c, n)]
    BY <1>2, <1>5, <2>2
  <2>4. Gateway!Resolve(c)
    BY <1>1, <1>5, <2>3 DEF Gateway!Resolve, PartsOf
  <2> QED BY <2>4 DEF Gateway!Next
<1>6. CASE /\ Next1.to = ErrorTo(c)
           /\ promise' = [promise EXCEPT ![c] = IF @ = "pending" THEN "rejected" ELSE @]
           /\ UNCHANGED value
  <2>1. CASE promise[c] = "pending"
    <3>1. c \in failed
      BY <1>1, <1>6 DEF GoalsOK
    <3>2. Gateway!Reject(c)
      BY <1>1, <1>2, <1>6, <2>1, <3>1 DEF Gateway!Reject
    <3> QED BY <3>2 DEF Gateway!Next
  <2>2. CASE promise[c] # "pending"
    <3>1. promise \in [Call -> {"idle", "pending", "resolved", "rejected"}]
      BY DEF CallInv, TypeInv, GatewayOK
    <3>2. promise' = promise
      BY <1>6, <2>2, <3>1
    <3> QED BY <1>1, <1>6, <3>2 DEF Gateway!vars
  <2> QED BY <2>1, <2>2
<1> QED BY <1>3, <1>4, <1>5, <1>6 DEF gateway

\* Every other step either fails a call or concerns no gateway.
LEMMA OtherSteps ==
  ASSUME CallInv, Unheard \/ Unbalanced \/ Handle \/ DeleteBucket \/ ServiceAnswers \/ ServiceRejects
  PROVE  /\ UNCHANGED gateway
         /\ UNCHANGED failed \/ \E x \in Tokens : failed' = failed \cup {x.msg.call}
<1>1. ASSUME NEW e \in Endpoint, Given(e), NEW sends, ThrowsAfter(sends, e, Next1.msg)
      PROVE  \E x \in Tokens : failed' = failed \cup {x.msg.call}
  <2>1. Top \in Tokens /\ Top.msg = Next1.msg
    BY <1>1, TopGiven DEF CallInv
  <2> QED BY <1>1, <2>1 DEF ThrowsAfter
<1>2. CASE ServiceRejects
  <2>1. PICK t \in tasks : Settles(t, t.error) /\ failed' = failed \cup {t.msg.call}
    BY <1>2 DEF ServiceRejects
  <2>2. TaskToken(t) \in Tokens /\ TaskToken(t).msg = t.msg
    BY TaskTokenFacts DEF Tokens
  <2> QED BY <2>1, <2>2 DEF Settles
<1>3. CASE Unheard \/ Unbalanced \/ DeleteBucket \/ ServiceAnswers
  BY <1>3 DEF Unheard, Unbalanced, DeleteBucket, ServiceAnswers, Settles
<1>4. ASSUME NEW e \in Endpoint, EndpointThrows(e) \/ Route(e) \/ Correlate(e)
      PROVE  /\ UNCHANGED gateway
             /\ UNCHANGED failed \/ \E x \in Tokens : failed' = failed \cup {x.msg.call}
  <2>1. Given(e) /\ UNCHANGED gateway
    BY <1>4 DEF EndpointThrows, Route, Correlate
  <2>2. (\E sends : ThrowsAfter(sends, e, Next1.msg)) \/ UNCHANGED failed
    <3>1. CASE EndpointThrows(e) \/ Correlate(e)
      <4>1. Throws(e, Next1.msg) \/ UNCHANGED failed
        BY <3>1 DEF EndpointThrows, Correlate
      <4> QED BY <4>1 DEF Throws
    <3>2. CASE Route(e)
      <4>1. PICK list \in Recipients(e, Next1.msg) : \E n \in 0..Len(list) : RouteTo(e, list, n)
        BY <3>2 DEF Route
      <4>2. PICK n \in 0..Len(list) : RouteTo(e, list, n)
        BY <4>1
      <4> QED BY <4>2 DEF RouteTo
    <3> QED BY <1>4, <3>1, <3>2
  <2> QED BY <1>1, <2>1, <2>2
<1>5. ASSUME NEW e \in Endpoint,
             \/ Transform(e) \/ FilterPasses(e) \/ FilterDiscards(e) \/ Split(e) \/ Ignore(e)
             \/ Serve(e) \/ ChainBegins(e) \/ ChainEnds(e)
      PROVE  UNCHANGED gateway /\ UNCHANGED failed
  BY <1>5 DEF Transform, FilterPasses, FilterDiscards, Split, Ignore, Serve, ChainBegins, ChainEnds
<1>6. CASE Handle
  BY <1>4, <1>5, <1>6 DEF Handle
<1> QED BY <1>2, <1>3, <1>6

\* Every step of the flow is one of the gateway or changes nothing it knows of.
LEMMA GatewayStep ==
  ASSUME CallInv, AnswersAreMade, [Next]_vars PROVE [Gateway!Next]_Gateway!vars
<1>1. CASE Settle
  BY <1>1, SettleStep
<1>2. CASE Unheard \/ Unbalanced \/ Handle \/ DeleteBucket \/ ServiceAnswers \/ ServiceRejects
  <2>1. /\ UNCHANGED gateway
        /\ UNCHANGED failed \/ \E x \in Tokens : failed' = failed \cup {x.msg.call}
    BY <1>2, OtherSteps
  <2>2. CASE UNCHANGED failed
    BY <2>1, <2>2 DEF gateway, Gateway!vars
  <2>3. CASE \E x \in Tokens : failed' = failed \cup {x.msg.call}
    BY <2>1, <2>3, FailStep
  <2> QED BY <2>1, <2>2, <2>3
<1>3. ASSUME NEW c \in Call, Ask(c) PROVE Gateway!Next
  <2>1. Gateway!Ask(c)
    BY <1>3 DEF Ask, Gateway!Ask
  <2> QED BY <2>1 DEF Gateway!Next
<1>4. CASE \E p \in Mutable : Subscribe(p[1], p[2]) \/ Unsubscribe(p[1], p[2])
  BY <1>4 DEF Subscribe, Unsubscribe, Changes, gateway, Gateway!vars
<1>5. CASE UNCHANGED vars
  BY <1>5 DEF vars, Gateway!vars
<1> QED BY <1>1, <1>2, <1>3, <1>4, <1>5 DEF Next, App, Turn

\* If the flow splits a message at most once, and nobody answers a call but with
\* what an aggregator has made, the flow does what a gateway promises.
THEOREM FlowIsGateway == SplitOnce /\ AnswersAreMade => (Spec => IsGateway)
<1> SUFFICES ASSUME SplitOnce, AnswersAreMade PROVE Spec => IsGateway
  OBVIOUS
<1>1. CallInv /\ [Next]_vars => [Gateway!Next]_Gateway!vars
  BY GatewayStep
<1>2. Spec => []CallInv
  BY CallInvariant
<1> QED BY <1>1, <1>2, GatewayStarts, PTL DEF Spec, IsGateway, Gateway!Spec
=============================================================================
