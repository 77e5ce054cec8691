---------------------------- MODULE BusTreeProofs ----------------------------
(***************************************************************************)
(* Theorems about BusTree, for every tree of buses, any names, channels    *)
(* and adapters.                                                           *)
(*                                                                         *)
(* The first part (TreeInv) uses no more of resolveChannel than the guards *)
(* of the actions say.  The second part is about what names lead to: the   *)
(* search as a recursion over its steps, what it finds, what a step of the *)
(* system does to it, and that it fails only for a cause (Leads).          *)
(***************************************************************************)
EXTENDS BusTree, FiniteSetTheorems, WellFoundedInduction, TLAPS
-----------------------------------------------------------------------------
(* The state of the tree. *)

\* A bus is made under a bus that lives, and a destroyed one stays destroyed.
ParentsWereMade ==
  \A b \in Bus \ {Root} :
    life[b] \in {"waiting", "live", "destroyed"} => life[Parent[b]] \in {"live", "destroyed"}
RootLives == life[Root] \in {"live", "destroyed"}
ClosedWereMade == \A a \in closed : adapted[a] # None

\* The inductive invariant.
TreeInv == TypeOK /\ ParentsWereMade /\ RootLives /\ ClosedWereMade

LEMMA InitKeeps == Init => TreeInv
  BY TreeAssumption, BoundAssumption, KindAssumption
  DEF Init, TreeInv, TypeOK, ParentsWereMade, RootLives, ClosedWereMade, Has, Live

LEMMA StepCounted ==
  ASSUME TreeInv, Counted
  PROVE  steps' \in 0..MaxSteps
  BY BoundAssumption DEF TreeInv, TypeOK, Counted

\* What a bus without a life may have is as it was.
LEMMA LifeKeeps ==
  ASSUME TreeInv, NEW b \in Bus \ {Root},
         NewBus(b) \/ FindParent(b) \/ Initialize(b)
  PROVE  TreeInv'
<1>1. /\ Counted /\ UNCHANGED <<components, home, subscribed, gone, adapted, wired, closed>>
      /\ \E l \in {"waiting", "live"} : life' = [life EXCEPT ![b] = l]
      /\ life[b] \in {"none", "waiting"}
      /\ life[b] = "none" => life[Parent[b]] = "live"
  BY DEF NewBus, FindParent, Initialize
<1>2. /\ life \in [Bus -> {"none", "waiting", "live", "destroyed"}]
      /\ life' \in [Bus -> {"none", "waiting", "live", "destroyed"}]
      /\ life'[b] \in {"waiting", "live"} /\ \A d \in Bus \ {b} : life'[d] = life[d]
  BY <1>1 DEF TreeInv, TypeOK
<1>3. \A n \in Name : ~Has(b, n)
  BY <1>1, <1>2 DEF TreeInv, TypeOK, Live
<1>4. ASSUME NEW d \in Bus \ Live', NEW n \in Name, Has(d, n)'
      PROVE  life'[d] = "destroyed" /\ components'[d][n] \in Ref
  <2>1. Has(d, n) /\ d # b
    BY <1>1, <1>3, <1>4 DEF Has
  <2>2. d \notin Live
    BY <1>2, <1>4, <2>1 DEF Live
  <2>3. QED
    BY <1>1, <1>2, <2>1, <2>2 DEF TreeInv, TypeOK
<1>5. TypeOK'
  BY <1>1, <1>2, <1>4, StepCounted DEF TreeInv, TypeOK
<1>6. ParentsWereMade' /\ RootLives' /\ ClosedWereMade'
  BY <1>1, <1>2, TreeAssumption DEF TreeInv, ParentsWereMade, RootLives, ClosedWereMade
<1>7. QED
  BY <1>5, <1>6 DEF TreeInv

\* A component is set: of a living bus, or a reference of one that was made.
LEMMA SetKeeps ==
  ASSUME TreeInv, Counted, NEW b \in Bus, NEW n \in Name,
         NEW x \in Object \cup Name \cup Ref, Set(b, n, x),
         life[b] = "live" \/ (life[b] = "destroyed" /\ x \in Ref),
         home' \in [Channel -> Bus \cup {None}],
         UNCHANGED <<life, subscribed, gone, adapted, wired, closed>>
  PROVE  TreeInv'
<1>1. components' \in [Bus -> [Name -> Object \cup Name \cup Ref \cup {None}]]
  BY DEF TreeInv, TypeOK, Set
<1>2. /\ components'[b][n] = x
      /\ \A d \in Bus, m \in Name : d # b \/ m # n => components'[d][m] = components[d][m]
  BY DEF TreeInv, TypeOK, Set
<1>3. ASSUME NEW d \in Bus \ Live', NEW m \in Name, Has(d, m)'
      PROVE  life'[d] = "destroyed" /\ components'[d][m] \in Ref
  <2>1. d \in Bus \ Live
    BY DEF Live
  <2>2. CASE d = b /\ m = n
    BY <1>2, <2>1, <2>2 DEF Live
  <2>3. CASE d # b \/ m # n
    <3>1. Has(d, m)
      BY <1>2, <1>3, <2>3 DEF Has
    <3>2. QED
      BY <1>2, <2>1, <2>3, <3>1 DEF TreeInv, TypeOK
  <2>4. QED
    BY <2>2, <2>3
<1>4. TypeOK'
  BY <1>1, <1>3, StepCounted DEF TreeInv, TypeOK, Live
<1>5. QED
  BY <1>4 DEF TreeInv, ParentsWereMade, RootLives, ClosedWereMade

LEMMA NewChannelKeeps ==
  ASSUME TreeInv, NEW b \in Bus, NEW n \in Name, NEW c \in Channel, NewChannel(b, n, c)
  PROVE  TreeInv'
<1>1. /\ Counted /\ life[b] = "live" /\ home' = [home EXCEPT ![c] = b] /\ Set(b, n, c)
      /\ UNCHANGED <<life, subscribed, gone, adapted, wired, closed>>
  BY DEF NewChannel
<1>2. home' \in [Channel -> Bus \cup {None}]
  BY <1>1 DEF TreeInv, TypeOK
<1>3. QED
  BY <1>1, <1>2, SetKeeps DEF Object

LEMMA AliasKeeps ==
  ASSUME TreeInv, NEW b \in Bus, NEW n \in Name, NEW x \in Name \cup Object, Alias(b, n, x)
  PROVE  TreeInv'
<1>1. /\ Counted /\ life[b] = "live" /\ Set(b, n, x)
      /\ UNCHANGED <<life, home, subscribed, gone, adapted, wired, closed>>
  BY DEF Alias
<1>2. home' \in [Channel -> Bus \cup {None}]
  BY <1>1 DEF TreeInv, TypeOK
<1>3. QED
  BY <1>1, <1>2, SetKeeps

LEMMA ExportKeeps ==
  ASSUME TreeInv, NEW b \in Bus, NEW n \in Name, NEW x \in Name \cup Channel, Export(b, n, x)
  PROVE  TreeInv'
<1> DEFINE ref == [bus |-> b, target |-> x]
<1>1. /\ Counted /\ life[b] = "live" /\ b # Root /\ Set(Parent[b], n, ref)
      /\ UNCHANGED <<life, home, subscribed, gone, adapted, wired, closed>>
  BY DEF Export
<1>2. home' \in [Channel -> Bus \cup {None}]
  BY <1>1 DEF TreeInv, TypeOK
<1>3. Parent[b] \in Bus /\ life[Parent[b]] \in {"live", "destroyed"}
  BY <1>1, TreeAssumption DEF TreeInv, ParentsWereMade
<1>4. ref \in Ref
  BY DEF Ref
<1> HIDE DEF ref
<1>5. QED
  BY <1>1, <1>2, <1>3, <1>4, SetKeeps

LEMMA DestroyKeeps ==
  ASSUME TreeInv, NEW b \in Bus \ {Root}, Destroy(b)
  PROVE  TreeInv'
<1>1. /\ Counted /\ UNCHANGED <<home, adapted, wired, closed>>
      /\ life' = [d \in Bus |-> IF d \in Below(b) THEN "destroyed" ELSE life[d]]
      /\ components' = [d \in Bus |-> IF d \in Below(b) THEN [n \in Name |-> None]
                                                         ELSE components[d]]
      /\ subscribed' = [c \in Channel |-> IF c \in Doomed(b) THEN {} ELSE subscribed[c]]
      /\ gone' = gone \cup Doomed(b) /\ Doomed(b) \subseteq Channel
  BY DEF Destroy, DestroyChannels, Doomed
<1>2. /\ life' \in [Bus -> {"none", "waiting", "live", "destroyed"}]
      /\ components' \in [Bus -> [Name -> Object \cup Name \cup Ref \cup {None}]]
      /\ gone' \subseteq Channel
      /\ subscribed' \in [Channel -> SUBSET {a \in Adapter : adapted[a] # None}]
      /\ \A c \in gone' : subscribed'[c] = {}
  BY <1>1 DEF TreeInv, TypeOK
<1>3. ASSUME NEW d \in Bus \ Live', NEW n \in Name, Has(d, n)'
      PROVE  life'[d] = "destroyed" /\ components'[d][n] \in Ref
  <2>1. CASE d \in Below(b)
    BY <1>1, <1>3, <2>1 DEF Has
  <2>2. CASE d \notin Below(b)
    <3>1. life'[d] = life[d] /\ components'[d] = components[d]
      BY <1>1, <2>2
    <3>2. d \in Bus \ Live /\ Has(d, n)
      BY <1>3, <3>1 DEF Live, Has
    <3>3. QED
      BY <3>1, <3>2 DEF TreeInv, TypeOK
  <2>3. QED
    BY <2>1, <2>2
<1>4. TypeOK'
  BY <1>1, <1>2, <1>3, StepCounted DEF TreeInv, TypeOK
<1>5. \A d \in Bus : life[d] \in {"live", "destroyed"} => life'[d] \in {"live", "destroyed"}
  BY <1>1
<1>6. \A d \in Bus : life'[d] \in {"waiting", "live", "destroyed"} =>
                      life[d] \in {"waiting", "live", "destroyed"}
  BY <1>1 DEF Below
<1>7. ParentsWereMade' /\ RootLives' /\ ClosedWereMade'
  BY <1>1, <1>5, <1>6, TreeAssumption DEF TreeInv, ParentsWereMade, RootLives, ClosedWereMade
<1>8. QED
  BY <1>4, <1>7 DEF TreeInv

\* An adapter subscribes to a channel that takes subscribers.
LEMMA AdaptKeeps ==
  ASSUME TreeInv, NEW b \in Bus, NEW a \in Adapter, NEW x \in Name \cup Channel, Adapt(b, a, x),
         wired' = wired \/ wired' = wired \cup {a}
  PROVE  TreeInv'
<1> DEFINE c == resolveChannel(b, x)
           input == [bus |-> b, input |-> x]
<1>1. /\ Counted /\ adapted[a] = None /\ c \in Channel \ gone
      /\ adapted' = [adapted EXCEPT ![a] = input]
      /\ subscribed' = [subscribed EXCEPT ![c] = @ \cup {a}]
      /\ UNCHANGED <<life, components, home, gone, closed>>
  BY DEF Adapt
<1>2. input \in Input /\ input # None
  BY KindAssumption DEF Input
<1>3. a \notin closed
  BY <1>1 DEF TreeInv, ClosedWereMade
<1> HIDE DEF c, input
<1>4. /\ adapted' \in [Adapter -> Input \cup {None}]
      /\ \A e \in Adapter : adapted[e] # None \/ e = a => adapted'[e] # None
  BY <1>1, <1>2 DEF TreeInv, TypeOK
<1>5. /\ subscribed' \in [Channel -> SUBSET {e \in Adapter : adapted'[e] # None}]
      /\ \A d \in Channel : d # c => subscribed'[d] = subscribed[d]
  BY <1>1, <1>4 DEF TreeInv, TypeOK
<1>6. \A d \in gone' : subscribed'[d] = {}
  BY <1>1, <1>5 DEF TreeInv, TypeOK
<1>7. TypeOK'
  BY <1>1, <1>3, <1>4, <1>5, <1>6, StepCounted DEF TreeInv, TypeOK, Live, Has
<1>8. QED
  BY <1>1, <1>4, <1>7 DEF TreeInv, TypeOK, ParentsWereMade, RootLives, ClosedWereMade

LEMMA CloseKeeps ==
  ASSUME TreeInv, NEW a \in Adapter, Close(a)
  PROVE  TreeInv'
<1> DEFINE c == resolveChannel(adapted[a].bus, adapted[a].input)
<1>1. /\ Counted /\ a \notin closed \cup wired /\ closed' = closed \cup {a}
      /\ subscribed' = [d \in Channel |-> IF d = c THEN subscribed[d] \ {a} ELSE subscribed[d]]
      /\ UNCHANGED <<life, components, home, gone, adapted, wired>>
      /\ adapted[a] # None
  BY DEF Close
<1> HIDE DEF c
<1>2. /\ subscribed' \in [Channel -> SUBSET {e \in Adapter : adapted[e] # None}]
      /\ \A d \in gone' : subscribed'[d] = {}
  BY <1>1 DEF TreeInv, TypeOK
<1>3. TypeOK'
  BY <1>1, <1>2, StepCounted DEF TreeInv, TypeOK, Live, Has
<1>4. QED
  BY <1>1, <1>3 DEF TreeInv, ParentsWereMade, RootLives, ClosedWereMade

LEMMA NextKeeps ==
  ASSUME TreeInv, [Next]_vars
  PROVE  TreeInv'
<1>1. ASSUME NEW b \in Bus \ {Root}, NewBus(b) \/ FindParent(b) \/ Initialize(b) \/ Destroy(b)
      PROVE  TreeInv'
  BY <1>1, LifeKeeps, DestroyKeeps
<1>2. ASSUME NEW b \in Bus, NEW n \in Name,
             \/ \E c \in Channel : NewChannel(b, n, c)
             \/ \E x \in Name \cup Object : Alias(b, n, x)
             \/ \E x \in Name \cup Channel : Export(b, n, x)
      PROVE  TreeInv'
  BY <1>2, NewChannelKeeps, AliasKeeps, ExportKeeps
<1>3. ASSUME NEW a \in Adapter, NEW b \in Bus, NEW x \in Name \cup Channel, AdaptStream(b, a, x)
      PROVE  TreeInv'
  BY <1>3, AdaptKeeps DEF AdaptStream
<1>4. ASSUME NEW a \in Adapter, NEW b \in Bus, NEW n \in Name, Connect(b, a, n)
      PROVE  TreeInv'
  BY <1>4, AdaptKeeps DEF Connect
<1>5. CASE UNCHANGED vars
  BY <1>5 DEF vars, TreeInv, TypeOK, ParentsWereMade, RootLives, ClosedWereMade, Live, Has
<1>6. QED
  BY <1>1, <1>2, <1>3, <1>4, <1>5, CloseKeeps DEF Next

\* The invariant is inductive.
THEOREM TreeInvariant == Spec => []TreeInv
  BY InitKeeps, NextKeeps, PTL DEF Spec

\* In every tree of buses, a bus that is destroyed or not yet made has no names but
\* those exported to it later, a destroyed channel has no subscribers, and who
\* subscribes is an adapter that was made (msgs.js:267-280, 368-375).
THEOREM TreeTyped == Spec => []TypeOK
<1>1. TreeInv => TypeOK
  BY DEF TreeInv
<1>2. QED
  BY <1>1, TreeInvariant, PTL

\* A subscriber leaves a channel only when its own stream closes or a bus is destroyed
\* that has this very channel among its components, whatever the names lead to
\* (msgs.js:271-279, stream.js:41-43).
THEOREM SubscribersStay == Spec => NobodyIsCutOff
<1> DEFINE Leaves ==
             \A c \in Channel : \A a \in subscribed[c] \ subscribed'[c] :
               \/ a \in closed' \ closed
               \/ \E b \in Live, n \in Name : life'[b] = "destroyed" /\ components[b][n] = c
<1>1. ASSUME TreeInv, Next, NEW c \in Channel, NEW a \in subscribed[c] \ subscribed'[c]
      PROVE  \/ a \in closed' \ closed
             \/ \E b \in Live, n \in Name : life'[b] = "destroyed" /\ components[b][n] = c
  <2>1. CASE \E b \in Bus \ {Root} : NewBus(b) \/ FindParent(b) \/ Initialize(b)
    BY <1>1, <2>1 DEF NewBus, FindParent, Initialize
  <2>2. ASSUME NEW b \in Bus \ {Root}, Destroy(b)
        PROVE  \E d \in Live, n \in Name : life'[d] = "destroyed" /\ components[d][n] = c
    <3>1. c \in Doomed(b)
      BY <1>1, <2>2 DEF Destroy, DestroyChannels
    <3>2. PICK d \in Below(b), n \in Name : components[d][n] = c
      BY <3>1 DEF Doomed
    <3>3. Has(d, n) /\ components[d][n] \notin Ref
      BY <3>2, KindAssumption DEF Has, Object
    <3>4. d \in Live
      BY <1>1, <3>3 DEF TreeInv, TypeOK, Below
    <3>5. life'[d] = "destroyed"
      BY <2>2, <3>4 DEF Destroy, Live
    <3>6. QED
      BY <3>2, <3>4, <3>5
  <2>3. CASE \E b \in Bus, n \in Name :
               \/ \E e \in Channel : NewChannel(b, n, e)
               \/ \E x \in Name \cup Object : Alias(b, n, x)
               \/ \E x \in Name \cup Channel : Export(b, n, x)
    BY <1>1, <2>3 DEF NewChannel, Alias, Export
  <2>4. ASSUME NEW b \in Bus, NEW e \in Adapter, NEW x \in Name \cup Channel, Adapt(b, e, x)
        PROVE  FALSE
    BY <1>1, <2>4 DEF Adapt, TreeInv, TypeOK
  <2>5. ASSUME NEW e \in Adapter, Close(e)
        PROVE  a \in closed' \ closed
    BY <1>1, <2>5 DEF Close, TreeInv, TypeOK
  <2>6. QED
    BY <1>1, <2>1, <2>2, <2>3, <2>4, <2>5 DEF Next, AdaptStream, Connect
<1>2. TreeInv /\ [Next]_vars => [Leaves]_vars
  BY <1>1 DEF vars
<1>3. QED
  BY <1>2, TreeInvariant, PTL DEF Spec, NobodyIsCutOff
-----------------------------------------------------------------------------
(* Induction over numbers, in terms of sets. *)

LEMMA LessIsRelated ==
  ASSUME NEW x \in Nat, NEW y \in Nat, y < x
  PROVE  <<y, x>> \in OpToRel(<, Nat)
  BY DEF OpToRel

\* A set with 0 and with the next number of each of its numbers has them all.
LEMMA NatSet ==
  ASSUME NEW S, 0 \in S, \A k \in Nat : k \in S => k + 1 \in S
  PROVE  Nat \subseteq S
<1> DEFINE R == OpToRel(<, Nat)
           T == Nat \ S
<1>1. IsWellFoundedOn(R, Nat)
  BY NatLessThanWellFounded
<1>2. \A x, y \in Nat : y < x => <<y, x>> \in R
  BY LessIsRelated
<1> HIDE DEF R
<1>3. SUFFICES ASSUME T # {} PROVE FALSE
  OBVIOUS
<1>4. PICK x \in T : \A y \in T : ~ (<<y, x>> \in R)
  BY <1>1, <1>3, WFMin
<1>5. x # 0 /\ x - 1 \in Nat /\ x = (x - 1) + 1 /\ x - 1 < x
  BY <1>4
<1>6. x - 1 \in T
  BY <1>4, <1>5
<1>7. QED
  BY <1>2, <1>4, <1>5, <1>6

LEMMA UpTo ==
  ASSUME NEW S, NEW N \in Nat, 0 \in S, \A k \in 1..N : k - 1 \in S => k \in S
  PROVE  0..N \subseteq S
<1> DEFINE T == {k \in Nat : k <= N => k \in S}
<1>1. 0 \in T
  OBVIOUS
<1>2. ASSUME NEW k \in Nat, k \in T PROVE k + 1 \in T
  <2> SUFFICES ASSUME k + 1 <= N PROVE k + 1 \in S
    OBVIOUS
  <2>1. k \in S /\ k + 1 \in 1..N /\ (k + 1) - 1 = k
    BY <1>2
  <2>2. QED
    BY <2>1
<1> HIDE DEF T
<1>3. Nat \subseteq T
  BY <1>1, <1>2, NatSet
<1>4. QED
  BY <1>3 DEF T

\* f is defined from a base by steps, up to N.
IsRecursion(f, V, base, step, N) ==
  /\ f \in [0..N -> V]
  /\ f[0] = base
  /\ \A k \in 1..N : f[k] = step[f[k - 1]]

LEMMA RecursionExists ==
  ASSUME NEW V, NEW base \in V, NEW step \in [V -> V], NEW N \in Nat
  PROVE  \E f : IsRecursion(f, V, base, step, N)
<1> DEFINE P(n) == \E f \in [0..n -> V] :
                     /\ f[0] = base
                     /\ \A k \in 1..n : f[k] = step[f[k - 1]]
           S == {n \in Nat : P(n)}
<1>1. P(0)
  <2> DEFINE f == [k \in 0..0 |-> base]
  <2>1. f \in [0..0 -> V] /\ f[0] = base /\ 1..0 = {}
    OBVIOUS
  <2>2. QED
    BY <2>1
<1>2. ASSUME NEW n \in Nat, P(n) PROVE P(n + 1)
  <2>1. PICK f \in [0..n -> V] : f[0] = base /\ \A k \in 1..n : f[k] = step[f[k - 1]]
    BY <1>2
  <2> DEFINE g == [k \in 0..(n + 1) |-> IF k = n + 1 THEN step[f[n]] ELSE f[k]]
  <2>2. f[n] \in V /\ step[f[n]] \in V
    BY <2>1
  <2>3. g \in [0..(n + 1) -> V] /\ g[0] = base
    BY <2>1, <2>2
  <2>4. ASSUME NEW k \in 1..(n + 1) PROVE g[k] = step[g[k - 1]]
    <3>1. CASE k = n + 1
      BY <3>1
    <3>2. CASE k # n + 1
      <4>1. k \in 1..n /\ k \in 0..(n + 1) /\ k - 1 \in 0..(n + 1) /\ k - 1 # n + 1
        BY <3>2
      <4>2. g[k] = f[k] /\ g[k - 1] = f[k - 1]
        BY <3>2, <4>1
      <4>3. QED
        BY <2>1, <4>1, <4>2
    <3>3. QED
      BY <3>1, <3>2
  <2> HIDE DEF g
  <2>5. QED
    BY <2>3, <2>4
<1>3. 0 \in S /\ \A n \in Nat : n \in S => n + 1 \in S
  BY <1>1, <1>2
<1> HIDE DEF S
<1>4. N \in S
  BY <1>3, NatSet
<1>5. QED
  BY <1>4 DEF S, IsRecursion

\* Sets that grow until they stay, and stay only when they are all of A, are all of A
\* after as many steps as A has elements.
LEMMA GrowsToAll ==
  ASSUME NEW A, IsFiniteSet(A), NEW L \in [Nat -> SUBSET A],
         \A k \in Nat : L[k] \subseteq L[k + 1],
         \A k \in Nat : L[k] = L[k + 1] => L[k] = A
  PROVE  L[Cardinality(A)] = A
<1> DEFINE S == {k \in Nat : L[k] = A \/ Cardinality(L[k]) >= k}
<1>1. \A k \in Nat : IsFiniteSet(L[k]) /\ Cardinality(L[k]) \in Nat
                     /\ Cardinality(L[k]) <= Cardinality(A)
                     /\ (Cardinality(L[k]) = Cardinality(A) => L[k] = A)
  <2> TAKE k \in Nat
  <2>1. L[k] \subseteq A
    OBVIOUS
  <2>2. QED
    BY <2>1, FS_Subset, FS_CardinalityType
<1>2. Cardinality(A) \in Nat
  BY FS_CardinalityType
<1>3. 0 \in S
  BY <1>1
<1>4. ASSUME NEW k \in Nat, k \in S PROVE k + 1 \in S
  <2>1. CASE L[k] = A
    <3>1. L[k + 1] \subseteq A
      OBVIOUS
    <3>2. QED
      BY <2>1, <3>1
  <2>2. CASE L[k] # A
    <3>1. Cardinality(L[k]) >= k /\ L[k] # L[k + 1] /\ k + 1 \in Nat
      BY <1>4, <2>2
    <3>2. Cardinality(L[k]) < Cardinality(L[k + 1])
      <4>1. L[k] \subseteq L[k + 1] /\ IsFiniteSet(L[k + 1])
        BY <1>1, <3>1
      <4>2. /\ Cardinality(L[k]) <= Cardinality(L[k + 1])
            /\ Cardinality(L[k]) = Cardinality(L[k + 1]) => L[k] = L[k + 1]
        BY <4>1, FS_Subset
      <4>3. QED
        BY <1>1, <3>1, <4>2
    <3>3. QED
      BY <1>1, <3>1, <3>2
  <2>3. QED
    BY <2>1, <2>2
<1> HIDE DEF S
<1>5. Cardinality(A) \in S
  BY <1>2, <1>3, <1>4, NatSet
<1>6. QED
  BY <1>1, <1>2, <1>5 DEF S

-----------------------------------------------------------------------------
(* The tree of buses. *)

\* Induction from the root to the leaves.
LEMMA TreeInduction ==
  ASSUME NEW S, Root \in S, \A b \in Bus \ {Root} : Parent[b] \in S => b \in S
  PROVE  Bus \subseteq S
<1> DEFINE T == S \cap Bus
<1>1. T \in SUBSET Bus /\ Root \in T /\ \A b \in Bus \ {Root} : Parent[b] \in T => b \in T
  BY TreeAssumption
<1> HIDE DEF T
<1>2. T = Bus
  BY <1>1, TreeAssumption
<1>3. QED
  BY <1>2 DEF T

\* What Ancestors[b] is: the least set with b and the parents of what is in it.
LEMMA AncestorsAre ==
  \A b \in Bus : Ancestors[b] = {b} \cup IF b = Root THEN {} ELSE Ancestors[Parent[b]]
<1> DEFINE Above(b) == {d \in Bus : \A S \in SUBSET Bus :
                          b \in S /\ (\A e \in S \ {Root} : Parent[e] \in S) => d \in S}
           A == [b \in Bus |-> Above(b)]
           Is(f) == f = [b \in Bus |-> {b} \cup IF b = Root THEN {} ELSE f[Parent[b]]]
<1>1. ASSUME NEW b \in Bus PROVE b \in Above(b)
  OBVIOUS
<1>2. Above(Root) = {Root}
  <2>1. {Root} \in SUBSET Bus
    BY TreeAssumption
  <2>2. \A d \in Above(Root) : d = Root
    BY <2>1
  <2>3. QED
    BY <1>1, <2>2, TreeAssumption
<1>3. ASSUME NEW b \in Bus \ {Root} PROVE Above(b) = {b} \cup Above(Parent[b])
  <2>0. Parent[b] \in Bus
    BY TreeAssumption
  <2>1. ASSUME NEW d \in Above(b), d # b PROVE d \in Above(Parent[b])
    <3> SUFFICES ASSUME NEW S \in SUBSET Bus,
                        Parent[b] \in S, \A e \in S \ {Root} : Parent[e] \in S
                 PROVE  d \in S
      OBVIOUS
    <3>1. S \cup {b} \in SUBSET Bus
      OBVIOUS
    <3>2. \A e \in (S \cup {b}) \ {Root} : Parent[e] \in S \cup {b}
      OBVIOUS
    <3>3. d \in S \cup {b}
      BY <3>1, <3>2
    <3>4. QED
      BY <2>1, <3>3
  <2>2. ASSUME NEW d \in Above(Parent[b]) PROVE d \in Above(b)
    OBVIOUS
  <2>3. QED
    BY <1>1, <2>1, <2>2
<1> HIDE DEF Above
<1>4. \A b \in Bus : A[b] = {b} \cup IF b = Root THEN {} ELSE A[Parent[b]]
  BY <1>2, <1>3, TreeAssumption
<1>5. Is(A)
  BY <1>4
<1> HIDE DEF A
<1>6. Ancestors = CHOOSE f : Is(f)
  BY DEF Ancestors
<1>7. Is(Ancestors)
  BY <1>5, <1>6
<1>8. QED
  BY <1>7

LEMMA AncestorsInTree ==
  \A b \in Bus : b \in Ancestors[b] /\ Ancestors[b] \subseteq Bus
<1> DEFINE S == {b \in Bus : Ancestors[b] \subseteq Bus}
<1>1. Root \in S /\ \A b \in Bus \ {Root} : Parent[b] \in S => b \in S
  BY AncestorsAre, TreeAssumption
<1> HIDE DEF S
<1>2. Bus \subseteq S
  BY <1>1, TreeInduction
<1>3. QED
  BY <1>2, AncestorsAre DEF S

LEMMA AncestorsOfAncestors ==
  \A b \in Bus : \A d \in Ancestors[b] : Ancestors[d] \subseteq Ancestors[b]
<1> DEFINE S == {b \in Bus : \A d \in Ancestors[b] : Ancestors[d] \subseteq Ancestors[b]}
<1>1. Root \in S
  BY AncestorsAre, TreeAssumption
<1>2. ASSUME NEW b \in Bus \ {Root}, Parent[b] \in S PROVE b \in S
  <2>1. Ancestors[b] = {b} \cup Ancestors[Parent[b]]
    BY AncestorsAre
  <2>2. QED
    BY <1>2, <2>1
<1> HIDE DEF S
<1>3. Bus \subseteq S
  BY <1>1, <1>2, TreeInduction
<1>4. QED
  BY <1>3 DEF S

LEMMA AncestorsInLine ==
  \A b \in Bus : \A d, e \in Ancestors[b] : d \in Ancestors[e] \/ e \in Ancestors[d]
<1> DEFINE S == {b \in Bus : \A d, e \in Ancestors[b] : d \in Ancestors[e] \/ e \in Ancestors[d]}
<1>1. Root \in S
  BY AncestorsAre, TreeAssumption
<1>2. ASSUME NEW b \in Bus \ {Root}, Parent[b] \in S PROVE b \in S
  <2>1. Ancestors[b] = {b} \cup Ancestors[Parent[b]]
    BY AncestorsAre
  <2>2. QED
    BY <1>2, <2>1
<1> HIDE DEF S
<1>3. Bus \subseteq S
  BY <1>1, <1>2, TreeInduction
<1>4. QED
  BY <1>3 DEF S

LEMMA RootIsAbove == \A b \in Bus : Root \in Ancestors[b]
<1> DEFINE S == {b \in Bus : Root \in Ancestors[b]}
<1>1. Root \in S /\ \A b \in Bus \ {Root} : Parent[b] \in S => b \in S
  BY AncestorsAre, TreeAssumption
<1> HIDE DEF S
<1>2. Bus \subseteq S
  BY <1>1, TreeInduction
<1>3. QED
  BY <1>2 DEF S

\* Nobody is above itself.
LEMMA ChildIsBelow ==
  \A b \in Bus \ {Root} : b \notin Ancestors[Parent[b]]
<1> SUFFICES ASSUME NEW c \in Bus \ {Root}, c \in Ancestors[Parent[c]] PROVE FALSE
  OBVIOUS
<1> DEFINE S == {b \in Bus : c \notin Ancestors[b]}
<1>1. Root \in S
  BY AncestorsAre, TreeAssumption
<1>2. ASSUME NEW b \in Bus \ {Root}, Parent[b] \in S PROVE b \in S
  <2>1. Ancestors[b] = {b} \cup Ancestors[Parent[b]]
    BY AncestorsAre
  <2>2. QED
    BY <1>2, <2>1
<1> HIDE DEF S
<1>3. Bus \subseteq S
  BY <1>1, <1>2, TreeInduction
<1>4. QED
  BY <1>3, AncestorsInTree DEF S

\* How many buses there are from a bus up to the root.
LEMMA HeightIs ==
  /\ \A b \in Bus : Cardinality(Ancestors[b]) \in 1..Cardinality(Bus)
  /\ \A b \in Bus \ {Root} : Cardinality(Ancestors[b]) = Cardinality(Ancestors[Parent[b]]) + 1
<1>1. ASSUME NEW b \in Bus
      PROVE  IsFiniteSet(Ancestors[b]) /\ Cardinality(Ancestors[b]) \in 1..Cardinality(Bus)
  <2>1. /\ IsFiniteSet(Ancestors[b]) /\ Cardinality(Ancestors[b]) \in Nat
        /\ Cardinality(Bus) \in Nat /\ Cardinality(Ancestors[b]) <= Cardinality(Bus)
    BY AncestorsInTree, TreeAssumption, FS_Subset, FS_CardinalityType
  <2>2. Cardinality(Ancestors[b]) # 0
    BY <2>1, AncestorsInTree, FS_EmptySet
  <2>3. QED
    BY <2>1, <2>2
<1>2. ASSUME NEW b \in Bus \ {Root}
      PROVE  Cardinality(Ancestors[b]) = Cardinality(Ancestors[Parent[b]]) + 1
  <2>1. Ancestors[b] = Ancestors[Parent[b]] \cup {b} /\ b \notin Ancestors[Parent[b]]
        /\ Parent[b] \in Bus
    BY AncestorsAre, ChildIsBelow, TreeAssumption
  <2>2. QED
    BY <1>1, <2>1, FS_AddElement
<1>3. QED
  BY <1>1, <1>2

\* Induction from the leaves to the root.
LEMMA LeavesFirst ==
  ASSUME NEW S, NEW top \in Bus,
         \A b \in Bus : /\ top \in Ancestors[b]
                        /\ \A d \in Bus \ {Root} : Parent[d] = b => d \in S
                        => b \in S
  PROVE  \A b \in Bus : top \in Ancestors[b] => b \in S
<1> DEFINE Height(b) == Cardinality(Ancestors[b])
           L == [k \in Nat |-> {b \in Bus : Height(b) + k > Cardinality(Bus) /\ top \in Ancestors[b]}]
           T == {k \in Nat : L[k] \subseteq S}
<1>1. Cardinality(Bus) \in Nat
  BY TreeAssumption, FS_CardinalityType
<1>2. \A b \in Bus : Height(b) \in Nat /\ Height(b) <= Cardinality(Bus)
  BY <1>1, HeightIs
<1>3. \A b \in Bus \ {Root} : Height(b) = Height(Parent[b]) + 1
  BY HeightIs
<1> HIDE DEF Height
<1>4. L[0] = {}
  BY <1>1, <1>2
<1>5. ASSUME NEW k \in Nat, L[k] \subseteq S PROVE L[k + 1] \subseteq S
  <2> SUFFICES ASSUME NEW b \in L[k + 1] PROVE b \in S
    OBVIOUS
  <2>1. b \in Bus /\ Height(b) + (k + 1) > Cardinality(Bus) /\ top \in Ancestors[b]
    OBVIOUS
  <2>2. ASSUME NEW d \in Bus \ {Root}, Parent[d] = b PROVE d \in S
    <3>1. Height(d) = Height(b) + 1 /\ Height(b) \in Nat
      BY <1>2, <1>3, <2>1, <2>2
    <3>2. top \in Ancestors[d]
      BY <2>1, <2>2, AncestorsAre
    <3>3. Height(d) + k > Cardinality(Bus)
      BY <1>1, <2>1, <3>1
    <3>4. d \in L[k]
      BY <3>2, <3>3
    <3>5. QED
      BY <1>5, <3>4
  <2> HIDE DEF L
  <2>3. QED
    BY <2>1, <2>2
<1>6. 0 \in T /\ \A k \in Nat : k \in T => k + 1 \in T
  BY <1>4, <1>5
<1>7. ASSUME NEW b \in Bus, top \in Ancestors[b] PROVE b \in S
  <2> HIDE DEF T, L
  <2>1. Cardinality(Bus) + 1 \in T
    BY <1>1, <1>6, NatSet
  <2>2. Height(b) + (Cardinality(Bus) + 1) > Cardinality(Bus) /\ Cardinality(Bus) + 1 \in Nat
    BY <1>1, <1>2
  <2>3. b \in L[Cardinality(Bus) + 1]
    BY <1>7, <2>2 DEF L
  <2>4. QED
    BY <2>1, <2>3 DEF T
<1>8. QED
  BY <1>7

-----------------------------------------------------------------------------
(* The search, step by step.  Searching and Trailing are the functions by which Search
   and Trail are defined; they exist because each step is defined by the one before. *)

Kinds == {Channel, Adapter}

IsSearch(f, kind) ==
  f = [k \in 0..Longest |-> [at \in Place |->
         IF at.x \in kind THEN at.x
         ELSE IF k = 0 THEN "endless"
         ELSE IF Lost(at) THEN IF at.ref THEN "throws" ELSE "undefined"
         ELSE f[k - 1][Follow(at)]]]
Searching(kind) == CHOOSE f : IsSearch(f, kind)

IsTrail(f) ==
  f = [k \in 0..Longest |-> [at \in Place |->
         {<<at.bus, at.x>>} \cup IF at.x \in Channel \/ k = 0 \/ Lost(at) THEN {}
                                 ELSE f[k - 1][Follow(at)]]]
Trailing == CHOOSE f : IsTrail(f)

LEMMA SearchIsSearching ==
  /\ \A b, x, kind : Search(b, x, kind) = Searching(kind)[Longest][At(b, x, FALSE)]
  /\ \A b, x : Trail(b, x) = Trailing[Longest][At(b, x, FALSE)]
  BY DEF Search, Trail, Searching, Trailing, IsSearch, IsTrail

\* The bound of the search: it is no less than what a search without circles can take.
LEMMA LongestIsNat ==
  /\ Longest \in Nat /\ Cardinality(Bus) \in Nat /\ Cardinality(Name) \in Nat
  /\ Cardinality(Bus) >= 1
  /\ Cardinality(Bus) + 2 * (Cardinality(Bus) * Cardinality(Name)) <= Longest
<1>1. Cardinality(Bus) \in Nat /\ Cardinality(Name) \in Nat
  BY TreeAssumption, FS_CardinalityType
<1>2. Cardinality(Bus) # 0
  BY TreeAssumption, FS_EmptySet
<1>3. ASSUME NEW m \in Nat, NEW n \in Nat
      PROVE  3 * m * (n + 1) \in Nat /\ m + 2 * (m * n) <= 3 * m * (n + 1)
  <2>1. 3 * m * (n + 1) = 3 * (m * n) + 3 * m
    OBVIOUS
  <2>2. m * n \in Nat
    OBVIOUS
  <2>3. QED
    BY <2>1, <2>2
<1>4. QED
  BY <1>1, <1>2, <1>3 DEF Longest

LEMMA PlaceFacts ==
  /\ \A at \in Place : /\ at.bus \in Bus /\ at.x \in Name \cup Object /\ at.ref \in BOOLEAN
                       /\ at = At(at.bus, at.x, at.ref)
  /\ \A b \in Bus, x \in Name \cup Object, ref \in BOOLEAN :
       /\ At(b, x, ref) \in Place
       /\ At(b, x, ref).bus = b /\ At(b, x, ref).x = x /\ At(b, x, ref).ref = ref
  BY DEF Place, At

\* The search goes on from place to place.
LEMMA FollowFacts ==
  ASSUME TypeOK, NEW at \in Place
  PROVE  /\ ~Has(at.bus, at.x) /\ ~Lost(at) =>
              at.bus \in Bus \ {Root} /\ Follow(at) = At(Parent[at.bus], at.x, at.ref)
         /\ Has(at.bus, at.x) =>
              /\ at.x \in Name /\ ~Lost(at)
              /\ LET c == components[at.bus][at.x] IN
                   \/ c \in Object \cup Name /\ c \notin Ref /\ Follow(at) = At(at.bus, c, at.ref)
                   \/ /\ c \in Ref /\ c.bus \in Bus /\ c.target \in Name \cup Channel
                      /\ Follow(at) = At(c.bus, c.target, TRUE)
         /\ ~Lost(at) => Follow(at) \in Place
<1>1. at.bus \in Bus /\ at.x \in Name \cup Object /\ at.ref \in BOOLEAN
  BY PlaceFacts
<1>2. ASSUME ~Has(at.bus, at.x), ~Lost(at)
      PROVE  /\ at.bus \in Bus \ {Root} /\ Follow(at) = At(Parent[at.bus], at.x, at.ref)
             /\ Follow(at) \in Place
  <2>1. at.bus \in Bus \ {Root} /\ Parent[at.bus] \in Bus
    BY <1>1, <1>2, TreeAssumption DEF Lost
  <2>2. Follow(at) = At(Parent[at.bus], at.x, at.ref)
    BY <1>2 DEF Follow
  <2>3. QED
    BY <1>1, <2>1, <2>2, PlaceFacts
<1>3. ASSUME Has(at.bus, at.x), NEW c, c = components[at.bus][at.x]
      PROVE  /\ at.x \in Name /\ ~Lost(at) /\ Follow(at) \in Place
             /\ \/ c \in Object \cup Name /\ c \notin Ref /\ Follow(at) = At(at.bus, c, at.ref)
                \/ /\ c \in Ref /\ c.bus \in Bus /\ c.target \in Name \cup Channel
                   /\ Follow(at) = At(c.bus, c.target, TRUE)
  <2>1. at.x \in Name /\ ~Lost(at)
    BY <1>3 DEF Has, Lost
  <2>2. c \in Object \cup Name \cup Ref
    BY <1>1, <1>3, <2>1 DEF TypeOK, Has
  <2>3. CASE c \in Ref
    <3>1. c.bus \in Bus /\ c.target \in Name \cup Channel
      BY <2>3 DEF Ref
    <3>2. Follow(at) = At(c.bus, c.target, TRUE)
      BY <1>3, <2>3 DEF Follow
    <3>3. Follow(at) \in Place
      <4>1. c.target \in Name \cup Object
        BY <3>1 DEF Object
      <4>2. QED
        BY <3>1, <3>2, <4>1 DEF Place, At
    <3>4. QED
      BY <2>1, <2>3, <3>1, <3>2, <3>3
  <2>4. CASE c \notin Ref
    <3>1. Follow(at) = At(at.bus, c, at.ref)
      BY <1>3, <2>4 DEF Follow
    <3>2. Follow(at) \in Place
      BY <1>1, <2>2, <2>4, <3>1, PlaceFacts
    <3>3. QED
      BY <2>1, <2>2, <2>4, <3>1, <3>2
  <2>5. QED
    BY <2>3, <2>4
<1>4. QED
  BY <1>2, <1>3

Result(kind) == kind \cup {"endless", "throws", "undefined"}

LEMMA SearchExists ==
  ASSUME TypeOK, NEW kind
  PROVE  IsSearch(Searching(kind), kind)
<1> DEFINE V == [Place -> Result(kind)]
           base == [at \in Place |-> IF at.x \in kind THEN at.x ELSE "endless"]
           step == [g \in V |-> [at \in Place |->
                      IF at.x \in kind THEN at.x
                      ELSE IF Lost(at) THEN IF at.ref THEN "throws" ELSE "undefined"
                      ELSE g[Follow(at)]]]
<1>1. base \in V
  BY DEF Result
<1>2. step \in [V -> V]
  BY FollowFacts DEF Result
<1>3. Longest \in Nat
  BY LongestIsNat
<1> HIDE DEF V, base, step
<1>4. PICK f : IsRecursion(f, V, base, step, Longest)
  BY <1>1, <1>2, <1>3, RecursionExists
<1> DEFINE Right(k) == [at \in Place |->
             IF at.x \in kind THEN at.x
             ELSE IF k = 0 THEN "endless"
             ELSE IF Lost(at) THEN IF at.ref THEN "throws" ELSE "undefined"
             ELSE f[k - 1][Follow(at)]]
<1>5. ASSUME NEW k \in 0..Longest PROVE f[k] = Right(k)
  <2>1. CASE k = 0
    BY <1>4, <2>1 DEF base, IsRecursion
  <2>2. CASE k # 0
    <3>1. k \in 1..Longest /\ k - 1 \in 0..Longest
      BY <1>3, <2>2
    <3>2. f[k] = step[f[k - 1]] /\ f[k - 1] \in V
      BY <1>4, <3>1 DEF IsRecursion
    <3>3. QED
      BY <2>2, <3>2 DEF step
  <2>3. QED
    BY <2>1, <2>2
<1>6. f = [k \in 0..Longest |-> Right(k)]
  <2> HIDE DEF Right
  <2>1. QED
    BY <1>4, <1>5 DEF IsRecursion
<1>7. IsSearch(f, kind)
  BY <1>6, Zenon DEF IsSearch
<1>8. QED
  BY <1>7, Zenon DEF Searching

LEMMA TrailExists ==
  ASSUME TypeOK
  PROVE  IsTrail(Trailing)
<1> DEFINE V == [Place -> SUBSET (Bus \X (Name \cup Object))]
           base == [at \in Place |-> {<<at.bus, at.x>>}]
           step == [g \in V |-> [at \in Place |->
                      {<<at.bus, at.x>>} \cup IF at.x \in Channel \/ Lost(at) THEN {}
                                              ELSE g[Follow(at)]]]
<1>0. \A at \in Place : {<<at.bus, at.x>>} \in SUBSET (Bus \X (Name \cup Object))
  BY PlaceFacts
<1>1. base \in V
  BY <1>0
<1>2. step \in [V -> V]
  BY <1>0, FollowFacts
<1>3. Longest \in Nat
  BY LongestIsNat
<1> HIDE DEF V, base, step
<1>4. PICK f : IsRecursion(f, V, base, step, Longest)
  BY <1>1, <1>2, <1>3, RecursionExists
<1> DEFINE Right(k) == [at \in Place |->
             {<<at.bus, at.x>>} \cup IF at.x \in Channel \/ k = 0 \/ Lost(at) THEN {}
                                     ELSE f[k - 1][Follow(at)]]
<1>5. ASSUME NEW k \in 0..Longest PROVE f[k] = Right(k)
  <2>1. CASE k = 0
    BY <1>4, <2>1 DEF base, IsRecursion
  <2>2. CASE k # 0
    <3>1. k \in 1..Longest /\ k - 1 \in 0..Longest
      BY <1>3, <2>2
    <3>2. f[k] = step[f[k - 1]] /\ f[k - 1] \in V
      BY <1>4, <3>1 DEF IsRecursion
    <3>3. QED
      BY <2>2, <3>2 DEF step
  <2>3. QED
    BY <2>1, <2>2
<1>6. f = [k \in 0..Longest |-> Right(k)]
  <2> HIDE DEF Right
  <2>1. QED
    BY <1>4, <1>5 DEF IsRecursion
<1>7. IsTrail(f)
  BY <1>6, Zenon DEF IsTrail
<1>8. QED
  BY <1>7, Zenon DEF Trailing

\* What the search and the trail are, by the number of places that may still be seen.
Steps ==
  \A k \in 0..Longest, at \in Place :
    /\ \A kind \in Kinds :
         Searching(kind)[k][at] =
           IF at.x \in kind THEN at.x
           ELSE IF k = 0 THEN "endless"
           ELSE IF Lost(at) THEN IF at.ref THEN "throws" ELSE "undefined"
           ELSE Searching(kind)[k - 1][Follow(at)]
    /\ Trailing[k][at] =
         {<<at.bus, at.x>>} \cup IF at.x \in Channel \/ k = 0 \/ Lost(at) THEN {}
                                 ELSE Trailing[k - 1][Follow(at)]

LEMMA SearchSteps == TypeOK => Steps
<1> SUFFICES ASSUME TypeOK, NEW k \in 0..Longest, NEW at \in Place
             PROVE  /\ \A kind \in Kinds :
                         Searching(kind)[k][at] =
                           IF at.x \in kind THEN at.x
                           ELSE IF k = 0 THEN "endless"
                           ELSE IF Lost(at) THEN IF at.ref THEN "throws" ELSE "undefined"
                           ELSE Searching(kind)[k - 1][Follow(at)]
                    /\ Trailing[k][at] =
                         {<<at.bus, at.x>>} \cup IF at.x \in Channel \/ k = 0 \/ Lost(at) THEN {}
                                                 ELSE Trailing[k - 1][Follow(at)]
  BY DEF Steps
<1>1. ASSUME NEW kind, NEW f, IsSearch(f, kind)
      PROVE  f[k][at] =
               IF at.x \in kind THEN at.x
               ELSE IF k = 0 THEN "endless"
               ELSE IF Lost(at) THEN IF at.ref THEN "throws" ELSE "undefined"
               ELSE f[k - 1][Follow(at)]
  <2>1. f[k] = [p \in Place |->
                  IF p.x \in kind THEN p.x
                  ELSE IF k = 0 THEN "endless"
                  ELSE IF Lost(p) THEN IF p.ref THEN "throws" ELSE "undefined"
                  ELSE f[k - 1][Follow(p)]]
    BY <1>1 DEF IsSearch
  <2>2. QED
    BY <2>1
<1>2. ASSUME NEW f, IsTrail(f)
      PROVE  f[k][at] =
               {<<at.bus, at.x>>} \cup IF at.x \in Channel \/ k = 0 \/ Lost(at) THEN {}
                                       ELSE f[k - 1][Follow(at)]
  <2>1. f[k] = [p \in Place |->
                  {<<p.bus, p.x>>} \cup IF p.x \in Channel \/ k = 0 \/ Lost(p) THEN {}
                                         ELSE f[k - 1][Follow(p)]]
    BY <1>2 DEF IsTrail
  <2>2. QED
    BY <2>1
<1>3. QED
  BY <1>1, <1>2, SearchExists, TrailExists

-----------------------------------------------------------------------------
LEMMA TrailGoesOn ==
  ASSUME TypeOK, NEW k \in 1..Longest, NEW at \in Place, ~Lost(at), at.x \notin Channel
  PROVE  /\ Trailing[k][at] = {<<at.bus, at.x>>} \cup Trailing[k - 1][Follow(at)]
         /\ k - 1 \in 0..Longest /\ k \in 0..Longest /\ Follow(at) \in Place
<1>1. k \in 0..Longest /\ k # 0 /\ k - 1 \in 0..Longest
  BY LongestIsNat
<1>2. QED
  BY <1>1, SearchSteps, FollowFacts DEF Steps

LEMMA TrailStarts ==
  ASSUME TypeOK, NEW k \in 0..Longest, NEW at \in Place
  PROVE  <<at.bus, at.x>> \in Trailing[k][at]
  BY SearchSteps DEF Steps

LEMMA SearchGoesOn ==
  ASSUME TypeOK, NEW kind \in Kinds, NEW k \in 1..Longest, NEW at \in Place,
         ~Lost(at), at.x \notin kind
  PROVE  /\ Searching(kind)[k][at] = Searching(kind)[k - 1][Follow(at)]
         /\ k - 1 \in 0..Longest /\ k \in 0..Longest /\ Follow(at) \in Place
<1>1. k \in 0..Longest /\ k # 0 /\ k - 1 \in 0..Longest
  BY LongestIsNat
<1>2. Follow(at) \in Place
  BY FollowFacts
<1>3. Searching(kind)[k][at] = Searching(kind)[k - 1][Follow(at)]
  BY <1>1, SearchSteps, Zenon DEF Steps
<1>4. QED
  BY <1>1, <1>2, <1>3

LEMMA SearchEnds ==
  ASSUME TypeOK, NEW kind \in Kinds, NEW k \in 0..Longest, NEW at \in Place
  PROVE  /\ at.x \in kind => Searching(kind)[k][at] = at.x
         /\ at.x \notin kind /\ k = 0 => Searching(kind)[k][at] = "endless"
         /\ at.x \notin kind /\ k # 0 /\ Lost(at) =>
              Searching(kind)[k][at] = IF at.ref THEN "throws" ELSE "undefined"
  BY SearchSteps DEF Steps

LEMMA KindFacts ==
  /\ \A kind \in Kinds : /\ kind \subseteq Object /\ kind \cap Name = {}
                         /\ "endless" \notin kind /\ "throws" \notin kind /\ "undefined" \notin kind
  /\ Object \cap Name = {} /\ Channel \cap Adapter = {}
  /\ Channel \subseteq Object /\ Adapter \subseteq Object
  /\ Channel \in Kinds /\ Adapter \in Kinds
  /\ \A b, x : Has(b, x) => x \in Name /\ x \notin Object
  BY KindAssumption DEF Kinds, Object, Has

(* What was found is a component of some bus, or what one refers to. *)

Known(c) ==
  \E d \in Bus, m \in Name :
    \/ components[d][m] = c
    \/ components[d][m] \in Ref /\ components[d][m].target = c

LEMMA FoundIsKnown ==
  ASSUME TypeOK, NEW kind \in Kinds
  PROVE  \A k \in 0..Longest : \A at \in Place :
           Searching(kind)[k][at] \in kind =>
             Searching(kind)[k][at] = at.x \/ Known(Searching(kind)[k][at])
<1> DEFINE F == Searching(kind)
           P(k) == \A at \in Place : F[k][at] \in kind => F[k][at] = at.x \/ Known(F[k][at])
           S == {k \in 0..Longest : P(k)}
<1>0. Longest \in Nat
  BY LongestIsNat
<1>1. P(0)
  <2> TAKE at \in Place
  <2>1. 0 \in 0..Longest
    BY <1>0
  <2>2. QED
    BY <2>1, SearchEnds, KindFacts
<1>2. ASSUME NEW k \in 1..Longest, P(k - 1) PROVE P(k)
  <2> SUFFICES ASSUME NEW at \in Place, F[k][at] \in kind
               PROVE  F[k][at] = at.x \/ Known(F[k][at])
    OBVIOUS
  <2>0. k \in 0..Longest /\ k # 0
    BY <1>0
  <2>1. CASE at.x \in kind
    BY <2>0, <2>1, SearchEnds
  <2>2. CASE at.x \notin kind
    <3>1. ~Lost(at)
      BY <2>0, <2>2, SearchEnds, KindFacts
    <3>2. F[k][at] = F[k - 1][Follow(at)] /\ Follow(at) \in Place
      BY <2>2, <3>1, SearchGoesOn
    <3>3. F[k][at] = Follow(at).x \/ Known(F[k][at])
      BY <1>2, <3>2
    <3>4. CASE Has(at.bus, at.x)
      <4>1. at.bus \in Bus /\ at.x \in Name
        BY <3>4, PlaceFacts, FollowFacts
      <4>2. \/ components[at.bus][at.x] = Follow(at).x
            \/ components[at.bus][at.x] \in Ref /\ components[at.bus][at.x].target = Follow(at).x
        BY <3>4, FollowFacts DEF At
      <4>3. Known(Follow(at).x)
        BY <4>1, <4>2 DEF Known
      <4>4. QED
        BY <3>3, <4>3
    <3>5. CASE ~Has(at.bus, at.x)
      <4>1. Follow(at).x = at.x
        BY <3>1, <3>5, FollowFacts DEF At
      <4>2. QED
        BY <3>3, <4>1
    <3>6. QED
      BY <3>4, <3>5
  <2>3. QED
    BY <2>1, <2>2
<1> HIDE DEF P
<1>3. 0..Longest \subseteq S
  <2>1. 0 \in S /\ \A k \in 1..Longest : k - 1 \in S => k \in S
    BY <1>0, <1>1, <1>2
  <2> HIDE DEF S
  <2>2. QED
    BY <1>0, <2>1, UpTo
<1>4. QED
  BY <1>3 DEF S, P

\* Who has a channel among its components is not destroyed, so what was found is excused.
LEMMA NobodyKnowsTheDead ==
  ASSUME TypeOK
  PROVE  NoNamesOfTheDead
<1> SUFFICES ASSUME NEW b \in Live, NEW n \in Name, NEW c, c = resolveChannel(b, n), c \in Channel
             PROVE  \E d \in Bus, m \in Name :
                      \/ d \in Live /\ components[d][m] = c
                      \/ components[d][m] \in Ref /\ components[d][m].target = c
  BY DEF NoNamesOfTheDead
<1> DEFINE at == At(b, n, FALSE)
<1>1. at \in Place /\ at.x = n /\ n \notin Channel /\ b \in Bus
  <2>1. b \in Bus
    BY DEF Live
  <2>2. n \in Name \cup Object /\ n \notin Channel
    BY KindFacts
  <2>3. QED
    BY <2>1, <2>2 DEF Place, At
<1>2. Searching(Channel)[Longest][at] = c /\ Longest \in 0..Longest
  <2>1. resolveChannel(b, n) = Searching(Channel)[Longest][at]
    BY SearchIsSearching, Zenon DEF resolveChannel
  <2>2. QED
    BY <2>1, LongestIsNat
<1> HIDE DEF at
<1>3. Known(c)
  BY <1>1, <1>2, FoundIsKnown, KindFacts
<1>4. PICK d \in Bus, m \in Name :
        \/ components[d][m] = c
        \/ components[d][m] \in Ref /\ components[d][m].target = c
  BY <1>3 DEF Known
<1>5. ASSUME components[d][m] = c PROVE d \in Live
  <2>1. Has(d, m) /\ components[d][m] \notin Ref
    BY <1>5, KindAssumption DEF Has, Object
  <2>2. QED
    BY <2>1 DEF TypeOK
<1>6. QED
  BY <1>4, <1>5

-----------------------------------------------------------------------------
(* A step changes what a search finds only where it changes something on its trail. *)

ResolvesBySearching ==
  \A b, n : resolveChannel(b, n) = Searching(Channel)[Longest][At(b, n, FALSE)]

LEMMA Resolving == ResolvesBySearching
  BY SearchIsSearching, Zenon DEF ResolvesBySearching, resolveChannel

ChannelSteps ==
  \A k \in 0..Longest, at \in Place :
    Searching(Channel)[k][at] =
      IF at.x \in Channel THEN at.x
      ELSE IF k = 0 THEN "endless"
      ELSE IF Lost(at) THEN IF at.ref THEN "throws" ELSE "undefined"
      ELSE Searching(Channel)[k - 1][Follow(at)]

LEMMA SearchForChannels == TypeOK => ChannelSteps
  BY SearchSteps, KindFacts DEF Steps, ChannelSteps

LEMMA NextSearch == ResolvesBySearching' /\ (TypeOK' => ChannelSteps')
  BY Resolving, SearchForChannels, PTL

\* A component is replaced only when a bus is destroyed.
LEMMA ComponentsStay ==
  ASSUME TypeOK, Next, \A d \in Live : life'[d] # "destroyed",
         NEW b \in Bus, NEW n \in Name, Has(b, n) \/ ~Has(b, n)'
  PROVE  components'[b][n] = components[b][n]
<1>1. ASSUME NEW d \in Bus, NEW m \in Name, NEW x, Set(d, m, x), ~Has(d, m)
      PROVE  components'[b][n] = components[b][n]
  <2>1. /\ components'[d][m] = x
        /\ \A e \in Bus, k \in Name : e # d \/ k # m => components'[e][k] = components[e][k]
    BY <1>1 DEF Set, TypeOK
  <2>2. CASE b = d /\ n = m
    BY <1>1, <2>1, <2>2 DEF Has
  <2>3. QED
    BY <2>1, <2>2
<1>2. ASSUME NEW d \in Bus \ {Root}, Destroy(d) PROVE FALSE
  <2>1. life[d] = "live" /\ life' = [e \in Bus |-> IF e \in Below(d) THEN "destroyed" ELSE life[e]]
    BY <1>2 DEF Destroy
  <2>2. d \in Below(d)
    BY <2>1, AncestorsInTree DEF Below
  <2>3. QED
    BY <2>1, <2>2 DEF Live
<1>3. CASE \E d \in Bus \ {Root} : NewBus(d) \/ FindParent(d) \/ Initialize(d) \/ Destroy(d)
  BY <1>2, <1>3 DEF NewBus, FindParent, Initialize
<1>4. CASE \E d \in Bus, m \in Name :
             \/ \E c \in Channel : NewChannel(d, m, c)
             \/ \E x \in Name \cup Object : Alias(d, m, x)
  BY <1>1, <1>4 DEF NewChannel, Alias
<1>5. ASSUME NEW d \in Bus, NEW m \in Name, NEW x \in Name \cup Channel, Export(d, m, x)
      PROVE  components'[b][n] = components[b][n]
  <2>1. Parent[d] \in Bus /\ ~Has(Parent[d], m) /\ Set(Parent[d], m, [bus |-> d, target |-> x])
    BY <1>5, TreeAssumption DEF Export
  <2>2. QED
    BY <1>1, <2>1
<1>6. CASE \E a \in Adapter :
             \/ \E d \in Bus, x \in Name \cup Channel : AdaptStream(d, a, x)
             \/ \E d \in Bus, m \in Name : Connect(d, a, m)
             \/ Close(a)
  BY <1>6 DEF AdaptStream, Connect, Adapt, Close
<1>7. QED
  BY <1>3, <1>4, <1>5, <1>6 DEF Next

\* A search is as it was if nothing new is on its trail.
LEMMA SearchStays ==
  ASSUME TypeOK, TypeOK', Next, \A d \in Live : life'[d] # "destroyed"
  PROVE  \A k \in 0..Longest : \A at \in Place :
           (\A t \in Trailing[k][at] : Has(t[1], t[2]) \/ ~Has(t[1], t[2])') =>
             Searching(Channel)'[k][at] = Searching(Channel)[k][at]
<1> DEFINE F == Searching(Channel)
           Old(k, at) == \A t \in Trailing[k][at] : Has(t[1], t[2]) \/ ~Has(t[1], t[2])'
           P(k) == \A at \in Place : Old(k, at) => F'[k][at] = F[k][at]
           S == {k \in 0..Longest : P(k)}
<1>0. Longest \in Nat
  BY LongestIsNat
<1>1. \A k \in 0..Longest, at \in Place :
        /\ F[k][at] =
             IF at.x \in Channel THEN at.x
             ELSE IF k = 0 THEN "endless"
             ELSE IF Lost(at) THEN IF at.ref THEN "throws" ELSE "undefined"
             ELSE F[k - 1][Follow(at)]
        /\ F'[k][at] =
             IF at.x \in Channel THEN at.x
             ELSE IF k = 0 THEN "endless"
             ELSE IF Lost(at)' THEN IF at.ref THEN "throws" ELSE "undefined"
             ELSE F'[k - 1][Follow(at)']
  <2>1. ChannelSteps /\ ChannelSteps'
    BY SearchForChannels, NextSearch
  <2>2. QED
    BY <2>1, Zenon DEF ChannelSteps
<1>2. ASSUME NEW at \in Place, Has(at.bus, at.x) \/ ~Has(at.bus, at.x)'
      PROVE  Follow(at)' = Follow(at) /\ (Lost(at)' <=> Lost(at))
  <2>1. at.bus \in Bus
    BY PlaceFacts
  <2>2. CASE at.x \in Name
    <3>1. components'[at.bus][at.x] = components[at.bus][at.x]
      BY <1>2, <2>1, <2>2, ComponentsStay
    <3>2. QED
      BY <3>1 DEF Follow, Lost, Has
  <2>3. CASE at.x \notin Name
    BY <2>3 DEF Follow, Lost, Has
  <2>4. QED
    BY <2>2, <2>3
<1>3. ASSUME NEW k \in 0..Longest, k # 0 => P(k - 1) PROVE P(k)
  <2> SUFFICES ASSUME NEW at \in Place, Old(k, at) PROVE F'[k][at] = F[k][at]
    OBVIOUS
  <2>1. Has(at.bus, at.x) \/ ~Has(at.bus, at.x)'
    <3>1. <<at.bus, at.x>> \in Trailing[k][at]
      BY TrailStarts
    <3>2. QED
      BY <3>1
  <2>2. CASE at.x \in Channel \/ k = 0 \/ Lost(at)
    BY <1>1, <1>2, <2>1, <2>2
  <2>3. CASE at.x \notin Channel /\ k # 0 /\ ~Lost(at)
    <3>1. k \in 1..Longest
      BY <1>0, <2>3
    <3>2. Trailing[k - 1][Follow(at)] \subseteq Trailing[k][at] /\ Follow(at) \in Place
      BY <2>3, <3>1, TrailGoesOn
    <3>3. Old(k - 1, Follow(at))
      BY <3>2
    <3>4. F'[k - 1][Follow(at)] = F[k - 1][Follow(at)]
      BY <1>3, <2>3, <3>2, <3>3
    <3>5. QED
      BY <1>1, <1>2, <2>1, <2>3, <3>4
  <2>4. QED
    BY <2>2, <2>3
<1> HIDE DEF P
<1>4. 0..Longest \subseteq S
  <2>1. 0 \in S /\ \A k \in 1..Longest : k - 1 \in S => k \in S
    BY <1>0, <1>3
  <2> HIDE DEF S
  <2>2. QED
    BY <1>0, <2>1, UpTo
<1>5. QED
  BY <1>4 DEF S, P

LEMMA MeaningStays ==
  ASSUME TypeOK, TypeOK', Next,
         NEW b \in Live, NEW n \in Name, resolveChannel(b, n)' # resolveChannel(b, n)
  PROVE  \/ \E d \in Live : life'[d] = "destroyed"
         \/ \E t \in Trail(b, n) : ~Has(t[1], t[2]) /\ Has(t[1], t[2])'
<1> DEFINE at == At(b, n, FALSE)
<1>1. at \in Place
  BY DEF Place, At, Live
<1>2. /\ resolveChannel(b, n) = Searching(Channel)[Longest][at]
      /\ resolveChannel(b, n)' = Searching(Channel)'[Longest][at]
      /\ Trail(b, n) = Trailing[Longest][at]
  BY Resolving, NextSearch, SearchIsSearching, Zenon DEF ResolvesBySearching
<1>3. Longest \in 0..Longest
  BY LongestIsNat
<1> HIDE DEF at
<1>4. QED
  BY <1>1, <1>2, <1>3, SearchStays

-----------------------------------------------------------------------------
(* Names lead somewhere.  alias asks that a name leads to something when it is given,
   but not that it does so later, and exportChannel asks nothing.  So it is not an
   invariant that searches end: an alias given to what a parent had under that name
   shadows it, and an export of a missing name makes a search fail.  The invariant is
   that nothing else does, whatever names may yet be exported by the buses below. *)

\* b or a bus above it has the name n.
Healthy(b, n) == \E d \in Ancestors[b] : Has(d, n)

\* What a name was given to is still there under its name, from where it was given.
AliasesLead ==
  \A b \in Bus, n \in Name :
    Has(b, n) /\ components[b][n] \in Name => Healthy(b, components[b][n])

\* S: names of buses that are known to lead somewhere, or to be excused.  The search for
\* n in b comes to one of these, or by a name that shadows another.
Good(b, n, S) ==
  \/ \E d \in Ancestors[b] : Shadows(d, n)
  \/ \A d \in Ancestors[b] : Has(d, n) => <<d, n>> \in S

\* A name that b does not have may be exported to it later, for any name of a bus below:
\* for one that the bus has, or for one that nobody has yet.
Fillable(b, S) ==
  \A d \in Bus \ {Root}, m \in Name :
    Parent[d] = b /\ (Has(d, m) \/ ~Healthy(d, m)) => <<d, m>> \in S

\* The step from n in b is to what leads somewhere, or is excused.
Grounded(b, n, S) ==
  LET c == components[b][n] IN
    \/ c = None /\ Fillable(b, S)
    \/ c # None /\ Shadows(b, n)
    \/ c \in Object
    \/ c \in Name /\ Good(b, c, S)
    \/ /\ c \in Ref
       /\ \/ c.target \in Channel
          \/ c.target \in Name /\ ~Has(c.bus, c.target) /\ Healthy(c.bus, c.target)
          \/ <<c.bus, c.target>> \in S

\* Every name is grounded in finitely many steps: a set of names that has all that is
\* grounded in it has all.
NoCircles ==
  \A S \in SUBSET (Bus \X Name) :
    (\A b \in Bus, n \in Name : Grounded(b, n, S) => <<b, n>> \in S) =>
      \A b \in Bus, n \in Name : <<b, n>> \in S

\* The inductive invariant of the names.
Leads == AliasesLead /\ NoCircles

LEMMA HealthyFacts ==
  /\ \A b \in Bus : \A n : Has(b, n) => Healthy(b, n)
  /\ \A b \in Bus : \A n : \A d \in Ancestors[b] : Healthy(d, n) => Healthy(b, n)
  /\ \A b \in Bus \ {Root} : \A n : Healthy(b, n) <=> Has(b, n) \/ Healthy(Parent[b], n)
  /\ \A n : Healthy(Root, n) <=> Has(Root, n)
<1>1. \A b \in Bus : \A n : Has(b, n) => Healthy(b, n)
  BY AncestorsInTree DEF Healthy
<1>2. \A b \in Bus : \A n : \A d \in Ancestors[b] : Healthy(d, n) => Healthy(b, n)
  BY AncestorsOfAncestors DEF Healthy
<1>3. \A b \in Bus \ {Root} : \A n : Healthy(b, n) <=> Has(b, n) \/ Healthy(Parent[b], n)
  BY AncestorsAre DEF Healthy
<1>4. \A n : Healthy(Root, n) <=> Has(Root, n)
  BY AncestorsAre, TreeAssumption DEF Healthy
<1>5. QED
  BY <1>1, <1>2, <1>3, <1>4

\* What the search finds something for, somebody has.
LEMMA FoundIsHealthy ==
  ASSUME TypeOK, NEW kind \in Kinds
  PROVE  \A k \in 0..Longest : \A at \in Place :
           at.x \in Name /\ Searching(kind)[k][at] \in kind => Healthy(at.bus, at.x)
<1> DEFINE F == Searching(kind)
           P(k) == \A at \in Place : at.x \in Name /\ F[k][at] \in kind => Healthy(at.bus, at.x)
           S == {k \in 0..Longest : P(k)}
<1>0. Longest \in Nat /\ 0 \in 0..Longest
  BY LongestIsNat
<1>1. P(0)
  BY <1>0, SearchEnds, KindFacts
<1>2. ASSUME NEW k \in 1..Longest, P(k - 1) PROVE P(k)
  <2> SUFFICES ASSUME NEW at \in Place, at.x \in Name, F[k][at] \in kind
               PROVE  Healthy(at.bus, at.x)
    OBVIOUS
  <2>0. k \in 0..Longest /\ k # 0 /\ at.x \notin kind /\ at.bus \in Bus
    BY <1>0, KindFacts, PlaceFacts
  <2>1. ~Lost(at)
    BY <2>0, SearchEnds, KindFacts
  <2>2. F[k - 1][Follow(at)] \in kind /\ Follow(at) \in Place
    BY <2>0, <2>1, SearchGoesOn
  <2>3. CASE Has(at.bus, at.x)
    BY <2>0, <2>3, HealthyFacts
  <2>4. CASE ~Has(at.bus, at.x)
    <3>1. at.bus \in Bus \ {Root} /\ Follow(at) = At(Parent[at.bus], at.x, at.ref)
      BY <2>1, <2>4, FollowFacts
    <3>2. Follow(at).bus = Parent[at.bus] /\ Follow(at).x = at.x
      BY <3>1 DEF At
    <3>3. Healthy(Parent[at.bus], at.x)
      BY <1>2, <2>2, <3>2
    <3>4. QED
      BY <3>1, <3>3, HealthyFacts
  <2>5. QED
    BY <2>3, <2>4
<1> HIDE DEF P
<1>3. 0..Longest \subseteq S
  <2>1. 0 \in S /\ \A k \in 1..Longest : k - 1 \in S => k \in S
    BY <1>0, <1>1, <1>2
  <2> HIDE DEF S
  <2>2. QED
    BY <1>0, <2>1, UpTo
<1>4. QED
  BY <1>3 DEF S, P

\* What the search finds something for is good, in every set that has what is grounded.
LEMMA FoundIsGood ==
  ASSUME TypeOK, NEW kind \in Kinds, NEW S,
         \A b \in Bus, n \in Name : Has(b, n) /\ Grounded(b, n, S) => <<b, n>> \in S
  PROVE  \A k \in 0..Longest : \A at \in Place :
           at.x \in Name /\ Searching(kind)[k][at] \in kind => Good(at.bus, at.x, S)
<1> DEFINE F == Searching(kind)
           P(k) == \A at \in Place : at.x \in Name /\ F[k][at] \in kind => Good(at.bus, at.x, S)
           T == {k \in 0..Longest : P(k)}
<1>0. Longest \in Nat /\ 0 \in 0..Longest
  BY LongestIsNat
<1>1. P(0)
  BY <1>0, SearchEnds, KindFacts
<1>2. ASSUME NEW k \in 1..Longest, P(k - 1) PROVE P(k)
  <2> SUFFICES ASSUME NEW at \in Place, at.x \in Name, F[k][at] \in kind
               PROVE  Good(at.bus, at.x, S)
    OBVIOUS
  <2>0. k \in 0..Longest /\ k # 0 /\ at.x \notin kind /\ at.bus \in Bus /\ k - 1 \in 0..Longest
    BY <1>0, KindFacts, PlaceFacts
  <2>1. ~Lost(at)
    BY <2>0, SearchEnds, KindFacts
  <2>2. F[k - 1][Follow(at)] \in kind /\ Follow(at) \in Place
    BY <2>0, <2>1, SearchGoesOn
  <2>3. Follow(at).x \in Name => Good(Follow(at).bus, Follow(at).x, S)
                                 /\ Healthy(Follow(at).bus, Follow(at).x)
    BY <1>2, <2>0, <2>2, FoundIsHealthy
  <2>4. CASE Has(at.bus, at.x)
    <3> DEFINE c == components[at.bus][at.x]
    <3>1. Grounded(at.bus, at.x, S)
      <4>1. CASE c \in Object
        BY <4>1 DEF Grounded
      <4>2. CASE c \in Name
        <5>1. Follow(at) = At(at.bus, c, at.ref)
          BY <2>4, <4>2, FollowFacts, KindAssumption
        <5>2. Follow(at).x = c /\ Follow(at).bus = at.bus
          BY <5>1 DEF At
        <5>3. QED
          BY <2>3, <4>2, <5>2 DEF Grounded
      <4>3. CASE c \in Ref
        <5>1. /\ c.bus \in Bus /\ c.target \in Name \cup Channel
              /\ Follow(at) = At(c.bus, c.target, TRUE)
          BY <2>4, <4>3, FollowFacts, KindAssumption
        <5>2. Follow(at).x = c.target /\ Follow(at).bus = c.bus
          BY <5>1 DEF At
        <5>3. CASE c.target \in Channel
          BY <4>3, <5>3 DEF Grounded
        <5>4. CASE c.target \in Name /\ ~Has(c.bus, c.target)
          BY <2>3, <4>3, <5>2, <5>4 DEF Grounded
        <5>5. CASE c.target \in Name /\ Has(c.bus, c.target)
          <6>1. Good(c.bus, c.target, S)
            BY <2>3, <5>2, <5>5
          <6>2. c.bus \in Ancestors[c.bus] /\ Ancestors[c.bus] \subseteq Bus
            BY <5>1, AncestorsInTree
          <6>3. CASE \E d \in Ancestors[c.bus] : Shadows(d, c.target)
            <7>1. Shadows(c.bus, c.target)
              BY <5>5, <6>3 DEF Shadows
            <7>2. Grounded(c.bus, c.target, S)
              BY <5>5, <7>1 DEF Grounded, Has
            <7>3. <<c.bus, c.target>> \in S
              BY <5>1, <5>5, <7>2
            <7>4. QED
              BY <4>3, <7>3 DEF Grounded
          <6>4. CASE \A d \in Ancestors[c.bus] : Has(d, c.target) => <<d, c.target>> \in S
            <7>1. <<c.bus, c.target>> \in S
              BY <5>5, <6>2, <6>4
            <7>2. QED
              BY <4>3, <7>1 DEF Grounded
          <6>5. QED
            BY <6>1, <6>3, <6>4 DEF Good
        <5>6. QED
          BY <5>1, <5>3, <5>4, <5>5
      <4>4. QED
        BY <2>4, <4>1, <4>2, <4>3, FollowFacts
    <3>2. <<at.bus, at.x>> \in S
      BY <2>0, <2>4, <3>1
    <3>3. ASSUME NEW d \in Ancestors[at.bus], Has(d, at.x), d # at.bus
          PROVE  \E e \in Ancestors[at.bus] : Shadows(e, at.x)
      BY <2>0, <2>4, <3>3, AncestorsInTree DEF Shadows
    <3>4. QED
      BY <3>2, <3>3 DEF Good
  <2>5. CASE ~Has(at.bus, at.x)
    <3>1. at.bus \in Bus \ {Root} /\ Follow(at) = At(Parent[at.bus], at.x, at.ref)
      BY <2>1, <2>5, FollowFacts
    <3>2. Follow(at).bus = Parent[at.bus] /\ Follow(at).x = at.x
      BY <3>1 DEF At
    <3>3. Good(Parent[at.bus], at.x, S)
      BY <2>3, <3>2
    <3>4. Ancestors[at.bus] = {at.bus} \cup Ancestors[Parent[at.bus]]
      BY <3>1, AncestorsAre
    <3>5. QED
      BY <2>5, <3>3, <3>4 DEF Good
  <2>6. QED
    BY <2>4, <2>5
<1> HIDE DEF P
<1>3. 0..Longest \subseteq T
  <2>1. 0 \in T /\ \A k \in 1..Longest : k - 1 \in T => k \in T
    BY <1>0, <1>1, <1>2
  <2> HIDE DEF T
  <2>2. QED
    BY <1>0, <2>1, UpTo
<1>4. QED
  BY <1>3 DEF T, P

\* What alias asks for.
LEMMA ResolvedIsGood ==
  ASSUME TypeOK, NEW b \in Bus, NEW x \in Name, Resolves(b, x)
  PROVE  /\ Healthy(b, x)
         /\ \A S : (\A d \in Bus, n \in Name : Has(d, n) /\ Grounded(d, n, S) => <<d, n>> \in S)
                     => Good(b, x, S)
<1> DEFINE at == At(b, x, FALSE)
<1>1. at \in Place /\ at.bus = b /\ at.x = x
  BY DEF Place, At
<1>2. PICK kind \in Kinds : Searching(kind)[Longest][at] \in kind
  <2>1. /\ resolveChannel(b, x) = Searching(Channel)[Longest][at]
        /\ resolveHandler(b, x) = Searching(Adapter)[Longest][at]
    BY SearchIsSearching, Zenon DEF resolveChannel, resolveHandler
  <2>2. QED
    BY <2>1, KindFacts DEF Resolves
<1>3. Longest \in 0..Longest
  BY LongestIsNat
<1> HIDE DEF at
<1>4. QED
  BY <1>1, <1>2, <1>3, FoundIsHealthy, FoundIsGood

-----------------------------------------------------------------------------
\* A name that is new in b.
Names(b, n, x) ==
  /\ b \in Bus /\ n \in Name /\ x \in Object \cup Name \cup Ref
  /\ ~Has(b, n) /\ Set(b, n, x)

LEMMA NamesFacts ==
  ASSUME TypeOK, NEW b \in Bus, NEW n \in Name, NEW x, Names(b, n, x)
  PROVE  /\ components'[b][n] = x /\ Has(b, n)' /\ x # None
         /\ \A d \in Bus, m \in Name :
              d # b \/ m # n => /\ components'[d][m] = components[d][m]
                                /\ (Has(d, m)' <=> Has(d, m))
         /\ \A d \in Bus, m \in Name : /\ Has(d, m) => Has(d, m)'
                                       /\ Healthy(d, m) => Healthy(d, m)'
                                       /\ Shadows(d, m) => Shadows(d, m)'
<1>1. components'[b][n] = x /\ x # None
  BY KindAssumption DEF Names, Set, TypeOK
<1>2. \A d \in Bus, m \in Name : d # b \/ m # n => components'[d][m] = components[d][m]
  BY DEF Names, Set, TypeOK
<1>3. \A d \in Bus, m \in Name : d # b \/ m # n => (Has(d, m)' <=> Has(d, m))
  BY <1>2 DEF Has
<1>4. Has(b, n)'
  BY <1>1 DEF Has
<1>5. \A d \in Bus, m \in Name : Has(d, m) => Has(d, m)'
  BY <1>3, <1>4
<1>6. \A d \in Bus, m \in Name : /\ Healthy(d, m) => Healthy(d, m)'
                                 /\ Shadows(d, m) => Shadows(d, m)'
  BY <1>5, AncestorsInTree DEF Healthy, Shadows
<1>7. QED
  BY <1>1, <1>2, <1>3, <1>4, <1>5, <1>6

\* Where the new name is excused or in S already, what was grounded still is.
LEMMA NamesKeepGround ==
  ASSUME TypeOK, AliasesLead, NEW b \in Bus, NEW n \in Name, NEW x, Names(b, n, x),
         NEW S, \A d \in Bus, m \in Name : Grounded(d, m, S)' => <<d, m>> \in S,
         NEW d \in Bus, NEW m \in Name, d # b \/ m # n, Grounded(d, m, S)
  PROVE  Grounded(d, m, S)'
<1> DEFINE c == components[d][m]
<1>1. components'[d][m] = c /\ Has(b, n)' /\ components'[b][n] # None
  BY NamesFacts
<1>2. Healthy(b, n) => Shadows(b, n)' /\ <<b, n>> \in S
  <2> SUFFICES ASSUME Healthy(b, n) PROVE Shadows(b, n)' /\ <<b, n>> \in S
    OBVIOUS
  <2>1. PICK e \in Ancestors[b] : Has(e, n)
    BY DEF Healthy
  <2>2. e # b /\ e \in Bus
    BY <2>1, AncestorsInTree DEF Names
  <2>3. Has(e, n)'
    BY <2>1, <2>2, NamesFacts
  <2>4. Shadows(b, n)'
    BY <1>1, <2>2, <2>3 DEF Shadows
  <2>5. Grounded(b, n, S)'
    BY <1>1, <2>4 DEF Grounded
  <2>6. QED
    BY <2>4, <2>5
<1>3. CASE c = None /\ Fillable(d, S)
  <2>1. ASSUME NEW e \in Bus \ {Root}, NEW k \in Name, Parent[e] = d, Has(e, k)' \/ ~Healthy(e, k)'
        PROVE  <<e, k>> \in S
    <3>1. CASE Has(e, k) \/ ~Healthy(e, k)
      BY <1>3, <2>1, <3>1 DEF Fillable
    <3>2. CASE ~Has(e, k) /\ Healthy(e, k)
      <4>1. Has(e, k)'
        BY <2>1, <3>2, NamesFacts
      <4>2. e = b /\ k = n
        BY <3>2, <4>1, NamesFacts
      <4>3. QED
        BY <1>2, <3>2, <4>2
    <3>3. QED
      BY <3>1, <3>2
  <2>2. Fillable(d, S)'
    BY <2>1 DEF Fillable
  <2>3. QED
    BY <1>1, <1>3, <2>2 DEF Grounded
<1>4. CASE c # None /\ Shadows(d, m)
  BY <1>1, <1>4, NamesFacts DEF Grounded
<1>5. CASE c \in Object
  BY <1>1, <1>5 DEF Grounded
<1>6. CASE c \in Name /\ Good(d, c, S)
  <2>1. Has(d, m)
    BY <1>6, KindAssumption DEF Has
  <2>2. Healthy(d, c)
    BY <1>6, <2>1 DEF AliasesLead
  <2>3. CASE \E e \in Ancestors[d] : Shadows(e, c)
    <3>1. \E e \in Ancestors[d] : Shadows(e, c)'
      BY <1>6, <2>3, NamesFacts, AncestorsInTree
    <3>2. QED
      BY <1>1, <1>6, <3>1 DEF Grounded, Good
  <2>4. CASE \A e \in Ancestors[d] : Has(e, c) => <<e, c>> \in S
    <3>1. CASE \A e \in Ancestors[d] : Has(e, c)' => <<e, c>> \in S
      BY <1>1, <1>6, <3>1 DEF Grounded, Good
    <3>2. ASSUME NEW e \in Ancestors[d], Has(e, c)', <<e, c>> \notin S
          PROVE  \E f \in Ancestors[d] : Shadows(f, c)'
      <4>1. e \in Bus /\ ~Has(e, c)
        BY <2>4, <3>2, AncestorsInTree
      <4>2. e = b /\ c = n
        BY <1>6, <3>2, <4>1, NamesFacts
      <4>3. PICK f \in Ancestors[d] : Has(f, c)
        BY <2>2 DEF Healthy
      <4>4. f # e /\ f \in Bus
        BY <4>1, <4>3, AncestorsInTree
      <4>5. Has(f, c)'
        BY <1>6, <4>3, <4>4, NamesFacts
      <4>6. f \in Ancestors[e] \/ e \in Ancestors[f]
        BY AncestorsInLine
      <4>7. QED
        BY <3>2, <4>4, <4>5, <4>6 DEF Shadows
    <3>3. CASE \E e \in Ancestors[d] : Has(e, c)' /\ <<e, c>> \notin S
      <4>1. \E f \in Ancestors[d] : Shadows(f, c)'
        BY <3>2, <3>3
      <4>2. QED
        BY <1>1, <1>6, <4>1 DEF Grounded, Good
    <3>4. QED
      BY <3>1, <3>3
  <2>5. QED
    BY <1>6, <2>3, <2>4 DEF Good
<1>7. CASE c \in Ref /\ (c.target \in Channel \/ <<c.bus, c.target>> \in S)
  BY <1>1, <1>7 DEF Grounded
<1>8. CASE c \in Ref /\ c.target \in Name /\ ~Has(c.bus, c.target) /\ Healthy(c.bus, c.target)
  <2>1. c.bus \in Bus
    BY <1>8 DEF Ref
  <2>2. CASE ~Has(c.bus, c.target)'
    BY <1>1, <1>8, <2>1, <2>2, NamesFacts DEF Grounded
  <2>3. CASE Has(c.bus, c.target)'
    <3>1. c.bus = b /\ c.target = n
      BY <1>8, <2>1, <2>3, NamesFacts
    <3>2. <<c.bus, c.target>> \in S
      BY <1>2, <1>8, <3>1
    <3>3. QED
      BY <1>1, <1>8, <3>2 DEF Grounded
  <2>4. QED
    BY <2>2, <2>3
<1>9. QED
  BY <1>3, <1>4, <1>5, <1>6, <1>7, <1>8 DEF Grounded

\* A new name closes no circle if what it leads to is grounded.
LEMMA NamesMakeNoCircle ==
  ASSUME TypeOK, AliasesLead, NoCircles,
         NEW b \in Bus, NEW n \in Name, NEW x, Names(b, n, x),
         \A S \in SUBSET (Bus \X Name) :
           /\ ~Healthy(b, n) /\ Fillable(b, S)
           /\ \A d \in Bus, m \in Name : Grounded(d, m, S)' => <<d, m>> \in S
           => Grounded(b, n, S)'
  PROVE  NoCircles'
<1> SUFFICES ASSUME NEW S \in SUBSET (Bus \X Name),
                    \A d \in Bus, m \in Name : Grounded(d, m, S)' => <<d, m>> \in S
             PROVE  \A d \in Bus, m \in Name : <<d, m>> \in S
  BY DEF NoCircles
<1>1. ASSUME NEW d \in Bus, NEW m \in Name, Grounded(d, m, S) PROVE <<d, m>> \in S
  <2>1. CASE d # b \/ m # n
    BY <1>1, <2>1, NamesKeepGround
  <2>2. CASE d = b /\ m = n
    <3>1. CASE Healthy(b, n)
      <4>1. PICK e \in Ancestors[b] : Has(e, n)
        BY <3>1 DEF Healthy
      <4>2. e # b /\ e \in Bus
        BY <4>1, AncestorsInTree DEF Names
      <4>3. Shadows(b, n)' /\ components'[b][n] # None
        BY <4>1, <4>2, NamesFacts DEF Shadows
      <4>4. Grounded(b, n, S)'
        BY <4>3 DEF Grounded
      <4>5. QED
        BY <2>2, <4>4
    <3>2. CASE ~Healthy(b, n)
      <4>1. components[b][n] = None
        BY DEF Names, Has
      <4>2. ~Shadows(b, n)
        BY DEF Shadows, Names
      <4>3. Fillable(b, S)
        BY <1>1, <2>2, <4>1, <4>2, KindAssumption DEF Grounded
      <4>4. QED
        BY <2>2, <3>2, <4>3
    <3>3. QED
      BY <3>1, <3>2
  <2>3. QED
    BY <2>1, <2>2
<1>2. QED
  BY <1>1 DEF NoCircles

LEMMA NamesLead ==
  ASSUME TypeOK, AliasesLead, NEW b \in Bus, NEW n \in Name, NEW x, Names(b, n, x),
         x \in Name => Healthy(b, x)
  PROVE  AliasesLead'
<1>1. ASSUME NEW d \in Bus, NEW m \in Name, NEW c \in Name, components'[d][m] = c
      PROVE  \E e \in Ancestors[d] : components'[e][c] # None
  <2>1. Healthy(d, c)
    <3>1. CASE d = b /\ m = n
      BY <1>1, <3>1, NamesFacts
    <3>2. CASE d # b \/ m # n
      <4>1. components[d][m] = c /\ Has(d, m)
        BY <1>1, <3>2, NamesFacts, KindAssumption DEF Has
      <4>2. QED
        BY <4>1 DEF AliasesLead
    <3>3. QED
      BY <3>1, <3>2
  <2>2. Healthy(d, c)'
    BY <2>1, NamesFacts
  <2>3. QED
    BY <2>2 DEF Healthy, Has
<1>2. QED
  BY <1>1 DEF AliasesLead, Healthy, Has

(* What the actions do to it. *)

LEMMA NewChannelLeads ==
  ASSUME TypeOK, Leads, NEW b \in Bus, NEW n \in Name, NEW c \in Channel, NewChannel(b, n, c)
  PROVE  Leads'
<1>1. Names(b, n, c) /\ c \notin Name
  BY KindFacts DEF NewChannel, Names
<1>2. \A S : Grounded(b, n, S)'
  BY <1>1, NamesFacts, KindFacts DEF Grounded
<1>3. QED
  BY <1>1, <1>2, NamesMakeNoCircle, NamesLead DEF Leads

\* What resolves is good, so that an alias for it is grounded.
LEMMA AliasLeads ==
  ASSUME TypeOK, Leads, NEW b \in Bus, NEW n \in Name, NEW x \in Name \cup Object, Alias(b, n, x)
  PROVE  Leads'
<1>1. Names(b, n, x) /\ Resolves(b, x)
  BY DEF Alias, Names
<1>2. x \in Name => Healthy(b, x)
  BY <1>1, ResolvedIsGood
<1>3. ASSUME NEW S, ~Healthy(b, n),
             \A d \in Bus, m \in Name : Grounded(d, m, S)' => <<d, m>> \in S
      PROVE  Grounded(b, n, S)'
  <2>1. CASE x \in Object
    BY <1>1, <2>1, NamesFacts DEF Grounded
  <2>2. CASE x \in Name
    <3>1. \A d \in Bus, m \in Name : Has(d, m) /\ Grounded(d, m, S) => <<d, m>> \in S
      BY <1>1, <1>3, NamesKeepGround DEF Leads, Names
    <3>2. Good(b, x, S)
      BY <1>1, <2>2, <3>1, ResolvedIsGood
    <3>3. x # n
      BY <1>2, <1>3, <2>2
    <3>4. \A e \in Ancestors[b] : /\ Has(e, x)' => Has(e, x)
                                  /\ Shadows(e, x) => Shadows(e, x)'
      BY <1>1, <2>2, <3>3, NamesFacts, AncestorsInTree
    <3>5. Good(b, x, S)'
      BY <3>2, <3>4 DEF Good
    <3>6. components'[b][n] = x
      BY <1>1, NamesFacts
    <3>7. QED
      BY <2>2, <3>5, <3>6 DEF Grounded
  <2>3. QED
    BY <2>1, <2>2
<1>4. QED
  BY <1>1, <1>2, <1>3, NamesMakeNoCircle, NamesLead DEF Leads

\* What is exported was below and fillable, so that the new name is grounded.
LEMMA ExportLeads ==
  ASSUME TypeOK, Leads, NEW b \in Bus, NEW n \in Name, NEW x \in Name \cup Channel, Export(b, n, x)
  PROVE  Leads'
<1> DEFINE p == Parent[b]
           ref == [bus |-> b, target |-> x]
<1>1. b \in Bus \ {Root} /\ p \in Bus /\ ~Has(p, n) /\ Set(p, n, ref)
  BY TreeAssumption DEF Export
<1>2. ref \in Ref /\ ref.bus = b /\ ref.target = x /\ ref \notin Name
  <2>1. ref \in Ref
    BY DEF Ref
  <2>2. QED
    BY <2>1, KindAssumption
<1> HIDE DEF ref
<1>3. Names(p, n, ref)
  BY <1>1, <1>2 DEF Names
<1>4. b # p
  BY <1>1, ChildIsBelow, AncestorsInTree
<1>5. ASSUME NEW S, Fillable(p, S) PROVE Grounded(p, n, S)'
  <2>1. components'[p][n] = ref
    BY <1>1, <1>3, NamesFacts
  <2>2. CASE x \in Channel
    BY <1>2, <2>1, <2>2 DEF Grounded
  <2>3. CASE x \in Name /\ ~Has(b, x) /\ Healthy(b, x)
    <3>1. ~Has(b, x)' /\ Healthy(b, x)'
      BY <1>1, <1>3, <1>4, <2>3, NamesFacts
    <3>2. QED
      BY <1>2, <2>1, <2>3, <3>1 DEF Grounded
  <2>4. CASE x \in Name /\ (Has(b, x) \/ ~Healthy(b, x))
    <3>1. <<b, x>> \in S
      BY <1>1, <1>5, <2>4 DEF Fillable
    <3>2. QED
      BY <1>2, <2>1, <3>1 DEF Grounded
  <2>5. QED
    BY <2>2, <2>3, <2>4
<1> HIDE DEF p
<1>6. NoCircles'
  BY <1>1, <1>3, <1>5, NamesMakeNoCircle DEF Leads
<1>7. AliasesLead'
  BY <1>1, <1>2, <1>3, NamesLead DEF Leads
<1>8. QED
  BY <1>6, <1>7 DEF Leads

\* Names below a bus that has none can only be filled further down.
LEMMA FilledFromBelow ==
  ASSUME NEW S, NEW top \in Bus,
         \A b \in Bus : /\ top \in Ancestors[b]
                        /\ \A d \in Bus \ {Root}, m \in Name : Parent[d] = b => <<d, m>> \in S
                        => \A n \in Name : <<b, n>> \in S
  PROVE  \A b \in Bus : top \in Ancestors[b] => \A n \in Name : <<b, n>> \in S
<1> DEFINE T == {b \in Bus : \A n \in Name : <<b, n>> \in S}
<1>1. \A b \in Bus : /\ top \in Ancestors[b]
                     /\ \A d \in Bus \ {Root} : Parent[d] = b => d \in T
                     => b \in T
  OBVIOUS
<1> HIDE DEF T
<1>2. \A b \in Bus : top \in Ancestors[b] => b \in T
  BY <1>1, LeavesFirst
<1>3. QED
  BY <1>2 DEF T

LEMMA InitLeads == Init => Leads
<1> SUFFICES ASSUME Init PROVE Leads
  OBVIOUS
<1>1. \A b \in Bus, n \in Name : components[b][n] = None
  BY DEF Init
<1>2. AliasesLead
  BY <1>1 DEF AliasesLead, Has
<1>3. ASSUME NEW S \in SUBSET (Bus \X Name),
             \A b \in Bus, n \in Name : Grounded(b, n, S) => <<b, n>> \in S
      PROVE  \A b \in Bus, n \in Name : <<b, n>> \in S
  <2>1. \A b \in Bus :
          (\A d \in Bus \ {Root}, m \in Name : Parent[d] = b => <<d, m>> \in S)
            => \A n \in Name : <<b, n>> \in S
    BY <1>1, <1>3 DEF Grounded, Fillable
  <2>2. \A b \in Bus : Root \in Ancestors[b] => \A n \in Name : <<b, n>> \in S
    BY <2>1, FilledFromBelow, TreeAssumption
  <2>3. QED
    BY <2>2, RootIsAbove
<1>4. QED
  BY <1>2, <1>3 DEF Leads, NoCircles

\* Nothing has names below a bus that was destroyed, and nothing outside went through them
\* but by references, which dangle now.
LEMMA DestroyLeads ==
  ASSUME TypeOK, Leads, NEW b \in Bus \ {Root}, Destroy(b)
  PROVE  Leads'
<1> DEFINE W == {d \in Bus : b \in Ancestors[d]}
<1>1. ASSUME NEW d \in W, NEW m \in Name PROVE components'[d][m] = None /\ ~Has(d, m)'
  <2>1. CASE d \in Below(b)
    BY <2>1 DEF Destroy, Has
  <2>2. CASE d \notin Below(b)
    <3>1. life[d] \notin {"live", "destroyed"}
      BY <2>2 DEF Below
    <3>2. ~Has(d, m)
      BY <3>1 DEF TypeOK, Live
    <3>3. components'[d] = components[d]
      BY <2>2 DEF Destroy
    <3>4. QED
      BY <3>2, <3>3 DEF Has
  <2>3. QED
    BY <2>1, <2>2
<1>2. ASSUME NEW d \in Bus \ W
      PROVE  /\ components'[d] = components[d] /\ (\A n : Has(d, n)' <=> Has(d, n))
             /\ Ancestors[d] \cap W = {}
  <2>1. d \notin Below(b)
    BY DEF Below
  <2>2. components'[d] = components[d]
    BY <2>1 DEF Destroy
  <2>3. Ancestors[d] \cap W = {}
    BY AncestorsOfAncestors
  <2>4. QED
    BY <2>2, <2>3 DEF Has
<1> HIDE DEF W
<1>3. W \subseteq Bus
  BY DEF W
<1>4. ASSUME NEW d \in Bus \ W, NEW n
      PROVE  (Healthy(d, n)' <=> Healthy(d, n)) /\ (Shadows(d, n)' <=> Shadows(d, n))
  <2>1. \A e \in Ancestors[d] : e \in Bus \ W
    BY <1>2, AncestorsInTree
  <2>2. \A e \in Ancestors[d] : Has(e, n)' <=> Has(e, n)
    BY <1>2, <2>1
  <2>3. QED
    BY <1>2, <2>2 DEF Healthy, Shadows
<1>5. AliasesLead'
  <2>1. ASSUME NEW d \in Bus, NEW m \in Name, NEW c \in Name, components'[d][m] = c
        PROVE  \E e \in Ancestors[d] : components'[e][c] # None
    <3>1. d \in Bus \ W
      BY <1>1, <2>1, KindAssumption
    <3>2. Has(d, m) /\ components[d][m] = c
      BY <1>2, <2>1, <3>1, KindAssumption DEF Has
    <3>3. Healthy(d, c)'
      BY <1>4, <3>1, <3>2 DEF Leads, AliasesLead
    <3>4. QED
      BY <3>3 DEF Healthy, Has
  <2>2. QED
    BY <2>1 DEF AliasesLead, Healthy, Has
<1>6. ASSUME NEW S \in SUBSET (Bus \X Name),
             \A d \in Bus, n \in Name : Grounded(d, n, S)' => <<d, n>> \in S
      PROVE  \A d \in Bus, n \in Name : <<d, n>> \in S
  <2>1. \A d \in W : \A n \in Name : <<d, n>> \in S
    <3>1. \A d \in Bus : /\ b \in Ancestors[d]
                         /\ \A e \in Bus \ {Root}, m \in Name : Parent[e] = d => <<e, m>> \in S
                         => \A n \in Name : <<d, n>> \in S
      BY <1>1, <1>6 DEF Grounded, Fillable, W
    <3>2. \A d \in Bus : b \in Ancestors[d] => \A n \in Name : <<d, n>> \in S
      BY <3>1, FilledFromBelow
    <3>3. QED
      BY <3>2 DEF W
  <2>2. ASSUME NEW d \in Bus, NEW n \in Name, NEW c, c = components[d][n], Grounded(d, n, S)
        PROVE  <<d, n>> \in S
    <3>1. CASE d \in W
      BY <2>1, <3>1
    <3>2. CASE d \notin W
      <4>0. d \in Bus \ W /\ components'[d][n] = c
        BY <1>2, <2>2, <3>2
      <4>1. CASE c = None /\ Fillable(d, S)
        <5>1. ASSUME NEW e \in Bus \ {Root}, NEW m \in Name, Parent[e] = d,
                     Has(e, m)' \/ ~Healthy(e, m)'
              PROVE  <<e, m>> \in S
          <6>1. CASE e \in W
            BY <2>1, <6>1
          <6>2. CASE e \notin W
            <7>1. Has(e, m) \/ ~Healthy(e, m)
              BY <1>2, <1>4, <5>1, <6>2
            <7>2. QED
              BY <4>1, <5>1, <7>1 DEF Fillable
          <6>3. QED
            BY <6>1, <6>2
        <5>2. Fillable(d, S)'
          BY <5>1 DEF Fillable
        <5>3. Grounded(d, n, S)'
          BY <4>0, <4>1, <5>2 DEF Grounded
        <5>4. QED
          BY <1>6, <5>3
      <4>2. CASE c # None /\ Shadows(d, n)
        BY <1>4, <1>6, <4>0, <4>2 DEF Grounded
      <4>3. CASE c \in Object
        BY <1>6, <4>0, <4>3 DEF Grounded
      <4>4. CASE c \in Name /\ Good(d, c, S)
        <5>1. \A e \in Ancestors[d] : /\ Has(e, c)' <=> Has(e, c)
                                      /\ Shadows(e, c)' <=> Shadows(e, c)
          BY <1>2, <1>4, <4>0, AncestorsInTree
        <5>2. Good(d, c, S)'
          BY <4>4, <5>1 DEF Good
        <5>3. Grounded(d, n, S)'
          BY <4>0, <4>4, <5>2 DEF Grounded
        <5>4. QED
          BY <1>6, <5>3
      <4>5. CASE c \in Ref /\ (c.target \in Channel \/ <<c.bus, c.target>> \in S)
        BY <1>6, <4>0, <4>5 DEF Grounded
      <4>6. CASE c \in Ref /\ c.target \in Name /\ ~Has(c.bus, c.target) /\ Healthy(c.bus, c.target)
        <5>1. c.bus \in Bus
          BY <4>6 DEF Ref
        <5>2. CASE c.bus \in W
          <6>1. <<c.bus, c.target>> \in S
            BY <2>1, <4>6, <5>2
          <6>2. QED
            BY <1>6, <4>0, <4>6, <6>1 DEF Grounded
        <5>3. CASE c.bus \notin W
          <6>1. ~Has(c.bus, c.target)' /\ Healthy(c.bus, c.target)'
            BY <1>2, <1>4, <4>6, <5>1, <5>3
          <6>2. QED
            BY <1>6, <4>0, <4>6, <6>1 DEF Grounded
        <5>4. QED
          BY <5>2, <5>3
      <4>7. QED
        BY <2>2, <4>1, <4>2, <4>3, <4>4, <4>5, <4>6 DEF Grounded
    <3>3. QED
      BY <3>1, <3>2
  <2>3. QED
    BY <2>2 DEF Leads, NoCircles
<1>7. QED
  BY <1>5, <1>6 DEF Leads, NoCircles

LEMMA ComponentsAreLeft ==
  ASSUME Leads, UNCHANGED components
  PROVE  Leads'
<1>1. \A b, n : Has(b, n)' <=> Has(b, n)
  BY DEF Has
<1>2. \A b, n : /\ Healthy(b, n)' <=> Healthy(b, n)
                /\ Shadows(b, n)' <=> Shadows(b, n)
  BY <1>1 DEF Healthy, Shadows
<1>3. \A b, n, S : /\ Good(b, n, S)' <=> Good(b, n, S)
                   /\ Fillable(b, S)' <=> Fillable(b, S)
  BY <1>1, <1>2 DEF Good, Fillable
<1>4. \A b, n, S : Grounded(b, n, S)' <=> Grounded(b, n, S)
  <2> TAKE b, n, S
  <2> DEFINE c == components[b][n]
  <2>1. components'[b][n] = c /\ (Shadows(b, n)' <=> Shadows(b, n))
        /\ (Good(b, c, S)' <=> Good(b, c, S)) /\ (Fillable(b, S)' <=> Fillable(b, S))
    BY <1>2, <1>3
  <2>2. (Has(c.bus, c.target)' <=> Has(c.bus, c.target))
        /\ (Healthy(c.bus, c.target)' <=> Healthy(c.bus, c.target))
    BY <1>1, <1>2
  <2>3. QED
    BY <2>1, <2>2 DEF Grounded
<1>5. NoCircles' <=> NoCircles
  BY <1>4 DEF NoCircles
<1>6. AliasesLead' <=> AliasesLead
  BY <1>1, <1>2 DEF AliasesLead
<1>7. QED
  BY <1>5, <1>6 DEF Leads

LEMMA StepLeads ==
  ASSUME TypeOK, Leads, [Next]_vars
  PROVE  Leads'
<1>1. CASE UNCHANGED vars
  BY <1>1, ComponentsAreLeft DEF vars
<1>2. CASE \E b \in Bus \ {Root} : NewBus(b) \/ FindParent(b) \/ Initialize(b)
  BY <1>2, ComponentsAreLeft DEF NewBus, FindParent, Initialize
<1>3. CASE \E a \in Adapter :
             \/ \E b \in Bus, x \in Name \cup Channel : AdaptStream(b, a, x)
             \/ \E b \in Bus, n \in Name : Connect(b, a, n)
             \/ Close(a)
  BY <1>3, ComponentsAreLeft DEF AdaptStream, Connect, Adapt, Close
<1>4. CASE \E b \in Bus, n \in Name :
             \/ \E c \in Channel : NewChannel(b, n, c)
             \/ \E x \in Name \cup Object : Alias(b, n, x)
             \/ \E x \in Name \cup Channel : Export(b, n, x)
  BY <1>4, NewChannelLeads, AliasLeads, ExportLeads
<1>5. CASE \E b \in Bus \ {Root} : Destroy(b)
  BY <1>5, DestroyLeads
<1>6. QED
  BY <1>1, <1>2, <1>3, <1>4, <1>5 DEF Next

-----------------------------------------------------------------------------
(* Searches end within the bound, but for a cause. *)

\* Where a search may fail: what the property LookupsFailForACause excuses.
Cause(b, x) == Has(b, x) /\ (Shadows(b, x) \/ Dangling(components[b][x]))

\* The bound suffices for the search from here, unless it comes by a cause.
Done(k, at) ==
  \/ Searching(Channel)[k][at] # "endless"
  \/ \E t \in Trailing[k][at] : Cause(t[1], t[2])
Settled(k, b, x) == \A ref \in BOOLEAN : Done(k, At(b, x, ref))

Thing == Name \cup Object

LEMMA CauseSettles ==
  ASSUME TypeOK, NEW k \in 0..Longest, NEW b \in Bus, NEW x \in Thing,
         Cause(b, x) \/ x \in Channel \/ (k # 0 /\ b = Root /\ ~Has(b, x))
  PROVE  Settled(k, b, x)
<1> SUFFICES ASSUME NEW ref \in BOOLEAN, NEW at, at = At(b, x, ref)
             PROVE  Done(k, at)
  BY DEF Settled
<1>1. at \in Place /\ at.bus = b /\ at.x = x /\ at.ref = ref
  BY PlaceFacts DEF Thing
<1>2. CASE Cause(b, x)
  <2>1. <<b, x>> \in Trailing[k][at]
    BY <1>1, TrailStarts
  <2>2. QED
    BY <1>2, <2>1 DEF Done
<1>3. CASE x \in Channel
  BY <1>1, <1>3, SearchEnds, KindFacts DEF Done
<1>4. CASE x \notin Channel /\ k # 0 /\ b = Root /\ ~Has(b, x)
  <2>1. Lost(at)
    BY <1>1, <1>4 DEF Lost
  <2>2. Searching(Channel)[k][at] = IF at.ref THEN "throws" ELSE "undefined"
    BY <1>1, <1>4, <2>1, SearchEnds, KindFacts
  <2>3. QED
    BY <2>2 DEF Done
<1>5. QED
  BY <1>2, <1>3, <1>4

\* One step on.
LEMMA StepSettles ==
  ASSUME TypeOK, NEW k \in 1..Longest, NEW b \in Bus, NEW x \in Thing,
         NEW d \in Bus, NEW y \in Thing, Settled(k - 1, d, y),
         \/ ~Has(b, x) /\ b # Root /\ d = Parent[b] /\ y = x
         \/ Has(b, x) /\ components[b][x] \notin Ref /\ d = b /\ y = components[b][x]
         \/ /\ Has(b, x) /\ components[b][x] \in Ref
            /\ d = components[b][x].bus /\ y = components[b][x].target
  PROVE  Settled(k, b, x)
<1>0. k \in 0..Longest
  BY LongestIsNat
<1>1. CASE x \in Channel
  BY <1>0, <1>1, CauseSettles
<1>2. CASE x \notin Channel
  <2> SUFFICES ASSUME NEW ref \in BOOLEAN, NEW at, at = At(b, x, ref)
               PROVE  Done(k, at)
    BY DEF Settled
  <2>0. x \in Name \cup Object
    BY DEF Thing
  <2>1. at \in Place /\ at.bus = b /\ at.x = x /\ at.ref = ref
    BY <2>0 DEF Place, At
  <2>2. ~Lost(at)
    BY <2>1 DEF Lost
  <2>3. PICK r \in BOOLEAN : Follow(at) = At(d, y, r)
    BY <2>1, <2>2, FollowFacts
  <2>4. /\ Searching(Channel)[k][at] = Searching(Channel)[k - 1][Follow(at)]
        /\ Trailing[k - 1][Follow(at)] \subseteq Trailing[k][at]
    BY <1>2, <2>1, <2>2, SearchGoesOn, TrailGoesOn, KindFacts
  <2>5. Done(k - 1, Follow(at))
    BY <2>3 DEF Settled
  <2>6. QED
    BY <2>4, <2>5 DEF Done
<1>3. QED
  BY <1>1, <1>2

\* More steps do no harm.
LEMMA DoneStays ==
  ASSUME TypeOK
  PROVE  \A k \in 1..Longest : \A at \in Place : Done(k - 1, at) => Done(k, at)
<1> DEFINE P(k) == \A at \in Place : Done(k - 1, at) => Done(k, at)
           S == {k \in 0..Longest : k # 0 => P(k)}
<1>0. Longest \in Nat
  BY LongestIsNat
<1>1. ASSUME NEW k \in 1..Longest, k - 1 # 0 => P(k - 1) PROVE P(k)
  <2> SUFFICES ASSUME NEW at \in Place, Done(k - 1, at) PROVE Done(k, at)
    OBVIOUS
  <2>0. k \in 0..Longest /\ k - 1 \in 0..Longest /\ k # 0
    BY <1>0
  <2>1. CASE at.x \in Channel
    BY <2>0, <2>1, SearchEnds, KindFacts DEF Done
  <2>2. CASE at.x \notin Channel /\ Lost(at)
    <3>1. Searching(Channel)[k][at] = IF at.ref THEN "throws" ELSE "undefined"
      BY <2>0, <2>2, SearchEnds, KindFacts
    <3>2. QED
      BY <3>1 DEF Done
  <2>3. CASE at.x \notin Channel /\ ~Lost(at)
    <3>1. /\ Searching(Channel)[k][at] = Searching(Channel)[k - 1][Follow(at)]
          /\ Trailing[k][at] = {<<at.bus, at.x>>} \cup Trailing[k - 1][Follow(at)]
          /\ Follow(at) \in Place
      BY <2>3, SearchGoesOn, TrailGoesOn, KindFacts
    <3>2. CASE k - 1 = 0
      <4>1. Searching(Channel)[k - 1][at] = "endless" /\ Trailing[k - 1][at] = {<<at.bus, at.x>>}
        BY <2>0, <2>3, <3>2, SearchEnds, SearchSteps, KindFacts DEF Steps
      <4>2. QED
        BY <3>1, <4>1 DEF Done
    <3>3. CASE k - 1 # 0
      <4>1. k - 1 \in 1..Longest
        BY <1>0, <3>3
      <4>2. Searching(Channel)[k - 1][at] = Searching(Channel)[(k - 1) - 1][Follow(at)]
        <5>1. Channel \in Kinds
          BY KindFacts
        <5>2. \A i \in 1..Longest : Searching(Channel)[i][at] = Searching(Channel)[i - 1][Follow(at)]
          BY <2>3, <5>1, SearchGoesOn, Zenon
        <5>3. QED
          BY <4>1, <5>2, Zenon
      <4>3. Trailing[k - 1][at] = {<<at.bus, at.x>>} \cup Trailing[(k - 1) - 1][Follow(at)]
        BY <2>3, <4>1, TrailGoesOn, Zenon
      <4>4. Done((k - 1) - 1, Follow(at)) => Done(k - 1, Follow(at))
        BY <1>1, <3>1, <3>3
      <4>5. QED
        BY <3>1, <4>2, <4>3, <4>4 DEF Done
    <3>4. QED
      BY <3>2, <3>3
  <2>4. QED
    BY <2>1, <2>2, <2>3
<1> HIDE DEF P
<1>2. 0..Longest \subseteq S
  <2>1. 0 \in S /\ \A k \in 1..Longest : k - 1 \in S => k \in S
    BY <1>0, <1>1
  <2> HIDE DEF S
  <2>2. QED
    BY <1>0, <2>1, UpTo
<1>3. ASSUME NEW k \in 1..Longest PROVE P(k)
  <2>1. k \in 0..Longest /\ k # 0
    BY <1>0
  <2>2. QED
    BY <1>2, <2>1 DEF S
<1>4. QED
  BY <1>3 DEF P

LEMMA SettledStays ==
  ASSUME TypeOK, NEW b \in Bus, NEW x \in Thing, NEW k \in 0..Longest, NEW j \in k..Longest,
         Settled(k, b, x)
  PROVE  Settled(j, b, x)
<1> DEFINE S == {i \in 0..Longest : k <= i => Settled(i, b, x)}
<1>0. Longest \in Nat
  BY LongestIsNat
<1>1. 0 \in S
  BY <1>0
<1>2. ASSUME NEW i \in 1..Longest, i - 1 \in S PROVE i \in S
  <2> SUFFICES ASSUME k <= i PROVE Settled(i, b, x)
    BY <1>0
  <2>1. CASE k = i
    BY <2>1
  <2>2. CASE k # i
    <3>1. Settled(i - 1, b, x)
      BY <1>0, <1>2, <2>2
    <3>2. \A ref \in BOOLEAN : At(b, x, ref) \in Place
      BY PlaceFacts DEF Thing
    <3>3. QED
      BY <3>1, <3>2, DoneStays DEF Settled
  <2>3. QED
    BY <2>1, <2>2
<1> HIDE DEF S
<1>3. 0..Longest \subseteq S
  BY <1>0, <1>1, <1>2, UpTo
<1>4. j \in 0..Longest /\ k <= j
  BY <1>0
<1>5. QED
  BY <1>3, <1>4 DEF S

\* The search for the object itself goes straight up.
LEMMA ObjectsSettle ==
  ASSUME TypeOK, NEW x \in Object, NEW b \in Bus
  PROVE  Settled(Cardinality(Bus), b, x)
<1> DEFINE h(d) == Cardinality(Ancestors[d])
           S == {d \in Bus : Settled(h(d), d, x)}
<1>0. /\ Longest \in Nat /\ Cardinality(Bus) \in 1..Longest
      /\ \A d \in Bus : h(d) \in 1..Cardinality(Bus) /\ h(d) \in 1..Longest
      /\ \A d \in Bus \ {Root} : h(d) = h(Parent[d]) + 1 /\ h(d) - 1 = h(Parent[d])
  <2>1. Longest \in Nat /\ Cardinality(Bus) \in 1..Longest
    BY LongestIsNat
  <2>2. \A d \in Bus : h(d) \in 1..Cardinality(Bus) /\ h(d) \in 1..Longest
    BY <2>1, HeightIs
  <2>3. QED
    BY <2>1, <2>2, HeightIs, TreeAssumption
<1> HIDE DEF h
<1>1. x \in Thing /\ \A d \in Bus : ~Has(d, x)
  BY KindFacts DEF Thing
<1>2. Root \in S
  <2>1. h(Root) \in 0..Longest /\ h(Root) # 0 /\ Root \in Bus
    BY <1>0, TreeAssumption
  <2>2. QED
    BY <1>1, <2>1, CauseSettles
<1>3. ASSUME NEW d \in Bus \ {Root}, Parent[d] \in S PROVE d \in S
  <2>1. h(d) \in 1..Longest /\ Parent[d] \in Bus /\ Settled(h(d) - 1, Parent[d], x)
    BY <1>0, <1>3, TreeAssumption
  <2>2. Settled(h(d), d, x)
    BY <1>1, <2>1, StepSettles
  <2>3. QED
    BY <2>2
<1> HIDE DEF S
<1>4. b \in S
  BY <1>2, <1>3, TreeInduction
<1>5. h(b) \in 0..Longest /\ Cardinality(Bus) \in h(b)..Longest
  BY <1>0
<1>6. QED
  BY <1>1, <1>4, <1>5, SettledStays DEF S

\* What is closed under the steps of the search, and has the causes and the ends.
Closed(C) ==
  /\ C \subseteq Bus \X Thing
  /\ \A b \in Bus, x \in Thing : x \in Object \/ Cause(b, x) \/ (b = Root /\ ~Has(b, x)) => <<b, x>> \in C
  /\ \A b \in Bus \ {Root}, x \in Thing : ~Has(b, x) /\ <<Parent[b], x>> \in C => <<b, x>> \in C
  /\ \A b \in Bus, x \in Name :
       Has(b, x) =>
         LET c == components[b][x] IN
           /\ c \notin Ref /\ <<b, c>> \in C => <<b, x>> \in C
           /\ c \in Ref /\ <<c.bus, c.target>> \in C => <<b, x>> \in C

LEMMA GoodIsClosed ==
  ASSUME TypeOK, NEW C, Closed(C), NEW x \in Name, NEW S,
         \A b \in Bus : <<b, x>> \in S /\ Has(b, x) => <<b, x>> \in C
  PROVE  \A b \in Bus : Good(b, x, S) => <<b, x>> \in C
<1> DEFINE T == {b \in Bus : Good(b, x, S) => <<b, x>> \in C}
<1>0. x \in Thing /\ \A b \in Bus : b \in Ancestors[b] /\ Ancestors[b] \subseteq Bus
  BY AncestorsInTree DEF Thing
<1>1. ASSUME NEW b \in Bus, Has(b, x), Good(b, x, S) PROVE <<b, x>> \in C
  <2>1. CASE \E d \in Ancestors[b] : Shadows(d, x)
    <3>1. Shadows(b, x)
      BY <1>1, <2>1, AncestorsOfAncestors DEF Shadows
    <3>2. Cause(b, x)
      BY <1>1, <3>1 DEF Cause
    <3>3. QED
      BY <1>0, <3>2 DEF Closed
  <2>2. CASE \A d \in Ancestors[b] : Has(d, x) => <<d, x>> \in S
    BY <1>0, <1>1, <2>2
  <2>3. QED
    BY <1>1, <2>1, <2>2 DEF Good
<1>2. Root \in T
  <2>1. Root \in Bus
    BY TreeAssumption
  <2>2. ~Has(Root, x) => <<Root, x>> \in C
    BY <1>0, <2>1 DEF Closed
  <2>3. QED
    BY <1>1, <2>1, <2>2
<1>3. ASSUME NEW b \in Bus \ {Root}, Parent[b] \in T PROVE b \in T
  <2> SUFFICES ASSUME Good(b, x, S), ~Has(b, x) PROVE <<b, x>> \in C
    BY <1>1
  <2>1. Ancestors[b] = {b} \cup Ancestors[Parent[b]]
    BY AncestorsAre
  <2>2. Good(Parent[b], x, S)
    BY <2>1 DEF Good, Shadows
  <2>3. <<Parent[b], x>> \in C
    BY <1>3, <2>2
  <2>4. QED
    BY <1>0, <2>3 DEF Closed
<1> HIDE DEF T
<1>4. Bus \subseteq T
  BY <1>2, <1>3, TreeInduction
<1>5. QED
  BY <1>4 DEF T

\* As there are no circles, that is everything.
LEMMA ClosedIsAll ==
  ASSUME TypeOK, NoCircles, NEW C, Closed(C)
  PROVE  \A b \in Bus, n \in Name : <<b, n>> \in C
<1> DEFINE S == {t \in Bus \X Name : Has(t[1], t[2]) => t \in C}
<1>1. \A b \in Bus, n \in Name : <<b, n>> \in S <=> (Has(b, n) => <<b, n>> \in C)
  OBVIOUS
<1>2. S \in SUBSET (Bus \X Name)
  OBVIOUS
<1> HIDE DEF S
<1>3. \A b \in Bus, n \in Name : Good(b, n, S) => <<b, n>> \in C
  BY <1>1, GoodIsClosed
<1>4. ASSUME NEW b \in Bus, NEW n \in Name, Grounded(b, n, S), Has(b, n) PROVE <<b, n>> \in C
  <2> SUFFICES ASSUME NEW c, c = components[b][n], ~Cause(b, n)
               PROVE  <<b, n>> \in C
    BY DEF Closed, Thing
  <2>0. c # None /\ n \in Thing /\ ~Shadows(b, n) /\ ~Dangling(c)
    BY <1>4 DEF Has, Cause, Thing
  <2>1. CASE c \in Object
    <3>1. <<b, c>> \in C /\ c \notin Ref
      BY <2>1, KindAssumption DEF Closed, Thing
    <3>2. QED
      BY <1>4, <3>1 DEF Closed
  <2>2. CASE c \in Name /\ Good(b, c, S)
    <3>1. <<b, c>> \in C /\ c \notin Ref
      BY <1>3, <2>2, KindAssumption
    <3>2. QED
      BY <1>4, <3>1 DEF Closed
  <2>3. CASE c \in Ref
    <3>1. c.bus \in Bus /\ c.target \in Name \cup Channel
      BY <2>3 DEF Ref
    <3>2. CASE c.target \in Channel
      <4>1. <<c.bus, c.target>> \in C
        BY <3>1, <3>2 DEF Closed, Thing, Object
      <4>2. QED
        BY <1>4, <2>3, <4>1 DEF Closed
    <3>3. CASE c.target \in Name /\ ~Has(c.bus, c.target)
      BY <2>0, <2>3, <3>3 DEF Dangling
    <3>4. CASE c.target \in Name /\ Has(c.bus, c.target)
      <4>1. <<c.bus, c.target>> \in S
        <5>1. ~(c \in Object) /\ ~(c \in Name)
          BY <2>3, KindAssumption
        <5>2. ~(c.target \in Channel)
          BY <3>4, KindFacts
        <5>3. QED
          BY <1>4, <2>0, <3>4, <5>1, <5>2 DEF Grounded
      <4>2. <<c.bus, c.target>> \in C
        BY <1>1, <3>1, <3>4, <4>1
      <4>3. QED
        BY <1>4, <2>3, <4>2 DEF Closed
    <3>5. QED
      BY <3>1, <3>2, <3>3, <3>4
  <2>4. QED
    BY <1>4, <2>0, <2>1, <2>2, <2>3 DEF Grounded
<1>5. \A b \in Bus, n \in Name : <<b, n>> \in S
  BY <1>1, <1>2, <1>4 DEF NoCircles
<1>6. QED
  BY <1>3, <1>5, AncestorsInTree DEF Good

\* Within the bound, every search has ended or come by a cause.
LEMMA AllSettle ==
  ASSUME TypeOK, NoCircles, NEW b \in Bus, NEW n \in Name
  PROVE  Settled(Longest, b, n)
<1> DEFINE A == Bus \X Name
           M == Cardinality(Bus)
           L == [k \in Nat |-> {t \in A : M + k <= Longest => Settled(M + k, t[1], t[2])}]
<1>0. /\ Longest \in Nat /\ M \in Nat /\ M >= 1
      /\ IsFiniteSet(A) /\ Cardinality(A) \in Nat /\ M + Cardinality(A) <= Longest
  <2>1. IsFiniteSet(A) /\ Cardinality(A) = Cardinality(Bus) * Cardinality(Name)
    BY TreeAssumption, FS_Product
  <2>2. Cardinality(A) \in Nat
    BY <2>1, FS_CardinalityType
  <2>3. /\ Longest \in Nat /\ M \in Nat /\ M >= 1
        /\ M + 2 * Cardinality(A) <= Longest
    BY <2>1, LongestIsNat
  <2>4. QED
    BY <2>1, <2>2, <2>3
<1> HIDE DEF M
<1>1. \A k \in Nat, d \in Bus, m \in Name :
        <<d, m>> \in L[k] <=> (M + k <= Longest => Settled(M + k, d, m))
  OBVIOUS
<1>2. L \in [Nat -> SUBSET A]
  OBVIOUS
<1> HIDE DEF L
<1>3. ASSUME NEW k \in Nat PROVE L[k] \subseteq L[k + 1]
  <2> SUFFICES ASSUME NEW d \in Bus, NEW m \in Name, <<d, m>> \in L[k], M + (k + 1) <= Longest
               PROVE  Settled(M + (k + 1), d, m)
    <3>1. \A t \in L[k] : t \in A /\ t = <<t[1], t[2]>> /\ t[1] \in Bus /\ t[2] \in Name
      BY <1>2
    <3>2. QED
      BY <1>1, <3>1
  <2>1. M + k \in 0..Longest /\ M + (k + 1) \in (M + k)..Longest
    BY <1>0
  <2>2. Settled(M + k, d, m)
    BY <1>1, <2>1
  <2>3. QED
    BY <2>1, <2>2, SettledStays DEF Thing
<1>4. ASSUME NEW k \in Nat, L[k] = L[k + 1] PROVE L[k] = A
  <2>0. \A d \in Bus, m \in Name :
          <<d, m>> \in L[k + 1] <=> (M + (k + 1) <= Longest => Settled(M + (k + 1), d, m))
    <3>1. k + 1 \in Nat
      OBVIOUS
    <3>2. QED
      BY <1>1, <3>1, Zenon
  <2>1. CASE M + (k + 1) > Longest
    <3>1. \A d \in Bus, m \in Name : <<d, m>> \in L[k + 1]
      <4>1. ~(M + (k + 1) <= Longest)
        BY <1>0, <2>1
      <4>2. QED
        BY <2>0, <4>1, Zenon
    <3>2. QED
      BY <1>2, <1>4, <3>1
  <2>2. CASE M + (k + 1) <= Longest
    <3> DEFINE C == {t \in Bus \X Thing : Settled(M + (k + 1), t[1], t[2])}
               K == M + (k + 1)
    <3>0. K \in 1..Longest /\ K - 1 = M + k /\ K \in 0..Longest /\ K # 0 /\ M + k <= Longest
          /\ K - 1 \in 0..Longest /\ M \in 0..Longest /\ K - 1 \in M..Longest /\ K \in M..Longest
      BY <1>0, <2>2
    <3>1. \A d \in Bus, y \in Thing : <<d, y>> \in C <=> Settled(K, d, y)
      OBVIOUS
    <3>2. C \subseteq Bus \X Thing
      OBVIOUS
    <3> HIDE DEF C, K
    <3>3. ASSUME NEW d \in Bus, NEW y \in Object PROVE Settled(K - 1, d, y) /\ Settled(K, d, y)
      <4>1. Settled(M, d, y) /\ y \in Thing
        BY ObjectsSettle DEF M, Thing
      <4>2. QED
        BY <3>0, <4>1, SettledStays
    <3>4. ASSUME NEW d \in Bus, NEW y \in Thing, <<d, y>> \in C PROVE Settled(K - 1, d, y)
      <4>1. CASE y \in Object
        BY <3>3, <4>1
      <4>2. CASE y \in Name
        <5>1. <<d, y>> \in L[k + 1]
          BY <1>1, <3>1, <3>4, <4>2 DEF K
        <5>2. QED
          BY <1>1, <1>4, <3>0, <4>2, <5>1
      <4>3. QED
        BY <4>1, <4>2 DEF Thing
    <3>5. ASSUME NEW d \in Bus, NEW y \in Thing, NEW e \in Bus, NEW z \in Thing, <<e, z>> \in C,
                 \/ ~Has(d, y) /\ d # Root /\ e = Parent[d] /\ z = y
                 \/ Has(d, y) /\ components[d][y] \notin Ref /\ e = d /\ z = components[d][y]
                 \/ /\ Has(d, y) /\ components[d][y] \in Ref
                    /\ e = components[d][y].bus /\ z = components[d][y].target
          PROVE  <<d, y>> \in C
      <4>1. Settled(K - 1, e, z)
        BY <3>4, <3>5
      <4>2. Settled(K, d, y)
        BY <3>0, <3>5, <4>1, StepSettles
      <4>3. QED
        BY <3>1, <4>2
    <3>6. \A d \in Bus, y \in Thing :
            y \in Object \/ Cause(d, y) \/ (d = Root /\ ~Has(d, y)) => <<d, y>> \in C
      BY <3>0, <3>1, <3>3, CauseSettles
    <3>7. \A d \in Bus \ {Root}, y \in Thing : ~Has(d, y) /\ <<Parent[d], y>> \in C => <<d, y>> \in C
      BY <3>5, TreeAssumption
    <3>8. ASSUME NEW d \in Bus, NEW y \in Name, Has(d, y), NEW c, c = components[d][y]
          PROVE  /\ c \notin Ref /\ <<d, c>> \in C => <<d, y>> \in C
                 /\ c \in Ref /\ <<c.bus, c.target>> \in C => <<d, y>> \in C
      <4>1. y \in Thing
        BY DEF Thing
      <4>2. ASSUME c \notin Ref, <<d, c>> \in C PROVE <<d, y>> \in C
        <5>1. c \in Thing
          BY <3>2, <4>2
        <5>2. QED
          BY <3>5, <3>8, <4>1, <4>2, <5>1
      <4>3. ASSUME c \in Ref, <<c.bus, c.target>> \in C PROVE <<d, y>> \in C
        <5>1. c.bus \in Bus /\ c.target \in Thing
          BY <3>2, <4>3
        <5>2. QED
          BY <3>5, <3>8, <4>1, <4>3, <5>1
      <4>4. QED
        BY <4>2, <4>3
    <3>9. Closed(C)
      BY <3>2, <3>6, <3>7, <3>8 DEF Closed
    <3>10. \A d \in Bus, m \in Name : <<d, m>> \in L[k + 1]
      <4>1. \A d \in Bus, m \in Name : <<d, m>> \in C
        BY <3>9, ClosedIsAll
      <4>2. \A d \in Bus, m \in Name : Settled(M + (k + 1), d, m)
        BY <3>1, <4>1 DEF K, Thing
      <4>3. QED
        BY <2>0, <4>2, Zenon
    <3>11. QED
      BY <1>2, <1>4, <3>10
  <2>3. QED
    BY <1>0, <2>1, <2>2
<1>5. L[Cardinality(A)] = A
  <2> HIDE DEF A
  <2>1. QED
    BY <1>0, <1>2, <1>3, <1>4, GrowsToAll
<1>6. Settled(M + Cardinality(A), b, n)
  <2>1. <<b, n>> \in L[Cardinality(A)]
    BY <1>5
  <2>2. QED
    BY <1>0, <1>1, <2>1
<1>7. n \in Thing /\ M + Cardinality(A) \in 0..Longest /\ Longest \in (M + Cardinality(A))..Longest
  BY <1>0 DEF Thing
<1>8. QED
  BY <1>6, <1>7, SettledStays

\* A search that goes on with undefined came by a handler or by a cause, unless it was
\* already on its way through a Ref for a name that nobody has.
LEMMA ThrowsForACause ==
  ASSUME TypeOK, AliasesLead
  PROVE  \A k \in 0..Longest : \A at \in Place :
           Searching(Channel)[k][at] = "throws" =>
             \/ \E t \in Trailing[k][at] : t[2] \in Adapter \/ Cause(t[1], t[2])
             \/ at.ref /\ at.x \in Name /\ ~Healthy(at.bus, at.x)
<1> DEFINE F == Searching(Channel)
           Right(k, at) == \/ \E t \in Trailing[k][at] : t[2] \in Adapter \/ Cause(t[1], t[2])
                           \/ at.ref /\ at.x \in Name /\ ~Healthy(at.bus, at.x)
           P(k) == \A at \in Place : F[k][at] = "throws" => Right(k, at)
           S == {k \in 0..Longest : P(k)}
<1>0. Longest \in Nat /\ 0 \in 0..Longest
  BY LongestIsNat
<1>1. P(0)
  <2> SUFFICES ASSUME NEW at \in Place PROVE F[0][at] # "throws"
    OBVIOUS
  <2>1. (F[0][at] = at.x /\ at.x \in Channel) \/ F[0][at] = "endless"
    BY <1>0, SearchEnds, KindFacts
  <2>2. QED
    BY <2>1, KindFacts
<1>2. ASSUME NEW k \in 1..Longest, P(k - 1) PROVE P(k)
  <2> SUFFICES ASSUME NEW at \in Place, F[k][at] = "throws" PROVE Right(k, at)
    OBVIOUS
  <2>0. k \in 0..Longest /\ k # 0 /\ at.bus \in Bus /\ at.x \in Name \cup Object
    BY <1>0, PlaceFacts
  <2>1. at.x \notin Channel
    BY <2>0, SearchEnds, KindFacts
  <2>2. <<at.bus, at.x>> \in Trailing[k][at]
    BY <2>0, TrailStarts
  <2>3. CASE at.x \in Adapter
    BY <2>2, <2>3
  <2>4. CASE at.x \in Name /\ Lost(at)
    <3>1. at.ref
      <4>1. F[k][at] = IF at.ref THEN "throws" ELSE "undefined"
        BY <2>0, <2>1, <2>4, SearchEnds, KindFacts
      <4>2. QED
        BY <4>1
    <3>2. ~Healthy(at.bus, at.x)
      BY <2>4, HealthyFacts DEF Lost
    <3>3. QED
      BY <2>4, <3>1, <3>2
  <2>5. CASE at.x \in Name /\ ~Lost(at)
    <3>1. F[k][at] = F[k - 1][Follow(at)] /\ Follow(at) \in Place
      BY <2>1, <2>5, SearchGoesOn, KindFacts
    <3>2. Trailing[k - 1][Follow(at)] \subseteq Trailing[k][at]
      BY <2>1, <2>5, TrailGoesOn
    <3>3. Right(k - 1, Follow(at))
      BY <1>2, <3>1
    <3>4. CASE \E t \in Trailing[k - 1][Follow(at)] : t[2] \in Adapter \/ Cause(t[1], t[2])
      BY <3>2, <3>4
    <3>5. CASE /\ Follow(at).ref /\ Follow(at).x \in Name
               /\ ~Healthy(Follow(at).bus, Follow(at).x)
      <4>1. CASE ~Has(at.bus, at.x)
        <5>1. at.bus \in Bus \ {Root} /\ Follow(at) = At(Parent[at.bus], at.x, at.ref)
          BY <2>5, <4>1, FollowFacts
        <5>2. at.ref /\ ~Healthy(Parent[at.bus], at.x)
          BY <3>5, <5>1 DEF At
        <5>3. QED
          BY <2>5, <4>1, <5>1, <5>2, HealthyFacts
      <4>2. ASSUME Has(at.bus, at.x), NEW c, c = components[at.bus][at.x] PROVE Right(k, at)
        <5>1. CASE c \in Object \cup Name /\ Follow(at) = At(at.bus, c, at.ref)
          <6>1. c \in Name /\ ~Healthy(at.bus, c)
            BY <3>5, <5>1 DEF At
          <6>2. QED
            BY <2>0, <2>5, <4>2, <6>1 DEF AliasesLead
        <5>2. CASE c \in Ref /\ c.bus \in Bus /\ Follow(at) = At(c.bus, c.target, TRUE)
          <6>1. c.target \in Name /\ ~Healthy(c.bus, c.target)
            BY <3>5, <5>2 DEF At
          <6>2. Dangling(c)
            BY <5>2, <6>1, HealthyFacts DEF Dangling
          <6>3. Cause(at.bus, at.x)
            BY <4>2, <6>2 DEF Cause
          <6>4. QED
            BY <2>2, <6>3
        <5>3. QED
          BY <4>2, <5>1, <5>2, FollowFacts
      <4>3. QED
        BY <4>1, <4>2
    <3>6. QED
      BY <3>3, <3>4, <3>5
  <2>6. QED
    BY <2>0, <2>1, <2>3, <2>4, <2>5 DEF Object
<1> HIDE DEF P
<1>3. 0..Longest \subseteq S
  <2>1. 0 \in S /\ \A k \in 1..Longest : k - 1 \in S => k \in S
    BY <1>0, <1>1, <1>2
  <2> HIDE DEF S
  <2>2. QED
    BY <1>0, <2>1, UpTo
<1>4. QED
  BY <1>3 DEF S, P

LEMMA FailuresHaveCauses ==
  ASSUME TypeOK, Leads
  PROVE  LookupsFailForACause
<1> SUFFICES ASSUME NEW b \in Live, NEW n \in Name,
                    NEW found, found = resolveChannel(b, n), found \in {"endless", "throws"}
             PROVE  \E t \in Trail(b, n) :
                      \/ t[2] \in Adapter /\ found = "throws"
                      \/ Cause(t[1], t[2])
  BY DEF LookupsFailForACause, Cause
<1>1. b \in Bus
  BY DEF Live
<1>2. /\ found = Searching(Channel)[Longest][At(b, n, FALSE)]
      /\ Trail(b, n) = Trailing[Longest][At(b, n, FALSE)]
  BY Resolving, SearchIsSearching, Zenon DEF ResolvesBySearching
<1>3. CASE found = "endless"
  <2>1. Done(Longest, At(b, n, FALSE))
    BY <1>1, AllSettle DEF Leads, Settled
  <2>2. QED
    BY <1>2, <1>3, <2>1 DEF Done
<1>4. CASE found = "throws"
  <2>1. At(b, n, FALSE) \in Place /\ At(b, n, FALSE).ref = FALSE
    BY <1>1, PlaceFacts
  <2>2. Longest \in 0..Longest
    BY LongestIsNat
  <2>3. \E t \in Trailing[Longest][At(b, n, FALSE)] : t[2] \in Adapter \/ Cause(t[1], t[2])
    BY <1>2, <1>4, <2>1, <2>2, ThrowsForACause DEF Leads
  <2>4. QED
    BY <1>2, <1>4, <2>3
<1>5. QED
  BY <1>3, <1>4

-----------------------------------------------------------------------------
(* The theorems about names. *)

\* In every tree of buses, however names are given, exported and removed, no name of a
\* living bus leads to a channel of a destroyed one, unless that channel object itself
\* is registered with a bus that lives, or was exported (msgs.js:254-261, 267-280).
THEOREM DeadAreForgotten == Spec => []NoNamesOfTheDead
  BY NobodyKnowsTheDead, TreeTyped, PTL

\* In every tree of buses, what a living bus means by a name changes only when a bus is
\* destroyed or a name is registered that the search came by and did not find
\* (msgs.js:178-208, 223).
THEOREM MeaningIsKept == Spec => NamesKeepMeaning
<1> DEFINE Stays ==
             \A b \in Live, n \in Name :
               resolveChannel(b, n) \in Channel /\ resolveChannel(b, n)' # resolveChannel(b, n) =>
                 \/ \E d \in Live : life'[d] = "destroyed"
                 \/ \E t \in Trail(b, n) : ~Has(t[1], t[2]) /\ Has(t[1], t[2])'
<1>1. TypeOK /\ TypeOK' /\ [Next]_vars => [Stays]_vars
  <2>1. TypeOK /\ TypeOK' /\ Next => Stays
    BY MeaningStays
  <2>2. QED
    BY <2>1
<1>2. QED
  BY <1>1, TreeTyped, PTL DEF Spec, NamesKeepMeaning

\* The inductive invariant of the names: aliases have what they were given to, and the
\* names make no circles, whatever may yet be exported for the names that are missing
\* (msgs.js:216-227, 254-261).
THEOREM NamesLeadSomewhere == Spec => []Leads
<1>1. TypeOK /\ Leads /\ [Next]_vars => Leads'
  BY StepLeads
<1>2. QED
  BY <1>1, InitLeads, TreeTyped, PTL DEF Spec

\* In every tree of buses, a search for a channel goes on with undefined, or never ends,
\* only if it came by an export of a missing name or of the name of a handler, or by a
\* name given to what was found under this very name further up; and all other searches
\* end within the bound of the model (msgs.js:178-227, 254-261).
THEOREM LookupsEnd == Spec => []LookupsFailForACause
  BY FailuresHaveCauses, NamesLeadSomewhere, TreeTyped, PTL
=============================================================================
