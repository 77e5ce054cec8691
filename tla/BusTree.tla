------------------------------- MODULE BusTree -------------------------------
(***************************************************************************)
(* The names of a tree of buses (msgs.js: bus, alias, exportChannel,       *)
(* resolveChannel, resolveHandler, destroy), the contexts of wire.js that  *)
(* make and destroy buses (wire.js), and the outbound adapters of streams  *)
(* and sockets, which subscribe by name and, when the stream closes,       *)
(* unsubscribe by name (adapters/stream.js, adapters/webSocket.js).        *)
(*                                                                         *)
(* A component is a channel, an adapter, a name for another component, or  *)
(* a Ref to what another bus calls by a name.  What travels through the    *)
(* channels is the subject of MessageBus.                                  *)
(***************************************************************************)
EXTENDS Naturals, FiniteSets

CONSTANTS
  Bus, Root,
  Parent,    \* Parent[b]: the bus that b is made by
  Name,
  Channel,   \* channel objects
  Adapter,   \* outbound adapters
  MaxSteps,  \* bound: how many calls and events there are
  None

\* Whoever is made under a bus that was made is in the tree.
ASSUME TreeAssumption ==
  /\ Root \in Bus /\ Parent \in [Bus \ {Root} -> Bus]
  /\ IsFiniteSet(Bus) /\ IsFiniteSet(Name)
  /\ \A S \in SUBSET Bus :
       Root \in S /\ (\A b \in Bus \ {Root} : Parent[b] \in S => b \in S) => S = Bus
ASSUME BoundAssumption == MaxSteps \in Nat

Object == Channel \cup Adapter
Ref == [bus : Bus, target : Name \cup Channel]
Input == [bus : Bus, input : Name \cup Channel]

\* Channels, adapters, names and references can be told apart (isChannel, isRef), and
\* what a search ends with where nothing is found is none of these.
ASSUME KindAssumption ==
  /\ Channel \cap Adapter = {} /\ Object \cap (Name \cup Ref) = {} /\ Name \cap Ref = {}
  /\ None \notin Object \cup Name \cup Ref \cup Input \cup Bus
  /\ {"endless", "throws", "undefined"} \cap Object = {}

VARIABLES
  life,        \* life[b]: "none", "waiting" (the context of wire.js that will own it
               \* has found the parent), "live" or "destroyed"
  components,  \* components[b][n]: what b has under the name n, or None
  home,        \* home[c]: the bus that made channel c, or None
  subscribed,  \* subscribed[c]: the adapters subscribed to c
  gone,        \* the channels that were destroyed: they no longer take subscribers
  adapted,     \* adapted[a]: the bus that made a and the name of its input
  wired,       \* the adapters made for components of wire.js
  closed,      \* the adapters whose close listener has run
  steps

vars == <<life, components, home, subscribed, gone, adapted, wired, closed, steps>>
-----------------------------------------------------------------------------
(* Names. *)

\* One step of the search for what bus b calls x: its own component, or else the
\* search of the parent.  ref: the result is handed to a bus through a Ref.
At(b, x, ref) == [bus |-> b, x |-> x, ref |-> ref]

Has(b, x) == x \in Name /\ components[b][x] # None

Follow(at) ==
  IF ~Has(at.bus, at.x) THEN At(Parent[at.bus], at.x, at.ref)
  ELSE LET component == components[at.bus][at.x] IN
         IF component \in Ref THEN At(component.bus, component.target, TRUE)
                              ELSE At(at.bus, component, at.ref)

\* Nothing is above the root.
Lost(at) == ~Has(at.bus, at.x) /\ at.bus = Root

Place == [bus : Bus, x : Name \cup Object, ref : BOOLEAN]
Longest == 3 * Cardinality(Bus) * (Cardinality(Name) + 1)

\* The search for an object of a kind.  Where a Ref gave nothing, resolveChannel
\* goes on with undefined and throws; a search that comes back to where it was
\* never ends.
Search(b, x, kind) ==
  LET search[k \in 0..Longest] == [at \in Place |->
        IF at.x \in kind THEN at.x
        ELSE IF k = 0 THEN "endless"
        ELSE IF Lost(at) THEN IF at.ref THEN "throws" ELSE "undefined"
        ELSE search[k - 1][Follow(at)]]
  IN search[Longest][At(b, x, FALSE)]

resolveChannel(b, x) == Search(b, x, Channel)
resolveHandler(b, x) == Search(b, x, Adapter)

Resolves(b, x) ==
  \/ resolveChannel(b, x) \in Channel
  \/ resolveChannel(b, x) = "undefined" /\ resolveHandler(b, x) \in Adapter
-----------------------------------------------------------------------------
Init ==
  /\ life = [b \in Bus |-> IF b = Root THEN "live" ELSE "none"]
  /\ components = [b \in Bus |-> [n \in Name |-> None]]
  /\ home = [c \in Channel |-> None]
  /\ subscribed = [c \in Channel |-> {}]
  /\ gone = {} /\ adapted = [a \in Adapter |-> None] /\ wired = {} /\ closed = {}
  /\ steps = 0

Counted == steps < MaxSteps /\ steps' = steps + 1
Set(b, n, component) == components' = [components EXCEPT ![b][n] = component]

\* bus()
NewBus(b) ==
  /\ Counted /\ life[b] = "none" /\ life[Parent[b]] = "live"
  /\ life' = [life EXCEPT ![b] = "live"]
  /\ UNCHANGED <<components, home, subscribed, gone, adapted, wired, closed>>

\* A context of wire.js starts: the bus of its parent context is found,
FindParent(b) ==
  /\ Counted /\ life[b] = "none" /\ life[Parent[b]] = "live"
  /\ life' = [life EXCEPT ![b] = "waiting"]
  /\ UNCHANGED <<components, home, subscribed, gone, adapted, wired, closed>>

\* and later, whatever became of that bus, extended.
Initialize(b) ==
  /\ Counted /\ life[b] = "waiting"
  /\ life' = [life EXCEPT ![b] = "live"]
  /\ UNCHANGED <<components, home, subscribed, gone, adapted, wired, closed>>

\* channel(name): the channel is made and registered.
NewChannel(b, n, c) ==
  /\ Counted /\ life[b] = "live" /\ home[c] = None /\ ~Has(b, n)
  /\ home' = [home EXCEPT ![c] = b] /\ Set(b, n, c)
  /\ UNCHANGED <<life, subscribed, gone, adapted, wired, closed>>

\* Mutant: a name may be given to what is not there.
MutantAliasAnything(b, n, x) ==
  /\ Counted /\ life[b] = "live" /\ ~Has(b, n)
  /\ Set(b, n, x)
  /\ UNCHANGED <<life, home, subscribed, gone, adapted, wired, closed>>

\* Mutant: a name in use is taken over.
MutantAliasAgain(b, n, x) ==
  /\ Counted /\ life[b] = "live"
  /\ x \in Channel => home[x] # None
  /\ x \in Adapter => adapted[x] # None
  /\ Resolves(b, x)
  /\ Set(b, n, x)
  /\ UNCHANGED <<life, home, subscribed, gone, adapted, wired, closed>>

\* alias(name, component): refused for what does not resolve and for names in use.
Alias(b, n, x) ==
  /\ Counted /\ life[b] = "live" /\ ~Has(b, n)
  /\ x \in Channel => home[x] # None
  /\ x \in Adapter => adapted[x] # None
  /\ Resolves(b, x)
  /\ Set(b, n, x)
  /\ UNCHANGED <<life, home, subscribed, gone, adapted, wired, closed>>

\* exportChannel(name, channel): whether it resolves is not asked.
Export(b, n, x) ==
  /\ Counted /\ life[b] = "live" /\ b # Root /\ ~Has(Parent[b], n)
  /\ x \in Channel => home[x] # None
  /\ Set(Parent[b], n, [bus |-> b, target |-> x])
  /\ UNCHANGED <<life, home, subscribed, gone, adapted, wired, closed>>

\* b and the buses made by it, and so on.
Ancestors[b \in Bus] == {b} \cup IF b = Root THEN {} ELSE Ancestors[Parent[b]]
Below(b) == {d \in Bus : b \in Ancestors[d] /\ life[d] \in {"live", "destroyed"}}

\* Mutant: whatever the names lead to is destroyed.
MutantDoomed(b) ==
  {c \in Channel : \E d \in Below(b), n \in Name : Has(d, n) /\ resolveChannel(d, n) = c}

\* The channels among the components of these buses.
Doomed(b) == {c \in Channel : \E d \in Below(b), n \in Name : components[d][n] = c}

\* destroy() of these channels: they lose their subscribers for good.
DestroyChannels(cs) ==
  /\ subscribed' = [c \in Channel |-> IF c \in cs THEN {} ELSE subscribed[c]]
  /\ gone' = gone \cup cs

\* Mutant: the names stay.
MutantKeepsNames(b) ==
  /\ Counted /\ life[b] = "live" /\ b # Root
  /\ life' = [d \in Bus |-> IF d \in Below(b) THEN "destroyed" ELSE life[d]]
  /\ DestroyChannels(Doomed(b))
  /\ UNCHANGED <<components, home, adapted, wired, closed>>

\* Mutant: the buses below are not asked to clean up.
MutantKeepsChildren(b) ==
  /\ Counted /\ life[b] = "live" /\ b # Root
  /\ life' = [d \in Bus |-> IF d \in Below(b) THEN "destroyed" ELSE life[d]]
  /\ components' = [components EXCEPT ![b] = [n \in Name |-> None]]
  /\ DestroyChannels({c \in Channel : \E n \in Name : components[b][n] = c})
  /\ UNCHANGED <<home, adapted, wired, closed>>

\* destroy(), or the shutdown of a context of wire.js: children, then the components
\* that can be destroyed, and all names.
Destroy(b) ==
  /\ Counted /\ life[b] = "live" /\ b # Root
  /\ life' = [d \in Bus |-> IF d \in Below(b) THEN "destroyed" ELSE life[d]]
  /\ components' = [d \in Bus |-> IF d \in Below(b) THEN [n \in Name |-> None]
                                                     ELSE components[d]]
  /\ DestroyChannels(Doomed(b))
  /\ UNCHANGED <<home, adapted, wired, closed>>

\* outboundAdapter(..., {input: x}) of bus b.  Where the input does not resolve, or
\* resolves to a channel that was destroyed, subscribe throws.
Adapt(b, a, x) ==
  /\ Counted /\ adapted[a] = None
  /\ x \in Channel => home[x] # None
  /\ resolveChannel(b, x) \in Channel \ gone
  /\ adapted' = [adapted EXCEPT ![a] = [bus |-> b, input |-> x]]
  /\ subscribed' = [subscribed EXCEPT ![resolveChannel(b, x)] = @ \cup {a}]
  /\ UNCHANGED <<life, components, home, gone, closed>>

\* An outbound adapter of a stream or a socket is made; if that throws, nothing
\* listens to the stream.
AdaptStream(b, a, x) == life[b] = "live" /\ Adapt(b, a, x) /\ UNCHANGED wired

\* The subscribe facet of wire.js does it when the function of the component is
\* there, which may be after the shutdown of the context.
Connect(b, a, n) ==
  /\ life[b] \in {"live", "destroyed"} /\ b # Root
  /\ Adapt(b, a, n) /\ wired' = wired \cup {a}

\* The stream of an adapter closes: it is unsubscribed from what its input resolves to
\* by then; if that is nothing, or was destroyed, the listener throws.
Close(a) ==
  /\ Counted /\ adapted[a] # None /\ a \notin closed \cup wired
  /\ closed' = closed \cup {a}
  /\ LET c == resolveChannel(adapted[a].bus, adapted[a].input) IN
       subscribed' = [d \in Channel |-> IF d = c THEN subscribed[d] \ {a} ELSE subscribed[d]]
  /\ UNCHANGED <<life, components, home, gone, adapted, wired>>

Next ==
  \/ \E b \in Bus \ {Root} : NewBus(b) \/ FindParent(b) \/ Initialize(b) \/ Destroy(b)
  \/ \E b \in Bus, n \in Name :
       \/ \E c \in Channel : NewChannel(b, n, c)
       \/ \E x \in Name \cup Object : Alias(b, n, x)
       \/ \E x \in Name \cup Channel : Export(b, n, x)
  \/ \E a \in Adapter :
       \/ \E b \in Bus, x \in Name \cup Channel : AdaptStream(b, a, x)
       \/ \E b \in Bus, n \in Name : Connect(b, a, n)
       \/ Close(a)

Spec == Init /\ [][Next]_vars
-----------------------------------------------------------------------------
(* Properties. *)

Live == {b \in Bus : life[b] = "live"}

\* The values the variables may take.  A destroyed bus has no names but those exported
\* to it later by a bus made under it; a channel that is gone has no subscribers.
TypeOK ==
  /\ life \in [Bus -> {"none", "waiting", "live", "destroyed"}]
  /\ components \in [Bus -> [Name -> Object \cup Name \cup Ref \cup {None}]]
  /\ \A b \in Bus \ Live, n \in Name :
       Has(b, n) => life[b] = "destroyed" /\ components[b][n] \in Ref
  /\ home \in [Channel -> Bus \cup {None}] /\ gone \subseteq Channel
  /\ subscribed \in [Channel -> SUBSET {a \in Adapter : adapted[a] # None}]
  /\ \A c \in gone : subscribed[c] = {}
  /\ adapted \in [Adapter -> Input \cup {None}]
  /\ wired \subseteq Adapter /\ closed \subseteq Adapter \ wired
  /\ steps \in 0..MaxSteps

\* The places that the search for x in b comes by.
Trail(b, x) ==
  LET trail[k \in 0..Longest] == [at \in Place |->
        {<<at.bus, at.x>>} \cup IF at.x \in Channel \/ k = 0 \/ Lost(at) THEN {}
                                ELSE trail[k - 1][Follow(at)]]
  IN trail[Longest][At(b, x, FALSE)]

Shadows(b, n) == Has(b, n) /\ \E d \in Ancestors[b] \ {b} : Has(d, n)
Dangling(component) ==
  component \in Ref /\ component.target \in Name /\ ~Has(component.bus, component.target)

\* A search never comes back to where it was, and never goes on with undefined, but for
\* three causes: an export of a name that its bus does not have, an export of the name
\* of a handler, which resolveChannel does not find, and a name given to what was found
\* under this very name further up.  The check of alias rules out all others, in any
\* order of registrations, exports and destructions (msgs.js:178-227, 254-261).
LookupsFailForACause ==
  \A b \in Live, n \in Name :
    LET found == resolveChannel(b, n) IN
      found \in {"endless", "throws"} =>
        \E t \in Trail(b, n) :
          \/ t[2] \in Adapter /\ found = "throws"
          \/ Has(t[1], t[2]) /\ (Shadows(t[1], t[2]) \/ Dangling(components[t[1]][t[2]]))

\* No name of a living bus leads to a channel of a destroyed one, unless that channel
\* object itself is registered with a bus that lives, or was exported
\* (msgs.js:254-261, 267-280).
NoNamesOfTheDead ==
  \A b \in Live, n \in Name :
    LET c == resolveChannel(b, n) IN
      c \in Channel /\ life[home[c]] = "destroyed" =>
        \E d \in Bus, m \in Name :
          \/ d \in Live /\ components[d][m] = c
          \/ components[d][m] \in Ref /\ components[d][m].target = c

\* What a living bus means by a name changes only when a bus is destroyed or a name
\* is registered that the search came by and did not find (msgs.js:178-208, 223).
NamesKeepMeaning ==
  [][\A b \in Live, n \in Name :
       resolveChannel(b, n) \in Channel /\ resolveChannel(b, n)' # resolveChannel(b, n) =>
         \/ \E d \in Live : life'[d] = "destroyed"
         \/ \E t \in Trail(b, n) : ~Has(t[1], t[2]) /\ Has(t[1], t[2])']_vars

\* A subscriber leaves a channel only when its stream closes or a bus is destroyed that
\* has this channel object among its components; a channel that it merely has a name
\* for, or that it exported, keeps its subscribers (msgs.js:271-279, stream.js:41-43).
NobodyIsCutOff ==
  [][\A c \in Channel : \A a \in subscribed[c] \ subscribed'[c] :
       \/ a \in closed' \ closed
       \/ \E b \in Live, n \in Name : life'[b] = "destroyed" /\ components[b][n] = c]_vars
=============================================================================
