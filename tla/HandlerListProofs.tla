------------------------- MODULE HandlerListProofs -------------------------
(***************************************************************************)
(* Facts about sequences that the proofs about several components need:    *)
(* stacks, the lists of HandlerList, and queues.                           *)
(***************************************************************************)
EXTENDS HandlerList, SequenceTheorems, TLAPS

-----------------------------------------------------------------------------
(* Sequences: the three ways a step changes the stack. *)

\* A call: the caller is replaced by "b" and "a" is put above it.
LEMMA PushFacts ==
  ASSUME NEW S, NEW q \in Seq(S), q # <<>>, NEW a \in S, NEW b \in S
  PROVE  LET p == <<a, b>> \o Tail(q) IN
         /\ p \in Seq(S)
         /\ Len(p) = Len(q) + 1
         /\ p[1] = a /\ p[2] = b
         /\ \A i \in 3..Len(p) : p[i] = q[i-1]
<1>1. Tail(q) \in Seq(S) /\ Len(Tail(q)) = Len(q) - 1
      /\ \A i \in 1..Len(Tail(q)) : Tail(q)[i] = q[i+1]
  BY HeadTailProperties
<1>2. <<a, b>> \in Seq(S) /\ Len(<<a, b>>) = 2
  OBVIOUS
<1>3. /\ <<a, b>> \o Tail(q) \in Seq(S)
      /\ Len(<<a, b>> \o Tail(q)) = 2 + Len(Tail(q))
      /\ \A i \in 1..Len(<<a, b>> \o Tail(q)) :
           (<<a, b>> \o Tail(q))[i] = IF i <= 2 THEN <<a, b>>[i] ELSE Tail(q)[i - 2]
  BY <1>1, <1>2, ConcatProperties
<1>4. Len(q) \in Nat /\ Len(q) > 0
  BY LenProperties, EmptySeq
<1>5. \A i \in 3..Len(<<a, b>> \o Tail(q)) :
        i - 2 \in 1..Len(Tail(q)) /\ (i - 2) + 1 = i - 1 /\ ~(i <= 2)
  BY <1>1, <1>3, <1>4
<1>6. QED
  BY <1>1, <1>3, <1>4, <1>5

\* A step within the running activation: its frame becomes "b".
LEMMA GotoFacts ==
  ASSUME NEW S, NEW q \in Seq(S), q # <<>>, NEW b \in S
  PROVE  LET p == <<b>> \o Tail(q) IN
         /\ p \in Seq(S)
         /\ Len(p) = Len(q)
         /\ p[1] = b
         /\ \A i \in 2..Len(p) : p[i] = q[i]
<1>1. Tail(q) \in Seq(S) /\ Len(Tail(q)) = Len(q) - 1
      /\ \A i \in 1..Len(Tail(q)) : Tail(q)[i] = q[i+1]
  BY HeadTailProperties
<1>2. <<b>> \in Seq(S) /\ Len(<<b>>) = 1
  OBVIOUS
<1>3. /\ <<b>> \o Tail(q) \in Seq(S)
      /\ Len(<<b>> \o Tail(q)) = 1 + Len(Tail(q))
      /\ \A i \in 1..Len(<<b>> \o Tail(q)) :
           (<<b>> \o Tail(q))[i] = IF i <= 1 THEN <<b>>[i] ELSE Tail(q)[i - 1]
  BY <1>1, <1>2, ConcatProperties
<1>4. Len(q) \in Nat /\ Len(q) > 0
  BY LenProperties, EmptySeq
<1>5. \A i \in 2..Len(<<b>> \o Tail(q)) :
        i - 1 \in 1..Len(Tail(q)) /\ (i - 1) + 1 = i /\ ~(i <= 1)
  BY <1>1, <1>3, <1>4
<1>6. QED
  BY <1>1, <1>3, <1>4, <1>5

\* A return or a throw: the frame is gone.
LEMMA PopFacts ==
  ASSUME NEW S, NEW q \in Seq(S), q # <<>>
  PROVE  /\ Tail(q) \in Seq(S)
         /\ Len(Tail(q)) = Len(q) - 1
         /\ \A i \in 1..Len(Tail(q)) : Tail(q)[i] = q[i+1]
         /\ Head(q) = q[1] /\ Head(q) \in S
  BY HeadTailProperties

\* A call from outside: "a" is put on the stack.
LEMMA EnterFacts ==
  ASSUME NEW S, NEW q \in Seq(S), NEW a \in S
  PROVE  LET p == <<a>> \o q IN
         /\ p \in Seq(S)
         /\ Len(p) = Len(q) + 1
         /\ p[1] = a
         /\ \A i \in 2..Len(p) : p[i] = q[i-1]
<1>1. <<a>> \in Seq(S) /\ Len(<<a>>) = 1 /\ <<a>>[1] = a
  OBVIOUS
<1>2. /\ <<a>> \o q \in Seq(S)
      /\ Len(<<a>> \o q) = 1 + Len(q)
      /\ \A i \in 1..Len(<<a>> \o q) :
           (<<a>> \o q)[i] = IF i <= 1 THEN <<a>>[i] ELSE q[i - 1]
  BY <1>1, ConcatProperties
<1>3. Len(q) \in Nat
  BY LenProperties
<1>4. QED
  BY <1>1, <1>2, <1>3

-----------------------------------------------------------------------------
(* Queues: what is in them when something joins or leaves. *)

LEMMA AppendMembers ==
  ASSUME NEW S, NEW q \in Seq(S), NEW x \in S
  PROVE  /\ Append(q, x) \in Seq(S)
         /\ Append(q, x) # <<>>
         /\ Len(Append(q, x)) = Len(q) + 1
         /\ \A i \in 1..Len(q) : Append(q, x)[i] = q[i]
         /\ Append(q, x)[Len(q) + 1] = x
         /\ Members(Append(q, x)) = Members(q) \cup {x}
         /\ Distinct(q) /\ x \notin Members(q) => Distinct(Append(q, x))
<1>1. /\ Append(q, x) \in Seq(S) /\ Len(Append(q, x)) = Len(q) + 1
      /\ Append(q, x)[Len(q) + 1] = x
      /\ \A i \in 1..Len(q) : Append(q, x)[i] = q[i]
      /\ Append(q, x) # <<>>
  BY AppendProperties
<1>2. Len(q) \in Nat
  BY LenProperties
<1>3. /\ \A i \in 1..Len(q) + 1 : i \in 1..Len(q) \/ i = Len(q) + 1
      /\ \A i \in 1..Len(q) : i \in 1..Len(q) + 1
      /\ Len(q) + 1 \in 1..Len(q) + 1
  BY <1>2
<1>4. Members(Append(q, x)) = Members(q) \cup {x}
  BY <1>1, <1>3 DEF Members
<1>5. Distinct(q) /\ x \notin Members(q) => Distinct(Append(q, x))
  BY <1>1, <1>3 DEF Members, Distinct
<1>6. QED
  BY <1>1, <1>4, <1>5

LEMMA TailMembers ==
  ASSUME NEW S, NEW q \in Seq(S), q # <<>>
  PROVE  /\ Head(q) \in Members(q) /\ Head(q) \in S /\ Head(q) = q[1]
         /\ Tail(q) \in Seq(S)
         /\ Len(q) \in Nat /\ Len(q) > 0 /\ Len(Tail(q)) = Len(q) - 1
         /\ \A i \in 1..Len(Tail(q)) : Tail(q)[i] = q[i + 1]
         /\ Members(q) = Members(Tail(q)) \cup {Head(q)}
<1>1. /\ Tail(q) \in Seq(S) /\ Len(Tail(q)) = Len(q) - 1
      /\ \A i \in 1..Len(Tail(q)) : Tail(q)[i] = q[i + 1]
      /\ Head(q) = q[1] /\ Head(q) \in S
  BY PopFacts
<1>2. Len(q) \in Nat /\ Len(q) > 0
  BY LenProperties, EmptySeq
<1>3. /\ \A i \in 1..Len(q) : i = 1 \/ (i - 1 \in 1..Len(q) - 1 /\ i = (i - 1) + 1)
      /\ \A i \in 1..Len(q) - 1 : i + 1 \in 1..Len(q)
      /\ 1 \in 1..Len(q)
  BY <1>2
<1>4. ASSUME NEW x \in Members(q) PROVE x \in Members(Tail(q)) \cup {Head(q)}
  <2>1. PICK i \in 1..Len(q) : x = q[i]
    BY <1>4 DEF Members
  <2>2. CASE i = 1
    BY <1>1, <2>1, <2>2
  <2>3. CASE i # 1
    <3>1. i - 1 \in 1..Len(Tail(q)) /\ Tail(q)[i - 1] = q[(i - 1) + 1] /\ (i - 1) + 1 = i
      BY <1>1, <1>3, <2>3
    <3>2. QED
      BY <2>1, <3>1 DEF Members
  <2>4. QED
    BY <2>2, <2>3
<1>5. Head(q) \in Members(q)
  BY <1>1, <1>3 DEF Members
<1>6. ASSUME NEW x \in Members(Tail(q)) PROVE x \in Members(q)
  BY <1>1, <1>3, <1>6 DEF Members
<1>7. QED
  BY <1>1, <1>2, <1>4, <1>5, <1>6

LEMMA EmptyMembers ==
  /\ Members(<<>>) = {} /\ Distinct(<<>>)
  /\ \A S : \A q \in Seq(S) : Members(q) = {} => q = <<>>
<1>1. Members(<<>>) = {} /\ Distinct(<<>>)
  BY DEF Members, Distinct
<1>2. ASSUME NEW S, NEW q \in Seq(S), q # <<>>
      PROVE  Members(q) # {}
  BY <1>2, TailMembers
<1>3. QED
  BY <1>1, <1>2

-----------------------------------------------------------------------------
(* Lists of handlers: what subscribe and unsubscribe make of them. *)

\* Taking the first element off a list without duplicates.
LEMMA TailDistinct ==
  ASSUME NEW S, NEW q \in Seq(S), q # <<>>, Distinct(q)
  PROVE  Distinct(Tail(q)) /\ Head(q) \notin Members(Tail(q))
<1>1. /\ Len(Tail(q)) = Len(q) - 1 /\ Head(q) = q[1]
      /\ \A i \in 1..Len(Tail(q)) : Tail(q)[i] = q[i+1]
  BY PopFacts
<1>2. Len(q) \in Nat /\ Len(q) > 0
  BY LenProperties, EmptySeq
<1>3. \A i \in 1..Len(Tail(q)) : i + 1 \in 1..Len(q) /\ i + 1 # 1
  BY <1>1, <1>2
<1>4. \A i, j \in 1..Len(Tail(q)) : i + 1 = j + 1 => i = j
  BY <1>1, <1>2
<1>5. 1 \in 1..Len(q)
  BY <1>2
<1>6. QED
  BY <1>1, <1>3, <1>4, <1>5 DEF Distinct, Members

\* subscribe() keeps a list of handlers without duplicates.
LEMMA AddFacts ==
  ASSUME NEW S, NEW q \in Seq(S), NEW h \in S
  PROVE  /\ Add(q, h) \in Seq(S) \ {<<>>}
         /\ Members(Add(q, h)) = Members(q) \cup {h}
         /\ Distinct(q) => Distinct(Add(q, h))
<1>1. CASE h \in Members(q)
  BY <1>1, EmptyMembers DEF Add
<1>2. CASE h \notin Members(q)
  BY <1>2, AppendMembers DEF Add
<1>3. QED
  BY <1>1, <1>2

\* unsubscribe() removes one position of the list.
LEMMA WithoutFacts ==
  ASSUME NEW S, NEW q \in Seq(S), NEW h
  PROVE  /\ Without(q, h) \in Seq(S)
         /\ Distinct(q) => Distinct(Without(q, h))
         /\ Members(Without(q, h)) \subseteq Members(q)
         /\ Members(q) \ {h} \subseteq Members(Without(q, h))
         /\ Distinct(q) => h \notin Members(Without(q, h))
<1>1. CASE h \notin Members(q)
  BY <1>1 DEF Without
<1>2. CASE h \in Members(q)
  <2> DEFINE k == CHOOSE i \in 1..Len(q) : q[i] = h
             a == SubSeq(q, 1, k - 1)
             b == SubSeq(q, k + 1, Len(q))
  <2>1. k \in 1..Len(q) /\ Len(q) \in Nat
    BY <1>2, LenProperties DEF Members
  <2>0. q[k] = h
    BY <1>2 DEF Members
  <2>2. Without(q, h) = a \o b
    BY <1>2 DEF Without
  <2> HIDE DEF k
  <2>3. \A i \in 1..Len(q) : q[i] \in S
    BY ElementOfSeq
  <2>4. /\ a \in Seq(S) /\ Len(a) = k - 1
        /\ \A i \in 1..k - 1 : a[i] = q[i]
    <3>1. \A i \in 1..k - 1 : q[i] \in S
      BY <2>1, <2>3
    <3>2. /\ a \in Seq(S) /\ Len(a) = IF 1 <= k - 1 THEN k - 1 - 1 + 1 ELSE 0
          /\ \A i \in 1..k - 1 - 1 + 1 : a[i] = q[1 + i - 1]
      BY <2>1, <3>1, SubSeqProperties
    <3>3. QED
      BY <2>1, <3>2
  <2>5. /\ b \in Seq(S) /\ Len(b) = Len(q) - k
        /\ \A i \in 1..Len(q) - k : b[i] = q[k + i]
    <3>1. \A i \in k + 1..Len(q) : q[i] \in S
      BY <2>1, <2>3
    <3>2. /\ b \in Seq(S)
          /\ Len(b) = IF k + 1 <= Len(q) THEN Len(q) - (k + 1) + 1 ELSE 0
          /\ \A i \in 1..Len(q) - (k + 1) + 1 : b[i] = q[k + 1 + i - 1]
      BY <2>1, <3>1, SubSeqProperties
    <3>3. QED
      BY <2>1, <3>2
  <2> HIDE DEF a, b
  <2>6. /\ a \o b \in Seq(S) /\ Len(a \o b) = Len(q) - 1
        /\ \A i \in 1..Len(q) - 1 :
             (a \o b)[i] = IF i <= k - 1 THEN q[i] ELSE q[i + 1]
    <3>1. /\ a \o b \in Seq(S) /\ Len(a \o b) = k - 1 + (Len(q) - k)
          /\ \A i \in 1..k - 1 + (Len(q) - k) :
               (a \o b)[i] = IF i <= k - 1 THEN a[i] ELSE b[i - (k - 1)]
      <4>1. /\ a \o b \in Seq(S) /\ Len(a \o b) = Len(a) + Len(b)
            /\ \A i \in 1..Len(a) + Len(b) :
                 (a \o b)[i] = IF i <= Len(a) THEN a[i] ELSE b[i - Len(a)]
        BY <2>4, <2>5, ConcatProperties
      <4>2. Len(a) = k - 1 /\ Len(b) = Len(q) - k
        BY <2>4, <2>5
      <4>3. QED
        BY <4>1, <4>2
    <3>2. \A i \in 1..Len(q) - 1 : i <= k - 1 => i \in 1..k - 1
      BY <2>1
    <3>3. \A i \in 1..Len(q) - 1 : ~(i <= k - 1) =>
            i - (k - 1) \in 1..Len(q) - k /\ k + (i - (k - 1)) = i + 1
      BY <2>1
    <3>4. k - 1 + (Len(q) - k) = Len(q) - 1
      BY <2>1
    <3>5. QED
      BY <2>4, <2>5, <3>1, <3>2, <3>3, <3>4
  <2>7. \A i, j \in 1..Len(q) - 1 :
          LET f(x) == IF x <= k - 1 THEN x ELSE x + 1
          IN f(i) \in 1..Len(q) /\ (f(i) = f(j) => i = j)
    BY <2>1
  <2>8. Distinct(q) => Distinct(a \o b)
    <3> SUFFICES ASSUME Distinct(q),
                        NEW i \in 1..Len(q) - 1, NEW j \in 1..Len(q) - 1,
                        (a \o b)[i] = (a \o b)[j]
                 PROVE  i = j
      BY <2>6 DEF Distinct
    <3> DEFINE f(x) == IF x <= k - 1 THEN x ELSE x + 1
    <3>1. f(i) \in 1..Len(q) /\ f(j) \in 1..Len(q) /\ (f(i) = f(j) => i = j)
      BY <2>7
    <3>2. q[f(i)] = q[f(j)]
      BY <2>6
    <3>3. QED
      BY <3>1, <3>2 DEF Distinct
  <2>9. ASSUME NEW x \in Members(a \o b)
        PROVE  x \in Members(q) /\ (Distinct(q) => x # h)
    <3> DEFINE f(y) == IF y <= k - 1 THEN y ELSE y + 1
    <3>1. PICK i \in 1..Len(q) - 1 : x = (a \o b)[i]
      BY <2>6, <2>9 DEF Members
    <3>2. f(i) \in 1..Len(q) /\ f(i) # k /\ x = q[f(i)]
      BY <2>1, <2>6, <3>1
    <3>3. QED
      BY <2>0, <2>1, <3>2 DEF Members, Distinct
  <2>10. ASSUME NEW x \in Members(q) \ {h}
         PROVE  x \in Members(a \o b)
    <3>1. PICK i \in 1..Len(q) : x = q[i] /\ i # k
      BY <2>0, <2>10 DEF Members
    <3> DEFINE j == IF i <= k - 1 THEN i ELSE i - 1
    <3>2. j \in 1..Len(q) - 1 /\ i = IF j <= k - 1 THEN j ELSE j + 1
      BY <2>1, <3>1
    <3>3. (a \o b)[j] = q[i]
      BY <2>6, <3>2
    <3>4. QED
      BY <2>6, <3>1, <3>2, <3>3 DEF Members
  <2>11. QED
    BY <2>2, <2>6, <2>8, <2>9, <2>10
<1>3. QED
  BY <1>1, <1>2
=============================================================================
