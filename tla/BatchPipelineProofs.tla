------------------------- MODULE BatchPipelineProofs ------------------------
(***************************************************************************)
(* Proofs about BatchingAggregator, for every batch size, with and without *)
(* a timeout and with outputs that fail, when receivers of a chunk do not  *)
(* send to the aggregator before they return; then about BatchPipeline,    *)
(* for every size of the queue too: what was proved of the aggregator      *)
(* holds inside the pipeline, each chunk it released is at one place, and  *)
(* the pipeline is a first in first out link.                              *)
(***************************************************************************)
EXTENDS BatchPipeline, FiniteSetTheorems, WellFoundedInduction, TLAPS
-----------------------------------------------------------------------------
(* The aggregator.  Only its own assumptions are used, and ~Reentrant.      *)

\* A timer that the variable timeout names, running or over, was started for a
\* payload of the current batch.
TimeoutHasPayload == timeout # 0 => arrays[batch] # <<>>

\* Between two messages there is room for one more in the batch.
RoomForOne ==
  BatchSize > 0 /\ ~failed /\ depth = 0 => Len(arrays[batch]) < BatchSize

IInv ==
  /\ TypeOK /\ InOrder /\ AbsoluteSize /\ TimerOfThisBatch
  /\ TimeoutHasPayload /\ RoomForOne

LEMMA InitInv == Init => IInv
<1> SUFFICES ASSUME Init PROVE IInv
  OBVIOUS
<1>1. batch = 1 /\ arrays[1] = <<>> /\ Len(arrays[1]) = 0
  BY DEF Init, batch
<1>2. arrays \in Seq(Seq(1..MaxReceived)) /\ arrays # <<>>
  <2>1. <<>> \in Seq(1..MaxReceived)
    OBVIOUS
  <2>2. ASSUME NEW S, NEW x \in S PROVE <<x>> \in Seq(S) /\ <<x>> # <<>>
    OBVIOUS
  <2> QED BY <2>1, <2>2 DEF Init
<1>3. TypeOK
  <2>1. timeout \in 0..batch /\ timers \subseteq 1..batch /\ depth \in Nat
        /\ released \in Seq(1..batch) /\ received \in 0..MaxReceived
    BY <1>1, BoundAssumption DEF Init
  <2>2. failed \in BOOLEAN
    BY Zenon DEF Init
  <2> QED BY <1>2, <2>1, <2>2, Zenon DEF TypeOK
<1>4. InOrder
  BY <1>1 DEF InOrder, ReleasedOnce, Consecutive, UpToDate, Init
<1>5. AbsoluteSize /\ RoomForOne
  BY <1>1, OptionAssumption DEF AbsoluteSize, RoomForOne
<1>6. TimerOfThisBatch /\ TimeoutHasPayload
  BY <1>1 DEF TimerOfThisBatch, TimeoutHasPayload, Init
<1> QED
  BY <1>3, <1>4, <1>5, <1>6 DEF IInv

\* What receiving does to the arrays: the current one grows by the next number.
LEMMA ReceiveFacts ==
  ASSUME IInv, Receive, ~Reentrant
  PROVE  /\ depth = 0 /\ received' = received + 1 /\ received' \in 1..MaxReceived
         /\ batch' = batch /\ batch \in Nat \ {0}
         /\ arrays' \in Seq(Seq(1..MaxReceived)) /\ arrays' # <<>>
         /\ \A i \in 1..batch : i # batch => arrays'[i] = arrays[i]
         /\ arrays'[batch] = Push /\ Push # <<>>
         /\ Len(Push) = Len(arrays[batch]) + 1
         /\ Push[Len(Push)] = received'
         /\ \A k \in 1..Len(arrays[batch]) : Push[k] = arrays[batch][k]
         /\ Len(arrays[batch]) \in Nat
<1>1. depth = 0
  <2>1. depth \in {0, 1}
    BY DEF IInv, InOrder, ReleasedOnce
  <2>2. ~(depth > 0)
    BY Zenon DEF Receive
  <2> QED BY <2>1, <2>2
<1>2. received' = received + 1 /\ received' \in 1..MaxReceived
  BY BoundAssumption DEF IInv, TypeOK, Receive
<1>3. arrays \in Seq(Seq(1..MaxReceived)) /\ arrays # <<>> /\ batch \in Nat \ {0}
      /\ batch \in DOMAIN arrays
  BY DEF IInv, TypeOK, batch
<1>4. arrays[batch] \in Seq(1..MaxReceived)
  BY <1>3
<1>5. Push \in Seq(1..MaxReceived) /\ Push # <<>> /\ Len(Push) = Len(arrays[batch]) + 1
      /\ Push[Len(Push)] = received'
      /\ \A k \in 1..Len(arrays[batch]) : Push[k] = arrays[batch][k]
      /\ Len(arrays[batch]) \in Nat
  BY <1>2, <1>4 DEF Push
<1>6. arrays' = [arrays EXCEPT ![batch] = Push]
  BY DEF Receive
<1>7. arrays' \in Seq(Seq(1..MaxReceived)) /\ Len(arrays') = Len(arrays)
  BY <1>3, <1>5, <1>6 DEF batch
<1>8. arrays' # <<>> /\ batch' = batch
  BY <1>3, <1>7 DEF batch
<1>9. \A i \in 1..batch : i # batch => arrays'[i] = arrays[i]
  BY <1>3, <1>6 DEF batch
<1>10. arrays'[batch] = Push
  BY <1>3, <1>6
<1> QED
  BY <1>1, <1>2, <1>3, <1>5, <1>7, <1>8, <1>9, <1>10

\* Receiving keeps the count, whatever else the action does.
LEMMA ReceiveCounts ==
  ASSUME IInv, Receive, ~Reentrant
  PROVE  Consecutive' /\ UpToDate'
<1> USE ReceiveFacts
<1>1. Consecutive /\ UpToDate
  BY DEF IInv, InOrder
<1>2. UpToDate'
  BY DEF UpToDate, LastOf
<1>3. ASSUME NEW i \in 1..batch, NEW k \in 1..Len(arrays'[i])
      PROVE  arrays'[i][k] = IF k > 1 THEN arrays'[i][k - 1] + 1
                             ELSE IF i > 1 THEN LastOf(arrays'[i - 1]) + 1 ELSE 1
  <2>1. i > 1 => LastOf(arrays'[i - 1]) = LastOf(arrays[i - 1])
    <3>1. i > 1 => i - 1 \in 1..batch /\ i - 1 # batch
      OBVIOUS
    <3> QED BY <3>1 DEF LastOf
  <2>2. CASE i # batch
    BY <1>1, <2>1, <2>2 DEF Consecutive
  <2>3. CASE i = batch /\ k # Len(Push)
    <3>1. k \in 1..Len(arrays[batch]) /\ (k > 1 => k - 1 \in 1..Len(arrays[batch]))
      BY <2>3
    <3>2. arrays'[i][k] = arrays[batch][k]
          /\ (k > 1 => arrays'[i][k - 1] = arrays[batch][k - 1])
      BY <2>3, <3>1
    <3>3. i \in 1..batch /\ k \in Nat
      BY <3>1
    <3> QED BY <1>1, <2>1, <2>3, <3>1, <3>2, <3>3 DEF Consecutive
  <2>4. CASE i = batch /\ k = Len(Push)
    <3>1. CASE arrays[batch] # <<>>
      <4>1. k - 1 = Len(arrays[batch]) /\ k > 1 /\ k - 1 \in 1..Len(arrays[batch])
        <5>1. Len(arrays[batch]) # 0
          BY <3>1 DEF IInv, TypeOK, batch
        <5> QED BY <2>4, <5>1
      <4>2. received = arrays[batch][k - 1]
        BY <1>1, <3>1, <4>1 DEF UpToDate, LastOf
      <4>3. arrays'[i][k] = received + 1 /\ arrays'[i][k - 1] = received
        BY <2>4, <4>1, <4>2
      <4> QED BY <4>1, <4>3
    <3>2. CASE arrays[batch] = <<>>
      <4>1. k = 1
        BY <2>4, <3>2
      <4>2. received = IF i > 1 THEN LastOf(arrays[i - 1]) ELSE 0
        BY <1>1, <2>4, <3>2 DEF UpToDate
      <4>3. arrays'[i][k] = received + 1 /\ received \in Nat
        BY <2>4 DEF IInv, TypeOK
      <4> QED BY <2>1, <4>1, <4>2, <4>3
    <3> QED BY <3>1, <3>2
  <2> QED BY <2>2, <2>3, <2>4
<1> QED
  BY <1>2, <1>3 DEF Consecutive

LEMMA FillInv == ASSUME IInv, Fill, ~Reentrant PROVE IInv'
<1>1. Receive /\ Full(Push) /\ timeout' = timeout /\ timers' = timers
  BY DEF Fill
<1>2. /\ depth = 0 /\ received' = received + 1 /\ received' \in 1..MaxReceived
      /\ batch' = batch /\ batch \in Nat \ {0}
      /\ arrays' \in Seq(Seq(1..MaxReceived)) /\ arrays' # <<>>
      /\ \A i \in 1..batch : i # batch => arrays'[i] = arrays[i]
      /\ arrays'[batch] = Push /\ Push # <<>>
      /\ Len(Push) = Len(arrays[batch]) + 1
      /\ Len(arrays[batch]) \in Nat
  BY <1>1, ReceiveFacts
<1>3. \/ depth' = 1 /\ released' = Append(released, batch) /\ failed' = failed
      \/ depth' = 0 /\ released' = released /\ failed' = TRUE
  BY <1>2 DEF Fill, Releases, ReleaseThrows
<1>4. TypeOK'
  <2>1. released \in Seq(1..batch) /\ timeout \in 0..batch /\ timers \subseteq 1..batch
        /\ failed \in BOOLEAN
    BY Zenon DEF IInv, TypeOK
  <2>2. released' \in Seq(1..batch) /\ depth' \in Nat
    <3>1. batch \in 1..batch
      BY <1>2
    <3>2. Append(released, batch) \in Seq(1..batch)
      BY <2>1, <3>1
    <3>3. \/ depth' = 1 /\ released' = Append(released, batch)
          \/ depth' = 0 /\ released' = released
      BY <1>3, Zenon
    <3>4. released' \in Seq(1..batch) /\ depth' \in {0, 1}
      BY <2>1, <3>2, <3>3, Zenon
    <3> QED BY <3>4
  <2>3. failed' \in BOOLEAN
    BY <1>3, <2>1, Zenon
  <2>4. received' \in 0..MaxReceived /\ timeout' \in 0..batch'
        /\ timers' \subseteq 1..batch' /\ released' \in Seq(1..batch')
    BY <1>1, <1>2, <2>1, <2>2
  <2> QED BY <1>2, <2>2, <2>3, <2>4, Zenon DEF TypeOK
<1>5. ReleasedOnce'
  <2>1. released \in Seq(1..batch) /\ Len(released) = batch - 1
        /\ \A i \in 1..Len(released) : released[i] = i /\ arrays[i] # <<>>
    BY <1>2 DEF IInv, TypeOK, InOrder, ReleasedOnce
  <2>2. \A i \in 1..Len(released) : arrays'[i] # <<>>
    <3>1. \A i \in 1..Len(released) : i \in 1..batch /\ i # batch
      BY <1>2, <2>1
    <3> QED BY <1>2, <2>1, <3>1
  <2>3. CASE depth' = 1 /\ released' = Append(released, batch)
    <3>1. Len(released') = batch /\ released'[batch] = batch
          /\ \A i \in 1..batch : i # batch => released'[i] = released[i]
      BY <1>2, <2>1, <2>3
    <3> QED BY <1>2, <2>1, <2>2, <2>3, <3>1 DEF ReleasedOnce
  <2>4. CASE depth' = 0 /\ released' = released
    BY <1>2, <2>1, <2>2, <2>4 DEF ReleasedOnce
  <2> QED BY <1>3, <2>3, <2>4
<1>6. InOrder'
  BY <1>1, <1>5, ReceiveCounts DEF InOrder
<1>7. AbsoluteSize' /\ RoomForOne'
  <2>1. ASSUME BatchSize > 0, ~failed' PROVE AbsoluteSize' /\ depth' = 1
    <3>1. ~failed /\ depth' = 1
      BY <1>3, <2>1
    <3>2. Len(arrays[batch]) < BatchSize
      BY <1>2, <2>1, <3>1 DEF IInv, RoomForOne
    <3>3. \A i \in 1..batch : Len(arrays'[i]) <= BatchSize
      BY <1>2, <2>1, <3>1, <3>2, OptionAssumption DEF IInv, AbsoluteSize
    <3> QED BY <1>2, <3>1, <3>3 DEF AbsoluteSize
  <2> QED BY <2>1 DEF AbsoluteSize, RoomForOne
<1>8. TimerOfThisBatch' /\ TimeoutHasPayload'
  <2>1. timers' \subseteq {timeout'} /\ (timeout' # 0 => timeout' = batch')
    BY <1>1, <1>2 DEF IInv, TimerOfThisBatch
  <2>2. depth' = 0 => failed' = TRUE
    BY <1>3
  <2> QED BY <1>2, <2>1, <2>2 DEF TimerOfThisBatch, TimeoutHasPayload
<1> QED
  BY <1>4, <1>6, <1>7, <1>8 DEF IInv

LEMMA CollectInv == ASSUME IInv, Collect, ~Reentrant PROVE IInv'
<1>1. /\ Receive /\ ~Full(Push)
      /\ depth' = depth /\ released' = released /\ failed' = failed
  BY DEF Collect
<1>2. /\ depth = 0 /\ received' = received + 1 /\ received' \in 1..MaxReceived
      /\ batch' = batch /\ batch \in Nat \ {0}
      /\ arrays' \in Seq(Seq(1..MaxReceived)) /\ arrays' # <<>>
      /\ \A i \in 1..batch : i # batch => arrays'[i] = arrays[i]
      /\ arrays'[batch] = Push /\ Push # <<>>
      /\ Len(Push) = Len(arrays[batch]) + 1
      /\ Len(arrays[batch]) \in Nat
  BY <1>1, ReceiveFacts
<1>3. \/ timeout = 0 /\ HasTimeout /\ timeout' = batch /\ timers' = timers \cup {batch}
      \/ ~(timeout = 0 /\ HasTimeout) /\ timeout' = timeout /\ timers' = timers
  BY Zenon DEF Collect
<1>4. TypeOK'
  <2>1. released \in Seq(1..batch) /\ timeout \in 0..batch /\ timers \subseteq 1..batch
        /\ failed \in BOOLEAN
    BY Zenon DEF IInv, TypeOK
  <2>2. timeout' \in 0..batch /\ timers' \subseteq 1..batch
    <3>1. timeout' \in {timeout, batch} /\ timers' \in {timers, timers \cup {batch}}
      BY <1>3, Zenon
    <3> QED BY <1>2, <2>1, <3>1
  <2>3. received' \in 0..MaxReceived /\ depth' \in Nat
    BY <1>1, <1>2
  <2> QED BY <1>1, <1>2, <2>1, <2>2, <2>3, Zenon DEF TypeOK
<1>5. ReleasedOnce'
  <2>1. Len(released) = batch - 1
        /\ \A i \in 1..Len(released) : released[i] = i /\ arrays[i] # <<>>
    BY <1>2 DEF IInv, InOrder, ReleasedOnce
  <2>2. \A i \in 1..Len(released) : i \in 1..batch /\ i # batch
    BY <1>2, <2>1
  <2>3. \A i \in 1..Len(released) : arrays'[i] # <<>>
    BY <1>2, <2>1, <2>2
  <2> QED BY <1>1, <1>2, <2>1, <2>3 DEF ReleasedOnce
<1>6. InOrder'
  BY <1>1, <1>5, ReceiveCounts DEF InOrder
<1>7. AbsoluteSize' /\ RoomForOne'
  <2>1. BatchSize > 0 => Len(Push) < BatchSize
    BY <1>1, <1>2, OptionAssumption DEF Full
  <2>2. ASSUME BatchSize > 0, ~failed PROVE \A i \in 1..batch : Len(arrays'[i]) <= BatchSize
    <3>1. \A i \in 1..batch : Len(arrays[i]) <= BatchSize
      BY <2>2 DEF IInv, AbsoluteSize
    <3>2. Len(arrays'[batch]) <= BatchSize
      BY <1>2, <2>1, <2>2, OptionAssumption
    <3> QED BY <1>2, <3>1, <3>2
  <2> QED BY <1>1, <1>2, <2>1, <2>2 DEF AbsoluteSize, RoomForOne
<1>8. TimerOfThisBatch' /\ TimeoutHasPayload'
  <2>1. /\ timers \subseteq {timeout}
        /\ timeout # 0 => timeout = batch
        /\ HasTimeout /\ ~failed => (arrays[batch] # <<>> <=> timers = {batch})
        /\ timeout # 0 => arrays[batch] # <<>>
    BY <1>2 DEF IInv, TimerOfThisBatch, TimeoutHasPayload
  <2>2. 0 \notin timers
    BY DEF IInv, TypeOK
  <2>3. timers' \subseteq {timeout'} /\ (timeout' # 0 => timeout' = batch)
    BY <1>3, <2>1, <2>2
  <2>4. HasTimeout /\ ~failed => timers' = {batch}
    <3>1. CASE timeout = 0 /\ HasTimeout
      <4>1. timers = {}
        BY <2>1, <2>2, <3>1
      <4> QED BY <1>3, <3>1, <4>1
    <3>2. CASE ~(timeout = 0 /\ HasTimeout)
      BY <1>3, <2>1, <3>2
    <3> QED BY <3>1, <3>2
  <2> QED BY <1>1, <1>2, <2>3, <2>4 DEF TimerOfThisBatch, TimeoutHasPayload
<1> QED
  BY <1>4, <1>6, <1>7, <1>8 DEF IInv

LEMMA TimerFiresInv == ASSUME IInv, TimerFires PROVE IInv'
<1> USE DEF IInv
<1>1. depth = 0 /\ arrays' = arrays /\ timeout' = timeout /\ received' = received
      /\ batch' = batch
  BY DEF TimerFires, batch
<1>2. PICK t \in timers : timers' = timers \ {t}
  BY DEF TimerFires
<1>3. \/ depth' = 1 /\ released' = Append(released, batch) /\ failed' = failed
      \/ depth' = 0 /\ released' = released /\ failed' = TRUE
  BY <1>1 DEF TimerFires, Releases, ReleaseThrows
<1>4. arrays[batch] # <<>> /\ timers' = {} /\ batch \in Nat \ {0}
  <2>1. timers \subseteq {timeout} /\ 0 \notin timers /\ timeout # 0
    BY <1>2 DEF TypeOK, TimerOfThisBatch
  <2>2. batch \in Nat \ {0}
    BY DEF TypeOK, batch
  <2> QED BY <1>2, <2>1, <2>2 DEF TimeoutHasPayload
<1>5. TypeOK'
  <2>1. released \in Seq(1..batch) /\ failed \in BOOLEAN
    BY DEF TypeOK
  <2>2. released' \in Seq(1..batch') /\ depth' \in Nat /\ timers' \subseteq 1..batch'
    <3>1. batch \in 1..batch
      BY <1>4
    <3>2. Append(released, batch) \in Seq(1..batch)
      BY <2>1, <3>1
    <3>3. \/ depth' = 1 /\ released' = Append(released, batch)
          \/ depth' = 0 /\ released' = released
      BY <1>3, Zenon
    <3>4. released' \in Seq(1..batch) /\ depth' \in {0, 1}
      BY <2>1, <3>2, <3>3, Zenon
    <3>5. depth' \in Nat /\ timers' \subseteq 1..batch'
      BY <1>4, <3>4
    <3> QED BY <1>1, <3>4, <3>5, Zenon
  <2>3. failed' \in BOOLEAN
    BY <1>3, <2>1, Zenon
  <2> QED BY <1>1, <2>2, <2>3 DEF TypeOK
<1>6. InOrder'
  <2>1. released \in Seq(1..batch) /\ Len(released) = batch - 1
        /\ \A i \in 1..Len(released) : released[i] = i /\ arrays[i] # <<>>
    BY <1>1, <1>4 DEF TypeOK, InOrder, ReleasedOnce
  <2>2. ReleasedOnce'
    <3>1. CASE depth' = 1 /\ released' = Append(released, batch)
      <4>1. Len(released') = batch /\ released'[batch] = batch
            /\ \A i \in 1..batch : i # batch => released'[i] = released[i]
        BY <1>4, <2>1, <3>1
      <4> QED BY <1>1, <1>4, <2>1, <3>1, <4>1 DEF ReleasedOnce
    <3>2. CASE depth' = 0 /\ released' = released
      BY <1>1, <2>1, <3>2 DEF ReleasedOnce
    <3> QED BY <1>3, <3>1, <3>2
  <2>3. Consecutive' /\ UpToDate'
    BY <1>1 DEF InOrder, Consecutive, UpToDate
  <2> QED BY <2>2, <2>3 DEF InOrder
<1>7. AbsoluteSize' /\ RoomForOne'
  <2>1. ~failed' => ~failed /\ depth' = 1
    BY <1>3
  <2> QED BY <1>1, <2>1 DEF AbsoluteSize, RoomForOne
<1>8. TimerOfThisBatch' /\ TimeoutHasPayload'
  <2>1. depth' = 0 => failed'
    BY <1>3
  <2> QED BY <1>1, <1>4, <2>1 DEF TimerOfThisBatch, TimeoutHasPayload
<1> QED
  BY <1>5, <1>6, <1>7, <1>8

LEMMA ReleaseReturnsInv == ASSUME IInv, ReleaseReturns PROVE IInv'
<1> USE DEF IInv
<1>1. /\ depth' = depth - 1 /\ arrays' = Append(arrays, <<>>)
      /\ timers' = timers \ {timeout} /\ timeout' = 0
      /\ released' = released /\ received' = received /\ failed' = failed
  BY DEF ReleaseReturns
<1>2. depth = 1 /\ depth' = 0
  <2>1. depth \in {0, 1}
    BY DEF InOrder, ReleasedOnce
  <2>2. depth > 0
    BY DEF ReleaseReturns
  <2> QED BY <1>1, <2>1, <2>2
<1>3. arrays \in Seq(Seq(1..MaxReceived)) /\ batch \in Nat \ {0}
  BY DEF TypeOK, batch
<1>4. /\ arrays' \in Seq(Seq(1..MaxReceived)) /\ arrays' # <<>>
      /\ batch' = batch + 1 /\ arrays'[batch'] = <<>>
      /\ \A i \in 1..batch : arrays'[i] = arrays[i]
  <2>1. <<>> \in Seq(1..MaxReceived)
    OBVIOUS
  <2> QED BY <1>1, <1>3, <2>1 DEF batch
<1>5. timers' = {}
  BY <1>1 DEF TimerOfThisBatch
<1>6. TypeOK'
  <2>1. released' \in Seq(1..batch')
    <3>1. released \in Seq(1..batch)
      BY DEF TypeOK
    <3>2. 1..batch \subseteq 1..batch'
      BY <1>3, <1>4
    <3>3. ASSUME NEW S, NEW T, S \subseteq T, NEW q \in Seq(S) PROVE q \in Seq(T)
      BY <3>3
    <3> QED BY <1>1, <3>1, <3>2, <3>3
  <2>2. timeout' \in 0..batch' /\ timers' \subseteq 1..batch' /\ depth' \in Nat
    BY <1>1, <1>2, <1>3, <1>4, <1>5
  <2>3. received' \in 0..MaxReceived /\ failed' \in BOOLEAN
    BY <1>1, Zenon DEF TypeOK
  <2> QED BY <1>4, <2>1, <2>2, <2>3, Zenon DEF TypeOK
<1>7. InOrder'
  <2>1. Len(released) = batch
        /\ \A i \in 1..Len(released) : released[i] = i /\ arrays[i] # <<>>
    BY <1>2, <1>3 DEF InOrder, ReleasedOnce
  <2>2. ReleasedOnce'
    BY <1>1, <1>2, <1>3, <1>4, <2>1 DEF ReleasedOnce
  <2>3. Consecutive'
    <3>1. ASSUME NEW i \in 1..batch', NEW k \in 1..Len(arrays'[i])
          PROVE  arrays'[i][k] = IF k > 1 THEN arrays'[i][k - 1] + 1
                                 ELSE IF i > 1 THEN LastOf(arrays'[i - 1]) + 1 ELSE 1
      <4>1. i \in 1..batch
        <5>1. Len(arrays'[batch']) = 0
          BY <1>4
        <5> QED BY <1>3, <1>4, <5>1
      <4>2. i > 1 => i - 1 \in 1..batch
        BY <1>3, <4>1
      <4>3. i > 1 => LastOf(arrays'[i - 1]) = LastOf(arrays[i - 1])
        BY <1>4, <4>2 DEF LastOf
      <4> QED BY <1>4, <4>1, <4>3 DEF InOrder, Consecutive
    <3> QED BY <3>1 DEF Consecutive
  <2>4. UpToDate'
    <3>1. arrays[batch] # <<>> /\ batch' - 1 = batch /\ batch' > 1
          /\ arrays'[batch] = arrays[batch]
      BY <1>3, <1>4, <2>1
    <3> QED BY <1>1, <1>4, <3>1 DEF InOrder, UpToDate, LastOf
  <2> QED BY <2>2, <2>3, <2>4 DEF InOrder
<1>8. AbsoluteSize' /\ RoomForOne'
  <2>1. Len(<<>>) = 0
    OBVIOUS
  <2>2. ASSUME BatchSize > 0, ~failed, NEW i \in 1..batch' PROVE Len(arrays'[i]) <= BatchSize
    <3>1. CASE i \in 1..batch
      BY <1>4, <2>2, <3>1 DEF AbsoluteSize
    <3>2. CASE i = batch'
      BY <1>4, <2>1, <2>2, <3>2, OptionAssumption
    <3> QED BY <1>3, <1>4, <3>1, <3>2
  <2> QED BY <1>1, <1>4, <2>1, <2>2 DEF AbsoluteSize, RoomForOne
<1>9. TimerOfThisBatch' /\ TimeoutHasPayload'
  BY <1>1, <1>4, <1>5 DEF TimerOfThisBatch, TimeoutHasPayload
<1> QED
  BY <1>6, <1>7, <1>8, <1>9

\* The inductive invariant: the properties, and the two facts about the current
\* batch that carry them from one release to the next.
THEOREM BatchInvariant == ~Reentrant => (Spec => []IInv)
<1> SUFFICES ASSUME ~Reentrant PROVE Spec => []IInv
  OBVIOUS
<1>1. IInv /\ [Next]_vars => IInv'
  <2> SUFFICES ASSUME IInv, [Next]_vars PROVE IInv'
    OBVIOUS
  <2>1. CASE Fill
    BY <2>1, FillInv
  <2>2. CASE Collect
    BY <2>2, CollectInv
  <2>3. CASE TimerFires
    BY <2>3, TimerFiresInv
  <2>4. CASE ReleaseReturns
    BY <2>4, ReleaseReturnsInv
  <2>5. CASE UNCHANGED vars
    BY <2>5 DEF vars, IInv, TypeOK, InOrder, ReleasedOnce, Consecutive, UpToDate,
                AbsoluteSize, TimerOfThisBatch, TimeoutHasPayload, RoomForOne, batch
  <2> QED BY <2>1, <2>2, <2>3, <2>4, <2>5 DEF Next
<1> QED
  BY InitInv, <1>1, PTL DEF Spec

\* Whatever fails, no payload of a batching aggregator is lost, repeated or
\* reordered, as long as receivers do not send to it while a chunk is released.
THEOREM NothingLost == ~Reentrant => (Spec => []InOrder)
<1>1. IInv => InOrder
  BY DEF IInv
<1> QED
  BY BatchInvariant, <1>1, PTL

\* The batches keep their shape: there is always one to push to, and whatever is
\* released or has a timer is a batch there was (batching.js:43-69).
THEOREM BatchTyped == ~Reentrant => (Spec => []TypeOK)
<1>1. IInv => TypeOK
  BY DEF IInv
<1> QED
  BY BatchInvariant, <1>1, PTL

\* Until a release throws, no chunk outgrows the batch size.
THEOREM SizeKept == ~Reentrant => (Spec => []AbsoluteSize)
<1>1. IInv => AbsoluteSize
  BY DEF IInv
<1> QED
  BY BatchInvariant, <1>1, PTL

\* There is at most one timer, that of the current batch, and until a release
\* throws it runs whenever payloads wait.
THEOREM TimerKept == ~Reentrant => (Spec => []TimerOfThisBatch)
<1>1. IInv => TimerOfThisBatch
  BY DEF IInv
<1> QED
  BY BatchInvariant, <1>1, PTL
-----------------------------------------------------------------------------
(* The pipeline.                                                            *)

\* A step of the pipeline is a step of the aggregator or leaves it alone.
LEMMA PipeStep == [PipeNext]_pipe => [Next]_vars
  BY DEF PipeNext, Next, pipe, vars, places, Arrives, Late, Enqueue, Return, Poll,
         SendOn, Closes, CloseEvent

\* The pipeline makes the aggregator do nothing that it does not do alone
\* (batching.js:45-79).
THEOREM PipelineRunsAggregator == PipeSpec => Spec
<1>1. PipeInit => Init
  BY DEF PipeInit
<1> QED
  BY <1>1, PipeStep, PTL DEF PipeSpec, Spec
-----------------------------------------------------------------------------
(* Where the chunks are. *)

Coming == {released[i] : i \in (arrived + 1)..Len(released)}
Waiting == IF busy THEN {Last(polled)} ELSE {}

\* The chunks that are no longer on their way to the queue.
Arrived == Range(queue) \cup Waiting \cup Range(written) \cup dead \cup lost

\* The types of what the pipeline adds.
PlacesOK ==
  /\ arrived \in 0..Len(released)
  /\ queue \in Seq(Nat) /\ polled \in Seq(Nat) /\ written \in Seq(Nat)
  /\ busy \in BOOLEAN /\ (busy => polled # <<>>)

\* No chunk is twice in the queue: taking the first one takes it out.
QueuedOnce == \A i, j \in 1..Len(queue) : queue[i] = queue[j] => i = j

\* The places are disjoint.
Apart ==
  /\ Range(queue) \cap Waiting = {} /\ Range(queue) \cap Range(written) = {}
  /\ Range(queue) \cap dead = {} /\ Range(queue) \cap lost = {}
  /\ Waiting \cap Range(written) = {} /\ Waiting \cap dead = {} /\ Waiting \cap lost = {}
  /\ Range(written) \cap dead = {} /\ Range(written) \cap lost = {} /\ dead \cap lost = {}

\* Chunks are released under growing numbers, so those that arrived are the first ones.
PlaceInv == PlacesOK /\ QueuedOnce /\ Apart /\ Arrived = 1..arrived

LEMMA AppendRange ==
  ASSUME NEW s \in Seq(Nat), NEW x \in Nat
  PROVE  /\ Range(Append(s, x)) = Range(s) \cup {x}
         /\ Append(s, x) \in Seq(Nat) /\ Append(s, x) # <<>>
         /\ Last(Append(s, x)) = x
<1>1. /\ DOMAIN Append(s, x) = 1..(Len(s) + 1) /\ DOMAIN s = 1..Len(s) /\ Len(s) \in Nat
      /\ \A i \in 1..Len(s) : Append(s, x)[i] = s[i]
      /\ Append(s, x)[Len(s) + 1] = x
  OBVIOUS
<1>2. Range(Append(s, x)) = {Append(s, x)[i] : i \in 1..(Len(s) + 1)}
  BY <1>1 DEF Range
<1>3. 1..(Len(s) + 1) = 1..Len(s) \cup {Len(s) + 1}
  BY <1>1
<1>4. Range(Append(s, x)) = Range(s) \cup {x}
  BY <1>1, <1>2, <1>3 DEF Range
<1> QED BY <1>1, <1>4 DEF Last

\* The first of a sequence without repetitions is not among the others.
LEMMA TailRange ==
  ASSUME NEW s \in Seq(Nat), s # <<>>, \A i, j \in 1..Len(s) : s[i] = s[j] => i = j
  PROVE  /\ Range(Tail(s)) = Range(s) \ {Head(s)} /\ Head(s) \in Range(s) /\ Head(s) \in Nat
         /\ Tail(s) \in Seq(Nat)
         /\ \A i, j \in 1..Len(Tail(s)) : Tail(s)[i] = Tail(s)[j] => i = j
<1>1. /\ Len(s) \in Nat \ {0} /\ Head(s) = s[1] /\ DOMAIN s = 1..Len(s)
      /\ Len(Tail(s)) = Len(s) - 1 /\ DOMAIN Tail(s) = 1..(Len(s) - 1)
      /\ \A i \in 1..(Len(s) - 1) : Tail(s)[i] = s[i + 1]
      /\ Tail(s) \in Seq(Nat)
  OBVIOUS
<1>2. \A i, j \in 1..Len(Tail(s)) : Tail(s)[i] = Tail(s)[j] => i = j
  BY <1>1
<1>3. Head(s) \in Range(s) /\ Head(s) \in Nat
  BY <1>1 DEF Range
<1>4. ASSUME NEW x \in Range(Tail(s)) PROVE x \in Range(s) \ {Head(s)}
  BY <1>1, <1>4 DEF Range
<1>5. ASSUME NEW x \in Range(s) \ {Head(s)} PROVE x \in Range(Tail(s))
  <2>1. PICK i \in 1..Len(s) : x = s[i]
    BY <1>1 DEF Range
  <2>2. i # 1 /\ i - 1 \in 1..(Len(s) - 1) /\ Tail(s)[i - 1] = x
    BY <1>1, <2>1, <1>5
  <2> QED BY <1>1, <2>2 DEF Range
<1> QED BY <1>1, <1>2, <1>3, <1>4, <1>5

\* Outside of a call of release all chunks have arrived; numbers are released in order.
LEMMA ReleasedFacts ==
  ASSUME TypeOK, ReleasedOnce
  PROVE  /\ Len(released) \in Nat
         /\ \A i \in 1..Len(released) : released[i] = i
         /\ Range(released) = 1..Len(released)
<1>1. released \in Seq(1..batch)
  BY DEF TypeOK
<1>2. Len(released) \in Nat /\ DOMAIN released = 1..Len(released)
  BY <1>1
<1>3. \A i \in 1..Len(released) : released[i] = i
  BY DEF ReleasedOnce
<1>4. Range(released) = 1..Len(released)
  BY <1>2, <1>3 DEF Range
<1> QED BY <1>2, <1>3, <1>4

LEMMA PlaceInit == PipeInit => PlaceInv
<1> SUFFICES ASSUME PipeInit PROVE PlaceInv
  OBVIOUS
<1>1. /\ queue = <<>> /\ polled = <<>> /\ written = <<>> /\ arrived = 0 /\ released = <<>>
      /\ dead = {} /\ lost = {} /\ busy = FALSE
  BY DEF PipeInit, Init
<1>2. Range(queue) = {} /\ Range(written) = {} /\ Waiting = {}
  BY <1>1 DEF Range, Waiting
<1>3. PlacesOK
  <2>1. arrived \in 0..Len(released) /\ <<>> \in Seq(Nat)
    BY <1>1
  <2>2. busy \in BOOLEAN /\ ~busy
    BY <1>1, Zenon
  <2> QED BY <1>1, <2>1, <2>2, Zenon DEF PlacesOK
<1>4. QueuedOnce
  BY <1>1 DEF QueuedOnce
<1>5. Apart /\ Arrived = 1..arrived
  BY <1>1, <1>2 DEF Apart, Arrived
<1> QED
  BY <1>3, <1>4, <1>5 DEF PlaceInv

\* Steps of the aggregator may release one more chunk.
LEMMA ReleasedGrows ==
  ASSUME TypeOK, ReleasedOnce, Fill \/ Collect \/ TimerFires \/ ReleaseReturns
  PROVE  Len(released) \in Nat /\ Len(released') \in Nat /\ Len(released) <= Len(released')
<1>1. released \in Seq(1..batch) /\ batch \in Nat
  BY DEF TypeOK, batch
<1>2. released' = released \/ released' = Append(released, batch)
  BY DEF Fill, Collect, TimerFires, ReleaseReturns, Releases, ReleaseThrows
<1> QED BY <1>1, <1>2

LEMMA PlaceStep ==
  ASSUME PlaceInv, TypeOK, ReleasedOnce, [PipeNext]_pipe
  PROVE  PlaceInv'
<1> USE DEF PlacesOK
<1>0. PlacesOK /\ QueuedOnce /\ Apart /\ Arrived = 1..arrived
  BY DEF PlaceInv
<1>1. CASE Arrives \/ Late \/ Return
  <2>1. UNCHANGED places
    BY <1>1 DEF Arrives, Late, Return
  <2>2. Fill \/ Collect \/ TimerFires \/ ReleaseReturns
    BY <1>1 DEF Arrives, Late, Return
  <2>3. PlacesOK'
    BY <1>0, <2>1, <2>2, ReleasedGrows DEF places
  <2> QED BY <1>0, <2>1, <2>3 DEF places, PlaceInv, QueuedOnce, Apart, Arrived, Waiting
<1>2. CASE Enqueue
  <2> DEFINE chunk == released[arrived']
  <2>1. /\ arrived' = arrived + 1 /\ arrived' \in 1..Len(released) /\ chunk = arrived'
        /\ released' = released /\ chunk \in Nat /\ chunk \notin Arrived
    BY <1>0, <1>2, ReleasedFacts DEF Enqueue, InChannel, vars
  <2>2. UNCHANGED <<polled, written, lost, busy>> /\ Waiting' = Waiting
    BY <1>2 DEF Enqueue, Waiting
  <2>3. 1..arrived' = 1..arrived \cup {chunk}
    <3>1. arrived \in Nat /\ arrived' = arrived + 1 /\ chunk = arrived + 1
      BY <1>0, <2>1, ReleasedFacts
    <3> HIDE DEF chunk
    <3>2. \A n \in Nat : 1..(n + 1) = 1..n \cup {n + 1}
      OBVIOUS
    <3> QED BY ONLY <3>1, <3>2
  <2>4. CASE queue' = Append(queue, chunk) /\ dead' = dead
    <3>1. Range(queue') = Range(queue) \cup {chunk} /\ queue' \in Seq(Nat)
      BY <1>0, <2>1, <2>4, AppendRange
    <3>2. QueuedOnce'
      <4>1. chunk \notin Range(queue)
        BY <2>1 DEF Arrived
      <4>2. /\ Len(queue') = Len(queue) + 1 /\ queue'[Len(queue) + 1] = chunk
            /\ \A i \in 1..Len(queue) : queue'[i] = queue[i] /\ queue[i] # chunk
            /\ Len(queue) \in Nat
        BY <1>0, <2>4, <4>1 DEF Range
      <4>3. ASSUME NEW i \in 1..Len(queue'), NEW j \in 1..Len(queue'), queue'[i] = queue'[j]
            PROVE  i = j
        <5>1. CASE i \in 1..Len(queue) /\ j \in 1..Len(queue)
          BY <1>0, <4>2, <4>3, <5>1 DEF QueuedOnce
        <5>2. CASE i = Len(queue) + 1 \/ j = Len(queue) + 1
          BY <4>2, <4>3, <5>2
        <5> QED BY <4>2, <5>1, <5>2
      <4> QED BY <4>3 DEF QueuedOnce
    <3>3. Apart' /\ Arrived' = 1..arrived'
      BY <1>0, <2>1, <2>2, <2>3, <2>4, <3>1 DEF Apart, Arrived
    <3> QED BY <1>0, <2>1, <2>2, <3>1, <3>2, <3>3 DEF PlaceInv
  <2>5. CASE queue' = queue /\ dead' = dead \cup {chunk}
    <3>1. Apart' /\ Arrived' = 1..arrived'
      BY <1>0, <2>1, <2>2, <2>3, <2>5 DEF Apart, Arrived
    <3> QED BY <1>0, <2>1, <2>2, <2>5, <3>1 DEF PlaceInv, QueuedOnce
  <2> QED BY <1>2, <2>4, <2>5 DEF Enqueue
<1>3. CASE Poll
  <2>1. /\ queue # <<>> /\ ~busy /\ busy' = TRUE /\ queue' = Tail(queue)
        /\ polled' = Append(polled, Head(queue))
        /\ UNCHANGED <<released, arrived, written, dead, lost>>
    BY <1>3 DEF Poll, vars
  <2>2. /\ Range(queue') = Range(queue) \ {Head(queue)} /\ Head(queue) \in Range(queue)
        /\ Head(queue) \in Nat /\ queue' \in Seq(Nat) /\ QueuedOnce'
    BY <1>0, <2>1, TailRange DEF QueuedOnce
  <2>3. polled' \in Seq(Nat) /\ polled' # <<>> /\ Waiting' = {Head(queue)} /\ Waiting = {}
    BY <1>0, <2>1, <2>2, AppendRange DEF Waiting
  <2>4. Apart' /\ Arrived' = 1..arrived'
    BY <1>0, <2>1, <2>2, <2>3 DEF Apart, Arrived
  <2> QED BY <1>0, <2>1, <2>2, <2>3, <2>4 DEF PlaceInv
<1>4. CASE SendOn
  <2> DEFINE chunk == Last(polled)
  <2>1. /\ busy /\ busy' = FALSE
        /\ UNCHANGED <<released, queue, arrived, polled>>
    BY <1>4 DEF SendOn, vars
  <2>2. Waiting = {chunk} /\ Waiting' = {} /\ chunk \in Nat
    BY <1>0, <2>1 DEF Waiting, Last
  <2>3. \/ written' = Append(written, chunk) /\ UNCHANGED <<dead, lost>>
        \/ lost' = lost \cup {chunk} /\ UNCHANGED <<written, dead>>
        \/ dead' = dead \cup {chunk} /\ UNCHANGED <<written, lost>>
    BY <1>4 DEF SendOn
  <2>4. /\ written' \in Seq(Nat)
        /\ \/ Range(written') = Range(written) \cup {chunk} /\ UNCHANGED <<dead, lost>>
           \/ lost' = lost \cup {chunk} /\ Range(written') = Range(written) /\ dead' = dead
           \/ dead' = dead \cup {chunk} /\ Range(written') = Range(written) /\ lost' = lost
    BY <1>0, <2>2, <2>3, AppendRange
  <2>5. Apart' /\ Arrived' = 1..arrived'
    BY <1>0, <2>1, <2>2, <2>4 DEF Apart, Arrived
  <2> QED BY <1>0, <2>1, <2>4, <2>5 DEF PlaceInv, QueuedOnce
<1>5. CASE Closes \/ CloseEvent \/ UNCHANGED pipe
  <2>1. UNCHANGED <<released, queue, arrived, polled, written, dead, lost, busy>>
    BY <1>5 DEF Closes, CloseEvent, pipe, vars, places
  <2> QED BY <1>0, <2>1 DEF PlaceInv, QueuedOnce, Apart, Arrived, Waiting
<1> QED
  BY <1>1, <1>2, <1>3, <1>4, <1>5 DEF PipeNext

\* The property as it is checked.
LEMMA PlaceInvSuffices ==
  ASSUME PlaceInv, TypeOK, ReleasedOnce
  PROVE  OnePlace
<1> DEFINE waiting == IF busy THEN {Last(polled)} ELSE {}
           places1 == <<Range(queue), waiting, Range(written), dead, lost,
                        {released[i] : i \in (arrived + 1)..Len(released)}>>
<1>1. Coming = (arrived + 1)..Len(released) /\ arrived \in 0..Len(released)
      /\ Len(released) \in Nat /\ Range(released) = 1..Len(released)
  <2>1. arrived \in 0..Len(released) /\ Len(released) \in Nat
        /\ Range(released) = 1..Len(released) /\ \A i \in 1..Len(released) : released[i] = i
    BY ReleasedFacts DEF PlaceInv, PlacesOK
  <2>2. \A i \in (arrived + 1)..Len(released) : released[i] = i
    BY <2>1
  <2> QED BY <2>1, <2>2 DEF Coming
<1>2. Arrived = 1..arrived /\ Apart
  BY DEF PlaceInv
<1>3. Arrived \cap Coming = {} /\ Arrived \cup Coming = Range(released)
  BY <1>1, <1>2
<1>4. /\ DOMAIN places1 = 1..6
      /\ places1[1] = Range(queue) /\ places1[2] = Waiting /\ places1[3] = Range(written)
      /\ places1[4] = dead /\ places1[5] = lost /\ places1[6] = Coming
  BY DEF Waiting, Coming
<1> HIDE DEF places1
<1>5. UNION Range(places1) = Range(released)
  <2>1. Range(places1) = {Range(queue), Waiting, Range(written), dead, lost, Coming}
    BY <1>4 DEF Range
  <2> QED BY <1>3, <2>1 DEF Arrived
<1>6. ASSUME NEW i \in 1..6, NEW j \in 1..6, i # j
      PROVE  places1[i] \cap places1[j] = {}
  <2>1. \A k \in 1..5 : places1[k] \cap Coming = {}
    BY <1>3, <1>4 DEF Arrived
  <2>2. CASE i = 6 \/ j = 6
    BY <1>4, <1>6, <2>1, <2>2
  <2>3. CASE i \in 1..5 /\ j \in 1..5
    BY <1>2, <1>4, <1>6, <2>3 DEF Apart
  <2> QED BY <2>2, <2>3
<1> QED
  BY <1>4, <1>5, <1>6 DEF OnePlace, places1

\* Each chunk is at one place, in every pipeline (msgs.js:337, pollable.js:43-48).
THEOREM ChunksAtOnePlace == PipeSpec => []OnePlace
<1> DEFINE Inv == TypeOK /\ ReleasedOnce
<1>1. PipeSpec => []Inv
  <2>1. ~Reentrant
    BY QueueAssumption
  <2>2. IInv => Inv
    BY DEF IInv, InOrder
  <2> QED BY <2>1, <2>2, PipelineRunsAggregator, BatchInvariant, PTL
<1>2. Inv /\ PlaceInv /\ [PipeNext]_pipe => PlaceInv'
  BY PlaceStep
<1>3. Inv /\ PlaceInv => OnePlace
  BY PlaceInvSuffices
<1> QED
  BY <1>1, <1>2, <1>3, PlaceInit, PTL DEF PipeSpec
-----------------------------------------------------------------------------
(* The pipeline implements FifoLink.  First what is needed of numbers and    *)
(* sequences.  A number of a set for which something fails has a least one:  *)
(* with LeastElement what is said of all numbers can be proved by induction. *)

LEMMA LessIsRelated ==
  ASSUME NEW x \in Nat, NEW y \in Nat, y < x
  PROVE  <<y, x>> \in OpToRel(<, Nat)
  BY DEF OpToRel

LEMMA LeastElement ==
  ASSUME NEW T, T \subseteq Nat, T # {}
  PROVE  \E x \in T : \A y \in T : x <= y
<1> DEFINE R == OpToRel(<, Nat)
<1>1. IsWellFoundedOn(R, Nat)
  BY NatLessThanWellFounded
<1>2. \A x, y \in Nat : y < x => <<y, x>> \in R
  BY LessIsRelated
<1> HIDE DEF R
<1>3. PICK x \in T : \A y \in T : ~ (<<y, x>> \in R)
  BY <1>1, WFMin
<1>4. ASSUME NEW y \in T PROVE x <= y
  <2>1. ~ (y < x)
    BY <1>2, <1>3
  <2>2. x \in Nat /\ y \in Nat
    OBVIOUS
  <2> QED BY <2>1, <2>2
<1> QED BY <1>4

\* f is what FlattenSeq computes of the first n sequences of s.
IsFlat(f, s, n) ==
  f = [i \in 1..n |-> IF i = 1 THEN s[i] ELSE f[i - 1] \o s[i]]

LEMMA FlatIsUnique ==
  ASSUME NEW s, NEW n \in Nat, NEW f, NEW g, IsFlat(f, s, n), IsFlat(g, s, n)
  PROVE  f = g
<1> DEFINE T == {i \in 1..n : f[i] # g[i]}
<1>1. DOMAIN f = 1..n /\ DOMAIN g = 1..n
  BY DEF IsFlat
<1>2. \A i \in 1..n : f[i] = (IF i = 1 THEN s[i] ELSE f[i - 1] \o s[i])
                     /\ g[i] = (IF i = 1 THEN s[i] ELSE g[i - 1] \o s[i])
  BY Zenon DEF IsFlat
<1>3. T = {}
  <2> SUFFICES ASSUME T # {} PROVE FALSE
    OBVIOUS
  <2>0. T \subseteq Nat
    OBVIOUS
  <2>1. PICK i \in T : \A j \in T : i <= j
    BY <2>0, LeastElement
  <2>2. CASE i = 1
    BY <1>2, <2>1, <2>2
  <2>3. CASE i # 1
    <3>1. i - 1 \in 1..n /\ i - 1 \notin T
      BY <2>1, <2>3
    <3> QED BY <1>2, <2>3, <3>1
  <2> QED BY <2>2, <2>3
<1>4. f = [i \in 1..n |-> f[i]] /\ g = [i \in 1..n |-> g[i]]
  BY Zenon DEF IsFlat
<1> QED BY <1>3, <1>4

LEMMA FlatExists ==
  ASSUME NEW S, NEW s \in Seq(Seq(S)), NEW n \in 0..Len(s)
  PROVE  \E f \in [1..n -> Seq(S)] : IsFlat(f, s, n)
<1> DEFINE P(k) == \E f \in [1..k -> Seq(S)] : IsFlat(f, s, k)
           T == {k \in 0..Len(s) : ~P(k)}
<1>0. Len(s) \in Nat /\ \A i \in 1..Len(s) : s[i] \in Seq(S)
  OBVIOUS
<1>1. P(0)
  <2> DEFINE f == [i \in 1..0 |-> <<>>]
  <2>1. f \in [1..0 -> Seq(S)] /\ IsFlat(f, s, 0)
    BY DEF IsFlat
  <2> QED BY <2>1
<1>2. ASSUME NEW k \in 0..Len(s), k # 0, P(k - 1) PROVE P(k)
  <2>1. PICK f \in [1..(k - 1) -> Seq(S)] : IsFlat(f, s, k - 1)
    BY <1>2
  <2> DEFINE g == [i \in 1..k |-> IF i = k THEN (IF i = 1 THEN s[i] ELSE f[i - 1] \o s[i])
                                          ELSE f[i]]
  <2>2. k \in 1..Len(s) /\ k - 1 \in Nat /\ k \in Nat
    BY <1>0, <1>2
  <2>3. \A i \in 1..(k - 1) : f[i] = IF i = 1 THEN s[i] ELSE f[i - 1] \o s[i]
    BY <2>1, Zenon DEF IsFlat
  <2>4. ASSUME NEW i \in 1..k
        PROVE  g[i] \in Seq(S) /\ g[i] = IF i = 1 THEN s[i] ELSE g[i - 1] \o s[i]
    <3>1. CASE i = 1
      <4>1. s[1] \in Seq(S)
        BY <1>0, <2>2
      <4>2. g[1] = s[1]
        <5>1. CASE k = 1
          BY <3>1, <5>1
        <5>2. CASE k # 1
          <6>1. 1 \in 1..(k - 1)
            BY <2>2, <5>2
          <6>2. f[1] = s[1]
            BY <2>3, <6>1, Zenon
          <6> QED BY <3>1, <5>2, <6>2
        <5> QED BY <5>1, <5>2
      <4> QED BY <3>1, <4>1, <4>2
    <3>2. CASE i # 1
      <4>1. i - 1 \in 1..(k - 1) /\ i - 1 # k /\ g[i - 1] = f[i - 1] /\ f[i - 1] \in Seq(S)
        BY <2>1, <2>2, <3>2
      <4>2. s[i] \in Seq(S)
        BY <1>0, <2>2
      <4>3. f[i - 1] \o s[i] \in Seq(S)
        BY <4>1, <4>2
      <4>4. g[i] = f[i - 1] \o s[i]
        <5>1. CASE i = k
          BY <3>2, <5>1
        <5>2. CASE i # k
          <6>1. i \in 1..(k - 1)
            BY <2>2, <5>2
          <6>2. f[i] = f[i - 1] \o s[i]
            BY <2>3, <3>2, <6>1, Zenon
          <6> QED BY <5>2, <6>2
        <5> QED BY <5>1, <5>2
      <4> QED BY <3>2, <4>1, <4>3, <4>4
    <3> QED BY <3>1, <3>2
  <2>5. g \in [1..k -> Seq(S)]
    BY <2>4
  <2>6. g = [i \in 1..k |-> IF i = 1 THEN s[i] ELSE g[i - 1] \o s[i]]
    BY <2>4
  <2> HIDE DEF g
  <2> QED BY <2>5, <2>6 DEF IsFlat
<1>3. T = {}
  <2> SUFFICES ASSUME T # {} PROVE FALSE
    OBVIOUS
  <2>0. T \subseteq Nat
    OBVIOUS
  <2>1. PICK k \in T : \A j \in T : k <= j
    BY <2>0, LeastElement
  <2>2. k # 0 /\ k \in 0..Len(s)
    BY <1>1
  <2>3. k - 1 \in 0..Len(s) /\ k - 1 \notin T
    <3>1. k - 1 \in 0..Len(s) /\ ~(k <= k - 1)
      BY <1>0, <2>2
    <3> HIDE DEF T
    <3> QED BY <2>1, <3>1
  <2>4. P(k - 1)
    BY <2>3
  <2> HIDE DEF P
  <2> QED BY <1>2, <2>2, <2>4 DEF T
<1> QED BY <1>3

LEMMA FlattenIsFlat ==
  ASSUME NEW s, NEW f, Len(s) \in Nat \ {0}, IsFlat(f, s, Len(s))
  PROVE  FlattenSeq(s) = f[Len(s)]
<1>1. FlattenSeq(s) = (CHOOSE g : IsFlat(g, s, Len(s)))[Len(s)]
  BY DEF FlattenSeq, IsFlat
<1>2. \A g : IsFlat(g, s, Len(s)) => g = f
  BY FlatIsUnique
<1>3. (CHOOSE g : IsFlat(g, s, Len(s))) = f
  BY <1>2, Zenon
<1> QED BY <1>1, <1>3

LEMMA FlattenEmpty == ASSUME NEW s, Len(s) = 0 PROVE FlattenSeq(s) = s
  BY DEF FlattenSeq

\* Putting one more sequence at the end puts its elements at the end.
LEMMA FlattenAppend ==
  ASSUME NEW S, NEW s \in Seq(Seq(S)), NEW x \in Seq(S)
  PROVE  FlattenSeq(Append(s, x)) = FlattenSeq(s) \o x /\ FlattenSeq(s) \in Seq(S)
<1> DEFINE n == Len(s)
           t == Append(s, x)
<1>1. /\ n \in Nat /\ t \in Seq(Seq(S)) /\ Len(t) = n + 1 /\ t[n + 1] = x
      /\ \A i \in 1..n : t[i] = s[i]
  OBVIOUS
<1> HIDE DEF t, n
<1>2. PICK f \in [1..(n + 1) -> Seq(S)] : IsFlat(f, t, n + 1)
  BY <1>1, FlatExists
<1>3. FlattenSeq(t) = f[n + 1]
  <2>1. IsFlat(f, t, Len(t)) /\ Len(t) \in Nat \ {0}
    BY <1>1, <1>2
  <2>2. FlattenSeq(t) = f[Len(t)]
    BY <2>1, FlattenIsFlat
  <2> QED BY <1>1, <2>2
<1>4. \A i \in 1..(n + 1) : f[i] = IF i = 1 THEN t[i] ELSE f[i - 1] \o t[i]
  BY <1>2, Zenon DEF IsFlat
<1>5. CASE n = 0
  <2>1. s = <<>> /\ FlattenSeq(s) = <<>>
    BY <1>5, FlattenEmpty DEF n
  <2>2. FlattenSeq(t) = x
    BY <1>1, <1>3, <1>4, <1>5
  <2>3. <<>> \o x = x /\ <<>> \in Seq(S)
    OBVIOUS
  <2> QED BY <2>1, <2>2, <2>3 DEF t
<1>6. CASE n # 0
  <2> DEFINE g == [i \in 1..n |-> f[i]]
  <2>1. \A i \in 1..n : g[i] = f[i] /\ i \in 1..(n + 1) /\ (i # 1 => i - 1 \in 1..n)
    BY <1>1
  <2>2. \A i \in 1..n : g[i] = IF i = 1 THEN s[i] ELSE g[i - 1] \o s[i]
    BY <1>1, <1>4, <2>1
  <2>3. g = [i \in 1..n |-> IF i = 1 THEN s[i] ELSE g[i - 1] \o s[i]]
    BY <2>2
  <2>4. g[n] = f[n] /\ f[n] \in Seq(S)
    BY <1>1, <1>2, <1>6
  <2> HIDE DEF g
  <2>5. IsFlat(g, s, n)
    BY <2>3 DEF IsFlat
  <2>6. FlattenSeq(s) = f[n]
    BY <1>1, <1>6, <2>4, <2>5, FlattenIsFlat DEF n
  <2>7. f[n + 1] = f[n] \o x
    <3>1. n + 1 \in 1..(n + 1) /\ n + 1 # 1 /\ (n + 1) - 1 = n
      BY <1>1, <1>6
    <3> QED BY <1>1, <1>4, <3>1
  <2> QED BY <1>3, <2>4, <2>6, <2>7 DEF t
<1> QED BY <1>5, <1>6

\* The numbers of an interval, sorted, are counted.
LEMMA AscendingInterval ==
  ASSUME NEW low \in Nat, NEW high \in Nat, low <= high
  PROVE  Link!Ascending(low..high) = [k \in 1..(high - low + 1) |-> low + k - 1]
<1>1. Cardinality(low..high) = high - low + 1
  BY FS_Interval
<1>2. ASSUME NEW x \in low..high
      PROVE  Cardinality({y \in low..high : y < x}) = x - low
  <2>1. {y \in low..high : y < x} = low..(x - 1)
    OBVIOUS
  <2>2. x - 1 \in Int /\ low \in Int /\ (low > x - 1 <=> x = low)
    OBVIOUS
  <2>3. Cardinality(low..(x - 1)) = IF low > x - 1 THEN 0 ELSE (x - 1) - low + 1
    BY <2>2, FS_Interval
  <2>4. Cardinality({y \in low..high : y < x}) = Cardinality(low..(x - 1))
    BY <2>1, Zenon
  <2>5. Cardinality(low..(x - 1)) = x - low
    BY <2>2, <2>3
  <2> QED BY <2>4, <2>5, Zenon
<1>3. ASSUME NEW k \in 1..(high - low + 1)
      PROVE  (CHOOSE x \in low..high : Cardinality({y \in low..high : y < x}) = k - 1)
               = low + k - 1
  <2>1. \A x \in low..high :
          Cardinality({y \in low..high : y < x}) = k - 1 <=> x = low + k - 1
    BY <1>2
  <2>2. low + k - 1 \in low..high
    OBVIOUS
  <2> DEFINE P(x) == Cardinality({y \in low..high : y < x}) = k - 1
  <2>3. \A x \in low..high : P(x) <=> x = low + k - 1
    BY <2>1
  <2> HIDE DEF P
  <2>4. (CHOOSE x \in low..high : P(x)) = low + k - 1
    BY <2>2, <2>3
  <2> QED BY <2>4 DEF P
<1> DEFINE kth(k) == CHOOSE x \in low..high : Cardinality({y \in low..high : y < x}) = k - 1
<1>4. Link!Ascending(low..high) = [k \in 1..Cardinality(low..high) |-> kth(k)]
  BY Zenon DEF Link!Ascending, Link!Cardinality, Cardinality
<1>5. \A k \in 1..(high - low + 1) : kth(k) = low + k - 1
  BY <1>3, Zenon
<1> HIDE DEF kth
<1> QED BY <1>1, <1>4, <1>5
-----------------------------------------------------------------------------
(* Each array is an interval of numbers, one behind the other, and together *)
(* they are what was received.                                              *)

FirstOf(i) == IF i > 1 THEN LastOf(arrays[i - 1]) + 1 ELSE 1

LEMMA ArrayFacts ==
  ASSUME IInv
  PROVE  /\ batch \in Nat \ {0} /\ received \in Nat /\ DOMAIN arrays = 1..batch
         /\ \A i \in 1..batch : arrays[i] \in Seq(Nat)
         /\ \A i \in 1..batch : i < batch => arrays[i] # <<>>
         /\ \A i \in 1..batch : arrays[i] # <<>> => LastOf(arrays[i]) \in Nat
<1>1. arrays \in Seq(Seq(1..MaxReceived)) /\ arrays # <<>> /\ received \in 0..MaxReceived
      /\ MaxReceived \in Nat
  BY BoundAssumption DEF IInv, TypeOK
<1>2. batch \in Nat \ {0} /\ DOMAIN arrays = 1..batch
  BY <1>1 DEF batch
<1>3. ASSUME NEW i \in 1..batch PROVE arrays[i] \in Seq(Nat)
  <2>1. arrays[i] \in Seq(1..MaxReceived)
    BY <1>1 DEF batch
  <2>2. Seq(1..MaxReceived) \subseteq Seq(Nat)
    <3>1. ASSUME NEW t \in Seq(1..MaxReceived) PROVE t \in Seq(Nat)
      <4>1. Len(t) \in Nat /\ t = [k \in 1..Len(t) |-> t[k]]
            /\ \A k \in 1..Len(t) : t[k] \in Nat
        BY <1>1
      <4> QED BY <4>1
    <3> QED BY <3>1
  <2> QED BY <2>1, <2>2
<1>4. ASSUME NEW i \in 1..batch, i < batch PROVE arrays[i] # <<>>
  <2>1. Len(released) = batch - 1 + depth /\ depth \in {0, 1}
        /\ \A j \in 1..Len(released) : released[j] = j /\ arrays[j] # <<>>
    BY DEF IInv, InOrder, ReleasedOnce
  <2>2. i \in 1..Len(released)
    BY <1>2, <1>4, <2>1
  <2> QED BY <2>1, <2>2
<1>5. ASSUME NEW i \in 1..batch, arrays[i] # <<>> PROVE LastOf(arrays[i]) \in Nat
  BY <1>3, <1>5 DEF LastOf
<1> QED BY <1>1, <1>2, <1>3, <1>4, <1>5

\* An array counts from its first number to its last.
LEMMA ArrayIsInterval ==
  ASSUME IInv, NEW i \in 1..batch, arrays[i] # <<>>
  PROVE  LET low == FirstOf(i)
             high == LastOf(arrays[i])
         IN /\ low \in Nat \ {0} /\ high \in Nat /\ low <= high
            /\ arrays[i] = [k \in 1..(high - low + 1) |-> low + k - 1]
            /\ Range(arrays[i]) = low..high
<1> DEFINE a == arrays[i]
           low == FirstOf(i)
           high == LastOf(arrays[i])
<1>1. a \in Seq(Nat) /\ a # <<>> /\ Len(a) \in Nat \ {0} /\ high \in Nat /\ high = a[Len(a)]
      /\ DOMAIN a = 1..Len(a)
  BY ArrayFacts DEF LastOf
<1>2. low \in Nat \ {0}
  <2>1. CASE i > 1
    <3>1. i - 1 \in 1..batch /\ i - 1 < batch
      BY <2>1, ArrayFacts
    <3> QED BY <2>1, <3>1, ArrayFacts DEF FirstOf
  <2>2. CASE ~(i > 1)
    BY <2>2 DEF FirstOf
  <2> QED BY <2>1, <2>2
<1>3. \A k \in 1..Len(a) : a[k] = IF k > 1 THEN a[k - 1] + 1 ELSE low
  BY DEF IInv, InOrder, Consecutive, FirstOf
<1> HIDE DEF a, low, high
<1>4. \A k \in 1..Len(a) : a[k] = low + k - 1
  <2> DEFINE T == {k \in 1..Len(a) : a[k] # low + k - 1}
  <2> SUFFICES ASSUME T # {} PROVE FALSE
    OBVIOUS
  <2>0. T \subseteq Nat
    OBVIOUS
  <2>1. PICK k \in T : \A j \in T : k <= j
    BY <2>0, LeastElement
  <2>2. CASE k > 1
    <3>1. k - 1 \in 1..Len(a) /\ k - 1 \notin T
      BY <1>1, <2>1, <2>2
    <3>2. a[k - 1] = low + (k - 1) - 1
      BY <3>1
    <3>3. a[k] = a[k - 1] + 1
      BY <1>3, <2>2
    <3> QED BY <1>1, <1>2, <3>2, <3>3
  <2>3. CASE ~(k > 1)
    BY <1>1, <1>2, <1>3, <2>3
  <2> QED BY <2>2, <2>3
<1>5. high = low + Len(a) - 1 /\ Len(a) = high - low + 1 /\ low <= high
  BY <1>1, <1>2, <1>4
<1>6. a = [k \in 1..(high - low + 1) |-> low + k - 1]
  <2>1. a = [k \in 1..Len(a) |-> a[k]]
    BY <1>1
  <2> QED BY <1>4, <1>5, <2>1
<1>7. Range(a) = low..high
  <2>1. ASSUME NEW x \in Range(a) PROVE x \in low..high
    <3>1. PICK k \in 1..Len(a) : x = a[k]
      BY <1>1 DEF Range
    <3> QED BY <1>1, <1>2, <1>4, <1>5, <3>1
  <2>2. ASSUME NEW x \in low..high PROVE x \in Range(a)
    <3>1. x - low + 1 \in 1..Len(a)
      BY <1>1, <1>2, <1>5
    <3>2. a[x - low + 1] = x
      BY <1>1, <1>2, <1>4, <3>1
    <3> QED BY <1>1, <3>1, <3>2 DEF Range
  <2> QED BY <2>1, <2>2
<1> QED BY <1>1, <1>2, <1>5, <1>6, <1>7 DEF a, low, high

\* An array ends before a later one begins.
LEMMA ArraysFollow ==
  ASSUME IInv, NEW i \in 1..batch, NEW j \in 1..batch, i < j,
         arrays[i] # <<>>, arrays[j] # <<>>
  PROVE  LastOf(arrays[i]) < FirstOf(j)
<1> DEFINE Before(k) == LastOf(arrays[i]) < FirstOf(k)
           T == {k \in 1..batch : i < k /\ ~Before(k)}
<1>1. ASSUME T # {} PROVE FALSE
  <2>0. T \subseteq Nat
    BY ArrayFacts
  <2>1. PICK k \in T : \A m \in T : k <= m
    BY <1>1, <2>0, LeastElement
  <2>2. k \in 1..batch /\ i < k /\ ~Before(k) /\ batch \in Nat
    BY ArrayFacts
  <2>3. k > 1 /\ k - 1 \in 1..batch /\ k - 1 < batch /\ arrays[k - 1] # <<>>
    BY <2>2, ArrayFacts
  <2>4. FirstOf(k) = LastOf(arrays[k - 1]) + 1 /\ LastOf(arrays[k - 1]) \in Nat
        /\ LastOf(arrays[i]) \in Nat
    BY <2>3, ArrayFacts DEF FirstOf
  <2>5. CASE k - 1 = i
    BY <2>2, <2>4, <2>5
  <2>6. CASE k - 1 # i
    <3>1. i < k - 1 /\ k - 1 \notin T
      BY <2>1, <2>2, <2>6
    <3>2. LastOf(arrays[i]) < FirstOf(k - 1)
      BY <2>3, <3>1
    <3>3. FirstOf(k - 1) <= LastOf(arrays[k - 1]) /\ FirstOf(k - 1) \in Nat
      BY <2>3, ArrayIsInterval
    <3> QED BY <2>2, <2>4, <3>2, <3>3
  <2> QED BY <2>5, <2>6
<1> QED BY <1>1

\* Arrays hold numbers of their own, and what was received is in one of them.
LEMMA ArraysAreApart ==
  ASSUME IInv, NEW i \in 1..batch, NEW j \in 1..batch, i # j
  PROVE  Range(arrays[i]) \cap Range(arrays[j]) = {}
<1>1. ASSUME NEW k \in 1..batch, arrays[k] = <<>> PROVE Range(arrays[k]) = {}
  BY <1>1 DEF Range
<1>2. ASSUME NEW k \in 1..batch, NEW m \in 1..batch, k < m,
             arrays[k] # <<>>, arrays[m] # <<>>
      PROVE  Range(arrays[k]) \cap Range(arrays[m]) = {}
  <2>1. LastOf(arrays[k]) < FirstOf(m) /\ Range(arrays[k]) = FirstOf(k)..LastOf(arrays[k])
        /\ Range(arrays[m]) = FirstOf(m)..LastOf(arrays[m])
        /\ {FirstOf(k), LastOf(arrays[k]), FirstOf(m), LastOf(arrays[m])} \subseteq Nat
    BY <1>2, ArraysFollow, ArrayIsInterval
  <2> QED BY <2>1
<1>3. i < j \/ j < i
  BY ArrayFacts
<1> QED BY <1>1, <1>2, <1>3

LEMMA ReceivedIsHeld ==
  ASSUME IInv, NEW x \in 1..received
  PROVE  \E i \in 1..batch : x \in Range(arrays[i])
<1> DEFINE T == {i \in 1..batch : arrays[i] # <<>> /\ x <= LastOf(arrays[i])}
<1>1. T # {}
  <2>1. CASE arrays[batch] # <<>>
    <3>1. batch \in T
      BY <2>1, ArrayFacts DEF IInv, InOrder, UpToDate
    <3> QED BY <3>1
  <2>2. CASE arrays[batch] = <<>>
    <3>1. batch > 1 /\ received = LastOf(arrays[batch - 1])
      BY <2>2, ArrayFacts DEF IInv, InOrder, UpToDate
    <3>2. batch - 1 \in T
      BY <3>1, ArrayFacts
    <3> QED BY <3>2
  <2> QED BY <2>1, <2>2
<1>2. PICK i \in T : \A j \in T : i <= j
  <2>1. T \subseteq Nat
    BY ArrayFacts
  <2> QED BY <1>1, <2>1, LeastElement
<1>3. Range(arrays[i]) = FirstOf(i)..LastOf(arrays[i]) /\ FirstOf(i) \in Nat
      /\ LastOf(arrays[i]) \in Nat
  BY <1>2, ArrayIsInterval
<1>4. FirstOf(i) <= x
  <2>1. CASE i > 1
    <3>1. i - 1 \in 1..batch /\ i - 1 < batch /\ i - 1 \notin T /\ arrays[i - 1] # <<>>
          /\ LastOf(arrays[i - 1]) \in Nat
      BY <1>2, <2>1, ArrayFacts
    <3>2. ~(x <= LastOf(arrays[i - 1]))
      BY <3>1
    <3> QED BY <2>1, <3>1, <3>2, ArrayFacts DEF FirstOf
  <2>2. CASE ~(i > 1)
    BY <2>2 DEF FirstOf
  <2> QED BY <2>1, <2>2
<1>5. x \in FirstOf(i)..LastOf(arrays[i])
  BY <1>2, <1>3, <1>4
<1> QED BY <1>2, <1>3, <1>5

LEMMA HeldIsReceived ==
  ASSUME IInv, NEW i \in 1..batch
  PROVE  Range(arrays[i]) \subseteq 1..received
<1>1. CASE arrays[i] = <<>>
  BY <1>1 DEF Range
<1>2. CASE arrays[i] # <<>>
  <2>1. Range(arrays[i]) = FirstOf(i)..LastOf(arrays[i]) /\ FirstOf(i) \in Nat \ {0}
        /\ LastOf(arrays[i]) \in Nat
    BY <1>2, ArrayIsInterval
  <2>2. LastOf(arrays[i]) <= received
    <3>1. CASE arrays[batch] # <<>>
      <4>1. received = LastOf(arrays[batch])
        BY <3>1 DEF IInv, InOrder, UpToDate
      <4>2. CASE i # batch
        <5>1. i < batch /\ batch \in 1..batch
          BY <4>2, ArrayFacts
        <5>2. LastOf(arrays[i]) < FirstOf(batch)
          BY <1>2, <3>1, <5>1, ArraysFollow
        <5>3. FirstOf(batch) <= LastOf(arrays[batch]) /\ FirstOf(batch) \in Nat
              /\ LastOf(arrays[batch]) \in Nat
          BY <3>1, <5>1, ArrayIsInterval
        <5> QED BY <2>1, <4>1, <5>2, <5>3
      <4> QED BY <2>1, <4>1, <4>2
    <3>2. CASE arrays[batch] = <<>>
      <4>1. batch > 1 /\ i < batch /\ batch \in Nat
        BY <1>2, <3>2, ArrayFacts
      <4>2. received = LastOf(arrays[batch - 1])
        BY <3>2, <4>1 DEF IInv, InOrder, UpToDate
      <4>3. CASE i # batch - 1
        <5>1. i < batch - 1 /\ batch - 1 \in 1..batch /\ arrays[batch - 1] # <<>>
          BY <4>1, <4>3, ArrayFacts
        <5>2. LastOf(arrays[i]) < FirstOf(batch - 1)
          BY <1>2, <5>1, ArraysFollow
        <5>3. FirstOf(batch - 1) <= LastOf(arrays[batch - 1]) /\ FirstOf(batch - 1) \in Nat
              /\ LastOf(arrays[batch - 1]) \in Nat
          BY <5>1, ArrayIsInterval
        <5> QED BY <2>1, <4>2, <5>2, <5>3
      <4> QED BY <2>1, <4>2, <4>3
    <3> QED BY <3>1, <3>2
  <2> QED BY <2>1, <2>2, ArrayFacts
<1> QED BY <1>1, <1>2
-----------------------------------------------------------------------------
(* The invariant of the refinement: chunks wait in the order in which they  *)
(* were released, and what came out is what the written chunks hold.        *)

Dropped == UNION {Range(arrays[c]) : c \in dead \cup lost}

InTurn ==
  /\ \A i, j \in 1..Len(queue) : i < j => queue[i] < queue[j]
  /\ \A w \in Waiting, q \in Range(queue) : w < q

HeldOK ==
  /\ Held(written) \in Seq(Nat)
  /\ Range(Held(written)) = UNION {Range(arrays[c]) : c \in Range(written)}

LinkInv == IInv /\ PlaceInv /\ InTurn /\ HeldOK

\* The chunks that arrived are arrays that are not empty.
LEMMA ArrivedFacts ==
  ASSUME IInv, PlaceInv
  PROVE  /\ arrived \in Nat /\ Len(released) \in Nat /\ arrived <= Len(released)
         /\ \A i \in 1..Len(released) : released[i] = i /\ i \in 1..batch /\ arrays[i] # <<>>
         /\ Range(queue) \cup Waiting \cup Range(written) \cup dead \cup lost = 1..arrived
<1>1. /\ released \in Seq(1..batch) /\ depth \in {0, 1} /\ Len(released) = batch - 1 + depth
      /\ \A i \in 1..Len(released) : released[i] = i /\ arrays[i] # <<>>
  BY DEF IInv, TypeOK, InOrder, ReleasedOnce
<1>2. Len(released) \in Nat /\ \A i \in 1..Len(released) : i \in 1..batch
  BY <1>1, ArrayFacts
<1>3. arrived \in 0..Len(released) /\ Arrived = 1..arrived
  BY DEF PlaceInv, PlacesOK
<1> QED BY <1>1, <1>2, <1>3 DEF Arrived

\* A chunk that arrived does not change any more: only the current batch grows,
\* and outside of a call of release it was not released.
LEMMA ChunksAreSettled ==
  ASSUME IInv, PlaceInv, [PipeNext]_pipe, NEW c \in 1..arrived
  PROVE  c \in 1..batch /\ arrays[c] # <<>> /\ arrays'[c] = arrays[c]
<1>1. c \in 1..Len(released) /\ c \in 1..batch /\ arrays[c] # <<>>
  BY ArrivedFacts
<1>2. arrays \in Seq(Seq(1..MaxReceived)) /\ arrays # <<>> /\ depth \in {0, 1}
      /\ Len(released) = batch - 1 + depth
  BY DEF IInv, TypeOK, InOrder, ReleasedOnce
<1>3. CASE Arrives
  <2>1. Receive
    BY <1>3 DEF Arrives, Fill, Collect
  <2>2. depth = 0
    BY <1>2, <2>1, QueueAssumption DEF Receive
  <2>3. c # batch
    BY <1>1, <1>2, <2>2, ArrayFacts
  <2> QED BY <1>1, <1>2, <2>1, <2>3 DEF Receive, batch
<1>4. CASE Return
  BY <1>1, <1>2, <1>4 DEF Return, ReleaseReturns, batch
<1>5. CASE ~Arrives /\ ~Return
  <2>1. arrays' = arrays
    BY <1>5 DEF PipeNext, Late, TimerFires, Enqueue, Poll, SendOn, Closes, CloseEvent,
                pipe, vars
  <2> QED BY <1>1, <2>1
<1> QED BY <1>3, <1>4, <1>5

LEMMA HeldStays ==
  ASSUME IInv, PlaceInv, [PipeNext]_pipe, written' = written
  PROVE  Held(written)' = Held(written)
<1>1. \A i \in DOMAIN written : written[i] \in 1..arrived
  BY ArrivedFacts DEF Range
<1>2. \A i \in DOMAIN written : arrays'[written[i]] = arrays[written[i]]
  BY <1>1, ChunksAreSettled
<1>3. [i \in DOMAIN written |-> arrays'[written[i]]] = [i \in DOMAIN written |-> arrays[written[i]]]
  BY <1>2
<1> QED BY <1>3 DEF Held

LEMMA DroppedStays ==
  ASSUME IInv, PlaceInv, [PipeNext]_pipe, dead' = dead, lost' = lost
  PROVE  Dropped' = Dropped
<1>1. \A c \in dead \cup lost : arrays'[c] = arrays[c]
  BY ArrivedFacts, ChunksAreSettled
<1> QED BY <1>1 DEF Dropped

\* One more chunk is written: what it holds comes out.
LEMMA HeldGrows ==
  ASSUME IInv, PlaceInv, arrays' = arrays, NEW c \in 1..arrived,
         written' = Append(written, c)
  PROVE  Held(written)' = Held(written) \o arrays[c] /\ Held(written) \in Seq(Nat)
         /\ arrays[c] \in Seq(Nat)
<1> DEFINE s == [i \in DOMAIN written |-> arrays[written[i]]]
           t == [i \in DOMAIN written' |-> arrays[written'[i]]]
<1>1. /\ written \in Seq(Nat) /\ DOMAIN written = 1..Len(written) /\ Len(written) \in Nat
      /\ DOMAIN written' = 1..(Len(written) + 1)
      /\ \A i \in 1..Len(written) : written'[i] = written[i]
      /\ written'[Len(written) + 1] = c
  BY DEF PlaceInv, PlacesOK
<1>2. \A i \in 1..Len(written) : written[i] \in 1..arrived
  BY <1>1, ArrivedFacts DEF Range
<1>3. \A d \in 1..arrived : arrays[d] \in Seq(Nat)
  <2>1. \A d \in 1..arrived : d \in 1..batch
    BY ArrivedFacts
  <2> QED BY <2>1, ArrayFacts
<1>4. s \in Seq(Seq(Nat)) /\ Len(s) = Len(written)
  <2>1. \A i \in 1..Len(written) : arrays[written[i]] \in Seq(Nat)
    BY <1>2, <1>3
  <2> QED BY <1>1, <2>1
<1>5. t = Append(s, arrays[c])
  BY <1>1, <1>4
<1>6. Held(written) = FlattenSeq(s)
  BY DEF Held
<1>7. Held(written)' = FlattenSeq(t)
  BY DEF Held
<1> HIDE DEF s, t
<1>8. FlattenSeq(Append(s, arrays[c])) = FlattenSeq(s) \o arrays[c] /\ FlattenSeq(s) \in Seq(Nat)
  BY <1>3, <1>4, FlattenAppend
<1> QED BY <1>3, <1>5, <1>6, <1>7, <1>8

LEMMA LinkInvInit == PipeInit => InTurn /\ HeldOK
<1> SUFFICES ASSUME PipeInit PROVE InTurn /\ HeldOK
  OBVIOUS
<1>1. queue = <<>> /\ written = <<>> /\ busy = FALSE
  BY DEF PipeInit
<1>2. Range(queue) = {} /\ Range(written) = {} /\ Waiting = {}
  BY <1>1 DEF Range, Waiting
<1>3. Held(written) = <<>>
  <2> DEFINE s == [i \in DOMAIN written |-> arrays[written[i]]]
  <2>1. s = <<>> /\ Len(s) = 0
    BY <1>1
  <2> QED BY <2>1, FlattenEmpty DEF Held
<1>4. Range(<<>>) = {} /\ <<>> \in Seq(Nat)
  BY DEF Range
<1>5. InTurn
  BY <1>1, <1>2 DEF InTurn
<1>6. UNION {Range(arrays[c]) : c \in Range(written)} = {}
  BY <1>2
<1>7. Held(written) \in Seq(Nat) /\ Range(Held(written)) = {}
  BY <1>3, <1>4, Zenon
<1> QED BY <1>5, <1>6, <1>7 DEF HeldOK

\* What Enqueue puts into the queue is the next chunk.
LEMMA EnqueueFacts ==
  ASSUME IInv, PlaceInv, Enqueue
  PROVE  /\ arrived + 1 \in 1..Len(released) /\ released[arrived'] = arrived + 1
         /\ \/ queue' = Append(queue, arrived + 1) /\ dead' = dead
            \/ queue' = queue /\ dead' = dead \cup {arrived + 1}
         /\ UNCHANGED <<vars, polled, written, lost, stream, busy>>
<1>1. arrived' = arrived + 1 /\ arrived < Len(released)
  BY DEF Enqueue, InChannel
<1>2. arrived + 1 \in 1..Len(released) /\ released[arrived + 1] = arrived + 1
  BY <1>1, ArrivedFacts
<1> QED BY <1>1, <1>2 DEF Enqueue

LEMMA InTurnStep ==
  ASSUME LinkInv, [PipeNext]_pipe
  PROVE  InTurn'
<1>1. IInv /\ PlaceInv /\ InTurn
  BY DEF LinkInv
<1>2. queue \in Seq(Nat) /\ Len(queue) \in Nat /\ DOMAIN queue = 1..Len(queue)
      /\ arrived \in Nat /\ \A q \in Range(queue) \cup Waiting : q \in 1..arrived
  BY <1>1, ArrivedFacts DEF PlaceInv, PlacesOK
<1>3. CASE Enqueue
  <2> DEFINE chunk == arrived + 1
  <2>1. Waiting' = Waiting
    BY <1>3 DEF Enqueue, Waiting
  <2>2. CASE queue' = Append(queue, chunk)
    <3>1. Range(queue') = Range(queue) \cup {chunk}
      BY <1>2, <2>2, AppendRange
    <3>2. /\ Len(queue') = Len(queue) + 1 /\ queue'[Len(queue) + 1] = chunk
          /\ \A i \in 1..Len(queue) : queue'[i] = queue[i] /\ queue[i] < chunk
      <4>1. \A i \in 1..Len(queue) : queue[i] \in 1..arrived
        BY <1>2 DEF Range
      <4> QED BY <1>2, <2>2, <4>1
    <3>3. ASSUME NEW i \in 1..Len(queue'), NEW j \in 1..Len(queue'), i < j
          PROVE  queue'[i] < queue'[j]
      <4>1. i \in 1..Len(queue)
        BY <1>2, <3>2, <3>3
      <4>2. CASE j \in 1..Len(queue)
        BY <1>1, <3>2, <3>3, <4>1, <4>2 DEF InTurn
      <4>3. CASE j = Len(queue) + 1
        BY <3>2, <4>1, <4>3
      <4> QED BY <1>2, <3>2, <4>2, <4>3
    <3>4. \A w \in Waiting', q \in Range(queue') : w < q
      BY <1>1, <1>2, <2>1, <3>1 DEF InTurn
    <3> QED BY <3>3, <3>4 DEF InTurn
  <2>3. CASE queue' = queue
    BY <1>1, <2>1, <2>3 DEF InTurn
  <2> QED BY <1>1, <1>3, <2>2, <2>3, EnqueueFacts
<1>4. CASE Poll
  <2>1. queue # <<>> /\ queue' = Tail(queue) /\ polled' = Append(polled, Head(queue))
        /\ busy' = TRUE
    BY <1>4 DEF Poll
  <2>2. /\ Head(queue) = queue[1] /\ Len(Tail(queue)) = Len(queue) - 1
        /\ DOMAIN Tail(queue) = 1..(Len(queue) - 1) /\ Len(queue) > 0
        /\ \A i \in 1..(Len(queue) - 1) : Tail(queue)[i] = queue[i + 1] /\ queue[i + 1] \in Nat
        /\ Head(queue) \in Nat
    BY <1>2, <2>1
  <2>3. Waiting' = {Head(queue)}
    BY <2>1, <2>2, AppendRange DEF Waiting, PlaceInv, PlacesOK, LinkInv
  <2>4. \A i, j \in 1..Len(queue') : i < j => queue'[i] < queue'[j]
    BY <1>1, <1>2, <2>1, <2>2 DEF InTurn
  <2>5. ASSUME NEW q \in Range(queue') PROVE Head(queue) < q
    <3>1. PICK i \in 1..(Len(queue) - 1) : q = queue[i + 1]
      BY <2>1, <2>2 DEF Range
    <3>2. 1 \in 1..Len(queue) /\ i + 1 \in 1..Len(queue) /\ 1 < i + 1
      BY <1>2, <2>2
    <3> QED BY <1>1, <2>2, <3>1, <3>2 DEF InTurn
  <2> QED BY <2>3, <2>4, <2>5 DEF InTurn
<1>5. CASE SendOn
  <2>1. Waiting' = {} /\ queue' = queue
    BY <1>5 DEF SendOn, Waiting
  <2> QED BY <1>1, <2>1 DEF InTurn
<1>6. CASE ~Enqueue /\ ~Poll /\ ~SendOn
  <2>1. UNCHANGED <<queue, busy, polled>>
    BY <1>6 DEF PipeNext, Arrives, Late, Return, Closes, CloseEvent, pipe, places
  <2> QED BY <1>1, <2>1 DEF InTurn, Waiting
<1> QED BY <1>3, <1>4, <1>5, <1>6

\* Sending a chunk on gives it to one of three places.
LEMMA SendOnFacts ==
  ASSUME IInv, PlaceInv, SendOn
  PROVE  LET chunk == Last(polled)
         IN /\ Waiting = {chunk} /\ chunk \in 1..arrived
            /\ \/ written' = Append(written, chunk) /\ UNCHANGED <<dead, lost>>
               \/ lost' = lost \cup {chunk} /\ UNCHANGED <<written, dead>>
               \/ dead' = dead \cup {chunk} /\ UNCHANGED <<written, lost>>
            /\ UNCHANGED <<vars, queue, arrived, polled>>
<1>1. Waiting = {Last(polled)}
  BY DEF SendOn, Waiting
<1>2. Last(polled) \in 1..arrived
  BY <1>1, ArrivedFacts
<1> QED BY <1>1, <1>2 DEF SendOn

LEMMA HeldStep ==
  ASSUME LinkInv, [PipeNext]_pipe
  PROVE  HeldOK'
<1>1. IInv /\ PlaceInv /\ HeldOK
  BY DEF LinkInv
<1>2. CASE written' = written
  <2>1. Held(written)' = Held(written)
    BY <1>1, <1>2, HeldStays
  <2>2. \A c \in Range(written) : arrays'[c] = arrays[c]
    BY <1>1, ArrivedFacts, ChunksAreSettled
  <2>3. UNION {Range(arrays'[c]) : c \in Range(written)} = UNION {Range(arrays[c]) : c \in Range(written)}
    BY <2>2
  <2> QED BY <1>1, <1>2, <2>1, <2>3 DEF HeldOK
<1>3. CASE written' # written
  <2>1. SendOn
    BY <1>3 DEF PipeNext, Arrives, Late, Return, Enqueue, Poll, Closes, CloseEvent, pipe, places
  <2> DEFINE chunk == Last(polled)
  <2>2. chunk \in 1..arrived /\ written' = Append(written, chunk) /\ arrays' = arrays
    BY <1>1, <1>3, <2>1, SendOnFacts DEF vars
  <2> HIDE DEF chunk
  <2>3. Held(written)' = Held(written) \o arrays[chunk] /\ Held(written) \in Seq(Nat)
        /\ arrays[chunk] \in Seq(Nat)
    BY <1>1, <2>2, HeldGrows
  <2>4. Range(written') = Range(written) \cup {chunk}
    BY <1>1, <2>2, AppendRange DEF PlaceInv, PlacesOK
  <2>5. ASSUME NEW s \in Seq(Nat), NEW t \in Seq(Nat)
        PROVE  s \o t \in Seq(Nat) /\ Range(s \o t) = Range(s) \cup Range(t)
    <3>1. /\ s \o t \in Seq(Nat) /\ DOMAIN s = 1..Len(s) /\ DOMAIN t = 1..Len(t)
          /\ Len(s) \in Nat /\ Len(t) \in Nat /\ DOMAIN (s \o t) = 1..(Len(s) + Len(t))
          /\ \A i \in 1..Len(s) : (s \o t)[i] = s[i]
          /\ \A i \in 1..Len(t) : (s \o t)[Len(s) + i] = t[i]
      OBVIOUS
    <3>2. \A i \in 1..(Len(s) + Len(t)) :
            i \in 1..Len(s) \/ (i - Len(s) \in 1..Len(t) /\ i = Len(s) + (i - Len(s)))
      BY <3>1
    <3>3. \A i \in 1..Len(s) : i \in 1..(Len(s) + Len(t))
      BY <3>1
    <3>4. \A i \in 1..Len(t) : Len(s) + i \in 1..(Len(s) + Len(t))
      BY <3>1
    <3>5. ASSUME NEW x \in Range(s \o t) PROVE x \in Range(s) \cup Range(t)
      <4>1. PICK i \in 1..(Len(s) + Len(t)) : x = (s \o t)[i]
        BY <3>1 DEF Range
      <4> QED BY <3>1, <3>2, <4>1 DEF Range
    <3>6. ASSUME NEW x \in Range(s) \cup Range(t) PROVE x \in Range(s \o t)
      BY <3>1, <3>3, <3>4 DEF Range
    <3> QED BY <3>1, <3>5, <3>6
  <2>6. UNION {Range(arrays[c]) : c \in Range(written) \cup {chunk}}
          = (UNION {Range(arrays[c]) : c \in Range(written)}) \cup Range(arrays[chunk])
    OBVIOUS
  <2> QED BY <1>1, <2>2, <2>3, <2>4, <2>5, <2>6 DEF HeldOK
<1> QED BY <1>2, <1>3

LEMMA LinkOpen == Link!Open = (1..received) \ (Range(Held(written)) \cup Dropped)
  BY DEF Link!Open, Link!Range, Range, Dropped

\* A chunk that is not written, dead or lost is still in the link.
LEMMA ChunkIsOpen ==
  ASSUME LinkInv, NEW c \in 1..Len(released), c \notin Range(written) \cup dead \cup lost
  PROVE  LET low == FirstOf(c)
             high == LastOf(arrays[c])
         IN /\ low \in 1..received /\ high \in 1..received /\ low..high # {}
            /\ low \in Nat /\ high \in Nat /\ low <= high
            /\ arrays[c] = [k \in 1..(high - low + 1) |-> low + k - 1]
            /\ Range(arrays[c]) = low..high /\ low..high \subseteq Link!Open
<1> DEFINE low == FirstOf(c)
           high == LastOf(arrays[c])
<1>1. IInv /\ PlaceInv /\ HeldOK
  BY DEF LinkInv
<1>2. c \in 1..batch /\ arrays[c] # <<>>
  BY <1>1, ArrivedFacts
<1>3. /\ low \in Nat \ {0} /\ high \in Nat /\ low <= high /\ Range(arrays[c]) = low..high
      /\ arrays[c] = [k \in 1..(high - low + 1) |-> low + k - 1]
  BY <1>1, <1>2, ArrayIsInterval
<1>4. Range(arrays[c]) \subseteq 1..received /\ received \in Nat
  BY <1>1, <1>2, HeldIsReceived, ArrayFacts
<1>5. \A d \in Range(written) \cup dead \cup lost : d # c /\ d \in 1..batch
  BY <1>1, ArrivedFacts
<1>6. \A d \in Range(written) \cup dead \cup lost : Range(arrays[d]) \cap Range(arrays[c]) = {}
  BY <1>1, <1>2, <1>5, ArraysAreApart
<1>7. Range(arrays[c]) \cap Range(Held(written)) = {}
  BY <1>1, <1>6 DEF HeldOK
<1>8. Range(arrays[c]) \cap (UNION {Range(arrays[d]) : d \in dead \cup lost}) = {}
  BY <1>6
<1>9. Range(arrays[c]) \subseteq Link!Open
  BY <1>4, <1>7, <1>8, LinkOpen DEF Dropped
<1>10. low \in low..high /\ high \in low..high
  BY <1>3
<1> HIDE DEF low, high
<1>11. low \in 1..received /\ high \in 1..received /\ low..high # {} /\ low..high \subseteq Link!Open
  BY <1>3, <1>4, <1>9, <1>10
<1> QED BY <1>3, <1>11 DEF low, high

\* The oldest payloads in the link, up to the last one of the chunk that the
\* application has, are those of this chunk: chunks before it are gone.
LEMMA WaitingIsOldest ==
  ASSUME LinkInv, NEW c \in 1..arrived, Waiting = {c}
  PROVE  {x \in Link!Open : x <= LastOf(arrays[c])} = Range(arrays[c])
<1>1. IInv /\ PlaceInv /\ HeldOK /\ InTurn /\ Apart
  BY DEF LinkInv, PlaceInv
<1>2. /\ c \in 1..Len(released) /\ c \in 1..batch /\ arrays[c] # <<>>
      /\ c \notin Range(written) \cup dead \cup lost
      /\ Range(queue) \cup Waiting \cup Range(written) \cup dead \cup lost = 1..arrived
      /\ \A i \in 1..arrived : i \in 1..batch /\ arrays[i] # <<>>
  BY <1>1, ArrivedFacts DEF Apart
<1>3. Range(arrays[c]) = FirstOf(c)..LastOf(arrays[c]) /\ Range(arrays[c]) \subseteq Link!Open
      /\ FirstOf(c) \in Nat /\ LastOf(arrays[c]) \in Nat
  BY <1>2, ChunkIsOpen
<1>4. ASSUME NEW x \in Link!Open, x <= LastOf(arrays[c]) PROVE x \in Range(arrays[c])
  <2>1. x \in 1..received /\ x \in Nat
    BY <1>1, ArrayFacts, LinkOpen
  <2>2. PICK i \in 1..batch : x \in Range(arrays[i])
    BY <1>1, <2>1, ReceivedIsHeld
  <2>3. arrays[i] # <<>>
    BY <2>2 DEF Range
  <2>4. Range(arrays[i]) = FirstOf(i)..LastOf(arrays[i]) /\ FirstOf(i) \in Nat
        /\ LastOf(arrays[i]) \in Nat
    BY <1>1, <2>3, ArrayIsInterval
  <2>5. i <= c
    <3> SUFFICES ASSUME ~(i <= c) PROVE FALSE
      OBVIOUS
    <3>1. LastOf(arrays[c]) < FirstOf(i)
      BY <1>1, <1>2, <2>3, ArraysFollow
    <3> QED BY <1>3, <1>4, <2>1, <2>2, <2>4, <3>1
  <2>6. CASE i < c
    <3>1. i \in 1..arrived
      BY <1>1, <2>6, ArrayFacts, ArrivedFacts
    <3>2. i \notin Range(queue)
      BY <1>1, <2>6 DEF InTurn
    <3>3. i \in Range(written) \cup dead \cup lost
      BY <1>2, <2>6, <3>1, <3>2
    <3>4. x \in Range(Held(written)) \cup Dropped
      BY <1>1, <2>2, <3>3 DEF HeldOK, Dropped
    <3> QED BY <3>4, LinkOpen
  <2>7. CASE ~(i < c)
    BY <2>2, <2>5, <2>7
  <2> QED BY <2>6, <2>7
<1> QED BY <1>3, <1>4

\* A chunk given up is dropped from the link.
LEMMA ChunkDrops ==
  ASSUME LinkInv, [PipeNext]_pipe, NEW c \in 1..Len(released),
         c \notin Range(written) \cup dead \cup lost,
         UNCHANGED <<arrays, received, written>>, dead' \cup lost' = dead \cup lost \cup {c}
  PROVE  Link!Drop
<1>1. IInv /\ PlaceInv
  BY DEF LinkInv
<1> DEFINE low == FirstOf(c)
           high == LastOf(arrays[c])
<1>2. /\ low \in 1..received /\ high \in 1..received /\ low..high # {}
      /\ Range(arrays[c]) = low..high /\ low..high \subseteq Link!Open
  BY ChunkIsOpen
<1>3. Held(written)' = Held(written)
  BY <1>1, HeldStays
<1>4. UNION {Range(arrays'[d]) : d \in dead' \cup lost'}
        = (UNION {Range(arrays[d]) : d \in dead \cup lost}) \cup Range(arrays[c])
  OBVIOUS
<1> HIDE DEF low, high
<1>5. UNION {Range(arrays'[d]) : d \in dead' \cup lost'}
        = (UNION {Range(arrays[d]) : d \in dead \cup lost}) \cup low..high
  BY <1>2, <1>4
<1> QED BY <1>2, <1>3, <1>5 DEF Link!Drop

LEMMA LinkStep ==
  ASSUME LinkInv, [PipeNext]_pipe
  PROVE  [Link!Next]_Link!vars
<1>1. IInv /\ PlaceInv /\ HeldOK
  BY DEF LinkInv
<1>2. CASE UNCHANGED <<written, dead, lost>>
  <2>1. Held(written)' = Held(written) /\ Dropped' = Dropped
    BY <1>1, <1>2, HeldStays, DroppedStays
  <2>2. received' = received \/ received' = received + 1
    BY DEF PipeNext, Arrives, Fill, Collect, Receive, Late, TimerFires, Return,
           ReleaseReturns, Enqueue, Poll, SendOn, Closes, CloseEvent, pipe, vars
  <2>3. CASE received' = received
    BY <2>1, <2>3 DEF Link!vars, Dropped
  <2>4. CASE received' = received + 1
    BY <2>1, <2>4 DEF Link!Next, Link!Put, Dropped
  <2> QED BY <2>2, <2>3, <2>4
<1>3. CASE Enqueue /\ ~UNCHANGED <<written, dead, lost>>
  <2> DEFINE c == arrived + 1
  <2>1. c \in 1..Len(released) /\ dead' = dead \cup {c} /\ lost' = lost
        /\ UNCHANGED <<arrays, received, written>>
    BY <1>1, <1>3, EnqueueFacts DEF vars
  <2>2. c \notin Range(written) \cup dead \cup lost
    BY <1>1, ArrivedFacts
  <2>3. dead' \cup lost' = dead \cup lost \cup {c}
    BY <2>1
  <2> HIDE DEF c
  <2>4. Link!Drop
    BY <2>1, <2>2, <2>3, ChunkDrops
  <2> QED BY <2>4 DEF Link!Next
<1>4. CASE SendOn
  <2> DEFINE c == Last(polled)
  <2>1. /\ Waiting = {c} /\ c \in 1..arrived /\ UNCHANGED <<arrays, received>>
        /\ \/ written' = Append(written, c) /\ UNCHANGED <<dead, lost>>
           \/ lost' = lost \cup {c} /\ UNCHANGED <<written, dead>>
           \/ dead' = dead \cup {c} /\ UNCHANGED <<written, lost>>
    BY <1>1, <1>4, SendOnFacts DEF vars
  <2> HIDE DEF c
  <2>2. c \in 1..Len(released) /\ c \notin Range(written) \cup dead \cup lost
    BY <1>1, <2>1, ArrivedFacts DEF PlaceInv, Apart
  <2>3. CASE UNCHANGED written
    <3>1. dead' \cup lost' = dead \cup lost \cup {c}
      <4>1. written' # Append(written, c)
        BY <1>1, <2>3 DEF PlaceInv, PlacesOK
      <4> QED BY <2>1, <4>1
    <3>2. Link!Drop
      BY <2>1, <2>2, <2>3, <3>1, ChunkDrops
    <3> QED BY <3>2 DEF Link!Next
  <2>4. CASE written' = Append(written, c) /\ UNCHANGED <<dead, lost>>
    <3> DEFINE low == FirstOf(c)
               high == LastOf(arrays[c])
    <3>1. /\ low \in Nat /\ high \in 1..received /\ high \in Nat /\ low <= high /\ low..high # {}
          /\ arrays[c] = [k \in 1..(high - low + 1) |-> low + k - 1]
          /\ Range(arrays[c]) = low..high
      BY <2>2, ChunkIsOpen
    <3>2. {x \in Link!Open : x <= high} = low..high
      BY <2>1, <3>1, WaitingIsOldest
    <3>3. Held(written)' = Held(written) \o arrays[c]
      BY <1>1, <2>1, <2>4, HeldGrows
    <3>4. Dropped' = Dropped
      BY <1>1, <2>4, DroppedStays
    <3> HIDE DEF low, high
    <3>5. Link!Ascending(low..high) = arrays[c]
      BY <3>1, AscendingInterval
    <3>6. Link!Get
      BY <2>1, <3>1, <3>2, <3>3, <3>4, <3>5 DEF Link!Get, Dropped
    <3> QED BY <3>6 DEF Link!Next
  <2> QED BY <2>1, <2>3, <2>4
<1>5. CASE ~Enqueue /\ ~SendOn
  BY <1>2, <1>5 DEF PipeNext, Arrives, Late, Return, Poll, Closes, CloseEvent, pipe, places
<1> QED BY <1>2, <1>3, <1>4, <1>5

LEMMA LinkInit == PipeInit => Link!Init
<1> SUFFICES ASSUME PipeInit PROVE Link!Init
  OBVIOUS
<1>1. received = 0 /\ written = <<>> /\ dead = {} /\ lost = {}
  BY DEF PipeInit, Init
<1> DEFINE s == [i \in DOMAIN written |-> arrays[written[i]]]
<1>2. s = <<>> /\ Len(s) = 0
  BY <1>1
<1>3. Held(written) = <<>>
  BY <1>2, FlattenEmpty DEF Held
<1> QED BY <1>1, <1>3 DEF Link!Init

\* The pipeline implements the first in first out link, for every size of chunks and
\* of the queue, whatever is dropped on the way (batching.js:52-57,
\* pollable.js:32-48, stream.js:36-46).
THEOREM PipelineIsLink == PipeSpec => IsLink
<1>1. PipeSpec => []IInv
  <2>1. ~Reentrant
    BY QueueAssumption
  <2> QED BY <2>1, PipelineRunsAggregator, BatchInvariant, PTL
<1>2. IInv => TypeOK /\ ReleasedOnce
  BY DEF IInv, InOrder
<1>3. IInv /\ PlaceInv /\ [PipeNext]_pipe => PlaceInv'
  BY <1>2, PlaceStep
<1>4. IInv /\ IInv' /\ PlaceInv /\ InTurn /\ HeldOK /\ [PipeNext]_pipe => InTurn' /\ HeldOK'
  BY InTurnStep, HeldStep DEF LinkInv
<1>5. PipeSpec => []LinkInv
  BY <1>1, <1>3, <1>4, PlaceInit, LinkInvInit, PTL DEF PipeSpec, LinkInv
<1> QED
  BY <1>5, LinkInit, LinkStep, PTL DEF PipeSpec, IsLink, Link!Spec
=============================================================================
