-------------------------- MODULE BatchingAggregator ------------------------
(***************************************************************************)
(* The batching aggregator (aggregators/batching.js): it collects payloads *)
(* in an array and releases the array as one message when it has reached a *)
(* size, or when a time has passed since its first payload.                *)
(*                                                                         *)
(* Payloads are numbered in the order they are received.  The array is     *)
(* sent by reference, so the arrays are kept as objects: the last one is   *)
(* the program's variable batch.  Between release(batch) and batch = []    *)
(* the receivers of the output run; they may send to the aggregator again. *)
(***************************************************************************)
EXTENDS Naturals, Sequences

CONSTANTS
  BatchSize,      \* opts.batch, 0 when the size is not a factor
  HasTimeout,     \* opts.timeout > 0
  Reentrant,      \* receivers of a chunk may send to the aggregator
  OutputMayFail,  \* the output channel may not resolve when a chunk is released
  MaxReceived     \* bound: how many messages are received

ASSUME OptionAssumption ==
  BatchSize \in Nat /\ HasTimeout \in BOOLEAN /\ (BatchSize > 0 \/ HasTimeout)
ASSUME SwitchAssumption == {Reentrant, OutputMayFail} \subseteq BOOLEAN
ASSUME BoundAssumption == MaxReceived \in Nat

VARIABLES
  arrays,    \* the arrays made so far; the last one is batch
  timeout,   \* the array whose timer the variable timeout holds, or 0
  timers,    \* the arrays whose timers are running
  depth,     \* how many calls of releaseHelper are in the middle of release
  released,  \* history: the arrays sent to the output, in order
  received,  \* history: how many payloads were received
  failed     \* history: some release threw

vars == <<arrays, timeout, timers, depth, released, received, failed>>

batch == Len(arrays)
-----------------------------------------------------------------------------
Init ==
  /\ arrays = << <<>> >> /\ timeout = 0 /\ timers = {} /\ depth = 0
  /\ released = <<>> /\ received = 0 /\ failed = FALSE

\* Mutant: what is pushed is not the payload that came.
MutantPushesOther == Append(arrays[batch], received)

Push == Append(arrays[batch], received + 1)

\* Mutant: the chunk is released one message late.
MutantFullLate(array) == BatchSize > 0 /\ Len(array) > BatchSize

Full(array) == BatchSize > 0 /\ Len(array) >= BatchSize

\* release(batch) is called: either the output resolves and its receivers run,
\* or the call throws and the statements after it do not run.
Releases ==
  /\ depth' = depth + 1 /\ released' = Append(released, batch)
  /\ UNCHANGED failed
ReleaseThrows ==
  /\ OutputMayFail /\ failed' = TRUE
  /\ UNCHANGED <<depth, released>>

\* A message is received, at top level or from a receiver of a chunk.
Receive ==
  /\ depth > 0 => Reentrant
  /\ received < MaxReceived
  /\ received' = received + 1
  /\ arrays' = [arrays EXCEPT ![batch] = Push]

\* It fills the batch.
Fill ==
  /\ Receive /\ Full(Push)
  /\ Releases \/ ReleaseThrows
  /\ UNCHANGED <<timeout, timers>>

\* It does not; the first one starts the timer.
Collect ==
  /\ Receive /\ ~Full(Push)
  /\ IF timeout = 0 /\ HasTimeout
       THEN timeout' = batch /\ timers' = timers \cup {batch}
       ELSE UNCHANGED <<timeout, timers>>
  /\ UNCHANGED <<depth, released, failed>>

\* The event loop runs a timer: its callback releases whatever batch there is.
\* If that throws, timeout keeps naming the timer that is over.
TimerFires ==
  /\ depth = 0
  /\ \E t \in timers : timers' = timers \ {t}
  /\ Releases \/ ReleaseThrows
  /\ UNCHANGED <<arrays, timeout, received>>

\* Mutant: the timer of a batch released for its size goes on.
MutantKeepsTimer ==
  /\ depth > 0
  /\ depth' = depth - 1
  /\ arrays' = Append(arrays, <<>>)
  /\ timeout' = 0
  /\ UNCHANGED <<timers, released, received, failed>>

\* Mutant: the released batch stays in use.
MutantKeepsBatch ==
  /\ depth > 0
  /\ depth' = depth - 1
  /\ timers' = timers \ {timeout} /\ timeout' = 0
  /\ UNCHANGED <<arrays, released, received, failed>>

\* release(batch) returns: a new batch, and no timer.
ReleaseReturns ==
  /\ depth > 0
  /\ depth' = depth - 1
  /\ arrays' = Append(arrays, <<>>)
  /\ timers' = timers \ {timeout} /\ timeout' = 0
  /\ UNCHANGED <<released, received, failed>>

Next == Fill \/ Collect \/ TimerFires \/ ReleaseReturns

Spec == Init /\ [][Next]_vars

-----------------------------------------------------------------------------
(* Properties. *)

\* The values the variables may take.
TypeOK ==
  /\ arrays \in Seq(Seq(1..MaxReceived)) /\ arrays # <<>>
  /\ timeout \in 0..batch /\ timers \subseteq 1..batch
  /\ depth \in Nat /\ released \in Seq(1..batch)
  /\ received \in 0..MaxReceived /\ failed \in BOOLEAN

LastOf(array) == array[Len(array)]

\* Every array but the current one was released, once, in order, and not empty;
\* the current one may be on its way out.
ReleasedOnce ==
  /\ depth \in {0, 1}
  /\ Len(released) = batch - 1 + depth
  /\ \A i \in 1..Len(released) : released[i] = i /\ arrays[i] # <<>>

\* Read one after the other, the arrays count.
Consecutive ==
  \A i \in 1..batch : \A k \in 1..Len(arrays[i]) :
    arrays[i][k] = IF k > 1 THEN arrays[i][k - 1] + 1
                   ELSE IF i > 1 THEN LastOf(arrays[i - 1]) + 1 ELSE 1

\* They count as far as what was received.
UpToDate ==
  received = IF arrays[batch] # <<>> THEN LastOf(arrays[batch])
             ELSE IF batch > 1 THEN LastOf(arrays[batch - 1]) ELSE 0

\* No payload is lost, repeated or reordered, also when a release throws and the
\* payloads have to wait for the next one: the chunks released and the batch,
\* read one after the other, hold what was received (batching.js:52-63).
InOrder == ReleasedOnce /\ Consecutive /\ UpToDate

\* A chunk never outgrows the size asked for, unless a release threw
\* (batching.js:26-27, 61-63).
AbsoluteSize ==
  BatchSize > 0 /\ ~failed => \A i \in 1..batch : Len(arrays[i]) <= BatchSize

\* The time of a chunk counts from its own first payload: no timer of an earlier
\* batch is left to cut a later one short, and unless a release threw, payloads
\* that wait have their timer (batching.js:28-29, 55-56, 64-68).
TimerOfThisBatch ==
  /\ timers \subseteq {timeout}
  /\ timeout # 0 => timeout = batch
  /\ HasTimeout /\ depth = 0 /\ ~failed =>
       (arrays[batch] # <<>> <=> timers = {batch})
=============================================================================
