---------------------------- MODULE BatchPipeline ----------------------------
(***************************************************************************)
(* A stream that is read in chunks: the inbound adapter of a stream feeds  *)
(* the batching aggregator, its chunks wait in a queue channel, and the    *)
(* application polls them one by one and sends them to the outbound        *)
(* adapter of another stream, which may close (adapters/stream.js,         *)
(* adapters/webSocket.js, channels/queue.js, dispatchers/pollable.js).     *)
(*                                                                         *)
(* A chunk is the array of BatchingAggregator, by reference.  Nobody else  *)
(* listens to the queue channel, so the aggregator is not re-entered.      *)
(***************************************************************************)
EXTENDS BatchingAggregator, SequencesExt

CONSTANT
  QueueLimit  \* how many messages the queue strategy holds

ASSUME QueueAssumption == QueueLimit \in Nat \ {0} /\ ~Reentrant

VARIABLES
  queue,    \* the chunks in the queue
  arrived,  \* how many of the released chunks reached the queue channel
  polled,   \* the chunks the application received
  written,  \* the chunks written to the outbound stream
  dead,     \* the chunks that went to the dead letter or invalid message channel
  lost,     \* the chunks given to the outbound stream when it was closed
  stream,   \* the outbound stream: "open", "closed", and once its close event
            \* was handled, "left"
  busy      \* whether the application has a chunk to send on

places == <<queue, arrived, polled, written, dead, lost, stream, busy>>
pipe == <<vars, places>>

PipeInit ==
  /\ Init
  /\ queue = <<>> /\ arrived = 0 /\ polled = <<>> /\ written = <<>>
  /\ dead = {} /\ lost = {} /\ stream = "open" /\ busy = FALSE

InChannel == arrived < Len(released)
-----------------------------------------------------------------------------
\* The inbound stream has data, or the timer fires.
Arrives == ~InChannel /\ (Fill \/ Collect) /\ UNCHANGED places
Late == ~InChannel /\ TimerFires /\ UNCHANGED places

\* Mutant: a message is kept and reported all the same.
MutantEnqueues ==
  /\ InChannel /\ arrived' = arrived + 1
  /\ \/ /\ Len(queue) < QueueLimit /\ queue' = Append(queue, released[arrived'])
        /\ UNCHANGED dead
     \/ queue' = Append(queue, released[arrived']) /\ dead' = dead \cup {released[arrived']}
  /\ UNCHANGED <<vars, polled, written, lost, stream, busy>>

\* dispatcher.dispatch of the queue channel: push stores the chunk, or throws or
\* returns 0, and the chunk is a dead letter.
Enqueue ==
  /\ InChannel /\ arrived' = arrived + 1
  /\ \/ /\ Len(queue) < QueueLimit /\ queue' = Append(queue, released[arrived'])
        /\ UNCHANGED dead
     \/ dead' = dead \cup {released[arrived']} /\ UNCHANGED queue
  /\ UNCHANGED <<vars, polled, written, lost, stream, busy>>

Return == ~InChannel /\ ReleaseReturns /\ UNCHANGED places

\* Mutant: the newest message is taken first.
MutantTakesLast ==
  /\ depth = 0 /\ ~busy /\ queue # <<>>
  /\ polled' = Append(polled, Last(queue)) /\ queue' = Front(queue)
  /\ busy' = TRUE
  /\ UNCHANGED <<vars, arrived, written, dead, lost, stream>>

\* receive(): the application takes the next chunk, if there is one.
Poll ==
  /\ depth = 0 /\ ~busy /\ queue # <<>>
  /\ polled' = Append(polled, Head(queue)) /\ queue' = Tail(queue)
  /\ busy' = TRUE
  /\ UNCHANGED <<vars, arrived, written, dead, lost, stream>>

\* Mutant: a channel without subscriber says that it delivered the message.
MutantLeavesSilently ==
  /\ depth = 0 /\ busy /\ busy' = FALSE
  /\ written' = IF stream = "open" THEN Append(written, Last(polled)) ELSE written
  /\ UNCHANGED <<vars, queue, arrived, polled, dead, lost, stream>>

\* It sends the chunk to the input of the outbound adapter.  The adapter writes
\* it, and a stream that is closed drops it; a write that throws makes it an
\* invalid message; when the adapter has left, it is a dead letter.
SendOn ==
  /\ depth = 0 /\ busy /\ busy' = FALSE
  /\ LET chunk == Last(polled) IN
       \/ stream = "open" /\ written' = Append(written, chunk) /\ UNCHANGED <<dead, lost>>
       \/ stream = "closed" /\ lost' = lost \cup {chunk} /\ UNCHANGED <<written, dead>>
       \/ dead' = dead \cup {chunk} /\ UNCHANGED <<written, lost>>
  /\ UNCHANGED <<vars, queue, arrived, polled, stream>>

Closes ==
  /\ depth = 0 /\ stream = "open" /\ stream' = "closed"
  /\ UNCHANGED <<vars, queue, arrived, polled, written, dead, lost, busy>>

\* The close listener takes the adapter from its input channel.
CloseEvent ==
  /\ depth = 0 /\ stream = "closed" /\ stream' = "left"
  /\ UNCHANGED <<vars, queue, arrived, polled, written, dead, lost, busy>>

PipeNext ==
  Arrives \/ Late \/ Enqueue \/ Return \/ Poll \/ SendOn \/ Closes \/ CloseEvent

PipeSpec == PipeInit /\ [][PipeNext]_pipe

\* Calls return, the event loop runs timers that are due and events that were
\* emitted, and the application goes on polling.
PipeFairSpec ==
  /\ PipeSpec
  /\ WF_pipe(Enqueue \/ Return) /\ WF_pipe(Late)
  /\ WF_pipe(Poll \/ SendOn) /\ WF_pipe(CloseEvent)
-----------------------------------------------------------------------------
(* Properties. *)

Held(chunks) == FlattenSeq([i \in DOMAIN chunks |-> arrays[chunks[i]]])

\* The pipeline is a first in first out link: payloads are written at most once and
\* in the order they were received, none is passed over but those that were
\* reported dead or given to a closed stream, and a chunk does not change once it
\* is queued (batching.js:52-57, pollable.js:32-48, stream.js:36-46).
Link == INSTANCE FifoLink WITH
  in <- received, out <- Held(written),
  dropped <- UNION {Range(arrays[c]) : c \in dead \cup lost}
IsLink == Link!Spec

\* Each chunk is at one place: on its way, queued, with the application, written,
\* dead or lost (msgs.js:337, pollable.js:43-48).
OnePlace ==
  LET waiting == IF busy THEN {Last(polled)} ELSE {}
      places1 == <<Range(queue), waiting, Range(written), dead, lost,
                   {released[i] : i \in (arrived + 1)..Len(released)}>>
  IN /\ UNION Range(places1) = Range(released)
     /\ \A i, j \in DOMAIN places1 : i # j => places1[i] \cap places1[j] = {}

\* While the application polls, no payload stays in the pipeline for ever, unless a
\* release threw (batching.js:64-68, queue.js:26-28).
EachIsTaken ==
  \A i \in 1..MaxReceived :
    received >= i ~> \/ failed
                     \/ \E c \in Range(written) \cup dead \cup lost :
                          i \in Range(arrays[c])
=============================================================================
