------------------------------- MODULE FifoLink ------------------------------
(***************************************************************************)
(* What may be expected of a pipeline of channels (queue.js:36-40, the     *)
(* adapters): what is put in comes out at most once and in order, and      *)
(* nothing is passed over unless it was dropped.                           *)
(***************************************************************************)
EXTENDS Naturals, Sequences, SequencesExt

VARIABLES
  in,      \* how many payloads were put in
  out,     \* the payloads that came out
  dropped  \* those that were not to come out

vars == <<in, out, dropped>>

Init == in = 0 /\ out = <<>> /\ dropped = {}

Put == in' = in + 1 /\ UNCHANGED <<out, dropped>>

\* The numbers of S from the smallest up: the k-th one has k - 1 below it.
Ascending(S) ==
  [k \in 1..Cardinality(S) |-> CHOOSE x \in S : Cardinality({y \in S : y < x}) = k - 1]

Open == (1..in) \ (Range(out) \cup dropped)

\* Some payloads come out: the oldest that are still in.
Get ==
  /\ \E n \in 1..in :
       LET S == {i \in Open : i <= n} IN
         S # {} /\ out' = out \o Ascending(S)
  /\ UNCHANGED <<in, dropped>>

Drop ==
  /\ \E low, high \in 1..in :
       low..high # {} /\ low..high \subseteq Open /\ dropped' = dropped \cup low..high
  /\ UNCHANGED <<in, out>>

Next == Put \/ Get \/ Drop

Spec == Init /\ [][Next]_vars
=============================================================================
