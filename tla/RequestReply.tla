---------------------------- MODULE RequestReply ----------------------------
(***************************************************************************)
(* What a gateway promises to those who call it (gateways.js:18-53): each  *)
(* call is answered at most once, with the whole answer to its own request *)
(* or with an error for which there was a reason.                          *)
(***************************************************************************)
EXTENDS Naturals, Sequences

CONSTANTS
  Call,       \* the calls
  PartCounts  \* how many parts the answer to a request may have

VARIABLES
  state,   \* what has become of each call
  answer,  \* the parts it was answered with: their calls and numbers
  faulty   \* the calls for which something failed

vars == <<state, answer, faulty>>

\* The answer to call c in n parts.
Whole(c, n) == [i \in 1..n |-> <<c, i - 1>>]

Init ==
  /\ state = [c \in Call |-> "idle"]
  /\ answer = [c \in Call |-> <<>>]
  /\ faulty = {}

Ask(c) ==
  /\ state[c] = "idle"
  /\ state' = [state EXCEPT ![c] = "pending"]
  /\ UNCHANGED <<answer, faulty>>

Fail(c) ==
  /\ state[c] # "idle"
  /\ faulty' = faulty \cup {c}
  /\ UNCHANGED <<state, answer>>

Resolve(c) ==
  /\ state[c] = "pending"
  /\ state' = [state EXCEPT ![c] = "resolved"]
  /\ \E n \in PartCounts \ {0} : answer' = [answer EXCEPT ![c] = Whole(c, n)]
  /\ UNCHANGED faulty

Reject(c) ==
  /\ state[c] = "pending" /\ c \in faulty
  /\ state' = [state EXCEPT ![c] = "rejected"]
  /\ UNCHANGED <<answer, faulty>>

Next == \E c \in Call : Ask(c) \/ Fail(c) \/ Resolve(c) \/ Reject(c)

Spec == Init /\ [][Next]_vars
=============================================================================
