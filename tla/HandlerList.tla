----------------------------- MODULE HandlerList ----------------------------
(***************************************************************************)
(* The list of handlers of a dispatcher (dispatchers/_subscribable.js):    *)
(* in the order they were subscribed, and each of them once.               *)
(***************************************************************************)
EXTENDS Naturals, Sequences

Members(q) == {q[i] : i \in 1..Len(q)}

Distinct(q) == \A i, j \in 1..Len(q) : q[i] = q[j] => i = j

\* Mutant: subscribe() does not look for the handler first.
MutantAddAlways(q, h) == Append(q, h)

Add(q, h) == IF h \in Members(q) THEN q ELSE Append(q, h)

\* slice before the index and slice after it.
Without(q, h) ==
  IF h \notin Members(q) THEN q
  ELSE LET index == CHOOSE i \in 1..Len(q) : q[i] = h
       IN SubSeq(q, 1, index - 1) \o SubSeq(q, index + 1, Len(q))
=============================================================================
