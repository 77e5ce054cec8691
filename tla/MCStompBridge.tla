---------------------------- MODULE MCStompBridge ---------------------------
(***************************************************************************)
(* Small instances of StompBridge.                                         *)
(***************************************************************************)
EXTENDS StompBridge, TLC

CONSTANTS d1, d2,   \* destinations
          h1, h2    \* handlers

Symmetry == Permutations({h1, h2}) \cup Permutations({d1, d2})
=============================================================================
