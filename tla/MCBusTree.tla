------------------------------ MODULE MCBusTree ------------------------------
(***************************************************************************)
(* A small instance of BusTree: the root, a bus made by it, and a bus made *)
(* by that one.                                                            *)
(***************************************************************************)
EXTENDS BusTree, TLC

CONSTANTS root, kid, grandkid

ThreeBuses == {root, kid, grandkid}
InARow == kid :> root @@ grandkid :> kid
Interchangeable == Permutations(Name) \cup Permutations(Channel)
=============================================================================
