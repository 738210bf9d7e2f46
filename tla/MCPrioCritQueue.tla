--------------------------- MODULE MCPrioCritQueue ---------------------------
(***************************************************************************)
(* TLC instance of PrioCritQueue.  No action reads ret, so two states that *)
(* agree on the rings have the same future: TLC explores one of them and   *)
(* still judges the answer of every step.                                  *)
(***************************************************************************)
EXTENDS PrioCritQueue, TLC

EltSymmetry == Permutations(Elt)
Rings == q
=============================================================================
