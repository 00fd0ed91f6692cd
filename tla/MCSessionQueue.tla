--------------------------- MODULE MCSessionQueue ---------------------------
(***************************************************************************)
(* The symmetry of the runs of SessionQueue.                               *)
(***************************************************************************)
EXTENDS SessionQueue, TLC

Symmetry == Permutations(Accounts) \cup Permutations(Workers)
=============================================================================
