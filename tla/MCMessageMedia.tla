--------------------------- MODULE MCMessageMedia ---------------------------
(***************************************************************************)
(* The symmetry of the runs of MessageMedia.                               *)
(***************************************************************************)
EXTENDS MessageMedia, TLC

Symmetry == Permutations(Workers) \cup Permutations(Requests) \cup Permutations(Files)
=============================================================================
