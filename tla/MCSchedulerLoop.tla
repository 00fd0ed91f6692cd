-------------------------- MODULE MCSchedulerLoop --------------------------
(***************************************************************************)
(* The symmetry of the runs of SchedulerLoop.                              *)
(***************************************************************************)
EXTENDS SchedulerLoop, TLC

Symmetry == Permutations(Tasks) \cup Permutations(Workers) \cup Permutations(Consumers)
=============================================================================
