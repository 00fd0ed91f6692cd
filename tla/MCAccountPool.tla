--------------------------- MODULE MCAccountPool ---------------------------
(***************************************************************************)
(* The constants of the run of AccountPool.  A tick stands for a second    *)
(* where two rows may share one, and for half an hour where a lock runs.   *)
(***************************************************************************)
EXTENDS AccountPool

\* the loop of a session takes time, so that no worker can hold the clock
SlowLoop == [p \in TimedPoints |-> IF p \in Connected THEN 1 ELSE 0]
=============================================================================
