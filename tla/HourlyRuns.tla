----------------------------- MODULE HourlyRuns -----------------------------
(***************************************************************************)
(* What the claim protocol promises: a task is run at most once in each    *)
(* hour of the clock, and never for an hour that is already over.          *)
(***************************************************************************)
EXTENDS Naturals, Sequences

CONSTANT Tasks

VARIABLES now,  \* the hour of the clock
          runs  \* runs[t]: the hours in which t was handed to a worker

Init == now = 0 /\ runs = [t \in Tasks |-> <<>>]

NextHour == now' = now + 1 /\ UNCHANGED runs

\* t is handed to a worker, the first time in this hour
Hand(t) == /\ \A i \in 1 .. Len(runs[t]) : runs[t][i] < now
           /\ runs' = [runs EXCEPT ![t] = Append(@, now)]
           /\ UNCHANGED now

\* a deleted task takes its history with it
Forget(t) == runs' = [runs EXCEPT ![t] = <<>>] /\ UNCHANGED now

Next == NextHour \/ \E t \in Tasks : Hand(t) \/ Forget(t)

Spec == Init /\ [][Next]_<<now, runs>>
=============================================================================
