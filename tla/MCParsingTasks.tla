--------------------------- MODULE MCParsingTasks ---------------------------
(***************************************************************************)
(* The constants of the runs of ParsingTasks.                              *)
(***************************************************************************)
EXTENDS ParsingTasks, TLC

\* every URL names the one channel: the case of duplicates
OneChannel == [t \in Tasks |-> Channels]

\* a transaction that stamped a time commits before the hour ends
PromptTransactions == {"locked", "settling"}

WorkerSymmetry == Permutations(Workers)
Symmetry == Permutations(Workers) \cup Permutations(Tasks) \cup Permutations(Requests)
=============================================================================
