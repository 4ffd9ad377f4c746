---------------------------- MODULE MCBatchQueue ----------------------------
(* Instances of BatchQueue for TLC. *)
EXTENDS BatchQueue, TLC

CONSTANTS b1, b2

Two == {b1, b2}

\* Callers and workers are told apart by nothing but their batch.
Symmetry == Permutations(Batches)

AllFaults == FaultKinds
NoFaults == {}
DeathsAndMissedWatches == {"missedWatch", "crash"}

Never == {}
InSend == {"send"}
=============================================================================
