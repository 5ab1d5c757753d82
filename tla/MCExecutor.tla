----------------------------- MODULE MCExecutor -----------------------------
(***************************************************************************)
(* The instances of Executor that TLC checks.                              *)
(***************************************************************************)
EXTENDS ExecutorInvariant, TLC

CONSTANTS c1, c2, b1, b2

OneConnection == {c1}
TwoConnections == {c1, c2}
OneBatch == {b1}
TwoBatches == {b1, b2}

\* Connections and batches are interchangeable; descriptors are numbers.
Symmetry == Permutations(Connections) \cup Permutations(Batches)
=============================================================================
