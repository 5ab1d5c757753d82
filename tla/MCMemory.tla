------------------------------ MODULE MCMemory ------------------------------
(***************************************************************************)
(* The instances of Memory that TLC checks.                                *)
(***************************************************************************)
EXTENDS Memory, TLC

\* Addresses are interchangeable.
Symmetry ==
    Permutations(Connections) \cup Permutations(Batches) \cup Permutations(Replies)
=============================================================================
