---------------------------- MODULE MCPhpRequests ----------------------------
(***************************************************************************)
(* The instances of PhpRequests that TLC checks.                           *)
(***************************************************************************)
EXTENDS PhpRequests, TLC

\* Addresses, PHP objects and descriptors are interchangeable.
Symmetry ==
    Permutations(Addresses) \cup Permutations(Objects) \cup Permutations(Fds)
=============================================================================
