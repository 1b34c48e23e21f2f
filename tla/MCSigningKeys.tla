---------------------------- MODULE MCSigningKeys ----------------------------
(* SigningKeys on small instances.                                         *)
EXTENDS SigningKeys, TLC

\* Processes and keys are interchangeable.
Symmetry == Permutations(Procs) \cup Permutations(KeyIDs)
=============================================================================
