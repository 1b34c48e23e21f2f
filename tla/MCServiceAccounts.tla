-------------------------- MODULE MCServiceAccounts --------------------------
(* ServiceAccounts on a small instance.                                    *)
EXTENDS ServiceAccounts, TLC

\* No definition of ServiceAccounts tells these values apart.
Symmetry == Permutations(ClientIDs) \cup Permutations(Names)
              \cup Permutations(Secrets) \cup Permutations(Requests)
=============================================================================
