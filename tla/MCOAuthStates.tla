---------------------------- MODULE MCOAuthStates ----------------------------
(* OAuthStates on a small instance.                                        *)
EXTENDS OAuthStates, TLC

\* No definition of OAuthStates tells these values apart.
Symmetry == Permutations(States) \cup Permutations(Details) \cup Permutations(Requests)
=============================================================================
