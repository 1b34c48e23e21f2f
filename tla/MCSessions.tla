----------------------------- MODULE MCSessions -----------------------------
(* Sessions on a small instance.                                           *)
EXTENDS Sessions, TLC

\* Requests and pairs are interchangeable: no definition of Sessions orders
\* them, and the properties checked with this set are invariants.
Symmetry == Permutations(Requests) \cup Permutations(Pairs)
=============================================================================
