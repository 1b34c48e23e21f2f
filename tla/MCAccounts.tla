----------------------------- MODULE MCAccounts -----------------------------
(* Accounts on a small instance.                                           *)
EXTENDS Accounts, TLC

\* All these are interchangeable: the model only compares them for equality.
Symmetry == Permutations(Requests) \cup Permutations(UserIDs)
              \cup Permutations(Emails) \cup Permutations(Passwords)
=============================================================================
