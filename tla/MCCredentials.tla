---------------------------- MODULE MCCredentials ----------------------------
(* Credentials with a user and an operator; the user may show his access   *)
(* tokens to the operator, who stands for the applications too.            *)
EXTENDS Credentials

MCCallers == {"user", "ops"}
MCEmails == {"e1", "e2"}
MCMailOwner == [e \in MCEmails |-> IF e = "e1" THEN "user" ELSE "ops"]
MCGitOwner == [g \in {"g1"} |-> "user"]
MCGitEmails == [g \in {"g1"} |-> {"e1", "e2", None}]
MCScopeSets == {{"users.read", "accounts.read", "audit.read"}, {"users.*"}}
=============================================================================
