------------------------------ MODULE MCServer ------------------------------
(* Server with a process of an older and one of a newer build.             *)
EXTENDS Server

CONSTANTS Old, New

MCCurrentSchemaVersion == [p \in {Old, New} |-> IF p = Old THEN 2 ELSE 3]
=============================================================================
