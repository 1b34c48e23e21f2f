---------------------------- MODULE MCEmailCodes ----------------------------
(* EmailCodes on small instances.                                          *)
EXTENDS EmailCodes
=============================================================================
