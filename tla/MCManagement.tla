---------------------------- MODULE MCManagement ----------------------------
(* Management on a small instance: two users and two events to begin with, *)
(* pages of one or two entries.                                            *)
EXTENDS Management

MCOldUsers == <<"u1", "u2">>
MCUserIDs == {"u1", "u2", "u3"}
=============================================================================
