---------------------------- MODULE OneTimeStates ----------------------------
(***************************************************************************)
(* What oauth.StateStore (internal/oauth/state_store.go:16) promises its    *)
(* callers: a state is consumed at most once, not after its deadline, and   *)
(* with the details it was added with.  A store may lose states; it may not *)
(* bring one back.                                                          *)
(***************************************************************************)
EXTENDS Naturals

CONSTANTS States, Details, Callers, TTL, NoState, NoDetails

VARIABLES now,
          issued,    \* issued[s]: the details s was added with, or NoDetails
          deadline,  \* deadline[s]: the last moment at which s is good
          open,      \* the states that can still be consumed
          answer     \* answer[c]: the state that c consumed, and its details

vars == <<now, issued, deadline, open, answer>>

NoAnswer == <<NoState, NoDetails>>

Init ==
  /\ now = 0
  /\ issued = [s \in States |-> NoDetails]
  /\ deadline = [s \in States |-> 0]
  /\ open = {}
  /\ answer = [c \in Callers |-> NoAnswer]

TimePasses == now' \in Nat /\ now' >= now

Add(s, d) ==
  /\ TimePasses
  /\ issued[s] = NoDetails
  /\ issued' = [issued EXCEPT ![s] = d]
  /\ deadline' = [deadline EXCEPT ![s] = now' + TTL]
  /\ open' \subseteq open \cup {s}
  /\ UNCHANGED answer

Consume(c, s) ==
  /\ TimePasses
  /\ s \in open
  /\ now' <= deadline[s]
  /\ answer[c] = NoAnswer
  /\ answer' = [answer EXCEPT ![c] = <<s, issued[s]>>]
  /\ open' \subseteq open \ {s}
  /\ UNCHANGED <<issued, deadline>>

\* States expire, are lost, or are consumed by a call whose answer is lost.
Drop ==
  /\ TimePasses
  /\ open' \subseteq open
  /\ UNCHANGED <<issued, deadline, answer>>

Next ==
  \/ \E s \in States, d \in Details : Add(s, d)
  \/ \E c \in Callers, s \in States : Consume(c, s)
  \/ Drop

Spec == Init /\ [][Next]_vars
=============================================================================
