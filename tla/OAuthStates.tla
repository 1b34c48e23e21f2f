----------------------------- MODULE OAuthStates -----------------------------
(***************************************************************************)
(* OAuth states: StartOAuthLogin adds one, LoginWithOAuth and               *)
(* LinkOAuthAccount consume it (internal/identra/service_oauth.go), in the  *)
(* in-memory store (internal/oauth/state_store.go) or in the Redis store    *)
(* (internal/cache/redis_oauth_state_store.go).  Both are shown to          *)
(* implement OneTimeStates.                                                 *)
(*                                                                         *)
(* The in-memory store reads the clock twice in a call, once to drop what   *)
(* has expired and once for the state at hand; the clock may move between.  *)
(* Redis drops a key when its TTL is over, and a call to it may fail after  *)
(* it took effect.                                                          *)
(***************************************************************************)
EXTENDS Naturals

CONSTANTS States,
          Details,      \* a provider and a redirect URL
          Requests,
          TTL,
          MaxTime,      \* bound on the clock
          NoState, NoDetails

ASSUME TTLAssumption == TTL \in Nat \ {0}
ASSUME NilAssumption == NoState \notin States /\ NoDetails \notin Details

VARIABLES
  store,      \* "memory" or "redis"
  now,
  values,     \* values[s]: the details in the store; NoDetails: no entry
  expiresAt,  \* expiresAt[s]: the entry's ExpiresAt, or the end of its TTL
  known,      \* states that StartOAuthLogin has answered with
  pc,         \* pc[r]: "idle", "exchange", "ok" or "failed"
  st, det,    \* st[r], det[r]: the state r presented; the details it got for it
  restarts,   \* the number of restarts of the server, modulo 2
  issued      \* history: issued[s] is what s was added with

inStore == <<values, expiresAt, issued>>
vars == <<store, now, inStore, known, pc, st, det, restarts>>

\* Every variable has its type, and a request that goes on to the provider has
\* the redirect URL that its state was added with.
TypeOK ==
  /\ store \in {"memory", "redis"}
  /\ now \in Nat
  /\ values \in [States -> Details \cup {NoDetails}]
  /\ expiresAt \in [States -> Nat]
  /\ known \subseteq States
  /\ pc \in [Requests -> {"idle", "exchange", "ok", "failed"}]
  /\ st \in [Requests -> States \cup {NoState}]
  /\ det \in [Requests -> Details \cup {NoDetails}]
  /\ restarts \in {0, 1}
  /\ issued \in [States -> Details \cup {NoDetails}]
  /\ \A r \in Requests : pc[r] = "exchange" => st[r] \in States /\ det[r] = issued[st[r]]

Init ==
  /\ store \in {"memory", "redis"}
  /\ now = 0
  /\ values = [s \in States |-> NoDetails]
  /\ expiresAt = [s \in States |-> 0]
  /\ known = {}
  /\ pc = [r \in Requests |-> "idle"]
  /\ st = [r \in Requests |-> NoState]
  /\ det = [r \in Requests |-> NoDetails]
  /\ restarts = 0
  /\ issued = [s \in States |-> NoDetails]

-----------------------------------------------------------------------------
(* The stores.                                                             *)

Open == {s \in States : values[s] # NoDetails}

\* What is left when the states in S are removed.
Without(S) == [s \in States |-> IF s \in S THEN NoDetails ELSE values[s]]

\* Expiry as the in-memory store tests it: the last moment still counts.
After(s) == now > expiresAt[s]

\* Mutant: entries are dropped one moment early.
CleanupLocked_Early == Without({s \in States : now + 1 >= expiresAt[s]})

CleanupLocked == Without({s \in States : After(s)})

\* The second reading of the clock in a call.
ReadClockAgain == now' \in {now, now + 1} /\ now' <= MaxTime

\* Store s with details d; s is random, so it has not been used before.
Put(s, d, left) ==
  /\ issued[s] = NoDetails
  /\ values' = [left EXCEPT ![s] = d]
  /\ expiresAt' = [expiresAt EXCEPT ![s] = now' + TTL]
  /\ issued' = [issued EXCEPT ![s] = d]

-----------------------------------------------------------------------------
(* The handlers.                                                           *)

Finish(r, s) == pc' = [pc EXCEPT ![r] = s]

\* StartOAuthLogin: generateOAuthState, Add, and the answer.
AddInMemory(r, s, d) ==
  /\ store = "memory" /\ pc[r] = "idle"
  /\ ReadClockAgain
  /\ Put(s, d, CleanupLocked)
  /\ known' = known \cup {s}
  /\ Finish(r, "ok")
  /\ UNCHANGED <<store, st, det, restarts>>

AddInRedis(r, s, d) ==
  /\ store = "redis" /\ pc[r] = "idle"
  /\ UNCHANGED now
  /\ Put(s, d, values)
  /\ known' = known \cup {s}
  /\ Finish(r, "ok")
  /\ UNCHANGED <<store, st, det, restarts>>

\* A client or its browser calls back with a state it was given.
Present(r, s) ==
  /\ pc[r] = "idle" /\ s \in known
  /\ st' = [st EXCEPT ![r] = s]
  /\ UNCHANGED <<store, expiresAt, issued, known, restarts>>

\* Consume found s: the request goes on to the provider.
Accept(r, s) ==
  /\ Finish(r, "exchange")
  /\ det' = [det EXCEPT ![r] = values[s]]

Refuse(r) == Finish(r, "failed") /\ UNCHANGED det

\* Mutant: the clock is not read again after the cleanup.
ConsumeInMemory_Once(r, s) ==
  /\ store = "memory" /\ Present(r, s)
  /\ ReadClockAgain
  /\ values' = [CleanupLocked EXCEPT ![s] = NoDetails]
  /\ IF CleanupLocked[s] # NoDetails
     THEN Accept(r, s)
     ELSE Refuse(r)

\* LoginWithOAuth or LinkOAuthAccount with a state that a client was given.
ConsumeInMemory(r, s) ==
  /\ store = "memory" /\ Present(r, s)
  /\ ReadClockAgain
  /\ values' = [CleanupLocked EXCEPT ![s] = NoDetails]
  /\ IF CleanupLocked[s] # NoDetails /\ now' <= expiresAt[s]
     THEN Accept(r, s)
     ELSE Refuse(r)

\* The script: GET and DEL in one step.
ConsumeInRedis(r, s) ==
  /\ store = "redis" /\ Present(r, s)
  /\ values' = Without({s})
  /\ IF values[s] # NoDetails
     THEN Accept(r, s)
     ELSE Refuse(r)
  /\ UNCHANGED now

\* Add fails: nobody learns the state, which may have been stored.
AddError(r, s, d) ==
  /\ store = "redis" /\ pc[r] = "idle"
  /\ UNCHANGED now
  /\ Put(s, d, values) \/ UNCHANGED inStore
  /\ Finish(r, "failed")
  /\ UNCHANGED <<store, known, st, det, restarts>>

\* Consume fails: the state may be gone.
ConsumeError(r, s) ==
  /\ store = "redis" /\ Present(r, s)
  /\ values' \in {values, Without({s})}
  /\ Refuse(r)
  /\ UNCHANGED now

\* The code exchange and the user info; what follows is in Accounts.
Exchange(r) ==
  /\ pc[r] = "exchange"
  /\ Finish(r, "ok") \/ Finish(r, "failed")
  /\ UNCHANGED <<store, now, inStore, known, st, det, restarts>>

\* The server restarts; what it had in memory is lost.
Restart ==
  /\ restarts' = (restarts + 1) % 2
  /\ values' = IF store = "memory" THEN Without(States) ELSE values
  /\ pc' = [r \in Requests |-> IF pc[r] = "exchange" THEN "failed" ELSE pc[r]]
  /\ UNCHANGED <<store, now, expiresAt, issued, known, st, det>>

\* A second passes; Redis drops the keys whose TTL is over.
Tick ==
  /\ now < MaxTime
  /\ now' = now + 1
  /\ values' = IF store = "redis" THEN Without({s \in States : expiresAt[s] <= now + 1})
                                  ELSE values
  /\ UNCHANGED <<store, expiresAt, issued, known, pc, st, det, restarts>>

Next ==
  \/ \E r \in Requests, s \in States :
       \/ \E d \in Details : AddInMemory(r, s, d)
       \/ \E d \in Details : AddInRedis(r, s, d)
       \/ \E d \in Details : AddError(r, s, d)
       \/ ConsumeInMemory(r, s)
       \/ ConsumeInRedis(r, s)
       \/ ConsumeError(r, s)
  \/ \E r \in Requests : Exchange(r)
  \/ Restart
  \/ Tick

Spec == Init /\ [][Next]_vars

-----------------------------------------------------------------------------
(* Properties.                                                             *)

Used(r) == det[r] # NoDetails

\* A state leads to one login: however often a client or its browser presents
\* it, and whatever calls fail, one request at most goes on with it.
StateUsedOnce ==
  \A q, r \in Requests : Used(q) /\ Used(r) /\ st[q] = st[r] => q = r

\* No state disappears without a cause: one that has not expired leaves the
\* store only when a request presents it, or with the memory of the server.
LostOnlyWithCause ==
  [][\A s \in Open \ Open' :
       \/ now' >= expiresAt[s]
       \/ restarts' # restarts
       \/ \E r \in Requests : st[r] # s /\ st'[r] = s]_vars

StoredWasAdded == \A s \in States : values[s] \in {NoDetails, issued[s]}

UsedIsGone ==
  \A r \in Requests :
    Used(r) => st[r] \in States /\ det[r] = issued[st[r]] /\ st[r] \notin Open

Progress ==
  \A r \in Requests : /\ pc[r] = "idle" => ~Used(r) /\ st[r] = NoState
                      /\ pc[r] = "exchange" => Used(r)

FreshInRedis == store = "redis" => \A s \in Open : now < expiresAt[s]

\* What was consumed is gone, what is stored was added and, in Redis, has not
\* expired: the inductive invariant behind StateUsedOnce and the refinement.
OAuthInv ==
  /\ TypeOK
  /\ StateUsedOnce
  /\ StoredWasAdded
  /\ UsedIsGone
  /\ Progress
  /\ FreshInRedis

Answer(r) == IF Used(r) THEN <<st[r], det[r]>> ELSE <<NoState, NoDetails>>

Abstract == INSTANCE OneTimeStates
              WITH Callers <- Requests, deadline <- expiresAt, open <- Open,
                   answer <- [r \in Requests |-> Answer(r)]

\* Both stores keep the promise of the StateStore interface: "Consume returns the
\* state details when valid and removes it from the store", "false when the state
\* is not found or has expired" (internal/oauth/state_store.go:20).
ImplementsOneTimeStates == Abstract!Spec
=============================================================================
