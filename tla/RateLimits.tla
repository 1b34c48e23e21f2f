----------------------------- MODULE RateLimits -----------------------------
(***************************************************************************)
(* The three Redis rate limiters (internal/cache/redis_rate_limiter.go)    *)
(* and the way the service uses them: RequestEmailLoginCode ("send"),      *)
(* LoginWithPassword and LoginWithEmailCode ("login") through the helpers  *)
(* of service_rate_limit.go, and ExchangeServiceToken ("service").         *)
(*                                                                         *)
(* IsAllowed, Record and Reset are atomic in Redis (Lua scripts and DEL),  *)
(* but a request checks first and records later, so requests that run at   *)
(* the same time get past the same count.  The limiters of the three flows *)
(* have different key prefixes and share nothing, so a behaviour of the    *)
(* model follows one flow, chosen at its start.                            *)
(***************************************************************************)
EXTENDS Integers, FiniteSets

CONSTANTS Subjects,     \* email addresses (lower-cased) or client IDs
          Clients,      \* client identities taken from the request's headers
          NoClient,     \* no such header
          Requests,     \* requests in progress at the same time
          MaxAttempts,
          Window,       \* in ticks
          MaxErrors     \* bound on the Redis calls that fail

Flows == {"send", "login", "service"}
Keys == Subjects \cup Clients

\* The keys of the three limiters differ by a prefix, and so do the two kinds of
\* keys of one limiter; a limit and a window are positive.
WellFormed ==
  /\ NoClient \notin Keys /\ Subjects \cap Clients = {}
  /\ MaxAttempts \in Nat \ {0} /\ Window \in Nat \ {0} /\ MaxErrors \in Nat
  /\ IsFiniteSet(Requests)

ASSUME LimitAssumption == WellFormed

VARIABLES
  flow,     \* the flow whose limiter this is
  count,    \* count[k]: the counter at Redis key k; 0: there is no key
  ttl,      \* ttl[k]: what is left of its time to live; 0: no key, or no TTL
  used,     \* history: attempts made against k since its counter was cleared
  errors,   \* history: Redis calls that have failed
  pc,       \* pc[r]: the next step of request r
  skey,     \* skey[r]: its key for the email or client ID
  ckey      \* ckey[r]: its key for the client, or NoClient

limits == <<count, ttl, used>>
limitVars == <<flow, limits, errors, pc, skey, ckey>>

Stages == {"idle", "checkSubject", "checkClient", "act", "recordSubject",
           "recordClient", "reset"}

\* Every variable has its type; no TTL outlasts the window or falls below zero.
LimitTypeOK ==
  /\ flow \in Flows
  /\ count \in [Keys -> Nat]
  /\ ttl \in [Keys -> 0 .. Window]
  /\ used \in [Keys -> Nat]
  /\ errors \in Nat
  /\ pc \in [Requests -> Stages]
  /\ skey \in [Requests -> Keys \cup {NoClient}]
  /\ ckey \in [Requests -> Keys \cup {NoClient}]

LimitInit ==
  /\ flow \in Flows
  /\ count = [k \in Keys |-> 0]
  /\ ttl = [k \in Keys |-> 0]
  /\ used = [k \in Keys |-> 0]
  /\ errors = 0
  /\ pc = [r \in Requests |-> "idle"]
  /\ skey = [r \in Requests |-> NoClient]
  /\ ckey = [r \in Requests |-> NoClient]

-----------------------------------------------------------------------------
(* The limiter.                                                            *)

\* Mutant: one attempt too many.
IsAllowed_OffByOne(k) == count[k] <= MaxAttempts

IsAllowed(k) == count[k] < MaxAttempts

\* Mutant: the counter starts without a TTL.
Record_NoTTL(k) == count' = [count EXCEPT ![k] = @ + 1] /\ UNCHANGED ttl

\* Mutant: every attempt adds a window to the TTL.
Record_Extends(k) ==
  /\ count' = [count EXCEPT ![k] = @ + 1]
  /\ ttl' = [ttl EXCEPT ![k] = @ + Window]

\* INCR; the TTL is set when the counter starts.
Record(k) ==
  /\ count' = [count EXCEPT ![k] = @ + 1]
  /\ ttl' = [ttl EXCEPT ![k] = IF count[k] = 0 THEN Window ELSE @]

Reset(k) ==
  /\ count' = [count EXCEPT ![k] = 0]
  /\ ttl' = [ttl EXCEPT ![k] = 0]
  /\ used' = [used EXCEPT ![k] = 0]

\* An attempt has been made that is due at the counters of the keys K.
Attempt(K) ==
  used' = [k \in Keys |-> IF k \in K THEN used[k] + 1 ELSE used[k]]

\* A Redis call fails; a write that fails may still have been applied.
RedisError == errors < MaxErrors /\ errors' = errors + 1

-----------------------------------------------------------------------------
(* Requests.                                                               *)

Goto(r, s) == pc' = [pc EXCEPT ![r] = s] /\ UNCHANGED <<flow, skey, ckey>>

\* r has answered; its place is free for the next request.
Done(r) ==
  /\ pc' = [pc EXCEPT ![r] = "idle"]
  /\ skey' = [skey EXCEPT ![r] = NoClient]
  /\ ckey' = [ckey EXCEPT ![r] = NoClient]
  /\ UNCHANGED flow

\* Where a request goes that is not blocked: RequestEmailLoginCode counts the
\* email it is about to send, the others try the credential first.
Proceed(r) == Goto(r, IF flow = "send" THEN "recordSubject" ELSE "act")

\* rateLimitKeys; ExchangeServiceToken has one key, for its client ID.
Begin(r, s, c) ==
  /\ pc[r] = "idle"
  /\ flow = "service" => c = NoClient
  /\ skey' = [skey EXCEPT ![r] = s]
  /\ ckey' = [ckey EXCEPT ![r] = c]
  /\ pc' = [pc EXCEPT ![r] = "checkSubject"]
  /\ UNCHANGED <<flow, limits, errors>>

\* rateLimitAllowed stops at the first key that is not allowed.
CheckSubject(r) ==
  /\ pc[r] = "checkSubject"
  /\ IF ~IsAllowed(skey[r]) THEN Done(r)
     ELSE IF ckey[r] # NoClient THEN Goto(r, "checkClient")
     ELSE Proceed(r)
  /\ UNCHANGED <<limits, errors>>

CheckClient(r) ==
  /\ pc[r] = "checkClient"
  /\ IF IsAllowed(ckey[r]) THEN Proceed(r) ELSE Done(r)
  /\ UNCHANGED <<limits, errors>>

\* The check fails.  A login goes on (fail open); a code is sent but not
\* recorded; ExchangeServiceToken answers Internal (fail closed).
CheckError(r) ==
  /\ pc[r] \in {"checkSubject", "checkClient"}
  /\ RedisError
  /\ CASE flow = "send"    -> /\ Attempt({skey[r], ckey[r]})
                              /\ UNCHANGED <<count, ttl>>
                              /\ Done(r)
       [] flow = "login"   -> UNCHANGED limits /\ Goto(r, "act")
       [] flow = "service" -> UNCHANGED limits /\ Done(r)

\* The credential is right, is wrong, or could not be judged (no such user, no
\* password, a store error): the last leaves the limiter alone.
TryCredential(r) ==
  /\ pc[r] = "act"
  /\ Goto(r, "reset") \/ Goto(r, "recordSubject") \/ Done(r)
  /\ UNCHANGED <<limits, errors>>

RecordSubject(r) ==
  /\ pc[r] = "recordSubject"
  /\ Record(skey[r])
  /\ Attempt({skey[r]})
  /\ IF ckey[r] # NoClient THEN Goto(r, "recordClient") ELSE Done(r)
  /\ UNCHANGED errors

RecordClient(r) ==
  /\ pc[r] = "recordClient"
  /\ Record(ckey[r])
  /\ Attempt({ckey[r]})
  /\ Done(r)
  /\ UNCHANGED errors

\* recordRateLimit stops at the first error, which is only logged.
RecordError(r) ==
  /\ pc[r] \in {"recordSubject", "recordClient"}
  /\ RedisError
  /\ LET due == IF pc[r] = "recordSubject" THEN <<skey[r], ckey[r]>> ELSE <<ckey[r]>>
     IN /\ Record(due[1]) \/ UNCHANGED <<count, ttl>>
        /\ Attempt({due[i] : i \in DOMAIN due})
  /\ Done(r)

\* Mutant: a success clears every key of the request.
ResetSubject_AllKeys(r) ==
  /\ pc[r] = "reset"
  /\ count' = [k \in Keys |-> IF k \in {skey[r], ckey[r]} THEN 0 ELSE count[k]]
  /\ ttl' = [k \in Keys |-> IF k \in {skey[r], ckey[r]} THEN 0 ELSE ttl[k]]
  /\ used' = [k \in Keys |-> IF k \in {skey[r], ckey[r]} THEN 0 ELSE used[k]]
  /\ Done(r)
  /\ UNCHANGED errors

\* A success clears the counter of the email or client ID, not the client's.
ResetSubject(r) ==
  /\ pc[r] = "reset"
  /\ Reset(skey[r])
  /\ Done(r)
  /\ UNCHANGED errors

ResetError(r) ==
  /\ pc[r] = "reset"
  /\ RedisError
  /\ Reset(skey[r]) \/ UNCHANGED limits
  /\ Done(r)

\* Time passes; Redis drops the keys whose TTL runs out.
Tick ==
  /\ \E k \in Keys : ttl[k] > 0
  /\ ttl' = [k \in Keys |-> IF ttl[k] > 0 THEN ttl[k] - 1 ELSE 0]
  /\ count' = [k \in Keys |-> IF ttl[k] = 1 THEN 0 ELSE count[k]]
  /\ used' = [k \in Keys |-> IF ttl[k] = 1 THEN 0 ELSE used[k]]
  /\ UNCHANGED <<flow, errors, pc, skey, ckey>>

LimitNext ==
  \/ \E r \in Requests :
       \/ \E s \in Subjects, c \in Clients \cup {NoClient} : Begin(r, s, c)
       \/ CheckSubject(r)
       \/ CheckClient(r)
       \/ CheckError(r)
       \/ TryCredential(r)
       \/ RecordSubject(r)
       \/ RecordClient(r)
       \/ RecordError(r)
       \/ ResetSubject(r)
       \/ ResetError(r)
  \/ Tick

\* Time passes whatever the requests do.
LimitSpec == LimitInit /\ [][LimitNext]_limitVars /\ WF_limitVars(Tick)

-----------------------------------------------------------------------------
(* Properties.                                                             *)

\* What checking first and recording later costs: within one window no more
\* attempts are made against a key than the limit, one for each other request
\* in progress, and one for each Redis call that failed (fail open).
AttemptsBounded ==
  \A k \in Keys : used[k] <= (MaxAttempts - 1) + Cardinality(Requests) + errors

\* Nobody is locked out for good, whatever the traffic: a counter that has
\* reached the limit is cleared, if not by a success then by its TTL.
LockoutEnds ==
  \A k \in Keys : count[k] >= MaxAttempts ~> count[k] = 0

\* A client cannot launder its own counter: a login that succeeds, on whatever
\* account, never lowers the count of the client that made it.
ClientCounterOnlyExpires ==
  [][\A k \in Clients : count'[k] < count[k] => ttl[k] = 1]_limitVars

-----------------------------------------------------------------------------
(* The inductive invariant behind them (proved in CredentialsProofs).      *)

\* Which keys a request has, and where it needs the client's.
RequestKeys ==
  \A r \in Requests :
    /\ pc[r] # "idle" => skey[r] \in Subjects
    /\ ckey[r] \in Clients \cup {NoClient}
    /\ pc[r] \in {"checkClient", "recordClient"} => ckey[r] # NoClient

\* The requests that are past the check of k, or got round it, and may yet make
\* their attempt.
InFlight(k) ==
  {r \in Requests :
     \/ skey[r] = k /\ pc[r] \in {"checkClient", "act", "recordSubject"}
     \/ ckey[r] = k /\ pc[r] \in {"act", "recordSubject", "recordClient"}}

\* An attempt that its counter does not show was lost with a Redis call.
LostCounts == \A k \in Keys : used[k] <= count[k] + errors

\* With those under way the attempts stay within the bound: a check that lets a
\* request through found a count below the limit, and a check that fails is paid
\* for by its error.
AttemptsWithin(k) ==
  used[k] + Cardinality(InFlight(k)) <= (MaxAttempts - 1) + Cardinality(Requests) + errors

AttemptsAhead == \A k \in Keys : AttemptsWithin(k)

\* The parts together, preserved by every step of every flow.
LimitInv == LimitTypeOK /\ RequestKeys /\ LostCounts /\ AttemptsAhead
=============================================================================
