------------------------------ MODULE Sessions ------------------------------
(***************************************************************************)
(* The session side of Identra: token pairs (internal/security/tokens.go), *)
(* SessionService.RefreshSession and RevokeSession                         *)
(* (internal/identra/service_tokens.go), UserService.GetCurrentUser        *)
(* (service_login_info.go), and the Redis store of revoked refresh tokens  *)
(* (internal/cache/redis_refresh_token_revocation_store.go).               *)
(*                                                                         *)
(* Every RPC runs in a goroutine of its own.  Each call it makes to Redis  *)
(* or SQLite is one step, so requests interleave between any two calls,    *)
(* and the clock may advance between them.                                 *)
(***************************************************************************)
EXTENDS Naturals

CONSTANTS Users,                   \* user IDs
          Pairs,                   \* token pairs; an ID stands for both halves
          Requests,                \* one per RPC that is ever received
          AccessTokenExpiration,   \* lifetimes, in seconds
          RefreshTokenExpiration,
          MaxTime,                 \* bound on the clock
          NoUser, NoPair

ASSUME LifetimeAssumption ==
         /\ AccessTokenExpiration \in Nat \ {0}
         /\ RefreshTokenExpiration \in Nat \ {0}
ASSUME MaxTimeAssumption == MaxTime \in Nat
ASSUME NoUserAssumption == NoUser \notin Users
ASSUME NoPairAssumption == NoPair \notin Pairs

VARIABLES
  now,           \* the wall clock, in whole seconds (the precision of "exp")
  active,        \* users whose row exists and has deleted_at IS NULL
  owner,         \* owner[p]: the subject of pair p, NoUser until it is signed
  issuedAt,      \* issuedAt[p]: when p was signed
  delivered,     \* pairs some client has received
  revokedUntil,  \* revokedUntil[p]: when Redis drops p's entry; 0: never set
  op, pc,        \* op[r]: which RPC r is;  pc[r]: its next step, or its status
  who,           \* who[r]: the user r acts for
  tok,           \* tok[r]: the pair whose token r presented
  out,           \* out[r]: the pair r has signed
  ttl,           \* ttl[r]: the TTL r computed for its revocation entry
  late,          \* history: the requests r whose tok[r] had already been
                 \* consumed when r began
  orphan,        \* history: the requests whose user was deleted before they began
  checkedAt      \* history: when r asked Redis whether tok[r] is revoked

tokens == <<active, owner, issuedAt, delivered, revokedUntil>>
vars == <<now, tokens, op, pc, who, tok, out, ttl, late, orphan, checkedAt>>

Ops == {"none", "login", "refresh", "revoke", "current"}
Running == {"check", "user", "mint", "revoke", "set"}
Answered == {"ok", "denied", "internal"}

\* Every variable has its type; in particular the TTL that Revoke computes for
\* an entry is never negative.
TypeOK ==
  /\ now \in Nat
  /\ active \subseteq Users
  /\ owner \in [Pairs -> Users \cup {NoUser}]
  /\ issuedAt \in [Pairs -> Nat]
  /\ delivered \subseteq Pairs
  /\ revokedUntil \in [Pairs -> Nat]
  /\ op \in [Requests -> Ops]
  /\ pc \in [Requests -> {"idle"} \cup Running \cup Answered]
  /\ who \in [Requests -> Users \cup {NoUser}]
  /\ tok \in [Requests -> Pairs \cup {NoPair}]
  /\ out \in [Requests -> Pairs \cup {NoPair}]
  /\ ttl \in [Requests -> Nat]
  /\ late \subseteq Requests
  /\ orphan \subseteq Requests
  /\ checkedAt \in [Requests -> Nat]

Init ==
  /\ now = 0
  /\ active = Users
  /\ owner = [p \in Pairs |-> NoUser]
  /\ issuedAt = [p \in Pairs |-> 0]
  /\ delivered = {}
  /\ revokedUntil = [p \in Pairs |-> 0]
  /\ op = [r \in Requests |-> "none"]
  /\ pc = [r \in Requests |-> "idle"]
  /\ who = [r \in Requests |-> NoUser]
  /\ tok = [r \in Requests |-> NoPair]
  /\ out = [r \in Requests |-> NoPair]
  /\ ttl = [r \in Requests |-> 0]
  /\ late = {}
  /\ orphan = {}
  /\ checkedAt = [r \in Requests |-> 0]

-----------------------------------------------------------------------------
(* Tokens.                                                                 *)

RefreshExpiresAt(p) == issuedAt[p] + RefreshTokenExpiration
AccessExpiresAt(p) == issuedAt[p] + AccessTokenExpiration

\* The signature and the claims of half h of p hold up: golang-jwt rejects a
\* token from the second named by "exp" on.
ValidateToken(p, h) ==
  now < IF h = "refresh" THEN RefreshExpiresAt(p) ELSE AccessExpiresAt(p)

ValidateRefreshToken(p, h) == h = "refresh" /\ ValidateToken(p, h)
ValidateAccessToken(p, h) == h = "access" /\ ValidateToken(p, h)

\* Pairs whose refresh token some request has used up, successfully.
Consumed == { tok[r] : r \in {x \in Requests :
                op[x] \in {"refresh", "revoke"} /\ pc[x] = "ok"} }

-----------------------------------------------------------------------------
(* Steps of a request.                                                     *)

Goto(r, stage) == pc' = [pc EXCEPT ![r] = stage]

\* r answers OK; a login and a refresh hand the pair they signed to the client.
Reply(r) ==
  /\ Goto(r, "ok")
  /\ delivered' = IF op[r] \in {"login", "refresh"}
                  THEN delivered \cup {out[r]} ELSE delivered

\* A client presents half h of a pair it holds.
Present(r, o, p, h, valid, first) ==
  /\ pc[r] = "idle"
  /\ p \in delivered
  /\ op' = [op EXCEPT ![r] = o]
  /\ tok' = [tok EXCEPT ![r] = p]
  /\ who' = [who EXCEPT ![r] = owner[p]]
  /\ late' = IF p \in Consumed THEN late \cup {r} ELSE late
  /\ orphan' = IF owner[p] \notin active THEN orphan \cup {r} ELSE orphan
  /\ Goto(r, IF valid THEN first ELSE "denied")
  /\ UNCHANGED <<now, tokens, out, ttl, checkedAt>>

BeginRefreshSession(r, p, h) ==
  Present(r, "refresh", p, h, ValidateRefreshToken(p, h), "check")

BeginRevokeSession(r, p, h) ==
  Present(r, "revoke", p, h, ValidateRefreshToken(p, h), "check")

BeginGetCurrentUser(r, p, h) ==
  Present(r, "current", p, h, ValidateAccessToken(p, h), "user")

\* Any of the logins, from the moment it has established whose account it is;
\* the user may be deleted before the pair is signed.
BeginLogin(r, u) ==
  /\ pc[r] = "idle"
  /\ u \in active
  /\ op' = [op EXCEPT ![r] = "login"]
  /\ who' = [who EXCEPT ![r] = u]
  /\ Goto(r, "mint")
  /\ UNCHANGED <<now, tokens, tok, out, ttl, late, orphan, checkedAt>>

\* IsRevoked: EXISTS on the entry, which Redis drops when its TTL runs out.
IsRevoked(p) == now < revokedUntil[p]

\* Mutant: the answer of IsRevoked is ignored.
EnsureRefreshTokenActive_Ignored(r) ==
  /\ pc[r] = "check"
  /\ checkedAt' = [checkedAt EXCEPT ![r] = now]
  /\ Goto(r, IF op[r] = "refresh" THEN "user" ELSE "revoke")
  /\ UNCHANGED <<now, tokens, op, who, tok, out, ttl, late, orphan>>

EnsureRefreshTokenActive(r) ==
  /\ pc[r] = "check"
  /\ checkedAt' = [checkedAt EXCEPT ![r] = now]
  /\ Goto(r, IF IsRevoked(tok[r]) THEN "denied"
             ELSE IF op[r] = "refresh" THEN "user" ELSE "revoke")
  /\ UNCHANGED <<now, tokens, op, who, tok, out, ttl, late, orphan>>

\* Mutant: the session is refreshed without looking at its user.
CheckUser_Skipped(r) ==
  /\ pc[r] = "user"
  /\ IF op[r] = "current" THEN Reply(r) ELSE Goto(r, "mint") /\ UNCHANGED delivered
  /\ UNCHANGED <<now, active, owner, issuedAt, revokedUntil,
                 op, who, tok, out, ttl, late, orphan, checkedAt>>

\* userStore.GetByID, which does not see soft-deleted users.
CheckUser(r) ==
  /\ pc[r] = "user"
  /\ IF who[r] \notin active
     THEN Goto(r, "denied") /\ UNCHANGED delivered
     ELSE IF op[r] = "current" THEN Reply(r)
     ELSE Goto(r, "mint") /\ UNCHANGED delivered
  /\ UNCHANGED <<now, active, owner, issuedAt, revokedUntil,
                 op, who, tok, out, ttl, late, orphan, checkedAt>>

\* Mutant: the new pair goes out before the old token is revoked.
NewTokenPair_SentEarly(r, p) ==
  /\ pc[r] = "mint"
  /\ owner[p] = NoUser
  /\ owner' = [owner EXCEPT ![p] = who[r]]
  /\ issuedAt' = [issuedAt EXCEPT ![p] = now]
  /\ out' = [out EXCEPT ![r] = p]
  /\ Goto(r, IF op[r] = "login" THEN "ok" ELSE "revoke")
  /\ delivered' = delivered \cup {p}
  /\ UNCHANGED <<now, active, revokedUntil,
                 op, who, tok, ttl, late, orphan, checkedAt>>

\* NewTokenPair: token IDs are 16 random bytes, so the pair is a fresh one.
NewTokenPair(r, p) ==
  /\ pc[r] = "mint"
  /\ owner[p] = NoUser
  /\ owner' = [owner EXCEPT ![p] = who[r]]
  /\ issuedAt' = [issuedAt EXCEPT ![p] = now]
  /\ out' = [out EXCEPT ![r] = p]
  /\ IF op[r] = "login"
     THEN Goto(r, "ok") /\ delivered' = delivered \cup {p}
     ELSE Goto(r, "revoke") /\ UNCHANGED delivered
  /\ UNCHANGED <<now, active, revokedUntil,
                 op, who, tok, ttl, late, orphan, checkedAt>>

\* The first half of Revoke: time.Until(expiresAt); nothing is left to do for
\* a token that has expired since it was validated.
ComputeRevocationTTL(r) ==
  /\ pc[r] = "revoke"
  /\ IF now >= RefreshExpiresAt(tok[r])
     THEN Reply(r) /\ UNCHANGED ttl
     ELSE /\ ttl' = [ttl EXCEPT ![r] = RefreshExpiresAt(tok[r]) - now]
          /\ Goto(r, "set")
          /\ UNCHANGED delivered
  /\ UNCHANGED <<now, active, owner, issuedAt, revokedUntil,
                 op, who, tok, out, late, orphan, checkedAt>>

\* Mutant: the entry lives as long as an access token.
SetRevocation_AccessTTL(r) ==
  /\ pc[r] = "set"
  /\ revokedUntil' = [revokedUntil EXCEPT ![tok[r]] = now + AccessTokenExpiration]
  /\ Reply(r)
  /\ UNCHANGED <<now, active, owner, issuedAt,
                 op, who, tok, out, ttl, late, orphan, checkedAt>>

\* The second half: the SET reaches Redis, which counts the TTL from then.
SetRevocation(r) ==
  /\ pc[r] = "set"
  /\ revokedUntil' = [revokedUntil EXCEPT ![tok[r]] = now + ttl[r]]
  /\ Reply(r)
  /\ UNCHANGED <<now, active, owner, issuedAt,
                 op, who, tok, out, ttl, late, orphan, checkedAt>>

\* Mutant: a request that fails takes the entry of its token back.
Fail_RollsBack(r) ==
  /\ pc[r] \in Running
  /\ Goto(r, "internal")
  /\ revokedUntil' = [p \in Pairs |-> IF p = tok[r] THEN 0 ELSE revokedUntil[p]]
  /\ UNCHANGED <<now, active, owner, issuedAt, delivered,
                 op, who, tok, out, ttl, late, orphan, checkedAt>>

\* A Redis, SQLite or signing error, a cancelled context or a server that dies:
\* the client gets no pair.  A SET that fails may still have been applied.
Fail(r) ==
  /\ pc[r] \in Running
  /\ Goto(r, "internal")
  /\ revokedUntil' \in
       {revokedUntil} \cup
       (IF pc[r] = "set"
        THEN {[revokedUntil EXCEPT ![tok[r]] = now + ttl[r]]} ELSE {})
  /\ UNCHANGED <<now, active, owner, issuedAt, delivered,
                 op, who, tok, out, ttl, late, orphan, checkedAt>>

-----------------------------------------------------------------------------
(* The environment of the requests.                                        *)

\* UserAdminService.DeleteUser: a soft delete that nothing undoes.
DeleteUser(u) ==
  /\ u \in active
  /\ active' = active \ {u}
  /\ UNCHANGED <<now, owner, issuedAt, delivered, revokedUntil,
                 op, pc, who, tok, out, ttl, late, orphan, checkedAt>>

Tick ==
  /\ now < MaxTime
  /\ now' = now + 1
  /\ UNCHANGED <<tokens, op, pc, who, tok, out, ttl, late, orphan, checkedAt>>

\* No request is running and the clock has reached its bound: the model stops
\* here, the server does not.
Quiescent ==
  /\ now = MaxTime
  /\ \A r \in Requests : pc[r] \notin Running
  /\ UNCHANGED vars

Next ==
  \/ \E r \in Requests, p \in Pairs, h \in {"access", "refresh"} :
        \/ BeginRefreshSession(r, p, h)
        \/ BeginRevokeSession(r, p, h)
        \/ BeginGetCurrentUser(r, p, h)
  \/ \E r \in Requests, u \in Users : BeginLogin(r, u)
  \/ \E r \in Requests : EnsureRefreshTokenActive(r)
  \/ \E r \in Requests : CheckUser(r)
  \/ \E r \in Requests, p \in Pairs : NewTokenPair(r, p)
  \/ \E r \in Requests : ComputeRevocationTTL(r)
  \/ \E r \in Requests : SetRevocation(r)
  \/ \E r \in Requests : Fail(r)
  \/ \E u \in Users : DeleteUser(u)
  \/ Tick
  \/ Quiescent

Spec == Init /\ [][Next]_vars

-----------------------------------------------------------------------------
(* Properties.                                                             *)

\* While a refresh token lives, "it is blocked" means Redis has its entry.
Blocked(p) == RefreshExpiresAt(p) <= now \/ IsRevoked(p)

\* A refresh token that a RefreshSession or RevokeSession has used up stays
\* blocked for the rest of its life, whatever delay lay between computing the
\* TTL of its entry and the entry's arrival in Redis.
ConsumedIsBlocked == \A p \in Consumed : Blocked(p)

\* Replay: a request that presents a refresh token some earlier request has
\* already used up, and that asks Redis before the token expires, is refused.
NoReplay ==
  \A r \in Requests :
    r \in late /\ op[r] \in {"refresh", "revoke"} /\ pc[r] = "ok"
      => RefreshExpiresAt(tok[r]) <= checkedAt[r]

\* A session does not survive its user: a RefreshSession or GetCurrentUser
\* that begins after the user was deleted is refused, also for a pair that a
\* login or refresh in flight signed after the deletion.
NoSessionAfterDelete ==
  \A r \in orphan : op[r] \in {"refresh", "current"} => pc[r] # "ok"

\* No pair reaches a client from a refresh that could not revoke the token it
\* consumed: every pair a client holds came from a login, or from a refresh
\* whose own token is blocked.
DeliveredByRotation ==
  \A p \in delivered : \E r \in Requests :
    /\ out[r] = p /\ pc[r] = "ok"
    /\ op[r] = "login" \/ (op[r] = "refresh" /\ Blocked(tok[r]))

\* A revocation is final: no step of the clock, of Redis or of a competing
\* request makes a blocked refresh token usable again.
RevocationIsFinal ==
  [][\A p \in Pairs : owner[p] # NoUser /\ Blocked(p) => Blocked(p)']_vars

-----------------------------------------------------------------------------
(* The inductive invariant behind them (proved in SessionsProofs).         *)

Signed(p) == p \in Pairs /\ owner[p] # NoUser

\* p has an entry that outlasts it, or has expired.
Spent(p) == RefreshExpiresAt(p) <= revokedUntil[p] \/ RefreshExpiresAt(p) <= now

\* Which stages belong to which RPC, and what a request holds there.
RequestShape ==
  \A r \in Requests :
    /\ op[r] = "none" <=> pc[r] = "idle"
    /\ r \in late => op[r] # "none"
    /\ op[r] # "none" => who[r] \in Users
    /\ op[r] \in {"refresh", "revoke", "current"} => Signed(tok[r])
    /\ pc[r] \in {"check", "revoke", "set"} => op[r] \in {"refresh", "revoke"}
    /\ pc[r] = "user" => op[r] \in {"refresh", "current"}
    /\ pc[r] = "mint" => op[r] \in {"login", "refresh"}
    /\ op[r] = "refresh" /\ pc[r] \in {"revoke", "set"} => Signed(out[r])

OnlySignedPairs ==
  /\ \A p \in delivered : Signed(p)
  /\ \A p \in Pairs : ~Signed(p) => revokedUntil[p] = 0

\* An entry outlasts its token, and so will one whose SET is under way.
EntryOutlivesToken ==
  /\ \A p \in Pairs : revokedUntil[p] # 0 => RefreshExpiresAt(p) <= revokedUntil[p]
  /\ \A r \in Requests : pc[r] = "set" => RefreshExpiresAt(tok[r]) <= now + ttl[r]

\* A token is spent once a request has used it up, and for whoever comes late.
UsedIsSpent ==
  \A r \in Requests :
    op[r] \in {"refresh", "revoke"} =>
      /\ pc[r] = "ok" => Spent(tok[r])
      /\ r \in late => Spent(tok[r])
      /\ r \in late /\ pc[r] \notin {"check", "denied", "internal"}
           => RefreshExpiresAt(tok[r]) <= checkedAt[r]

\* A request for a deleted user never gets past its user check.
OrphanIsStopped ==
  \A r \in orphan :
    /\ op[r] \in {"refresh", "revoke", "current"}
    /\ who[r] \notin active
    /\ op[r] \in {"refresh", "current"} =>
         pc[r] \in {"check", "user", "denied", "internal"}

\* The parts together: preserved by every step of a request, of the clock and
\* of the user management, and strong enough for the properties above.
SessionInv ==
  /\ TypeOK
  /\ RequestShape
  /\ OnlySignedPairs
  /\ EntryOutlivesToken
  /\ UsedIsSpent
  /\ OrphanIsStopped
=============================================================================
