# Identra: a TLA+ verification project

Identra is a gRPC authentication service written in Go. It keeps users, external
identities, service accounts and audit events in SQLite, and short-lived state
(revoked refresh tokens, rate-limit counters, email codes, OAuth states) in
Redis. It issues RS256 JSON web tokens and lets other services verify them with
the public keys it publishes.

This directory holds TLA+ models of its stateful parts, TLC configurations that
check them on small instances, and TLAPS proofs of the main safety properties
for instances of any size. Paths below are relative to the repository.

## 1. Inventory

| Part | Source | State | Operations | Module |
|---|---|---|---|---|
| Sessions | `internal/identra/service_tokens.go`, `service_login_info.go`, `internal/security/tokens.go`, `internal/cache/redis_refresh_token_revocation_store.go` | the tokens clients hold; the revocation entries in Redis, with TTL | refresh, revoke, current user | `Sessions` |
| Signing keys | `internal/security/jwks.go`, `internal/app/tokens.go` | the key file; the key ring; `tokenCfg`'s copy of the key | startup, generate, add, promote, demote, retire, sign | `SigningKeys` |
| Accounts | `internal/identra/service_password.go`, `service_email_code.go`, `service_oauth.go`, `service_user.go`, `user_management.go`, `internal/store/sqlite/store.go` | tables `users`, `external_identities` | register, three logins, link, create, delete, reset password | `Accounts` |
| Rate limiters | `internal/cache/redis_rate_limiter.go`, `internal/identra/service_rate_limit.go` | one counter with TTL per key, three key spaces | check, record, reset | `RateLimits` |
| Service accounts | `internal/identra/service_accounts.go`, `internal/serviceaccount`, `internal/store/sqlite/service_accounts.go` | accounts, credentials, the bootstrap marker | exchange, create, disable, rotate, authorise, bootstrap | `ServiceAccounts` |
| Email codes and mail | `internal/identra/service_email_code.go`, `internal/cache/redis_email_code_store.go`, `internal/mail/smtp/mailer.go` | one code with TTL per address; mails on their way | request, store, send, consume, log in | `EmailCodes` |
| OAuth states | `internal/oauth/state_store.go`, `internal/cache/redis_oauth_state_store.go` | one-time states with TTL | add, consume | `OAuthStates` |
| Migrations | `internal/store/sqlite/database.go` | `user_version` and the tables; each process's connection | open, read version, migrate, close | `Database` |
| Server process | `cmd/identra/main.go`, `internal/app`, `internal/bootstrap`, `internal/config` | where main, Serve and GracefulStop are; health; calls in progress | start, serve, signal, drain, stop, exit; offline bootstrap | `Server` |
| Management API, audit trail and its clients | `internal/identra/user_management.go`, `audit.go`, `service_accounts.go`, `internal/store/sqlite/audit.go`, `cmd/identra/*_commands.go` | the lists of users and events; what an operator holds and believes | create, delete, reset, exchange, rotate, list by pages, time out, try again | `Management` |
| All services together | the handlers of the eight gRPC services, `gen/go/identra/v1/*_grpc.pb.go` | the credentials each caller holds | every RPC, one step each | `Credentials` |
| Local cache | `internal/cache/redis/cache.go` | - | - | not modelled: `NewCache` has no caller |

Password hashing, the calls to GitHub and the structs of messages hold no state
that the operations share. They are not modelled; what they return is an input of
the models.

### How the parts interact

Every RPC runs in a goroutine of its own and takes no lock across calls. It
talks to Redis and SQLite one call at a time. A single call is atomic: Redis runs
commands and Lua scripts one by one, and SQLite runs behind a single connection
(`database.go:53`). Nothing spans two calls; the only transactions are inside the
service-account store and the migrations. Every flow is therefore a sequence of
atomic steps between which any other request, the clock, an administrator or a
failure may come. A login reads the login limiter, consumes a code or an OAuth
state or verifies a password, reads and writes `users` and `external_identities`,
writes back the row (`recordLogin`) and signs a pair with `tokenCfg`. A refresh
reads the revocation store and `users`, signs a pair and writes the revocation
store.

### What is hard

* Checks and their effects are separate calls: refresh-token reuse, rate limits,
  look-up-then-create of users, linking of identities.
* A row is read at the beginning of a login and written back whole at its end.
* Times are compared on both sides of a network call: token expiry, the TTL of
  the revocation entry, the moment it reaches Redis.
* Calls fail half-way: a SET that was applied and reported as failed, a user
  created without its identity, a limiter that counts one of two keys.
* The process may die at any point of writing its first signing key, and several
  processes may start on one key file.
* A management call is authorised once and acts later; its account may be disabled
  in between, and its audit event is written last, if at all.
* The signing key exists three times: in the file, in the ring, in `tokenCfg`.
* Two builds may migrate one database file at once; the version is read once and
  outside the transactions.
* A shutdown has three goroutines and a timer, and handlers beside them.
* An operator's call may be carried out after he gave it up; the only copy of a
  new secret is in an answer that may get lost. Mails come late or not at all.
* Lists are paged by offset while their rows change.
* All tokens are signed by one key; chains of calls over several services turn one
  credential into another.

`PROJECT.json` lists these hazards at their lines, with the properties that
would catch them.

## 2. Modules

| Module | Models | Proofs |
|---|---|---|
| `Sessions` | token pairs, refresh, revoke, current user, revocation store | `SessionsProofs` |
| `SigningKeys` | key file, startup, key ring, token signing | `SessionsProofs`, second half |
| `Accounts` | users, identities and the flows over them | `AccountsProofs` |
| `RateLimits` | the limiters and the three flows that use them | `CredentialsProofs`, second half |
| `ServiceAccounts` | service accounts, their credentials, bootstrap, their audit events | `ServiceAccountsProofs` |
| `EmailCodes` | codes, mails, the two handlers, an owner who tries again | `EmailCodesProofs` |
| `Database` | the SQLite file and its migrations by several processes | `ServerProofs` |
| `Server` | extends `Database`: the life of a process from start to exit | `ServerProofs` |
| `Management` | answers, retries, rotation and paging as a client sees them | `ManagementProofs` |
| `Credentials` | all RPCs composed: which credential leads to which | `CredentialsProofs` |
| `OneTimeStates` | what `oauth.StateStore` promises (abstract) | - |
| `OAuthStates` | both state stores and the handlers that add and consume states | `OAuthStatesProofs` |

`MC<module>` extends a module for TLC with the symmetry set, if there is one.
Definitions whose comment begins with "Mutant:" are broken variants of the
definition that follows them. No specification uses them; replacing the original
by one makes the property named in `PROJECT.json` fail, which shows that the
property depends on that code.

### Sessions

A token pair is one element of `Pairs`; its access and refresh halves expire
`AccessTokenExpiration` and `RefreshTokenExpiration` seconds after `issuedAt`.
`revokedUntil[p]` is the moment Redis drops the entry of `p`'s refresh token.
Each request has a program counter `pc` through the calls of its handler:

    RefreshSession:  validate -> check -> user -> mint -> revoke -> set -> ok
    RevokeSession:   validate -> check                 -> revoke -> set -> ok
    GetCurrentUser:  validate          -> user                          -> ok
    any login:                                    mint                  -> ok

`Revoke` takes two steps because it computes the TTL (`time.Until`) in the
process and Redis starts counting when the SET arrives. `Fail` stands for an error
of any call, a cancelled context or a dead server at any stage; a SET that fails
may have been applied. `Tick` advances the clock by a second between any two
steps. `late`, `orphan` and `checkedAt` are history variables.

### SigningKeys

A key is named by its ID. `Torn` is file content that is not a complete PEM block.
A startup is `MissKeyFile`, `GenerateFirstKey`, `CreateTemp`, `WriteTemp`,
`RenameTemp`, or just `LoadKeyFile`, and then `BuildTokenConfig`; processes
interleave between those steps and `Stop` may end one at any of them. The
operations on the ring hold the manager's mutex and are one step each. They are the
API that `docs/KEY_ROTATION.md` describes; at this commit no code of the server calls
`AddKeyPassive`, `PromoteKey`, `DemoteKey` or `RetireKey` while it runs. `SigningKey` is
the key `tokenCfg` was built with, which signs every token. `started` (the keys with
which processes went up) and `overlap` (two processes found no key file at the same
time) are history variables. A start that reads a file it cannot parse fails in the code; in the model no action is
enabled then, which `KeyFileIntact` shows never to happen.

### Accounts

A row of `users` exists when `email[u] # NoEmail`. Rows are never removed; a
deletion adds to `deleted`, and `users.email` stays unique over deleted rows.
`usr[r]` is the `*UserModel` that request `r` read, and `recordLogin` and
`updateEmailIfNeeded` write all of it back. The flows begin when their credential
has been accepted. `Fail` is an error of any statement or a dead server.

### RateLimits

The limiters of the three flows have different key prefixes, so a behaviour follows
one flow, chosen in `Init`. A key is an email address, a client ID or a client. A
request checks the subject's key and then the client's, acts, and records or resets.
`used` is a history variable: the attempts made since the counter was last
cleared, counted or not. Login fails open when Redis fails, a code request is sent
without being recorded, a service-token exchange fails closed.

### ServiceAccounts

A row of `service_accounts` exists when `name[a] # NoName`; a credential is
identified with its secret. A management call is `AuthorizeServiceAccount` (one
query), the operation (one transaction, for `Disable` an UPDATE and a SELECT) and
`RecordManagementAudit`, and calls interleave between these. `Fail` ends a call
anywhere: after the transaction this is an operation without an audit event.
`Bootstrap` is one transaction, whether the server or the offline command runs it;
the cases that change nothing (the name exists, the marker is set) are no steps.
Scopes are the four kinds `hasServiceScope` tells apart. `done`, `late` and
`raced` are history variables.

### OneTimeStates and OAuthStates

`OneTimeStates` says what the interface promises: a state is consumed at most once,
not after its deadline, with the details it was added with; it may get lost but
does not come back. `OAuthStates` is the code: `store`, chosen in `Init`, is the
in-memory or the Redis implementation. The in-memory store reads the clock for its
cleanup and again for the state at hand; `ReadClockAgain` lets a second pass in
between, which is the case the second test in `Consume` is there for. A call to
Redis may fail after it took effect. A client knows the states it was given and may
present them as often as it likes. `Abstract` maps the entries in the store to
`open` and what a request got to `answer`; `issued` is a history variable.

At this commit the application only wires the Redis store (`app/cache.go:37`); the
in-memory one, and the cleanup that `LostOnlyWithCause` is about, have no caller in the
server.

### EmailCodes

`stored[e]` and `ttl[e]` are the entry of an address in Redis, `mails` the mails on
their way, `mailbox[e]` the newest that arrived, and `job[k]` where the handler of
caller `k` is:

    RequestEmailLoginCode:  set -> send
    LoginWithEmailCode:     consume -> lookup [-> create] -> pair

`StoreFails`, `SendFails` and `ConsumeFails` are calls that failed before or after
they took effect: a SET that was applied, a mail that was taken before QUIT failed,
a script that ran and whose repetition by the Redis client finds nothing. The owner
of an address asks for a code, logs in with the newest mail, and asks again when a
request fails or no mail is left to wait for. Strangers (at most `MaxStrange`
calls) ask for codes for his address and try codes.

The limiters of both handlers are `sendFull` and `loginFull`, the keys whose counter is
at its limit. The counters themselves are in `RateLimits`; here any attempt that is
counted may be the one that fills a key, which covers every limit. A full key refuses
the call (`RefuseRequest`, `RefuseLogin`) until its window ends, a limiter that fails
lets it pass (`err`), and a login that succeeds clears the address. A conversation with
the SMTP server may last for ever, since `smtp.Dial` has no deadline. An address is free, in use or
deleted; `Accounts` has the rows behind it. `newest` is a history variable.

### Database and Server

`Database` has the operators of `sqlite.Open`: `ReadVersion` once, then one
transaction per migration (`ApplyMigration`). A migration script is represented by its
number, as the scripts only say CREATE ... IF NOT EXISTS. `CurrentSchemaVersion` is
given per process, so that processes of an older and a newer build can meet.

`Server` follows `serve()` and `runBootstrap()`:

    init -> config -> open -> bootstrap -> keys -> assemble -> listen
         -> select -> draining -> await -> close -> return -> exited

with `grpc[p]` the goroutine that calls Serve, `stopper[p]` the one that calls
GracefulStop, and `call[c]` the handler of a call. `grpc.Server` is external; the
module's comment says what is assumed of it. `StartupFails` is an error of any step,
`Kill` a death at any moment, after which the process may be started again. The
ten-second timer (`StopTimer`) may fire at any time while main waits: the model does
not relate it to what handlers do.

### Management

A slot of `call` is one call on its way: sent, carried out, answered. `CutShort`
ends one anywhere (a query fails, the answer gets lost, the limiter of
`ExchangeServiceToken` refuses the call or cannot be asked), and `Timeout` is the client
giving up while the call goes on at the server. The operator rotates his own secret:
`held` is what he has written down, `live` what the database accepts, `mind` what he
believes, and `early` records that he began a rotation while an earlier one might
still run. `Bootstrap` with force is the offline way back. `walk` is a client that
asks for page after page. Page sizes are those it may type: the command line takes them
modulo `Wrap` (uint32), zero stands for `DefaultPage`, and a size above `MaxPage` is
refused, as in the code. Users and events are
listed newest first, by offset.

### Credentials

One step is one RPC, carried out whole; the other modules take the calls apart. A
caller holds access, refresh and service tokens, knows the passwords it set and the
secrets it was given, and reads the mailboxes and external identities it owns
(`MailOwner`, `GitOwner`). GitHub may report any of `GitEmails` for an identity. It
may show an access token to another caller (`ShowAccessToken`). `owned` and `given`
are history variables: the users into whose account a caller has had a way (password,
mailbox or linked identity), and the scopes of the service accounts it was given a
secret of. `done` is what the last step managed, and for whom. The eight operators
`AuthService`, ..., `SystemService` are the service descriptors of the generated code.

## 3. What TLC checks

Each run explores its instance completely.

| Run | Instance | States | Shows |
|---|---|---|---|
| `sessions` | 1 user, 3 pairs, 3 requests, lifetimes 1 and 2, clock to 4 | 176,415 | replays are refused (`NoReplay`), deleted users have no sessions (`NoSessionAfterDelete`), failed rotations hand out nothing (`DeliveredByRotation`), revocation is final (`RevocationIsFinal`); `SessionInv`, with which a used token stays blocked |
| `signing_keys` | 2 processes, 4 keys | 11,090 | nobody serves without a key on disk (`UpWithPersistedKey`), every start goes up with the key of the starts before it (`KeyIsReused`); `KeyInv`: ring and signing fields agree, no torn key file |
| `accounts` | 2 users, 2 emails, 2 passwords, 1 identity, 2 requests | 246,669 | one account per address (`EmailOnce`), OAuth sessions go to the identity's user (`SessionMatchesIdentity`), not to a deleted one (`NoLoginAfterDelete`), deleted rows are frozen (`DeletedIsFrozen`); `UserInv`, with which a request's copy of a row, however stale, is of a row that was there and not deleted when it began |
| `rate_limits` | each flow with 1 address, 1 client, 3 requests, limit 2, window 2, 1 error | 350,897 | the overshoot is bounded (`AttemptsBounded`), lockouts end (`LockoutEnds`), a success leaves the client's counter alone (`ClientCounterOnlyExpires`); `LimitInv`: an attempt that its counter does not show was lost with a Redis call, and no TTL outlasts the window |
| `service_accounts` | 2 accounts, 2 names, 3 secrets, 2 requests, scopes manage or read | 861,305 | a disabled account starts nothing (`DisabledStartsNothing`) and gets no new secret (`DisabledIsFrozen`), one live secret each (`OneLiveSecret`), a manager remains (`ManagerRemains`), no false audit events (`AuditIsTruthful`); `AccountInv`, with which any account closes bootstrap |
| `oauth_states` | either store, 2 states, 2 details, 4 requests, lifetime 2, clock to 5, any number of restarts | 26,744 | no loss without a cause (`LostOnlyWithCause`), both stores implement the abstract one, in which a state is used once (`ImplementsOneTimeStates`) |
| `email_codes` | 1 address, 2 codes, the owner and a stranger with 2 calls, 1 client, TTL 1 | 728,276 | Redis holds the newest code and nothing else (`StoreHoldsNewest`), a code lets one login in (`CodeUsedOnce`), an owner who goes on trying gets in, lockouts and hanging mails of others notwithstanding (`OwnerGetsIn`) |
| `server` | 2 processes, of builds with schema 2 and 3, 1 call | 108,524 | nobody serves an incomplete schema (`ServesCompleteSchema`), an orderly shutdown answers every call (`AnsweredOnShutdown`), signals end the process (`SignalLeadsToExit`) and startups end (`StartupEnds`); `ServerInv`: no version without its tables, health before port, database closed on exit |
| `management` | 2 calls at once, 3 users, 5 secrets, 3 events, page sizes 0, 2, 3, 6 with default 1, maximum 2, wrap 4 | 722,258 | answers are true (`AnswersAreTrue`), the secret written down works (`KnownSecretWorks`), page walks are complete (`WalkComplete`), an operator gets back in (`OperatorRecovers`); `ApiInv`, which ties the calls on their way to the tables, the secret and the walk |
| `credentials` | an operator and a user, 1 user row, 2 addresses, 1 identity, 2 accounts | 523,073 | no session without a way of one's own into the account (`SessionsAreOwned`), no management without the scope (`PowersAreGiven`) |

The bounds let the interesting cases happen. Three requests and three pairs are a
login, a refresh and a competing refresh, logout or replay. Lifetimes 1 and 2
with a clock up to 4 let both halves expire before, between and after the steps
of a request. Two users and two requests make every pairwise race between flows
possible, with user management as a third party. In `RateLimits` a request that
ends may begin again, so the traffic is unbounded; only the requests in progress
at once, and the failing calls (`MaxErrors`), are bounded. The symmetry sets
permute requests, pairs, keys, processes, users and other values that no
definition distinguishes; they are not used in runs that check liveness.

In `email_codes` the two codes of the pool may be drawn again, so that an old mail can
hold a valid number; the TTL of 1 lets a code expire between any two steps. In `server`
the older and the newer build may both start from an empty file or from either version.
In `management` two calls at once are a rotation given up and its repetition, or a page
walk and a change under it; the page sizes are one that wraps, one that is refused,
one that is allowed and zero. In `credentials` one user row is enough for every chain
between two callers and keeps the run short; the proof covers any number.

`KeyIsReused` has an exception, `overlap`: two processes that start for the first time at
once each create a key, the later rename wins, and the loser serves with a key that no
later start will find. The documentation allows only one replica
(`docs/CONFIGURATION.md:60`); processes that start one after another, or over an existing
key file, are covered for any number of them.

The inductive invariants behind the proofs (`SessionInv`, `KeyInv`, `UserInv`, `LimitInv`,
`AccountInv`, `ServerInv`, `ApiInv`) are invariants of the runs too, and type correctness
is part of them; for `OAuthStates`, `EmailCodes` and `Credentials` it is proved only
(section 4).

**Fairness.**

| Run | Assumed | Because |
|---|---|---|
| `rate_limits` | weak, `Tick` | Redis expires keys whatever the service does; no request has to make progress |
| `email_codes` | weak, the owner's steps, every handler's next step (which may be a failure) but for the SMTP conversation, every mail arrives or is lost, every window of a limiter ends | handlers run in goroutines of their own and calls to Redis and SQLite return or time out; `smtp.Dial` (`mailer.go:55`) has no deadline, so nothing is assumed of it; Redis expires counters, and no limiter has to fail. `OwnerGetsIn` further supposes that the trouble (failing calls, lost mail, codes that expire while he waits for or uses them) ends at some time, and that the owner's own requests do not hang in the SMTP server |
| `server` | weak, main and the goroutines of gRPC per process | the Go scheduler runs them and the timer fires; nothing is assumed of handlers, clients or signals |
| `management` | weak, each call's handling and the reception of its answer, token expiry; strong, the operator's offline recovery | the operator goes on until his secret works; the slots for calls are a bound of the model, so he gets one however busy the other clients are; `OperatorRecovers` supposes that the trouble ends |

### Where documentation and code disagree

Two runs check a statement of the repository and find it violated:

* `password_reset_sticks`: `recordLogin` writes back a hash read before a reset, and so
  undoes it;
* `active_key_signs` (1 process, 2 keys): `docs/KEY_ROTATION.md:8` says that the ACTIVE key
  "signs new tokens", and line 29 that new tokens "contain the new key ID" after a
  promotion. `tokenCfg` copies the key at startup, so a key that becomes ACTIVE in a
  serving process signs nothing (`ActiveKeySigns`). As long as nothing calls the rotation
  API in the server this stays without effect.

Other statements of comments and documents do not hold in the models either. They have
no run of their own; the properties are stated so as to say exactly what does hold.

* `identra/service.go:41` says that the store "blocks reuse of refresh tokens after
  logout, explicit revocation, or successful refresh-token rotation". `IsRevoked` and
  the revocation are separate calls, so two overlapping refreshes both succeed.
* `identra/service_oauth.go:322` says "Compensate: remove the newly created user". The
  compensation soft-deletes, and the address can never be registered again.
* `Agent.md:41` says that "disabling an account takes effect immediately". A call that
  was authorised before still acts, and two managers can disable each other.
* `docs/UPGRADING_V0.2.md:14` says that newer databases "are rejected by older Identra
  builds". An older process that read the version before the newer one migrated goes on,
  and writes its lower number; `SchemaCoversVersion` is what remains true.

What does hold instead: `NoReplay` and `ConsumedIsBlocked` for sequential reuse,
`SignerInSync` for the ring, `KeyIsReused` for the copied key, `AttemptsBounded`
for the limiters, `DisabledStartsNothing` for calls that begin after the disabling.

Where a property has an exception, the code needs it:

* code requests that overlap at the limit all pass: the allowance for requests in
  progress in `AttemptsBounded`;
* a `RefreshSession` that validates a used token just before its expiry and asks Redis
  just after finds no entry: `checkedAt` in `NoReplay`;
* `DemoteKey` on the only ACTIVE key leaves the ring without one: "at most one" in
  `SignerInSync`;
* a listener that fails ends `serve()` without waiting for handlers: `~quit` in
  `DrainedBeforeClose` and `AnsweredOnShutdown`;
* an address of a deleted user can never be used again, and each code sent to it is lost
  in a failing `Create`: the last disjunct of `OwnerGetsIn`;
* a request of the owner's that hangs in the SMTP server keeps him waiting: the second
  condition of `OwnerGetsIn`;
* two first starts at once create two keys: `overlap` in `KeyIsReused`;
* two managers that were authorised before either was disabled can disable each other:
  `raced` in `ManagerRemains`;
* an audit event that cannot be written is only logged: `AuditIsTruthful` speaks of the
  events there are;
* a password reset whose row cannot be read afterwards is reported as an error:
  `AnswersAreTrue` speaks of successes and of "not found";
* a rotation begun while an earlier one that was given up may still run can print a
  secret that the earlier one kills: `early` in `KnownSecretWorks`;
* a user deleted during a walk moves the later ones up, and one is missed: `gone` in
  `UserWalkComplete`;
* `LinkOAuthAccount` takes an access token and answers with a pair, so that an
  application that was shown one gets a session, and leaves its own identity linked:
  a linked identity counts as a way in, in `SessionsAreOwned`.

## 4. What is proved

**Sessions** (`SessionsProofs`), for any sets of users, pairs and requests and any
positive lifetimes (`LifetimeAssumption`, `NoUserAssumption`, `NoPairAssumption`):
`TypeOK`, `NoReplay`, `ConsumedIsBlocked`, `NoSessionAfterDelete` and
`RevocationIsFinal`. None of them is inductive. `SessionInv` adds

* `RequestShape`: which stage belongs to which RPC, and that a request that has
  presented a token holds one that was signed;
* `OnlySignedPairs`: nothing is delivered or revoked that was not signed, so
  signing a new pair disturbs no entry;
* `EntryOutlivesToken`: an entry lasts at least as long as its token, and so will
  one whose SET is on its way, since a late SET only ends later;
* `UsedIsSpent`: a used token has such an entry or has expired, and a request that
  came late got past the check only if the token had expired by then;
* `OrphanIsStopped`: a request for a deleted user is stopped at the user check,
  since a deletion is never undone.

There is one lemma per action, and `InvariantHolds` combines them.
`RevocationIsFinal` follows step by step: the clock only moves on and an entry is
only ever replaced by one that outlasts its token.

`DeliveredByRotation` (`PairsComeByRotation`) rests on `DeliveredByAnswer`: every pair a
client has came with the answer of a login or a refresh that ended well. For the refresh,
`UsedIsSpent` then says that the token it was given is blocked.

**SigningKeys** (`SessionsProofs`), for any sets of processes and keys
(`KeyAssumption`): `SignerInSync`, `KeyFileIntact`, `UpWithPersistedKey`, from
`KeyInv`, which adds `StartupProgress` (what a process holds and what is on disk
at each stage) and `KnownKeys` (keys in rings and on disk have been generated, so a
fresh key is in no ring). `KeyIsReused` (`OneKeyForAllStarts`) rests on `OneKey`: as long
as no two first starts have overlapped, at most one process is in one, none while there
is a key on disk or a key has gone up, and whoever has loaded a key has the one on disk.
`BuildTokenConfig` comes before a process serves, so that what the ring does later has
no part in it.

**OAuthStates** (`OAuthStatesProofs`), for any sets of states, details and requests
and any positive lifetime (`TTLAssumption`, `NilAssumption`): `StateUsedOnce`,
`LostOnlyWithCause` and the refinement `ImplementsOneTimeStates`. `OAuthInv` says that
a consumed state is not in the store (`UsedIsGone`), which makes a second use
impossible; that what is stored is what was added (`StoredWasAdded`), so a request
gets its state's own details; and that Redis holds nothing that has expired
(`FreshInRedis`), so that acceptance is in time. `PutPreserves`, `PresentPreserves`
and `LossPreserves` treat the three kinds of steps there are; `PutIsAdd`,
`AcceptIsConsume` and `LossIsDrop` map the same three to abstract steps.

**Server and Database** (`ServerProofs`), for any set of processes, any build each, and
any set of calls (`BuildAssumption`, `ServerAssumption`): `SchemaCoversVersion`,
`ServesCompleteSchema`, `DrainedBeforeClose`, `ClosedOnExit`, `HealthBeforeStop` and
`AnsweredOnShutdown`. `ServerInv` adds

* `MigratedSoFar`: a process in its migrations has every table before the next one,
  whatever the others write into `user_version`; tables are never dropped, so this is
  stable, and the version written next is covered;
* `ReadyIsComplete`: an open database has its build's tables, which follows at the
  last migration and is stable for the same reason;
* `ConnMatchesStage`: between which stages of main the database is open;
* `ShutdownOrder`: how main, Serve and GracefulStop wait for each other: main gets to
  `close` only past a finished GracefulStop or Stop, or with no GracefulStop begun;
* `HandlersAreServed`: once a stop has finished, a handler that is left was forced.

The lemmas treat the database's steps once (`OpenStepInv`, `CloseDBInv`) and then main,
failures, gRPC and calls; the end of a process is one lemma used by five actions.

**EmailCodes** (`EmailCodesProofs`), for any addresses, codes and callers and any TTL
(`CodeAssumption`): `TypeOK`, `StoreHoldsNewest` and `CodeUsedOnce`. Types and
`StoreHoldsNewest` together are inductive (`CodeInv`): every step of a handler is a SET,
a consumption or nothing for the stored codes; the limiters only hold keys (`CountedKeys`,
`LimitsStep`) and decide whether a call begins. `CodeUsedOnce` follows since only `Consume` leads to
`lookup`, and what it matched is the newest code.

**Credentials** (`CredentialsProofs`), for any callers, users, identities, service
accounts, owners of mailboxes and identities and sets of scopes (`CredentialsAssumption`):
`TypeOK`, `SessionsAreOwned` and `PowersAreGiven`. The strengthening is `ScopesAreGiven`:
the scopes of each account a caller has a secret or a token of were given to it. It is
needed because tokens are exchanged in one call and used in another, and it is preserved
because an account's scopes are set once, when it is created.

**Accounts** (`AccountsProofs`), for any users, addresses, passwords, identities and
requests (`AbsenceAssumption`): `EmailOnce`, `SessionMatchesIdentity`,
`NoLoginAfterDelete` and `DeletedIsFrozen`. What a request holds is a copy of a row it
read several statements ago, so `UserInv` adds what such a copy is worth:

* `HeldModels`: it is of a row that exists, with an address, and that was not deleted
  when the request began: rows are never removed, and every query for a user leaves
  deleted rows out;
* `IdentityIsOwn`: a request that goes on with an identity has it as its own user's;
  an identity is never given to another user, so no competing request changes that;
* `DeletedRows` and `RequestShape`.

`EmailOnce` is inductive with them, since each statement that writes an address looks
at all rows (the UNIQUE column), deleted ones included.

**RateLimits** (`CredentialsProofs`), for any keys, limit, window, errors and any finite
set of requests (`LimitAssumption`): `AttemptsBounded` and
`ClientCounterOnlyExpires`. `AttemptsBounded` is not inductive, since a request that has
passed the check counts later. `LimitInv` adds `AttemptsAhead`: the attempts made and the
requests past the check (`InFlight`) together stay within the bound, and `LostCounts`:
what a counter does not show was lost with an error. The lemmas `NobodyJoins`,
`OneLeaves` and those beside them turn a step of a request into a change of that number.

**ServiceAccounts** (`ServiceAccountsProofs`), for any accounts, names, secrets, sets of
scopes and requests (`NilAssumption`, `ScopesAssumption`): `DisabledStartsNothing`,
`OneLiveSecret`, `ManagerRemains`, `FirstAccountClosesBootstrap`, `AuditIsTruthful` and
`DisabledIsFrozen`. `AccountInv` adds

* `RequestShape`: from its authorisation on, the actor of a request manages accounts and
  does not disable itself (scopes never change), and a request that is to write an event
  has made the change it tells of;
* `CredentialRows`: each account has its one live secret, and a credential is stored
  before it is revoked, so that a rotation takes one away and adds one;
* `LateIsDisabled`: nobody enables an account again.

`DoneKeeps` and its neighbours show once that what the tables lose nothing of
(`Grows`) leaves the other requests as they were.

**Management** (`ManagementProofs`), for any number of calls at a time, users, events,
page sizes and secrets (`ManagementAssumption`; the one assumption that is not about
types says that a random secret is unlike those in use): `AnswersAreTrue`,
`KnownSecretWorks` and `WalkComplete`. `ApiInv` adds

* `UserRows` and `ChangeCalls`: a user is listed once and never again after a deletion,
  and a call on its way is about a user there is or was, so that "not found" means
  deleted; a call that is to report a success has made its change;
* `RotationCalls`: while no rotation was begun early there is one at most that can still
  run, the answer waited for has the secret that works, and without such an answer to
  come the operator who is sure has it;
* `PageCalls` and `WalkRest`: what a walk must show it has shown, or it comes after the
  walk's offset (`Rest`), or is on the page that has arrived, or after that page's token;
  an insertion moves rows down only, and a deletion of a user is the exception that
  `UserWalkComplete` makes.

It begins with lemmas on sequences: what `InsertAt` and `RemoveAt` do to the places of the
rows, and `PageCovers`: between the rows of a page and the token of the next nothing
is left out, for every offset and size. Frame lemmas (`RotationFrame`, `WalkFrame`,
`QuietStep`, `HandlerStep`) say what a step may do to one call without disturbing a part
of `ApiInv`, and the lemma of an action deals with the rest.

**Only model-checked**: liveness (`LockoutEnds`, `OwnerGetsIn`, `SignalLeadsToExit`,
`StartupEnds`, `OperatorRecovers`), which is outside the prover's reach. Every safety
property of a passing run is the subject of a theorem.

## 5. Limits

* A power failure that loses a rename is not modelled; process crashes are.
* Cryptography is perfect: fresh token IDs and keys, unforgeable tokens.
* One clock serves all processes and Redis.
* Input validation, log messages and the exact gRPC codes are left out; outcomes
  are told apart as success, refusal, conflict and internal error.
* In `Credentials` an RPC is one step; races inside RPCs are the other modules' subject.
* SQLite's locking between processes appears as failing statements (`FailOpen`).

### Not modelled

* `internal/cache/redis/cache.go`: `NewCache` has no caller at this commit.
* `internal/identra/user_info_provider.go`: HTTP calls; results are inputs.
* `internal/security/password.go`: hashing; hashes are values that can be compared.
* `gen/go/identra/v1/*.pb.go`: message structs, without control.
* The commands that create, list and disable service accounts: one request each,
  printed like the ones `Management` has.
* `internal/bootstrap/log.go` and the loading of configuration files: formatting and
  reading; `Server` only asks whether the configuration was accepted.

## 6. Plan

All stateful parts are modelled, and the safety properties of the runs are proved. What
is left:

1. safety lemmas on which the liveness properties rest, such as that a counter above
   zero always has a TTL (for `LockoutEnds`), or that the only way out of `locked` is a
   bootstrap (for `OperatorRecovers`);
2. a refinement of the rate limiters by an abstract counter of attempts.
