--------------------------- MODULE ServiceAccounts ---------------------------
(***************************************************************************)
(* Service accounts: the RPCs of internal/identra/service_accounts.go, the *)
(* credential lifecycle of internal/serviceaccount/bootstrap.go on the     *)
(* tables of internal/store/sqlite/service_accounts.go, the bootstrap of   *)
(* the first account by the server or the offline command, and the audit   *)
(* trail (internal/identra/audit.go).                                      *)
(*                                                                         *)
(* A management call is authorised in one query, acts in one transaction   *)
(* and writes its audit event in another statement; calls interleave       *)
(* between these.  The rate limit of ExchangeServiceToken is in RateLimits. *)
(***************************************************************************)
EXTENDS FiniteSets

CONSTANTS ClientIDs,
          Names,
          Secrets,     \* client secrets; a hash stands for one secret
          ScopeSets,   \* the sets of scopes accounts are created with
          Requests,    \* requests in progress at the same time
          NoName, NoClient

Scopes == {"admin", "manage", "read", "wildcard"}

ASSUME NilAssumption == NoName \notin Names /\ NoClient \notin ClientIDs
ASSUME ScopesAssumption == ScopeSets \subseteq (SUBSET Scopes) \ {{}}

VARIABLES
  name,      \* name[a]: service_accounts.name; NoName: there is no row a
  scopes,    \* scopes[a]
  disabled,  \* rows with disabled_at set
  owner,     \* owner[s]: the account of secret s; NoClient: never stored
  revoked,   \* secrets whose credential has revoked_at set
  marker,    \* system_state has the bootstrap-completed key
  tokens,    \* accounts that hold a service token that has not expired
  audit,     \* audit_events, as <<action, actor, resource>>
  pc, req,   \* pc[r]: the next call of request r;  req[r]: what it asks for
  done,      \* history: what has been done, as <<action, actor, resource>>
  late,      \* history: requests whose account was disabled before they began
  raced      \* history: an account has acted after it was disabled

tables == <<name, scopes, disabled, owner, revoked, marker>>
history == <<done, raced>>
vars == <<tables, tokens, audit, pc, req, late, history>>

NoRequest == [op |-> "none", actor |-> NoClient, target |-> NoClient,
              name |-> NoName, scopes |-> {}]
Ops == {"none", "exchange", "create", "disable", "rotate"}
Stages == {"idle", "authenticate", "issue", "authorize", "execute", "reread", "audit"}
Events == {"create", "disable", "rotate", "bootstrap"}
            \X (ClientIDs \cup {NoClient}) \X ClientIDs

\* Every variable has its type; an event names an account that acted and one
\* it acted on.
TypeOK ==
  /\ name \in [ClientIDs -> Names \cup {NoName}]
  /\ scopes \in [ClientIDs -> SUBSET Scopes]
  /\ disabled \subseteq ClientIDs
  /\ owner \in [Secrets -> ClientIDs \cup {NoClient}]
  /\ revoked \subseteq Secrets
  /\ marker \in BOOLEAN
  /\ tokens \subseteq ClientIDs
  /\ audit \subseteq Events
  /\ pc \in [Requests -> Stages]
  /\ req \in [Requests -> [op : Ops, actor : ClientIDs \cup {NoClient},
                           target : ClientIDs \cup {NoClient},
                           name : Names \cup {NoName}, scopes : SUBSET Scopes]]
  /\ done \subseteq Events
  /\ late \subseteq Requests
  /\ raced \in BOOLEAN

Init ==
  /\ name = [a \in ClientIDs |-> NoName]
  /\ scopes = [a \in ClientIDs |-> {}]
  /\ disabled = {}
  /\ owner = [s \in Secrets |-> NoClient]
  /\ revoked = {}
  /\ marker = FALSE
  /\ tokens = {}
  /\ audit = {}
  /\ pc = [r \in Requests |-> "idle"]
  /\ req = [r \in Requests |-> NoRequest]
  /\ done = {}
  /\ late = {}
  /\ raced = FALSE

-----------------------------------------------------------------------------
(* The tables.                                                             *)

Rows == {a \in ClientIDs : name[a] # NoName}
Active == Rows \ disabled
Live(a) == {s \in Secrets \ revoked : owner[s] = a}

\* "wildcard" stands for a scope that ends in "*" and matches.
HasServiceScope(a, required) == scopes[a] \cap {"admin", "wildcard", required} # {}
Manager(a) == HasServiceScope(a, "manage")

\* id, name and secret_hash are unique; nothing is stored on a conflict.
CanInsert(a, n, s) ==
  /\ a \notin Rows
  /\ \A b \in Rows : name[b] # n
  /\ owner[s] = NoClient

InsertServiceAccount(a, n, sc, s) ==
  /\ name' = [name EXCEPT ![a] = n]
  /\ scopes' = [scopes EXCEPT ![a] = sc]
  /\ owner' = [owner EXCEPT ![s] = a]
  /\ UNCHANGED <<disabled, revoked>>

-----------------------------------------------------------------------------
(* Requests.                                                               *)

Goto(r, s) == pc' = [pc EXCEPT ![r] = s] /\ UNCHANGED <<req, late>>

\* r has answered; its place is free for the next request.
Done(r) ==
  /\ pc' = [pc EXCEPT ![r] = "idle"]
  /\ req' = [req EXCEPT ![r] = NoRequest]
  /\ late' = late \ {r}

Begin(r, q, s) ==
  /\ pc[r] = "idle"
  /\ pc' = [pc EXCEPT ![r] = s]
  /\ req' = [req EXCEPT ![r] = q]
  /\ late' = IF q.actor \in disabled THEN late \cup {r} ELSE late
  /\ UNCHANGED <<tables, tokens, audit, history>>

\* Somebody presents the client ID a and some secret.
BeginExchange(r, a) ==
  Begin(r, [NoRequest EXCEPT !.op = "exchange", !.actor = a], "authenticate")

\* ValidateServiceToken accepts the token whatever has become of its account.
BeginCreate(r, a, n, sc) ==
  /\ a \in tokens
  /\ Begin(r, [NoRequest EXCEPT !.op = "create", !.actor = a,
                                !.name = n, !.scopes = sc], "authorize")

BeginOn(r, o, a, t) ==
  /\ a \in tokens
  /\ Begin(r, [NoRequest EXCEPT !.op = o, !.actor = a, !.target = t], "authorize")

\* The query of Authenticate: an account that is not disabled, a credential of
\* its own that is not revoked.
Authenticate(r, s) ==
  /\ pc[r] = "authenticate"
  /\ IF req[r].actor \in Active /\ s \in Live(req[r].actor)
     THEN Goto(r, "issue") ELSE Done(r)
  /\ UNCHANGED <<tables, tokens, audit, history>>

IssueToken(r) ==
  /\ pc[r] = "issue"
  /\ tokens' = tokens \cup {req[r].actor}
  /\ Done(r)
  /\ UNCHANGED <<tables, audit, history>>

\* Mutant: the token is trusted until it expires.
AuthorizeServiceAccount_TokenOnly(r) ==
  /\ pc[r] = "authorize"
  /\ IF Manager(req[r].actor) /\ req[r].target # req[r].actor
     THEN Goto(r, "execute") ELSE Done(r)
  /\ UNCHANGED <<tables, tokens, audit, history>>

\* Mutant: an account may disable itself.
AuthorizeServiceAccount_Self(r) ==
  /\ pc[r] = "authorize"
  /\ IF req[r].actor \in Active /\ Manager(req[r].actor)
     THEN Goto(r, "execute") ELSE Done(r)
  /\ UNCHANGED <<tables, tokens, audit, history>>

\* GetByID rechecks the account and its present scopes; an account cannot
\* disable itself.
AuthorizeServiceAccount(r) ==
  /\ pc[r] = "authorize"
  /\ LET a == req[r].actor IN
     IF a \in Active /\ Manager(a) /\ ~(req[r].op = "disable" /\ req[r].target = a)
     THEN Goto(r, "execute") ELSE Done(r)
  /\ UNCHANGED <<tables, tokens, audit, history>>

\* r's transaction has changed the account a.
Executed(r, a) ==
  /\ done' = done \cup {<<req[r].op, req[r].actor, a>>}
  /\ raced' = (raced \/ req[r].actor \in disabled)

\* Create, with a random client ID and secret; the name may be taken.
CreateServiceAccount(r, a, s) ==
  /\ pc[r] = "execute" /\ req[r].op = "create"
  /\ a \notin Rows /\ owner[s] = NoClient
  /\ IF CanInsert(a, req[r].name, s)
     THEN /\ InsertServiceAccount(a, req[r].name, req[r].scopes, s)
          /\ Executed(r, a)
          /\ pc' = [pc EXCEPT ![r] = "audit"]
          /\ req' = [req EXCEPT ![r].target = a]
          /\ UNCHANGED <<late, marker>>
     ELSE Done(r) /\ UNCHANGED <<tables, history>>
  /\ UNCHANGED <<tokens, audit>>

\* Mutant: an UPDATE that found no row counts as a success.
DisableServiceAccount_AnyCount(r) ==
  /\ pc[r] = "execute" /\ req[r].op = "disable"
  /\ IF req[r].target \in Active
     THEN disabled' = disabled \cup {req[r].target} /\ Executed(r, req[r].target)
     ELSE UNCHANGED <<disabled, history>>
  /\ Goto(r, "reread")
  /\ UNCHANGED <<name, scopes, owner, revoked, marker, tokens, audit>>

\* The UPDATE of Disable, on a row that is not disabled yet.
DisableServiceAccount(r) ==
  /\ pc[r] = "execute" /\ req[r].op = "disable"
  /\ IF req[r].target \in Active
     THEN /\ disabled' = disabled \cup {req[r].target}
          /\ Executed(r, req[r].target)
          /\ Goto(r, "reread")
     ELSE Done(r) /\ UNCHANGED <<disabled, history>>
  /\ UNCHANGED <<name, scopes, owner, revoked, marker, tokens, audit>>

\* Disable's GetByID; when it fails the caller gets an error and no event is
\* written, although the account is disabled (Fail).
RereadDisabled(r) ==
  /\ pc[r] = "reread"
  /\ Goto(r, "audit")
  /\ UNCHANGED <<tables, tokens, audit, history>>

\* Mutant: the old credentials are not revoked.
RotateServiceAccountSecret_KeepsOld(r, s) ==
  /\ pc[r] = "execute" /\ req[r].op = "rotate"
  /\ owner[s] = NoClient
  /\ IF req[r].target \in Active
     THEN /\ owner' = [owner EXCEPT ![s] = req[r].target]
          /\ Executed(r, req[r].target)
          /\ Goto(r, "audit")
     ELSE Done(r) /\ UNCHANGED <<owner, history>>
  /\ UNCHANGED <<name, scopes, disabled, revoked, marker, tokens, audit>>

\* Mutant: the account is looked up whether disabled or not.
RotateServiceAccountSecret_Disabled(r, s) ==
  /\ pc[r] = "execute" /\ req[r].op = "rotate"
  /\ owner[s] = NoClient
  /\ req[r].target \in Rows
  /\ revoked' = revoked \cup Live(req[r].target)
  /\ owner' = [owner EXCEPT ![s] = req[r].target]
  /\ Executed(r, req[r].target)
  /\ Goto(r, "audit")
  /\ UNCHANGED <<name, scopes, disabled, marker, tokens, audit>>

\* RotateCredential: one transaction, with a random secret.
RotateServiceAccountSecret(r, s) ==
  /\ pc[r] = "execute" /\ req[r].op = "rotate"
  /\ owner[s] = NoClient
  /\ IF req[r].target \in Active
     THEN /\ revoked' = revoked \cup Live(req[r].target)
          /\ owner' = [owner EXCEPT ![s] = req[r].target]
          /\ Executed(r, req[r].target)
          /\ Goto(r, "audit")
     ELSE Done(r) /\ UNCHANGED <<owner, revoked, history>>
  /\ UNCHANGED <<name, scopes, disabled, marker, tokens, audit>>

\* The event is written, or its failure logged; either way the call succeeds.
RecordManagementAudit(r) ==
  /\ pc[r] = "audit"
  /\ \/ audit' = audit \cup {<<req[r].op, req[r].actor, req[r].target>>}
     \/ UNCHANGED audit
  /\ Done(r)
  /\ UNCHANGED <<tables, tokens, history>>

\* A query fails, the context is cancelled or the server dies.
Fail(r) ==
  /\ pc[r] # "idle"
  /\ Done(r)
  /\ UNCHANGED <<tables, tokens, audit, history>>

-----------------------------------------------------------------------------
(* Outside the requests.                                                   *)

\* Mutant: a forced bootstrap does not set the marker.
Bootstrap_ForceUnmarked(a, n, sc, s, force) ==
  /\ force \/ ~marker
  /\ CanInsert(a, n, s)
  /\ InsertServiceAccount(a, n, sc, s)
  /\ marker' = (marker \/ ~force)
  /\ audit' = audit \cup {<<"bootstrap", NoClient, a>>}
  /\ done' = done \cup {<<"bootstrap", NoClient, a>>}
  /\ UNCHANGED <<tokens, pc, req, late, raced>>

\* Bootstrap, by the server at startup (IDs and secret from its configuration)
\* or by the offline command (random ones): one transaction, audit event
\* included.  A name that exists, the marker without force and a conflict leave
\* everything as it is.
Bootstrap(a, n, sc, s, force) ==
  /\ force \/ ~marker
  /\ CanInsert(a, n, s)
  /\ InsertServiceAccount(a, n, sc, s)
  /\ marker' = TRUE
  /\ audit' = audit \cup {<<"bootstrap", NoClient, a>>}
  /\ done' = done \cup {<<"bootstrap", NoClient, a>>}
  /\ UNCHANGED <<tokens, pc, req, late, raced>>

ExpireToken(a) ==
  /\ a \in tokens
  /\ tokens' = tokens \ {a}
  /\ UNCHANGED <<tables, audit, pc, req, late, history>>

Next ==
  \/ \E r \in Requests :
       \/ \E a \in ClientIDs : BeginExchange(r, a)
       \/ \E a \in ClientIDs, n \in Names, sc \in ScopeSets : BeginCreate(r, a, n, sc)
       \/ \E o \in {"disable", "rotate"}, a, t \in ClientIDs : BeginOn(r, o, a, t)
       \/ \E s \in Secrets : Authenticate(r, s)
       \/ IssueToken(r)
       \/ AuthorizeServiceAccount(r)
       \/ \E a \in ClientIDs, s \in Secrets : CreateServiceAccount(r, a, s)
       \/ DisableServiceAccount(r)
       \/ RereadDisabled(r)
       \/ \E s \in Secrets : RotateServiceAccountSecret(r, s)
       \/ RecordManagementAudit(r)
       \/ Fail(r)
  \/ \E a \in ClientIDs, n \in Names, sc \in ScopeSets, s \in Secrets,
        force \in BOOLEAN : Bootstrap(a, n, sc, s, force)
  \/ \E a \in ClientIDs : ExpireToken(a)

Spec == Init /\ [][Next]_vars

-----------------------------------------------------------------------------
(* Properties.                                                             *)

\* An account that was disabled before a call of its own began gets nothing out
\* of it: no token for its secret, no management with a token it still holds.
DisabledStartsNothing ==
  \A r \in late : pc[r] \in {"authenticate", "authorize"}

\* Each account has exactly one working secret, whatever rotations compete: one
\* that was rotated away is dead, and no rotation leaves an account without.
OneLiveSecret ==
  \A a \in Rows : Cardinality(Live(a)) = 1

\* A disabled account stays disabled and its credentials stay as they are: a
\* rotation that was authorised before the account was disabled does not give
\* it a new secret afterwards.
DisabledIsFrozen ==
  [][\A a \in disabled : a \in disabled' /\ Live(a)' = Live(a)]_vars

\* Service accounts cannot lock everybody out: as long as no account acts after
\* it was disabled, some account that may manage the others stays active once
\* there has been one.
ManagerRemains ==
  ~raced /\ (\E a \in Rows : Manager(a)) => \E a \in Active : Manager(a)

\* "Bootstrap is blocked after the first account is created" (README.md:115),
\* whichever way, and however often the server or the command tries again.
FirstAccountClosesBootstrap == Rows # {} => marker

\* The audit trail tells no lies: what it says was done by the account it names,
\* and every bootstrap is in it.
AuditIsTruthful ==
  /\ audit \subseteq done
  /\ \A e \in done : e[1] = "bootstrap" => e \in audit

-----------------------------------------------------------------------------
(* The inductive invariant behind them (proved in ServiceAccountsProofs).  *)

\* What a request holds at each stage: its operands; from "execute" on an actor
\* that was found to manage the accounts and does not disable itself; and behind
\* an event that is to be written, the change it tells of.
RequestShape ==
  \A r \in Requests : LET q == req[r] IN
    /\ pc[r] = "idle" => r \notin late
    /\ pc[r] # "idle" => q.actor \in ClientIDs
    /\ pc[r] \in {"authorize", "execute"} => q.op \in {"create", "disable", "rotate"}
    /\ pc[r] \in {"authorize", "execute"} /\ q.op = "create"
         => q.name \in Names /\ q.scopes \in ScopeSets
    /\ pc[r] \in {"authorize", "execute"} /\ q.op \in {"disable", "rotate"}
         => q.target \in ClientIDs
    /\ pc[r] \in {"execute", "reread", "audit"}
         => q.actor \in Rows /\ Manager(q.actor)
    /\ pc[r] = "execute" /\ q.op = "disable" => q.target # q.actor
    /\ pc[r] \in {"reread", "audit"} => /\ q.op \in {"create", "disable", "rotate"}
                                        /\ <<q.op, q.actor, q.target>> \in done

\* Nobody enables an account again.
LateIsDisabled == \A r \in late : req[r].actor \in disabled

\* Rows of disabled accounts and of credentials refer to accounts that exist, and
\* each of these has its one live secret; only a stored credential is revoked.
CredentialRows ==
  /\ disabled \subseteq Rows
  /\ \A s \in Secrets : owner[s] # NoClient => owner[s] \in Rows
  /\ \A s \in revoked : owner[s] # NoClient
  /\ \A a \in Rows : \E s \in Secrets : Live(a) = {s}

\* The parts together: preserved by every step of any number of requests, and by
\* every bootstrap, expiry and failure between them.
AccountInv ==
  /\ TypeOK
  /\ RequestShape
  /\ LateIsDisabled
  /\ DisabledStartsNothing
  /\ CredentialRows
  /\ FirstAccountClosesBootstrap
  /\ ManagerRemains
  /\ AuditIsTruthful
=============================================================================
