----------------------------- MODULE Credentials -----------------------------
(***************************************************************************)
(* Which credential opens what: all the methods of the eight gRPC services *)
(* (gen/go/identra/v1), seen as rules that turn the credentials a caller   *)
(* has into others, or into changes.                                       *)
(*                                                                         *)
(* A method is one step here: what its calls do one after the other, and   *)
(* how callers get in between, is in the modules of its component.  Login  *)
(* codes and OAuth states are one-time, and anybody may ask for one at any *)
(* time: a caller has one when it needs it, and a refused call changes     *)
(* nothing (EmailCodes and OAuthStates have their lives).  Tokens are told *)
(* apart by type and subject and do not expire: what holds for callers     *)
(* that keep everything holds for all.  A password is named by the caller  *)
(* who set it.                                                             *)
(***************************************************************************)
EXTENDS FiniteSets

CONSTANTS Callers,
          Users,       \* user IDs
          Emails,
          Githubs,     \* accounts at the OAuth provider
          Accounts,    \* client IDs of service accounts
          MailOwner,   \* MailOwner[e]: the caller who reads e's mail
          GitOwner,    \* GitOwner[g]: the caller who signs in as g
          GitEmails,   \* GitEmails[g]: what the provider may report for g
          Founder,     \* the caller who was given the bootstrap account ...
          Root,        \* ... and its client ID
          ScopeSets,   \* the sets of scopes accounts are created with
          None

\* The scopes methods ask for, and those an account may have: "users.*" stands
\* for the scopes with a wildcard.
Required == {"users.read", "users.manage", "accounts.read", "accounts.manage", "audit.read"}
Scopes == Required \cup {"admin", "users.*"}

ASSUME CredentialsAssumption ==
  /\ MailOwner \in [Emails -> Callers] /\ GitOwner \in [Githubs -> Callers]
  /\ GitEmails \in [Githubs -> SUBSET (Emails \cup {None})]
  /\ Founder \in Callers /\ Root \in Accounts
  /\ ScopeSets \subseteq (SUBSET Scopes) \ {{}}
  /\ None \notin Callers \cup Users \cup Emails

VARIABLES
  email,     \* email[u]: None when there is no row u
  deleted,   \* users with deleted_at set
  password,  \* password[u]: who set it; None: password login is disabled
  link,      \* link[g]: the user of the external identity g
  scopes,    \* scopes[a]: {} when there is no account a
  disabled,  \* accounts with disabled_at set
  secret,    \* secret[a]: who was given the credential that is not revoked
  access, refresh, service,  \* access[p]: subjects of the tokens p has
  owned,     \* history: owned[p]: users whose way in has been p's
  given,     \* history: given[p]: scopes of the accounts p had a secret of
  done       \* the last step, if it was a management call: who did what

tables == <<email, deleted, password, link, scopes, disabled, secret>>
tokens == <<access, refresh, service>>
vars == <<tables, tokens, owned, given, done>>

Init ==
  /\ email = [u \in Users |-> None] /\ deleted = {}
  /\ password = [u \in Users |-> None]
  /\ link = [g \in Githubs |-> None]
  /\ scopes = [a \in Accounts |-> IF a = Root THEN {"admin"} ELSE {}]
  /\ disabled = {}
  /\ secret = [a \in Accounts |-> IF a = Root THEN {Founder} ELSE {}]
  /\ access = [p \in Callers |-> {}]
  /\ refresh = [p \in Callers |-> {}]
  /\ service = [p \in Callers |-> {}]
  /\ owned = [p \in Callers |-> {}]
  /\ given = [p \in Callers |-> IF p = Founder THEN {"admin"} ELSE {}]
  /\ done = {}

Rows == {u \in Users : email[u] # None}
Active == Rows \ deleted
Taken(e) == \E u \in Rows : email[u] = e

\* A caller's ways into user u: the password, the mail, an identity linked.
WayIn(p, u) ==
  \/ password[u] = p
  \/ email[u] # None /\ MailOwner[email[u]] = p
  \/ \E g \in Githubs : GitOwner[g] = p /\ link[g] = u

\* Whoever has a way in, or a secret, after the step has had one.
Remember ==
  /\ owned' = [p \in Callers |-> owned[p] \cup {u \in Users : WayIn(p, u)'}]
  /\ given' = [p \in Callers |->
                  given[p] \cup UNION {scopes'[a] : a \in {b \in Accounts : p \in secret'[b]}}]

\* The step is no management call.
Quiet == done' = {}

\* NewTokenPair, given to p.
GivePair(p, u) ==
  /\ access' = [access EXCEPT ![p] = @ \cup {u}]
  /\ refresh' = [refresh EXCEPT ![p] = @ \cup {u}]

-----------------------------------------------------------------------------
(* AuthService.                                                            *)

RegisterWithPassword(p, u, e) ==
  /\ u \notin Rows /\ ~Taken(e)
  /\ email' = [email EXCEPT ![u] = e]
  /\ password' = [password EXCEPT ![u] = p]
  /\ GivePair(p, u)
  /\ UNCHANGED <<deleted, link, scopes, disabled, secret, service>> /\ Quiet

LoginWithPassword(p, u) ==
  /\ u \in Active /\ password[u] = p
  /\ GivePair(p, u)
  /\ UNCHANGED <<tables, service>> /\ Quiet

\* Anybody asks, for any address; the answer holds nothing, and the code goes to
\* the address.
RequestEmailLoginCode(p, e) == UNCHANGED <<tables, tokens>> /\ Quiet

\* The user with the address logs in, or is created.
LoginWithEmailCode(p, e, u) ==
  /\ MailOwner[e] = p
  /\ IF \E v \in Active : email[v] = e
       THEN u \in Active /\ email[u] = e /\ UNCHANGED <<email>>
       ELSE u \notin Rows /\ ~Taken(e) /\ email' = [email EXCEPT ![u] = e]
  /\ GivePair(p, u)
  /\ UNCHANGED <<deleted, password, link, scopes, disabled, secret, service>> /\ Quiet

ListOAuthProviders(p) == UNCHANGED <<tables, tokens>> /\ Quiet

\* The state in the answer is good for one login or linking, of anybody.
StartOAuthLogin(p) == UNCHANGED <<tables, tokens>> /\ Quiet

\* ensureOAuthUser: the user linked to g logs in and takes over the address e
\* reported for g, if any; else the user with that address is linked; else a
\* user is created with it.
LoginWithOAuth(p, g, e, u) ==
  /\ GitOwner[g] = p
  /\ \/ /\ link[g] = u /\ u \in Active
        /\ e \in {None, email[u]} \/ ~Taken(e)
     \/ /\ link[g] = None /\ e # None
        /\ IF \E v \in Active : email[v] = e
             THEN u \in Active /\ email[u] = e
             ELSE u \notin Rows /\ ~Taken(e)
  /\ email' = [email EXCEPT ![u] = IF e = None THEN @ ELSE e]
  /\ link' = [link EXCEPT ![g] = u]
  /\ GivePair(p, u)
  /\ UNCHANGED <<deleted, password, scopes, disabled, secret, service>> /\ Quiet

-----------------------------------------------------------------------------
(* SessionService, UserService, KeyService.                                *)

\* Mutant: any token of the user is taken for a refresh token.
RefreshSession_AnyType(p, u) ==
  /\ u \in refresh[p] \cup access[p] /\ u \in Active
  /\ GivePair(p, u)
  /\ UNCHANGED <<tables, service>> /\ Quiet

RefreshSession(p, u) ==
  /\ u \in refresh[p] /\ u \in Active
  /\ GivePair(p, u)
  /\ UNCHANGED <<tables, service>> /\ Quiet

\* It may have been p's last refresh token of u, or not.
RevokeSession(p, u) ==
  /\ u \in refresh[p]
  /\ refresh' \in {refresh, [refresh EXCEPT ![p] = @ \ {u}]}
  /\ UNCHANGED <<tables, access, service>> /\ Quiet

GetCurrentUser(p, u) ==
  /\ u \in access[p] /\ u \in Active
  /\ UNCHANGED <<tables, tokens>> /\ Quiet

\* The access token names the user, the code of g the identity.
LinkOAuthAccount(p, u, g) ==
  /\ u \in access[p] /\ u \in Active
  /\ GitOwner[g] = p
  /\ link[g] \in {u, None}
  /\ link' = [link EXCEPT ![g] = u]
  /\ GivePair(p, u)
  /\ UNCHANGED <<email, deleted, password, scopes, disabled, secret, service>> /\ Quiet

ListSigningKeys(p) == UNCHANGED <<tables, tokens>> /\ Quiet

-----------------------------------------------------------------------------
(* Service accounts.                                                       *)

Exists(a) == scopes[a] # {}
Covered(s) ==
  CASE s = "admin" -> Required
    [] s = "users.*" -> {"users.read", "users.manage"}
    [] s \in Required -> {s}

HasServiceScope(a, required) == \E s \in scopes[a] : required \in Covered(s)

\* p presents a service token of a, which is active and has one of the scopes.
AuthorizeServiceAccount(p, a, required) ==
  /\ a \in service[p] /\ Exists(a) /\ a \notin disabled
  /\ \E r \in required : HasServiceScope(a, r)

Acts == {"read users", "change users", "read accounts", "change accounts", "read events"}

Does(p, what) == done' = {[by |-> p, what |-> what]}

ExchangeServiceToken(p, a) ==
  /\ Exists(a) /\ a \notin disabled /\ p \in secret[a]
  /\ service' = [service EXCEPT ![p] = @ \cup {a}]
  /\ UNCHANGED <<tables, access, refresh>> /\ Quiet

\* The secret of the new account is in the answer, and handed to q.
CreateServiceAccount(p, a, b, sc, q) ==
  /\ AuthorizeServiceAccount(p, a, {"accounts.manage"})
  /\ ~Exists(b)
  /\ scopes' = [scopes EXCEPT ![b] = sc]
  /\ secret' = [secret EXCEPT ![b] = {p, q}]
  /\ Does(p, "change accounts")
  /\ UNCHANGED <<email, deleted, password, link, disabled, tokens>>

ListServiceAccounts(p, a) ==
  /\ AuthorizeServiceAccount(p, a, {"accounts.read", "accounts.manage"})
  /\ Does(p, "read accounts")
  /\ UNCHANGED <<tables, tokens>>

DisableServiceAccount(p, a, b) ==
  /\ AuthorizeServiceAccount(p, a, {"accounts.manage"})
  /\ a # b /\ Exists(b) /\ b \notin disabled
  /\ disabled' = disabled \cup {b}
  /\ Does(p, "change accounts")
  /\ UNCHANGED <<email, deleted, password, link, scopes, secret, tokens>>

\* The new secret is in the answer, and handed to q.
RotateServiceAccountSecret(p, a, b, q) ==
  /\ AuthorizeServiceAccount(p, a, {"accounts.manage"})
  /\ Exists(b) /\ b \notin disabled
  /\ secret' = [secret EXCEPT ![b] = {p, q}]
  /\ Does(p, "change accounts")
  /\ UNCHANGED <<email, deleted, password, link, scopes, disabled, tokens>>

-----------------------------------------------------------------------------
(* UserManagementService, AuditService, SystemService.                     *)

ListUsers(p, a) ==
  /\ AuthorizeServiceAccount(p, a, {"users.read", "users.manage"})
  /\ Does(p, "read users")
  /\ UNCHANGED <<tables, tokens>>

CreatePasswordUser(p, a, u, e) ==
  /\ AuthorizeServiceAccount(p, a, {"users.manage"})
  /\ u \notin Rows /\ ~Taken(e)
  /\ email' = [email EXCEPT ![u] = e]
  /\ password' = [password EXCEPT ![u] = p]
  /\ Does(p, "change users")
  /\ UNCHANGED <<deleted, link, scopes, disabled, secret, tokens>>

\* Mutant: who may list users may delete them.
DeleteUser_ReadScope(p, a, u) ==
  /\ AuthorizeServiceAccount(p, a, {"users.read", "users.manage"})
  /\ u \in Active
  /\ deleted' = deleted \cup {u}
  /\ Does(p, "change users")
  /\ UNCHANGED <<email, password, link, scopes, disabled, secret, tokens>>

DeleteUser(p, a, u) ==
  /\ AuthorizeServiceAccount(p, a, {"users.manage"})
  /\ u \in Active
  /\ deleted' = deleted \cup {u}
  /\ Does(p, "change users")
  /\ UNCHANGED <<email, password, link, scopes, disabled, secret, tokens>>

ResetUserPassword(p, a, u) ==
  /\ AuthorizeServiceAccount(p, a, {"users.manage"})
  /\ u \in Active
  /\ password' = [password EXCEPT ![u] = p]
  /\ Does(p, "change users")
  /\ UNCHANGED <<email, deleted, link, scopes, disabled, secret, tokens>>

ListAuditEvents(p, a) ==
  /\ AuthorizeServiceAccount(p, a, {"audit.read"})
  /\ Does(p, "read events")
  /\ UNCHANGED <<tables, tokens>>

GetServerInfo(p) == UNCHANGED <<tables, tokens>> /\ Quiet

-----------------------------------------------------------------------------
\* A caller shows its access token to an application, which checks it with the
\* published keys and may use it in calls of its own.
ShowAccessToken(p, q, u) ==
  /\ u \in access[p]
  /\ access' = [access EXCEPT ![q] = @ \cup {u}]
  /\ UNCHANGED <<tables, refresh, service>> /\ Quiet

AuthService(p) ==
  \/ \E u \in Users, e \in Emails : RegisterWithPassword(p, u, e)
  \/ \E u \in Users : LoginWithPassword(p, u)
  \/ \E e \in Emails : RequestEmailLoginCode(p, e)
  \/ \E u \in Users, e \in Emails : LoginWithEmailCode(p, e, u)
  \/ ListOAuthProviders(p)
  \/ StartOAuthLogin(p)
  \/ \E u \in Users, g \in Githubs : \E e \in GitEmails[g] : LoginWithOAuth(p, g, e, u)

SessionService(p) == \E u \in Users : RefreshSession(p, u) \/ RevokeSession(p, u)

UserService(p) ==
  \E u \in Users : GetCurrentUser(p, u) \/ \E g \in Githubs : LinkOAuthAccount(p, u, g)

KeyService(p) == ListSigningKeys(p)

ServiceAccountService(p) ==
  \E a \in Accounts :
    \/ ExchangeServiceToken(p, a)
    \/ \E b \in Accounts, sc \in ScopeSets, q \in Callers : CreateServiceAccount(p, a, b, sc, q)
    \/ ListServiceAccounts(p, a)
    \/ \E b \in Accounts : DisableServiceAccount(p, a, b)
    \/ \E b \in Accounts, q \in Callers : RotateServiceAccountSecret(p, a, b, q)

UserManagementService(p) ==
  \E a \in Accounts :
    \/ ListUsers(p, a)
    \/ \E u \in Users, e \in Emails : CreatePasswordUser(p, a, u, e)
    \/ \E u \in Users : DeleteUser(p, a, u) \/ ResetUserPassword(p, a, u)

AuditService(p) == \E a \in Accounts : ListAuditEvents(p, a)

SystemService(p) == GetServerInfo(p)

Next ==
  /\ \E p \in Callers :
       \/ AuthService(p) \/ SessionService(p) \/ UserService(p) \/ KeyService(p)
       \/ ServiceAccountService(p) \/ UserManagementService(p) \/ AuditService(p)
       \/ SystemService(p)
       \/ \E q \in Callers, u \in Users : ShowAccessToken(p, q, u)
  /\ Remember

Spec == Init /\ [][Next]_vars

-----------------------------------------------------------------------------
(* Properties.                                                             *)

\* Every variable has its type.
TypeOK ==
  /\ email \in [Users -> Emails \cup {None}] /\ deleted \subseteq Rows
  /\ password \in [Users -> Callers \cup {None}]
  /\ link \in [Githubs -> Users \cup {None}]
  /\ scopes \in [Accounts -> SUBSET Scopes] /\ disabled \subseteq Accounts
  /\ secret \in [Accounts -> SUBSET Callers]
  /\ access \in [Callers -> SUBSET Users] /\ refresh \in [Callers -> SUBSET Users]
  /\ service \in [Callers -> SUBSET Accounts]
  /\ owned \in [Callers -> SUBSET Users] /\ given \in [Callers -> SUBSET Scopes]
  /\ done \subseteq [by : Callers, what : Acts]

\* Nobody has a refresh token of a user without having had a way into that
\* user's account: the password, the mailbox or a linked identity.  An access
\* token that was shown to others is not enough by itself: the one method that
\* makes a session of it, LinkOAuthAccount, leaves an identity of the caller's
\* linked to the user, where GetCurrentUser shows it.
SessionsAreOwned == \A p \in Callers : refresh[p] \subseteq owned[p]

\* What a caller has to have been given a scope for, by way of a service
\* account's secret, to have done it.
Needs(what) ==
  CASE what = "read users" -> {"admin", "users.*", "users.read", "users.manage"}
    [] what = "change users" -> {"admin", "users.*", "users.manage"}
    [] what = "read accounts" -> {"admin", "accounts.read", "accounts.manage"}
    [] what = "change accounts" -> {"admin", "accounts.manage"}
    [] what = "read events" -> {"admin", "audit.read"}

\* Whatever user credentials and tokens a caller collects, it manages only what
\* the scopes of its service accounts allow: a reader changes nothing, who
\* manages users does not manage accounts, and a user nothing at all.
PowersAreGiven ==
  \A p \in Callers :
    /\ service[p] # {} => given[p] # {}
    /\ \A d \in done : d.by = p => given[p] \cap Needs(d.what) # {}
=============================================================================
