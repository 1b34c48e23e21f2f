-------------------------- MODULE CredentialsProofs --------------------------
(***************************************************************************)
(* For any number of callers, users and accounts, any owners of mailboxes  *)
(* and identities, and any scopes: sessions belong to who has had a way    *)
(* in, and management to who was given the scope for it.                   *)
(*                                                                         *)
(* The second half is about the limiters that stand before the logins: for *)
(* any limit, window and number of concurrent requests, what checking      *)
(* first and recording later may cost.                                     *)
(***************************************************************************)
EXTENDS Credentials, RateLimits, FiniteSetTheorems, TLAPS

\* What PowersAreGiven rests on: the scopes of every account a caller has a
\* secret or a token of have been given to it.  An account's scopes are set once,
\* before anybody can have a token of it.
ScopesAreGiven ==
  \A p \in Callers, a \in Accounts :
    /\ p \in secret[a] => scopes[a] \subseteq given[p]
    /\ a \in service[p] => scopes[a] # {} /\ scopes[a] \subseteq given[p]

CredInv == TypeOK /\ SessionsAreOwned /\ ScopesAreGiven /\ PowersAreGiven

Service(p) ==
  \/ AuthService(p) \/ SessionService(p) \/ UserService(p) \/ KeyService(p)
  \/ ServiceAccountService(p) \/ UserManagementService(p) \/ AuditService(p)
  \/ SystemService(p)
  \/ \E q \in Callers, u \in Users : ShowAccessToken(p, q, u)

-----------------------------------------------------------------------------
(* Types.                                                                  *)

\* Init gives every variable of Credentials its type.
LEMMA TypeInit == Init => TypeOK
  BY CredentialsAssumption DEF Init, TypeOK, Rows, Scopes, Acts

\* The types of the tables and tokens, without the histories.
StateType ==
  /\ email \in [Users -> Emails \cup {None}] /\ deleted \subseteq Rows
  /\ password \in [Users -> Callers \cup {None}]
  /\ link \in [Githubs -> Users \cup {None}]
  /\ scopes \in [Accounts -> SUBSET Scopes] /\ disabled \subseteq Accounts
  /\ secret \in [Accounts -> SUBSET Callers]
  /\ access \in [Callers -> SUBSET Users] /\ refresh \in [Callers -> SUBSET Users]
  /\ service \in [Callers -> SUBSET Accounts]
  /\ done \subseteq [by : Callers, what : Acts]

\* The methods of users keep the types of tables and tokens.
LEMMA UserMethodsType ==
  ASSUME TypeOK, NEW p \in Callers,
         \/ AuthService(p) \/ SessionService(p) \/ UserService(p) \/ KeyService(p)
         \/ SystemService(p)
         \/ \E q \in Callers, u \in Users : ShowAccessToken(p, q, u)
  PROVE  StateType'
<1>1. ASSUME NEW u \in Users, NEW e \in Emails, RegisterWithPassword(p, u, e)
      PROVE  StateType'
  BY <1>1 DEF TypeOK, StateType, RegisterWithPassword, GivePair, Quiet, Rows
<1>2. ASSUME NEW u \in Users, LoginWithPassword(p, u)
      PROVE  StateType'
  BY <1>2 DEF TypeOK, StateType, LoginWithPassword, GivePair, Quiet, Rows, tables
<1>3. ASSUME NEW u \in Users, NEW e \in Emails, LoginWithEmailCode(p, e, u)
      PROVE  StateType'
  BY <1>3, CredentialsAssumption
  DEF TypeOK, StateType, LoginWithEmailCode, GivePair, Quiet, Rows, Active
<1>4. ASSUME UNCHANGED <<tables, tokens>>, Quiet
      PROVE  StateType'
  BY <1>4 DEF TypeOK, StateType, Quiet, Rows, tables, tokens
<1>5. ASSUME NEW u \in Users, NEW g \in Githubs, NEW e \in GitEmails[g],
             LoginWithOAuth(p, g, e, u)
      PROVE  StateType'
  <2>1. e \in Emails \cup {None}
    BY CredentialsAssumption
  <2>2. email' \in [Users -> Emails \cup {None}]
    BY <1>5, <2>1 DEF TypeOK, LoginWithOAuth
  <2>3. deleted' \subseteq Rows'
    BY <1>5, <2>1 DEF TypeOK, LoginWithOAuth, Rows
  <2>4. QED
    BY <1>5, <2>2, <2>3 DEF TypeOK, StateType, LoginWithOAuth, GivePair, Quiet
<1>6. ASSUME NEW u \in Users, RefreshSession(p, u) \/ RevokeSession(p, u)
      PROVE  StateType'
  BY <1>6 DEF TypeOK, StateType, RefreshSession, RevokeSession, GivePair, Quiet, Rows, tables
<1>7. ASSUME NEW u \in Users, NEW g \in Githubs, LinkOAuthAccount(p, u, g)
      PROVE  StateType'
  BY <1>7 DEF TypeOK, StateType, LinkOAuthAccount, GivePair, Quiet, Rows
<1>8. ASSUME NEW q \in Callers, NEW u \in Users, ShowAccessToken(p, q, u)
      PROVE  StateType'
  BY <1>8 DEF TypeOK, StateType, ShowAccessToken, Quiet, Rows, tables
<1>9. QED
  BY <1>1, <1>2, <1>3, <1>4, <1>5, <1>6, <1>7, <1>8
  DEF AuthService, SessionService, UserService, KeyService, SystemService,
      RequestEmailLoginCode, ListOAuthProviders, StartOAuthLogin, GetCurrentUser,
      ListSigningKeys, GetServerInfo

\* Every method that calls Does names one of the acts.
LEMMA DoesType ==
  ASSUME NEW p \in Callers, NEW what \in Acts, Does(p, what)
  PROVE  done' \subseteq [by : Callers, what : Acts]
  BY DEF Does

\* So do the methods of service accounts.
LEMMA ManagerMethodsType ==
  ASSUME TypeOK, NEW p \in Callers,
         ServiceAccountService(p) \/ UserManagementService(p) \/ AuditService(p)
  PROVE  StateType'
<1>d. ASSUME \E what \in {"read users", "change users", "read accounts", "change accounts",
                           "read events"} : Does(p, what)
      PROVE  done' \subseteq [by : Callers, what : Acts]
  BY <1>d, DoesType DEF Acts
<1>1. ASSUME NEW a \in Accounts, ExchangeServiceToken(p, a)
      PROVE  StateType'
  BY <1>1 DEF TypeOK, StateType, ExchangeServiceToken, Quiet, Rows, tables
<1>2. ASSUME NEW a \in Accounts, NEW b \in Accounts, NEW sc \in ScopeSets,
             NEW q \in Callers, CreateServiceAccount(p, a, b, sc, q)
      PROVE  StateType'
  BY <1>2, <1>d, CredentialsAssumption
  DEF TypeOK, StateType, CreateServiceAccount, Rows, tokens
<1>3. ASSUME NEW a \in Accounts, NEW b \in Accounts, DisableServiceAccount(p, a, b)
      PROVE  StateType'
  BY <1>3, <1>d DEF TypeOK, StateType, DisableServiceAccount, Rows, tokens
<1>r. ASSUME NEW a \in Accounts, NEW b \in Accounts, NEW q \in Callers,
             RotateServiceAccountSecret(p, a, b, q)
      PROVE  StateType'
  BY <1>r, <1>d DEF TypeOK, StateType, RotateServiceAccountSecret, Rows, tokens
<1>4. ASSUME NEW a \in Accounts,
             ListServiceAccounts(p, a) \/ ListUsers(p, a) \/ ListAuditEvents(p, a)
      PROVE  StateType'
  BY <1>4, <1>d DEF TypeOK, StateType, ListServiceAccounts, ListUsers, ListAuditEvents,
              Rows, tables, tokens
<1>5. ASSUME NEW a \in Accounts, NEW u \in Users, NEW e \in Emails,
             CreatePasswordUser(p, a, u, e)
      PROVE  StateType'
  BY <1>5, <1>d DEF TypeOK, StateType, CreatePasswordUser, Rows, tokens
<1>6. ASSUME NEW a \in Accounts, NEW u \in Users, DeleteUser(p, a, u)
      PROVE  StateType'
  BY <1>6, <1>d DEF TypeOK, StateType, DeleteUser, Rows, Active, tokens
<1>7. ASSUME NEW a \in Accounts, NEW u \in Users, ResetUserPassword(p, a, u)
      PROVE  StateType'
  BY <1>7, <1>d DEF TypeOK, StateType, ResetUserPassword, Rows, tokens
<1>8. QED
  BY <1>1, <1>2, <1>3, <1>r, <1>4, <1>5, <1>6, <1>7
  DEF ServiceAccountService, UserManagementService, AuditService

-----------------------------------------------------------------------------
(* The histories.                                                          *)

\* The histories keep their types, only grow, and hold what a caller has after
\* the step.
LEMMA Remembered ==
  ASSUME TypeOK, StateType', Remember
  PROVE  /\ TypeOK'
         /\ \A p \in Callers : owned[p] \subseteq owned'[p] /\ given[p] \subseteq given'[p]
         /\ \A p \in Callers, u \in Users : WayIn(p, u)' => u \in owned'[p]
         /\ \A p \in Callers, a \in Accounts : p \in secret'[a] => scopes'[a] \subseteq given'[p]
<1> DEFINE Ways(p) == {u \in Users : WayIn(p, u)'}
           Given(p) == UNION {scopes'[a] : a \in {b \in Accounts : p \in secret'[b]}}
<1>1. /\ owned' = [p \in Callers |-> owned[p] \cup Ways(p)]
      /\ given' = [p \in Callers |-> given[p] \cup Given(p)]
  BY DEF Remember
<1>2. \A p \in Callers : Ways(p) \subseteq Users
  OBVIOUS
<1>3. \A p \in Callers : Given(p) \subseteq Scopes
  BY DEF StateType
<1>4. \A p \in Callers, a \in Accounts : p \in secret'[a] => scopes'[a] \subseteq Given(p)
  OBVIOUS
<1>5. \A p \in Callers, u \in Users : WayIn(p, u)' => u \in Ways(p)
  OBVIOUS
<1> HIDE DEF Ways, Given
<1>6. owned' \in [Callers -> SUBSET Users] /\ given' \in [Callers -> SUBSET Scopes]
  BY <1>1, <1>2, <1>3 DEF TypeOK
<1>7. TypeOK'
  BY <1>6 DEF TypeOK, StateType
<1>8. QED
  BY <1>1, <1>4, <1>5, <1>7

-----------------------------------------------------------------------------
(* Sessions.                                                               *)

\* Whoever a method gives a pair of tokens has a way in after it, or had a
\* refresh token before it.
LEMMA SessionsStep ==
  ASSUME TypeOK, StateType', SessionsAreOwned, Remember, NEW p \in Callers, Service(p)
  PROVE  SessionsAreOwned'
<1> USE DEF TypeOK
<1>1. ASSUME NEW u \in Users, refresh' = [refresh EXCEPT ![p] = @ \cup {u}],
             WayIn(p, u)' \/ u \in refresh[p]
      PROVE  SessionsAreOwned'
  BY <1>1, Remembered DEF SessionsAreOwned
<1>2. ASSUME \A q \in Callers : refresh'[q] \subseteq refresh[q]
      PROVE  SessionsAreOwned'
  BY <1>2, Remembered DEF SessionsAreOwned
<1>3. ASSUME NEW u \in Users, NEW e \in Emails, RegisterWithPassword(p, u, e)
      PROVE  SessionsAreOwned'
  BY <1>1, <1>3 DEF RegisterWithPassword, GivePair, WayIn
<1>4. ASSUME NEW u \in Users, LoginWithPassword(p, u)
      PROVE  SessionsAreOwned'
  BY <1>1, <1>4 DEF LoginWithPassword, GivePair, WayIn, tables
<1>5. ASSUME NEW u \in Users, NEW e \in Emails, LoginWithEmailCode(p, e, u)
      PROVE  SessionsAreOwned'
  <2>1. email'[u] = e /\ e # None
    BY <1>5, CredentialsAssumption DEF LoginWithEmailCode
  <2>2. QED
    BY <1>1, <1>5, <2>1 DEF LoginWithEmailCode, GivePair, WayIn
<1>6. ASSUME NEW u \in Users, NEW g \in Githubs, NEW e \in GitEmails[g],
             LoginWithOAuth(p, g, e, u)
      PROVE  SessionsAreOwned'
  BY <1>1, <1>6 DEF LoginWithOAuth, GivePair, WayIn
<1>7. ASSUME NEW u \in Users, NEW g \in Githubs, LinkOAuthAccount(p, u, g)
      PROVE  SessionsAreOwned'
  BY <1>1, <1>7 DEF LinkOAuthAccount, GivePair, WayIn
<1>8. ASSUME NEW u \in Users, RefreshSession(p, u)
      PROVE  SessionsAreOwned'
  BY <1>1, <1>8 DEF RefreshSession, GivePair
<1>9. ASSUME NEW u \in Users, RevokeSession(p, u)
      PROVE  SessionsAreOwned'
  BY <1>2, <1>9 DEF RevokeSession
<1>10. ASSUME refresh' = refresh
       PROVE  SessionsAreOwned'
  BY <1>2, <1>10
<1>11. CASE AuthService(p)
  BY <1>11, <1>3, <1>4, <1>5, <1>6, <1>10
  DEF AuthService, RequestEmailLoginCode, ListOAuthProviders, StartOAuthLogin, tokens
<1>12. CASE SessionService(p) \/ UserService(p) \/ KeyService(p) \/ SystemService(p)
  BY <1>12, <1>7, <1>8, <1>9, <1>10
  DEF SessionService, UserService, KeyService, SystemService, GetCurrentUser,
      ListSigningKeys, GetServerInfo, tokens
<1>13. CASE \E q \in Callers, u \in Users : ShowAccessToken(p, q, u)
  BY <1>13, <1>10 DEF ShowAccessToken
<1>14. CASE ServiceAccountService(p) \/ UserManagementService(p) \/ AuditService(p)
  BY <1>14, <1>10
  DEF ServiceAccountService, UserManagementService, AuditService, ExchangeServiceToken,
      CreateServiceAccount, ListServiceAccounts, DisableServiceAccount,
      RotateServiceAccountSecret, ListUsers, CreatePasswordUser, DeleteUser,
      ResetUserPassword, ListAuditEvents, tokens
<1>15. QED
  BY <1>11, <1>12, <1>13, <1>14 DEF Service

-----------------------------------------------------------------------------
(* Management.                                                             *)

\* Only ExchangeServiceToken gives service tokens, for a secret the caller has;
\* only CreateServiceAccount sets scopes, of an account that did not exist.
LEMMA ScopesStep ==
  ASSUME TypeOK, StateType', ScopesAreGiven, Remember, NEW p \in Callers, Service(p)
  PROVE  ScopesAreGiven'
<1> USE DEF TypeOK
<1>1. ASSUME service' = service, scopes' = scopes
      PROVE  ScopesAreGiven'
  BY <1>1, Remembered DEF ScopesAreGiven
<1>2. ASSUME NEW a \in Accounts, ExchangeServiceToken(p, a)
      PROVE  ScopesAreGiven'
  <2>1. scopes' = scopes /\ secret' = secret /\ scopes[a] # {} /\ scopes[a] \subseteq given[p]
    BY <1>2 DEF ExchangeServiceToken, Exists, ScopesAreGiven, tables
  <2>2. ASSUME NEW q \in Callers, NEW b \in service'[q]
        PROVE  scopes'[b] # {} /\ scopes'[b] \subseteq given'[q]
    <3>1. b \in service[q] \/ (q = p /\ b = a)
      BY <1>2, <2>2 DEF ExchangeServiceToken
    <3>2. b \in Accounts
      BY <3>1
    <3>3. given[q] \subseteq given'[q]
      BY Remembered
    <3>4. QED
      BY <2>1, <3>1, <3>2, <3>3 DEF ScopesAreGiven
  <2>3. QED
    BY <2>2, Remembered DEF ScopesAreGiven
<1>3. ASSUME NEW a \in Accounts, NEW b \in Accounts, NEW sc \in ScopeSets,
             NEW q \in Callers, CreateServiceAccount(p, a, b, sc, q)
      PROVE  ScopesAreGiven'
  <2>1. service' = service /\ scopes' = [scopes EXCEPT ![b] = sc] /\ scopes[b] = {}
    BY <1>3 DEF CreateServiceAccount, Exists, tokens
  <2>2. ASSUME NEW r \in Callers, NEW c \in service'[r]
        PROVE  scopes'[c] # {} /\ scopes'[c] \subseteq given'[r]
    <3>1. c \in Accounts /\ scopes[c] # {} /\ scopes[c] \subseteq given[r]
      BY <2>1, <2>2 DEF ScopesAreGiven
    <3>2. scopes'[c] = scopes[c]
      BY <2>1, <3>1
    <3>3. given[r] \subseteq given'[r]
      BY Remembered
    <3>4. QED
      BY <3>1, <3>2, <3>3
  <2>3. QED
    BY <2>2, Remembered DEF ScopesAreGiven
<1>4. CASE AuthService(p)
  BY <1>4, <1>1
  DEF AuthService, RegisterWithPassword, LoginWithPassword, LoginWithEmailCode,
      LoginWithOAuth, RequestEmailLoginCode, ListOAuthProviders, StartOAuthLogin,
      tables, tokens
<1>5. CASE SessionService(p) \/ UserService(p) \/ KeyService(p) \/ SystemService(p)
  BY <1>5, <1>1
  DEF SessionService, UserService, KeyService, SystemService, RefreshSession, RevokeSession,
      LinkOAuthAccount, GetCurrentUser, ListSigningKeys, GetServerInfo, tables, tokens
<1>6. CASE \E q \in Callers, u \in Users : ShowAccessToken(p, q, u)
  BY <1>6, <1>1 DEF ShowAccessToken, tables
<1>7. CASE ServiceAccountService(p)
  BY <1>7, <1>1, <1>2, <1>3
  DEF ServiceAccountService, ListServiceAccounts, DisableServiceAccount,
      RotateServiceAccountSecret, tables, tokens
<1>8. CASE UserManagementService(p) \/ AuditService(p)
  BY <1>8, <1>1
  DEF UserManagementService, AuditService, ListUsers, CreatePasswordUser, DeleteUser,
      ResetUserPassword, ListAuditEvents, tables, tokens
<1>9. QED
  BY <1>4, <1>5, <1>6, <1>7, <1>8 DEF Service

\* The scopes that HasServiceScope lets through are the ones each act needs.
LEMMA CoveredScopes ==
  ASSUME NEW s \in Scopes
  PROVE  /\ "users.manage" \in Covered(s) => s \in Needs("change users")
         /\ "users.read" \in Covered(s) => s \in Needs("read users")
         /\ "users.manage" \in Covered(s) => s \in Needs("read users")
         /\ "accounts.manage" \in Covered(s) => s \in Needs("change accounts")
         /\ "accounts.read" \in Covered(s) => s \in Needs("read accounts")
         /\ "accounts.manage" \in Covered(s) => s \in Needs("read accounts")
         /\ "audit.read" \in Covered(s) => s \in Needs("read events")
  BY DEF Covered, Needs, Scopes, Required

\* A step that does something as a manager was authorised for it.
LEMMA DoneStep ==
  ASSUME TypeOK, NEW p \in Callers, Service(p)
  PROVE  \/ done' = {}
         \/ \E what \in Acts, a \in service[p] :
              /\ done' = {[by |-> p, what |-> what]}
              /\ \E s \in scopes[a] : s \in Needs(what)
<1> USE DEF TypeOK
<1> DEFINE PowerUsed == \E w \in Acts, b \in service[p] :
                          /\ done' = {[by |-> p, what |-> w]}
                          /\ \E s \in scopes[b] : s \in Needs(w)
<1>1. ASSUME NEW w \in Acts, NEW b \in service[p], NEW s \in scopes[b], s \in Needs(w),
             Does(p, w)
      PROVE  PowerUsed
  BY <1>1 DEF Does
<1>2. CASE AuthService(p)
  BY <1>2
  DEF AuthService, RegisterWithPassword, LoginWithPassword, LoginWithEmailCode,
      LoginWithOAuth, RequestEmailLoginCode, ListOAuthProviders, StartOAuthLogin, Quiet
<1>3. CASE SessionService(p) \/ UserService(p) \/ KeyService(p) \/ SystemService(p)
  BY <1>3
  DEF SessionService, UserService, KeyService, SystemService, RefreshSession, RevokeSession,
      LinkOAuthAccount, GetCurrentUser, ListSigningKeys, GetServerInfo, Quiet
<1>4. CASE \E q \in Callers, u \in Users : ShowAccessToken(p, q, u)
  BY <1>4 DEF ShowAccessToken, Quiet
<1>5. ASSUME NEW a \in Accounts, ExchangeServiceToken(p, a)
      PROVE  done' = {}
  BY <1>5 DEF ExchangeServiceToken, Quiet
<1>6. ASSUME NEW a \in Accounts, AuthorizeServiceAccount(p, a, {"accounts.manage"}),
             Does(p, "change accounts")
      PROVE  PowerUsed
  <2>1. PICK r \in {"accounts.manage"}, s \in scopes[a] : s \in Scopes /\ r \in Covered(s)
    BY <1>6 DEF AuthorizeServiceAccount, HasServiceScope
  <2>2. a \in service[p] /\ s \in Needs("change accounts") /\ "change accounts" \in Acts
    BY <1>6, <2>1, CoveredScopes DEF Acts, AuthorizeServiceAccount
  <2>3. QED
    BY <1>6, <1>1, <2>1, <2>2
<1>7. ASSUME NEW a \in Accounts, Does(p, "read accounts"),
             AuthorizeServiceAccount(p, a, {"accounts.read", "accounts.manage"})
      PROVE  PowerUsed
  <2>1. PICK r \in {"accounts.read", "accounts.manage"}, s \in scopes[a] : s \in Scopes /\ r \in Covered(s)
    BY <1>7 DEF AuthorizeServiceAccount, HasServiceScope
  <2>2. a \in service[p] /\ s \in Needs("read accounts") /\ "read accounts" \in Acts
    BY <1>7, <2>1, CoveredScopes DEF Acts, AuthorizeServiceAccount
  <2>3. QED
    BY <1>7, <1>1, <2>1, <2>2
<1>8. ASSUME NEW a \in Accounts, AuthorizeServiceAccount(p, a, {"users.manage"}),
             Does(p, "change users")
      PROVE  PowerUsed
  <2>1. PICK r \in {"users.manage"}, s \in scopes[a] : s \in Scopes /\ r \in Covered(s)
    BY <1>8 DEF AuthorizeServiceAccount, HasServiceScope
  <2>2. a \in service[p] /\ s \in Needs("change users") /\ "change users" \in Acts
    BY <1>8, <2>1, CoveredScopes DEF Acts, AuthorizeServiceAccount
  <2>3. QED
    BY <1>8, <1>1, <2>1, <2>2
<1>9. ASSUME NEW a \in Accounts, Does(p, "read users"),
             AuthorizeServiceAccount(p, a, {"users.read", "users.manage"})
      PROVE  PowerUsed
  <2>1. PICK r \in {"users.read", "users.manage"}, s \in scopes[a] : s \in Scopes /\ r \in Covered(s)
    BY <1>9 DEF AuthorizeServiceAccount, HasServiceScope
  <2>2. a \in service[p] /\ s \in Needs("read users") /\ "read users" \in Acts
    BY <1>9, <2>1, CoveredScopes DEF Acts, AuthorizeServiceAccount
  <2>3. QED
    BY <1>9, <1>1, <2>1, <2>2
<1>10. ASSUME NEW a \in Accounts, AuthorizeServiceAccount(p, a, {"audit.read"}),
              Does(p, "read events")
       PROVE  PowerUsed
  <2>1. PICK r \in {"audit.read"}, s \in scopes[a] : s \in Scopes /\ r \in Covered(s)
    BY <1>10 DEF AuthorizeServiceAccount, HasServiceScope
  <2>2. a \in service[p] /\ s \in Needs("read events") /\ "read events" \in Acts
    BY <1>10, <2>1, CoveredScopes DEF Acts, AuthorizeServiceAccount
  <2>3. QED
    BY <1>10, <1>1, <2>1, <2>2
<1>11. CASE ServiceAccountService(p)
  BY <1>11, <1>5, <1>6, <1>7
  DEF ServiceAccountService, CreateServiceAccount, ListServiceAccounts,
      DisableServiceAccount, RotateServiceAccountSecret
<1>12. CASE UserManagementService(p) \/ AuditService(p)
  BY <1>12, <1>8, <1>9, <1>10
  DEF UserManagementService, AuditService, ListUsers, CreatePasswordUser, DeleteUser,
      ResetUserPassword, ListAuditEvents
<1>13. QED
  BY <1>2, <1>3, <1>4, <1>11, <1>12 DEF Service

\* Every step of Credentials keeps PowersAreGiven, given what it rests on.
LEMMA PowersStep ==
  ASSUME TypeOK, TypeOK', ScopesAreGiven, ScopesAreGiven', NEW p \in Callers, Service(p),
         \A q \in Callers : given[q] \subseteq given'[q]
  PROVE  PowersAreGiven'
<1>1. ASSUME NEW q \in Callers, service'[q] # {}
      PROVE  given'[q] # {}
  <2>1. PICK a \in service'[q] : TRUE
    BY <1>1
  <2>2. QED
    BY <2>1 DEF ScopesAreGiven, TypeOK
<1>2. ASSUME NEW q \in Callers, NEW d \in done', d.by = q
      PROVE  given'[q] \cap Needs(d.what) # {}
  <2>1. PICK what \in Acts, a \in service[p] :
             done' = {[by |-> p, what |-> what]} /\ \E s \in scopes[a] : s \in Needs(what)
    BY <1>2, DoneStep
  <2>2. d = [by |-> p, what |-> what]
    BY <1>2, <2>1
  <2>3. scopes[a] \subseteq given'[p]
    BY <2>1 DEF ScopesAreGiven, TypeOK
  <2>4. QED
    BY <1>2, <2>1, <2>2, <2>3
<1>3. QED
  BY <1>1, <1>2 DEF PowersAreGiven

-----------------------------------------------------------------------------
(* The theorems.                                                           *)

\* What Credentials starts with: the founder has the secret of the root account.
LEMMA CredInit == Init => CredInv
<1> SUFFICES ASSUME Init PROVE CredInv
  OBVIOUS
<1>1. SessionsAreOwned /\ ScopesAreGiven /\ PowersAreGiven
  BY CredentialsAssumption DEF Init, SessionsAreOwned, ScopesAreGiven, PowersAreGiven
<1>2. QED
  BY <1>1, TypeInit DEF CredInv

\* Every method of the eight services keeps the invariant.
LEMMA CredNext == CredInv /\ [Next]_vars => CredInv'
<1> SUFFICES ASSUME CredInv, [Next]_vars PROVE CredInv'
  OBVIOUS
<1>1. CASE UNCHANGED vars
  BY <1>1 DEF CredInv, TypeOK, SessionsAreOwned, ScopesAreGiven, PowersAreGiven, Rows,
              vars, tables, tokens
<1>2. CASE Next
  <2>1. PICK p \in Callers : Service(p)
    BY <1>2 DEF Next, Service
  <2>2. TypeOK /\ SessionsAreOwned /\ ScopesAreGiven /\ Remember
    BY <1>2 DEF CredInv, Next
  <2>3. StateType'
    BY <2>1, <2>2, UserMethodsType, ManagerMethodsType DEF Service
  <2>4. TypeOK' /\ \A q \in Callers : given[q] \subseteq given'[q]
    BY <2>2, <2>3, Remembered
  <2>5. SessionsAreOwned'
    BY <2>1, <2>2, <2>3, SessionsStep
  <2>6. ScopesAreGiven'
    BY <2>1, <2>2, <2>3, ScopesStep
  <2>7. PowersAreGiven'
    BY <2>1, <2>2, <2>4, <2>6, PowersStep
  <2>8. QED
    BY <2>4, <2>5, <2>6, <2>7 DEF CredInv
<1>3. QED
  BY <1>1, <1>2

\* The inductive invariant holds in every behaviour.
THEOREM CredInvariant == Spec => []CredInv
  BY CredInit, CredNext, PTL DEF Spec

\* Every variable of Credentials always has its type: in particular only rows
\* that exist are ever marked deleted.
THEOREM CredTypes == Spec => []TypeOK
<1>1. CredInv => TypeOK
  BY DEF CredInv
<1>2. QED
  BY <1>1, CredInvariant, PTL

\* Whoever has a refresh token of a user has had a way into the user's account,
\* whatever sequence of calls of whichever callers came before: no method takes
\* a token of one type for another.
THEOREM SessionsOwned == Spec => []SessionsAreOwned
<1>1. CredInv => SessionsAreOwned
  BY DEF CredInv
<1>2. QED
  BY <1>1, CredInvariant, PTL

\* Every management call is covered by a scope its caller was given with the
\* secret of a service account (authorizeServiceAccount, hasServiceScope).
THEOREM PowersGiven == Spec => []PowersAreGiven
<1>1. CredInv => PowersAreGiven
  BY DEF CredInv
<1>2. QED
  BY <1>1, CredInvariant, PTL

-----------------------------------------------------------------------------
(* The rate limiters.                                                      *)

USE LimitAssumption

\* How many requests may yet make their attempt at k: a number, at most all.
LEMMA FlightSize ==
  ASSUME NEW k
  PROVE  /\ IsFiniteSet(InFlight(k)) /\ IsFiniteSet(InFlight(k)')
         /\ Cardinality(Requests) \in Nat
         /\ Cardinality(InFlight(k)) \in 0 .. Cardinality(Requests)
         /\ Cardinality(InFlight(k)') \in 0 .. Cardinality(Requests)
<1>1. IsFiniteSet(Requests)
  BY DEF WellFormed
<1>2. InFlight(k) \subseteq Requests /\ InFlight(k)' \subseteq Requests
  BY DEF InFlight
<1>3. IsFiniteSet(InFlight(k)) /\ IsFiniteSet(InFlight(k)')
  BY <1>1, <1>2, FS_Subset
<1>4. /\ Cardinality(InFlight(k)) <= Cardinality(Requests)
      /\ Cardinality(InFlight(k)') <= Cardinality(Requests)
  BY <1>1, <1>2, FS_Subset
<1>. QED
  BY <1>1, <1>3, <1>4, FS_CardinalityType

\* Nobody joins those under way at k: there are no more of them.
LEMMA NobodyJoins ==
  ASSUME NEW k, InFlight(k)' \subseteq InFlight(k)
  PROVE  Cardinality(InFlight(k)') <= Cardinality(InFlight(k))
BY FlightSize, FS_Subset

\* One leaves them: there is one less.
LEMMA OneLeaves ==
  ASSUME NEW k, NEW r \in InFlight(k),
         InFlight(k)' \subseteq InFlight(k) \ {r}
  PROVE  Cardinality(InFlight(k)') + 1 <= Cardinality(InFlight(k))
<1>1. /\ Cardinality(InFlight(k) \ {r}) = Cardinality(InFlight(k)) - 1
      /\ IsFiniteSet(InFlight(k) \ {r})
  BY FlightSize, FS_RemoveElement
<1>2. Cardinality(InFlight(k)') <= Cardinality(InFlight(k) \ {r})
  BY <1>1, FS_Subset
<1>. QED
  BY <1>1, <1>2, FlightSize

\* One joins them: there is at most one more.
LEMMA OneJoins ==
  ASSUME NEW k, NEW r,
         InFlight(k)' \subseteq InFlight(k) \cup {r}
  PROVE  Cardinality(InFlight(k)') <= Cardinality(InFlight(k)) + 1
<1>. DEFINE n == Cardinality(InFlight(k))
<1>a. IsFiniteSet(InFlight(k)) /\ n \in Nat
  BY FlightSize
<1>b. /\ IsFiniteSet(InFlight(k) \cup {r})
      /\ \/ Cardinality(InFlight(k) \cup {r}) = n
         \/ Cardinality(InFlight(k) \cup {r}) = n + 1
  BY <1>a, FS_AddElement
<1>1. /\ Cardinality(InFlight(k) \cup {r}) <= n + 1
      /\ IsFiniteSet(InFlight(k) \cup {r})
  BY <1>a, <1>b
<1>2. Cardinality(InFlight(k)') <= Cardinality(InFlight(k) \cup {r})
  BY <1>1, FS_Subset
<1>. QED
  BY <1>1, <1>2, FlightSize, FS_CardinalityType

-----------------------------------------------------------------------------

\* What the counters and the requests are worth for key k.
LEMMA BoundFacts ==
  ASSUME LimitInv, NEW k \in Keys
  PROVE  /\ count[k] \in Nat /\ used[k] \in Nat /\ errors \in Nat
         /\ used[k] <= count[k] + errors
         /\ AttemptsWithin(k)
BY DEF LimitInv, LimitTypeOK, LostCounts, AttemptsAhead

\* A request that begins is not under way at any key: it has yet to be checked.
LEMMA BeginInv ==
  ASSUME LimitInv, NEW r \in Requests, NEW s \in Subjects,
         NEW c \in Clients \cup {NoClient}, Begin(r, s, c)
  PROVE  LimitInv'
<1>1. LimitTypeOK'
  BY DEF LimitInv, LimitTypeOK, Begin, limits, Stages,
         Keys
<1>2. RequestKeys'
  BY DEF LimitInv, LimitTypeOK, RequestKeys, Begin
<1>3. LostCounts'
  BY DEF LimitInv, LostCounts, Begin, limits
<1>4. AttemptsAhead'
  <2>. SUFFICES ASSUME NEW k \in Keys PROVE AttemptsWithin(k)'
    BY DEF AttemptsAhead
  <2>1. InFlight(k)' \subseteq InFlight(k)
    BY DEF LimitInv, LimitTypeOK, InFlight, Begin
  <2>2. used'[k] = used[k] /\ errors' = errors
    BY DEF Begin, limits
  <2>. QED
    BY <2>1, <2>2, NobodyJoins, BoundFacts, FlightSize
       DEF AttemptsWithin, WellFormed
<1>. QED
  BY <1>1, <1>2, <1>3, <1>4 DEF LimitInv

\* r answers: it has left every key.
LEMMA DoneLeaves ==
  ASSUME LimitInv, NEW r \in Requests, Done(r), NEW k \in Keys
  PROVE  InFlight(k)' \subseteq InFlight(k) \ {r}
<1>1. InFlight(k)' = {q \in Requests :
     \/ skey'[q] = k /\ pc'[q] \in {"checkClient", "act", "recordSubject"}
     \/ ckey'[q] = k /\ pc'[q] \in {"act", "recordSubject", "recordClient"}}
  BY DEF InFlight
<1>. QED
  BY <1>1 DEF LimitInv, LimitTypeOK, Done, InFlight

\* The request table after r has answered.
LEMMA DoneTypes ==
  ASSUME LimitInv, NEW r \in Requests, Done(r)
  PROVE  /\ flow' \in Flows /\ pc' \in [Requests -> Stages]
         /\ skey' \in [Requests -> Keys \cup {NoClient}]
         /\ ckey' \in [Requests -> Keys \cup {NoClient}]
         /\ RequestKeys'
<1>1. /\ flow' \in Flows /\ pc' \in [Requests -> Stages]
      /\ skey' \in [Requests -> Keys \cup {NoClient}]
      /\ ckey' \in [Requests -> Keys \cup {NoClient}]
  BY DEF LimitInv, LimitTypeOK, Done, Stages
<1>2. RequestKeys'
  BY DEF LimitInv, LimitTypeOK, Done, RequestKeys
<1>. QED
  BY <1>1, <1>2

\* r goes to another stage s; where it needs a client's key it has one.
LEMMA GotoTypes ==
  ASSUME LimitInv, NEW r \in Requests, NEW s \in Stages,
         Goto(r, s), pc[r] # "idle",
         s \in {"checkClient", "recordClient"} => ckey[r] # NoClient
  PROVE  /\ flow' \in Flows /\ pc' \in [Requests -> Stages]
         /\ skey' \in [Requests -> Keys \cup {NoClient}]
         /\ ckey' \in [Requests -> Keys \cup {NoClient}]
         /\ RequestKeys'
<1>1. /\ flow' \in Flows /\ pc' \in [Requests -> Stages]
      /\ skey' \in [Requests -> Keys \cup {NoClient}]
      /\ ckey' \in [Requests -> Keys \cup {NoClient}]
  BY DEF LimitInv, LimitTypeOK, Goto
<1>2. RequestKeys'
  BY DEF LimitInv, LimitTypeOK, Goto, RequestKeys
<1>. QED
  BY <1>1, <1>2

\* Only r may join or leave those under way, and only at its own keys.
LEMMA GotoMoves ==
  ASSUME LimitInv, NEW r \in Requests, NEW s \in Stages,
         Goto(r, s), NEW k \in Keys
  PROVE  /\ InFlight(k)' \subseteq InFlight(k) \cup {r}
         /\ k \notin {skey[r], ckey[r]} => InFlight(k)' \subseteq InFlight(k)
         /\ r \in InFlight(k)' <=>
              \/ skey[r] = k /\ s \in {"checkClient", "act", "recordSubject"}
              \/ ckey[r] = k /\ s \in {"act", "recordSubject", "recordClient"}
<1>1. InFlight(k)' = {q \in Requests :
     \/ skey[q] = k /\ pc'[q] \in {"checkClient", "act", "recordSubject"}
     \/ ckey[q] = k /\ pc'[q] \in {"act", "recordSubject", "recordClient"}}
  BY DEF InFlight, Goto
<1>2. pc'[r] = s /\ \A q \in Requests \ {r} : pc'[q] = pc[q]
  BY DEF LimitInv, LimitTypeOK, Goto
<1>. QED
  BY <1>1, <1>2 DEF InFlight

-----------------------------------------------------------------------------

\* A check that finds the count of k below the limit leaves room for every
\* request, whoever else is under way.
LEMMA RoomBelowLimit ==
  ASSUME LimitInv, NEW k \in Keys,
         IsAllowed(k), UNCHANGED <<limits, errors>>
  PROVE  AttemptsWithin(k)'
<1>1. used' = used /\ errors' = errors
  BY DEF limits
<1>2. count[k] <= MaxAttempts - 1
  BY BoundFacts DEF IsAllowed, WellFormed
<1>. QED
  BY <1>1, <1>2, BoundFacts, FlightSize
     DEF AttemptsWithin, WellFormed

\* Nothing is counted at k and nobody joins: the bound stays.
LEMMA SameAtKey ==
  ASSUME LimitInv,
         NEW k \in Keys, used'[k] \in {0, used[k]},
         errors' \in {errors, errors + 1}, InFlight(k)' \subseteq InFlight(k)
  PROVE  AttemptsWithin(k)'
BY BoundFacts, FlightSize, NobodyJoins
   DEF AttemptsWithin, WellFormed

\* What a Redis call may do to the tables.
LEMMA LimitsKept ==
  ASSUME LimitInv, UNCHANGED <<limits, errors>>
  PROVE  /\ count' \in [Keys -> Nat] /\ ttl' \in [Keys -> 0 .. Window]
         /\ used' \in [Keys -> Nat] /\ errors' \in Nat
         /\ LostCounts'
BY DEF LimitInv, LimitTypeOK, LostCounts, limits

\* The check of the first key: r joins at that key only, unless it has no other.
LEMMA CheckSubjectInv ==
  ASSUME LimitInv, NEW r \in Requests, CheckSubject(r)
  PROVE  LimitInv'
<1>. DEFINE s == IF ckey[r] # NoClient THEN "checkClient"
                 ELSE IF flow = "send" THEN "recordSubject" ELSE "act"
<1>1. \/ Done(r)
      \/ IsAllowed(skey[r]) /\ Goto(r, s)
  BY DEF CheckSubject, Proceed
<1>2. /\ s \in Stages /\ pc[r] # "idle"
      /\ s \in {"checkClient", "recordClient"} => ckey[r] # NoClient
  BY DEF Stages, CheckSubject
<1>3. RequestKeys' /\ LimitTypeOK'
  <2>1. CASE Done(r)
    BY <2>1, DoneTypes, LimitsKept DEF CheckSubject, LimitTypeOK
  <2>2. CASE Goto(r, s)
    <3>. HIDE DEF s
    <3>. QED
      BY <1>2, <2>2, GotoTypes, LimitsKept DEF CheckSubject, LimitTypeOK
  <2>. QED
    BY <1>1, <2>1, <2>2
<1>4. LostCounts'
  BY LimitsKept DEF CheckSubject
<1>5. AttemptsAhead'
  <2>. SUFFICES ASSUME NEW k \in Keys PROVE AttemptsWithin(k)'
    BY DEF AttemptsAhead
  <2>1. used'[k] = used[k] /\ errors' = errors
    BY DEF CheckSubject, limits
  <2>2. CASE InFlight(k)' \subseteq InFlight(k)
    BY <2>1, <2>2, SameAtKey
  <2>3. CASE k = skey[r] /\ IsAllowed(k)
    BY <2>3, RoomBelowLimit DEF CheckSubject
  <2>4. CASE Done(r)
    BY <2>2, <2>4, DoneLeaves
  <2>5. CASE IsAllowed(skey[r]) /\ Goto(r, s) /\ k # skey[r]
    <3>1. r \notin InFlight(k)'
      <4>1. ckey[r] = k => s = "checkClient"
        BY DEF WellFormed
      <4>2. s \in {"act", "recordSubject", "recordClient"} => ckey[r] # k
        BY <4>1
      <4>. HIDE DEF s
      <4>. QED
        BY <1>2, <2>5, <4>2, GotoMoves
    <3>2. InFlight(k)' \subseteq InFlight(k) \cup {r}
      <4>. HIDE DEF s
      <4>. QED
        BY <1>2, <2>5, GotoMoves
    <3>. QED
      BY <2>2, <3>1, <3>2
  <2>. QED
    BY <1>1, <2>3, <2>4, <2>5
<1>. QED
  BY <1>3, <1>4, <1>5 DEF LimitInv

\* The check of the client's key: r joins there, and is under way at the other.
LEMMA CheckClientInv ==
  ASSUME LimitInv, NEW r \in Requests, CheckClient(r)
  PROVE  LimitInv'
<1>. DEFINE s == IF flow = "send" THEN "recordSubject" ELSE "act"
<1>1. \/ Done(r)
      \/ IsAllowed(ckey[r]) /\ Goto(r, s)
  BY DEF CheckClient, Proceed
<1>2. /\ s \in Stages /\ s \notin {"checkClient", "recordClient"}
      /\ pc[r] = "checkClient"
  BY DEF Stages, CheckClient
<1>3. RequestKeys' /\ LimitTypeOK'
  <2>1. CASE Done(r)
    BY <2>1, DoneTypes, LimitsKept DEF CheckClient, LimitTypeOK
  <2>2. CASE Goto(r, s)
    <3>. HIDE DEF s
    <3>. QED
      BY <1>2, <2>2, GotoTypes, LimitsKept DEF CheckClient, LimitTypeOK
  <2>. QED
    BY <1>1, <2>1, <2>2
<1>4. LostCounts'
  BY LimitsKept DEF CheckClient
<1>5. AttemptsAhead'
  <2>. SUFFICES ASSUME NEW k \in Keys PROVE AttemptsWithin(k)'
    BY DEF AttemptsAhead
  <2>1. used'[k] = used[k] /\ errors' = errors
    BY DEF CheckClient, limits
  <2>2. CASE InFlight(k)' \subseteq InFlight(k)
    BY <2>1, <2>2, SameAtKey
  <2>3. CASE k = ckey[r] /\ IsAllowed(k)
    BY <2>3, RoomBelowLimit DEF CheckClient
  <2>4. CASE Done(r)
    BY <2>2, <2>4, DoneLeaves
  <2>5. CASE Goto(r, s) /\ k # ckey[r]
    <3>1. /\ InFlight(k)' \subseteq InFlight(k) \cup {r}
          /\ k # skey[r] => InFlight(k)' \subseteq InFlight(k)
      <4>. HIDE DEF s
      <4>. QED
        BY <1>2, <2>5, GotoMoves
    <3>2. k = skey[r] => r \in InFlight(k)
      BY <1>2 DEF InFlight
    <3>. QED
      BY <2>2, <3>1, <3>2
  <2>. QED
    BY <1>1, <2>3, <2>4, <2>5
<1>. QED
  BY <1>3, <1>4, <1>5 DEF LimitInv

\* A credential that is right or cannot be judged makes no attempt.
LEMMA TryCredentialInv ==
  ASSUME LimitInv, NEW r \in Requests, TryCredential(r)
  PROVE  LimitInv'
<1>1. pc[r] = "act" /\ {"reset", "recordSubject"} \subseteq Stages
  BY DEF Stages, TryCredential
<1>2. CASE Done(r)
  <2>1. RequestKeys' /\ LimitTypeOK' /\ LostCounts'
    BY <1>2, DoneTypes, LimitsKept DEF TryCredential, LimitTypeOK
  <2>2. \A k \in Keys : InFlight(k)' \subseteq InFlight(k)
    BY <1>2, DoneLeaves
  <2>3. AttemptsAhead'
    BY <2>2, SameAtKey DEF AttemptsAhead, TryCredential, limits
  <2>. QED
    BY <2>1, <2>3 DEF LimitInv
<1>3. ASSUME NEW s \in {"reset", "recordSubject"}, Goto(r, s)
      PROVE  LimitInv'
  <2>1. RequestKeys' /\ LimitTypeOK' /\ LostCounts'
    BY <1>1, <1>3, GotoTypes, LimitsKept DEF TryCredential, LimitTypeOK
  <2>2. \A k \in Keys : InFlight(k)' \subseteq InFlight(k)
    <3>1. \A k \in Keys : k \in {skey[r], ckey[r]} => r \in InFlight(k)
      BY <1>1 DEF InFlight
    <3>. QED
      BY <1>1, <1>3, <3>1, GotoMoves
  <2>3. AttemptsAhead'
    BY <2>2, SameAtKey DEF AttemptsAhead, TryCredential, limits
  <2>. QED
    BY <2>1, <2>3 DEF LimitInv
<1>. QED
  BY <1>2, <1>3 DEF TryCredential


-----------------------------------------------------------------------------

\* An error pays for one attempt more at k.
LEMMA ErrorPays ==
  ASSUME LimitInv, NEW k \in Keys, errors' = errors + 1,
         \/ used'[k] = used[k] + 1 /\ InFlight(k)' \subseteq InFlight(k)
         \/ /\ used'[k] = used[k]
            /\ Cardinality(InFlight(k)') <= Cardinality(InFlight(k)) + 1
  PROVE  AttemptsWithin(k)'
BY BoundFacts, FlightSize, NobodyJoins
   DEF AttemptsWithin, WellFormed

\* An attempt adds one to the history of its keys.
LEMMA AttemptTypes ==
  ASSUME LimitInv, NEW K, Attempt(K)
  PROVE  /\ used' \in [Keys -> Nat]
         /\ \A j \in Keys : used'[j] = IF j \in K THEN used[j] + 1 ELSE used[j]
BY DEF LimitInv, LimitTypeOK, Attempt

\* Fail open: r joins unchecked at both keys, and the error pays for each.
LEMMA CheckErrorInv ==
  ASSUME LimitInv, NEW r \in Requests, CheckError(r)
  PROVE  LimitInv'
<1>1. errors \in Nat /\ errors' = errors + 1 /\ pc[r] # "idle"
  BY DEF CheckError, RedisError, LimitInv, LimitTypeOK
<1>2. flow \in Flows
  BY DEF LimitInv, LimitTypeOK
<1>3. /\ count' = count /\ ttl' = ttl /\ used' \in [Keys -> Nat]
      /\ \A k \in Keys : used'[k] \in {used[k], used[k] + 1}
  <2>1. \/ UNCHANGED limits
        \/ Attempt({skey[r], ckey[r]}) /\ UNCHANGED <<count, ttl>>
    BY <1>2 DEF CheckError, Flows
  <2>2. CASE UNCHANGED limits
    BY <2>2 DEF LimitInv, LimitTypeOK, limits
  <2>3. CASE Attempt({skey[r], ckey[r]}) /\ UNCHANGED <<count, ttl>>
    BY <2>3, AttemptTypes
  <2>. QED
    BY <2>1, <2>2, <2>3
<1>4. LostCounts'
  BY <1>1, <1>3, BoundFacts DEF LostCounts
<1>5. CASE Done(r)
  <2>1. RequestKeys' /\ LimitTypeOK'
    BY <1>1, <1>3, <1>5, DoneTypes DEF LimitInv, LimitTypeOK
  <2>2. \A k \in Keys : InFlight(k)' \subseteq InFlight(k)
    BY <1>5, DoneLeaves
  <2>3. AttemptsAhead'
    <3>. SUFFICES ASSUME NEW k \in Keys PROVE AttemptsWithin(k)'
      BY DEF AttemptsAhead
    <3>1. CASE used'[k] = used[k]
      BY <1>1, <2>2, <3>1, SameAtKey
    <3>2. CASE used'[k] = used[k] + 1
      BY <1>1, <2>2, <3>2, ErrorPays
    <3>. QED
      BY <1>3, <3>1, <3>2
  <2>. QED
    BY <1>4, <2>1, <2>3 DEF LimitInv
<1>6. CASE Goto(r, "act") /\ UNCHANGED limits
  <2>1. "act" \in Stages
    BY DEF Stages
  <2>2. RequestKeys' /\ LimitTypeOK'
    BY <1>1, <1>3, <1>6, <2>1, GotoTypes DEF LimitInv, LimitTypeOK
  <2>3. \A k \in Keys :
          Cardinality(InFlight(k)') <= Cardinality(InFlight(k)) + 1
    BY <1>6, <2>1, GotoMoves, OneJoins
  <2>4. AttemptsAhead'
    BY <1>1, <1>6, <2>3, ErrorPays DEF AttemptsAhead, limits
  <2>. QED
    BY <1>4, <2>2, <2>4 DEF LimitInv
<1>. QED
  BY <1>2, <1>5, <1>6 DEF CheckError, Flows

\* INCR at k, with or without the attempt it is due to.
LEMMA RecordTypes ==
  ASSUME LimitInv, NEW k \in Keys, Record(k)
  PROVE  /\ count' \in [Keys -> Nat] /\ ttl' \in [Keys -> 0 .. Window]
         /\ \A j \in Keys : count'[j] = IF j = k THEN count[j] + 1 ELSE count[j]
BY DEF LimitInv, LimitTypeOK, Record, WellFormed

\* The attempt of r is made and counted: r is no longer under way at that key.
LEMMA RecordSubjectInv ==
  ASSUME LimitInv, NEW r \in Requests, RecordSubject(r)
  PROVE  LimitInv'
<1>1. /\ pc[r] = "recordSubject" /\ skey[r] \in Keys /\ skey[r] # ckey[r]
      /\ errors' = errors /\ errors \in Nat
  BY DEF RecordSubject, LimitInv, LimitTypeOK, RequestKeys,
         WellFormed, Keys
<1>2. /\ count' \in [Keys -> Nat] /\ ttl' \in [Keys -> 0 .. Window]
      /\ \A j \in Keys : count'[j] = IF j = skey[r] THEN count[j] + 1 ELSE count[j]
  BY <1>1, RecordTypes DEF RecordSubject
<1>3. /\ used' \in [Keys -> Nat]
      /\ \A j \in Keys : used'[j] = IF j = skey[r] THEN used[j] + 1 ELSE used[j]
  BY AttemptTypes DEF RecordSubject
<1>4. Done(r) \/ (ckey[r] # NoClient /\ Goto(r, "recordClient"))
  BY DEF RecordSubject
<1>5. "recordClient" \in Stages
  BY DEF Stages
<1>6. RequestKeys' /\ LimitTypeOK'
  <2>1. CASE Done(r)
    BY <1>1, <1>2, <1>3, <2>1, DoneTypes DEF LimitTypeOK
  <2>2. CASE ckey[r] # NoClient /\ Goto(r, "recordClient")
    BY <1>1, <1>2, <1>3, <1>5, <2>2, GotoTypes DEF LimitTypeOK
  <2>. QED
    BY <1>4, <2>1, <2>2
<1>7. LostCounts'
  BY <1>1, <1>2, <1>3, BoundFacts DEF LostCounts
<1>8. AttemptsAhead'
  <2>. SUFFICES ASSUME NEW k \in Keys PROVE AttemptsWithin(k)'
    BY DEF AttemptsAhead
  <2>1. k \in {skey[r], ckey[r]} => r \in InFlight(k)
    BY <1>1 DEF InFlight
  <2>2. InFlight(k)' \subseteq InFlight(k)
    BY <1>4, <1>5, <2>1, DoneLeaves, GotoMoves
  <2>3. CASE k = skey[r]
    <3>1. InFlight(k)' \subseteq InFlight(k) \ {r}
      BY <1>1, <1>4, <1>5, <2>2, <2>3, DoneLeaves, GotoMoves
    <3>2. Cardinality(InFlight(k)') + 1 <= Cardinality(InFlight(k))
      BY <2>1, <2>3, <3>1, OneLeaves
    <3>. QED
      BY <1>1, <1>3, <2>3, <3>2, BoundFacts, FlightSize
         DEF AttemptsWithin, WellFormed
  <2>4. CASE k # skey[r]
    BY <1>1, <1>3, <2>2, <2>4, SameAtKey
  <2>. QED
    BY <2>3, <2>4
<1>. QED
  BY <1>6, <1>7, <1>8 DEF LimitInv

\* The same for the client's key.
LEMMA RecordClientInv ==
  ASSUME LimitInv, NEW r \in Requests, RecordClient(r)
  PROVE  LimitInv'
<1>1. /\ pc[r] = "recordClient" /\ ckey[r] \in Keys
      /\ errors' = errors /\ errors \in Nat
  BY DEF RecordClient, LimitInv, LimitTypeOK, RequestKeys,
         Keys
<1>2. /\ count' \in [Keys -> Nat] /\ ttl' \in [Keys -> 0 .. Window]
      /\ \A j \in Keys : count'[j] = IF j = ckey[r] THEN count[j] + 1 ELSE count[j]
  BY <1>1, RecordTypes DEF RecordClient
<1>3. /\ used' \in [Keys -> Nat]
      /\ \A j \in Keys : used'[j] = IF j = ckey[r] THEN used[j] + 1 ELSE used[j]
  BY AttemptTypes DEF RecordClient
<1>4. Done(r)
  BY DEF RecordClient
<1>5. RequestKeys' /\ LimitTypeOK'
  BY <1>1, <1>2, <1>3, <1>4, DoneTypes DEF LimitTypeOK
<1>6. LostCounts'
  BY <1>1, <1>2, <1>3, BoundFacts DEF LostCounts
<1>7. AttemptsAhead'
  <2>. SUFFICES ASSUME NEW k \in Keys PROVE AttemptsWithin(k)'
    BY DEF AttemptsAhead
  <2>1. InFlight(k)' \subseteq InFlight(k) \ {r}
    BY <1>4, DoneLeaves
  <2>2. CASE k = ckey[r]
    <3>1. r \in InFlight(k)
      BY <1>1, <2>2 DEF InFlight
    <3>2. Cardinality(InFlight(k)') + 1 <= Cardinality(InFlight(k))
      BY <2>1, <3>1, OneLeaves
    <3>. QED
      BY <1>1, <1>3, <2>2, <3>2, BoundFacts, FlightSize
         DEF AttemptsWithin, WellFormed
  <2>3. CASE k # ckey[r]
    BY <1>1, <1>3, <2>1, <2>3, SameAtKey
  <2>. QED
    BY <2>2, <2>3
<1>. QED
  BY <1>5, <1>6, <1>7 DEF LimitInv

\* Whether the failed INCR was applied or not, its error pays for the attempt.
LEMMA RecordErrorInv ==
  ASSUME LimitInv, NEW r \in Requests, RecordError(r)
  PROVE  LimitInv'
<1>1. errors \in Nat /\ errors' = errors + 1 /\ Done(r)
  BY DEF RecordError, RedisError, LimitInv, LimitTypeOK
<1>2. PICK due \in {<<skey[r], ckey[r]>>, <<ckey[r]>>} :
        /\ due = IF pc[r] = "recordSubject" THEN <<skey[r], ckey[r]>> ELSE <<ckey[r]>>
        /\ Record(due[1]) \/ UNCHANGED <<count, ttl>>
        /\ Attempt({due[i] : i \in DOMAIN due})
  BY DEF RecordError
<1>3. due[1] \in Keys
  BY <1>2
     DEF RecordError, LimitInv, LimitTypeOK, RequestKeys,
         Keys
<1>4. /\ count' \in [Keys -> Nat] /\ ttl' \in [Keys -> 0 .. Window]
      /\ \A j \in Keys : count'[j] \in {count[j], count[j] + 1}
  <2>1. CASE Record(due[1])
    BY <1>3, <2>1, RecordTypes
  <2>2. CASE UNCHANGED <<count, ttl>>
    BY <2>2 DEF LimitInv, LimitTypeOK
  <2>. QED
    BY <1>2, <2>1, <2>2
<1>5. /\ used' \in [Keys -> Nat]
      /\ \A j \in Keys : used'[j] \in {used[j], used[j] + 1}
  BY <1>2, AttemptTypes
<1>6. RequestKeys' /\ LimitTypeOK'
  BY <1>1, <1>4, <1>5, DoneTypes DEF LimitTypeOK
<1>7. LostCounts'
  BY <1>1, <1>4, <1>5, BoundFacts DEF LostCounts
<1>8. AttemptsAhead'
  <2>. SUFFICES ASSUME NEW k \in Keys PROVE AttemptsWithin(k)'
    BY DEF AttemptsAhead
  <2>1. InFlight(k)' \subseteq InFlight(k)
    BY <1>1, DoneLeaves
  <2>2. CASE used'[k] = used[k]
    BY <1>1, <2>1, <2>2, SameAtKey
  <2>3. CASE used'[k] = used[k] + 1
    BY <1>1, <2>1, <2>3, ErrorPays
  <2>. QED
    BY <1>5, <2>2, <2>3
<1>. QED
  BY <1>6, <1>7, <1>8 DEF LimitInv

\* A key that is cleared starts again: its attempts go with its counter.
LEMMA ResetTypes ==
  ASSUME LimitInv, NEW k \in Keys, Reset(k)
  PROVE  /\ count' \in [Keys -> Nat] /\ ttl' \in [Keys -> 0 .. Window]
         /\ used' \in [Keys -> Nat]
         /\ \A j \in Keys : used'[j] = 0 \/ (count'[j] = count[j] /\ used'[j] = used[j])
BY DEF LimitInv, LimitTypeOK, Reset, WellFormed

\* A success, whether its DEL was applied or not.
LEMMA ResetInv ==
  ASSUME LimitInv, NEW r \in Requests,
         ResetSubject(r) \/ ResetError(r)
  PROVE  LimitInv'
<1>1. /\ errors \in Nat /\ errors' \in {errors, errors + 1}
      /\ Done(r) /\ pc[r] = "reset"
  BY DEF ResetSubject, ResetError, RedisError, LimitInv,
         LimitTypeOK
<1>2. skey[r] \in Keys
  BY <1>1 DEF LimitInv, RequestKeys, Keys
<1>3. /\ count' \in [Keys -> Nat] /\ ttl' \in [Keys -> 0 .. Window]
      /\ used' \in [Keys -> Nat]
      /\ \A j \in Keys : used'[j] = 0 \/ (count'[j] = count[j] /\ used'[j] = used[j])
  <2>1. CASE Reset(skey[r])
    BY <1>2, <2>1, ResetTypes
  <2>2. CASE UNCHANGED limits
    BY <2>2 DEF LimitInv, LimitTypeOK, limits
  <2>. QED
    BY <2>1, <2>2 DEF ResetSubject, ResetError
<1>4. RequestKeys' /\ LimitTypeOK'
  BY <1>1, <1>3, DoneTypes DEF LimitTypeOK
<1>5. LostCounts'
  BY <1>1, <1>3, BoundFacts DEF LostCounts
<1>6. AttemptsAhead'
  BY <1>1, <1>3, DoneLeaves, SameAtKey DEF AttemptsAhead
<1>. QED
  BY <1>4, <1>5, <1>6 DEF LimitInv

\* A counter that expires takes its attempts with it.
LEMMA LimiterTick ==
  ASSUME LimitInv, Tick
  PROVE  LimitInv'
<1>1. LimitTypeOK'
  BY DEF LimitInv, LimitTypeOK, Tick, WellFormed
<1>2. RequestKeys'
  BY DEF LimitInv, RequestKeys, Tick
<1>3. \A j \in Keys : used'[j] = 0 \/ (count'[j] = count[j] /\ used'[j] = used[j])
  BY DEF Tick
<1>4. LostCounts'
  BY <1>1, <1>3, BoundFacts DEF LostCounts, Tick, LimitTypeOK
<1>5. \A k \in Keys : InFlight(k)' = InFlight(k)
  BY DEF InFlight, Tick
<1>6. AttemptsAhead'
  BY <1>3, <1>5, SameAtKey DEF AttemptsAhead, Tick
<1>. QED
  BY <1>1, <1>2, <1>4, <1>6 DEF LimitInv

\* No counter, no request.
LEMMA LimiterInit ==
  ASSUME LimitInit
  PROVE  LimitInv
<1>1. LimitTypeOK /\ RequestKeys /\ LostCounts
  BY DEF LimitInit, LimitTypeOK, RequestKeys, LostCounts,
         WellFormed, Stages
<1>2. AttemptsAhead
  BY FlightSize
     DEF LimitInit, AttemptsAhead, AttemptsWithin, WellFormed
<1>. QED
  BY <1>1, <1>2 DEF LimitInv

\* The counters of the limiters (redis_rate_limiter.go) and the requests between
\* their check and their record (service_rate_limit.go): the inductive invariant,
\* for any keys, limit, window and number of requests and failures.
THEOREM LimiterInvariant == LimitSpec => []LimitInv
<1>1. ASSUME LimitInv, [LimitNext]_limitVars
      PROVE  LimitInv'
  <2>1. CASE UNCHANGED limitVars
    BY <1>1, <2>1
       DEF LimitInv, LimitTypeOK, RequestKeys, LostCounts,
           AttemptsAhead, AttemptsWithin, InFlight, limitVars, limits
  <2>2. CASE Tick
    BY <1>1, <2>2, LimiterTick
  <2>3. ASSUME NEW r \in Requests,
               \/ \E s \in Subjects, c \in Clients \cup {NoClient} : Begin(r, s, c)
               \/ CheckSubject(r) \/ CheckClient(r)
               \/ CheckError(r) \/ TryCredential(r)
               \/ RecordSubject(r) \/ RecordClient(r) \/ RecordError(r)
               \/ ResetSubject(r) \/ ResetError(r)
        PROVE  LimitInv'
    BY <1>1, <2>3, BeginInv, CheckSubjectInv, CheckClientInv, CheckErrorInv,
       TryCredentialInv,
       RecordSubjectInv, RecordClientInv, RecordErrorInv, ResetInv
  <2>. QED
    BY <1>1, <2>1, <2>2, <2>3 DEF LimitNext
<1>. QED
  BY <1>1, LimiterInit, PTL DEF LimitSpec

\* Checking first and recording later lets through no more than one attempt for
\* each other request in progress and each failed Redis call.
THEOREM AttemptsAreBounded == LimitSpec => []AttemptsBounded
<1>1. LimitInv => AttemptsBounded
  BY BoundFacts, FlightSize
     DEF AttemptsWithin, AttemptsBounded, WellFormed
<1>. QED
  BY <1>1, LimiterInvariant, PTL

\* resetRateLimit clears the key of the account alone: a client's own counter
\* falls only when Redis expires it.
THEOREM ClientsWaitOutTheWindow == LimitSpec => ClientCounterOnlyExpires
<1>1. ASSUME LimitInv, [LimitNext]_limitVars
      PROVE  [\A k \in Clients : count'[k] < count[k] => ttl[k] = 1]_limitVars
  <2>. SUFFICES ASSUME NEW k \in Clients, count'[k] < count[k]
                PROVE  ttl[k] = 1
    OBVIOUS
  <2>0. /\ k \in Keys /\ count[k] \in Nat
        /\ ~(count[k] < count[k]) /\ ~(count[k] + 1 < count[k])
    BY <1>1 DEF LimitInv, LimitTypeOK, Keys
  <2>1. CASE count' = count
    BY <2>0, <2>1
  <2>2. CASE Tick
    BY <2>0, <2>2 DEF Tick
  <2>3. ASSUME NEW j \in Keys, Record(j)
        PROVE  FALSE
    BY <1>1, <2>0, <2>3, RecordTypes
  <2>4. ASSUME NEW j \in Subjects, Reset(j)
        PROVE  FALSE
    BY <1>1, <2>0, <2>4 DEF Reset, LimitInv, LimitTypeOK, WellFormed
  <2>5. ASSUME NEW r \in Requests,
               RecordSubject(r) \/ RecordClient(r) \/ RecordError(r)
        PROVE  FALSE
    <3>2. /\ pc[r] = "recordSubject" => skey[r] \in Keys
          /\ pc[r] = "recordClient" => ckey[r] \in Keys
      BY <1>1 DEF LimitInv, RequestKeys, Keys
    <3>3. (\E j \in Keys : Record(j)) \/ count' = count
      BY <2>5, <3>2 DEF RecordSubject, RecordClient, RecordError
    <3>. QED
      BY <2>0, <2>3, <3>3
  <2>6. ASSUME NEW r \in Requests, ResetSubject(r) \/ ResetError(r)
        PROVE  FALSE
    <3>1. skey[r] \in Subjects
      BY <1>1, <2>6
         DEF LimitInv, RequestKeys, ResetSubject,
             ResetError
    <3>. QED
      BY <2>0, <2>4, <2>6, <3>1 DEF ResetSubject, ResetError, limits
  <2>7. ASSUME NEW r \in Requests,
               \/ \E s \in Subjects, c \in Clients \cup {NoClient} : Begin(r, s, c)
               \/ CheckSubject(r) \/ CheckClient(r)
               \/ CheckError(r) \/ TryCredential(r)
        PROVE  count' = count
    <3>1. flow \in Flows
      BY <1>1 DEF LimitInv, LimitTypeOK
    <3>. QED
      BY <2>7, <3>1
         DEF Begin, CheckSubject, CheckClient, CheckError,
             TryCredential, limits, Flows
  <2>8. CASE UNCHANGED limitVars
    BY <2>1, <2>8 DEF limitVars, limits
  <2>. QED
    BY <1>1, <2>1, <2>2, <2>5, <2>6, <2>7, <2>8 DEF LimitNext
<1>. QED
  BY <1>1, LimiterInvariant, PTL DEF LimitSpec, ClientCounterOnlyExpires
=============================================================================
