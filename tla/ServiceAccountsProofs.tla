------------------------ MODULE ServiceAccountsProofs ------------------------
(***************************************************************************)
(* Proofs about ServiceAccounts, for any accounts, names, secrets, scopes  *)
(* and requests.  AccountInv is inductive: one lemma shows what the steps  *)
(* of a request do to the requests, the others what the transactions do to *)
(* the tables.                                                             *)
(***************************************************************************)
EXTENDS ServiceAccounts, FiniteSetTheorems, TLAPS

USE NilAssumption, ScopesAssumption

RequestInv == RequestShape /\ LateIsDisabled /\ DisabledStartsNothing

RequestType ==
  /\ pc \in [Requests -> Stages]
  /\ req \in [Requests -> [op : Ops, actor : ClientIDs \cup {NoClient},
                           target : ClientIDs \cup {NoClient},
                           name : Names \cup {NoName}, scopes : SUBSET Scopes]]
  /\ late \subseteq Requests

\* What no step undoes: accounts and their scopes, their being disabled, and what
\* has been done.
Grows ==
  /\ \A a \in Rows : a \in Rows' /\ scopes'[a] = scopes[a]
  /\ disabled \subseteq disabled'
  /\ done \subseteq done'

\* The answer to a request, and any failure, ends its claims.
LEMMA DoneKeeps ==
  ASSUME AccountInv, Grows, NEW r \in Requests, Done(r)
  PROVE  RequestType' /\ RequestInv'
<1> USE DEF AccountInv, TypeOK, Done, NoRequest, Stages, Ops, RequestType
<1>1. RequestType'
  OBVIOUS
<1>2. RequestShape'
  BY <1>1 DEF RequestShape, Grows, Manager, HasServiceScope
<1>3. LateIsDisabled' /\ DisabledStartsNothing'
  BY <1>1 DEF LateIsDisabled, DisabledStartsNothing, Grows
<1> QED
  BY <1>1, <1>2, <1>3 DEF RequestInv

\* The types of the tables, of the tokens and of what has been done.
TableType ==
  /\ name \in [ClientIDs -> Names \cup {NoName}]
  /\ scopes \in [ClientIDs -> SUBSET Scopes]
  /\ disabled \subseteq ClientIDs
  /\ owner \in [Secrets -> ClientIDs \cup {NoClient}]
  /\ revoked \subseteq Secrets
  /\ marker \in BOOLEAN
  /\ tokens \subseteq ClientIDs
  /\ audit \subseteq Events
  /\ done \subseteq Events
  /\ raced \in BOOLEAN

TableInv == CredentialRows /\ FirstAccountClosesBootstrap /\ ManagerRemains /\ AuditIsTruthful

\* Steps that read the tables, or only take or issue tokens.
LEMMA ReadOnly ==
  ASSUME AccountInv, UNCHANGED <<tables, audit, history>>, tokens' \subseteq ClientIDs,
         RequestType' /\ RequestInv'
  PROVE  AccountInv'
<1>1. TableType'
  BY DEF AccountInv, TypeOK, TableType, tables, history
<1>2. TableInv'
  BY DEF AccountInv, TableInv, CredentialRows, FirstAccountClosesBootstrap, ManagerRemains,
         AuditIsTruthful, Rows, Active, Live, Manager, HasServiceScope, tables, history
<1> QED
  BY <1>1, <1>2
  DEF AccountInv, TypeOK, TableType, RequestType, RequestInv, TableInv

\* A step that changes no table undoes nothing.
LEMMA StaticGrows ==
  ASSUME AccountInv, UNCHANGED <<tables, history>>
  PROVE  Grows
BY DEF Grows, Rows, tables, history

-----------------------------------------------------------------------------
(* The steps of a request up to its transaction.                           *)

\* A request comes in: the only step that finds a disabled account at its start.
LEMMA BeginKeeps ==
  ASSUME AccountInv, NEW r \in Requests,
         NEW q \in [op : Ops, actor : ClientIDs, target : ClientIDs \cup {NoClient},
                    name : Names \cup {NoName}, scopes : SUBSET Scopes],
         NEW s \in {"authenticate", "authorize"},
         s = "authorize" =>
           \/ q.op = "create" /\ q.name \in Names /\ q.scopes \in ScopeSets
           \/ q.op \in {"disable", "rotate"} /\ q.target \in ClientIDs,
         Begin(r, q, s)
  PROVE  AccountInv'
<1> USE DEF AccountInv, Begin
<1>g. Grows
  BY StaticGrows
<1>1. RequestType'
  BY DEF TypeOK, RequestType, Stages
<1>2. RequestShape'
  BY <1>g, <1>1 DEF TypeOK, RequestType, RequestShape, Grows, Manager, HasServiceScope
<1>3. LateIsDisabled' /\ DisabledStartsNothing'
  BY <1>g, <1>1 DEF TypeOK, RequestType, RequestShape, LateIsDisabled, DisabledStartsNothing,
     Grows, tables
<1> QED
  BY <1>1, <1>2, <1>3, ReadOnly DEF TypeOK, RequestInv

\* A request for a token comes in.
LEMMA BeginExchangeKeeps ==
  ASSUME AccountInv, NEW r \in Requests, NEW a \in ClientIDs, BeginExchange(r, a)
  PROVE  AccountInv'
BY BeginKeeps DEF BeginExchange, NoRequest, Ops

\* A request to create an account comes in.
LEMMA BeginCreateKeeps ==
  ASSUME AccountInv, NEW r \in Requests, NEW a \in ClientIDs, NEW n \in Names,
         NEW sc \in ScopeSets, BeginCreate(r, a, n, sc)
  PROVE  AccountInv'
BY BeginKeeps DEF BeginCreate, NoRequest, Ops

\* A request to disable an account, or to rotate its secret, comes in.
LEMMA BeginOnKeeps ==
  ASSUME AccountInv, NEW r \in Requests, NEW o \in {"disable", "rotate"},
         NEW a \in ClientIDs, NEW t \in ClientIDs, BeginOn(r, o, a, t)
  PROVE  AccountInv'
BY BeginKeeps DEF BeginOn, NoRequest, Ops

\* The steps between the calls that change something.  An account that was
\* disabled before its request began gets past neither query.
LEMMA QueryKeeps ==
  ASSUME AccountInv, NEW r \in Requests,
         \/ \E s \in Secrets : Authenticate(r, s)
         \/ AuthorizeServiceAccount(r)
         \/ IssueToken(r)
         \/ RereadDisabled(r)
         \/ Fail(r)
  PROVE  AccountInv'
<1>1. UNCHANGED <<tables, audit, history>> /\ Grows
  BY StaticGrows DEF Authenticate, AuthorizeServiceAccount, IssueToken, RereadDisabled, Fail
<1>2. tokens' \subseteq ClientIDs
  <2>1. pc[r] # "idle" => req[r].actor \in ClientIDs
    BY DEF AccountInv, RequestShape
  <2> QED
    BY <2>1 DEF AccountInv, TypeOK, Authenticate, AuthorizeServiceAccount, IssueToken,
                RereadDisabled, Fail
<1>3. CASE Done(r)
  BY <1>1, <1>2, <1>3, DoneKeeps, ReadOnly
<1>4. CASE /\ pc[r] = "authenticate" /\ Goto(r, "issue")
           /\ req[r].actor \in Active
  <2> USE DEF AccountInv, TypeOK, Goto, Stages
  <2>1. RequestType'
    BY <1>4 DEF RequestType
  <2>2. RequestShape'
    BY <1>1, <1>4, <2>1 DEF RequestType, RequestShape, Grows, Manager, HasServiceScope
  <2>3. LateIsDisabled' /\ DisabledStartsNothing'
    BY <1>1, <1>4, <2>1 DEF RequestType, LateIsDisabled, DisabledStartsNothing, Grows, Active
  <2> QED
    BY <1>1, <1>2, <2>1, <2>2, <2>3, ReadOnly DEF RequestInv
<1>5. CASE /\ pc[r] = "authorize" /\ Goto(r, "execute")
           /\ req[r].actor \in Active /\ Manager(req[r].actor)
           /\ ~(req[r].op = "disable" /\ req[r].target = req[r].actor)
  <2> USE DEF AccountInv, TypeOK, Goto, Stages
  <2>1. RequestType'
    BY <1>5 DEF RequestType
  <2>2. RequestShape'
    BY <1>1, <1>5, <2>1 DEF RequestType, RequestShape, Grows, Manager, HasServiceScope, Active
  <2>3. LateIsDisabled' /\ DisabledStartsNothing'
    BY <1>1, <1>5, <2>1 DEF RequestType, LateIsDisabled, DisabledStartsNothing, Grows, Active
  <2> QED
    BY <1>1, <1>2, <2>1, <2>2, <2>3, ReadOnly DEF RequestInv
<1>6. CASE pc[r] = "reread" /\ Goto(r, "audit")
  <2> USE DEF AccountInv, TypeOK, Goto, Stages
  <2>1. RequestType'
    BY <1>6 DEF RequestType
  <2>2. RequestShape'
    BY <1>1, <1>6, <2>1 DEF RequestType, RequestShape, Grows, Manager, HasServiceScope
  <2>3. LateIsDisabled' /\ DisabledStartsNothing'
    BY <1>1, <1>6, <2>1 DEF RequestType, LateIsDisabled, DisabledStartsNothing, Grows
  <2> QED
    BY <1>1, <1>2, <2>1, <2>2, <2>3, ReadOnly DEF RequestInv
<1> QED
  BY <1>3, <1>4, <1>5, <1>6
  DEF Authenticate, AuthorizeServiceAccount, IssueToken, RereadDisabled, Fail

-----------------------------------------------------------------------------
(* The transactions.                                                       *)

\* The event of a change is well formed, and not that of a bootstrap.
LEMMA ExecutedEvent ==
  ASSUME AccountInv, NEW r \in Requests, pc[r] = "execute", NEW a \in ClientIDs,
         Executed(r, a)
  PROVE  /\ done' \subseteq Events /\ done \subseteq done'
         /\ <<req[r].op, req[r].actor, a>> \in done'
         /\ \A e \in done' : e[1] = "bootstrap" => e \in done
         /\ raced' \in BOOLEAN
         /\ raced => raced'
<1>1. req[r].op \in {"create", "disable", "rotate"} /\ req[r].actor \in ClientIDs
  BY DEF AccountInv, RequestShape
<1>2. <<req[r].op, req[r].actor, a>> \in Events
  BY <1>1 DEF Events
<1>3. done \subseteq Events /\ raced \in BOOLEAN
  BY DEF AccountInv, TypeOK
<1> QED
  BY <1>1, <1>2, <1>3 DEF Executed

\* A new row with a new credential: an account with one live secret, that is not
\* disabled, next to accounts that stay as they are.
LEMMA InsertKeeps ==
  ASSUME AccountInv, NEW a \in ClientIDs, NEW n \in Names, NEW sc \in ScopeSets,
         NEW s \in Secrets, CanInsert(a, n, s), InsertServiceAccount(a, n, sc, s)
  PROVE  /\ name' \in [ClientIDs -> Names \cup {NoName}]
         /\ scopes' \in [ClientIDs -> SUBSET Scopes]
         /\ owner' \in [Secrets -> ClientIDs \cup {NoClient}]
         /\ UNCHANGED <<disabled, revoked>>
         /\ Rows' = Rows \cup {a} /\ a \notin Rows
         /\ \A b \in Rows : scopes'[b] = scopes[b]
         /\ CredentialRows'
         /\ (raced => raced') => ManagerRemains'
<1> USE DEF AccountInv, TypeOK, CanInsert, InsertServiceAccount
<1>1. /\ name' \in [ClientIDs -> Names \cup {NoName}]
      /\ scopes' \in [ClientIDs -> SUBSET Scopes]
      /\ owner' \in [Secrets -> ClientIDs \cup {NoClient}]
      /\ UNCHANGED <<disabled, revoked>>
  OBVIOUS
<1>2. Rows' = Rows \cup {a} /\ a \notin Rows
  BY DEF Rows
<1>3. \A b \in Rows : scopes'[b] = scopes[b]
  BY <1>2 DEF Rows
<1>4. Live(a)' = {s}
  BY <1>2 DEF Live, CredentialRows
<1>5. \A b \in Rows : Live(b)' = Live(b)
  BY <1>2 DEF Live, Rows
<1>6. CredentialRows'
  BY <1>1, <1>2, <1>4, <1>5 DEF CredentialRows
<1>7. ASSUME raced => raced'
      PROVE  ManagerRemains'
  <2>1. a \notin disabled
    BY <1>2 DEF CredentialRows
  <2>2. Active' = Active \cup {a}
    BY <1>2, <2>1 DEF Active
  <2>3. \A b \in Rows : Manager(b)' = Manager(b)
    BY <1>3 DEF Manager, HasServiceScope
  <2> QED
    BY <1>2, <1>7, <2>2, <2>3 DEF ManagerRemains, Active
<1> QED
  BY <1>1, <1>2, <1>3, <1>6, <1>7

\* CreateServiceAccount: there is an account already, the one that asks, so that
\* the bootstrap is over.
LEMMA CreateKeeps ==
  ASSUME AccountInv, NEW r \in Requests, NEW a \in ClientIDs, NEW s \in Secrets,
         CreateServiceAccount(r, a, s)
  PROVE  AccountInv'
<1>1. CASE ~CanInsert(a, req[r].name, s)
  <2>1. UNCHANGED <<tables, tokens, audit, history>> /\ Done(r)
    BY <1>1 DEF CreateServiceAccount
  <2> QED
    BY <2>1, StaticGrows, DoneKeeps, ReadOnly DEF AccountInv, TypeOK
<1>2. CASE CanInsert(a, req[r].name, s)
  <2> DEFINE n == req[r].name
             sc == req[r].scopes
  <2>1. /\ pc[r] = "execute" /\ req[r].op = "create"
        /\ n \in Names /\ sc \in ScopeSets
        /\ req[r].actor \in Rows /\ Manager(req[r].actor)
    BY DEF CreateServiceAccount, AccountInv, RequestShape
  <2>2. /\ InsertServiceAccount(a, n, sc, s) /\ Executed(r, a)
        /\ pc' = [pc EXCEPT ![r] = "audit"]
        /\ req' = [req EXCEPT ![r].target = a]
        /\ UNCHANGED <<late, marker, tokens, audit>>
    BY <1>2 DEF CreateServiceAccount
  <2> HIDE DEF n, sc
  <2>3. /\ name' \in [ClientIDs -> Names \cup {NoName}]
        /\ scopes' \in [ClientIDs -> SUBSET Scopes]
        /\ owner' \in [Secrets -> ClientIDs \cup {NoClient}]
        /\ UNCHANGED <<disabled, revoked>>
        /\ Rows' = Rows \cup {a} /\ a \notin Rows
        /\ \A b \in Rows : scopes'[b] = scopes[b]
        /\ CredentialRows'
        /\ (raced => raced') => ManagerRemains'
    BY <1>2, <2>1, <2>2, InsertKeeps DEF n
  <2>4. /\ done' \subseteq Events /\ done \subseteq done'
        /\ <<req[r].op, req[r].actor, a>> \in done'
        /\ \A e \in done' : e[1] = "bootstrap" => e \in done
        /\ raced' \in BOOLEAN /\ (raced => raced')
    BY <2>1, <2>2, ExecutedEvent
  <2>5. Grows
    BY <2>3, <2>4 DEF Grows
  <2> USE DEF AccountInv
  <2>6. TableType'
    BY <2>2, <2>3, <2>4 DEF TypeOK, TableType
  <2> DEFINE q == [req[r] EXCEPT !.target = a]
  <2>q. /\ req' = [req EXCEPT ![r] = q]
        /\ q \in [op : Ops, actor : ClientIDs \cup {NoClient},
                  target : ClientIDs \cup {NoClient},
                  name : Names \cup {NoName}, scopes : SUBSET Scopes]
        /\ q.op = req[r].op /\ q.actor = req[r].actor /\ q.target = a
    BY <2>2 DEF TypeOK
  <2> HIDE DEF q
  <2>7. RequestType'
    BY <2>2, <2>q DEF TypeOK, RequestType, Stages
  <2>8. RequestShape'
    <3>1. req'[r] = q /\ pc'[r] = "audit"
      BY <2>2, <2>q DEF TypeOK
    <3>2. \A x \in Requests \ {r} : req'[x] = req[x] /\ pc'[x] = pc[x]
      BY <2>2, <2>q DEF TypeOK
    <3>3. q.actor \in Rows' /\ scopes'[q.actor] = scopes[req[r].actor]
      BY <2>1, <2>5, <2>q DEF Grows
    <3> QED
      BY <2>1, <2>2, <2>4, <2>5, <2>q, <3>1, <3>2, <3>3
      DEF RequestShape, Grows, Manager, HasServiceScope, Rows
  <2>9. LateIsDisabled' /\ DisabledStartsNothing'
    BY <2>1, <2>2, <2>5, <2>7, <2>q
    DEF TypeOK, RequestType, LateIsDisabled, DisabledStartsNothing, Grows
  <2>10. FirstAccountClosesBootstrap'
    BY <2>1, <2>2 DEF FirstAccountClosesBootstrap
  <2>11. AuditIsTruthful'
    BY <2>2, <2>4 DEF AuditIsTruthful
  <2> QED
    BY <2>3, <2>4, <2>6, <2>7, <2>8, <2>9, <2>10, <2>11
    DEF TypeOK, TableType, RequestType
<1> QED
  BY <1>1, <1>2

\* DisableServiceAccount: while the account that asks is active it is a manager
\* that remains, as it is not the one it disables.
LEMMA DisableKeeps ==
  ASSUME AccountInv, NEW r \in Requests, DisableServiceAccount(r)
  PROVE  AccountInv'
<1> DEFINE t == req[r].target
<1>1. CASE t \notin Active
  <2>1. UNCHANGED <<tables, tokens, audit, history>> /\ Done(r)
    BY <1>1 DEF DisableServiceAccount, tables
  <2> QED
    BY <2>1, StaticGrows, DoneKeeps, ReadOnly DEF AccountInv, TypeOK
<1>2. CASE t \in Active
  <2>1. /\ pc[r] = "execute" /\ req[r].op = "disable"
        /\ t \in ClientIDs /\ t \in Rows /\ t # req[r].actor
        /\ req[r].actor \in Rows /\ Manager(req[r].actor)
    BY <1>2 DEF DisableServiceAccount, AccountInv, RequestShape, Active, Rows
  <2>2. /\ disabled' = disabled \cup {t} /\ Executed(r, t) /\ Goto(r, "reread")
        /\ UNCHANGED <<name, scopes, owner, revoked, marker, tokens, audit>>
    BY <1>2 DEF DisableServiceAccount
  <2> HIDE DEF t
  <2>3. /\ done' \subseteq Events /\ done \subseteq done'
        /\ <<req[r].op, req[r].actor, t>> \in done'
        /\ \A e \in done' : e[1] = "bootstrap" => e \in done
        /\ raced' \in BOOLEAN /\ (raced => raced')
    BY <2>1, <2>2, ExecutedEvent
  <2>4. Rows' = Rows /\ \A b \in Rows : Live(b)' = Live(b) /\ Manager(b)' = Manager(b)
    BY <2>2 DEF Rows, Live, Manager, HasServiceScope
  <2>5. Grows
    BY <2>2, <2>3, <2>4 DEF Grows
  <2> USE DEF AccountInv
  <2>6. TableType'
    BY <2>1, <2>2, <2>3 DEF TypeOK, TableType
  <2>7. RequestType'
    BY <2>2 DEF TypeOK, RequestType, Stages, Goto
  <2>8. RequestShape'
    BY <2>1, <2>2, <2>3, <2>5, <2>7
    DEF TypeOK, RequestType, RequestShape, Grows, Manager, HasServiceScope, Goto, t
  <2>9. LateIsDisabled' /\ DisabledStartsNothing'
    BY <2>1, <2>2, <2>5, <2>7
    DEF TypeOK, RequestType, LateIsDisabled, DisabledStartsNothing, Grows, Goto
  <2>10. CredentialRows' /\ FirstAccountClosesBootstrap'
    BY <2>1, <2>2, <2>4 DEF CredentialRows, FirstAccountClosesBootstrap
  <2>11. ManagerRemains'
    <3>1. CASE raced'
      BY <3>1 DEF ManagerRemains
    <3>2. CASE ~raced'
      <4>1. req[r].actor \notin disabled
        BY <2>2, <3>2 DEF Executed
      <4>2. PICK m \in Rows : m = req[r].actor /\ Manager(m)
        BY <2>1
      <4>3. m \in Active' /\ Manager(m)'
        BY <2>1, <2>2, <2>4, <4>1, <4>2 DEF Active
      <4> QED
        BY <4>3 DEF ManagerRemains
    <3> QED
      BY <3>1, <3>2
  <2>12. AuditIsTruthful'
    BY <2>2, <2>3 DEF AuditIsTruthful
  <2> QED
    BY <2>3, <2>6, <2>7, <2>8, <2>9, <2>10, <2>11, <2>12
    DEF TypeOK, TableType, RequestType
<1> QED
  BY <1>1, <1>2

\* RotateCredential leaves the new secret alone with its account.
LEMMA RotationSecrets ==
  ASSUME AccountInv, NEW t \in Rows, NEW s \in Secrets, owner[s] = NoClient,
         revoked' = revoked \cup Live(t), owner' = [owner EXCEPT ![s] = t],
         UNCHANGED <<name, scopes, disabled>>
  PROVE  /\ Live(t)' = {s}
         /\ \A b \in ClientIDs \ {t} : Live(b)' = Live(b)
         /\ CredentialRows'
<1> USE DEF AccountInv, TypeOK
<1>1. t \in ClientIDs /\ s \notin revoked /\ Rows' = Rows
  BY DEF Rows, CredentialRows
<1>2. Live(t)' = {s}
  BY <1>1 DEF Live
<1>3. \A b \in ClientIDs \ {t} : Live(b)' = Live(b)
  BY <1>1 DEF Live
<1>4. Rows \subseteq ClientIDs
  BY DEF Rows
<1>5. \A b \in Rows' : \E x \in Secrets : Live(b)' = {x}
  BY <1>1, <1>2, <1>3, <1>4 DEF CredentialRows
<1>6. /\ disabled' \subseteq Rows'
      /\ \A x \in Secrets : owner'[x] # NoClient => owner'[x] \in Rows'
      /\ \A x \in revoked' : owner'[x] # NoClient
  BY <1>1, <1>4 DEF CredentialRows, Live
<1> QED
  BY <1>2, <1>3, <1>5, <1>6 DEF CredentialRows

\* RotateServiceAccountSecret: the account is active, or nothing happens.
LEMMA RotateKeeps ==
  ASSUME AccountInv, NEW r \in Requests, NEW s \in Secrets, RotateServiceAccountSecret(r, s)
  PROVE  AccountInv'
<1> DEFINE t == req[r].target
<1>1. CASE t \notin Active
  <2>1. UNCHANGED <<tables, tokens, audit, history>> /\ Done(r)
    BY <1>1 DEF RotateServiceAccountSecret, tables
  <2> QED
    BY <2>1, StaticGrows, DoneKeeps, ReadOnly DEF AccountInv, TypeOK
<1>2. CASE t \in Active
  <2>1. /\ pc[r] = "execute" /\ req[r].op = "rotate" /\ owner[s] = NoClient
        /\ t \in ClientIDs /\ t \in Rows
        /\ req[r].actor \in Rows /\ Manager(req[r].actor)
    BY <1>2 DEF RotateServiceAccountSecret, AccountInv, RequestShape, Active, Rows
  <2>2. /\ revoked' = revoked \cup Live(t) /\ owner' = [owner EXCEPT ![s] = t]
        /\ Executed(r, t) /\ Goto(r, "audit")
        /\ UNCHANGED <<name, scopes, disabled, marker, tokens, audit>>
    BY <1>2 DEF RotateServiceAccountSecret
  <2> HIDE DEF t
  <2>3. /\ done' \subseteq Events /\ done \subseteq done'
        /\ <<req[r].op, req[r].actor, t>> \in done'
        /\ \A e \in done' : e[1] = "bootstrap" => e \in done
        /\ raced' \in BOOLEAN /\ (raced => raced')
    BY <2>1, <2>2, ExecutedEvent
  <2>4. Rows' = Rows /\ \A b \in Rows : Manager(b)' = Manager(b)
    BY <2>2 DEF Rows, Manager, HasServiceScope
  <2>5. Grows
    BY <2>2, <2>3, <2>4 DEF Grows
  <2>c. CredentialRows'
    BY <2>1, <2>2, RotationSecrets
  <2> USE DEF AccountInv
  <2>6. TableType'
    BY <2>1, <2>2, <2>3 DEF TypeOK, TableType, Live
  <2>7. RequestType'
    BY <2>2 DEF TypeOK, RequestType, Stages, Goto
  <2>8. RequestShape'
    BY <2>1, <2>2, <2>3, <2>5, <2>7
    DEF TypeOK, RequestType, RequestShape, Grows, Manager, HasServiceScope, Goto, t
  <2>9. LateIsDisabled' /\ DisabledStartsNothing'
    BY <2>1, <2>2, <2>5, <2>7
    DEF TypeOK, RequestType, LateIsDisabled, DisabledStartsNothing, Grows, Goto
  <2>10. FirstAccountClosesBootstrap' /\ ManagerRemains'
    BY <2>2, <2>3, <2>4 DEF FirstAccountClosesBootstrap, ManagerRemains, Active
  <2>11. AuditIsTruthful'
    BY <2>2, <2>3 DEF AuditIsTruthful
  <2> QED
    BY <2>3, <2>6, <2>7, <2>8, <2>9, <2>c, <2>10, <2>11
    DEF TypeOK, TableType, RequestType
<1> QED
  BY <1>1, <1>2

\* The event that is written tells of a change that was made.
LEMMA AuditKeeps ==
  ASSUME AccountInv, NEW r \in Requests, RecordManagementAudit(r)
  PROVE  AccountInv'
<1>1. UNCHANGED <<tables, tokens, history>> /\ Done(r)
  BY DEF RecordManagementAudit
<1>2. audit' \subseteq done /\ audit \subseteq audit'
  BY DEF RecordManagementAudit, AccountInv, RequestShape, AuditIsTruthful
<1>3. RequestType' /\ RequestInv'
  BY <1>1, StaticGrows, DoneKeeps
<1>4. TableType' /\ AuditIsTruthful'
  BY <1>1, <1>2 DEF AccountInv, TypeOK, TableType, AuditIsTruthful, tables, history
<1>5. CredentialRows' /\ FirstAccountClosesBootstrap' /\ ManagerRemains'
  BY <1>1 DEF AccountInv, CredentialRows, FirstAccountClosesBootstrap, ManagerRemains,
              Rows, Active, Live, Manager, HasServiceScope, tables, history
<1> QED
  BY <1>3, <1>4, <1>5 DEF AccountInv, TypeOK, TableType, RequestType, RequestInv

\* A bootstrap sets the marker with its account, and writes its own event.
LEMMA BootstrapKeeps ==
  ASSUME AccountInv, NEW a \in ClientIDs, NEW n \in Names, NEW sc \in ScopeSets,
         NEW s \in Secrets, NEW force \in BOOLEAN, Bootstrap(a, n, sc, s, force)
  PROVE  AccountInv'
<1>1. /\ name' \in [ClientIDs -> Names \cup {NoName}]
      /\ scopes' \in [ClientIDs -> SUBSET Scopes]
      /\ owner' \in [Secrets -> ClientIDs \cup {NoClient}]
      /\ UNCHANGED <<disabled, revoked>>
      /\ Rows' = Rows \cup {a} /\ a \notin Rows
      /\ \A b \in Rows : scopes'[b] = scopes[b]
      /\ CredentialRows'
      /\ ManagerRemains'
  BY InsertKeeps DEF Bootstrap
<1>2. <<"bootstrap", NoClient, a>> \in Events
  BY DEF Events
<1>3. Grows
  BY <1>1 DEF Bootstrap, Grows
<1> USE DEF AccountInv, Bootstrap
<1>4. TableType' /\ RequestType'
  BY <1>1, <1>2 DEF TypeOK, TableType, RequestType
<1>5. RequestShape'
  BY <1>3 DEF TypeOK, RequestShape, Grows, Manager, HasServiceScope
<1>6. LateIsDisabled' /\ DisabledStartsNothing'
  BY <1>1 DEF LateIsDisabled, DisabledStartsNothing
<1>7. FirstAccountClosesBootstrap' /\ AuditIsTruthful'
  BY DEF FirstAccountClosesBootstrap, AuditIsTruthful
<1> QED
  BY <1>1, <1>4, <1>5, <1>6, <1>7 DEF TypeOK, TableType, RequestType

\* A token expires, or nothing happens.
LEMMA ExpiryKeeps ==
  ASSUME AccountInv, (\E a \in ClientIDs : ExpireToken(a)) \/ UNCHANGED vars
  PROVE  AccountInv'
<1>1. /\ UNCHANGED <<tables, audit, history, pc, req, late>>
      /\ tokens' \subseteq ClientIDs
  BY DEF AccountInv, TypeOK, ExpireToken, vars
<1>2. RequestType'
  BY <1>1 DEF AccountInv, TypeOK, RequestType
<1>3. RequestInv'
  BY <1>1 DEF AccountInv, RequestInv, RequestShape, LateIsDisabled, DisabledStartsNothing,
              Rows, Manager, HasServiceScope, tables, history
<1> QED
  BY <1>1, <1>2, <1>3, ReadOnly

-----------------------------------------------------------------------------

\* The inductive invariant holds in every reachable state.
THEOREM AccountInvariant == Spec => []AccountInv
<1>1. Init => AccountInv
  <2> SUFFICES ASSUME Init PROVE AccountInv
    OBVIOUS
  <2>1. Rows = {}
    BY DEF Init, Rows
  <2>2. TypeOK
    BY DEF Init, TypeOK, NoRequest, Stages, Ops
  <2>3. RequestShape /\ LateIsDisabled /\ DisabledStartsNothing
    BY DEF Init, RequestShape, LateIsDisabled, DisabledStartsNothing
  <2>4. CredentialRows /\ FirstAccountClosesBootstrap /\ ManagerRemains /\ AuditIsTruthful
    BY <2>1 DEF Init, CredentialRows, FirstAccountClosesBootstrap, ManagerRemains,
                AuditIsTruthful
  <2> QED
    BY <2>2, <2>3, <2>4 DEF AccountInv
<1>2. AccountInv /\ [Next]_vars => AccountInv'
  BY BeginExchangeKeeps, BeginCreateKeeps, BeginOnKeeps, QueryKeeps, CreateKeeps,
     DisableKeeps, RotateKeeps, AuditKeeps, BootstrapKeeps, ExpiryKeeps DEF Next
<1> QED
  BY <1>1, <1>2, PTL DEF Spec

\* An account that was disabled before its call began gets no token for its
\* secret and manages nothing with a token it still holds.
THEOREM DisabledGetsNothing == Spec => []DisabledStartsNothing
<1>1. AccountInv => DisabledStartsNothing
  BY DEF AccountInv
<1> QED
  BY <1>1, AccountInvariant, PTL

\* Each account has exactly one secret that works, whatever rotations compete.
THEOREM EachHasOneSecret == Spec => []OneLiveSecret
<1>1. AccountInv => OneLiveSecret
  <2> SUFFICES ASSUME AccountInv, NEW a \in Rows
               PROVE  Cardinality(Live(a)) = 1
    BY DEF OneLiveSecret
  <2>1. PICK s \in Secrets : Live(a) = {s}
    BY DEF AccountInv, CredentialRows
  <2> QED
    BY <2>1, FS_Singleton
<1> QED
  BY <1>1, AccountInvariant, PTL

\* As long as no account acts after it was disabled, management of the accounts
\* cannot be lost.
THEOREM NoLockout == Spec => []ManagerRemains
<1>1. AccountInv => ManagerRemains
  BY DEF AccountInv
<1> QED
  BY <1>1, AccountInvariant, PTL

\* Whatever way the first account came into being, a bootstrap without force
\* finds the marker.
THEOREM BootstrapIsClosed == Spec => []FirstAccountClosesBootstrap
<1>1. AccountInv => FirstAccountClosesBootstrap
  BY DEF AccountInv
<1> QED
  BY <1>1, AccountInvariant, PTL

\* No interleaving or failure makes the audit trail tell of a change that was not
\* made, and no bootstrap is missing from it.
THEOREM AuditTellsTruth == Spec => []AuditIsTruthful
<1>1. AccountInv => AuditIsTruthful
  BY DEF AccountInv
<1> QED
  BY <1>1, AccountInvariant, PTL

\* A disabled account stays disabled, and no rotation under way gives it a new
\* secret.
THEOREM DisabledFrozen == Spec => DisabledIsFrozen
<1>1. AccountInv /\ [Next]_vars =>
        [\A a \in disabled : a \in disabled' /\ Live(a)' = Live(a)]_vars
  <2> SUFFICES ASSUME AccountInv, [Next]_vars, NEW a \in disabled
               PROVE  a \in disabled' /\ Live(a)' = Live(a)
    OBVIOUS
  <2>1. a \in ClientIDs /\ a \in Rows /\ a \notin Active
    BY DEF AccountInv, TypeOK, CredentialRows, Active
  <2>2. ASSUME UNCHANGED <<owner, revoked>>, disabled \subseteq disabled'
        PROVE  a \in disabled' /\ Live(a)' = Live(a)
    BY <2>2 DEF Live
  <2>3. ASSUME NEW b \in ClientIDs, NEW n, NEW sc, NEW s \in Secrets, CanInsert(b, n, s),
               InsertServiceAccount(b, n, sc, s)
        PROVE  a \in disabled' /\ Live(a)' = Live(a)
    BY <2>1, <2>3 DEF AccountInv, TypeOK, CanInsert, InsertServiceAccount, Live
  <2>4. ASSUME NEW r \in Requests, NEW s \in Secrets, RotateServiceAccountSecret(r, s)
        PROVE  a \in disabled' /\ Live(a)' = Live(a)
    <3>1. CASE req[r].target \notin Active
      BY <2>2, <2>4, <3>1 DEF RotateServiceAccountSecret
    <3>2. CASE req[r].target \in Active
      <4>1. PICK t \in Rows : t = req[r].target
        BY <3>2 DEF Active
      <4>2. /\ revoked' = revoked \cup Live(t) /\ owner' = [owner EXCEPT ![s] = t]
            /\ UNCHANGED <<name, scopes, disabled>> /\ owner[s] = NoClient
        BY <2>4, <3>2, <4>1 DEF RotateServiceAccountSecret
      <4>3. a # t
        BY <2>1, <3>2, <4>1
      <4> QED
        BY <2>1, <4>2, <4>3, RotationSecrets
    <3> QED
      BY <3>1, <3>2
  <2>5. ASSUME NEW r \in Requests,
               \/ \E b \in ClientIDs : BeginExchange(r, b)
               \/ \E b \in ClientIDs, n \in Names, sc \in ScopeSets : BeginCreate(r, b, n, sc)
               \/ \E o \in {"disable", "rotate"}, b, t \in ClientIDs : BeginOn(r, o, b, t)
               \/ \E s \in Secrets : Authenticate(r, s)
               \/ IssueToken(r) \/ AuthorizeServiceAccount(r) \/ RereadDisabled(r)
               \/ RecordManagementAudit(r) \/ Fail(r)
        PROVE  a \in disabled' /\ Live(a)' = Live(a)
    <3>1. UNCHANGED tables
      BY <2>5 DEF BeginExchange, BeginCreate, BeginOn, Begin, Authenticate, IssueToken,
                  AuthorizeServiceAccount, RereadDisabled, RecordManagementAudit, Fail
    <3> QED
      BY <2>2, <3>1 DEF tables
  <2>6. ASSUME NEW r \in Requests, DisableServiceAccount(r)
        PROVE  a \in disabled' /\ Live(a)' = Live(a)
    BY <2>2, <2>6 DEF DisableServiceAccount
  <2>7. ASSUME NEW r \in Requests, NEW b \in ClientIDs, NEW s \in Secrets,
               CreateServiceAccount(r, b, s)
        PROVE  a \in disabled' /\ Live(a)' = Live(a)
    BY <2>2, <2>3, <2>7 DEF CreateServiceAccount, tables
  <2>8. CASE (\E b \in ClientIDs : ExpireToken(b)) \/ UNCHANGED vars
    BY <2>2, <2>8 DEF ExpireToken, vars, tables
  <2> QED
    BY <2>3, <2>4, <2>5, <2>6, <2>7, <2>8 DEF Next, Bootstrap
<1> QED
  BY <1>1, AccountInvariant, PTL DEF Spec, DisabledIsFrozen
=============================================================================
