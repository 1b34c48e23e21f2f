------------------------------ MODULE Accounts ------------------------------
(***************************************************************************)
(* User accounts and the flows that create, find, link and change them:    *)
(* RegisterWithPassword and LoginWithPassword (service_password.go),       *)
(* LoginWithEmailCode (service_email_code.go), LoginWithOAuth with         *)
(* ensureOAuthUser and LinkOAuthAccount (service_oauth.go), the user       *)
(* management of user_management.go, all in internal/identra, on top of    *)
(* the tables users and external_identities (internal/store/sqlite).       *)
(*                                                                         *)
(* A flow starts here when its credential has been accepted: the email     *)
(* code consumed, the OAuth state consumed and the code exchanged, the     *)
(* access token validated.  From then on each SQL statement is one step;   *)
(* flows interleave between statements and work on the row they have read. *)
(***************************************************************************)
EXTENDS Naturals

CONSTANTS UserIDs,      \* row IDs, fresh UUIDs
          Emails,
          Passwords,    \* password hashes, as VerifyPassword tells them apart
          ProviderIDs,  \* (provider, provider user ID)
          Requests,     \* one per RPC that is ever received
          NoUser, NoEmail, NoPassword, NoProviderID

ASSUME AbsenceAssumption ==
         /\ NoUser \notin UserIDs
         /\ NoEmail \notin Emails
         /\ NoPassword \notin Passwords
         /\ NoProviderID \notin ProviderIDs

VARIABLES
  email,      \* email[u]: users.email; NoEmail: there is no row u
  password,   \* password[u]: users.hashed_password; NoPassword: NULL
  deleted,    \* rows with deleted_at set
  identity,   \* identity[x]: the user of x's row in external_identities
  pc,         \* pc[r]: the next statement of request r, or its outcome
  op,         \* op[r]: which RPC r is
  in,         \* in[r]: its email, password and provider ID
  usr,        \* usr[r]: the *UserModel it holds
  gone,       \* history: gone[r]: users deleted before r began
  made,       \* history: made[r]: the user r has created
  chosen      \* history: chosen[u]: the password u was last given

db == <<email, password, deleted, identity, chosen>>
vars == <<db, pc, op, in, usr, gone, made>>

NoModel == [id |-> NoUser, email |-> NoEmail, password |-> NoPassword]
NoInput == [email |-> NoEmail, password |-> NoPassword, ext |-> NoProviderID]
Models == [id : UserIDs \cup {NoUser}, email : Emails \cup {NoEmail},
           password : Passwords \cup {NoPassword}]
Inputs == [email : Emails \cup {NoEmail}, password : Passwords \cup {NoPassword},
           ext : ProviderIDs \cup {NoProviderID}]
Ops == {"none", "register", "password", "code", "oauth", "link"}
Running == {"find", "create", "identity", "linked", "update", "merge", "attach",
            "compensate", "refetch", "record"}
Failed == {"denied", "exists", "internal"}

\* The stages at which a request holds a user.
Holding == {"update", "merge", "attach", "compensate", "refetch", "record", "ok"}

\* Every variable has its type, and a request that records a login or issues a
\* session holds the ID of a user, also of one it has just created.
TypeOK ==
  /\ email \in [UserIDs -> Emails \cup {NoEmail}]
  /\ password \in [UserIDs -> Passwords \cup {NoPassword}]
  /\ deleted \subseteq UserIDs
  /\ identity \in [ProviderIDs -> UserIDs \cup {NoUser}]
  /\ pc \in [Requests -> {"idle", "ok"} \cup Running \cup Failed]
  /\ op \in [Requests -> Ops]
  /\ in \in [Requests -> Inputs]
  /\ usr \in [Requests -> Models]
  /\ gone \in [Requests -> SUBSET UserIDs]
  /\ made \in [Requests -> UserIDs \cup {NoUser}]
  /\ chosen \in [UserIDs -> Passwords \cup {NoPassword}]
  /\ \A r \in Requests : pc[r] \in Holding => usr[r].id \in UserIDs

Init ==
  /\ email = [u \in UserIDs |-> NoEmail]
  /\ password = [u \in UserIDs |-> NoPassword]
  /\ deleted = {}
  /\ identity = [x \in ProviderIDs |-> NoUser]
  /\ pc = [r \in Requests |-> "idle"]
  /\ op = [r \in Requests |-> "none"]
  /\ in = [r \in Requests |-> NoInput]
  /\ usr = [r \in Requests |-> NoModel]
  /\ gone = [r \in Requests |-> {}]
  /\ made = [r \in Requests |-> NoUser]
  /\ chosen = [u \in UserIDs |-> NoPassword]

-----------------------------------------------------------------------------
(* The tables.                                                             *)

Rows == {u \in UserIDs : email[u] # NoEmail}
Active == Rows \ deleted

\* GetByID and GetByEmail see rows with deleted_at IS NULL only.
ByEmail(e) == {u \in Active : email[u] = e}
Model(u) == [id |-> u, email |-> email[u], password |-> password[u]]

\* Mutant: the index leaves deleted rows out.
EmailTaken_LiveOnly(e, by) == \E u \in Active \ {by} : email[u] = e

\* users.email is UNIQUE over all rows, the deleted ones included.
EmailTaken(e, by) == \E u \in Rows \ {by} : email[u] = e

\* INSERT INTO users, with a fresh ID.
InsertUser(u, e, p) ==
  /\ u \notin Rows
  /\ email' = [email EXCEPT ![u] = e]
  /\ password' = [password EXCEPT ![u] = p]
  /\ chosen' = [chosen EXCEPT ![u] = p]
  /\ UNCHANGED <<deleted, identity>>

\* Mutant: UPDATE users ... WHERE id = ?, without deleted_at IS NULL.
CanUpdate_AnyRow(m) == m.id \in Rows /\ ~EmailTaken(m.email, m.id)

\* UpdateUser writes every column of the model, and only to a row that is not
\* deleted; it fails on another user's email.
CanUpdate(m) == m.id \in Active /\ ~EmailTaken(m.email, m.id)
UpdateUser(m) ==
  /\ email' = [email EXCEPT ![m.id] = m.email]
  /\ password' = [password EXCEPT ![m.id] = m.password]
  /\ UNCHANGED <<deleted, identity, chosen>>

SoftDeleteUser(u) ==
  /\ deleted' = deleted \cup {u}
  /\ UNCHANGED <<email, password, identity, chosen>>

\* INSERT INTO external_identities; UNIQUE (provider, provider_user_id).
InsertIdentity(x, u) ==
  /\ identity[x] = NoUser
  /\ identity' = [identity EXCEPT ![x] = u]
  /\ UNCHANGED <<email, password, deleted, chosen>>

-----------------------------------------------------------------------------
(* Requests.                                                               *)

Goto(r, s) == pc' = [pc EXCEPT ![r] = s]
Hold(r, m) == usr' = [usr EXCEPT ![r] = m]

\* What a step that only reads, or only fails, leaves alone.
Local == UNCHANGED <<op, in, gone, made>>
ReadOnly == UNCHANGED db /\ Local

Begin(r, o, input, s) ==
  /\ pc[r] = "idle"
  /\ op' = [op EXCEPT ![r] = o]
  /\ in' = [in EXCEPT ![r] = input]
  /\ gone' = [gone EXCEPT ![r] = deleted]
  /\ Goto(r, s)
  /\ UNCHANGED <<db, made>>

BeginRegister(r, e, p) ==
  Begin(r, "register", [NoInput EXCEPT !.email = e, !.password = p], "find")
    /\ UNCHANGED usr
BeginPasswordLogin(r, e, p) ==
  Begin(r, "password", [NoInput EXCEPT !.email = e, !.password = p], "find")
    /\ UNCHANGED usr
BeginCodeLogin(r, e) ==
  Begin(r, "code", [NoInput EXCEPT !.email = e], "find") /\ UNCHANGED usr

\* The provider may supply no email (after maybeFillOAuthEmail).
BeginOAuthLogin(r, e, x) ==
  Begin(r, "oauth", [NoInput EXCEPT !.email = e, !.ext = x], "identity")
    /\ UNCHANGED usr

\* LinkOAuthAccount reads the bearer's row before it consumes the state.
BeginLink(r, u, x) ==
  /\ u \in Active
  /\ Hold(r, Model(u))
  /\ Begin(r, "link", [NoInput EXCEPT !.ext = x], "identity")

\* GetByEmail, and what each flow does with its result.
FindByEmail(r) ==
  /\ pc[r] = "find"
  /\ \/ /\ ByEmail(in[r].email) = {}
        /\ Goto(r, IF op[r] = "password" THEN "denied" ELSE "create")
        /\ UNCHANGED usr
     \/ \E u \in ByEmail(in[r].email) :
          /\ Hold(r, Model(u))
          /\ Goto(r, CASE op[r] = "register" -> "exists"
                       [] op[r] = "password" ->
                            IF password[u] # NoPassword /\ password[u] = in[r].password
                            THEN "record" ELSE "denied"
                       [] op[r] = "code" -> "record"
                       [] op[r] = "oauth" -> "merge")
  /\ ReadOnly

\* Mutant: Create does not put the ID into the model.
CreateUser_NoID(r, u) ==
  /\ pc[r] = "create"
  /\ ~EmailTaken(in[r].email, NoUser)
  /\ InsertUser(u, in[r].email, in[r].password)
  /\ Hold(r, [id |-> NoUser, email |-> in[r].email, password |-> in[r].password])
  /\ made' = [made EXCEPT ![r] = u]
  /\ Goto(r, IF op[r] = "oauth" THEN "attach" ELSE "record")
  /\ UNCHANGED <<op, in, gone>>

\* userStore.Create: an email that a row has, deleted or not, is a conflict.
CreateUser(r, u) ==
  /\ pc[r] = "create"
  /\ ~EmailTaken(in[r].email, NoUser)
  /\ InsertUser(u, in[r].email, in[r].password)
  /\ Hold(r, [id |-> u, email |-> in[r].email, password |-> in[r].password])
  /\ made' = [made EXCEPT ![r] = u]
  /\ Goto(r, IF op[r] = "oauth" THEN "attach" ELSE "record")
  /\ UNCHANGED <<op, in, gone>>

CreateConflict(r) ==
  /\ pc[r] = "create"
  /\ EmailTaken(in[r].email, NoUser)
  /\ Goto(r, IF op[r] = "code" THEN "internal" ELSE "exists")
  /\ UNCHANGED usr
  /\ ReadOnly

\* GetByProviderID, in ensureOAuthUser and in LinkOAuthAccount.
FindIdentity(r) ==
  /\ pc[r] = "identity"
  /\ LET owner == identity[in[r].ext] IN
     Goto(r, IF op[r] = "link"
             THEN CASE owner = NoUser    -> "merge"
                    [] owner = usr[r].id -> "record"
                    [] OTHER             -> "exists"
             ELSE CASE owner # NoUser           -> "linked"
                    [] in[r].email = NoEmail    -> "denied"
                    [] OTHER                    -> "find")
  /\ UNCHANGED usr
  /\ ReadOnly

\* Mutant: the identity's user is read whether deleted or not.
LoadLinkedUser_Deleted(r) ==
  /\ pc[r] = "linked"
  /\ Goto(r, "record") /\ Hold(r, Model(identity[in[r].ext]))
  /\ ReadOnly

\* GetByID of the identity's user, and updateEmailIfNeeded's comparison.
LoadLinkedUser(r) ==
  /\ pc[r] = "linked"
  /\ LET u == identity[in[r].ext] IN
     IF u \notin Active
     THEN Goto(r, "internal") /\ UNCHANGED usr
     ELSE IF in[r].email \in {email[u], NoEmail}
     THEN Goto(r, "record") /\ Hold(r, Model(u))
     ELSE Goto(r, "update") /\ Hold(r, [Model(u) EXCEPT !.email = in[r].email])
  /\ ReadOnly

\* updateEmailIfNeeded's Update; its failure fails the login.
UpdateEmail(r) ==
  /\ pc[r] = "update"
  /\ IF CanUpdate(usr[r])
     THEN UpdateUser(usr[r]) /\ Goto(r, "record")
     ELSE UNCHANGED db /\ Goto(r, "internal")
  /\ UNCHANGED usr
  /\ Local

\* externalIdentityStore.Create for a user who was there before.
MergeIdentity(r) ==
  /\ pc[r] = "merge"
  /\ \/ InsertIdentity(in[r].ext, usr[r].id) /\ Goto(r, "record")
     \/ identity[in[r].ext] # NoUser /\ UNCHANGED db /\ Goto(r, "refetch")
  /\ UNCHANGED usr
  /\ Local

\* Mutant: a conflict is taken for one's own earlier link.
RefetchIdentity_Assumed(r) ==
  /\ pc[r] = "refetch"
  /\ Goto(r, "record")
  /\ UNCHANGED usr
  /\ ReadOnly

\* After a conflict: whose identity is it?
RefetchIdentity(r) ==
  /\ pc[r] = "refetch"
  /\ Goto(r, IF identity[in[r].ext] = usr[r].id THEN "record" ELSE "exists")
  /\ UNCHANGED usr
  /\ ReadOnly

\* externalIdentityStore.Create for the user this login has just created; a
\* conflict or an error leads to the compensation.
AttachIdentity(r) ==
  /\ pc[r] = "attach"
  /\ \/ InsertIdentity(in[r].ext, usr[r].id) /\ Goto(r, "record")
     \/ UNCHANGED db /\ Goto(r, "compensate")
  /\ UNCHANGED usr
  /\ Local

\* userStore.Delete of that user; when it fails it is only logged.  The client
\* is told AlreadyExists after a conflict and Internal after an error: "exists"
\* stands for both.
Compensate(r) ==
  /\ pc[r] = "compensate"
  /\ SoftDeleteUser(usr[r].id) \/ UNCHANGED db
  /\ Goto(r, "exists")
  /\ UNCHANGED usr
  /\ Local

\* recordLogin writes the model back, a failure is only logged, and the session
\* is issued to usr[r].id, unless NewTokenPair fails.
RecordLogin(r) ==
  /\ pc[r] = "record"
  /\ \/ CanUpdate(usr[r]) /\ UpdateUser(usr[r])
     \/ UNCHANGED db
  /\ Goto(r, "ok") \/ Goto(r, "internal")
  /\ UNCHANGED usr
  /\ Local

\* A statement fails, or the server dies between two statements.
Fail(r) ==
  /\ pc[r] \in Running
  /\ Goto(r, "internal")
  /\ UNCHANGED usr
  /\ ReadOnly

-----------------------------------------------------------------------------
(* User management, by an authorised service account: one statement each.  *)

Idle == UNCHANGED <<pc, op, in, usr, gone, made>>

CreatePasswordUser(u, e, p) ==
  /\ ~EmailTaken(e, NoUser)
  /\ InsertUser(u, e, p)
  /\ Idle

DeleteUser(u) ==
  /\ u \in Active
  /\ SoftDeleteUser(u)
  /\ Idle

ResetUserPassword(u, p) ==
  /\ u \in Active
  /\ password' = [password EXCEPT ![u] = p]
  /\ chosen' = [chosen EXCEPT ![u] = p]
  /\ UNCHANGED <<email, deleted, identity>>
  /\ Idle

\* No request is running: the model may stop here, the server waits.
Quiescent ==
  /\ \A r \in Requests : pc[r] \notin Running
  /\ UNCHANGED vars

Next ==
  \/ \E r \in Requests :
       \/ \E e \in Emails, p \in Passwords :
            BeginRegister(r, e, p) \/ BeginPasswordLogin(r, e, p)
       \/ \E e \in Emails : BeginCodeLogin(r, e)
       \/ \E e \in Emails \cup {NoEmail}, x \in ProviderIDs : BeginOAuthLogin(r, e, x)
       \/ \E u \in UserIDs, x \in ProviderIDs : BeginLink(r, u, x)
       \/ FindByEmail(r)
       \/ \E u \in UserIDs : CreateUser(r, u)
       \/ CreateConflict(r)
       \/ FindIdentity(r)
       \/ LoadLinkedUser(r)
       \/ UpdateEmail(r)
       \/ MergeIdentity(r)
       \/ RefetchIdentity(r)
       \/ AttachIdentity(r)
       \/ Compensate(r)
       \/ RecordLogin(r)
       \/ Fail(r)
  \/ \E u \in UserIDs, e \in Emails, p \in Passwords : CreatePasswordUser(u, e, p)
  \/ \E u \in UserIDs : DeleteUser(u)
  \/ \E u \in UserIDs, p \in Passwords : ResetUserPassword(u, p)
  \/ Quiescent

Spec == Init /\ [][Next]_vars

-----------------------------------------------------------------------------
(* Properties.                                                             *)

\* An email address belongs to one account, for good: no race of registration,
\* email-code login, OAuth login, email update and user management, and no
\* write-back of a stale model, gives it to a second one.
EmailOnce ==
  \A u, v \in Rows : email[u] = email[v] => u = v

\* A session obtained through an external identity is that of the user whose
\* identity it is, whoever else was linking or creating it at the same time.
SessionMatchesIdentity ==
  \A r \in Requests :
    op[r] \in {"oauth", "link"} /\ pc[r] \in {"record", "ok"}
      => identity[in[r].ext] = usr[r].id

\* A user who was deleted before a request began never gets a session from it,
\* by password, by code, by an identity that outlived the user, or by linking.
NoLoginAfterDelete ==
  \A r \in Requests : pc[r] = "ok" => usr[r].id \notin gone[r]

\* A deleted account is frozen: a flow that read it before the deletion does
\* not write to it any more, and nothing brings it back.
DeletedIsFrozen ==
  [][\A u \in deleted : /\ u \in deleted'
                        /\ email'[u] = email[u]
                        /\ password'[u] = password[u]]_vars

-----------------------------------------------------------------------------
(* The inductive invariant behind them (proved in AccountsProofs).         *)

\* Which stages belong to which RPC, and what was sent with it.
RequestShape ==
  \A r \in Requests :
    /\ pc[r] = "idle" => usr[r].id = NoUser
    /\ pc[r] \in {"find", "create"} =>
         op[r] \in {"register", "password", "code", "oauth"} /\ in[r].email \in Emails
    /\ pc[r] \in {"identity", "linked", "update", "merge", "attach", "compensate", "refetch"}
         => op[r] \in {"oauth", "link"}
    /\ op[r] \in {"oauth", "link"} => in[r].ext \in ProviderIDs
    /\ op[r] = "link" => usr[r].id \in UserIDs

\* The model a request holds, however stale, is of a row that exists, with an
\* address, and that was not deleted when the request began.
HeldModels ==
  \A r \in Requests : usr[r].id \in UserIDs =>
    /\ usr[r].id \in Rows
    /\ usr[r].email \in Emails
    /\ usr[r].id \notin gone[r]

\* Deleted rows stay rows, which keep their addresses.
DeletedRows ==
  /\ deleted \subseteq Rows
  /\ \A r \in Requests : gone[r] \subseteq deleted

\* A request that goes on with an identity has it as its own user's: no other
\* request can change whose it is.
IdentityIsOwn ==
  \A r \in Requests :
    op[r] \in {"oauth", "link"} /\ pc[r] \in {"update", "record", "ok"}
      => identity[in[r].ext] = usr[r].id

\* The parts together: preserved by every statement of every flow and of the
\* user management, in any order.
UserInv ==
  /\ TypeOK
  /\ RequestShape
  /\ HeldModels
  /\ DeletedRows
  /\ IdentityIsOwn
  /\ EmailOnce

-----------------------------------------------------------------------------
(* What the comments and messages of the code say, and the code does not do. *)

\* recordLogin records the login ("failed to record last login",
\* internal/identra/service_user.go:13), so the password of an account is the
\* one it was last given ("password reset", README.md:13).
PasswordResetSticks ==
  \A u \in Rows : password[u] = chosen[u]
=============================================================================
