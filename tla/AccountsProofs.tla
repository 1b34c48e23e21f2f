--------------------------- MODULE AccountsProofs ---------------------------
(***************************************************************************)
(* Proofs about Accounts, for any users, addresses, identities and         *)
(* requests.  UserInv is inductive.  The lemmas about the statements say   *)
(* what each does to the tables; StepKeeps, what a step of one request     *)
(* must show for itself, as the others rely on nothing a statement undoes. *)
(***************************************************************************)
EXTENDS Accounts, TLAPS

USE AbsenceAssumption

TableType ==
  /\ email \in [UserIDs -> Emails \cup {NoEmail}]
  /\ password \in [UserIDs -> Passwords \cup {NoPassword}]
  /\ deleted \subseteq UserIDs
  /\ identity \in [ProviderIDs -> UserIDs \cup {NoUser}]
  /\ chosen \in [UserIDs -> Passwords \cup {NoPassword}]

TableInv == TableType /\ EmailOnce /\ deleted \subseteq Rows

\* What no statement undoes: rows, deletions, and whose an identity is.
Grows ==
  /\ Rows \subseteq Rows'
  /\ deleted \subseteq deleted'
  /\ \A x \in ProviderIDs : identity[x] # NoUser => identity'[x] = identity[x]

-----------------------------------------------------------------------------
(* The statements.                                                         *)

\* The tables' part of the invariant.
LEMMA TablesOfInv == UserInv => TableInv
BY DEF UserInv, TypeOK, DeletedRows, TableInv, TableType

\* A statement that only reads.
LEMMA StaticTables ==
  ASSUME TableInv, UNCHANGED db
  PROVE  TableInv' /\ Grows
BY DEF db, TableInv, TableType, EmailOnce, Rows, Grows

\* INSERT INTO users of an address that no row has.
LEMMA InsertUserTables ==
  ASSUME TableInv, NEW u \in UserIDs, NEW e \in Emails,
         NEW p \in Passwords \cup {NoPassword}, ~EmailTaken(e, NoUser), InsertUser(u, e, p)
  PROVE  TableInv' /\ Grows /\ u \notin Rows /\ u \in Rows'
<1> USE DEF TableInv, TableType, InsertUser
<1>1. TableType'
  OBVIOUS
<1>2. Rows' = Rows \cup {u} /\ u \notin Rows
  BY DEF Rows
<1>3. EmailOnce'
  BY <1>2 DEF EmailOnce, EmailTaken, Rows
<1> QED
  BY <1>1, <1>2, <1>3 DEF Grows

\* UPDATE users: a row that is not deleted gets an address that no other row has.
LEMMA UpdateUserTables ==
  ASSUME TableInv, NEW m \in Models, m.email \in Emails, CanUpdate(m), UpdateUser(m)
  PROVE  TableInv' /\ Grows
<1> USE DEF TableInv, TableType, UpdateUser, CanUpdate, Models, Active
<1>1. m.id \in UserIDs
  BY DEF Rows
<1>2. TableType'
  BY <1>1
<1>3. Rows' = Rows
  BY <1>1 DEF Rows
<1>4. EmailOnce'
  BY <1>1, <1>3 DEF EmailOnce, EmailTaken, Rows
<1> QED
  BY <1>2, <1>3, <1>4 DEF Grows

\* The soft delete of a row.
LEMMA SoftDeleteTables ==
  ASSUME TableInv, NEW u \in Rows, SoftDeleteUser(u)
  PROVE  TableInv' /\ Grows
BY DEF TableInv, TableType, SoftDeleteUser, EmailOnce, Rows, Grows

\* INSERT INTO external_identities of an identity nobody has.
LEMMA InsertIdentityTables ==
  ASSUME TableInv, NEW x \in ProviderIDs, NEW u \in UserIDs, InsertIdentity(x, u)
  PROVE  TableInv' /\ Grows /\ identity'[x] = u
BY DEF TableInv, TableType, InsertIdentity, EmailOnce, Rows, Grows

-----------------------------------------------------------------------------
(* The steps of a request.                                                 *)

\* A step of the request r keeps the invariant when the tables keep theirs and
\* the claims of UserInv on r itself hold after it.
LEMMA StepKeeps ==
  ASSUME UserInv, TableInv', Grows, NEW r \in Requests,
         pc' \in [Requests -> {"idle", "ok"} \cup Running \cup Failed],
         usr' \in [Requests -> Models],
         made' \in [Requests -> UserIDs \cup {NoUser}],
         UNCHANGED <<op, in, gone>>,
         \A x \in Requests \ {r} : pc'[x] = pc[x] /\ usr'[x] = usr[x],
         pc'[r] # "idle",
         pc'[r] \in Holding => usr'[r].id \in UserIDs,
         pc'[r] \in {"find", "create"} =>
           op[r] \in {"register", "password", "code", "oauth"} /\ in[r].email \in Emails,
         pc'[r] \in {"identity", "linked", "update", "merge", "attach", "compensate", "refetch"}
           => op[r] \in {"oauth", "link"},
         op[r] = "link" => usr'[r].id \in UserIDs,
         usr'[r].id \in UserIDs =>
           usr'[r].id \in Rows' /\ usr'[r].email \in Emails /\ usr'[r].id \notin gone[r],
         op[r] \in {"oauth", "link"} /\ pc'[r] \in {"update", "record", "ok"}
           => identity'[in[r].ext] = usr'[r].id
  PROVE  UserInv'
<1> USE DEF UserInv
<1>1. TypeOK'
  BY DEF TypeOK, TableInv, TableType
<1>2. RequestShape'
  BY DEF TypeOK, RequestShape
<1>3. HeldModels'
  BY DEF TypeOK, HeldModels, Grows
<1>4. DeletedRows'
  BY DEF TypeOK, DeletedRows, TableInv, Grows
<1>5. IdentityIsOwn'
  <2> SUFFICES ASSUME NEW x \in Requests \ {r}, op[x] \in {"oauth", "link"},
                      pc[x] \in {"update", "record", "ok"}
               PROVE  identity'[in[x].ext] = usr[x].id
    BY DEF IdentityIsOwn
  <2>1. in[x].ext \in ProviderIDs /\ usr[x].id \in UserIDs
    BY DEF RequestShape, TypeOK, Holding
  <2> QED
    BY <2>1 DEF IdentityIsOwn, Grows
<1> QED
  BY <1>1, <1>2, <1>3, <1>4, <1>5 DEF TableInv

\* The same for a step that moves r to the stage s and lets it keep its user.
LEMMA GotoKeeps ==
  ASSUME UserInv, TableInv', Grows, NEW r \in Requests,
         NEW s \in {"ok"} \cup Running \cup Failed,
         Goto(r, s), UNCHANGED <<op, in, gone, made, usr>>, pc[r] # "idle",
         s \in Holding => usr[r].id \in UserIDs,
         s \in {"find", "create"} =>
           op[r] \in {"register", "password", "code", "oauth"} /\ in[r].email \in Emails,
         s \in {"identity", "linked", "update", "merge", "attach", "compensate", "refetch"}
           => op[r] \in {"oauth", "link"},
         op[r] \in {"oauth", "link"} /\ s \in {"update", "record", "ok"}
           => identity'[in[r].ext] = usr[r].id
  PROVE  UserInv'
<1>1. /\ pc' \in [Requests -> {"idle", "ok"} \cup Running \cup Failed]
      /\ usr' \in [Requests -> Models]
      /\ made' \in [Requests -> UserIDs \cup {NoUser}]
      /\ \A x \in Requests \ {r} : pc'[x] = pc[x] /\ usr'[x] = usr[x]
      /\ pc'[r] = s /\ usr'[r] = usr[r] /\ s # "idle"
  BY DEF UserInv, TypeOK, Goto, Running, Failed
<1>2. op[r] = "link" => usr[r].id \in UserIDs
  BY DEF UserInv, RequestShape
<1>3. usr[r].id \in UserIDs =>
        usr[r].id \in Rows' /\ usr[r].email \in Emails /\ usr[r].id \notin gone[r]
  BY DEF UserInv, HeldModels, Grows
<1> QED
  BY <1>1, <1>2, <1>3, StepKeeps

\* A request comes in; only LinkOAuthAccount has read a row by then, one that was
\* not deleted.
LEMMA BeginKeeps ==
  ASSUME UserInv, NEW r \in Requests, NEW o \in Ops, NEW input \in Inputs,
         NEW s \in {"find", "identity"}, Begin(r, o, input, s),
         usr' \in [Requests -> Models],
         \A x \in Requests \ {r} : usr'[x] = usr[x],
         o = "link" => /\ usr'[r].id \in Active /\ usr'[r].email = email[usr'[r].id],
         o # "link" => usr'[r] = usr[r],
         s = "find" => o \in {"register", "password", "code"} /\ input.email \in Emails,
         s = "identity" => o \in {"oauth", "link"} /\ input.ext \in ProviderIDs
  PROVE  UserInv'
<1> USE DEF UserInv, Begin, Goto
<1>1. TableInv' /\ Grows
  BY TablesOfInv, StaticTables
<1>2. /\ pc' \in [Requests -> {"idle", "ok"} \cup Running \cup Failed]
      /\ pc'[r] = s /\ op'[r] = o /\ in'[r] = input /\ gone'[r] = deleted
      /\ \A x \in Requests \ {r} : /\ pc'[x] = pc[x] /\ op'[x] = op[x]
                                   /\ in'[x] = in[x] /\ gone'[x] = gone[x]
  BY DEF TypeOK, Running
<1>3. /\ op' \in [Requests -> Ops] /\ in' \in [Requests -> Inputs]
      /\ gone' \in [Requests -> SUBSET UserIDs]
  BY DEF TypeOK
<1>4. o # "link" => usr'[r].id = NoUser
  BY DEF RequestShape
<1>5. TypeOK'
  BY <1>1, <1>2, <1>3 DEF TypeOK, TableInv, TableType, Holding
<1>6. RequestShape'
  BY <1>2, <1>4, <1>5 DEF RequestShape, Active, Rows
<1>7. HeldModels'
  <2>1. usr'[r].id \in UserIDs =>
          usr'[r].id \in Rows' /\ usr'[r].email \in Emails /\ usr'[r].id \notin gone'[r]
    BY <1>1, <1>2, <1>4 DEF Active, Rows, TypeOK, Grows
  <2> QED
    BY <1>1, <1>2, <2>1 DEF HeldModels, Grows
<1>8. DeletedRows'
  BY <1>1, <1>2 DEF DeletedRows, TableInv, Grows
<1>9. IdentityIsOwn'
  BY <1>2 DEF IdentityIsOwn, db
<1> QED
  BY <1>1, <1>5, <1>6, <1>7, <1>8, <1>9 DEF TableInv

\* Registrations and logins come in without a user.
LEMMA BeginFlowKeeps ==
  ASSUME UserInv, NEW r \in Requests,
         \/ \E e \in Emails, p \in Passwords :
              BeginRegister(r, e, p) \/ BeginPasswordLogin(r, e, p)
         \/ \E e \in Emails : BeginCodeLogin(r, e)
         \/ \E e \in Emails \cup {NoEmail}, x \in ProviderIDs : BeginOAuthLogin(r, e, x)
  PROVE  UserInv'
<1>1. usr' = usr
  BY DEF BeginRegister, BeginPasswordLogin, BeginCodeLogin, BeginOAuthLogin
<1>2. usr' \in [Requests -> Models] /\ usr'[r] = usr[r]
      /\ \A x \in Requests \ {r} : usr'[x] = usr[x]
  BY <1>1 DEF UserInv, TypeOK
<1>3. ASSUME NEW e \in Emails, NEW p \in Passwords,
             BeginRegister(r, e, p) \/ BeginPasswordLogin(r, e, p)
      PROVE  UserInv'
  <2> DEFINE i == [NoInput EXCEPT !.email = e, !.password = p]
  <2>1. i \in Inputs /\ i.email \in Emails
    BY DEF NoInput, Inputs
  <2>2. Begin(r, "register", i, "find") \/ Begin(r, "password", i, "find")
    BY <1>3 DEF BeginRegister, BeginPasswordLogin
  <2> HIDE DEF i
  <2> QED
    BY <1>2, <2>1, <2>2, BeginKeeps DEF Ops
<1>4. ASSUME NEW e \in Emails, BeginCodeLogin(r, e)
      PROVE  UserInv'
  <2> DEFINE i == [NoInput EXCEPT !.email = e]
  <2>1. i \in Inputs /\ i.email \in Emails
    BY DEF NoInput, Inputs
  <2>2. Begin(r, "code", i, "find")
    BY <1>4 DEF BeginCodeLogin
  <2> HIDE DEF i
  <2> QED
    BY <1>2, <2>1, <2>2, BeginKeeps DEF Ops
<1>5. ASSUME NEW e \in Emails \cup {NoEmail}, NEW x \in ProviderIDs, BeginOAuthLogin(r, e, x)
      PROVE  UserInv'
  <2> DEFINE i == [NoInput EXCEPT !.email = e, !.ext = x]
  <2>1. i \in Inputs /\ i.ext \in ProviderIDs
    BY DEF NoInput, Inputs
  <2>2. Begin(r, "oauth", i, "identity")
    BY <1>5 DEF BeginOAuthLogin
  <2> HIDE DEF i
  <2> QED
    BY <1>2, <2>1, <2>2, BeginKeeps DEF Ops
<1> QED
  BY <1>3, <1>4, <1>5

\* The model of a row that is not deleted.
LEMMA ModelOfActive ==
  ASSUME UserInv, NEW u \in Active
  PROVE  /\ u \in UserIDs /\ u \in Rows /\ Model(u) \in Models
         /\ Model(u).id = u /\ Model(u).email = email[u] /\ email[u] \in Emails
         /\ \A r \in Requests : u \notin gone[r]
BY DEF UserInv, TypeOK, DeletedRows, Active, Rows, Model, Models

\* LinkOAuthAccount comes in with its user's row.
LEMMA BeginLinkKeeps ==
  ASSUME UserInv, NEW r \in Requests, NEW u \in UserIDs, NEW x \in ProviderIDs,
         BeginLink(r, u, x)
  PROVE  UserInv'
<1> DEFINE i == [NoInput EXCEPT !.ext = x]
<1>1. i \in Inputs /\ i.ext \in ProviderIDs
  BY DEF NoInput, Inputs
<1>2. Begin(r, "link", i, "identity") /\ u \in Active /\ usr' = [usr EXCEPT ![r] = Model(u)]
  BY DEF BeginLink, Hold
<1>3. /\ usr' \in [Requests -> Models] /\ \A y \in Requests \ {r} : usr'[y] = usr[y]
      /\ usr'[r].id \in Active /\ usr'[r].email = email[usr'[r].id]
  BY <1>2, ModelOfActive DEF UserInv, TypeOK
<1> HIDE DEF i
<1> QED
  BY <1>1, <1>2, <1>3, BeginKeeps DEF Ops

\* A request reads the row of u, which is not deleted, and holds its model, with
\* another address perhaps.
LEMMA HoldKeeps ==
  ASSUME UserInv, NEW r \in Requests, NEW u \in Active, NEW m \in Models,
         m.id = u, m.email \in Emails,
         NEW s \in {"ok"} \cup Running \cup Failed,
         Goto(r, s), Hold(r, m), ReadOnly, pc[r] # "idle",
         s \in {"find", "create"} =>
           op[r] \in {"register", "password", "code", "oauth"} /\ in[r].email \in Emails,
         s \in {"identity", "linked", "update", "merge", "attach", "compensate", "refetch"}
           => op[r] \in {"oauth", "link"},
         op[r] \in {"oauth", "link"} /\ s \in {"update", "record", "ok"}
           => identity[in[r].ext] = u
  PROVE  UserInv'
<1>1. TableInv' /\ Grows
  BY TablesOfInv, StaticTables DEF ReadOnly
<1>2. /\ pc' \in [Requests -> {"idle", "ok"} \cup Running \cup Failed]
      /\ usr' \in [Requests -> Models]
      /\ made' \in [Requests -> UserIDs \cup {NoUser}]
      /\ \A x \in Requests \ {r} : pc'[x] = pc[x] /\ usr'[x] = usr[x]
      /\ pc'[r] = s /\ usr'[r] = m /\ s # "idle"
      /\ UNCHANGED <<op, in, gone>> /\ identity' = identity
  BY DEF UserInv, TypeOK, Goto, Hold, ReadOnly, Local, Running, Failed, db
<1>3. u \in UserIDs /\ u \in Rows' /\ u \notin gone[r]
  BY <1>1, ModelOfActive DEF Grows
<1> QED
  BY <1>1, <1>2, <1>3, StepKeeps

-----------------------------------------------------------------------------
(* One lemma per statement of the flows.                                   *)

\* GetByEmail finds no row that is not deleted, or one.
LEMMA FindByEmailKeeps ==
  ASSUME UserInv, NEW r \in Requests, FindByEmail(r)
  PROVE  UserInv'
<1>1. /\ pc[r] = "find" /\ op[r] \in {"register", "password", "code", "oauth"}
      /\ in[r].email \in Emails /\ ReadOnly
  BY DEF FindByEmail, UserInv, RequestShape
<1>2. CASE ByEmail(in[r].email) = {}
  <2>1. PICK s \in {"denied", "create"} : Goto(r, s) /\ UNCHANGED usr
    BY <1>2 DEF FindByEmail
  <2>2. TableInv' /\ Grows
    BY <1>1, TablesOfInv, StaticTables DEF ReadOnly
  <2> QED
    BY <1>1, <2>1, <2>2, GotoKeeps DEF Running, Failed, Holding, ReadOnly, Local
<1>3. CASE ByEmail(in[r].email) # {}
  <2>1. PICK u \in ByEmail(in[r].email) :
          /\ Hold(r, Model(u))
          /\ Goto(r, CASE op[r] = "register" -> "exists"
                       [] op[r] = "password" ->
                            IF password[u] # NoPassword /\ password[u] = in[r].password
                            THEN "record" ELSE "denied"
                       [] op[r] = "code" -> "record"
                       [] op[r] = "oauth" -> "merge")
    BY <1>3 DEF FindByEmail
  <2>2. u \in Active
    BY DEF ByEmail
  <2>3. PICK s \in {"exists", "record", "denied", "merge"} :
          Goto(r, s) /\ (s = "record" => op[r] # "oauth") /\ (s = "merge" => op[r] = "oauth")
    BY <1>1, <2>1
  <2> QED
    BY <1>1, <2>1, <2>2, <2>3, ModelOfActive, HoldKeeps DEF Running, Failed
<1> QED
  BY <1>2, <1>3

\* userStore.Create.
LEMMA CreateUserKeeps ==
  ASSUME UserInv, NEW r \in Requests, NEW u \in UserIDs, CreateUser(r, u)
  PROVE  UserInv'
<1> DEFINE m == [id |-> u, email |-> in[r].email, password |-> in[r].password]
<1>1. /\ pc[r] = "create" /\ op[r] \in {"register", "password", "code", "oauth"}
      /\ in[r].email \in Emails /\ in[r].password \in Passwords \cup {NoPassword}
  BY DEF CreateUser, UserInv, RequestShape, TypeOK, Inputs
<1>2. TableInv' /\ Grows /\ u \notin Rows /\ u \in Rows'
  BY <1>1, TablesOfInv, InsertUserTables DEF CreateUser
<1>3. m \in Models /\ m.id = u /\ m.email \in Emails
  BY <1>1 DEF Models
<1>4. usr' = [usr EXCEPT ![r] = m] /\ UNCHANGED <<op, in, gone>>
  BY DEF CreateUser, Hold
<1>5. PICK s \in {"attach", "record"} :
        pc' = [pc EXCEPT ![r] = s] /\ (s = "attach" <=> op[r] = "oauth")
  BY DEF CreateUser, Goto
<1> HIDE DEF m
<1>6. /\ pc' \in [Requests -> {"idle", "ok"} \cup Running \cup Failed]
      /\ usr' \in [Requests -> Models]
      /\ made' \in [Requests -> UserIDs \cup {NoUser}]
      /\ \A x \in Requests \ {r} : pc'[x] = pc[x] /\ usr'[x] = usr[x]
      /\ pc'[r] = s /\ usr'[r] = m
  BY <1>3, <1>4, <1>5 DEF CreateUser, UserInv, TypeOK, Running
<1>7. u \notin gone[r]
  BY <1>2 DEF UserInv, DeletedRows
<1> QED
  BY <1>1, <1>2, <1>3, <1>4, <1>5, <1>6, <1>7, StepKeeps

\* The address is taken.
LEMMA CreateConflictKeeps ==
  ASSUME UserInv, NEW r \in Requests, CreateConflict(r)
  PROVE  UserInv'
<1>1. PICK s \in {"internal", "exists"} : Goto(r, s)
  BY DEF CreateConflict
<1>2. TableInv' /\ Grows
  BY TablesOfInv, StaticTables DEF CreateConflict, ReadOnly
<1> QED
  BY <1>1, <1>2, GotoKeeps DEF CreateConflict, ReadOnly, Local, Running, Failed, Holding

\* GetByProviderID.
LEMMA FindIdentityKeeps ==
  ASSUME UserInv, NEW r \in Requests, FindIdentity(r)
  PROVE  UserInv'
<1>1. /\ pc[r] = "identity" /\ op[r] \in {"oauth", "link"} /\ in[r].email \in Emails \cup {NoEmail}
      /\ op[r] = "link" => usr[r].id \in UserIDs
  BY DEF FindIdentity, UserInv, RequestShape, TypeOK, Inputs
<1>2. PICK s \in {"merge", "record", "exists", "linked", "denied", "find"} :
        /\ Goto(r, s)
        /\ s \in {"merge", "record", "exists"} <=> op[r] = "link"
        /\ s = "record" => identity[in[r].ext] = usr[r].id
        /\ s = "find" => in[r].email # NoEmail
  BY DEF FindIdentity
<1>3. TableInv' /\ Grows
  BY TablesOfInv, StaticTables DEF FindIdentity, ReadOnly
<1>4. identity' = identity /\ UNCHANGED <<op, in, gone, made, usr>>
  BY DEF FindIdentity, ReadOnly, Local, db
<1> QED
  BY <1>1, <1>2, <1>3, <1>4, GotoKeeps DEF Running, Failed, Holding

\* GetByID of the user of an identity.
LEMMA LoadLinkedUserKeeps ==
  ASSUME UserInv, NEW r \in Requests, LoadLinkedUser(r)
  PROVE  UserInv'
<1> DEFINE u == identity[in[r].ext]
<1>1. /\ pc[r] = "linked" /\ op[r] \in {"oauth", "link"} /\ ReadOnly
      /\ in[r].email \in Emails \cup {NoEmail}
  BY DEF LoadLinkedUser, UserInv, RequestShape, TypeOK, Inputs
<1>2. CASE u \notin Active
  <2>1. Goto(r, "internal") /\ UNCHANGED usr
    BY <1>2 DEF LoadLinkedUser
  <2>2. TableInv' /\ Grows
    BY <1>1, TablesOfInv, StaticTables DEF ReadOnly
  <2> QED
    BY <1>1, <2>1, <2>2, GotoKeeps DEF ReadOnly, Local, Running, Failed, Holding
<1>3. CASE u \in Active /\ in[r].email \in {email[u], NoEmail}
  <2>1. Goto(r, "record") /\ Hold(r, Model(u))
    BY <1>3 DEF LoadLinkedUser
  <2> QED
    BY <1>1, <1>3, <2>1, ModelOfActive, HoldKeeps DEF Running
<1>4. CASE u \in Active /\ in[r].email \notin {email[u], NoEmail}
  <2> DEFINE m == [Model(u) EXCEPT !.email = in[r].email]
  <2>1. Goto(r, "update") /\ Hold(r, m)
    BY <1>4 DEF LoadLinkedUser
  <2>2. m \in Models /\ m.id = u /\ m.email \in Emails
    BY <1>1, <1>4, ModelOfActive DEF Models, Model
  <2> HIDE DEF m
  <2> QED
    BY <1>1, <1>4, <2>1, <2>2, HoldKeeps DEF Running
<1> QED
  BY <1>2, <1>3, <1>4

\* A request that holds a user holds the model of a row.
LEMMA Held ==
  ASSUME UserInv, NEW r \in Requests, pc[r] \in Holding
  PROVE  /\ usr[r].id \in UserIDs /\ usr[r].id \in Rows /\ usr[r] \in Models
         /\ usr[r].email \in Emails
BY DEF UserInv, TypeOK, HeldModels

\* updateEmailIfNeeded's Update.
LEMMA UpdateEmailKeeps ==
  ASSUME UserInv, NEW r \in Requests, UpdateEmail(r)
  PROVE  UserInv'
<1>1. pc[r] = "update" /\ UNCHANGED <<op, in, gone, made, usr>>
  BY DEF UpdateEmail, Local
<1>2. /\ usr[r].id \in UserIDs /\ usr[r] \in Models /\ usr[r].email \in Emails
      /\ op[r] \in {"oauth", "link"} /\ identity[in[r].ext] = usr[r].id
  BY <1>1, Held DEF Holding, UserInv, RequestShape, IdentityIsOwn
<1>3. TableInv' /\ Grows
  BY <1>2, TablesOfInv, StaticTables, UpdateUserTables DEF UpdateEmail
<1>4. identity' = identity
  BY DEF UpdateEmail, UpdateUser, db
<1>5. PICK s \in {"record", "internal"} : Goto(r, s)
  BY DEF UpdateEmail
<1> QED
  BY <1>1, <1>2, <1>3, <1>4, <1>5, GotoKeeps DEF Running, Failed, Holding

\* externalIdentityStore.Create, for a user who was there before or has just been
\* created.
LEMMA CreateIdentityKeeps ==
  ASSUME UserInv, NEW r \in Requests, MergeIdentity(r) \/ AttachIdentity(r)
  PROVE  UserInv'
<1>1. pc[r] \in {"merge", "attach"} /\ UNCHANGED <<op, in, gone, made, usr>>
  BY DEF MergeIdentity, AttachIdentity, Local
<1>2. usr[r].id \in UserIDs /\ op[r] \in {"oauth", "link"} /\ in[r].ext \in ProviderIDs
  BY <1>1, Held DEF Holding, UserInv, RequestShape
<1>3. CASE InsertIdentity(in[r].ext, usr[r].id) /\ Goto(r, "record")
  <2>1. TableInv' /\ Grows /\ identity'[in[r].ext] = usr[r].id
    BY <1>2, <1>3, TablesOfInv, InsertIdentityTables
  <2> QED
    BY <1>1, <1>2, <1>3, <2>1, GotoKeeps DEF Running
<1>4. CASE UNCHANGED db /\ (Goto(r, "refetch") \/ Goto(r, "compensate"))
  <2>1. TableInv' /\ Grows
    BY <1>4, TablesOfInv, StaticTables
  <2> QED
    BY <1>1, <1>2, <1>4, <2>1, GotoKeeps DEF Running
<1> QED
  BY <1>3, <1>4 DEF MergeIdentity, AttachIdentity

\* After a conflict: whose identity is it?
LEMMA RefetchIdentityKeeps ==
  ASSUME UserInv, NEW r \in Requests, RefetchIdentity(r)
  PROVE  UserInv'
<1>1. pc[r] = "refetch" /\ UNCHANGED <<op, in, gone, made, usr>> /\ UNCHANGED db
  BY DEF RefetchIdentity, ReadOnly, Local
<1>2. usr[r].id \in UserIDs
  BY <1>1, Held DEF Holding
<1>3. PICK s \in {"record", "exists"} :
        Goto(r, s) /\ (s = "record" => identity[in[r].ext] = usr[r].id)
  BY DEF RefetchIdentity
<1>4. TableInv' /\ Grows /\ identity' = identity
  BY <1>1, TablesOfInv, StaticTables DEF db
<1> QED
  BY <1>1, <1>2, <1>3, <1>4, GotoKeeps DEF Running, Failed, Holding

\* The user who was just created is deleted again, or not.
LEMMA CompensateKeeps ==
  ASSUME UserInv, NEW r \in Requests, Compensate(r)
  PROVE  UserInv'
<1>1. pc[r] = "compensate" /\ UNCHANGED <<op, in, gone, made, usr>> /\ Goto(r, "exists")
  BY DEF Compensate, Local
<1>2. usr[r].id \in Rows
  BY <1>1, Held DEF Holding
<1>3. TableInv' /\ Grows
  BY <1>2, TablesOfInv, StaticTables, SoftDeleteTables DEF Compensate
<1> QED
  BY <1>1, <1>3, GotoKeeps DEF Running, Failed, Holding

\* recordLogin writes back what the request read, to a row that may have changed
\* since; the address is its own or nobody's.
LEMMA RecordLoginKeeps ==
  ASSUME UserInv, NEW r \in Requests, RecordLogin(r)
  PROVE  UserInv'
<1>1. pc[r] = "record" /\ UNCHANGED <<op, in, gone, made, usr>>
  BY DEF RecordLogin, Local
<1>2. /\ usr[r].id \in UserIDs /\ usr[r] \in Models /\ usr[r].email \in Emails
      /\ op[r] \in {"oauth", "link"} => identity[in[r].ext] = usr[r].id
  BY <1>1, Held DEF Holding, UserInv, IdentityIsOwn
<1>3. TableInv' /\ Grows
  BY <1>2, TablesOfInv, StaticTables, UpdateUserTables DEF RecordLogin
<1>4. identity' = identity
  BY DEF RecordLogin, UpdateUser, db
<1>5. PICK s \in {"ok", "internal"} : Goto(r, s)
  BY DEF RecordLogin
<1> QED
  BY <1>1, <1>2, <1>3, <1>4, <1>5, GotoKeeps DEF Running, Failed, Holding

\* A failure.
LEMMA FailKeeps ==
  ASSUME UserInv, NEW r \in Requests, Fail(r)
  PROVE  UserInv'
<1>1. TableInv' /\ Grows
  BY TablesOfInv, StaticTables DEF Fail, ReadOnly
<1> QED
  BY <1>1, GotoKeeps DEF Fail, ReadOnly, Local, Running, Failed, Holding

\* User management, and steps in which nothing happens, move no request.
LEMMA ManagementKeeps ==
  ASSUME UserInv,
         \/ \E u \in UserIDs, e \in Emails, p \in Passwords : CreatePasswordUser(u, e, p)
         \/ \E u \in UserIDs : DeleteUser(u)
         \/ \E u \in UserIDs, p \in Passwords : ResetUserPassword(u, p)
         \/ UNCHANGED vars
  PROVE  UserInv'
<1>1. UNCHANGED <<pc, op, in, usr, gone, made>>
  BY DEF CreatePasswordUser, DeleteUser, ResetUserPassword, Idle, vars
<1>2. TableInv
  BY TablesOfInv
<1>3. TableInv' /\ Grows
  <2>1. ASSUME NEW u \in UserIDs, NEW p \in Passwords, ResetUserPassword(u, p)
        PROVE  TableInv' /\ Grows
    BY <1>2, <2>1 DEF ResetUserPassword, TableInv, TableType, EmailOnce, Rows, Grows
  <2>2. ASSUME NEW u \in UserIDs, DeleteUser(u)
        PROVE  TableInv' /\ Grows
    BY <1>2, <2>2, SoftDeleteTables DEF DeleteUser, Active
  <2> QED
    BY <1>2, <2>1, <2>2, StaticTables, InsertUserTables DEF CreatePasswordUser, vars
<1> USE DEF UserInv
<1>4. TypeOK' /\ RequestShape'
  BY <1>1, <1>3 DEF TypeOK, TableInv, TableType, RequestShape
<1>5. HeldModels' /\ DeletedRows'
  BY <1>1, <1>3 DEF HeldModels, DeletedRows, TableInv, Grows
<1>6. IdentityIsOwn'
  <2> SUFFICES ASSUME NEW x \in Requests, op[x] \in {"oauth", "link"},
                      pc[x] \in {"update", "record", "ok"}
               PROVE  identity'[in[x].ext] = usr[x].id
    BY <1>1 DEF IdentityIsOwn
  <2>1. in[x].ext \in ProviderIDs /\ usr[x].id \in UserIDs
    BY DEF RequestShape, TypeOK, Holding
  <2> QED
    BY <1>3, <2>1 DEF IdentityIsOwn, Grows
<1> QED
  BY <1>3, <1>4, <1>5, <1>6 DEF TableInv

-----------------------------------------------------------------------------

\* The inductive invariant holds in every reachable state.
THEOREM UserInvariant == Spec => []UserInv
<1>1. Init => UserInv
  BY DEF Init, UserInv, TypeOK, NoInput, NoModel, Inputs, Models, Ops, Running, Failed,
         Holding, RequestShape, HeldModels, DeletedRows, IdentityIsOwn, EmailOnce, Rows
<1>2. UserInv /\ [Next]_vars => UserInv'
  BY BeginFlowKeeps, BeginLinkKeeps, FindByEmailKeeps, CreateUserKeeps, CreateConflictKeeps,
     FindIdentityKeeps, LoadLinkedUserKeeps, UpdateEmailKeeps, CreateIdentityKeeps,
     RefetchIdentityKeeps, CompensateKeeps, RecordLoginKeeps, FailKeeps, ManagementKeeps
  DEF Next, Quiescent
<1> QED
  BY <1>1, <1>2, PTL DEF Spec

\* No race between flows, and no model that is written back late, gives an
\* address to two accounts.
THEOREM EmailsAreUnique == Spec => []EmailOnce
<1>1. UserInv => EmailOnce
  BY DEF UserInv
<1> QED
  BY <1>1, UserInvariant, PTL

\* A session obtained through an identity is that of the identity's user, however
\* many requests link or create it at the same time.
THEOREM SessionsMatchIdentities == Spec => []SessionMatchesIdentity
<1>1. UserInv => SessionMatchesIdentity
  BY DEF UserInv, IdentityIsOwn, SessionMatchesIdentity
<1> QED
  BY <1>1, UserInvariant, PTL

\* No flow gives a session to a user who was deleted before it began.
THEOREM DeletedGetNoSession == Spec => []NoLoginAfterDelete
<1>1. UserInv => NoLoginAfterDelete
  BY DEF UserInv, TypeOK, Holding, HeldModels, NoLoginAfterDelete
<1> QED
  BY <1>1, UserInvariant, PTL

\* A deleted row is written by nothing: neither by a request that read it before,
\* nor by one that creates a user or changes an address.
THEOREM DeletedRowsAreFrozen == Spec => DeletedIsFrozen
<1>1. UserInv /\ [Next]_vars =>
        [\A u \in deleted : /\ u \in deleted'
                            /\ email'[u] = email[u]
                            /\ password'[u] = password[u]]_vars
  <2> DEFINE Frozen(u) == u \in deleted' /\ email'[u] = email[u] /\ password'[u] = password[u]
  <2> SUFFICES ASSUME UserInv, [Next]_vars, NEW u \in deleted
               PROVE  Frozen(u)
    OBVIOUS
  <2>1. u \in UserIDs /\ u \in Rows /\ u \notin Active
    BY DEF UserInv, TypeOK, DeletedRows, Active
  <2>2. ASSUME UNCHANGED db
        PROVE  Frozen(u)
    BY <2>2 DEF db
  <2>3. ASSUME NEW v \in UserIDs, NEW e, NEW p, InsertUser(v, e, p)
        PROVE  Frozen(u)
    BY <2>1, <2>3 DEF InsertUser, UserInv, TypeOK
  <2>4. ASSUME NEW m \in Models, CanUpdate(m), UpdateUser(m)
        PROVE  Frozen(u)
    BY <2>1, <2>4 DEF CanUpdate, UpdateUser, UserInv, TypeOK
  <2>5. ASSUME NEW v, SoftDeleteUser(v)
        PROVE  Frozen(u)
    BY <2>5 DEF SoftDeleteUser
  <2>6. ASSUME NEW x, NEW v, InsertIdentity(x, v)
        PROVE  Frozen(u)
    BY <2>6 DEF InsertIdentity
  <2> HIDE DEF Frozen
  <2>7. ASSUME NEW r \in Requests,
               \/ \E e \in Emails, p \in Passwords :
                    BeginRegister(r, e, p) \/ BeginPasswordLogin(r, e, p)
               \/ \E e \in Emails : BeginCodeLogin(r, e)
               \/ \E e \in Emails \cup {NoEmail}, x \in ProviderIDs : BeginOAuthLogin(r, e, x)
               \/ \E v \in UserIDs, x \in ProviderIDs : BeginLink(r, v, x)
               \/ FindByEmail(r) \/ CreateConflict(r) \/ FindIdentity(r)
               \/ LoadLinkedUser(r) \/ RefetchIdentity(r) \/ Fail(r)
        PROVE  Frozen(u)
    BY <2>2, <2>7 DEF BeginRegister, BeginPasswordLogin, BeginCodeLogin, BeginOAuthLogin,
       BeginLink, Begin, FindByEmail, CreateConflict, FindIdentity, LoadLinkedUser,
       RefetchIdentity, Fail, ReadOnly
  <2>8. ASSUME NEW r \in Requests, UpdateEmail(r) \/ RecordLogin(r)
        PROVE  Frozen(u)
    <3>1. usr[r] \in Models
      BY DEF UserInv, TypeOK
    <3> QED
      BY <2>2, <2>4, <2>8, <3>1 DEF UpdateEmail, RecordLogin
  <2>9. ASSUME NEW r \in Requests,
               \/ \E v \in UserIDs : CreateUser(r, v)
               \/ MergeIdentity(r) \/ AttachIdentity(r) \/ Compensate(r)
        PROVE  Frozen(u)
    BY <2>2, <2>3, <2>5, <2>6, <2>9 DEF CreateUser, MergeIdentity, AttachIdentity, Compensate
  <2>10. ASSUME NEW v \in UserIDs,
                \/ \E e \in Emails, p \in Passwords : CreatePasswordUser(v, e, p)
                \/ DeleteUser(v)
         PROVE  Frozen(u)
    BY <2>3, <2>5, <2>10 DEF CreatePasswordUser, DeleteUser
  <2>11. ASSUME NEW v \in UserIDs, NEW p \in Passwords, ResetUserPassword(v, p)
         PROVE  Frozen(u)
    BY <2>1, <2>11 DEF ResetUserPassword, UserInv, TypeOK, Frozen
  <2> QED
    BY <2>2, <2>7, <2>8, <2>9, <2>10, <2>11 DEF Next, Quiescent, vars
<1> QED
  BY <1>1, UserInvariant, PTL DEF Spec, DeletedIsFrozen
=============================================================================
