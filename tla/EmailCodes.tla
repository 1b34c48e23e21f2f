----------------------------- MODULE EmailCodes -----------------------------
(***************************************************************************)
(* Login by emailed code: RequestEmailLoginCode and LoginWithEmailCode     *)
(* (internal/identra/service_email_code.go), the code store in Redis       *)
(* (internal/cache/redis_email_code_store.go) and the mail on its way      *)
(* (internal/mail/smtp/mailer.go).                                         *)
(*                                                                         *)
(* One owner of an address asks for codes and logs in with the newest mail *)
(* he got; strangers ask for codes for any address and try any code.       *)
(* Codes are short random numbers, so a new one may equal an old one.      *)
(* Redis keeps one code per address, under a TTL; a call may fail before   *)
(* or after it took effect, and the client library repeats a call whose    *)
(* answer it did not get.                                                  *)
(*                                                                         *)
(* The counters of the limiters are in module RateLimits: here a counter   *)
(* is at its limit or not, and any attempt it counts may be the last one   *)
(* allowed.  The users table is in module Accounts: here an address is     *)
(* free, in use or deleted.                                                *)
(***************************************************************************)
EXTENDS Naturals

CONSTANTS Emails, Codes, NoCode,
          Home,         \* the owner's address
          Strangers,    \* other callers
          Clients,      \* what a caller may name as its client address
          HomeClient,   \* the owner's
          TTL,          \* life of a stored code (ten minutes)
          MaxStrange    \* bound: calls by strangers

ASSUME CodeAssumption ==
  /\ Home \in Emails /\ HomeClient \in Clients /\ NoCode \notin Codes
  /\ TTL \in Nat \ {0} /\ MaxStrange \in Nat

Owner == "owner"
Callers == Strangers \cup {Owner}
LimitKeys == Emails \cup Clients

VARIABLES
  stored,   \* stored[e]: the code Redis has for e
  ttl,      \* ttl[e]: what is left of its life
  users,    \* users[e]: "free", "active" or "deleted"
  mails,    \* mails on their way
  mailbox,  \* mailbox[e]: the code of the newest mail that arrived
  job,      \* job[k]: caller k's request and where its handler is
  owner,    \* what the owner is about: "ask", "wait" or "in"
  strange,  \* calls made by strangers
  sendFull, \* keys whose counter of sent codes is at its limit
  loginFull, \* keys whose counter of failed logins is at its limit
  newest    \* history: newest[e]: the code stored last for e and its fate

full == <<sendFull, loginFull>>
vars == <<stored, ttl, users, mails, mailbox, job, owner, strange, full, newest>>

Idle == [stage |-> "idle"]
Jobs == {Idle} \cup [stage : {"set", "send", "consume", "lookup", "create", "pair"},
                     email : Emails, code : Codes]
Mails == [to : Emails, code : Codes]

Init ==
  /\ stored = [e \in Emails |-> NoCode]
  /\ ttl = [e \in Emails |-> 0]
  /\ users \in [Emails -> {"free", "active", "deleted"}]
  /\ mails = {}
  /\ mailbox = [e \in Emails |-> NoCode]
  /\ job = [k \in Callers |-> Idle]
  /\ owner = "ask"
  /\ strange = 0
  /\ sendFull = {} /\ loginFull = {}
  /\ newest = [e \in Emails |-> [code |-> NoCode, fate |-> "none"]]

Begin(k, s, e, c) == job' = [job EXCEPT ![k] = [stage |-> s, email |-> e, code |-> c]]
Goto(k, s) == job' = [job EXCEPT ![k].stage = s]
End(k) == job' = [job EXCEPT ![k] = Idle]

\* A request fails: the owner asks again.  A login fails: he looks for a later
\* mail first.
RequestFails(k) == End(k) /\ owner' = IF k = Owner THEN "ask" ELSE owner
LoginFails(k) == End(k) /\ UNCHANGED owner

-----------------------------------------------------------------------------
(* The code store.                                                         *)

\* Mutant: SET NX.
Set_IfAbsent(e, c) ==
  IF stored[e] = NoCode
    THEN /\ stored' = [stored EXCEPT ![e] = c]
         /\ ttl' = [ttl EXCEPT ![e] = TTL]
         /\ newest' = [newest EXCEPT ![e] = [code |-> c, fate |-> "issued"]]
    ELSE UNCHANGED <<stored, ttl>>
         /\ newest' = [newest EXCEPT ![e] = [code |-> c, fate |-> "issued"]]

\* SET with the TTL: the new code replaces the one before.
Set(e, c) ==
  /\ stored' = [stored EXCEPT ![e] = c]
  /\ ttl' = [ttl EXCEPT ![e] = TTL]
  /\ newest' = [newest EXCEPT ![e] = [code |-> c, fate |-> "issued"]]

Delete(e, fate) ==
  /\ stored' = [stored EXCEPT ![e] = NoCode]
  /\ ttl' = [ttl EXCEPT ![e] = 0]
  /\ newest' = [newest EXCEPT ![e].fate = fate]

\* Mutant: the code stays.
ConsumeCode_NoDelete(e, c) ==
  /\ stored[e] = c
  /\ newest' = [newest EXCEPT ![e].fate = "used"]
  /\ UNCHANGED <<stored, ttl>>

\* The script of Consume: the code matches and is removed in one step.
ConsumeCode(e, c) == stored[e] = c /\ Delete(e, "used")

\* ... or it does not, and nothing changes.
MismatchCode(e, c) == stored[e] # c /\ UNCHANGED <<stored, ttl, newest>>

\* Time passes; Redis drops what has no life left.
Tick ==
  /\ \E e \in Emails : ttl[e] > 0
  /\ ttl' = [e \in Emails |-> IF ttl[e] = 0 THEN 0 ELSE ttl[e] - 1]
  /\ stored' = [e \in Emails |-> IF ttl[e] = 1 THEN NoCode ELSE stored[e]]
  /\ newest' = [e \in Emails |-> IF ttl[e] = 1 /\ newest[e].fate = "issued"
                                   THEN [newest[e] EXCEPT !.fate = "expired"]
                                   ELSE newest[e]]
  /\ UNCHANGED <<users, mails, mailbox, job, owner, strange, full>>

-----------------------------------------------------------------------------
(* The limiters.                                                           *)

\* The sets of keys a call of k for e may be counted at: the address, and the
\* client if the call names one (strangers name any).
RateLimitKeys(k, e) ==
  IF k = Owner THEN {{e, HomeClient}} ELSE {{e}} \cup {{e, c} : c \in Clients}

\* What recording an attempt at K may make of a limiter: it is the last one
\* allowed at some of the keys.  A failure to record is only logged.
AfterRecord(limiter, K) == {limiter \cup S : S \in SUBSET K}

\* A window has passed and Redis drops the counter.
SendWindowEnds(x) ==
  /\ x \in sendFull
  /\ sendFull' = sendFull \ {x}
  /\ UNCHANGED <<stored, ttl, users, mails, mailbox, job, owner, strange, loginFull, newest>>

LoginWindowEnds(x) ==
  /\ x \in loginFull
  /\ loginFull' = loginFull \ {x}
  /\ UNCHANGED <<stored, ttl, users, mails, mailbox, job, owner, strange, sendFull, newest>>

-----------------------------------------------------------------------------
(* RequestEmailLoginCode.                                                  *)

\* The limiter lets the request pass and counts it, or it fails (err), which
\* lets the request pass uncounted; a code is generated.
BeginRequest(k, e, K, err) ==
  /\ job[k] = Idle
  /\ err \/ K \cap sendFull = {}
  /\ sendFull' \in IF err THEN {sendFull} ELSE AfterRecord(sendFull, K)
  /\ \E c \in Codes : Begin(k, "set", e, c)
  /\ UNCHANGED <<stored, ttl, users, mails, mailbox, loginFull, newest>>

\* ResourceExhausted: nothing is counted, stored or sent.
RefuseRequest(k, K) ==
  /\ job[k] = Idle
  /\ K \cap sendFull # {}
  /\ UNCHANGED <<stored, ttl, users, mails, mailbox, job, full, newest>>

\* The code is stored.
StoreCode(k) ==
  /\ job[k].stage = "set"
  /\ Set(job[k].email, job[k].code)
  /\ Goto(k, "send")
  /\ UNCHANGED <<users, mails, mailbox, owner, strange, full>>

\* Redis fails, or only its answer is lost: no mail is sent.
StoreFails(k) ==
  /\ job[k].stage = "set"
  /\ Set(job[k].email, job[k].code) \/ UNCHANGED <<stored, ttl, newest>>
  /\ RequestFails(k)
  /\ UNCHANGED <<users, mails, mailbox, strange, full>>

\* The SMTP server has taken the mail, and the caller is told so.
SendEmail(k) ==
  /\ job[k].stage = "send"
  /\ mails' = mails \cup {[to |-> job[k].email, code |-> job[k].code]}
  /\ End(k)
  /\ owner' = IF k = Owner THEN "wait" ELSE owner
  /\ UNCHANGED <<stored, ttl, users, mailbox, strange, newest, full>>

\* A command fails: before the mail was taken, or QUIT after it.  The code
\* stays in the store.
SendFails(k) ==
  /\ job[k].stage = "send"
  /\ \/ mails' = mails \cup {[to |-> job[k].email, code |-> job[k].code]}
     \/ UNCHANGED mails
  /\ RequestFails(k)
  /\ UNCHANGED <<stored, ttl, users, mailbox, strange, newest, full>>

\* Mails arrive in any order, or get lost.
DeliverMail(m) ==
  /\ m \in mails
  /\ mails' = mails \ {m}
  /\ mailbox' = [mailbox EXCEPT ![m.to] = m.code]
  /\ UNCHANGED <<stored, ttl, users, job, owner, strange, newest, full>>

LoseMail(m) ==
  /\ m \in mails
  /\ mails' = mails \ {m}
  /\ UNCHANGED <<stored, ttl, users, mailbox, job, owner, strange, newest, full>>

-----------------------------------------------------------------------------
(* LoginWithEmailCode.                                                     *)

\* The limiter lets the login pass, or it fails and so does.
BeginLogin(k, e, c, K, err) ==
  /\ job[k] = Idle
  /\ err \/ K \cap loginFull = {}
  /\ Begin(k, "consume", e, c)
  /\ UNCHANGED <<stored, ttl, users, mails, full, newest>>

\* ResourceExhausted: the code stays in the store.
RefuseLogin(k, K) ==
  /\ job[k] = Idle
  /\ K \cap loginFull # {}
  /\ UNCHANGED <<stored, ttl, users, mails, job, full, newest>>

\* k's code was wrong: the failure is counted.
RecordFailure(k) ==
  /\ \E K \in RateLimitKeys(k, job[k].email) : loginFull' \in AfterRecord(loginFull, K)
  /\ UNCHANGED sendFull

\* The right code clears the counter of the address, or Redis fails to.
ResetLimiter(k) ==
  /\ loginFull' = loginFull \ {job[k].email} \/ UNCHANGED loginFull
  /\ UNCHANGED sendFull

\* Consume answers true.
Consume(k) ==
  /\ job[k].stage = "consume"
  /\ ConsumeCode(job[k].email, job[k].code)
  /\ Goto(k, "lookup")
  /\ UNCHANGED <<users, mails, mailbox, owner, strange, full>>

\* Consume answers false: another code is stored, or none.
RefuseCode(k) ==
  /\ job[k].stage = "consume"
  /\ MismatchCode(job[k].email, job[k].code)
  /\ RecordFailure(k)
  /\ LoginFails(k)
  /\ UNCHANGED <<users, mails, mailbox, strange>>

\* Consume of the right code fails: before it ran, or after it ran, which is
\* reported as an error, or as a wrong code by a repeated call that finds none.
ConsumeFails(k) ==
  /\ job[k].stage = "consume"
  /\ stored[job[k].email] = job[k].code
  /\ \/ UNCHANGED <<stored, ttl, newest, full>>
     \/ ConsumeCode(job[k].email, job[k].code) /\ (RecordFailure(k) \/ UNCHANGED full)
  /\ LoginFails(k)
  /\ UNCHANGED <<users, mails, mailbox, strange>>

\* Mutant: nobody is registered.
LookupUser_NotFoundFails(k) ==
  /\ job[k].stage = "lookup"
  /\ IF users[job[k].email] = "active"
       THEN Goto(k, "pair") /\ UNCHANGED owner ELSE RequestFails(k)
  /\ UNCHANGED <<stored, ttl, users, mails, mailbox, strange, newest, full>>

\* GetByEmail sees active users only.
LookupUser(k) ==
  /\ job[k].stage = "lookup"
  /\ Goto(k, IF users[job[k].email] = "active" THEN "pair" ELSE "create")
  /\ UNCHANGED <<stored, ttl, users, mails, mailbox, owner, strange, newest, full>>

\* Create: the address must not be in use, by a deleted user neither.
CreateUser(k) ==
  /\ job[k].stage = "create"
  /\ users[job[k].email] = "free"
  /\ users' = [users EXCEPT ![job[k].email] = "active"]
  /\ Goto(k, "pair")
  /\ UNCHANGED <<stored, ttl, mails, mailbox, owner, strange, newest, full>>

\* The database fails the lookup or Create, or no pair can be signed: the
\* code is gone all the same.
LoginErrs(k) ==
  /\ job[k].stage \in {"lookup", "create", "pair"}
  /\ job[k].stage = "create" => users[job[k].email] = "free"
  /\ IF job[k].stage = "pair" THEN ResetLimiter(k) ELSE UNCHANGED full
  /\ LoginFails(k)
  /\ UNCHANGED <<stored, ttl, users, mails, mailbox, strange, newest>>

\* Create reports that the address is taken.
CreateConflicts(k) ==
  /\ job[k].stage = "create"
  /\ users[job[k].email] # "free"
  /\ LoginFails(k)
  /\ UNCHANGED <<stored, ttl, users, mails, mailbox, strange, newest, full>>

\* The limiter is reset, the login recorded (both best effort), the pair sent.
SendPair(k) ==
  /\ job[k].stage = "pair"
  /\ ResetLimiter(k)
  /\ End(k)
  /\ owner' = IF k = Owner THEN "in" ELSE owner
  /\ UNCHANGED <<stored, ttl, users, mails, mailbox, strange, newest>>

-----------------------------------------------------------------------------
(* The callers.                                                            *)

\* The owner asks for a code; refused, he will ask again.
OwnerAsks(err) ==
  /\ owner = "ask"
  /\ \E K \in RateLimitKeys(Owner, Home) :
       BeginRequest(Owner, Home, K, err) \/ RefuseRequest(Owner, K)
  /\ UNCHANGED <<owner, strange>>

\* A mail has come: the owner logs in with its code; refused, he starts again.
OwnerLogsIn(err) ==
  /\ owner = "wait"
  /\ mailbox[Home] # NoCode
  /\ \E K \in RateLimitKeys(Owner, Home) :
       \/ BeginLogin(Owner, Home, mailbox[Home], K, err) /\ UNCHANGED owner
       \/ RefuseLogin(Owner, K) /\ owner' = "ask"
  /\ mailbox' = [mailbox EXCEPT ![Home] = NoCode]
  /\ UNCHANGED strange

\* None is coming: he asks again.
OwnerGivesUp ==
  /\ owner = "wait" /\ job[Owner] = Idle
  /\ mailbox[Home] = NoCode /\ \A m \in mails : m.to # Home
  /\ owner' = "ask"
  /\ UNCHANGED <<stored, ttl, users, mails, mailbox, job, strange, newest, full>>

\* His session has ended: he wants another one.
OwnerReturns ==
  /\ owner = "in"
  /\ owner' = "ask"
  /\ UNCHANGED <<stored, ttl, users, mails, mailbox, job, strange, newest, full>>

StrangerCalls(k) ==
  /\ strange < MaxStrange
  /\ strange' = strange + 1
  /\ \E e \in Emails, err \in BOOLEAN : \E K \in RateLimitKeys(k, e) :
       \/ BeginRequest(k, e, K, err)
       \/ RefuseRequest(k, K)
       \/ \E c \in Codes : BeginLogin(k, e, c, K, err) /\ UNCHANGED mailbox
       \/ RefuseLogin(k, K) /\ UNCHANGED mailbox
  /\ UNCHANGED owner

\* Another flow registers the address (module Accounts) ...
RegisterElsewhere(e) ==
  /\ users[e] = "free"
  /\ users' = [users EXCEPT ![e] = "active"]
  /\ UNCHANGED <<stored, ttl, mails, mailbox, job, owner, strange, newest, full>>

\* ... or a manager deletes its user.
DeleteUser(e) ==
  /\ users[e] = "active"
  /\ users' = [users EXCEPT ![e] = "deleted"]
  /\ UNCHANGED <<stored, ttl, mails, mailbox, job, owner, strange, newest, full>>

-----------------------------------------------------------------------------
HandlerStep(k) ==
  \/ StoreCode(k) \/ SendEmail(k) \/ Consume(k) \/ RefuseCode(k)
  \/ LookupUser(k) \/ CreateUser(k) \/ CreateConflicts(k) \/ SendPair(k)

Failure(k) == StoreFails(k) \/ SendFails(k) \/ ConsumeFails(k) \/ LoginErrs(k)

Next ==
  \/ \E k \in Callers : HandlerStep(k) \/ Failure(k)
  \/ \E k \in Strangers : StrangerCalls(k)
  \/ \E err \in BOOLEAN : OwnerAsks(err) \/ OwnerLogsIn(err)
  \/ OwnerGivesUp \/ OwnerReturns
  \/ \E m \in mails : DeliverMail(m) \/ LoseMail(m)
  \/ \E e \in Emails : RegisterElsewhere(e) \/ DeleteUser(e)
  \/ \E x \in LimitKeys : SendWindowEnds(x) \/ LoginWindowEnds(x)
  \/ Tick

\* The owner does not stop trying, every mail gets somewhere, every window ends,
\* and every handler goes on, but for the conversation with the SMTP server:
\* smtp.Dial has no deadline, so that one may wait for ever.  Nothing makes a
\* limiter fail.
Fairness ==
  /\ WF_vars(OwnerAsks(FALSE)) /\ WF_vars(OwnerLogsIn(FALSE)) /\ WF_vars(OwnerGivesUp)
  /\ \A k \in Callers : WF_vars(job[k].stage # "send" /\ (HandlerStep(k) \/ Failure(k)))
  /\ WF_vars(\E m \in mails : DeliverMail(m) \/ LoseMail(m))
  /\ \A x \in LimitKeys : WF_vars(SendWindowEnds(x)) /\ WF_vars(LoginWindowEnds(x))

Spec == Init /\ [][Next]_vars /\ Fairness

-----------------------------------------------------------------------------
(* Properties.                                                             *)

\* Every variable has its type.
TypeOK ==
  /\ stored \in [Emails -> Codes \cup {NoCode}]
  /\ ttl \in [Emails -> 0..TTL]
  /\ users \in [Emails -> {"free", "active", "deleted"}]
  /\ mails \subseteq Mails
  /\ mailbox \in [Emails -> Codes \cup {NoCode}]
  /\ job \in [Callers -> Jobs]
  /\ owner \in {"ask", "wait", "in"}
  /\ strange \in 0..MaxStrange
  /\ sendFull \subseteq LimitKeys /\ loginFull \subseteq LimitKeys
  /\ newest \in [Emails -> [code : Codes \cup {NoCode},
                            fate : {"none", "issued", "used", "expired"}]]

\* The store holds the code issued last for each address, for as long as it is
\* neither used nor expired, and nothing else: no wrong guess, failed call,
\* other address or earlier code takes its place.
StoreHoldsNewest ==
  \A e \in Emails :
    /\ stored[e] # NoCode <=> newest[e].fate = "issued"
    /\ stored[e] # NoCode => stored[e] = newest[e].code /\ ttl[e] > 0

\* A login is let in by the code issued last for its address, before it
\* expires, and by no code that has let another login in.
CodeUsedOnce ==
  [][\A k \in Callers : job[k].stage = "consume" /\ job'[k].stage = "lookup" =>
       /\ newest[job[k].email] = [code |-> job[k].code, fate |-> "issued"]
       /\ newest'[job[k].email].fate = "used"]_vars

\* What a retry cannot help against while it lasts: calls that fail, mails
\* that get lost, codes that expire while the owner is waiting for them.
Trouble ==
  \/ Tick /\ (owner = "wait" \/ job[Owner] # Idle)
  \/ \E k \in Callers : Failure(k)
  \/ \E m \in mails : LoseMail(m)

\* However many codes were lost on their way (failed calls, lost and late
\* mails, strangers' requests, an account created meanwhile), nothing that is
\* left behind in the store, on the way or in the limiters' counters (by
\* strangers' requests and wrong codes too) keeps the owner out, nor does a
\* stranger's request that hangs in the SMTP server: once the trouble is over
\* he gets in, unless the address belongs to a deleted user or his own
\* requests hang.
OwnerGetsIn ==
  <>[][~Trouble]_vars /\ []<>(job[Owner].stage # "send") =>
    (owner = "ask" ~> (owner = "in" \/ users[Home] = "deleted"))
=============================================================================
