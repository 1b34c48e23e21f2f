----------------------------- MODULE Management -----------------------------
(***************************************************************************)
(* The management API as its clients meet it: calls that time out, are     *)
(* carried out late, or lose their answers.                                *)
(*                                                                         *)
(* An operator works with the command line of cmd/identra                  *)
(* (service_account_commands.go, management_commands.go): he exchanges his *)
(* account's secret for a token, rotates that secret, and walks through    *)
(* the pages of the audit events; with the same calls other clients walk   *)
(* through the users and change them.  A command is one call under a       *)
(* timeout; what it sent may still run when it has given up.               *)
(* The handlers are those of internal/identra/user_management.go, audit.go *)
(* and service_accounts.go, the tables those of internal/store/sqlite.     *)
(*                                                                         *)
(* Scopes and disabled accounts are in module ServiceAccounts, the users'  *)
(* columns in module Accounts.  Users and events are in listing order,     *)
(* newest first.  Random secrets come from a small set, and one that       *)
(* nothing refers to any more is used again.                               *)
(***************************************************************************)
EXTENDS Integers, SequencesExt

CONSTANTS Slots,       \* calls in progress at the same time
          Secrets,
          UserIDs,
          OldUsers,    \* users, newest first, when the story begins
          OldEvents,   \* number of audit events then
          MaxEvents,   \* bound: audit events
          PageSizes,   \* page sizes asked for
          DefaultPage, MaxPage,   \* 50 and 200
          Wrap,        \* 2^32, the width of the audit command's page size
          None

\* Page sizes are positive, users are listed once, and random secrets do not run
\* out: whatever secrets are live, written down or on their way, there is another.
WellFormed ==
  /\ DefaultPage \in 1..MaxPage /\ MaxPage \in Nat /\ Wrap \in Nat \ {0}
  /\ PageSizes \subseteq Nat /\ MaxEvents \in Nat /\ OldEvents \in 0..MaxEvents
  /\ OldUsers \in Seq(UserIDs)
  /\ \A i, j \in DOMAIN OldUsers : OldUsers[i] = OldUsers[j] => i = j
  /\ None \notin Slots \cup Secrets \cup Nat
  /\ \A x, y \in Secrets, f \in [Slots -> Secrets \cup {None}] :
       \E z \in Secrets : z \notin {x, y} /\ \A s \in Slots : z # f[s]
  /\ Secrets # {}

ASSUME ManagementAssumption == WellFormed

VARIABLES
  users,    \* active users
  gone,     \* users that were deleted
  events,   \* audit events, as numbers
  live,     \* the operator's account: its credential that is not revoked ...
  call,     \* call[s]: the call in slot s
  held,     \* ... the secret he has written down for it ...
  token,    \* ... and whether he has a token that has not expired
  awaits,   \* the slot of the command that is running
  mind,     \* "sure" of the secret, "unsure", or "locked" out
  walk,     \* the listing that is being walked through
  early     \* history: the last rotation was begun while another could run

tables == <<users, gone, events, live>>
operator == <<held, token, awaits, mind, walk, early>>
vars == <<tables, call, operator>>

NoCall == [op |-> "none"]
NoWalk == [kind |-> "none"]
Changes == {"create", "delete", "reset"}

\* A walk through a listing begins.  The audit command cuts the size to the
\* width of the field it travels in.
BeginWalk(kind, n) ==
  [kind |-> kind, size |-> IF kind = "events" THEN n % Wrap ELSE n, offset |-> 0, seen |-> {},
   must |-> IF kind = "users" THEN ToSet(users) ELSE ToSet(events), gone |-> gone]

\* A behaviour is about one walk, or about the operator's secret.
Init ==
  /\ users = OldUsers /\ gone = {}
  /\ events = [i \in 1..OldEvents |-> i]
  /\ held = (CHOOSE x \in Secrets : TRUE) /\ live = held
  /\ call = [s \in Slots |-> NoCall]
  /\ token = FALSE /\ awaits = None /\ mind = "sure" /\ early = FALSE
  /\ walk \in {NoWalk} \cup {BeginWalk(kind, n) : kind \in {"users", "events"},
                                                n \in PageSizes}

-----------------------------------------------------------------------------
(* Calls.                                                                  *)

Send(s, o, x) ==
  /\ call[s] = NoCall
  /\ call' = [call EXCEPT ![s] = [op |-> o, arg |-> x, stage |-> "sent",
                                  did |-> FALSE, answer |-> None, page |-> None]]
At(s, o, stage) == call[s].op = o /\ call[s].stage = stage
Goto(s, stage) == call' = [call EXCEPT ![s].stage = stage]
Did(s, stage) == call' = [call EXCEPT ![s] = [@ EXCEPT !.stage = stage, !.did = TRUE]]
Answer(s, x) == call' = [call EXCEPT ![s] = [@ EXCEPT !.stage = "answered", !.answer = x]]

\* Rotations of the operator's secret that can still run, or that he waits for.
Rotating == {s \in Slots : /\ call[s].op = "rotate" /\ call[s].arg = "own"
                           /\ call[s].stage # "answered" \/ awaits = s}

\* A random secret is unlike all the others around.
NewSecret ==
  CHOOSE x \in Secrets :
    /\ x \notin {held, live}
    /\ \A s \in Slots :
         /\ call[s].op = "rotate" => call[s].answer # x
         /\ call[s].op = "exchange" => call[s].arg # x

\* A call is cut short: its token has expired, a query fails, its deadline
\* passes or the connection breaks, whatever has been done until then; or the
\* limiter of ExchangeServiceToken refuses it, or cannot be asked, which refuses
\* it too (the counters are in module RateLimits).
CutShort(s) ==
  /\ call[s].op # "none" /\ call[s].stage # "answered"
  /\ Answer(s, "error")
  /\ UNCHANGED <<tables, operator>>

-----------------------------------------------------------------------------
(* Changes of users by other clients, while someone lists the users or the *)
(* events.  Any change will do to record an event.                         *)

BeginChange(s, o, u) ==
  /\ walk # NoWalk /\ walk.offset # None
  /\ o \in IF walk.kind = "users" THEN Changes ELSE {"reset"}
  /\ o = "create" <=> u \notin ToSet(users) \cup gone
  /\ \A t \in Slots : call[t].op = "create" => call[t].arg # u
  /\ Send(s, o, u)
  /\ UNCHANGED <<tables, operator>>

CreatePasswordUser(s) ==
  /\ At(s, "create", "sent")
  /\ \E i \in 1..(Len(users) + 1) : users' = InsertAt(users, i, call[s].arg)
  /\ Did(s, "audit")
  /\ UNCHANGED <<gone, events, live, operator>>

\* Mutant: an UPDATE that found no row counts as a success.
DeleteUser_AnyCount(s) ==
  /\ At(s, "delete", "sent")
  /\ users' = SelectSeq(users, LAMBDA u : u # call[s].arg)
  /\ gone' = gone \cup {call[s].arg}
  /\ Goto(s, "audit")
  /\ UNCHANGED <<events, live, operator>>

\* The UPDATE finds the user, or no row.
DeleteUser(s) ==
  /\ At(s, "delete", "sent")
  /\ \/ /\ \E i \in DOMAIN users : users[i] = call[s].arg /\ users' = RemoveAt(users, i)
        /\ gone' = gone \cup {call[s].arg}
        /\ Did(s, "audit")
     \/ /\ call[s].arg \notin ToSet(users)
        /\ Answer(s, "not_found")
        /\ UNCHANGED <<users, gone>>
  /\ UNCHANGED <<events, live, operator>>

\* SetPassword.
ResetUserPassword(s) ==
  /\ At(s, "reset", "sent")
  /\ IF call[s].arg \in ToSet(users) THEN Did(s, "reread") ELSE Answer(s, "not_found")
  /\ UNCHANGED <<tables, operator>>

\* The user is read again for the answer; when it is gone the answer is an
\* error, and no event is recorded, although the password was set.
RereadUser(s) ==
  /\ At(s, "reset", "reread")
  /\ IF call[s].arg \in ToSet(users) THEN Goto(s, "audit") ELSE Answer(s, "error")
  /\ UNCHANGED <<tables, operator>>

\* The event takes its place by the time that was read before the insert; a
\* failure to record it is only logged.  The model follows new events while
\* they are listed.
RecordManagementAudit(s) ==
  /\ call[s].op # "none" /\ call[s].stage = "audit"
  /\ \/ /\ walk.kind = "events" /\ Len(events) < MaxEvents
        /\ \E i \in 1..(Len(events) + 1) : events' = InsertAt(events, i, Len(events) + 1)
     \/ UNCHANGED events
  /\ Answer(s, IF call[s].op = "rotate" THEN call[s].answer ELSE "ok")
  /\ UNCHANGED <<users, gone, live, operator>>

\* Nobody waits for the answer any more.
DropAnswer(s) ==
  /\ call[s].op # "none" /\ call[s].stage = "answered" /\ awaits # s
  /\ call' = [call EXCEPT ![s] = NoCall]
  /\ UNCHANGED <<tables, operator>>

-----------------------------------------------------------------------------
(* Listings.                                                               *)

Asked(n) == IF n = 0 THEN DefaultPage ELSE n

\* LIMIT and OFFSET of the queries, which ask for a row more than the page.
ListRows(list, offset, n) == SubSeq(list, offset + 1, IF Len(list) < offset + n + 1
                                                      THEN Len(list) ELSE offset + n + 1)

\* Mutant: the next page begins after all the rows that were read.
Page_NextFromRows(list, offset, n) ==
  LET rows == ListRows(list, offset, n) IN
  [rows |-> SubSeq(rows, 1, IF Len(rows) > n THEN n ELSE Len(rows)),
   next |-> IF Len(rows) > n THEN offset + Len(rows) ELSE None]

\* A page, and the token of the next one when there is one.
Page(list, offset, n) ==
  LET rows == ListRows(list, offset, n) IN
  IF Len(rows) > n THEN [rows |-> SubSeq(rows, 1, n), next |-> offset + n]
                   ELSE [rows |-> rows, next |-> None]

AnswerPage(s, list, offset, n) ==
  IF n \notin 1..MaxPage
    THEN Answer(s, "refused")
    ELSE call' = [call EXCEPT ![s] = [@ EXCEPT !.stage = "answered", !.answer = "ok",
                                               !.page = Page(list, offset, n)]]

ListUsers(s) ==
  /\ At(s, "users", "sent")
  /\ AnswerPage(s, users, call[s].arg.offset, Asked(call[s].arg.size))
  /\ UNCHANGED <<tables, operator>>

ListAuditEvents(s) ==
  /\ At(s, "events", "sent")
  /\ AnswerPage(s, events, call[s].arg.offset, Asked(call[s].arg.size))
  /\ UNCHANGED <<tables, operator>>

\* The next page is asked for, or the same one again after a failure.
AskPage(s) ==
  /\ awaits = None /\ walk # NoWalk /\ walk.offset # None
  /\ Send(s, walk.kind, [offset |-> walk.offset, size |-> walk.size])
  /\ awaits' = s
  /\ UNCHANGED <<tables, held, token, mind, walk, early>>

PrintPage(s) ==
  /\ awaits = s /\ call[s].op \in {"users", "events"} /\ call[s].stage = "answered"
  /\ walk' = CASE call[s].answer = "error" -> walk
               [] call[s].answer = "refused" -> [walk EXCEPT !.must = {}, !.offset = None]
               [] OTHER -> [walk EXCEPT !.seen = @ \cup ToSet(call[s].page.rows),
                                        !.offset = call[s].page.next]
  /\ awaits' = None
  /\ call' = [call EXCEPT ![s] = NoCall]
  /\ UNCHANGED <<tables, held, token, mind, early>>

\* The walk is over, and the same list is walked through again.
WalkAgain ==
  /\ walk # NoWalk /\ walk.offset = None /\ \A s \in Slots : call[s] = NoCall
  /\ walk' = BeginWalk(walk.kind, walk.size)
  /\ UNCHANGED <<tables, call, held, token, awaits, mind, early>>

-----------------------------------------------------------------------------
(* The operator's secret.                                                  *)

\* identra token service.
BeginExchange(s) ==
  /\ awaits = None /\ walk = NoWalk /\ ~token /\ mind # "locked"
  /\ Send(s, "exchange", held)
  /\ awaits' = s
  /\ UNCHANGED <<tables, held, token, mind, walk, early>>

ExchangeServiceToken(s) ==
  /\ At(s, "exchange", "sent")
  /\ Answer(s, IF live = call[s].arg THEN "token" ELSE "refused")
  /\ UNCHANGED <<tables, operator>>

PrintToken(s) ==
  /\ awaits = s /\ call[s].op = "exchange" /\ call[s].stage = "answered"
  /\ token' = (call[s].answer = "token")
  /\ mind' = IF call[s].answer = "refused" THEN "locked" ELSE mind
  /\ awaits' = None
  /\ call' = [call EXCEPT ![s] = NoCall]
  /\ UNCHANGED <<tables, held, walk, early>>

ExpireToken ==
  /\ token /\ token' = FALSE
  /\ UNCHANGED <<tables, call, held, awaits, mind, walk, early>>

\* identra service-account rotate, for his own account.
BeginRotate(s) ==
  /\ awaits = None /\ token /\ walk = NoWalk
  /\ Send(s, "rotate", "own")
  /\ awaits' = s
  /\ early' = (Rotating # {})
  /\ UNCHANGED <<tables, held, token, mind, walk>>

\* Mutant: an error of the commit is ignored.
RotateServiceAccountSecret_NotCommitted(s) ==
  /\ At(s, "rotate", "sent")
  /\ UNCHANGED live
  /\ call' = [call EXCEPT ![s] = [@ EXCEPT !.stage = "audit", !.did = TRUE,
                                           !.answer = NewSecret]]
  /\ UNCHANGED <<users, gone, events, operator>>

\* The old credential is revoked and a new one stored.
RotateServiceAccountSecret(s) ==
  /\ At(s, "rotate", "sent")
  /\ live' = IF call[s].arg = "own" THEN NewSecret ELSE live
  /\ call' = [call EXCEPT ![s] = [@ EXCEPT !.stage = "audit", !.did = TRUE,
                                           !.answer = NewSecret]]
  /\ UNCHANGED <<users, gone, events, operator>>

\* Mutant: an error is printed like an answer.
PrintSecret_ErrIgnored(s) ==
  /\ awaits = s /\ call[s].op = "rotate" /\ call[s].stage = "answered"
  /\ mind' = "sure" /\ held' = call[s].answer
  /\ awaits' = None
  /\ call' = [call EXCEPT ![s] = NoCall]
  /\ UNCHANGED <<tables, token, walk, early>>

\* The answer's secret is printed and written down; on an error he cannot know
\* which secret works.
PrintSecret(s) ==
  /\ awaits = s /\ call[s].op = "rotate" /\ call[s].stage = "answered"
  /\ IF call[s].answer = "error"
       THEN mind' = "unsure" /\ UNCHANGED held
       ELSE mind' = "sure" /\ held' = call[s].answer
  /\ awaits' = None
  /\ call' = [call EXCEPT ![s] = NoCall]
  /\ UNCHANGED <<tables, token, walk, early>>

\* The timeout of the command: what was sent goes its way.
Timeout ==
  /\ awaits # None
  /\ mind' = IF call[awaits].op = "rotate" THEN "unsure" ELSE mind
  /\ awaits' = None
  /\ UNCHANGED <<tables, call, held, token, walk, early>>

\* Mutant: refused after the first bootstrap, forced or not; he tries his
\* secret again.
Bootstrap_MarkerBlocks ==
  /\ mind = "locked" /\ awaits = None
  /\ mind' = "unsure"
  /\ UNCHANGED <<tables, call, held, token, awaits, walk, early>>

\* identra bootstrap service-account --force, beside the server: another
\* account is created and its secret printed.  What still runs is about the
\* old one.
Bootstrap ==
  /\ mind = "locked" /\ awaits = None
  /\ live' = NewSecret /\ held' = NewSecret
  /\ mind' = "sure" /\ early' = FALSE /\ token' = FALSE
  /\ call' = [s \in Slots |-> IF call[s].op = "rotate" THEN [call[s] EXCEPT !.arg = "old"]
                                                       ELSE call[s]]
  /\ UNCHANGED <<users, gone, events, awaits, walk>>

-----------------------------------------------------------------------------
Handle(s) ==
  \/ CreatePasswordUser(s) \/ DeleteUser(s) \/ ResetUserPassword(s) \/ RereadUser(s)
  \/ RecordManagementAudit(s) \/ DropAnswer(s)
  \/ ListUsers(s) \/ ListAuditEvents(s)
  \/ ExchangeServiceToken(s) \/ RotateServiceAccountSecret(s)

Receive(s) == PrintPage(s) \/ PrintToken(s) \/ PrintSecret(s)

\* What the operator does until he has a secret that works.
Recover(s) ==
  \/ BeginExchange(s)
  \/ mind = "unsure" /\ BeginRotate(s)
  \/ Bootstrap

Next ==
  \/ \E s \in Slots :
       \/ Handle(s) \/ Receive(s) \/ CutShort(s) \/ Recover(s)
       \/ mind = "sure" /\ BeginRotate(s)
       \/ AskPage(s)
       \/ \E o \in Changes, u \in UserIDs : BeginChange(s, o, u)
  \/ WalkAgain \/ ExpireToken \/ Timeout

\* Handlers go on, the operator reads what his commands print and goes on until
\* his secret works; tokens expire.  Slots are a bound of the model, so that
\* he gets one however busy the other clients are.
Fairness ==
  /\ \A s \in Slots : WF_vars(Handle(s)) /\ WF_vars(Receive(s))
  /\ SF_vars(\E s \in Slots : Recover(s))
  /\ WF_vars(ExpireToken)

Spec == Init /\ [][Next]_vars /\ Fairness

-----------------------------------------------------------------------------
(* Properties.                                                             *)

Answers == Secrets \cup {None, "ok", "error", "not_found", "refused", "token"}

\* The fields of a call, by what it asks for.
IsCall(c) ==
  /\ c = [op |-> c.op, arg |-> c.arg, stage |-> c.stage,
          did |-> c.did, answer |-> c.answer, page |-> c.page]
  /\ c.op \in Changes \cup {"users", "events", "exchange", "rotate"}
  /\ c.stage \in {"sent", "reread", "audit", "answered"}
  /\ c.did \in BOOLEAN
  /\ c.answer \in Answers
  /\ c.op \in Changes => c.arg \in UserIDs
  /\ c.op = "exchange" => c.arg \in Secrets
  /\ c.op \in {"users", "events", "exchange"} => c.stage \in {"sent", "answered"}
  /\ c.op = "rotate" =>
       /\ c.arg \in {"own", "old"}
       /\ c.stage = "audit" => c.answer \in Secrets
       /\ c.stage = "answered" => c.answer \in Secrets \cup {"error"}

\* Every variable has its type.
TypeOK ==
  /\ users \in Seq(UserIDs) /\ gone \subseteq UserIDs
  /\ events \in Seq(Nat) /\ Len(events) <= MaxEvents
  /\ live \in Secrets
  /\ call = [s \in Slots |-> call[s]]
  /\ \A s \in Slots : call[s] = NoCall \/ IsCall(call[s])
  /\ held \in Secrets
  /\ token \in BOOLEAN /\ early \in BOOLEAN
  /\ awaits \in Slots \cup {None}
  /\ mind \in {"sure", "unsure", "locked"}
  /\ walk.kind \in {"none", "users", "events"}

\* What a client is told about a change of a user is so: a success was carried
\* out by this very call, and a user "not found", to a repeated call too, is
\* gone for good.
AnswersAreTrue ==
  \A s \in Slots : call[s].op \in Changes /\ call[s].stage = "answered" =>
    /\ call[s].answer = "ok" => call[s].did
    /\ call[s].answer = "not_found" => call[s].arg \notin ToSet(users)

\* An operator who begins a rotation only when none of his earlier ones can
\* still run has written down the secret that works, however many were given
\* up, lost their answers or failed before.
KnownSecretWorks ==
  mind = "sure" /\ ~early /\ Rotating = {} => live = held

\* A walk through the pages of the audit trail misses no event that was there
\* when it began, whatever is recorded, given up and asked for again meanwhile.
AuditWalkComplete ==
  walk.kind = "events" /\ walk.offset = None => walk.must \subseteq walk.seen

\* A walk through the pages of the users misses a user who is there all the
\* time only if another one is deleted meanwhile (which moves the later ones up).
UserWalkComplete ==
  walk.kind = "users" /\ walk.offset = None =>
    walk.must \subseteq walk.seen \/ gone # walk.gone

\* Both: what ListAuditEvents and ListUsers hand out page by page, for any page
\* size a client asks for, adds up to the list.
WalkComplete == AuditWalkComplete /\ UserWalkComplete

\* What goes wrong with calls.  A limiter that is full is among it: that it ends
\* is LockoutEnds of module RateLimits.
Trouble == Timeout \/ \E s \in Slots : CutShort(s)

\* No loss of answers, and no rotation that was carried out late, locks the
\* operator out for good: once the trouble is over he comes back to a secret
\* that works, again and again.
OperatorRecovers == <>[][~Trouble]_vars => []<>(live = held)

-----------------------------------------------------------------------------
(* The inductive invariant behind them (proved in ManagementProofs).       *)

\* A user is listed once, and not again when it is gone.
UserRows ==
  /\ \A i, j \in DOMAIN users : users[i] = users[j] => i = j
  /\ ToSet(users) \cap gone = {}

\* A call is about a user there is or was, or about one it is to create; it says
\* what it did and what it found.
IsTrue(c) ==
  c.op \in Changes =>
    /\ c.op # "create" => c.arg \in ToSet(users) \cup gone
    /\ c.op = "create" /\ c.stage = "sent" => c.arg \notin ToSet(users) \cup gone
    /\ c.stage \in {"reread", "audit"} => c.did
    /\ c.stage = "answered" => /\ c.answer = "ok" => c.did
                               /\ c.answer = "not_found" => c.arg \in gone

\* So does every call, and no two create the same user.
ChangeCalls ==
  /\ \A s \in Slots : IsTrue(call[s])
  /\ \A s, t \in Slots :
       call[s].op = "create" /\ call[t].op = "create" /\ call[s].arg = call[t].arg => s = t

\* While no rotation was begun too early there is one at most, the answer that is
\* waited for has the secret that works, and without such an answer to come the
\* operator who is sure has it.
RotationCalls ==
  /\ \A s \in Slots : awaits = s /\ call[s].op = "rotate" => call[s].arg = "own"
  /\ ~early =>
       /\ \A s, t \in Rotating : s = t
       /\ \A s \in Slots : awaits = s /\ call[s].op = "rotate" =>
            /\ call[s].stage = "audit" => call[s].answer = live
            /\ call[s].stage = "answered" => call[s].answer \in {live, "error"}
       /\ mind = "sure" /\ (\A s \in Slots : awaits = s => call[s].op # "rotate") =>
            Rotating = {} /\ live = held

\* The entries of the listing that come after the first n.
Rest(n) ==
  LET list == IF walk.kind = "users" THEN users ELSE events
  IN  IF n = None THEN {} ELSE {list[i] : i \in {j \in DOMAIN list : j > n}}

\* The page that is waited for has come.
PageArrived(s) ==
  /\ awaits = s /\ call[s].op \in {"users", "events"}
  /\ call[s].stage = "answered" /\ call[s].answer \notin {"error", "refused"}

\* The call that is waited for asks for the next page of the walk.
PageCalls ==
  \A s \in Slots : awaits = s /\ call[s].op \in {"users", "events"} =>
    /\ walk.kind = call[s].op
    /\ walk.offset \in Nat /\ call[s].arg.offset = walk.offset
    /\ PageArrived(s) => call[s].page.next \in Nat \cup {None}

\* What a walk has not shown yet is still to come, unless the entries have moved
\* up; the page that is waited for brings it no further than its token says.
WalkRest ==
  walk = NoWalk \/
    /\ walk = [kind |-> walk.kind, size |-> walk.size, offset |-> walk.offset,
               seen |-> walk.seen, must |-> walk.must, gone |-> walk.gone]
    /\ walk.kind \in {"users", "events"} /\ walk.offset \in Nat \cup {None}
    /\ walk.gone \subseteq gone
    /\ \/ walk.kind = "users" /\ walk.gone # gone
       \/ /\ walk.must \subseteq walk.seen \cup Rest(walk.offset)
          /\ \A s \in Slots : PageArrived(s) =>
               walk.must \subseteq walk.seen \cup ToSet(call[s].page.rows)
                                             \cup Rest(call[s].page.next)

\* The parts together, preserved by every step.
ApiInv ==
  /\ TypeOK
  /\ UserRows /\ ChangeCalls
  /\ RotationCalls
  /\ PageCalls /\ WalkRest
=============================================================================
