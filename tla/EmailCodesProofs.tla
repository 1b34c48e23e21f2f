-------------------------- MODULE EmailCodesProofs --------------------------
(***************************************************************************)
(* For any addresses, codes and callers: the store holds the code issued   *)
(* last for an address until it is used or expires, and each code that was *)
(* issued lets one login in at most.                                       *)
(***************************************************************************)
EXTENDS EmailCodes, TLAPS

USE CodeAssumption

\* The types of what Redis holds and of its history.
StoreType ==
  /\ stored \in [Emails -> Codes \cup {NoCode}]
  /\ ttl \in [Emails -> 0..TTL]
  /\ newest \in [Emails -> [code : Codes \cup {NoCode},
                            fate : {"none", "issued", "used", "expired"}]]

\* The types of everything else.
CallType ==
  /\ users \in [Emails -> {"free", "active", "deleted"}]
  /\ mails \subseteq Mails
  /\ mailbox \in [Emails -> Codes \cup {NoCode}]
  /\ job \in [Callers -> Jobs]
  /\ owner \in {"ask", "wait", "in"}
  /\ strange \in 0..MaxStrange

LimitType == sendFull \subseteq LimitKeys /\ loginFull \subseteq LimitKeys

StoreInv == StoreType /\ StoreHoldsNewest

\* Preserved by every call, failure and mail; see the lemmas below.
CodeInv == TypeOK /\ StoreHoldsNewest

LEMMA Parts == CodeInv <=> StoreInv /\ CallType /\ LimitType
BY DEF CodeInv, StoreInv, TypeOK, StoreType, CallType, LimitType

LEMMA PartsNext == CodeInv' <=> StoreInv' /\ CallType' /\ LimitType'
BY DEF CodeInv, StoreInv, TypeOK, StoreType, CallType, LimitType

-----------------------------------------------------------------------------
(* The code store.                                                         *)

\* SET replaces whatever there was.
LEMMA SetInv ==
  ASSUME StoreInv, NEW e \in Emails, NEW c \in Codes, Set(e, c)
  PROVE  StoreInv'
<1>1. StoreType'
  BY DEF StoreInv, StoreType, Set
<1>2. StoreHoldsNewest'
  <2>1. TTL > 0 /\ c # NoCode
    OBVIOUS
  <2>. QED
    BY <2>1 DEF StoreInv, StoreType, StoreHoldsNewest, Set
<1>. QED
  BY <1>1, <1>2 DEF StoreInv

\* The script removes the code it has matched.
LEMMA ConsumeCodeInv ==
  ASSUME StoreInv, NEW e \in Emails, NEW c \in Codes, ConsumeCode(e, c)
  PROVE  StoreInv'
<1>1. StoreType'
  BY DEF StoreInv, StoreType, ConsumeCode, Delete
<1>2. StoreHoldsNewest'
  BY DEF StoreInv, StoreType, StoreHoldsNewest, ConsumeCode, Delete
<1>. QED
  BY <1>1, <1>2 DEF StoreInv

\* Redis drops what has expired.
LEMMA TickInv ==
  ASSUME StoreInv, Tick
  PROVE  StoreInv'
<1>1. ASSUME NEW e \in Emails
      PROVE  /\ stored'[e] \in Codes \cup {NoCode}
             /\ ttl'[e] \in 0..TTL
             /\ newest'[e] \in [code : Codes \cup {NoCode},
                                fate : {"none", "issued", "used", "expired"}]
  BY DEF StoreInv, StoreType, Tick
<1>2. StoreType'
  BY <1>1 DEF StoreType, Tick
<1>3. ASSUME NEW e \in Emails
      PROVE  /\ stored'[e] # NoCode <=> newest'[e].fate = "issued"
             /\ stored'[e] # NoCode => stored'[e] = newest'[e].code /\ ttl'[e] > 0
  BY DEF StoreInv, StoreType, StoreHoldsNewest, Tick
<1>. QED
  BY <1>2, <1>3 DEF StoreInv, StoreHoldsNewest

\* Steps that leave Redis alone.
LEMMA StoreUnchanged == StoreInv /\ UNCHANGED <<stored, ttl, newest>> => StoreInv'
BY DEF StoreInv, StoreType, StoreHoldsNewest

-----------------------------------------------------------------------------
(* The calls.                                                              *)

\* What a handler that is at work has in its hands.
LEMMA AtWork ==
  ASSUME CallType, NEW k \in Callers, job[k] # Idle
  PROVE  /\ job[k].email \in Emails /\ job[k].code \in Codes
         /\ \A s \in {"set", "send", "consume", "lookup", "create", "pair"} :
              [job EXCEPT ![k].stage = s] \in [Callers -> Jobs]
<1>1. job[k] \in [stage : {"set", "send", "consume", "lookup", "create", "pair"},
                  email : Emails, code : Codes]
  BY DEF CallType, Jobs
<1>. QED
  BY <1>1 DEF CallType, Jobs

\* A handler that does not end keeps its request, and one that ends is idle.
LEMMA StepType ==
  ASSUME CallType, NEW k \in Callers, HandlerStep(k) \/ Failure(k)
  PROVE  CallType' /\ job[k] # Idle
<1>1. job[k] # Idle
  BY DEF HandlerStep, StoreCode, SendEmail, Consume, RefuseCode, LookupUser, CreateUser,
         CreateConflicts, SendPair, Failure, StoreFails, SendFails, ConsumeFails, LoginErrs, Idle
<1>2. job[k].email \in Emails /\ job[k].code \in Codes
  BY <1>1, AtWork
<1>3. job' \in [Callers -> Jobs]
  <2>1. CASE job' = [job EXCEPT ![k] = Idle]
    BY <2>1 DEF CallType, Jobs
  <2>2. CASE \E s \in {"set", "send", "consume", "lookup", "create", "pair"} :
               job' = [job EXCEPT ![k].stage = s]
    <3>1. \A s \in {"set", "send", "consume", "lookup", "create", "pair"} :
            [job EXCEPT ![k].stage = s] \in [Callers -> Jobs]
      BY <1>1, AtWork
    <3>2. PICK s \in {"set", "send", "consume", "lookup", "create", "pair"} :
            job' = [job EXCEPT ![k].stage = s]
      BY <2>2
    <3>3. [job EXCEPT ![k].stage = s] \in [Callers -> Jobs]
      BY <3>1
    <3>. QED
      BY <3>2, <3>3
  <2>. QED
    BY <2>1, <2>2
    DEF HandlerStep, StoreCode, SendEmail, Consume, RefuseCode, LookupUser, CreateUser,
        CreateConflicts, SendPair, Failure, StoreFails, SendFails, ConsumeFails, LoginErrs,
        Goto, End, RequestFails, LoginFails
<1>4. mails' \subseteq Mails /\ users' \in [Emails -> {"free", "active", "deleted"}]
  BY <1>2
  DEF CallType, Mails, HandlerStep, StoreCode, SendEmail, Consume, RefuseCode, LookupUser,
      CreateUser, CreateConflicts, SendPair, Failure, StoreFails, SendFails, ConsumeFails, LoginErrs
<1>5. owner' \in {"ask", "wait", "in"} /\ mailbox' = mailbox /\ strange' = strange
  BY DEF CallType, HandlerStep, StoreCode, SendEmail, Consume, RefuseCode, LookupUser,
         CreateUser, CreateConflicts, SendPair, Failure, StoreFails, SendFails, ConsumeFails,
         LoginErrs, RequestFails, LoginFails
<1>. QED
  BY <1>1, <1>3, <1>4, <1>5 DEF CallType

\* The steps of handlers, failing or not.
LEMMA StepInv ==
  ASSUME CodeInv, NEW k \in Callers, HandlerStep(k) \/ Failure(k)
  PROVE  StoreInv' /\ CallType'
<1>1. StoreInv /\ CallType
  BY Parts
<1>2. CallType' /\ job[k] # Idle
  BY <1>1, StepType
<1>3. job[k].email \in Emails /\ job[k].code \in Codes
  BY <1>1, <1>2, AtWork
<1>4. \/ Set(job[k].email, job[k].code)
      \/ ConsumeCode(job[k].email, job[k].code)
      \/ UNCHANGED <<stored, ttl, newest>>
  BY DEF HandlerStep, StoreCode, SendEmail, Consume, RefuseCode, MismatchCode, LookupUser,
         CreateUser, CreateConflicts, SendPair, Failure, StoreFails, SendFails, ConsumeFails,
         LoginErrs
<1>5. StoreInv'
  BY <1>1, <1>3, <1>4, SetInv, ConsumeCodeInv, StoreUnchanged
<1>. QED
  BY <1>2, <1>5

\* What the callers, the mail and other flows do, which leaves Redis alone.
LEMMA CallerInv ==
  ASSUME CodeInv,
         \/ \E k \in Strangers : StrangerCalls(k)
         \/ \E err \in BOOLEAN : OwnerAsks(err) \/ OwnerLogsIn(err)
         \/ OwnerGivesUp \/ OwnerReturns
         \/ \E m \in mails : DeliverMail(m) \/ LoseMail(m)
         \/ \E e \in Emails : RegisterElsewhere(e) \/ DeleteUser(e)
         \/ \E x \in LimitKeys : SendWindowEnds(x) \/ LoginWindowEnds(x)
  PROVE  StoreInv' /\ CallType'
<1>1. StoreInv /\ CallType
  BY Parts
<1>2. UNCHANGED <<stored, ttl, newest>>
  BY DEF StrangerCalls, BeginRequest, BeginLogin, OwnerAsks, OwnerLogsIn, OwnerGivesUp,
         OwnerReturns, DeliverMail, LoseMail, RegisterElsewhere, DeleteUser, RefuseRequest,
         RefuseLogin, SendWindowEnds, LoginWindowEnds
<1>3. StoreInv'
  BY <1>1, <1>2, StoreUnchanged
<1>4. ASSUME NEW k \in Callers, NEW e \in Emails, NEW c \in Codes,
             NEW s \in {"set", "consume"}, Begin(k, s, e, c)
      PROVE  job' \in [Callers -> Jobs]
  BY <1>1, <1>4 DEF Begin, CallType, Jobs
<1>5. CASE \E k \in Strangers : StrangerCalls(k)
  <2>1. PICK k \in Strangers : StrangerCalls(k)
    BY <1>5
  <2>2. job' \in [Callers -> Jobs]
    <3>1. k \in Callers
      BY DEF Callers
    <3>. QED
      BY <1>1, <1>4, <2>1, <3>1
      DEF StrangerCalls, BeginRequest, BeginLogin, RefuseRequest, RefuseLogin, CallType
  <2>3. strange' \in 0..MaxStrange
    BY <1>1, <2>1 DEF StrangerCalls, CallType
  <2>4. UNCHANGED <<users, mails, mailbox, owner>>
    BY <2>1 DEF StrangerCalls, BeginRequest, BeginLogin, RefuseRequest, RefuseLogin
  <2>. QED
    BY <1>1, <1>3, <2>2, <2>3, <2>4 DEF CallType
<1>6. CASE \E err \in BOOLEAN : OwnerAsks(err) \/ OwnerLogsIn(err)
  <2>1. Owner \in Callers
    BY DEF Callers
  <2>2. job' \in [Callers -> Jobs]
    BY <1>1, <1>4, <1>6, <2>1
    DEF OwnerAsks, OwnerLogsIn, BeginRequest, BeginLogin, RefuseRequest, RefuseLogin, CallType
  <2>3. /\ mailbox' \in [Emails -> Codes \cup {NoCode}] /\ owner' \in {"ask", "wait", "in"}
        /\ UNCHANGED <<users, mails, strange>>
    BY <1>1, <1>6
    DEF OwnerAsks, OwnerLogsIn, BeginRequest, BeginLogin, RefuseRequest, RefuseLogin, CallType
  <2>. QED
    BY <1>1, <1>3, <2>2, <2>3 DEF CallType
<1>7. CASE OwnerGivesUp \/ OwnerReturns
  BY <1>1, <1>3, <1>7 DEF OwnerGivesUp, OwnerReturns, CallType
<1>8. CASE \E m \in mails : DeliverMail(m) \/ LoseMail(m)
  BY <1>1, <1>3, <1>8 DEF DeliverMail, LoseMail, CallType, Mails
<1>9. CASE \E e \in Emails : RegisterElsewhere(e) \/ DeleteUser(e)
  BY <1>1, <1>3, <1>9 DEF RegisterElsewhere, DeleteUser, CallType
<1>10. CASE \E x \in LimitKeys : SendWindowEnds(x) \/ LoginWindowEnds(x)
  BY <1>1, <1>3, <1>10 DEF SendWindowEnds, LoginWindowEnds, CallType
<1>. QED
  BY <1>5, <1>6, <1>7, <1>8, <1>9, <1>10

\* A call is counted at its address and at a client.
LEMMA CountedKeys ==
  ASSUME NEW k, NEW e \in Emails, NEW K \in RateLimitKeys(k, e)
  PROVE  K \subseteq LimitKeys
BY DEF RateLimitKeys, LimitKeys

\* What a step makes of the limiters.
LEMMA LimitsStep ==
  ASSUME CallType, LimitType, [Next]_vars
  PROVE  LimitType'
<1>1. ASSUME NEW k, NEW e \in Emails, NEW K \in RateLimitKeys(k, e), NEW S \in SUBSET LimitKeys,
             NEW T \in AfterRecord(S, K)
      PROVE  T \subseteq LimitKeys
  BY <1>1, CountedKeys DEF AfterRecord
<1>2. ASSUME NEW k \in Callers, NEW e \in Emails, NEW K \in RateLimitKeys(k, e),
             NEW err \in BOOLEAN,
             BeginRequest(k, e, K, err) \/ RefuseRequest(k, K) \/ RefuseLogin(k, K)
             \/ \E c \in Codes : BeginLogin(k, e, c, K, err)
      PROVE  LimitType'
  <2>1. CASE UNCHANGED full
    BY <2>1 DEF full, LimitType
  <2>2. CASE sendFull' \in AfterRecord(sendFull, K) /\ UNCHANGED loginFull
    BY <1>1, <2>2 DEF LimitType
  <2>. QED
    BY <1>2, <2>1, <2>2 DEF BeginRequest, BeginLogin, RefuseRequest, RefuseLogin, full
<1>3. ASSUME NEW k \in Callers, HandlerStep(k) \/ Failure(k)
      PROVE  LimitType'
  <2>1. job[k].email \in Emails
    BY <1>3, StepType, AtWork
  <2>2. CASE RecordFailure(k)
    BY <1>1, <2>1, <2>2 DEF RecordFailure, LimitType
  <2>3. CASE ResetLimiter(k)
    BY <2>3 DEF ResetLimiter, LimitType
  <2>4. CASE UNCHANGED full
    BY <2>4 DEF full, LimitType
  <2>. QED
    BY <1>3, <2>2, <2>3, <2>4
    DEF HandlerStep, StoreCode, SendEmail, Consume, RefuseCode, LookupUser, CreateUser,
        CreateConflicts, SendPair, Failure, StoreFails, SendFails, ConsumeFails, LoginErrs, full
<1>4. CASE \E k \in Strangers : StrangerCalls(k)
  BY <1>2, <1>4 DEF StrangerCalls, Callers
<1>5. CASE \E err \in BOOLEAN : OwnerAsks(err)
  BY <1>2, <1>5 DEF OwnerAsks, Callers
<1>6. ASSUME NEW err \in BOOLEAN, OwnerLogsIn(err)
      PROVE  LimitType'
  BY <1>6 DEF OwnerLogsIn, BeginLogin, RefuseLogin, full, LimitType
<1>7. CASE \E x \in LimitKeys : SendWindowEnds(x) \/ LoginWindowEnds(x)
  BY <1>7 DEF SendWindowEnds, LoginWindowEnds, LimitType
<1>8. CASE UNCHANGED full
  BY <1>8 DEF full, LimitType
<1>. QED
  BY <1>3, <1>4, <1>5, <1>6, <1>7, <1>8
  DEF Next, OwnerGivesUp, OwnerReturns, DeliverMail, LoseMail, RegisterElsewhere, DeleteUser,
      Tick, vars

-----------------------------------------------------------------------------
(* The theorems.                                                           *)

\* An empty store, nobody at work.
LEMMA InitInv == Init => CodeInv
BY DEF Init, CodeInv, TypeOK, StoreHoldsNewest, Jobs

\* No step leaves the invariant.
LEMMA NextInv == CodeInv /\ [Next]_vars => CodeInv'
<1>1. SUFFICES ASSUME CodeInv, [Next]_vars PROVE CodeInv'
  OBVIOUS
<1>2. StoreInv /\ CallType /\ LimitType'
  BY <1>1, Parts, LimitsStep
<1>3. CASE Tick
  BY <1>2, <1>3, TickInv, PartsNext DEF Tick, CallType
<1>4. CASE UNCHANGED vars
  BY <1>1, <1>4 DEF vars, full, CodeInv, TypeOK, StoreHoldsNewest
<1>. QED
  BY <1>1, <1>2, <1>3, <1>4, StepInv, CallerInv, PartsNext DEF Next

\* The inductive invariant of the code store and its callers.
THEOREM CodeInvariant == Spec => []CodeInv
BY InitInv, NextInv, PTL DEF Spec

\* Redis holds the code that RequestEmailLoginCode stored last for an address,
\* until it is used or expires, and nothing else.
THEOREM NewestIsStored == Spec => []StoreHoldsNewest
<1>1. CodeInv => StoreHoldsNewest
  BY DEF CodeInv
<1>. QED
  BY <1>1, CodeInvariant, PTL

\* LoginWithEmailCode goes on only with the code issued last, which no other
\* login has used and no later one can.
THEOREM OneLoginPerCode == Spec => CodeUsedOnce
<1>. DEFINE Once(k) == job[k].stage = "consume" /\ job'[k].stage = "lookup" =>
                       /\ newest[job[k].email] = [code |-> job[k].code, fate |-> "issued"]
                       /\ newest'[job[k].email].fate = "used"
<1>1. CodeInv /\ [Next]_vars => \A k \in Callers : Once(k)
  <2>1. SUFFICES ASSUME CodeInv, [Next]_vars, NEW k \in Callers,
                        job[k].stage = "consume", job'[k].stage = "lookup"
                 PROVE  /\ newest[job[k].email] = [code |-> job[k].code, fate |-> "issued"]
                        /\ newest'[job[k].email].fate = "used"
    OBVIOUS
  <2>2. CallType /\ StoreInv
    BY <2>1, Parts
  <2>3. Consume(k)
    <3>1. ASSUME NEW l \in Callers, HandlerStep(l) \/ Failure(l) PROVE Consume(k)
      <4>1. l = k
        BY <2>1, <2>2, <3>1
        DEF HandlerStep, StoreCode, SendEmail, Consume, RefuseCode, LookupUser, CreateUser,
            CreateConflicts, SendPair, Failure, StoreFails, SendFails, ConsumeFails, LoginErrs,
            Goto, End, RequestFails, LoginFails, CallType
      <4>. QED
        BY <2>1, <2>2, <3>1, <4>1
        DEF HandlerStep, StoreCode, SendEmail, RefuseCode, LookupUser, CreateUser,
            CreateConflicts, SendPair, Failure, StoreFails, SendFails, ConsumeFails, LoginErrs,
            Goto, End, RequestFails, LoginFails, CallType, Idle
    <3>2. ASSUME NEW l \in Callers, NEW e, NEW c, NEW s \in {"set", "consume"}, Begin(l, s, e, c)
          PROVE  FALSE
      BY <2>1, <2>2, <3>2 DEF Begin, CallType
    <3>3. job' # job
      BY <2>1
    <3>4. CASE \E l \in Strangers : StrangerCalls(l)
      BY <3>2, <3>3, <3>4
      DEF StrangerCalls, BeginRequest, BeginLogin, RefuseRequest, RefuseLogin, Callers
    <3>5. CASE \E err \in BOOLEAN : OwnerAsks(err) \/ OwnerLogsIn(err)
      BY <3>2, <3>3, <3>5
      DEF OwnerAsks, OwnerLogsIn, BeginRequest, BeginLogin, RefuseRequest, RefuseLogin, Callers
    <3>. QED
      BY <2>1, <3>1, <3>3, <3>4, <3>5
      DEF Next, OwnerGivesUp, OwnerReturns, DeliverMail, LoseMail, RegisterElsewhere, DeleteUser,
          SendWindowEnds, LoginWindowEnds, Tick, vars
  <2>4. job[k].email \in Emails /\ job[k].code \in Codes
    <3>1. job[k] # Idle
      BY <2>1 DEF Idle
    <3>. QED
      BY <2>2, <3>1, AtWork
  <2>. QED
    BY <2>2, <2>3, <2>4 DEF Consume, ConsumeCode, Delete, StoreInv, StoreType, StoreHoldsNewest
<1>2. CodeInv /\ [Next]_vars => [\A k \in Callers : Once(k)]_vars
  BY <1>1
<1>. QED
  BY <1>2, CodeInvariant, PTL DEF Spec, CodeUsedOnce
=============================================================================
