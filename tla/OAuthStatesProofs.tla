-------------------------- MODULE OAuthStatesProofs --------------------------
(* Proofs about OAuthStates, for any numbers of states and requests.       *)
EXTENDS OAuthStates, TLAPS

\* A deadline is a natural number.
LEMMA SumIsNatural == \A i, j \in Nat : i + j \in Nat
OBVIOUS

\* OAuthInv holds initially: no state was added.
LEMMA InitEstablishes == Init => OAuthInv
BY TTLAssumption, NilAssumption
   DEF Init, OAuthInv, TypeOK, StateUsedOnce, StoredWasAdded, UsedIsGone, Progress,
       FreshInRedis, Used, Open

\* Adding a state that has never been used, to what a cleanup has left.
LEMMA PutPreserves ==
  ASSUME OAuthInv, NEW s \in States, NEW d \in Details, NEW S \in SUBSET States,
         NEW r \in Requests, pc[r] = "idle",
         now' \in {now, now + 1}, store = "redis" => now' = now,
         Put(s, d, Without(S)),
         known' \in SUBSET States,
         pc' \in {[pc EXCEPT ![r] = "ok"], [pc EXCEPT ![r] = "failed"]},
         UNCHANGED <<store, st, det, restarts>>
  PROVE  OAuthInv'
<1> USE TTLAssumption, NilAssumption
<1>1. TypeOK'
  <2>1. values' \in [States -> Details \cup {NoDetails}]
    BY DEF OAuthInv, TypeOK, Put, Without
  <2>2. \A q \in Requests : pc'[q] = "exchange" => st'[q] \in States /\ det'[q] = issued'[st'[q]]
    BY DEF OAuthInv, TypeOK, Put, Progress, Used
  <2>3. now' \in Nat /\ now' + TTL \in Nat
    <3>1. now \in Nat /\ TTL \in Nat
      BY DEF OAuthInv, TypeOK
    <3>2. now' \in Nat
      BY <3>1
    <3> QED BY <3>1, <3>2, SumIsNatural
  <2>4. expiresAt' \in [States -> Nat]
    BY <2>3 DEF OAuthInv, TypeOK, Put
  <2>5. /\ pc' \in [Requests -> {"idle", "exchange", "ok", "failed"}]
        /\ issued' \in [States -> Details \cup {NoDetails}]
    BY DEF OAuthInv, TypeOK, Put
  <2> QED BY <2>1, <2>2, <2>3, <2>4, <2>5 DEF OAuthInv, TypeOK
<1>2. StateUsedOnce'
  BY DEF OAuthInv, StateUsedOnce, Used
<1>3. StoredWasAdded'
  BY DEF OAuthInv, TypeOK, StoredWasAdded, Put, Without
<1>4. UsedIsGone'
  BY DEF OAuthInv, TypeOK, UsedIsGone, Used, Put, Without, Open
<1>5. Progress'
  BY DEF OAuthInv, TypeOK, Progress, Used
<1>6. FreshInRedis'
  BY DEF OAuthInv, TypeOK, FreshInRedis, Put, Without, Open
<1> QED BY <1>1, <1>2, <1>3, <1>4, <1>5, <1>6 DEF OAuthInv

\* A request presents a state and gets its details, or does not.
LEMMA PresentPreserves ==
  ASSUME OAuthInv, NEW s \in States, NEW S \in SUBSET States, NEW r \in Requests,
         Present(r, s),
         now' \in {now, now + 1}, store = "redis" => now' = now,
         values' = Without(S),
         \/ values[s] # NoDetails /\ s \in S /\ Accept(r, s)
         \/ Refuse(r)
  PROVE  OAuthInv'
<1> USE TTLAssumption, NilAssumption
<1>1. values' \in [States -> Details \cup {NoDetails}]
  BY DEF OAuthInv, TypeOK, Without
<1>2. UsedIsGone'
  <2> SUFFICES ASSUME NEW q \in Requests, Used(q)'
               PROVE  st'[q] \in States /\ det'[q] = issued'[st'[q]] /\ st'[q] \notin Open'
    BY DEF UsedIsGone, Used
  <2>1. CASE q = r
    BY <2>1 DEF OAuthInv, TypeOK, StoredWasAdded, Progress, Used, Present, Accept, Refuse,
                Without, Open
  <2>2. CASE q # r
    BY <2>2 DEF OAuthInv, TypeOK, UsedIsGone, Used, Present, Accept, Refuse, Without, Open
  <2> QED BY <2>1, <2>2
<1>3. Progress'
  BY DEF OAuthInv, TypeOK, Progress, Used, Present, Accept, Refuse, Finish
<1>4. TypeOK'
  <2>1. \A q \in Requests : pc'[q] = "exchange" => st'[q] \in States /\ det'[q] = issued'[st'[q]]
    BY <1>2, <1>3 DEF UsedIsGone, Progress, Used
  <2>2. /\ pc' \in [Requests -> {"idle", "exchange", "ok", "failed"}]
        /\ det' \in [Requests -> Details \cup {NoDetails}]
    BY DEF OAuthInv, TypeOK, Accept, Refuse, Finish
  <2>3. now' \in Nat /\ st' \in [Requests -> States \cup {NoState}]
    BY DEF OAuthInv, TypeOK, Present
  <2> QED BY <1>1, <2>1, <2>2, <2>3 DEF OAuthInv, TypeOK, Present
<1>5. StateUsedOnce'
  BY DEF OAuthInv, TypeOK, StateUsedOnce, UsedIsGone, Used, Progress, Present, Accept,
         Refuse, Open
<1>6. StoredWasAdded'
  BY DEF OAuthInv, StoredWasAdded, Present, Without
<1>7. FreshInRedis'
  BY DEF OAuthInv, TypeOK, FreshInRedis, Present, Without, Open
<1> QED BY <1>2, <1>3, <1>4, <1>5, <1>6, <1>7 DEF OAuthInv

\* Entries disappear, requests fail or end, and time passes.
LEMMA LossPreserves ==
  ASSUME OAuthInv, NEW S \in SUBSET States,
         values' = Without(S),
         now' \in {now, now + 1},
         store = "redis" /\ now' # now => S = {s \in States : expiresAt[s] <= now + 1},
         pc' \in [Requests -> {"idle", "exchange", "ok", "failed"}],
         \A r \in Requests : pc'[r] \in {"idle", "exchange"} => pc'[r] = pc[r],
         restarts' \in {0, 1},
         UNCHANGED <<store, expiresAt, issued, known, st, det>>
  PROVE  OAuthInv'
<1> USE TTLAssumption, NilAssumption
<1>1. TypeOK'
  BY DEF OAuthInv, TypeOK, Without
<1>2. StateUsedOnce'
  BY DEF OAuthInv, StateUsedOnce, Used
<1>3. StoredWasAdded' /\ UsedIsGone'
  BY DEF OAuthInv, StoredWasAdded, UsedIsGone, Used, Without, Open
<1>4. Progress'
  BY DEF OAuthInv, Progress, Used
<1>5. FreshInRedis'
  BY DEF OAuthInv, TypeOK, FreshInRedis, Without, Open
<1> QED BY <1>1, <1>2, <1>3, <1>4, <1>5 DEF OAuthInv

-----------------------------------------------------------------------------

\* Removing nothing, and removing one state after a cleanup.
LEMMA WithoutFacts ==
  ASSUME OAuthInv
  PROVE  /\ Without({}) = values
         /\ \A s \in States, S \in SUBSET States :
              [Without(S) EXCEPT ![s] = NoDetails] = Without(S \cup {s})
BY DEF OAuthInv, TypeOK, Without

\* Every step preserves the invariant.
LEMMA NextPreserves ==
  ASSUME OAuthInv, [Next]_vars
  PROVE  OAuthInv'
<1> USE NilAssumption
<1> DEFINE Expired == {s \in States : After(s)}
<1>0. Expired \in SUBSET States /\ CleanupLocked = Without(Expired)
  BY DEF CleanupLocked
<1>1. ASSUME NEW r \in Requests, NEW s \in States, NEW d \in Details, AddInMemory(r, s, d)
      PROVE  OAuthInv'
  <2>1. /\ pc[r] = "idle" /\ store = "memory"
        /\ now' \in {now, now + 1}
        /\ Put(s, d, Without(Expired))
        /\ known' \in SUBSET States
        /\ pc' = [pc EXCEPT ![r] = "ok"]
        /\ UNCHANGED <<store, st, det, restarts>>
    BY <1>0, <1>1 DEF AddInMemory, ReadClockAgain, Finish, OAuthInv, TypeOK
  <2> QED BY <2>1, <1>0, PutPreserves
<1>2. ASSUME NEW r \in Requests, NEW s \in States, NEW d \in Details, AddInRedis(r, s, d)
      PROVE  OAuthInv'
  <2>1. /\ pc[r] = "idle"
        /\ now' = now
        /\ Put(s, d, Without({}))
        /\ known' \in SUBSET States
        /\ pc' = [pc EXCEPT ![r] = "ok"]
        /\ UNCHANGED <<store, st, det, restarts>>
    BY <1>2, WithoutFacts DEF AddInRedis, Finish, OAuthInv, TypeOK
  <2> QED BY <2>1, PutPreserves
<1>3. ASSUME NEW r \in Requests, NEW s \in States, NEW d \in Details, AddError(r, s, d)
      PROVE  OAuthInv'
  <2>1. /\ pc[r] = "idle"
        /\ now' = now
        /\ known' \in SUBSET States
        /\ pc' = [pc EXCEPT ![r] = "failed"]
        /\ UNCHANGED <<store, known, st, det, restarts>>
    BY <1>3 DEF AddError, Finish, OAuthInv, TypeOK
  <2>2. CASE Put(s, d, values)
    <3>1. Put(s, d, Without({}))
      BY <2>2, WithoutFacts
    <3> QED BY <2>1, <3>1, PutPreserves
  <2>3. CASE UNCHANGED inStore
    <3>1. values' = Without({}) /\ UNCHANGED <<expiresAt, issued>>
      BY <2>3, WithoutFacts DEF inStore
    <3>2. /\ pc' \in [Requests -> {"idle", "exchange", "ok", "failed"}]
          /\ \A q \in Requests : pc'[q] \in {"idle", "exchange"} => pc'[q] = pc[q]
          /\ restarts' \in {0, 1}
      BY <2>1 DEF OAuthInv, TypeOK
    <3> QED BY <2>1, <3>1, <3>2, LossPreserves
  <2> QED BY <2>2, <2>3, <1>3 DEF AddError
<1>4. ASSUME NEW r \in Requests, NEW s \in States, ConsumeInMemory(r, s)
      PROVE  OAuthInv'
  <2>1. /\ Present(r, s) /\ store = "memory"
        /\ now' \in {now, now + 1}
        /\ values' = Without(Expired \cup {s})
    BY <1>0, <1>4, WithoutFacts DEF ConsumeInMemory, ReadClockAgain
  <2>2. CleanupLocked[s] # NoDetails => values[s] # NoDetails
    BY <1>0 DEF Without
  <2>3. (values[s] # NoDetails /\ Accept(r, s)) \/ Refuse(r)
    BY <1>4, <2>2 DEF ConsumeInMemory
  <2> QED BY <1>0, <2>1, <2>3, PresentPreserves
<1>5. ASSUME NEW r \in Requests, NEW s \in States, ConsumeInRedis(r, s)
      PROVE  OAuthInv'
  <2>1. Present(r, s) /\ now' = now /\ values' = Without({s})
    BY <1>5 DEF ConsumeInRedis
  <2>2. (values[s] # NoDetails /\ Accept(r, s)) \/ Refuse(r)
    BY <1>5 DEF ConsumeInRedis
  <2> QED BY <2>1, <2>2, PresentPreserves
<1>6. ASSUME NEW r \in Requests, NEW s \in States, ConsumeError(r, s)
      PROVE  OAuthInv'
  <2>1. Present(r, s) /\ now' = now /\ Refuse(r)
    BY <1>6 DEF ConsumeError
  <2>2. values' = Without({}) \/ values' = Without({s})
    BY <1>6, WithoutFacts DEF ConsumeError
  <2> QED BY <2>1, <2>2, PresentPreserves
<1>7. ASSUME NEW r \in Requests, Exchange(r)
      PROVE  OAuthInv'
  <2>1. /\ values' = Without({}) /\ now' = now
        /\ UNCHANGED <<store, expiresAt, issued, known, st, det>>
    BY <1>7, WithoutFacts DEF Exchange, inStore
  <2>2. /\ pc' \in [Requests -> {"idle", "exchange", "ok", "failed"}]
        /\ \A q \in Requests : pc'[q] \in {"idle", "exchange"} => pc'[q] = pc[q]
        /\ restarts' \in {0, 1}
    BY <1>7 DEF Exchange, Finish, OAuthInv, TypeOK
  <2> QED BY <2>1, <2>2, LossPreserves
<1>8. CASE Restart
  <2>1. /\ values' = Without({}) \/ values' = Without(States)
        /\ now' = now
        /\ UNCHANGED <<store, expiresAt, issued, known, st, det>>
    BY <1>8, WithoutFacts DEF Restart
  <2>2. /\ pc' \in [Requests -> {"idle", "exchange", "ok", "failed"}]
        /\ \A q \in Requests : pc'[q] \in {"idle", "exchange"} => pc'[q] = pc[q]
        /\ restarts' \in {0, 1}
    BY <1>8 DEF Restart, OAuthInv, TypeOK
  <2> QED BY <2>1, <2>2, LossPreserves
<1>9. CASE Tick
  <2> DEFINE Over == {s \in States : expiresAt[s] <= now + 1}
  <2>1. /\ now' = now + 1
        /\ UNCHANGED <<store, expiresAt, issued, known, st, det>>
        /\ pc' \in [Requests -> {"idle", "exchange", "ok", "failed"}]
        /\ \A q \in Requests : pc'[q] \in {"idle", "exchange"} => pc'[q] = pc[q]
        /\ restarts' \in {0, 1}
    BY <1>9 DEF Tick, OAuthInv, TypeOK
  <2>2. CASE store = "redis"
    <3>1. values' = Without(Over)
      BY <1>9, <2>2 DEF Tick
    <3> QED BY <2>1, <3>1, LossPreserves
  <2>3. CASE store # "redis"
    <3>1. values' = Without({})
      BY <1>9, <2>3, WithoutFacts DEF Tick
    <3> QED BY <2>1, <2>3, <3>1, LossPreserves
  <2> QED BY <2>2, <2>3
<1>10. CASE UNCHANGED vars
  BY <1>10 DEF vars, inStore, OAuthInv, TypeOK, StateUsedOnce, StoredWasAdded, UsedIsGone,
               Progress, FreshInRedis, Used, Open
<1> QED BY <1>1, <1>2, <1>3, <1>4, <1>5, <1>6, <1>7, <1>8, <1>9, <1>10 DEF Next

\* OAuthInv is an invariant of both stores and the handlers around them.
THEOREM InvariantHolds == Spec => []OAuthInv
BY InitEstablishes, NextPreserves, PTL DEF Spec

\* Whatever interleaving, failure and restart: no OAuth state leads to two
\* logins.
THEOREM OneUse == Spec => []StateUsedOnce
<1>1. OAuthInv => StateUsedOnce
  BY DEF OAuthInv
<1> QED BY <1>1, InvariantHolds, PTL

-----------------------------------------------------------------------------
(* Refinement.                                                             *)

\* The initial states map to initial states.
LEMMA InitRefines == Init => Abstract!Init
BY DEF Init, Abstract!Init, Abstract!NoAnswer, Answer, Used, Open

\* Adding a state is an abstract Add.
LEMMA PutIsAdd ==
  ASSUME OAuthInv, NEW s \in States, NEW d \in Details, NEW S \in SUBSET States,
         now' \in {now, now + 1}, Put(s, d, Without(S)), UNCHANGED <<st, det>>
  PROVE  Abstract!Add(s, d)
<1>1. now' \in Nat /\ now' >= now
  BY DEF OAuthInv, TypeOK
<1>2. Open' \subseteq Open \cup {s}
  BY DEF OAuthInv, TypeOK, Put, Without, Open
<1>3. [r \in Requests |-> Answer(r)]' = [r \in Requests |-> Answer(r)]
  BY DEF Answer, Used
<1> QED BY <1>1, <1>2, <1>3 DEF Abstract!Add, Abstract!TimePasses, Put

\* Entries that disappear are an abstract Drop, as long as no request gets
\* anything for them.
LEMMA LossIsDrop ==
  ASSUME OAuthInv, NEW S \in SUBSET States, values' = Without(S),
         now' \in {now, now + 1}, UNCHANGED <<expiresAt, issued, det>>,
         \A r \in Requests : Used(r) => st'[r] = st[r]
  PROVE  Abstract!Drop
<1>1. now' \in Nat /\ now' >= now
  BY DEF OAuthInv, TypeOK
<1>2. Open' \subseteq Open
  BY DEF Without, Open
<1>3. [r \in Requests |-> Answer(r)]' = [r \in Requests |-> Answer(r)]
  BY DEF Answer, Used
<1> QED BY <1>1, <1>2, <1>3 DEF Abstract!Drop, Abstract!TimePasses

\* A state that is accepted is an abstract Consume.
LEMMA AcceptIsConsume ==
  ASSUME OAuthInv, NEW s \in States, NEW S \in SUBSET States, NEW r \in Requests,
         Present(r, s), Accept(r, s), values' = Without(S), s \in S,
         values[s] # NoDetails, now' \in {now, now + 1}, now' <= expiresAt[s]
  PROVE  Abstract!Consume(r, s)
<1> USE NilAssumption
<1>1. now' \in Nat /\ now' >= now
  BY DEF OAuthInv, TypeOK
<1>2. s \in Open /\ Open' \subseteq Open \ {s}
  BY DEF Without, Open
<1>3. ~Used(r) /\ values[s] = issued[s]
  BY DEF OAuthInv, Present, Progress, StoredWasAdded
<1>4. /\ Used(r)' /\ Answer(r)' = <<s, issued[s]>>
      /\ \A q \in Requests \ {r} : Answer(q)' = Answer(q)
  BY <1>3 DEF OAuthInv, TypeOK, Present, Accept, Used, Answer
<1>5. [q \in Requests |-> Answer(q)]' =
        [[q \in Requests |-> Answer(q)] EXCEPT ![r] = <<s, issued[s]>>]
  BY <1>4
<1>6. Answer(r) = Abstract!NoAnswer
  BY <1>3 DEF Answer, Abstract!NoAnswer
<1> QED BY <1>1, <1>2, <1>5, <1>6 DEF Abstract!Consume, Abstract!TimePasses, Present

\* Every step maps to a step of the abstract store or changes nothing there.
LEMMA StepRefines ==
  ASSUME OAuthInv, [Next]_vars
  PROVE  [Abstract!Next]_(Abstract!vars)
<1> USE NilAssumption
<1> DEFINE Expired == {s \in States : After(s)}
<1>0. Expired \in SUBSET States /\ CleanupLocked = Without(Expired)
  BY DEF CleanupLocked
<1>1. ASSUME NEW r \in Requests, NEW s \in States, NEW d \in Details, AddInMemory(r, s, d)
      PROVE  Abstract!Next
  <2>1. Abstract!Add(s, d)
    BY <1>0, <1>1, PutIsAdd DEF AddInMemory, ReadClockAgain
  <2> QED BY <2>1 DEF Abstract!Next
<1>2. ASSUME NEW r \in Requests, NEW s \in States, NEW d \in Details, AddInRedis(r, s, d)
      PROVE  Abstract!Next
  <2>1. Abstract!Add(s, d)
    BY <1>2, PutIsAdd, WithoutFacts DEF AddInRedis
  <2> QED BY <2>1 DEF Abstract!Next
<1>3. ASSUME NEW r \in Requests, NEW s \in States, NEW d \in Details, AddError(r, s, d)
      PROVE  Abstract!Next
  <2>1. CASE Put(s, d, values)
    <3>1. Abstract!Add(s, d)
      BY <1>3, <2>1, PutIsAdd, WithoutFacts DEF AddError
    <3> QED BY <3>1 DEF Abstract!Next
  <2>2. CASE UNCHANGED inStore
    <3>1. Abstract!Drop
      BY <1>3, <2>2, LossIsDrop, WithoutFacts DEF AddError, inStore
    <3> QED BY <3>1 DEF Abstract!Next
  <2> QED BY <2>1, <2>2, <1>3 DEF AddError
<1>4. ASSUME NEW r \in Requests, NEW s \in States, Present(r, s), Refuse(r),
             NEW S \in SUBSET States, values' = Without(S), now' \in {now, now + 1}
      PROVE  Abstract!Next
  <2>1. \A q \in Requests : Used(q) => st'[q] = st[q]
    BY <1>4 DEF OAuthInv, TypeOK, Progress, Present
  <2>2. Abstract!Drop
    BY <1>4, <2>1, LossIsDrop DEF Present, Refuse
  <2> QED BY <2>2 DEF Abstract!Next
<1>5. ASSUME NEW r \in Requests, NEW s \in States, ConsumeInMemory(r, s)
      PROVE  Abstract!Next
  <2>1. /\ Present(r, s)
        /\ now' \in {now, now + 1}
        /\ values' = Without(Expired \cup {s})
    BY <1>0, <1>5, WithoutFacts DEF ConsumeInMemory, ReadClockAgain
  <2>2. CASE Refuse(r)
    BY <1>0, <1>4, <2>1, <2>2
  <2>3. CASE CleanupLocked[s] # NoDetails /\ now' <= expiresAt[s] /\ Accept(r, s)
    <3>1. values[s] # NoDetails
      BY <1>0, <2>3 DEF Without
    <3>2. Abstract!Consume(r, s)
      BY <1>0, <2>1, <2>3, <3>1, AcceptIsConsume
    <3> QED BY <3>2 DEF Abstract!Next
  <2> QED BY <1>5, <2>2, <2>3 DEF ConsumeInMemory
<1>6. ASSUME NEW r \in Requests, NEW s \in States, ConsumeInRedis(r, s)
      PROVE  Abstract!Next
  <2>1. Present(r, s) /\ now' = now /\ values' = Without({s}) /\ store = "redis"
    BY <1>6 DEF ConsumeInRedis
  <2>2. CASE Refuse(r)
    BY <1>4, <2>1, <2>2
  <2>3. CASE values[s] # NoDetails /\ Accept(r, s)
    <3>1. now' <= expiresAt[s]
      BY <2>1, <2>3 DEF OAuthInv, TypeOK, FreshInRedis, Open
    <3>2. Abstract!Consume(r, s)
      BY <2>1, <2>3, <3>1, AcceptIsConsume
    <3> QED BY <3>2 DEF Abstract!Next
  <2> QED BY <1>6, <2>2, <2>3 DEF ConsumeInRedis
<1>7. ASSUME NEW r \in Requests, NEW s \in States, ConsumeError(r, s)
      PROVE  Abstract!Next
  <2>1. Present(r, s) /\ now' = now /\ Refuse(r)
    BY <1>7 DEF ConsumeError
  <2>2. values' = Without({}) \/ values' = Without({s})
    BY <1>7, WithoutFacts DEF ConsumeError
  <2> QED BY <1>4, <2>1, <2>2
<1>8. ASSUME NEW r \in Requests, Exchange(r)
      PROVE  Abstract!Next
  <2>1. Abstract!Drop
    BY <1>8, LossIsDrop, WithoutFacts DEF Exchange, inStore
  <2> QED BY <2>1 DEF Abstract!Next
<1>9. CASE Restart
  <2>1. Abstract!Drop
    BY <1>9, LossIsDrop, WithoutFacts DEF Restart
  <2> QED BY <2>1 DEF Abstract!Next
<1>10. CASE Tick
  <2>1. \E S \in SUBSET States : values' = Without(S)
    BY <1>10, WithoutFacts DEF Tick
  <2>2. now' = now + 1 /\ UNCHANGED <<expiresAt, issued, st, det>>
    BY <1>10 DEF Tick
  <2>3. Abstract!Drop
    BY <2>1, <2>2, LossIsDrop
  <2> QED BY <2>3 DEF Abstract!Next
<1>11. CASE UNCHANGED vars
  <2>1. /\ [r \in Requests |-> Answer(r)]' = [r \in Requests |-> Answer(r)]
        /\ Open' = Open
    BY <1>11 DEF vars, inStore, Answer, Used, Open
  <2> QED BY <1>11, <2>1 DEF vars, inStore, Abstract!vars
<1> QED BY <1>1, <1>2, <1>3, <1>5, <1>6, <1>7, <1>8, <1>9, <1>10, <1>11 DEF Next

\* Both state stores, with the handlers that call them, implement the one-time
\* store of the StateStore interface.
THEOREM Implements == Spec => ImplementsOneTimeStates
BY InitRefines, StepRefines, InvariantHolds, PTL
   DEF Spec, ImplementsOneTimeStates, Abstract!Spec

\* A state that has not expired leaves the store only when it is presented or
\* with the server's memory, in particular not in somebody else's cleanup.
THEOREM LossHasCause == Spec => LostOnlyWithCause
<1> DEFINE Cause(s) == \/ now' >= expiresAt[s]
                       \/ restarts' # restarts
                       \/ \E r \in Requests : st[r] # s /\ st'[r] = s
<1>1. ASSUME OAuthInv, [Next]_vars, NEW s \in Open \ Open'
      PROVE  Cause(s)
  <2> USE NilAssumption
  <2>1. s \in States /\ values[s] # NoDetails /\ values'[s] = NoDetails
    BY <1>1 DEF Open
  <2>2. now \in Nat /\ expiresAt[s] \in Nat
    BY <1>1, <2>1 DEF OAuthInv, TypeOK
  <2>3. ASSUME NEW r \in Requests, NEW z \in States, NEW d \in Details, AddInMemory(r, z, d)
        PROVE  Cause(s)
    <3>1. CleanupLocked[s] = NoDetails
      BY <2>1, <2>3 DEF AddInMemory, Put, CleanupLocked, Without
    <3>2. now > expiresAt[s]
      BY <2>1, <3>1 DEF CleanupLocked, Without, After
    <3> QED BY <2>2, <2>3, <3>2 DEF AddInMemory, ReadClockAgain
  <2>4. ASSUME NEW r \in Requests, NEW z \in States, NEW d \in Details,
               AddInRedis(r, z, d) \/ AddError(r, z, d)
        PROVE  Cause(s)
    BY <1>1, <2>1, <2>4 DEF AddInRedis, AddError, Put, inStore, OAuthInv, TypeOK
  <2>5. ASSUME NEW r \in Requests, NEW z \in States, Present(r, z)
        PROVE  st[r] # z /\ st'[r] = z
    BY <1>1, <2>5 DEF Present, OAuthInv, TypeOK, Progress
  <2>6. ASSUME NEW r \in Requests, NEW z \in States, ConsumeInMemory(r, z)
        PROVE  Cause(s)
    <3>1. CASE s = z
      BY <2>5, <2>6, <3>1 DEF ConsumeInMemory
    <3>2. CASE s # z
      <4>1. CleanupLocked[s] = NoDetails
        BY <2>1, <2>6, <3>2 DEF ConsumeInMemory, CleanupLocked, Without
      <4>2. now > expiresAt[s]
        BY <2>1, <4>1 DEF CleanupLocked, Without, After
      <4> QED BY <2>2, <2>6, <4>2 DEF ConsumeInMemory, ReadClockAgain
    <3> QED BY <3>1, <3>2
  <2>7. ASSUME NEW r \in Requests, NEW z \in States,
               ConsumeInRedis(r, z) \/ ConsumeError(r, z)
        PROVE  Cause(s)
    <3>1. Present(r, z) /\ values' \in {values, Without({z})}
      BY <2>7 DEF ConsumeInRedis, ConsumeError
    <3>2. s = z
      BY <2>1, <3>1 DEF Without
    <3> QED BY <2>5, <3>1, <3>2
  <2>8. ASSUME NEW r \in Requests, Exchange(r)
        PROVE  Cause(s)
    BY <2>1, <2>8 DEF Exchange, inStore
  <2>9. CASE Restart
    BY <1>1, <2>9 DEF Restart, OAuthInv, TypeOK
  <2>10. CASE Tick
    BY <2>1, <2>2, <2>10 DEF Tick, Without
  <2>11. CASE UNCHANGED vars
    BY <2>1, <2>11 DEF vars, inStore
  <2> QED BY <1>1, <2>3, <2>4, <2>6, <2>7, <2>8, <2>9, <2>10, <2>11 DEF Next
<1>2. OAuthInv /\ [Next]_vars => [\A s \in Open \ Open' : Cause(s)]_vars
  BY <1>1
<1> QED BY <1>2, InvariantHolds, PTL DEF Spec, LostOnlyWithCause
=============================================================================
