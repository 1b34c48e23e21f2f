--------------------------- MODULE SessionsProofs ---------------------------
(***************************************************************************)
(* Proofs about Sessions, for every set of users, pairs and requests and   *)
(* every pair of token lifetimes.  The invariant SessionInv is inductive;  *)
(* one lemma per action shows that the action preserves its conjuncts.     *)
(*                                                                         *)
(* The second half is about the keys those tokens are signed with: for any *)
(* number of processes and keys, what a restart or a crash while the key   *)
(* file is written leaves behind (SigningKeys).                            *)
(***************************************************************************)
EXTENDS Sessions, SigningKeys, TLAPS

USE LifetimeAssumption, MaxTimeAssumption, NoUserAssumption, NoPairAssumption

\* A client presents a token it holds: the only step that sets the histories.
LEMMA PresentPreserves ==
  ASSUME SessionInv,
         NEW r \in Requests, NEW p \in Pairs, NEW h, NEW valid \in BOOLEAN,
         NEW o \in {"refresh", "revoke", "current"},
         NEW first \in {"check", "user"},
         first = IF o = "current" THEN "user" ELSE "check",
         Present(r, o, p, h, valid, first)
  PROVE  SessionInv'
<1> USE DEF SessionInv, TypeOK, Ops, Running, Answered, tokens, Present, Goto
<1>1. TypeOK'
  BY DEF RequestShape, Signed, RefreshExpiresAt
<1>2. RequestShape'
  BY <1>1 DEF RequestShape, OnlySignedPairs, Signed
<1>3. OnlySignedPairs'
  BY <1>1 DEF RequestShape, OnlySignedPairs, Signed
<1>4. EntryOutlivesToken'
  BY <1>1 DEF RequestShape, OnlySignedPairs, EntryOutlivesToken, Signed,
              RefreshExpiresAt
<1>5. UsedIsSpent'
  <2>1. p \in Consumed => Spent(p)
    BY DEF Consumed, UsedIsSpent, Spent
  <2>2. ASSUME NEW x \in Requests, op'[x] \in {"refresh", "revoke"}
        PROVE  /\ pc'[x] = "ok" => Spent(tok[x])'
               /\ x \in late' => Spent(tok[x])'
               /\ x \in late' /\ pc'[x] \notin {"check", "denied", "internal"}
                    => (RefreshExpiresAt(tok[x]) <= checkedAt[x])'
    <3>1. CASE x = r
      BY <1>1, <2>1, <2>2, <3>1 DEF RequestShape, UsedIsSpent, Spent, RefreshExpiresAt
    <3>2. CASE x # r
      BY <1>1, <2>2, <3>2 DEF UsedIsSpent, Spent, RefreshExpiresAt
    <3> QED
      BY <3>1, <3>2
  <2> QED
    BY <2>2 DEF UsedIsSpent
<1>6. OrphanIsStopped'
  BY <1>1 DEF RequestShape, OrphanIsStopped
<1> QED
  BY <1>1, <1>2, <1>3, <1>4, <1>5, <1>6

\* A login has found its user.
LEMMA BeginLoginPreserves ==
  ASSUME SessionInv,
         NEW r \in Requests, NEW u \in Users, BeginLogin(r, u)
  PROVE  SessionInv'
<1> USE DEF SessionInv, TypeOK, Ops, Running, Answered, tokens, BeginLogin, Goto
<1>1. TypeOK'
  OBVIOUS
<1>2. RequestShape'
  BY <1>1 DEF RequestShape, OnlySignedPairs, Signed
<1>3. OnlySignedPairs'
  BY <1>1 DEF RequestShape, OnlySignedPairs, Signed
<1>4. EntryOutlivesToken'
  BY <1>1 DEF RequestShape, OnlySignedPairs, EntryOutlivesToken, Signed,
              RefreshExpiresAt
<1>5. UsedIsSpent'
  BY <1>1 DEF RequestShape, UsedIsSpent, Spent, Signed, RefreshExpiresAt
<1>6. OrphanIsStopped'
  BY <1>1 DEF RequestShape, OrphanIsStopped
<1> QED
  BY <1>1, <1>2, <1>3, <1>4, <1>5, <1>6

\* The revocation check: a late request gets past it only after the token's expiry.
LEMMA EnsureRefreshTokenActivePreserves ==
  ASSUME SessionInv,
         NEW r \in Requests, EnsureRefreshTokenActive(r)
  PROVE  SessionInv'
<1> USE DEF SessionInv, TypeOK, Ops, Running, Answered, tokens, EnsureRefreshTokenActive, Goto
<1>1. TypeOK'
  OBVIOUS
<1>2. RequestShape'
  BY <1>1 DEF RequestShape, OnlySignedPairs, Signed
<1>3. OnlySignedPairs'
  BY <1>1 DEF RequestShape, OnlySignedPairs, Signed
<1>4. EntryOutlivesToken'
  BY <1>1 DEF RequestShape, OnlySignedPairs, EntryOutlivesToken, Signed,
              RefreshExpiresAt
<1>5. UsedIsSpent'
  BY <1>1 DEF RequestShape, UsedIsSpent, Spent, Signed, RefreshExpiresAt, IsRevoked
<1>6. OrphanIsStopped'
  BY <1>1 DEF RequestShape, OrphanIsStopped
<1> QED
  BY <1>1, <1>2, <1>3, <1>4, <1>5, <1>6

\* The user check: where a request for a deleted user stops.
LEMMA CheckUserPreserves ==
  ASSUME SessionInv,
         NEW r \in Requests, CheckUser(r)
  PROVE  SessionInv'
<1> USE DEF SessionInv, TypeOK, Ops, Running, Answered, tokens, CheckUser, Reply, Goto
<1>1. TypeOK'
  OBVIOUS
<1>2. RequestShape'
  BY <1>1 DEF RequestShape, OnlySignedPairs, Signed
<1>3. OnlySignedPairs'
  BY <1>1 DEF RequestShape, OnlySignedPairs, Signed
<1>4. EntryOutlivesToken'
  BY <1>1 DEF RequestShape, OnlySignedPairs, EntryOutlivesToken, Signed,
              RefreshExpiresAt
<1>5. UsedIsSpent'
  BY <1>1 DEF RequestShape, UsedIsSpent, Spent, Signed, RefreshExpiresAt
<1>6. OrphanIsStopped'
  BY <1>1 DEF RequestShape, OrphanIsStopped
<1> QED
  BY <1>1, <1>2, <1>3, <1>4, <1>5, <1>6

\* Signing a pair that no request has seen before.
LEMMA NewTokenPairPreserves ==
  ASSUME SessionInv,
         NEW r \in Requests, NEW p \in Pairs, NewTokenPair(r, p)
  PROVE  SessionInv'
<1> USE DEF SessionInv, TypeOK, Ops, Running, Answered, tokens, NewTokenPair, Goto
<1>1. TypeOK'
  BY DEF RequestShape, Signed, RefreshExpiresAt
<1>2. RequestShape'
  BY <1>1 DEF RequestShape, OnlySignedPairs, Signed
<1>3. OnlySignedPairs'
  BY <1>1 DEF RequestShape, OnlySignedPairs, Signed
<1>4. EntryOutlivesToken'
  BY <1>1 DEF RequestShape, OnlySignedPairs, EntryOutlivesToken, Signed,
              RefreshExpiresAt
<1>5. UsedIsSpent'
  BY <1>1 DEF RequestShape, UsedIsSpent, Spent, Signed, RefreshExpiresAt
<1>6. OrphanIsStopped'
  BY <1>1 DEF RequestShape, OrphanIsStopped
<1> QED
  BY <1>1, <1>2, <1>3, <1>4, <1>5, <1>6

\* The TTL covers what is left of the token's life.
LEMMA ComputeRevocationTTLPreserves ==
  ASSUME SessionInv,
         NEW r \in Requests, ComputeRevocationTTL(r)
  PROVE  SessionInv'
<1> USE DEF SessionInv, TypeOK, Ops, Running, Answered, tokens, ComputeRevocationTTL, Reply, Goto
<1>1. TypeOK'
  BY DEF RequestShape, Signed, RefreshExpiresAt
<1>2. RequestShape'
  BY <1>1 DEF RequestShape, OnlySignedPairs, Signed
<1>3. OnlySignedPairs'
  BY <1>1 DEF RequestShape, OnlySignedPairs, Signed
<1>4. EntryOutlivesToken'
  BY <1>1 DEF RequestShape, OnlySignedPairs, EntryOutlivesToken, Signed,
              RefreshExpiresAt
<1>5. UsedIsSpent'
  BY <1>1 DEF RequestShape, UsedIsSpent, Spent, Signed, RefreshExpiresAt
<1>6. OrphanIsStopped'
  BY <1>1 DEF RequestShape, OrphanIsStopped
<1> QED
  BY <1>1, <1>2, <1>3, <1>4, <1>5, <1>6

\* The SET arrives, late or not.
LEMMA SetRevocationPreserves ==
  ASSUME SessionInv,
         NEW r \in Requests, SetRevocation(r)
  PROVE  SessionInv'
<1> USE DEF SessionInv, TypeOK, Ops, Running, Answered, tokens, SetRevocation, Reply, Goto
<1>1. TypeOK'
  BY DEF RequestShape, Signed, RefreshExpiresAt
<1>2. RequestShape'
  BY <1>1 DEF RequestShape, OnlySignedPairs, Signed
<1>3. OnlySignedPairs'
  BY <1>1 DEF RequestShape, OnlySignedPairs, Signed
<1>4. EntryOutlivesToken'
  BY <1>1 DEF RequestShape, OnlySignedPairs, EntryOutlivesToken, Signed,
              RefreshExpiresAt
<1>5. UsedIsSpent'
  BY <1>1 DEF RequestShape, EntryOutlivesToken, UsedIsSpent, Spent, Signed, RefreshExpiresAt
<1>6. OrphanIsStopped'
  BY <1>1 DEF RequestShape, OrphanIsStopped
<1> QED
  BY <1>1, <1>2, <1>3, <1>4, <1>5, <1>6

\* A failed call.
LEMMA FailPreserves ==
  ASSUME SessionInv,
         NEW r \in Requests, Fail(r)
  PROVE  SessionInv'
<1> USE DEF SessionInv, TypeOK, Ops, Running, Answered, tokens, Fail, Goto
<1>1. TypeOK'
  BY DEF RequestShape, Signed, RefreshExpiresAt
<1>2. RequestShape'
  BY <1>1 DEF RequestShape, OnlySignedPairs, Signed
<1>3. OnlySignedPairs'
  BY <1>1 DEF RequestShape, OnlySignedPairs, Signed
<1>4. EntryOutlivesToken'
  BY <1>1 DEF RequestShape, OnlySignedPairs, EntryOutlivesToken, Signed,
              RefreshExpiresAt
<1>5. UsedIsSpent'
  BY <1>1 DEF RequestShape, EntryOutlivesToken, UsedIsSpent, Spent, Signed, RefreshExpiresAt
<1>6. OrphanIsStopped'
  BY <1>1 DEF RequestShape, OrphanIsStopped
<1> QED
  BY <1>1, <1>2, <1>3, <1>4, <1>5, <1>6

\* A user is deleted.
LEMMA DeleteUserPreserves ==
  ASSUME SessionInv,
         NEW u \in Users, DeleteUser(u)
  PROVE  SessionInv'
<1> USE DEF SessionInv, TypeOK, Ops, Running, Answered, tokens, DeleteUser
<1>1. TypeOK'
  OBVIOUS
<1>2. RequestShape'
  BY <1>1 DEF RequestShape, OnlySignedPairs, Signed
<1>3. OnlySignedPairs'
  BY <1>1 DEF RequestShape, OnlySignedPairs, Signed
<1>4. EntryOutlivesToken'
  BY <1>1 DEF RequestShape, OnlySignedPairs, EntryOutlivesToken, Signed,
              RefreshExpiresAt
<1>5. UsedIsSpent'
  BY <1>1 DEF RequestShape, UsedIsSpent, Spent, Signed, RefreshExpiresAt
<1>6. OrphanIsStopped'
  BY <1>1 DEF RequestShape, OrphanIsStopped
<1> QED
  BY <1>1, <1>2, <1>3, <1>4, <1>5, <1>6

\* The clock.
LEMMA TickPreserves ==
  ASSUME SessionInv,
         Tick
  PROVE  SessionInv'
<1> USE DEF SessionInv, TypeOK, Ops, Running, Answered, tokens, Tick
<1>1. TypeOK'
  OBVIOUS
<1>2. RequestShape'
  BY <1>1 DEF RequestShape, OnlySignedPairs, Signed
<1>3. OnlySignedPairs'
  BY <1>1 DEF RequestShape, OnlySignedPairs, Signed
<1>4. EntryOutlivesToken'
  BY <1>1 DEF RequestShape, OnlySignedPairs, EntryOutlivesToken, Signed,
              RefreshExpiresAt
<1>5. UsedIsSpent'
  BY <1>1 DEF RequestShape, UsedIsSpent, Spent, Signed, RefreshExpiresAt
<1>6. OrphanIsStopped'
  BY <1>1 DEF RequestShape, OrphanIsStopped
<1> QED
  BY <1>1, <1>2, <1>3, <1>4, <1>5, <1>6

-----------------------------------------------------------------------------

\* The inductive invariant holds in every reachable state.
THEOREM InvariantHolds == Spec => []SessionInv
<1>1. Init => SessionInv
  BY DEF Init, SessionInv, TypeOK, Ops, Running, Answered, RequestShape, Signed,
         OnlySignedPairs, EntryOutlivesToken, UsedIsSpent, OrphanIsStopped
<1>2. SessionInv /\ [Next]_vars => SessionInv'
  <2> SUFFICES ASSUME SessionInv, [Next]_vars PROVE SessionInv'
    OBVIOUS
  <2>1. ASSUME NEW r \in Requests, NEW p \in Pairs, NEW h \in {"access", "refresh"},
               BeginRefreshSession(r, p, h) \/ BeginRevokeSession(r, p, h)
        PROVE  SessionInv'
    <3>1. ValidateRefreshToken(p, h) \in BOOLEAN
      BY DEF ValidateRefreshToken
    <3> QED
      BY <2>1, <3>1, PresentPreserves DEF BeginRefreshSession, BeginRevokeSession
  <2>2. ASSUME NEW r \in Requests, NEW p \in Pairs, NEW h \in {"access", "refresh"},
               BeginGetCurrentUser(r, p, h)
        PROVE  SessionInv'
    <3>1. ValidateAccessToken(p, h) \in BOOLEAN
      BY DEF ValidateAccessToken
    <3> QED
      BY <2>2, <3>1, PresentPreserves DEF BeginGetCurrentUser
  <2>3. CASE UNCHANGED vars
    BY <2>3 DEF vars, tokens, SessionInv, TypeOK, RequestShape, Signed,
            OnlySignedPairs, EntryOutlivesToken, UsedIsSpent, Spent,
            RefreshExpiresAt, OrphanIsStopped
  <2> QED
    BY <2>1, <2>2, <2>3, BeginLoginPreserves, EnsureRefreshTokenActivePreserves,
       CheckUserPreserves, NewTokenPairPreserves, ComputeRevocationTTLPreserves,
       SetRevocationPreserves, FailPreserves, DeleteUserPreserves, TickPreserves
       DEF Next, Quiescent
<1> QED
  BY <1>1, <1>2, PTL DEF Spec

\* The variables have their types in every reachable state.
THEOREM TypeCorrect == Spec => []TypeOK
<1>1. SessionInv => TypeOK
  BY DEF SessionInv
<1> QED
  BY <1>1, InvariantHolds, PTL

\* Replay of a used refresh token is refused while the token lives: for any
\* number of requests, delays, failures and retries.
THEOREM ReplayRefused == Spec => []NoReplay
<1>1. SessionInv => NoReplay
  BY DEF SessionInv, UsedIsSpent, NoReplay
<1> QED
  BY <1>1, InvariantHolds, PTL

\* A used refresh token is blocked for the rest of its life.
THEOREM UsedTokenIsBlocked == Spec => []ConsumedIsBlocked
<1>1. SessionInv => ConsumedIsBlocked
  <2> SUFFICES ASSUME SessionInv, NEW r \in Requests,
                      op[r] \in {"refresh", "revoke"}, pc[r] = "ok"
               PROVE  Blocked(tok[r])
    BY DEF ConsumedIsBlocked, Consumed
  <2> QED
    BY DEF SessionInv, TypeOK, RequestShape, Signed, UsedIsSpent, Spent, Blocked,
           IsRevoked, RefreshExpiresAt
<1> QED
  BY <1>1, InvariantHolds, PTL

\* Deleting a user ends the user's sessions for every request that begins
\* afterwards.
THEOREM DeletionEndsSessions == Spec => []NoSessionAfterDelete
<1>1. SessionInv => NoSessionAfterDelete
  BY DEF SessionInv, OrphanIsStopped, NoSessionAfterDelete
<1> QED
  BY <1>1, InvariantHolds, PTL

\* What one step can do to a signed pair: its expiry stays, the clock does not
\* go back, and its entry stays or is replaced by one that outlasts the token.
LEMMA StepKeepsEntry ==
  ASSUME SessionInv, [Next]_vars, NEW p \in Pairs, owner[p] # NoUser
  PROVE  /\ now' \in Nat /\ now <= now'
         /\ issuedAt'[p] = issuedAt[p]
         /\ \/ revokedUntil'[p] = revokedUntil[p]
            \/ /\ revokedUntil'[p] \in Nat
               /\ RefreshExpiresAt(p) <= revokedUntil'[p]
<1> USE DEF SessionInv, TypeOK, tokens
<1>1. CASE \E r \in Requests, q \in Pairs : NewTokenPair(r, q)
  BY <1>1 DEF NewTokenPair
<1>2. CASE \E r \in Requests : SetRevocation(r) \/ Fail(r)
  BY <1>2 DEF SetRevocation, Fail, EntryOutlivesToken, RequestShape, Signed,
              RefreshExpiresAt, Running
<1>3. CASE \/ \E r \in Requests, q \in Pairs, h \in {"access", "refresh"} :
                \/ BeginRefreshSession(r, q, h)
                \/ BeginRevokeSession(r, q, h)
                \/ BeginGetCurrentUser(r, q, h)
           \/ \E r \in Requests, u \in Users : BeginLogin(r, u)
           \/ \E r \in Requests : \/ EnsureRefreshTokenActive(r)
                                  \/ CheckUser(r)
                                  \/ ComputeRevocationTTL(r)
           \/ \E u \in Users : DeleteUser(u)
           \/ Tick
           \/ UNCHANGED vars
  BY <1>3 DEF BeginRefreshSession, BeginRevokeSession, BeginGetCurrentUser,
              Present, BeginLogin, EnsureRefreshTokenActive, CheckUser,
              ComputeRevocationTTL, DeleteUser, Tick, vars
<1> QED
  BY <1>1, <1>2, <1>3 DEF Next, Quiescent

\* A revocation is final: a blocked refresh token never becomes usable again.
THEOREM RevocationStays == Spec => RevocationIsFinal
<1>1. SessionInv /\ [Next]_vars =>
        [\A p \in Pairs : owner[p] # NoUser /\ Blocked(p) => Blocked(p)']_vars
  <2> SUFFICES ASSUME SessionInv, [Next]_vars, NEW p \in Pairs,
                      owner[p] # NoUser, Blocked(p)
               PROVE  Blocked(p)'
    OBVIOUS
  <2>1. revokedUntil[p] # 0 => RefreshExpiresAt(p) <= revokedUntil[p]
    BY DEF SessionInv, EntryOutlivesToken
  <2> QED
    BY <2>1, StepKeepsEntry DEF SessionInv, TypeOK, Blocked, IsRevoked,
       RefreshExpiresAt
<1> QED
  BY <1>1, InvariantHolds, PTL DEF Spec, RevocationIsFinal

\* Every pair a client holds was signed for a login or a refresh that answered OK.
DeliveredByAnswer ==
  \A p \in delivered : \E r \in Requests :
    out[r] = p /\ pc[r] = "ok" /\ op[r] \in {"login", "refresh"}

\* An answer is final, and Reply and NewTokenPair are the only steps that hand
\* out a pair: the one that the request which answers has signed.
LEMMA AnswersStay ==
  ASSUME SessionInv, [Next]_vars
  PROVE  /\ \A r \in Requests : pc[r] = "ok" => /\ pc'[r] = "ok"
                                                /\ out'[r] = out[r]
                                                /\ op'[r] = op[r]
         /\ \A p \in delivered' \ delivered : \E r \in Requests :
              out'[r] = p /\ pc'[r] = "ok" /\ op'[r] \in {"login", "refresh"}
<1> USE DEF SessionInv, TypeOK, Running, Answered, tokens, Goto
<1>1. CASE \E r \in Requests, q \in Pairs, h \in {"access", "refresh"} :
             \/ BeginRefreshSession(r, q, h)
             \/ BeginRevokeSession(r, q, h)
             \/ BeginGetCurrentUser(r, q, h)
  BY <1>1 DEF BeginRefreshSession, BeginRevokeSession, BeginGetCurrentUser, Present
<1>2. CASE \E r \in Requests, u \in Users : BeginLogin(r, u)
  BY <1>2 DEF BeginLogin
<1>3. CASE \E r \in Requests : EnsureRefreshTokenActive(r)
  BY <1>3 DEF EnsureRefreshTokenActive
<1>4. CASE \E r \in Requests : CheckUser(r)
  BY <1>4 DEF CheckUser, Reply
<1>5. CASE \E r \in Requests, q \in Pairs : NewTokenPair(r, q)
  BY <1>5 DEF NewTokenPair
<1>6. CASE \E r \in Requests : ComputeRevocationTTL(r)
  BY <1>6 DEF ComputeRevocationTTL, Reply
<1>7. CASE \E r \in Requests : SetRevocation(r)
  BY <1>7 DEF SetRevocation, Reply
<1>8. CASE \E r \in Requests : Fail(r)
  BY <1>8 DEF Fail
<1>9. CASE (\E u \in Users : DeleteUser(u)) \/ Tick \/ UNCHANGED vars
  BY <1>9 DEF DeleteUser, Tick, vars
<1> QED
  BY <1>1, <1>2, <1>3, <1>4, <1>5, <1>6, <1>7, <1>8, <1>9 DEF Next, Quiescent

\* No failure between signing and revoking lets a client keep both the old and
\* the new pair: every pair a client holds came from a login, or from a refresh
\* whose own token is blocked.
THEOREM PairsComeByRotation == Spec => []DeliveredByRotation
<1>1. Init => DeliveredByAnswer
  BY DEF Init, DeliveredByAnswer
<1>2. SessionInv /\ DeliveredByAnswer /\ [Next]_vars => DeliveredByAnswer'
  <2> SUFFICES ASSUME SessionInv, DeliveredByAnswer, [Next]_vars, NEW p \in delivered'
               PROVE  \E r \in Requests :
                        out'[r] = p /\ pc'[r] = "ok" /\ op'[r] \in {"login", "refresh"}
    BY DEF DeliveredByAnswer
  <2> QED
    BY AnswersStay DEF DeliveredByAnswer
<1>3. SessionInv /\ DeliveredByAnswer => DeliveredByRotation
  <2> SUFFICES ASSUME SessionInv, NEW r \in Requests, pc[r] = "ok", op[r] = "refresh"
               PROVE  Blocked(tok[r])
    BY DEF DeliveredByAnswer, DeliveredByRotation
  <2> QED
    BY DEF SessionInv, TypeOK, RequestShape, Signed, UsedIsSpent, Spent, Blocked,
           IsRevoked, RefreshExpiresAt
<1> QED
  BY <1>1, <1>2, <1>3, InvariantHolds, PTL DEF Spec

-----------------------------------------------------------------------------
(* The signing keys.                                                       *)

USE KeyAssumption DEF history

\* Making k the ACTIVE key leaves no other, whatever the ring held before.
LEMMA ActivateIsExclusive ==
  ASSUME NEW ring \in [KeyIDs -> KeyStates], NEW k \in KeyIDs
  PROVE  /\ Activate(ring, k) \in [KeyIDs -> KeyStates]
         /\ \A j \in KeyIDs : Activate(ring, k)[j] = "ACTIVE" <=> j = k
         /\ \A j \in KeyIDs : Activate(ring, k)[j] # "absent" =>
                               ring[j] # "absent" \/ j = k
BY DEF Activate, KeyStates

\* Install keeps every process's ring and single-key fields in step.
LEMMA InstallKeepsSync ==
  ASSUME KeyTypeOK, SignerInSync, NEW p \in Procs, NEW k \in KeyIDs, Install(p, k)
  PROVE  /\ keys' \in [Procs -> [KeyIDs -> KeyStates]]
         /\ keyID' \in [Procs -> KeyIDs \cup {NoKey}]
         /\ keyID'[p] = k
         /\ SignerInSync'
         /\ \A q \in Procs, j \in KeyIDs :
              keys'[q][j] # "absent" => keys[q][j] # "absent" \/ j = k
<1>1. /\ Activate(keys[p], k) \in [KeyIDs -> KeyStates]
      /\ \A j \in KeyIDs : Activate(keys[p], k)[j] = "ACTIVE" <=> j = k
      /\ \A j \in KeyIDs : Activate(keys[p], k)[j] # "absent" =>
                            keys[p][j] # "absent" \/ j = k
  BY ActivateIsExclusive DEF KeyTypeOK
<1> QED
  BY <1>1 DEF KeyTypeOK, SignerInSync, Install

\* The operations of the key ring preserve the invariant.
LEMMA RingPreserves ==
  ASSUME KeyInv, NEW p \in Procs, NEW k \in KeyIDs,
         \/ GenerateKeyPair(p, k) \/ InitializeFromPEM(p, k)
         \/ AddKeyPassive(p, k) \/ PromoteKey(p, k)
         \/ DemoteKey(p, k) \/ RetireKey(p, k)
  PROVE  KeyInv'
<1> USE DEF KeyInv
<1>1. CASE GenerateKeyPair(p, k) \/ InitializeFromPEM(p, k) \/ PromoteKey(p, k)
  <2>1. Install(p, k) /\ stage[p] = "up"
    BY <1>1 DEF GenerateKeyPair, InitializeFromPEM, PromoteKey
  <2>2. KeyTypeOK'
    BY <1>1, <2>1, InstallKeepsSync
       DEF KeyTypeOK, GenerateKeyPair, InitializeFromPEM, PromoteKey, Fresh
  <2>3. StartupProgress'
    BY <1>1, <2>1 DEF KeyTypeOK, StartupProgress, GenerateKeyPair, InitializeFromPEM,
                      PromoteKey, Install
  <2>4. k \in generated' /\ generated \subseteq generated' /\ file' = file
    BY <1>1 DEF KnownKeys, KeyTypeOK, GenerateKeyPair, InitializeFromPEM, PromoteKey, Fresh
  <2>5. KnownKeys'
    BY <2>1, <2>4, InstallKeepsSync DEF KnownKeys
  <2> QED
    BY <2>1, <2>2, <2>3, <2>4, <2>5, InstallKeepsSync DEF KeyFileIntact
<1>2. CASE AddKeyPassive(p, k)
  BY <1>2 DEF AddKeyPassive, Fresh, KeyTypeOK, KeyStates, SignerInSync, StartupProgress,
              KnownKeys, KeyFileIntact
<1>3. CASE DemoteKey(p, k)
  BY <1>3 DEF DemoteKey, KeyTypeOK, KeyStates, SignerInSync, StartupProgress,
              KnownKeys, KeyFileIntact
<1>4. CASE RetireKey(p, k)
  BY <1>4 DEF RetireKey, KeyTypeOK, KeyStates, SignerInSync, StartupProgress,
              KnownKeys, KeyFileIntact
<1> QED
  BY <1>1, <1>2, <1>3, <1>4

\* The steps of a startup preserve the invariant.
LEMMA StartupPreserves ==
  ASSUME KeyInv, NEW p \in Procs,
         \/ LoadKeyFile(p) \/ MissKeyFile(p) \/ CreateTemp(p) \/ WriteTemp(p)
         \/ RenameTemp(p) \/ BuildTokenConfig(p)
         \/ \E k \in KeyIDs : GenerateFirstKey(p, k)
  PROVE  KeyInv'
<1> USE DEF KeyInv, KeyFileIntact, Stages, ToStage
<1>1. CASE LoadKeyFile(p)
  <2>1. file \in KeyIDs /\ Install(p, file)
    BY <1>1 DEF LoadKeyFile
  <2>2. KeyTypeOK' /\ SignerInSync'
    BY <1>1, <2>1, InstallKeepsSync DEF LoadKeyFile, KeyTypeOK
  <2>3. StartupProgress'
    BY <1>1, <2>1, InstallKeepsSync DEF LoadKeyFile, KeyTypeOK, StartupProgress, Install
  <2>4. KnownKeys'
    BY <1>1, <2>1, InstallKeepsSync DEF LoadKeyFile, KnownKeys
  <2> QED
    BY <1>1, <2>2, <2>3, <2>4 DEF LoadKeyFile
<1>2. CASE \E k \in KeyIDs : GenerateFirstKey(p, k)
  <2> PICK k \in KeyIDs : GenerateFirstKey(p, k)
    BY <1>2
  <2>1. Install(p, k)
    BY DEF GenerateFirstKey
  <2>2. KeyTypeOK' /\ SignerInSync'
    BY <2>1, InstallKeepsSync DEF GenerateFirstKey, Fresh, KeyTypeOK
  <2>3. StartupProgress'
    BY <2>1, InstallKeepsSync DEF GenerateFirstKey, KeyTypeOK, StartupProgress, Install
  <2>4. KnownKeys'
    BY <2>1, InstallKeepsSync DEF GenerateFirstKey, Fresh, KnownKeys
  <2> QED
    BY <2>2, <2>3, <2>4 DEF GenerateFirstKey
<1>3. CASE MissKeyFile(p)
  BY <1>3 DEF MissKeyFile, CreatesKey, KeyTypeOK, SignerInSync, StartupProgress, KnownKeys
<1>4. CASE CreateTemp(p)
  BY <1>4 DEF CreateTemp, KeyTypeOK, SignerInSync, StartupProgress, KnownKeys
<1>5. CASE WriteTemp(p)
  BY <1>5 DEF WriteTemp, KeyTypeOK, SignerInSync, StartupProgress, KnownKeys
<1>6. CASE RenameTemp(p)
  BY <1>6 DEF RenameTemp, KeyTypeOK, SignerInSync, StartupProgress, KnownKeys
<1>7. CASE BuildTokenConfig(p)
  BY <1>7 DEF BuildTokenConfig, KeyTypeOK, SignerInSync, StartupProgress, KnownKeys
<1> QED
  BY <1>1, <1>2, <1>3, <1>4, <1>5, <1>6, <1>7

\* A crash or a failed startup preserves the invariant.
LEMMA StopPreserves ==
  ASSUME KeyInv, NEW p \in Procs, NEW left \in KeyIDs \cup {NoKey, Torn},
         Stop(p, left)
  PROVE  KeyInv'
BY DEF KeyInv, KeyFileIntact, KnownKeys, Stages, ToStage, Stop, KeyTypeOK, KeyStates, EmptyRing,
       SignerInSync, StartupProgress

-----------------------------------------------------------------------------

\* The inductive invariant holds in every reachable state.
THEOREM KeyInvariantHolds == KeySpec => []KeyInv
<1>1. KeyInit => KeyInv
  <2> SUFFICES ASSUME KeyInit PROVE KeyInv
    OBVIOUS
  <2>1. KeyTypeOK
    BY DEF KeyInit, KeyTypeOK, Stages, KeyStates, EmptyRing
  <2>2. SignerInSync /\ KeyFileIntact /\ StartupProgress /\ KnownKeys
    BY DEF KeyInit, KeyFileIntact, KnownKeys, EmptyRing, SignerInSync, StartupProgress
  <2> QED
    BY <2>1, <2>2 DEF KeyInv
<1>2. KeyInv /\ [KeyNext]_keyVars => KeyInv'
  <2> SUFFICES ASSUME KeyInv, [KeyNext]_keyVars PROVE KeyInv'
    OBVIOUS
  <2>1. CASE UNCHANGED keyVars
    BY <2>1 DEF keyVars, KeyInv, KeyFileIntact, KnownKeys, KeyTypeOK, SignerInSync,
                StartupProgress
  <2> QED
    BY <2>1, RingPreserves, StartupPreserves, StopPreserves DEF KeyNext
<1> QED
  BY <1>1, <1>2, PTL DEF KeySpec

\* The ring's ACTIVE key is the one the single-key fields hold, so at most one
\* key is ACTIVE, after any sequence of rotations.
THEOREM RingInSync == KeySpec => []SignerInSync
<1>1. KeyInv => SignerInSync
  BY DEF KeyInv
<1> QED
  BY <1>1, KeyInvariantHolds, PTL

\* The key file is never torn, for any number of processes and crashes.
THEOREM FileIsIntact == KeySpec => []KeyFileIntact
<1>1. KeyInv => KeyFileIntact
  BY DEF KeyInv
<1> QED
  BY <1>1, KeyInvariantHolds, PTL

\* No server runs without a key, or before a key is on disk.
THEOREM UpImpliesPersisted == KeySpec => []UpWithPersistedKey
<1>1. KeyInv => UpWithPersistedKey
  BY DEF KeyInv, StartupProgress, UpWithPersistedKey, SigningKey
<1> QED
  BY <1>1, KeyInvariantHolds, PTL

-----------------------------------------------------------------------------
(* One key for all starts.                                                 *)

\* Until two first starts overlap there is one at a time, and while it lasts
\* there is no key on disk and nobody has gone up; whoever has loaded a key has
\* the one on disk.
OneKey ==
  ~overlap =>
    /\ started \subseteq {file}
    /\ \A p \in Procs :
         /\ stage[p] \in FirstStart => file = NoKey
         /\ stage[p] = "loaded" => keyID[p] = file
    /\ \A p, q \in Procs : stage[p] \in FirstStart /\ stage[q] \in FirstStart => p = q

\* The rename of a first start is the only step that writes the file, and it
\* finds none there; rotations reach neither the file nor a startup.
LEMMA OneKeyStep ==
  ASSUME KeyInv, OneKey, [KeyNext]_keyVars
  PROVE  OneKey'
<1> USE DEF KeyInv, KeyTypeOK, OneKey, ToStage, FirstStart
<1>1. ASSUME NEW p \in Procs, LoadKeyFile(p)
      PROVE  OneKey'
  BY <1>1 DEF LoadKeyFile, Install
<1>2. ASSUME NEW p \in Procs, NEW k \in KeyIDs, GenerateFirstKey(p, k)
      PROVE  OneKey'
  BY <1>2 DEF GenerateFirstKey, Install
<1>3. ASSUME NEW p \in Procs, CreateTemp(p) \/ WriteTemp(p)
      PROVE  OneKey'
  BY <1>3 DEF CreateTemp, WriteTemp
<1>4. ASSUME NEW p \in Procs, MissKeyFile(p)
      PROVE  OneKey'
  BY <1>4 DEF MissKeyFile, CreatesKey
<1>5. ASSUME NEW p \in Procs, RenameTemp(p)
      PROVE  OneKey'
  <2>1. temp[p] = keyID[p] /\ stage[p] = "rename"
    BY <1>5 DEF RenameTemp, StartupProgress
  <2>2. ~overlap => started = {} /\ \A q \in Procs : stage[q] # "loaded"
    BY <2>1 DEF StartupProgress
  <2> QED
    BY <1>5, <2>1, <2>2 DEF RenameTemp
<1>6. ASSUME NEW p \in Procs, BuildTokenConfig(p)
      PROVE  OneKey'
  BY <1>6 DEF BuildTokenConfig
<1>7. ASSUME NEW p \in Procs, NEW left \in KeyIDs \cup {NoKey, Torn}, Stop(p, left)
      PROVE  OneKey'
  BY <1>7 DEF Stop
<1>8. ASSUME NEW p \in Procs, NEW k \in KeyIDs,
             \/ GenerateKeyPair(p, k) \/ InitializeFromPEM(p, k)
             \/ AddKeyPassive(p, k) \/ PromoteKey(p, k)
             \/ DemoteKey(p, k) \/ RetireKey(p, k)
      PROVE  OneKey'
  BY <1>8 DEF GenerateKeyPair, InitializeFromPEM, AddKeyPassive, PromoteKey,
              DemoteKey, RetireKey, Install
<1>9. CASE UNCHANGED keyVars
  BY <1>9 DEF keyVars
<1> QED
  BY <1>1, <1>2, <1>3, <1>4, <1>5, <1>6, <1>7, <1>8, <1>9 DEF KeyNext

\* The key is created once and reused by every process, across any number of
\* crashes, restarts and rotations, unless two first starts overlap: so what
\* one start has signed every later one validates.
THEOREM OneKeyForAllStarts == KeySpec => []KeyIsReused
<1>1. KeyInit => OneKey
  BY DEF KeyInit, OneKey, FirstStart
<1>2. KeyInv /\ OneKey /\ [KeyNext]_keyVars => OneKey'
  BY OneKeyStep
<1>3. OneKey => KeyIsReused
  BY DEF OneKey, KeyIsReused
<1> QED
  BY <1>1, <1>2, <1>3, KeyInvariantHolds, PTL DEF KeySpec
=============================================================================
