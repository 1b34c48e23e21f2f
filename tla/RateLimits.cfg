SPECIFICATION LimitSpec
CONSTANTS
  Subjects = {s1}
  Clients = {c1}
  NoClient = NoClient
  Requests = {r1, r2, r3}
  MaxAttempts = 2
  Window = 2
  MaxErrors = 1
INVARIANTS
  LimitInv
  AttemptsBounded
PROPERTIES
  LockoutEnds
  ClientCounterOnlyExpires
