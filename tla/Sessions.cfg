SPECIFICATION Spec
CONSTANTS
  Users = {u1}
  Pairs = {p1, p2, p3}
  Requests = {r1, r2, r3}
  AccessTokenExpiration = 1
  RefreshTokenExpiration = 2
  MaxTime = 4
  NoUser = NoUser
  NoPair = NoPair
SYMMETRY Symmetry
INVARIANTS
  NoReplay
  NoSessionAfterDelete
  DeliveredByRotation
  SessionInv
PROPERTIES
  RevocationIsFinal
