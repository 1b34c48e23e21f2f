SPECIFICATION Spec
CONSTANTS
  ClientIDs = {c1, c2}
  Names = {n1, n2}
  Secrets = {s1, s2, s3}
  ScopeSets = {{"manage"}, {"read"}}
  Requests = {r1, r2}
  NoName = NoName
  NoClient = NoClient
SYMMETRY Symmetry
INVARIANTS
  DisabledStartsNothing
  OneLiveSecret
  ManagerRemains
  AccountInv
  AuditIsTruthful
PROPERTIES
  DisabledIsFrozen
