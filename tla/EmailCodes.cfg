SPECIFICATION Spec
CONSTANTS
  Emails = {e1}
  Codes = {n1, n2}
  NoCode = NoCode
  Home = e1
  Strangers = {s1}
  Clients = {c1}
  HomeClient = c1
  TTL = 1
  MaxStrange = 2
INVARIANTS
  StoreHoldsNewest
PROPERTIES
  CodeUsedOnce
  OwnerGetsIn
