SPECIFICATION Spec
CONSTANTS
  States = {s1, s2}
  Details = {d1, d2}
  Requests = {r1, r2, r3, r4}
  TTL = 2
  MaxTime = 5
  NoState = NoState
  NoDetails = NoDetails
SYMMETRY Symmetry
PROPERTIES
  LostOnlyWithCause
  ImplementsOneTimeStates
