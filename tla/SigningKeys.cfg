SPECIFICATION KeySpec
CONSTANTS
  Procs = {p1, p2}
  KeyIDs = {k1, k2, k3, k4}
  NoKey = NoKey
  Torn = Torn
SYMMETRY Symmetry
INVARIANTS
  UpWithPersistedKey
  KeyInv
  KeyIsReused
