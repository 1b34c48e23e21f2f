SPECIFICATION KeySpec
CONSTANTS
  Procs = {p1}
  KeyIDs = {k1, k2}
  NoKey = NoKey
  Torn = Torn
SYMMETRY Symmetry
INVARIANTS
  ActiveKeySigns
