CONSTANTS
  w1 = w1
  w2 = w2
  d1 = d1
  d2 = d2
  Wallets = {w1, w2}
  Data = {d1, d2}
  Purse = 4
  RENT = 2
  MaxVal = 1
  MaxIxs = 2
  MaxTxs = 2

SPECIFICATION Spec
SYMMETRY Symmetry
CHECK_DEADLOCK FALSE
INVARIANTS
  
  Persisted
PROPERTIES
  OnlyTheAuthority
