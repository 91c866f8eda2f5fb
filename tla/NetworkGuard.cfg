SPECIFICATION GuardSpec
CONSTANTS
  w1 = w1
  w2 = w2
  Workers = {w1, w2}
  Networks = {mainnet, devnet}
  None = None
  CacheTtl = 2
  MaxTime = 5
SYMMETRY MCSymmetry
INVARIANTS GuardTypeOK
PROPERTIES AnswerRecent
