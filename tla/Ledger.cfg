SPECIFICATION LedgerSpec
CONSTANTS
  None = None
  a = a
  b = b
  c = c
  T = T
  DefaultToken = MINA
  Keys = {a, b, c}
  Tokens = {MINA, T}
  Ledgers <- LedgersDef
  Fee = 3
  Amount = 7
  CoinbaseAmount = 20
  CreationFee = 2
  UpdateSets <- UpdateSetsDef
  MaxCommands = 3
INVARIANTS
  LedgerTypeOK
  Reconciles
  IdentifiersUnique
  NothingElseOmitted
  BlockMatchesSearch
CHECK_DEADLOCK FALSE
