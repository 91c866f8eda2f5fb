SPECIFICATION MCSpec
CONSTANTS
  w1 = w1
  p = p
  q = q
  d = d
  junk = junk
  None = None
  Workers = {w1, w2}
  Sigs = {p, q, d, junk}
  ShardOf <- MCShardOf
  NumShards = 1
  CacheTxSize = 1
  MaxTime = 1
  MaxOverlaps = 1
  KindOf <- MCKindOf
  PaymentKey <- MCPaymentKey
  SlotOf <- MCSlotOf
  ErrorTexts = {{"Expired", "Insufficient_funds"}}
  MaxMined = 2
  MaxStray = 1
INVARIANTS
  SubmitTypeOK
  VerdictsTrue
  ArchivedRecognised
PROPERTIES
  RequestAnswered
  OkRecorded
  RequestAdvances
  CacheRespected
