SPECIFICATION Spec
CONSTANTS
  s1 = s1
  s2 = s2
  s3 = s3
  None = None
  Workers = {w1, w2, w3}
  Sigs = {s1, s2, s3}
  ShardOf <- MCShardOf
  NumShards = 2
  CacheTxSize = 2
  MaxTime = 1
  MaxOverlaps = 2
INVARIANTS
  TypeOK
  LimitPlusOverlaps
PROPERTIES
  InsertionEnds
  InsertionAdvances
  RemembersWithinBounds
