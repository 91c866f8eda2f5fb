SPECIFICATION Spec
CONSTANTS
  s1 = s1
  s2 = s2
  s3 = s3
  None = None
  Workers = {w1}
  Sigs = {s1, s2, s3}
  ShardOf <- MCShardOf
  NumShards = 2
  CacheTxSize = 2
  MaxTime = 1
  MaxOverlaps = 0
INVARIANT
  VictimIsOldest
