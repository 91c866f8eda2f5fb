SPECIFICATION FairAggSpec
CONSTANTS
  u1 = u1
  u2 = u2
  z1 = z1
  Rows <- MCRows
  TableOf <- MCTableOf
  Archivers = {w1, w2}
  Operators = {p1, p2}
  None = None
  MaxRuns = 3
CHECK_DEADLOCK FALSE
INVARIANTS
  AggTypeOK
  MissesOnlyLate
  MigrationFits
PROPERTIES
  ExitTruthful
  CommandAdvances
  CommandEnds
