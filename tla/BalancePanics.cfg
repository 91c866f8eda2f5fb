SPECIFICATION ReadsSpec
CONSTANTS
  g = g
  a1 = a1
  a2 = a2
  a3 = a3
  a4 = a4
  b1 = b1
  b2 = b2
  Blocks <- MCBlocks
  None = None
  Genesis = g
  Height <- MCHeight
  Line <- MCLine
  Rank <- MCRank
  K = 1
  MaxU64 = 15
  Touched <- MCTouched
  AmountAt <- MCAmountAt
  Slot <- MCSlot
  Schedules <- MCSchedules
INVARIANTS LookupSurvives
