------------------------------ MODULE MCReads ------------------------------
\* Two forks from the first block, of three and four blocks: while one
\* settles, the other has blocks at the same heights.
EXTENDS Reads, TLC

CONSTANTS g, a1, a2, a3, a4, b1, b2

MCBlocks == {g, a1, a2, a3, a4, b1, b2}
MCHeight == g :> 1 @@ a1 :> 2 @@ b1 :> 2 @@ a2 :> 3 @@ b2 :> 3 @@ a3 :> 4 @@ a4 :> 5
MCLine ==
  g :> {g} @@ a1 :> {g, a1} @@ a2 :> {g, a1, a2} @@ a3 :> {g, a1, a2, a3} @@
  a4 :> {g, a1, a2, a3, a4} @@ b1 :> {g, b1} @@ b2 :> {g, b1, b2}
MCRank == g :> 0 @@ b1 :> 1 @@ a1 :> 2 @@ b2 :> 3 @@ a2 :> 4 @@ a3 :> 5 @@ a4 :> 6

MCTouched == {g, a1, b1, a3}
MCAmountAt == [b \in MCBlocks |-> IF b = a1 THEN 13 ELSE IF b = b1 THEN 14 ELSE 15]
MCSlot == g :> 0 @@ a1 :> 1 @@ b1 :> 2 @@ a2 :> 4 @@ b2 :> 3 @@ a3 :> 5 @@ a4 :> 8

\* Every shape of schedule the ledger could have these balances under: none
\* is ever below its minimum.
MCSchedules ==
  {None} \cup
  {s \in [cliff_time : {0, 4}, cliff_amount : {0, 15},
          vesting_period : {0, 1, 3}, vesting_increment : {2, 7, 15},
          initial_minimum_balance : {12, 15}] :
     \A b \in MCTouched : Minimum(MCSlot[b], s) <= MCAmountAt[b]}
=============================================================================
