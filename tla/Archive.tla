------------------------------ MODULE Archive ------------------------------
(***************************************************************************)
(* The blocks of the archive database, as the archiver writes them and as  *)
(* the queries in src/sql/queries read them.                               *)
(*                                                                         *)
(* The archiver is external.  It adds a block after its parent and, in the *)
(* same transaction, settles the heights that have become K deep: the      *)
(* ancestors of the new block there are canonical, the other blocks of     *)
(* those heights orphaned.  A block that comes late, at a height already   *)
(* settled, stays pending for good.  Forks longer than K do not happen.    *)
(***************************************************************************)
EXTENDS Integers, FiniteSets

CONSTANTS
  Blocks,    \* all blocks there may ever be
  None,      \* SQL's NULL, Rust's None
  Genesis,   \* the first block
  Height,    \* of each block
  Line,      \* of each block, the blocks from Genesis to it
  Rank,      \* ORDER BY timestamp, state_hash
  K          \* how deep a block is when it is settled

\* Blocks form a tree: a line has one block at each height, and the line of a
\* block on it is its part below.
ASSUME TreeAssumption ==
  /\ Genesis \in Blocks /\ None \notin Blocks
  /\ Height \in [Blocks -> Nat]
  /\ Line \in [Blocks -> SUBSET Blocks]
  /\ \A b \in Blocks :
       /\ b \in Line[b] /\ Genesis \in Line[b]
       /\ \A c \in Line[b] : /\ Height[Genesis] <= Height[c]
                             /\ Height[c] <= Height[b]
                             /\ Line[c] = {d \in Line[b] : Height[d] <= Height[c]}
       /\ \A c, d \in Line[b] : Height[c] = Height[d] => c = d
       /\ \A h \in Height[Genesis]..Height[b] : \E c \in Line[b] : Height[c] = h
ASSUME RankAssumption ==
  /\ Rank \in [Blocks -> Nat]
  /\ \A b, c \in Blocks : Rank[b] = Rank[c] => b = c
ASSUME BlocksAssumption == IsFiniteSet(Blocks)
ASSUME KAssumption == K \in Nat \ {0}

VARIABLE status   \* the chain_status of each block, "absent" while it has no row

-----------------------------------------------------------------------------
Statuses == {"absent", "pending", "canonical", "orphaned"}

Stored == {b \in Blocks : status[b] # "absent"}
Canonical == {b \in Blocks : status[b] = "canonical"}

\* The blocks of greatest height in a set.
Tops(S) == {b \in S : \A c \in S : Height[c] <= Height[b]}

Parent(b) ==
  IF b = Genesis THEN None
  ELSE CHOOSE c \in Line[b] : Height[c] = Height[b] - 1

\* max_canonical_height.sql; there is no such height while nothing is
\* canonical.
CanonicalTip == CHOOSE b \in Tops(Canonical) : TRUE
MaxCanonicalHeight == Height[CanonicalTip]

\* Mutant: pending blocks count at every height.
BugVisible == {b \in Blocks : status[b] \in {"canonical", "pending"}}

\* The blocks CTE of maybe_block.sql and maybe_account_balance_info.sql.
Visible ==
  Canonical \cup
    {b \in Blocks : /\ status[b] = "pending"
                    /\ Canonical # {}
                    /\ Height[b] > MaxCanonicalHeight}

\* query_best.sql, and where the recursion of query_pending.sql starts.
Best == CHOOSE b \in Tops(Stored) : \A c \in Tops(Stored) : Rank[b] <= Rank[c]

\* Mutant: the recursion joins a block only if that block is not canonical.
BugPendingChain ==
  IF Stored = {} THEN {}
  ELSE {b \in Line[Best] : \A c \in Line[Best] :
          Height[c] >= Height[b] => status[c] # "canonical"}

\* query_pending.sql: from the best block down through its parents, as long
\* as the block reached is not canonical; the first canonical one is in.
PendingChain ==
  IF Stored = {} THEN {}
  ELSE {b \in Line[Best] : \A c \in Line[Best] :
          Height[c] > Height[b] => status[c] # "canonical"}

QueryPending(i) == {b \in PendingChain : Height[b] = i}
QueryCanonical(i) == {b \in Canonical : Height[b] = i}
QueryHash(h) == Stored \cap {h}
QueryBoth(i, h) == {b \in Stored : b = h /\ Height[b] = i}
QueryBest == IF Stored = {} THEN {} ELSE {Best}

\* What fetch_optional may return: some row, or None if there is none.
FetchOptional(rows) == IF rows = {} THEN {None} ELSE rows

-----------------------------------------------------------------------------
ArchiveInit == status = [b \in Blocks |-> "absent"]

\* How the archiver leaves the statuses when block b has arrived.
StatusAfter(b) ==
  [c \in Blocks |->
     IF c # b /\ status[c] = "absent" THEN "absent"
     ELSE IF b = Genesis THEN "canonical"
     ELSE IF MaxCanonicalHeight < Height[c] /\ Height[c] + K <= Height[b]
          THEN IF c \in Line[b] THEN "canonical" ELSE "orphaned"
     ELSE IF c = b THEN "pending"
     ELSE status[c]]

\* A block arrives after its parent.  It is late, or it extends the
\* settled chain.
Arrive(b) ==
  /\ status[b] = "absent"
  /\ \/ b = Genesis
     \/ /\ Parent(b) \in Stored
        /\ \/ Height[b] <= MaxCanonicalHeight
           \/ Canonical \subseteq Line[b]
  /\ status' = StatusAfter(b)

-----------------------------------------------------------------------------
ArchiveTypeOK == status \in [Blocks -> Statuses]
=============================================================================
