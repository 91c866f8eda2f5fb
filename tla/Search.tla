------------------------------- MODULE Search -------------------------------
(***************************************************************************)
(* /search/transactions, src/src/api/search_transactions.rs, over the      *)
(* indexer_*_commands queries of src/sql/queries.                          *)
(*                                                                         *)
(* A page is put together from three tables by three statements, each on   *)
(* its own connection of the pool and with no transaction around them, so  *)
(* the archiver may add or reclassify blocks in between.  What is left of  *)
(* offset and limit is carried from one table to the next, and the client  *)
(* walks the result by asking again from next_offset.                      *)
(*                                                                         *)
(* Handlers share nothing but the archive, so one client and its requests, *)
(* one after the other, are enough; the archive moves at any time.         *)
(***************************************************************************)
EXTENDS Integers, FiniteSets

CONSTANTS
  Commands,    \* commands, numbered as the queries order them
  TableOf,     \* the table a command is in
  Blocks,      \* blocks
  BlockOf,     \* the block of a command
  Height,      \* the height of a block
  Genesis,     \* the block that is canonical from the start
  Accounts,    \* account identifiers
  AccountsOf,  \* what LEFT JOIN account_identifiers finds for its receiver
  None,        \* next_offset: None
  Limits,      \* the limits clients ask for
  Offsets,     \* the offsets they start from
  MaxChanges   \* bound: changes of the blocks table

Tables == {"user", "internal", "zkapp"}
Statuses == {"absent", "pending", "canonical", "orphaned"}

ASSUME CommandsAssumption == Commands \subseteq Nat /\ IsFiniteSet(Commands)
ASSUME TablesAssumption == TableOf \in [Commands -> Tables]
ASSUME BlocksAssumption ==
  /\ BlockOf \in [Commands -> Blocks]
  /\ Height \in [Blocks -> Nat]
  /\ Genesis \in Blocks
\* A LEFT JOIN returns one row at least, with nulls if it finds nothing.
ASSUME AccountsAssumption ==
  /\ IsFiniteSet(Accounts)
  /\ AccountsOf \in [Commands -> (SUBSET Accounts) \ {{}}]
ASSUME RequestsAssumption == Limits \subseteq Nat /\ Offsets \subseteq Nat
ASSUME NoOffsetAssumption == None \notin Nat
ASSUME ChangesAssumption == MaxChanges \in Nat

VARIABLES
  status,   \* chain_status of each block
  changes,  \* how often the blocks table has changed
  phase,    \* the statement the handler is about to run
  asked,    \* the request: the commands its WHERE keeps, offset and limit
  offset,   \* the handler's own offset and limit, adjusted as it goes
  limit,
  page,     \* the rows collected from each table
  total,    \* total_count
  next,     \* next_offset of the response
  origin,   \* history: the offset this walk of the client began at
  walked,   \* history: the rows of the earlier pages of this walk
  steady    \* history: no block has changed since the walk began

archiveVars == <<status, changes>>
walkVars == <<asked, origin, walked, steady>>
searchVars == <<archiveVars, walkVars, phase, offset, limit, page, total, next>>

-----------------------------------------------------------------------------
Canonical == {b \in Blocks : status[b] = "canonical"}

\* The blocks CTE.  With no canonical block max(height) is null, and no
\* pending one passes.
VisibleBlocks ==
  Canonical \cup
  {b \in Blocks : /\ status[b] = "pending"
                  /\ Canonical # {}
                  /\ \A c \in Canonical : Height[c] < Height[b]}

\* The *_info CTE of a table, for the request at hand.
Matching(t) ==
  {c \in asked.wanted : TableOf[c] = t /\ BlockOf[c] \in VisibleBlocks}

Rank(c, S) == Cardinality({d \in S : d <= c})

\* ORDER BY .. LIMIT l OFFSET o
Slice(S, o, l) == {c \in S : o < Rank(c, S) /\ Rank(c, S) <= o + l}

\* A user or internal command comes back once for each account identifier
\* of its receiver.
Joined(S) == {r \in S \X Accounts : r[2] \in AccountsOf[r[1]]}

\* The rows of a zkapp command are grouped by block and hash into one
\* transaction.
Grouped(S) == S \X {"zkapp"}

\* Mutant: the count is taken of what LIMIT lets through.
BugTotalCount(t, rows) == Cardinality(rows)

\* rows.first().and_then(total_count).unwrap_or(0)
TotalCount(t, rows) == IF rows = {} THEN 0 ELSE Cardinality(Matching(t))

\* Mutant: nothing is carried over to the next table.
BugLess(x, n) == x

\* Mutant: the subtraction does not stop at zero.
BugLessSigned(x, n) == x - n

\* One side of adjust_limit_and_offset.
Less(x, n) == IF x >= n THEN x - n ELSE 0

PageLen == Cardinality(page["user"]) + Cardinality(page["internal"])

\* The rows of one statement each.
fetch_user_commands(o, l) == Joined(Slice(Matching("user"), o, l))
fetch_internal_commands(o, l) == Joined(Slice(Matching("internal"), o, l))
fetch_zkapp_commands(o, l) == Grouped(Slice(Matching("zkapp"), o, l))

NoRows == [t \in Tables |-> {}]

SearchInit ==
  /\ status = [b \in Blocks |-> IF b = Genesis THEN "canonical" ELSE "absent"]
  /\ changes = 0
  /\ phase = "idle"
  /\ asked = [wanted |-> {}, offset |-> 0, limit |-> 0]
  /\ offset = 0 /\ limit = 0
  /\ page = NoRows
  /\ total = 0
  /\ next = None
  /\ origin = 0 /\ walked = {} /\ steady = TRUE

-----------------------------------------------------------------------------
Start(request) ==
  /\ asked' = request
  /\ offset' = request.offset
  /\ limit' = request.limit
  /\ page' = NoRows
  /\ total' = 0
  /\ next' = None
  /\ phase' = "users"

\* A client asks for something new: its filters decide what is wanted.  limit
\* defaults to 100, offset to 0.
Search(wanted, o, l) ==
  /\ phase \in {"idle", "answered"}
  /\ Start([wanted |-> wanted, offset |-> o, limit |-> l])
  /\ origin' = o
  /\ walked' = {}
  /\ steady' = TRUE
  /\ UNCHANGED archiveVars

\* It asks for the next page.
Continue ==
  /\ phase = "answered"
  /\ next # None
  /\ Start([asked EXCEPT !.offset = next])
  /\ walked' = walked \cup UNION {page[t] : t \in Tables}
  /\ UNCHANGED <<archiveVars, origin, steady>>

\* An error leaves the handler: the network, the status filter or one of the
\* statements.  (A token_id that is no string panics, with the same effect.)
Fail ==
  /\ phase \in {"users", "internals", "zkapps"}
  /\ phase' = "idle"
  /\ page' = NoRows
  /\ total' = 0
  /\ UNCHANGED <<archiveVars, walkVars, offset, limit, next>>

FetchUsers ==
  LET rows == fetch_user_commands(offset, limit)
  IN  /\ phase = "users"
      /\ page' = [page EXCEPT !["user"] = rows]
      /\ total' = total + TotalCount("user", rows)
      /\ phase' = "internals"
      /\ UNCHANGED <<archiveVars, walkVars, offset, limit, next>>

\* "if we are below the limit, fetch internal commands"
FetchInternals ==
  LET got == Cardinality(page["user"])
      rows == fetch_internal_commands(offset', limit')
  IN  /\ phase = "internals"
      /\ limit > PageLen
      /\ offset' = Less(offset, got)
      /\ limit' = Less(limit, got)
      /\ page' = [page EXCEPT !["internal"] = rows]
      /\ total' = total + TotalCount("internal", rows)
      /\ phase' = "zkapps"
      /\ UNCHANGED <<archiveVars, walkVars, next>>

\* Mutant: the count is left out.
BugCountInternals ==
  /\ phase = "internals"
  /\ limit <= PageLen
  /\ phase' = "zkapps"
  /\ UNCHANGED <<archiveVars, walkVars, offset, limit, page, total, next>>

\* "otherwise only fetch the first internal command to get the total count"
CountInternals ==
  /\ phase = "internals"
  /\ limit <= PageLen
  /\ total' = total + TotalCount("internal", fetch_internal_commands(0, 1))
  /\ phase' = "zkapps"
  /\ UNCHANGED <<archiveVars, walkVars, offset, limit, page, next>>

\* Mutant: the last page is not recognised.
BugRespond(len, count) ==
  /\ next' = IF asked.offset + len <= count THEN asked.offset + len ELSE None
  /\ total' = count
  /\ phase' = "answered"

\* The response, of len transactions.
Respond(len, count) ==
  /\ next' = IF asked.offset + len < count THEN asked.offset + len ELSE None
  /\ total' = count
  /\ phase' = "answered"

\* Mutant: the adjusted offset is forgotten.
BugFetchZkapps ==
  LET got == Cardinality(page["internal"])
      rows == fetch_zkapp_commands(0, limit')
  IN  /\ phase = "zkapps"
      /\ limit > PageLen
      /\ offset' = Less(offset, got)
      /\ limit' = Less(limit, got)
      /\ page' = [page EXCEPT !["zkapp"] = rows]
      /\ Respond(PageLen + Cardinality(rows), total + TotalCount("zkapp", rows))
      /\ UNCHANGED <<archiveVars, walkVars>>

\* "if we are below the limit, fetch zkapp commands": the limit that is left
\* is compared with everything collected so far.
FetchZkapps ==
  LET got == Cardinality(page["internal"])
      rows == fetch_zkapp_commands(offset', limit')
  IN  /\ phase = "zkapps"
      /\ limit > PageLen
      /\ offset' = Less(offset, got)
      /\ limit' = Less(limit, got)
      /\ page' = [page EXCEPT !["zkapp"] = rows]
      /\ Respond(PageLen + Cardinality(rows), total + TotalCount("zkapp", rows))
      /\ UNCHANGED <<archiveVars, walkVars>>

\* "otherwise only fetch the first zkapp command to get the total count"
CountZkapps ==
  LET first == fetch_zkapp_commands(0, 1)
  IN  /\ phase = "zkapps"
      /\ limit <= PageLen
      /\ Respond(PageLen, total + TotalCount("zkapp", first))
      /\ UNCHANGED <<archiveVars, walkVars, offset, limit, page>>

-----------------------------------------------------------------------------
\* The archiver has seen a new block.
BlockArrives(b) ==
  /\ status[b] = "absent"
  /\ changes < MaxChanges
  /\ status' = [status EXCEPT ![b] = "pending"]
  /\ changes' = changes + 1
  /\ steady' = FALSE
  /\ UNCHANGED <<asked, origin, walked, phase, offset, limit, page, total, next>>

\* It has settled for b, and its rivals are orphaned.
Canonicalise(b) ==
  /\ status[b] = "pending"
  /\ \A c \in Canonical : Height[c] < Height[b]
  /\ changes < MaxChanges
  /\ status' = [c \in Blocks |->
       IF c = b THEN "canonical"
       ELSE IF status[c] = "pending" /\ Height[c] = Height[b] THEN "orphaned"
       ELSE status[c]]
  /\ changes' = changes + 1
  /\ steady' = FALSE
  /\ UNCHANGED <<asked, origin, walked, phase, offset, limit, page, total, next>>

SearchNext ==
  \/ \E wanted \in SUBSET Commands, o \in Offsets, l \in Limits : Search(wanted, o, l)
  \/ Continue
  \/ Fail
  \/ FetchUsers
  \/ FetchInternals \/ CountInternals
  \/ FetchZkapps \/ CountZkapps
  \/ \E b \in Blocks : BlockArrives(b) \/ Canonicalise(b)

SearchSpec == SearchInit /\ [][SearchNext]_searchVars

-----------------------------------------------------------------------------
Rows == UNION {page[t] : t \in Tables}
Found == {r[1] : r \in Rows}

SearchTypeOK ==
  /\ status \in [Blocks -> Statuses]
  /\ changes \in 0..MaxChanges
  /\ phase \in {"idle", "users", "internals", "zkapps", "answered"}
  /\ asked \in [wanted : SUBSET Commands, offset : Nat, limit : Nat]
  /\ offset \in Nat
  /\ limit \in Nat
  /\ page \in [Tables -> SUBSET (Commands \X (Accounts \cup {"zkapp"}))]
  /\ total \in Nat
  /\ next \in Nat \cup {None}
  /\ origin \in Nat
  /\ walked \subseteq Commands \X (Accounts \cup {"zkapp"})
  /\ steady \in BOOLEAN

(***************************************************************************)
(* No response names more commands than its limit, whichever of the        *)
(* tables they come from and whatever the archive does in between.  (It    *)
(* may hold more transactions: a command is repeated for every account     *)
(* identifier of its receiver.)                                            *)
(***************************************************************************)
PageWithinLimit == Cardinality(Found) <= asked.limit

(***************************************************************************)
(* A client that asks for at least one transaction a page and follows      *)
(* next_offset never asks for the same page twice, so its walk ends.       *)
(***************************************************************************)
WalkAdvances ==
  phase = "answered" /\ asked.limit >= 1 /\ next # None => next > asked.offset

(***************************************************************************)
(* total_count of a page that starts at offset 0 is the number of matching *)
(* commands of all the tables, also of those the page has no room for.     *)
(***************************************************************************)
FirstTotalRight ==
  phase = "answered" /\ steady /\ asked.offset = 0 /\ asked.limit >= 1 =>
    total = Cardinality(Matching("user")) + Cardinality(Matching("internal"))
              + Cardinality(Matching("zkapp"))

(***************************************************************************)
(* While the archive stands still no transaction is on two pages of a      *)
(* walk, though offset and limit are split over three tables.              *)
(***************************************************************************)
WalkRepeatsNothing == steady => Rows \cap walked = {}

(***************************************************************************)
(* A walk from offset 0 over commands of one table, none of whose          *)
(* receivers has a second account identifier, misses nothing.  (Over       *)
(* several tables it does: what is subtracted from the offset is what this *)
(* page got, not what the earlier ones did.)                               *)
(***************************************************************************)
OneTableComplete ==
  \A t \in Tables :
    /\ phase = "answered" /\ next = None /\ steady /\ asked.limit >= 1
    /\ \A c \in asked.wanted : TableOf[c] = t /\ Cardinality(AccountsOf[c]) = 1
    /\ origin = 0
    => {r[1] : r \in walked \cup Rows} = Matching(t)

(***************************************************************************)
(* search_transactions.rs, "if we are below the limit, fetch zkapp         *)
(* commands": a first page with room left holds matching zkapp commands if *)
(* there are any.  The test counts the user commands twice, once as used   *)
(* up and once as collected, so a page can be short of them.               *)
(***************************************************************************)
BelowLimitFetchesZkapps ==
  /\ phase = "answered" /\ steady /\ asked.offset = 0
  /\ Cardinality(Rows) < asked.limit
  /\ Matching("zkapp") # {}
  => page["zkapp"] # {}
=============================================================================
