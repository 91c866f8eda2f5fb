------------------------------ MODULE Balance ------------------------------
(***************************************************************************)
(* /account/balance, src/src/api/account_balance.rs: what an account held  *)
(* at a block, and how much of that was vested.                            *)
(*                                                                         *)
(* The archive has a row for each block that touched the account.  The     *)
(* handler finds the block asked for, then, by height, the last row up to  *)
(* it, then the account's vesting schedule; three statements, with the     *)
(* archiver in between.  Amounts are u64: what the code does at the upper  *)
(* end, and in the subtractions and additions it does not guard, is        *)
(* modelled with MaxU64 as that end (a release build wraps).               *)
(***************************************************************************)
EXTENDS Archive

CONSTANTS
  MaxU64,     \* u64::MAX
  Touched,    \* the blocks with a row of the account in accounts_accessed
  AmountAt,   \* its balance in that row
  Slot,       \* global_slot_since_genesis of each block
  Schedules   \* vesting schedules of accounts, None for one without

VARIABLES
  bphase,    \* where the request is
  at,        \* the height it gives, or None
  atHash,    \* the hash it gives, or None
  block,     \* the row of maybe_block.sql
  row,       \* the block of the row of maybe_account_balance_info.sql
  schedule,  \* the schedule of the account, once timing_info is read
  reply,     \* the balances of the response
  final,     \* history: the block was canonical when it was found
  forked     \* history: visible blocks were not on one line meanwhile

balanceVars == <<bphase, at, atHash, block, row, schedule, reply, final, forked>>

-----------------------------------------------------------------------------
BalancePhases == {"idle", "find", "account", "timing", "frontier",
                  "answered", "missing", "failed", "panicked"}
BalanceDone == {"answered", "missing", "failed", "panicked"}

Amounts == 0..MaxU64
NoReply == [total |-> 0, liquid |-> 0, locked |-> 0]

ASSUME AmountsAssumption ==
  /\ MaxU64 \in Nat \ {0}
  /\ Touched \subseteq Blocks
  /\ AmountAt \in [Blocks -> Amounts]
  /\ Slot \in [Blocks -> Nat]
  /\ \A b \in Blocks : \A c \in Line[b] : Slot[c] <= Slot[b]
ASSUME SchedulesAssumption ==
  \A s \in Schedules \ {None} :
    s \in [cliff_time : Nat, cliff_amount : Amounts, vesting_period : Nat,
           vesting_increment : Amounts, initial_minimum_balance : Amounts]

-----------------------------------------------------------------------------
Wrap(n) == n % (MaxU64 + 1)
SaturatingSub(a, b) == IF a < b THEN 0 ELSE a - b

\* What is left of the minimum once the cliff is past.
PastCliff(s) == SaturatingSub(s.initial_minimum_balance, s.cliff_amount)

NumPeriods(slot, s) == (slot - s.cliff_time) \div s.vesting_period

\* min_balance_at_slot divides u64::MAX by the number of periods, which is
\* zero during the first one.
Panics(slot, s) ==
  /\ slot >= s.cliff_time
  /\ s.vesting_period # 0
  /\ PastCliff(s) # 0
  /\ NumPeriods(slot, s) = 0

\* Mutant: the product is taken unchecked.
BugDecrement(n, increment) == Wrap(n * increment)

\* vesting_decrement, with the check that the product fits.
Decrement(n, increment) ==
  IF MaxU64 \div n < increment THEN MaxU64 ELSE Wrap(n * increment)

\* min_balance_at_slot, where it does not panic.
MinBalance(slot, s) ==
  IF slot < s.cliff_time THEN s.initial_minimum_balance
  ELSE IF s.vesting_period = 0 \/ PastCliff(s) = 0 THEN 0
  ELSE SaturatingSub(PastCliff(s),
                     Decrement(NumPeriods(slot, s), s.vesting_increment))

\* incremental_balance_between_slots
Incremental(from, to, s) ==
  IF to <= from THEN 0
  ELSE SaturatingSub(MinBalance(from, s), MinBalance(to, s))

IncrementalPanics(from, to, s) ==
  from < to /\ (Panics(from, s) \/ Panics(to, s))

-----------------------------------------------------------------------------
\* The rows of accounts_accessed a query by height may return.
RowsUpTo(h) == Tops({b \in Visible \cap Touched : Height[b] <= h})

\* Blocks that lie on one line.
OneLine(S) == \A b, c \in S : b \in Line[c] \/ c \in Line[b]

BalanceInit ==
  /\ bphase = "idle"
  /\ at = None /\ atHash = None
  /\ block = None /\ row = None
  /\ schedule = None
  /\ reply = NoReply
  /\ final = FALSE /\ forked = FALSE

\* The request names a block, and validate_network has let it pass.
AskBalance(i, h) ==
  /\ bphase = "idle"
  /\ bphase' = "find"
  /\ at' = i
  /\ atHash' = h
  /\ forked' = ~ OneLine(Visible)
  /\ UNCHANGED <<status, block, row, schedule, reply, final>>

\* maybe_block.sql has no ORDER BY: a height with forks, and a request that
\* names neither height nor hash, match several blocks.
FindBlock ==
  /\ bphase = "find"
  /\ \E b \in FetchOptional({c \in Visible : /\ at \in {None, Height[c]}
                                             /\ atHash \in {None, c}}) :
       /\ block' = b
       /\ final' = (b \in Canonical)
       /\ bphase' = IF b = None THEN "missing" ELSE "account"
  /\ UNCHANGED <<status, at, atHash, row, schedule, reply, forked>>

\* maybe_account_balance_info.sql, by the height of the block found.  No row
\* is a balance of zero.
FindAccount ==
  /\ bphase = "account"
  /\ \E b \in FetchOptional(RowsUpTo(Height[block])) :
       /\ row' = b
       /\ bphase' = IF b = None THEN "answered" ELSE "timing"
  /\ UNCHANGED <<status, at, atHash, block, schedule, reply, final, forked>>

Balances(total, liquid) ==
  [total |-> total, liquid |-> liquid, locked |-> Wrap(total - liquid)]

\* timing_info.sql and the arithmetic.  The accounts that have these rows
\* differ in their schedules; which one was asked about shows here.
ReadTiming ==
  /\ bphase = "timing"
  /\ schedule' \in Schedules
  /\ LET total == AmountAt[row]
     IN  IF schedule' = None
         THEN /\ bphase' = "answered"
              /\ reply' = Balances(total, total)
         ELSE IF IncrementalPanics(Slot[row], Slot[block], schedule')
         THEN /\ bphase' = "panicked"
              /\ UNCHANGED reply
         ELSE /\ bphase' = "answered"
              /\ reply' = Balances(total, Wrap(total +
                   Incremental(Slot[row], Slot[block], schedule')))
  /\ UNCHANGED <<status, at, atHash, block, row, final, forked>>

\* A request without a block is for the balance the daemon has now.
AskFrontier ==
  /\ bphase = "idle"
  /\ bphase' = "frontier"
  /\ UNCHANGED <<status, at, atHash, block, row, schedule, reply, final, forked>>

\* frontier_balance: the daemon, which is external, gives both balances, or
\* has no such account.
DaemonBalance ==
  /\ bphase = "frontier"
  /\ \/ /\ bphase' = "missing"
        /\ UNCHANGED reply
     \/ \E b \in Touched : \E liquid \in {0, AmountAt[b]} :
          /\ bphase' = "answered"
          /\ reply' = Balances(AmountAt[b], liquid)
  /\ UNCHANGED <<status, at, atHash, block, row, schedule, final, forked>>

\* A statement or the daemon's query fails.
BalanceFails ==
  /\ bphase \in {"find", "account", "timing", "frontier"}
  /\ bphase' = "failed"
  /\ UNCHANGED <<status, at, atHash, block, row, schedule, reply, final, forked>>

\* The response goes out, and the next request may come.
BalanceReplied ==
  /\ bphase \in BalanceDone
  /\ bphase' = "idle"
  /\ at' = None /\ atHash' = None
  /\ block' = None /\ row' = None
  /\ schedule' = None
  /\ reply' = NoReply
  /\ final' = FALSE /\ forked' = FALSE
  /\ UNCHANGED status

BalanceStep ==
  \/ AskFrontier \/ DaemonBalance
  \/ FindBlock \/ FindAccount \/ ReadTiming
  \/ BalanceFails \/ BalanceReplied

-----------------------------------------------------------------------------
BalanceTypeOK ==
  /\ bphase \in BalancePhases
  /\ block \in Blocks \cup {None}
  /\ row \in Touched \cup {None}
  /\ schedule \in Schedules \cup {None}
  /\ reply \in [total : Amounts, liquid : Amounts, locked : Amounts]
  /\ final \in BOOLEAN /\ forked \in BOOLEAN
  /\ bphase \in {"account", "timing"} => block \in Stored
  /\ bphase = "timing" => row \in Touched
  /\ block # None => bphase \notin {"idle", "find", "frontier"}
  /\ row # None => /\ bphase \notin {"idle", "find", "account", "frontier"}
                   /\ Height[row] <= Height[block]
  /\ final => block \in Canonical

(***************************************************************************)
(* The balance is that of the block it is given for: the last row of the   *)
(* account on that block's own line.  So it is for a canonical block       *)
(* whatever the archive does between the statements, and for a pending one *)
(* as long as no fork was visible; with one, the two statements, which     *)
(* share only a height, may follow different branches.                     *)
(***************************************************************************)
BalanceOfBlock ==
  /\ block # None /\ (final \/ ~ forked)
  /\ bphase \in {"timing", "answered", "panicked"}
  => row \in FetchOptional(Tops(Line[block] \cap Touched))

\* The minimum balance of a schedule, in unbounded integers.
Minimum(slot, s) ==
  LET periods == IF s.vesting_period = 0 THEN 0 ELSE NumPeriods(slot, s)
      left == s.initial_minimum_balance - s.cliff_amount
                - periods * s.vesting_increment
  IN  IF slot < s.cliff_time THEN s.initial_minimum_balance
      ELSE IF s.vesting_period = 0 \/ left < 0 THEN 0
      ELSE left

(***************************************************************************)
(* What is added to the balance of the last row is exactly what the        *)
(* schedule freed from that row's slot to the block's: the check before    *)
(* the product, and the saturating subtractions, lose and add nothing at   *)
(* either end of u64.                                                      *)
(***************************************************************************)
VestingExact ==
  (bphase = "answered" /\ row # None /\ schedule # None)
    => LET from == Slot[row]
           to == Slot[block]
           freed == IF to <= from THEN 0
                    ELSE Minimum(from, schedule) - Minimum(to, schedule)
       IN  freed >= 0 /\ reply.liquid = Wrap(reply.total + freed)

(***************************************************************************)
(* network_options.rs says "historical_balance_lookup: true".  The lookup  *)
(* divides by zero when the account is in the first vesting period after   *)
(* its cliff, and the request dies without an answer.                      *)
(***************************************************************************)
LookupSurvives == bphase # "panicked"

(***************************************************************************)
(* The balances of a response are parts of a whole (the snapshots of       *)
(* tests/account_balance.rs: liquid and locked add up to total).  The      *)
(* vested part is added to the total instead, and locked wraps around.     *)
(***************************************************************************)
LiquidWithinTotal == reply.liquid <= reply.total
=============================================================================
