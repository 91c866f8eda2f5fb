# MinaMesh in TLA+

MinaMesh is a server that gives exchanges and wallets the Mesh (Rosetta) view of
the Mina blockchain. It keeps almost nothing itself: it asks a Mina daemon over
GraphQL, reads the archive database the archiver writes, and remembers a few
things in one concurrent map. What is hard about it lies between these parties:
requests that overlap, answers that are lost or late, an archive that changes
between two statements, numbers of fixed width, and protocols of several calls
that the client, not the server, holds together.

This directory has models of these parts, configurations that check them with
TLC on small instances, and proofs, checked by TLAPS, that the most important
properties hold for every value of the constants.

## The system

| component | code | state | operations | talks to |
|---|---|---|---|---|
| transaction cache | `api/cache.rs` | the `txn_` entries of `MinaMesh.cache`, a `DashMap` | `cache_transaction`, `is_transaction_cached`, eviction | submission |
| network validation | `api/validate_network.rs`, `api/cache.rs` | the `network_id` entry of the same map, with its time to live | `validate_network`, first in nearly every handler | daemon |
| transaction submission | `api/construction_submit.rs` | the request; the cache | `construction_submit`, `map_error`, `is_transaction_in_db` | cache, daemon, archive |
| transaction search | `api/search_transactions.rs`, `sql/queries/indexer_*` | offset and limit within a request; `next_offset` in the client | three paged statements, total count | archive |
| block lookup | `api/block.rs`, `sql/queries/query_*` | the request | resolve an identifier, read parent and commands | archive |
| account balance | `api/account_balance.rs` | the request | three statements and the vesting arithmetic; or one question to the daemon | archive, daemon |
| operations of transactions | `transaction_operations.rs`, `types.rs` | none | commands to operations, operations to `PartialUserCommand` | all of the above |
| offline construction | `api/construction_*.rs`, `memo.rs` | none; the client carries everything | preprocess, metadata, payloads, parse, combine, hash, derive | daemon (metadata only) |
| search optimisation | `commands/search_tx_optimizations.rs`, `sql/migrations` | `*_aggregated` tables, their triggers, the migrator's version row and its advisory lock | `--apply`, `--drop`, `--check`; the triggers | archive, archiver, search |
| mempool, lists, options, status, call | `api/mempool*.rs`, `api/network_*.rs`, `api/call.rs` | none | single questions | daemon, archive |
| server and errors | `create_router.rs`, `config.rs`, `error.rs` | shared `MinaMesh` | routing, start-up, error codes | |
| encoding and signing | `roinput.rs`, `signer_utils.rs`, `util.rs` | none | bit packing, keys, signatures | |

How they interact. Every handler runs as a task of its own and shares only the
map, the connection pool and the GraphQL client with the others. There are no
transactions around several statements, no locks, no retries and no timeouts
(`Client::new()`); a task is dropped at any `.await` when its connection closes.
The archiver adds blocks as pending and settles them later, so that two
statements of one request may see two archives. The search optimisation is a
process of its own, run by an operator while archiver and server go on; they meet
in the database's locks.

What must be right, and is hard to test:

* **cache**: insertions by several tasks, each four separate operations on the
  map, must end, must not let the cache grow without bound, and must give up an
  entry when it is full.
* **network validation**: misses that overlap store old answers under new
  stamps; how old may the network be that a request is judged by?
* **submission**: a client that did not hear the answer asks again. Its "nonce
  too low" must be told apart from somebody else's, with a cache that forgets,
  an archive that lags and a chain that reorganises.
* **search**: one offset is split over three tables while the archive moves;
  pages must stay within their limit, walks must end and repeat nothing.
* **block lookup**: a height is resolved by two statements, and the archive may
  settle that height in between.
* **account balance**: the block and the account's last row are found by two
  statements that share a height only; the vesting arithmetic must neither
  create nor lose anything at the ends of `u64`.
* **operations**: the operations of a block come out of joins over three command
  tables, the account identifiers and the accounts created; they must add up to what the
  block did, once each, and search must say the same.
* **search optimisation**: tables are copied and triggers created while the
  archiver writes; which rows are missed, what may deadlock, and is the exit code
  true after a race of two operators?
* **construction**: what is signed must be what was asked for, after five
  conversions by endpoints that remember nothing.

`PROJECT.json` lists each hazard at its line with the properties that watch it.

## The modules

```
BoundedMemory <== TxCache <-- Submit    UserCommand <-- Construct     NetworkGuard
Archive <-- Block, Balance <-- Reads    CommandOperations <-- Ledger  Search
                                                                      Aggregates
```

A single arrow is `EXTENDS`, the double one a refinement. Every module `M` checked
by itself has an `MCM` that gives its constants values, and what is proved about it is
in `MProofs`.

**TxCache** models `cache.rs` at the grain at which tasks interleave. A worker is
a task inside `cache_transaction`; `pc` is where it is. `CountShard` and
`FindShard` are one shard of the two scans, since DashMap's iterator locks one
shard at a time; `Remove` and `Insert` are one map operation each. `stamp` holds
the `Instant`s. `Restart` empties it all. Not every task at once: `MaxOverlaps`
bounds how many insertions begin while another is in progress.

**BoundedMemory** is what the cache promises those who call it: `held`, a set of
signatures of bounded size; a worker that asks makes room, by forgetting one entry
and only if the memory is full as far as it can tell, and then remembers its own.
`TxCache` instantiates it (`Memory`): the entries' keys are what is held, a worker
that has passed its scans has settled. `RemembersWithinBounds` is the abstract
specification as a property.

**Submit** extends it with the handlers. `Receive` to `Deliver` follow
`construction_submit`, `send_payment`, `send_delegation` and `map_error`, one
step per `.await`; `wire` is the mutation's answer on its way; `HangUp` drops a
handler where axum would, which leaves its mutation `stray`: it may still
arrive. `Rules` is the if-else chain of `map_error`, over the phrases it looks
for. The daemon (`DaemonAnswer`, `StrayArrives`), the chain (`Mine`, `Orphan`)
and the archiver (`Archive`, which may lag for ever) are external and appear as
the code sees them. A transaction is its signature; `PaymentKey` is what
`query_payment.sql` compares.

**NetworkGuard** is `validate_network`. `Validate` reads the entry and either
judges or asks; `DaemonTells` is when the daemon makes up its answer and `Store`
when it arrives; between them anything may happen. `lastOn`, `toldAt`, `basisAt`
and `slowest` are history.

**Search** runs the three statements of `search_transactions` as three steps
(`FetchUsers`; `FetchInternals` or `CountInternals`; `FetchZkapps` or
`CountZkapps`) and lets the archiver work between them. Commands are numbers in
the order of the queries, a page is a set of rows, and what `WHERE` keeps is any
set of commands. `Less` is `adjust_limit_and_offset`. A client walks along
`next_offset` (`Continue`). The `_optimized` queries read other tables with the
same structure and are not told apart here.

**Aggregates** is the command that makes the tables those queries read. A process
checks the version row (`Check`), takes the migrator's advisory lock (`TakeLock`) and
runs the migration, which sqlx puts into one transaction at read committed: for each
of three tables `Populate` copies what is committed, and `LockTable` creates the
trigger once no writer holds the table; then `Commit`. Dropping only locks. The
archiver's connections write a block's rows in any order (`Ask`, `InsertRow`,
`CommitBlock`, `RollBack`) and wait for table locks in the database's manner, behind
the migration's queued request too. `Aborted` is an error or a kill in mid-transaction,
`Detect` the database's way out of a deadlock. `Fetch` is what the server's search
then chooses from; `late` is history: the rows inserted between copy and trigger, or
not committed at the copy.

**Archive** is the `blocks` table and the queries over it. Blocks form a tree that
is a constant (`Line`: each block's ancestors); only `status` varies. `Arrive`
is the archiver: it adds a block and in the same transaction settles what has
become `K` deep. Blocks may come late, on branches already settled; then they
stay pending for good. `PendingChain` is the recursive query of
`query_pending.sql` as what it computes; `Visible` is the common CTE.

**Block** resolves an identifier as `block_metadata` does: `Lookup` for the single
statements, `ReadMaxCanonical` and `LookupByIndex` for the two of a height. Then
the parent, then the three command tables in any order (`try_join!`).
**Balance** is `block_balance` statement by statement, `min_balance_at_slot` and
`incremental_balance_between_slots` with wrapping and saturating arithmetic below
`MaxU64`, and `frontier_balance`. **Reads** puts one request at a time of either
kind next to the archiver; handlers of these requests share nothing else.

**UserCommand** has the conversions a payment or delegation goes through:
`FromOperations` and `ToPayload` (`PartialUserCommand`), `SignedContent` (the
input of the signature), `Transaction` (the JSON), `GenerateOperations` back to
operations, and `Reread` (`validate_operations`). Text that holds a number is
that number, of any size; reading it fails outside the width asked for. The `as
u64` cast and the addition that wraps are `AsU64` and `AddI64`. A memo has its
tag. **Construct** is a wallet that takes one transfer from preprocess to hash;
each action is one endpoint applied to what the wallet has from the ones before.
The wallet may take over the suggested fee, may skip parse, and other transfers
change the nonce meanwhile.

**CommandOperations** is `transaction_operations.rs` over the traits of `types.rs`:
the operations of a user, an internal and a zkApp command, with their statuses,
indices and relations. **Ledger** puts a block together from payments, delegations,
coinbases, fee transfers and zkApp commands (external: each with its effect on the
balances and its rows in the archive), and then reads it back: `ReadBlock` through the
joins of `user_commands.sql`, `internal_commands.sql` and `zkapp_commands.sql`,
`ReadSearch` through those of the `indexer_*` queries. A `DISTINCT ON` without an
`ORDER BY` is a choice.

## The runs

Besides what the table names, every passing run but `cache` checks the type
invariant of its module. Every property is in the module of the component, with a comment that states it.
Each property of a passing run is known to fail for a plausible mistake in the
code: the definitions named `Bug...`, listed under `mutants` in `PROJECT.json`.

| run | configuration | shows |
|---|---|---|
| `cache` | 3 tasks, 3 signatures, limit 2, 2 shards, 1 tick, 2 overlaps | `TypeOK` (no removal without a victim), `LimitPlusOverlaps`, `InsertionEnds`, `InsertionAdvances`, `RemembersWithinBounds` |
| `cache_victim` | 1 task, 3 signatures, limit 2, no overlap | **violated**: `VictimIsOldest` |
| `submit` | 1 request at a time: 2 alike payments, 1 delegation, 1 malformed, 2 blocks; or 2 at a time: 1 payment, 1 delegation, 1 block; a cache for 1, 1 stray mutation | `VerdictsTrue`, `ArchivedRecognised`, `RequestAnswered`, `OkRecorded`, `RequestAdvances`, `CacheRespected` |
| `search` | 2 commands in each table, 3 blocks, limits 0, 1, 2, 100, 3 changes of the archive | `PageWithinLimit`, `WalkAdvances`, `FirstTotalRight`, `WalkRepeatsNothing`, `OneTableComplete` |
| `search_zkapps` | the same | **violated**: `BelowLimitFetchesZkapps` |
| `network` | 2 requests, 2 networks, time to live 2, clock to 5 | `AnswerRecent` |
| `reads` | 7 blocks on two branches, `K` = 1, numbers of 4 bits, every shape of vesting schedule the balances allow, or none | `IndexLookupRight`, `BalanceOfBlock`, `VestingExact` |
| `balance_panics`, `balance_locked` | the same | **violated**: `LookupSurvives`, `LiquidWithinTotal` |
| `construct` | operations of every form, `i64` of 4 bits, five sorts of addresses, three of tokens, three memos | `SignedIsMeant`, `HashIsOfSigned`, `RefusedForCause` |
| `aggregates` | 2 operators, 2 archiver connections, 2 rows in the first table and 1 in the last, 3 runs of the command | `MissesOnlyLate`, `MigrationFits`, `ExitTruthful`, `CommandAdvances`, `CommandEnds` |
| `operations` | 3 keys, 2 tokens, 3 transactions in the block, four sets of account updates | `Reconciles`, `IdentifiersUnique`, `NothingElseOmitted`, `BlockMatchesSearch` |

Why the bounds are enough for the questions asked:

* `cache`: two tasks suffice for every pairwise race, the third makes a race over
  a victim that a second race has inserted; two shards make a scan miss and meet
  entries behind and ahead of it, and two signatures share a shard so that ties
  occur; one tick separates old from young.
* `submit`: the verdicts depend on one transaction, a rival that agrees with it
  in all the query compares, and one that uses up its nonce. A cache for one
  makes eviction immediate, so that two requests that meet evict each other. A second
  mutation under way adds nothing that a retry does not do. `MCNext` bounds what comes
  from outside: requests meet only in a world of one payment, one delegation and one
  block, with no stray mutation left from before, and their insertions overlap once.
  It keeps no step of a handler from being taken. The error text has two of the
  phrases `map_error` looks for, so that their order matters; a text with none is
  the outcome of a failed transport.
* `search`: with limits 0, 1, 2 and 100 the pages end before, at and after every
  table; the fourth command has two rows, so that rows and commands differ.
* `reads`: while the longer branch settles, the shorter has pending blocks at
  settled and unsettled heights; the archive can settle one, and with both
  arrivals two, heights between two statements. Four bits let every operation
  saturate and wrap, and products overflow.
* `network`: five ticks are two times the time to live and one more.
* `construct`: amounts run from below the least to above the greatest `i64`, so
  that the cast changes signs and the sum wraps.
* `aggregates`: two rows in one table, so that one can be early and the other late;
  a row in another table, so that an archiver transaction can hold one table and
  wait for the other, which is all a deadlock needs; three runs let one operator
  apply and another drop what a third check has seen.
* `operations`: a payer with an account, a key with an account in another token only
  and one without any account; three transactions allow a failed mention before the
  one that creates the account and another after it, and two coinbases next to a
  fee transfer.

Deadlock is checked in every run but two: in `aggregates` the runs of the command are
used up and all rows written in the end, in `operations` the block is full and both
answers given.

### Fairness

`TxCache` has weak fairness of the steps of a running insertion: nothing in
`insert_into_cache` waits, and the runtime keeps polling a task that can run.
`Submit` adds weak fairness of the handler's own steps for the same reason, and
`NetworkSettles`: a mutation is answered or its connection breaks. That one is an
assumption about the network, not about the code, which sets no timeout; without
it a request may wait for ever, and `RequestAnswered` does not hold. Nothing is
assumed about the daemon's acceptance, the chain or the archiver. `Aggregates` has
weak fairness of the steps of a running command (statements end, the lock is given
to somebody who waits), of an archiver that has begun a block (it inserts what it
asked for and commits), and of `Detect`, the database's deadlock timeout; nobody need
run the command or send another row. The other
specifications have no liveness properties and no fairness.

## Findings

* **A page with room left skips the zkapp commands** (`search_zkapps`,
  `search_transactions.rs:64`). The limit left is compared with all that was
  collected, user commands counted twice.
* **The balance lookup panics in the first vesting period** (`balance_panics`,
  `account_balance.rs:170`): `u64::MAX / num_periods` with no period elapsed.
* **The liquid balance exceeds the total, and the locked one wraps**
  (`balance_locked`, `account_balance.rs:81`): what vested is added to the whole
  balance.
* **A full cache removes its youngest entry** (`cache_victim`, `cache.rs:40`).
  `cache.rs:28` says "Find the oldest transaction entry", `cache.rs:43` "Remove the
  oldest transaction entry" and `config.rs:79` "Cache limit for last n transactions
  submitted"; but `min_by_key` over `elapsed()` finds the entry inserted last, so that
  a full cache keeps its first entries for good. `CacheEvictsYoungest` proves that it
  is always so.

Things met that no property forbids: the properties name them as exceptions, or work
around them in the open. Where `/block` and search disagree, no line of
the repository says which of them is meant.

* Cache: the limit may be exceeded by one entry for each overlapping insertion.
* Submission: a payment that differs from an archived one in memo or expiry only is
  called a duplicate.
* Search: a walk over several tables misses commands; `limit = 0` makes a client ask
  for one page for ever.
* Block and balance: a balance at a height with forks may mix two branches; `/block`
  panics while nothing is canonical.
* Construction: without a memo, what is signed has a memo of zeros and what parse and
  hash rebuild has an empty one with its tag (`types.rs:1016`): parse refuses, hash
  answers with the hash of another command. A `valid_until` that is no `u32` is dropped
  silently; the token takes no part in what is signed.
* Operations, what the two endpoints omit (`NothingElseOmitted`, which allows nothing
  else): `/search/transactions` never returns a zkApp command without account updates,
  since the INNER JOINs that follow the LEFT JOIN of `indexer_zkapp_commands.sql:58`
  lose it, while `/block` shows it; `/block` hides a zkApp command whose updates are all
  in other tokens, with its fee (`zkapp_commands.sql:40`), and a failed internal command
  whose receiver has no account in the default token, while search returns both.
* Operations, what they say of a command: the account creation fee of an internal
  command has its sign turned (`transaction_operations.rs:204`); `/block` calls failed
  internal commands a success (`types.rs:402`), search does not; in a block with several
  coinbases `/block` returns a fee transfer via coinbase once for each
  (`internal_commands.sql:66`), and search once with any of them as the payer.
  `Reconciles` names the hidden fees, the failed amounts and the turned sign to the
  amount, and speaks of no block with several coinbases and such a transfer;
  `BlockMatchesSearch` compares everything but that status and that payer.
* Search optimisation: rows written between copy and trigger stay out of the
  aggregates; an error of the database during the check ends with exit code 1, which
  `search_tx_optimizations.rs:15` documents as "Optimizations not applied (status check
  or cannot drop because not applied)", whether they are applied or not: this contradicts
  the documentation, and no run shows it, since `ExitTruthful` judges code 0 alone; a
  server that is told to use the aggregates when there are none answers with an SQL
  error; the migration's undoing drops a function by a name that none has, which the
  next `CREATE OR REPLACE` makes harmless.

## The proofs

All theorems are for every value of the constants that satisfies the named
`ASSUME`s of the modules (finite sets of tasks and blocks, natural numbers as
bounds, blocks that form a tree, schedules with natural numbers, every command with
a row for each of its accounts and at least one, finitely many updates to a zkApp
command, `None` outside the other sets and no answer of an endpoint). Every invariant
and every action property that a passing run checks is proved.

* **TxCacheProofs**: `CacheTypeCorrect`; `CacheBounded`. `LimitPlusOverlaps` is not
  inductive, since an insertion adds an entry long after it has looked whether
  there was room. `LimitInv` adds the finiteness of the entries, `CleanScan` (what a
  worker has left behind and starts its next scan with) and a disjunction. Either
  there is `Slack`: entries and active workers together stay within the bound, since
  each active worker owes one entry at most and an overlapping one has been counted.
  Or a burst of insertions has started on a full cache and is `Tight`, one above that:
  nothing has been removed yet, so every scan sees every entry, every worker finds
  the cache full and has a victim that is present, and the first step that changes
  the cache is a removal, which restores `Slack`. `CacheRemembers` is the refinement:
  every step of the cache is one of `BoundedMemory` or none. That nothing is forgotten
  early needs the opposite bound, `EarlyInv`: what a count has met and is gone when it
  ends, and the removals still to come, stay within the overlaps. `CacheEvictsYoungest`
  (the finding `cache_victim` for every cache) needs `YoungInv`: without an overlap one worker is active at most, and the victim of
  its scan was as young as all it has passed, which have only grown older.
  `CacheCallsAdvance`: each operation of a call takes one off `StepsLeft`
  (`InsertStepAdvances`), and no operation of another call puts one back
  (`OthersKeepPlace`), so a call has at most two for each shard and two more.
* **SubmitProofs**: `SubmitTypeCorrect`, `SubmitVerdictsTrue`, and
  `SubmitRespectsCache` (every step of the service is a step of `TxCache` or leaves
  the cache alone), so that `SubmitCacheBounded` follows from `CacheBounded`.
  `TruthInv` adds `Evidence` to the verdicts: each cached signature, each that is
  about to be cached and each hash on the wire was accepted by the daemon.
  `SubmitArchivedRecognised` says that a payment that was in the database when its
  request came is called a duplicate (`KnownInv`: the archive forgets nothing while
  the request looks), `SubmitOkRecorded` that Ok never overtakes the entry in the
  cache: a step that answers Ok is the one that puts it there. `SubmitRequestsAdvance`
  is the same for a request as a whole (`RequestStepAdvances`, `OtherRequestsKeepPlace`):
  the handler never goes back to the daemon, whatever it is told.
* **SearchProofs**: `SearchTypeCorrect`, `SearchPageWithinLimit`, `SearchWalkAdvances`,
  `SearchWalkRepeatsNothing`, `SearchFirstTotalRight`, `SearchOneTableComplete`.
  `SearchInv` says, before each statement, how much of offset and limit is left and
  how many commands the pages hold; `SliceBound` counts `LIMIT`/`OFFSET`, and
  `NamesBound` that rows name no more commands than there are. `WalkInv` holds while
  the archive stands still: rows of earlier pages stand before the offset of this
  one, and the offset lies beyond all tables before a row's; so each statement starts
  behind what was seen, although it subtracts only what this page got. `LoneInv` is for
  walks over one table: they have named what stands before the offset and nothing
  else. Both rest on what a slice is (`SliceTight`: no holes; `SliceShort`: one that is
  not full has reached the end).
* **NetworkGuardProofs**: `GuardTypeCorrect`, `GuardAnswerRecent`. `GuardInv` relates the
  entry and each answer under way to the time the daemon was last on its network
  (`EntryRecent`, `BasisRecent`).
* **ReadsProofs**: `ReadsTypeCorrect`, `ReadsIndexLookupRight`, `ReadsBalanceOfBlock`,
  `ReadsVestingExact`. It begins with lemmas about the tree: the archive's canonical
  blocks are at any time the line of one block (`ArchiveInv`), settling extends that
  line (`ArriveSettles`, `SettledRises`), and `query_pending` finds the best chain down
  to the settled part and one block into it (`PendingChainIs`). `ReadsInv` adds to the type invariant that what a handler
  remembers is still true of the archive as it has become: the height it read is
  at most the settled one (`IndexInv`), and a block found while no fork was in
  sight is still visible and on the one visible line (`RowInv`, by `StaysVisible` and
  `VisibleLine`). For the vesting, `MinBalanceIsMinimum`
  shows that the guarded product and the saturating subtractions compute the
  schedule in unbounded integers, by `Euclid` and `ProductFits`, and `MinimumFalls` that
  the minimum never rises.
* **AggregatesProofs**: `AggTypeCorrect`, `OptimisedMissesOnlyLate`,
  `MigrationFindsItsSchema`, `ExitCodesTruthful`. Table by table, the migration leaves a
  table uncopied, in the gap, or locked: `StagedInv` and `AppliedInv` say what the
  aggregates, `late` and the open archiver transactions hold in each case, `TablesInv`
  that nobody writes a locked table, and `LockInv` that who is in a transaction holds
  the advisory lock, so that nobody else changes the schema it has checked.
  `CommandRunsForward`: every statement takes a run nearer to its end, and nobody else
  moves it (`StatementAdvances`, `OthersLeaveAlone`); the table a migration is at is
  its own only because of `LockInv`.
* **ConstructProofs**: `ConstructTypeCorrect`, `ConstructSignedIsMeant`,
  `ConstructHashIsOfSigned`, `ConstructRefusedForCause`. `Derived` says how each answer
  comes from the one before it. What parse and hash rebuild from a transaction has its
  fields (`RereadIs`) only if its amount is within `i64`; an amount that was negative
  has left it by the cast (`CastToU64`), and a sum that wrapped to zero had a negative
  part (`WrapsToZero`), so what is shown or hashed is what was asked for. In the other
  direction a transaction that fits does come out of its operations (`RereadGives`),
  and a fee the wallet takes over changes nothing else (`WithFeeCommand`): with
  `Causes`, that what preprocess accepted is still what the request names, a refusal
  has one of the causes named.
* **LedgerProofs**: `LedgerTypeCorrect`, `LedgerReconciles`, `LedgerIdentifiersUnique`,
  `LedgerBlockMatchesSearch`, `LedgerNothingElseOmitted`. Every way a
  transaction enters the block puts in rows with one new sequence number, several only
  if they are internal commands of different type or secondary number (`Transaction`),
  and with a fee transfer via coinbase its coinbase (`Accompanied`): hence
  `SequenceInv` and `CoinbaseInv`. Identifiers follow from the first; that the two
  requests pair a fee transfer with the same coinbase needs the second. Their operations
  then agree because the two statuses change nothing else in an internal command's operations
  (`InternalAsApplied`), and because the operations of a zkApp command are its
  fee and its updates, in whatever order the query returns them (`ZkappSays`). With
  several coinbases the operations of such a fee transfer differ in the payer only
  (`PayersApart`). `InvBlockOmits` and `InvSearchOmits` say which rows the joins keep: a
  user command whether or not its receiver has accounts, an internal command that is
  applied since its receiver has one (`MentionInv`).

  `LedgerReconciles` is about sums of any length. `SumFunction` is a fold that the
  provers cannot instantiate an induction for; the module proves what it needs of sums
  (`SumUnfold`, `SumPick`, `SumPlus`, `SumUnion`, `SumMap`) by a smallest
  counterexample instead: among the subsets of a finite set for which an equation fails
  there is one that contains no other (`MinimalSubset`, from the library's well-founded
  order on finite sets). The balances are no function of the answer, so they are first
  tied to the rows: `Effect` is what a row alone does to an account, each action
  of the block moves the balances by the effects of its rows less the fees for the
  accounts it creates (`Moves`), hence `ChangeInv`. An answer is tied to the same rows
  (`UserSays`, `InternalSays`, `ZkappAddsUp`), part by part of the answer
  (`BlockAddsUp`), and the rows that it does not show have no effect but a zkApp
  command's fee (`EffectsShown`). What is left are the account creation fees: `CreatedInv` says
  that an account has one creator, and `FirstInv` that it is the first applied command
  with that receiver, which is the one that `least(..)` finds (`FirstMentionIs`);
  `MentionInv`, that a receiver of an applied command has an account, is why the
  creator is shown, and why nobody mentioned the owner before. `LedgerTypeCorrect` holds because the
  operations are numbered one after the other, however they are put together
  (`Numbered`, `NumberedJoined`).

Only model-checked: the liveness properties `InsertionEnds`, `RequestAnswered` and
`CommandEnds`, since the prover has no rules for fairness and ENABLED here. What there
is to them besides fairness is proved: `InsertionAdvances`, `RequestAdvances` and
`CommandAdvances` are the measures that each of them rests on, a natural number that
every step of the call, the request or the command lowers and no other step raises.
That such a step can be taken as long as the number is not zero is what TLC shows and
no theorem states.

## Not modelled

* Encoding, hashing and signing (`roinput.rs`, `signer_utils.rs`): bit packing with
  test vectors of its own, no control to explore. A signature is what it signs.
* Mempool, network list, options, status, `call`: one question, or several that are
  independent, and one conversion each, without state. `derive`: one conversion.
* Router, error codes (`error.rs` is a table from errors to numbers and texts), the
  playground, generated GraphQL types, scripts.
* The filters of a search (what each `WHERE` keeps is any set of commands), and the
  metadata of transactions and operations (nonce, memo, failure reason, new delegate).
* The account updates of a zkApp command are a set, so that one with the same update
  twice is not seen; `TransportFails` in Submit stands for every failure of the HTTP
  exchange; in Aggregates `Check` reads the version row and exits in one step.
* Server start-up and the layout of the command line; that the optimised statements
  fail without their tables.
* The daemon, the archiver and the network are modelled only as the code sees
  them. Gaps in the archive, which its operators repair by hand, do not occur.

## Plan

Done, in this order: TxCache, Submit, Search, NetworkGuard, Archive with Block and
Balance, UserCommand with Construct; BoundedMemory and the refinement; Aggregates;
CommandOperations with Ledger; and the proofs above.

What is left, should the code grow or the questions change:

1. **Search over Ledger's tables**: rows of Search are numbers now; with the tables of
   Ledger beneath, the filters and the number of rows of a command would come from the
   joins rather than from constants. The product is too large for the bounds at which
   either is interesting by itself.
2. **Mempool and status**: should they come to keep or to relate anything.

## Running it

```
tlc -config TxCache.cfg MCTxCache.tla     # likewise the other runs of PROJECT.json
tlapm TxCacheProofs.tla                   # likewise the other *Proofs modules
```

The longest runs are `cache`, `submit` and `operations`, two to three minutes each; the others take
less than two. All proofs together take a few minutes.
