-------------------------------- MODULE Ledger --------------------------------
(***************************************************************************)
(* The operations that /block and /search/transactions report of a block,  *)
(* set against what the block did to the balances.                         *)
(*                                                                         *)
(* The protocol and the archiver are external: a block is put together     *)
(* from commands, each with its effect on the balances, and is written     *)
(* into the tables the queries read (user_commands, internal_commands and  *)
(* zkapp_commands with their blocks_* tables, account_identifiers,         *)
(* accounts_created).  The server is the two requests: the queries         *)
(* user_commands.sql, internal_commands.sql and zkapp_commands.sql of      *)
(* src/src/api/block.rs, the indexer_*_commands.sql of                     *)
(* src/src/api/search_transactions.rs (asked for everything in the block), *)
(* and CommandOperations over their rows.                                  *)
(***************************************************************************)
EXTENDS CommandOperations, FiniteSets, FiniteSetsExt, Functions, SequencesExt

CONSTANTS
  Keys, Tokens,
  Ledgers,         \* the accounts there may be before the block
  Fee,             \* the fee of a user command, a zkApp command, a transfer
  Amount,          \* what a payment moves
  CoinbaseAmount,
  CreationFee,     \* the account creation fee
  UpdateSets,      \* the account updates a zkApp command may hold
  MaxCommands      \* bound: sequence numbers in the block

Accounts == Keys \X Tokens

ASSUME TokensAssumption == DefaultToken \in Tokens /\ None \notin Tokens \cup Keys
ASSUME LedgersAssumption == Ledgers \subseteq SUBSET Accounts
ASSUME AmountsAssumption ==
  {Fee, Amount, CoinbaseAmount, CreationFee, MaxCommands} \subseteq Nat
ASSUME UpdatesAssumption ==
  /\ UpdateSets \subseteq SUBSET [account : Accounts, change : Int]
  /\ \A updates \in UpdateSets : IsFiniteSet(updates)

VARIABLES
  rows,        \* the commands of the block, with their sequence numbers
  seq,         \* the next sequence_no
  ledger,      \* accounts there are
  created,     \* accounts_created: those of this block, and what created them
  change,      \* history: what each key's default account gained
  blockReply,  \* the transactions of the answer to /block
  searchReply  \* the transactions of the answer to /search/transactions

ledgerVars == <<rows, seq, ledger, created, change, blockReply, searchReply>>

-----------------------------------------------------------------------------
(***************************************************************************)
(* The block.                                                              *)
(***************************************************************************)
LedgerInit ==
  /\ rows = {} /\ seq = 0 /\ created = {}
  /\ ledger \in Ledgers
  /\ change = [k \in Keys |-> 0]
  /\ blockReply = None /\ searchReply = None

\* A transaction enters the block: its rows, the accounts that it creates,
\* and what each key gains.
Enter(newRows, newAccounts, gain(_)) ==
  /\ seq < MaxCommands /\ seq' = seq + 1
  /\ blockReply = None /\ searchReply = None
  /\ rows' = rows \cup newRows
  /\ ledger' = ledger \cup newAccounts
  /\ created' = created \cup
       {[account |-> a, by |-> (CHOOSE r \in newRows : TRUE).table] : a \in newAccounts}
  /\ change' = [k \in Keys |-> change[k] + gain(k)]
  /\ UNCHANGED <<blockReply, searchReply>>

\* What x is to k, and nobody else.
To(k, key, x) == IF k = key THEN x ELSE 0

\* The account of key in the default token, if it is to be created.
Missing(key) == {Default(key)} \ ledger

\* What is left of amount after the fee for creating the account.
Net(key, amount) == amount - (IF Missing(key) = {} THEN 0 ELSE CreationFee)

UserRow(type, source, receiver, amount, status) ==
  [table |-> "user", seq |-> seq, command_type |-> type, fee_payer |-> source,
   source |-> source, receiver |-> receiver, amount |-> amount, fee |-> Fee,
   status |-> status]

InternalRow(type, receiver, amount, secondary, status) ==
  [table |-> "internal", seq |-> seq, secondary |-> secondary, command_type |-> type,
   receiver |-> receiver, fee |-> amount, status |-> status,
   hash |-> <<type, receiver, amount>>]

ZkappRow(payer, updates, status) ==
  [table |-> "zkapp", seq |-> seq, fee_payer |-> payer, fee |-> Fee,
   updates |-> updates, status |-> status]

Pay(source, receiver) ==
  /\ Default(source) \in ledger
  /\ \/ /\ Net(receiver, Amount) >= 0
        /\ Enter({UserRow("payment", source, receiver, Amount, "applied")}, Missing(receiver),
                 LAMBDA k : To(k, source, - Fee - Amount) + To(k, receiver, Net(receiver, Amount)))
     \/ Enter({UserRow("payment", source, receiver, Amount, "failed")}, {},
              LAMBDA k : To(k, source, - Fee))

\* A delegation needs its target to exist, and moves nothing but the fee.
Delegate(source, target) ==
  /\ Default(source) \in ledger
  /\ \E status \in {"applied", "failed"} :
       /\ status = "applied" => Default(target) \in ledger
       /\ Enter({UserRow("delegation", source, target, None, status)}, {},
                LAMBDA k : To(k, source, - Fee))

Coinbase(receiver) ==
  \/ Enter({InternalRow("coinbase", receiver, CoinbaseAmount, 0, "applied")}, Missing(receiver),
           LAMBDA k : To(k, receiver, Net(receiver, CoinbaseAmount)))
  \/ Enter({InternalRow("coinbase", receiver, CoinbaseAmount, 0, "failed")}, {}, LAMBDA k : 0)

\* A coinbase that pays a prover its fee, in the same transaction.
CoinbaseWithFee(receiver, prover) ==
  /\ receiver # prover
  /\ Net(prover, Fee) >= 0
  /\ Enter({InternalRow("coinbase", receiver, CoinbaseAmount, 0, "applied"),
            InternalRow("fee_transfer_via_coinbase", prover, Fee, 0, "applied")},
           Missing(receiver) \cup Missing(prover),
           LAMBDA k : To(k, receiver, Net(receiver, CoinbaseAmount - Fee))
                      + To(k, prover, Net(prover, Fee)))

\* A fee transfer has one receiver or two.  One whose account cannot take
\* the fee gets nothing, and its row says failed.
FeeTransfer(receiver) ==
  \/ /\ Net(receiver, Fee) >= 0
     /\ Enter({InternalRow("fee_transfer", receiver, Fee, 0, "applied")}, Missing(receiver),
              LAMBDA k : To(k, receiver, Net(receiver, Fee)))
  \/ Enter({InternalRow("fee_transfer", receiver, Fee, 0, "failed")}, {}, LAMBDA k : 0)

FeeTransferTwo(first, second) ==
  /\ first # second
  /\ Net(first, Fee) >= 0 /\ Net(second, Fee) >= 0
  /\ Enter({InternalRow("fee_transfer", first, Fee, 0, "applied"),
            InternalRow("fee_transfer", second, Fee, 1, "applied")},
           Missing(first) \cup Missing(second),
           LAMBDA k : To(k, first, Net(first, Fee)) + To(k, second, Net(second, Fee)))

\* A zkApp command: its fee, and the balance changes of its updates if it is
\* applied.  The fee for an account it creates is part of those changes.
Zkapp(payer, updates) ==
  /\ Default(payer) \in ledger
  /\ \E status \in {"applied", "failed"} :
       LET applied == IF status = "applied" THEN updates ELSE {}
       IN  Enter({ZkappRow(payer, updates, status)}, {u.account : u \in applied} \ ledger,
                 LAMBDA k : To(k, payer, - Fee)
                            + SumFunction([u \in applied |->
                                             IF u.account = Default(k) THEN u.change ELSE 0]))

-----------------------------------------------------------------------------
(***************************************************************************)
(* The tables.                                                             *)
(***************************************************************************)
Table(name) == {r \in rows : r.table = name}

\* account_identifiers: an account is entered when a block touches it, or
\* an account update names it.
AccountIds == ledger \cup UNION {{u.account : u \in z.updates} : z \in Table("zkapp")}
IdsOf(key) == {a \in AccountIds : a[1] = key}

Created == {c.account : c \in created}

\* Mutant: whatever became of the command.
BugFirstMention(key) ==
  LET mentions == {r.seq : r \in {m \in Table("user") \cup Table("internal") : m.receiver = key}}
  IN  IF mentions = {} THEN None ELSE Min(mentions)

\* least(..): the first applied command of the block with this receiver.
FirstMention(key) ==
  LET mentions == {r.seq : r \in {m \in Table("user") \cup Table("internal") :
                                    m.receiver = key /\ m.status = "applied"}}
  IN  IF mentions = {} THEN None ELSE Min(mentions)

\* LEFT JOIN accounts_created, for one account of the receiver.
FeeIfCreated(r, account) ==
  IF account \in Created /\ r.seq = FirstMention(r.receiver) THEN CreationFee ELSE None

\* Mutant: the accounts of the receiver are joined with INNER JOIN.
BugUserFees(u) ==
  {IF u.status = "applied" THEN FeeIfCreated(u, a) ELSE None : a \in IdsOf(u.receiver)}

\* The creation_fee of a user command: one row for each account of the
\* receiver, and one if it has none.
UserFees(u) ==
  IF IdsOf(u.receiver) = {} THEN {None}
  ELSE {IF u.status = "applied" THEN FeeIfCreated(u, a) ELSE None : a \in IdsOf(u.receiver)}

-----------------------------------------------------------------------------
(***************************************************************************)
(* /block.                                                                 *)
(***************************************************************************)
\* user_commands.sql: DISTINCT ON keeps one row of each command, and with no
\* ORDER BY any of them.
BlockUsers(feeOf) ==
  {[row |-> u, via |-> None, id |-> <<"hash", u.seq>>, ops |-> UserCommandOperations(u, feeOf[u])] :
     u \in Table("user")}

\* internal_commands_cte: the receiver's account in the default token.
InternalsShown == {i \in Table("internal") : Default(i.receiver) \in AccountIds}
CoinbasesShown == {i \in InternalsShown : i.command_type = "coinbase"}

\* Its join with itself: a fee transfer via coinbase is paired with every
\* coinbase of the block.
CoinbasesOf(i) ==
  IF i.command_type = "fee_transfer_via_coinbase" /\ CoinbasesShown # {}
  THEN CoinbasesShown ELSE {None}

\* Of that coinbase, if there is one.
ReceiverOf(c) == IF c \in Table("internal") THEN c.receiver ELSE None

BlockInternals ==
  {[row |-> p[1], via |-> p[2], id |-> InternalIdentifier(p[1]),
    ops |-> InternalCommandOperations(p[1], BlockStatus(p[1]),
              FeeIfCreated(p[1], Default(p[1].receiver)), ReceiverOf(p[2]))] :
     p \in {q \in InternalsShown \X (CoinbasesShown \cup {None}) : q[2] \in CoinbasesOf(q[1])}}

\* Mutant: only the commands are selected by token.
BugUpdatesShown(z) == z.updates

\* zkapp_commands.sql keeps the updates in the default token, and a command
\* that has none at all.
UpdatesShown(z) == {u \in z.updates : u.account[2] = DefaultToken}
ZkappsShown == {z \in Table("zkapp") : z.updates = {} \/ UpdatesShown(z) # {}}

\* The query leaves the order of the updates open; nothing depends on it.
ZkappTransaction(z, updates) ==
  [row |-> z, via |-> None, id |-> <<"hash", z.seq>>,
   ops |-> ZkappCommandOperations(z, SetToSeq(updates))]

BlockZkapps == {ZkappTransaction(z, UpdatesShown(z)) : z \in ZkappsShown}

ReadBlock ==
  /\ blockReply = None
  /\ \E feeOf \in [Table("user") -> {None, CreationFee}] :
       /\ \A u \in Table("user") : feeOf[u] \in UserFees(u)
       /\ blockReply' = BlockUsers(feeOf) \cup BlockInternals \cup BlockZkapps
  /\ UNCHANGED <<rows, seq, ledger, created, change, searchReply>>

-----------------------------------------------------------------------------
(***************************************************************************)
(* /search/transactions: no DISTINCT around the joins that find the        *)
(* account creation fee, no token asked for.                               *)
(***************************************************************************)
BlockTransaction(row, ops) == [row |-> row, ops |-> ops]

SearchUsers ==
  UNION {{BlockTransaction(u, UserCommandOperations(u, fee)) : fee \in UserFees(u)} :
           u \in Table("user")}

\* Any account of the receiver, and NULL if it has none.
InternalFees(i) ==
  IF IdsOf(i.receiver) = {} THEN {None} ELSE {FeeIfCreated(i, a) : a \in IdsOf(i.receiver)}

\* coinbase_receiver_info: DISTINCT ON keeps any coinbase of the block.
SearchInternals(coinbaseOf) ==
  UNION {{BlockTransaction(i,
            InternalCommandOperations(i, SearchStatus(i), fee, ReceiverOf(coinbaseOf[i]))) :
            fee \in InternalFees(i)} : i \in Table("internal")}

Coinbases == {i \in Table("internal") : i.command_type = "coinbase"}

\* INNER JOINs: a command with no update is not found.
SearchZkapps ==
  {BlockTransaction(z, ZkappCommandOperations(z, SetToSeq(z.updates))) :
     z \in {x \in Table("zkapp") : x.updates # {}}}

ReadSearch ==
  /\ searchReply = None
  /\ \E coinbaseOf \in [Table("internal") -> Coinbases \cup {None}] :
       /\ \A i \in Table("internal") :
            IF i.command_type = "fee_transfer_via_coinbase" THEN coinbaseOf[i] # None
            ELSE coinbaseOf[i] = None
       /\ searchReply' = SearchUsers \cup SearchInternals(coinbaseOf) \cup SearchZkapps
  /\ UNCHANGED <<rows, seq, ledger, created, change, blockReply>>

LedgerNext ==
  \/ \E s, r \in Keys : \/ Pay(s, r) \/ Delegate(s, r)
                        \/ CoinbaseWithFee(s, r) \/ FeeTransferTwo(s, r)
  \/ \E r \in Keys : Coinbase(r) \/ FeeTransfer(r)
  \/ \E p \in Keys, updates \in UpdateSets : Zkapp(p, updates)
  \/ ReadBlock
  \/ ReadSearch

LedgerSpec == LedgerInit /\ [][LedgerNext]_ledgerVars

-----------------------------------------------------------------------------
Replies == {blockReply, searchReply} \ {None}

\* The operations of a transaction are numbered from 0, and refer to earlier
\* ones of the same transaction only.
WellFormed(ops) ==
  \A n \in DOMAIN ops : /\ ops[n].index = n - 1
                        /\ ops[n].related = None \/ ops[n].related \in 0..(n - 2)
                        /\ ops[n].account \in Accounts
                        /\ ops[n].amount \in Int \cup {None}

LedgerTypeOK ==
  /\ seq \in 0..MaxCommands
  /\ ledger \subseteq Accounts /\ Created \subseteq ledger
  /\ change \in [Keys -> Int]
  /\ \A r \in rows : r.seq \in 0..(seq - 1)
  /\ \A reply \in Replies : \A t \in reply : t.row \in rows /\ WellFormed(t.ops)

\* What the successful operations of a transaction give key's account.
Reported(key, ops) ==
  SumFunction([n \in DOMAIN ops |-> IF /\ ops[n].status = "Success" /\ ops[n].amount # None
                                       /\ ops[n].account = Default(key)
                                    THEN ops[n].amount ELSE 0])

ReportedByBlock(key) == SumFunction([t \in blockReply |-> Reported(key, t.ops)])

\* What /block gets wrong about key's account, and by how much:
\* the fee of a zkApp command that it does not show,
HiddenFees(key) ==
  SumFunction([z \in Table("zkapp") \ ZkappsShown |-> To(key, z.fee_payer, z.fee)])

\* the amount of a failed internal command, which it calls a success,
FailedAmounts(key) ==
  SumFunction([i \in {i \in InternalsShown : i.status = "failed"} |->
                 To(key, i.receiver, i.fee)])

\* and the account creation fee out of an internal command, with the sign
\* turned.
TurnedFees(key) ==
  IF [account |-> Default(key), by |-> "internal"] \in created THEN 2 * CreationFee ELSE 0

\* It cannot be told for accounts that a zkApp command of the block created,
\* for a new account whose key has another one, and when there are several
\* coinbases to a fee transfer.
Untold(key) ==
  \/ \E c \in created : c.account[1] = key /\ c.by = "zkapp"
  \/ [account |-> Default(key), by |-> "user"] \in created /\ IdsOf(key) # {Default(key)}
  \/ /\ Cardinality(CoinbasesShown) > 1
     /\ \E i \in InternalsShown : i.command_type = "fee_transfer_via_coinbase"

(***************************************************************************)
(* The successful operations of a block add up to what it did to an        *)
(* account: user_commands.sql and internal_commands.sql find the one       *)
(* command that paid for a new account, whatever failed before it and      *)
(* whoever is mentioned after it, and each payment, fee and reward is      *)
(* counted once.  The exceptions are the ones above, to the amount.        *)
(***************************************************************************)
Reconciles ==
  blockReply # None =>
    \A key \in Keys :
      Untold(key) \/ ReportedByBlock(key)
                       = change[key] + HiddenFees(key) + FailedAmounts(key) + TurnedFees(key)

(***************************************************************************)
(* No two transactions of a block have one identifier, so that a client    *)
(* that keys them by it loses none; the exception is a fee transfer paired *)
(* with several coinbases.                                                 *)
(***************************************************************************)
IdentifiersUnique ==
  blockReply # None =>
    \A t, u \in blockReply :
      t # u /\ t.id = u.id => t.row = u.row /\ Cardinality(CoinbasesShown) > 1

\* Operations as they would be had the command been applied.
AsApplied(ops) == [n \in DOMAIN ops |-> [ops[n] EXCEPT !.status = "Success"]]

\* Operations without the name of the coinbase's receiver, who pays.
PayerOpen(ops) ==
  [n \in DOMAIN ops |->
     IF ops[n].type = "fee_payer_dec" THEN [ops[n] EXCEPT !.account = None] ELSE ops[n]]

\* A fee transfer via coinbase of a block with several coinbases.
PayerUntold(i) == i.command_type = "fee_transfer_via_coinbase" /\ Cardinality(Coinbases) > 1

RowsIn(reply) == {t.row : t \in reply}

\* What the INNER JOINs of indexer_zkapp_commands.sql lose: a zkApp command
\* without account updates.
SearchOmits == {z \in Table("zkapp") : z.updates = {}}

\* What /block leaves out: a zkApp command whose updates are all in other
\* tokens, and a failed internal command whose receiver has no account.
BlockOmits ==
  {z \in Table("zkapp") : z.updates # {} /\ \A u \in z.updates : u.account[2] # DefaultToken}
  \cup {i \in Table("internal") : i.status = "failed" /\ Default(i.receiver) \notin AccountIds}

(***************************************************************************)
(* Neither answer leaves out a command of the block, whatever its status   *)
(* and whatever accounts there are of those it names, but for these:       *)
(* /search/transactions does not find a zkApp command without account      *)
(* updates, which /block shows; /block does not show a zkApp command whose *)
(* updates are all in other tokens, nor a failed internal command whose    *)
(* receiver has no account, which /search/transactions finds.              *)
(***************************************************************************)
NothingElseOmitted ==
  /\ blockReply # None => RowsIn(blockReply) = rows \ BlockOmits
  /\ searchReply # None => RowsIn(searchReply) = rows \ SearchOmits

(***************************************************************************)
(* /block and /search/transactions say the same of a command that both     *)
(* return: what /block says of it is one of the rows the search returns.   *)
(* The exceptions are the status of an internal command, which /block      *)
(* always calls applied; the updates in other tokens of a zkApp command,   *)
(* which /block leaves out; and, of a fee transfer via coinbase in a block *)
(* with several coinbases, whose coinbase paid it: /block returns it once  *)
(* for each, and the search once with any of them.                         *)
(***************************************************************************)
BlockMatchesSearch ==
  blockReply # None /\ searchReply # None =>
    \A t \in {t \in blockReply : t.row \notin SearchOmits} :
      LET found == {s.ops : s \in {s \in searchReply : s.row = t.row}}
      IN  CASE t.row.table = "user" -> t.ops \in found
            [] t.row.table = "internal" ->
                 \E ops \in found :
                   \/ t.ops = AsApplied(ops)
                   \/ PayerUntold(t.row) /\ PayerOpen(t.ops) = PayerOpen(AsApplied(ops))
            [] t.row.table = "zkapp" ->
                 \E ops \in found :
                   {<<t.ops[n].account, t.ops[n].amount>> : n \in DOMAIN t.ops} =
                   {<<ops[n].account, ops[n].amount>> :
                      n \in {m \in DOMAIN ops : ops[m].currency = DefaultToken}}
=============================================================================
