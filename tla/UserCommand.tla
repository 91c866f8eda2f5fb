---------------------------- MODULE UserCommand ----------------------------
(***************************************************************************)
(* The forms a payment or delegation takes on its way from a wallet to the *)
(* daemon, and the conversions between them: Rosetta operations, the       *)
(* PartialUserCommand and UserCommandPayload of src/src/types.rs, the      *)
(* input of the signature hash, and the transaction in JSON.               *)
(*                                                                         *)
(* Numbers are written as text and read back into the width the code asks  *)
(* for, so that a text is its number here, and reading it fails outside    *)
(* that width; a text that is no number reads like one too great.          *)
(***************************************************************************)
EXTENDS Integers, Sequences

CONSTANTS
  None,
  MaxI64, MaxU32,   \* the greatest i64 and u32
  Strings,          \* what stands where an address may stand
  Keys,             \* those that are public keys
  Points,           \* those that are on the curve as well
  Checked,          \* those with a valid base58 checksum
  Tokens, DefaultToken,
  Base58,           \* the tokens that are base58
  Memos, EmptyMemo,
  ShortMemos        \* the memos of at most 32 bytes

ASSUME WidthsAssumption == MaxI64 \in Nat \ {0} /\ MaxU32 \in Nat
ASSUME StringsAssumption ==
  /\ Points \subseteq Keys /\ Keys \subseteq Checked /\ Checked \subseteq Strings /\ None \notin Strings
  /\ DefaultToken \in Base58 /\ Base58 \subseteq Tokens /\ None \notin Tokens
  /\ EmptyMemo \in ShortMemos /\ ShortMemos \subseteq Memos /\ None \notin Memos
ASSUME NoneAssumption == None \notin Int

-----------------------------------------------------------------------------
MaxU64 == 2 * MaxI64 + 1
I64 == (- MaxI64 - 1)..MaxI64
U32 == 0..MaxU32
U64 == 0..MaxU64

AsU64(n) == n % (MaxU64 + 1)

\* i64 addition of a release build.
AddI64(m, n) == ((m + n + MaxI64 + 1) % (MaxU64 + 1)) - MaxI64 - 1

ParseU32(text) == IF text \in U32 THEN text ELSE None

Types == {"fee_payment", "payment_source_dec", "payment_receiver_inc",
          "delegate_change"}
Accounts == [address : Strings, token : Tokens \cup {None}]

ASSUME AccountsAssumption == None \notin Accounts

\* An operation as requests give it: the account, the amount and the
\* delegate_change_target may be missing.  Amounts are of any size.
Operations ==
  [type : Types, account : Accounts \cup {None}, amount : Int \cup {None},
   target : Strings \cup {None}]

\* Operation::find: the first of a type.
Has(ops, type) == \E i \in DOMAIN ops : ops[i].type = type
Find(ops, type) ==
  ops[CHOOSE i \in DOMAIN ops :
        /\ ops[i].type = type
        /\ \A j \in DOMAIN ops : ops[j].type = type => i <= j]

TokenOf(op) ==
  IF op.account = None \/ op.account.token = None THEN DefaultToken
  ELSE op.account.token

AddressOf(op) ==
  IF op.type = "delegate_change" THEN op.target
  ELSE IF op.account = None THEN None
  ELSE op.account.address

-----------------------------------------------------------------------------
\* What parse_payment_operations asks of three operations.
PaymentOperations(ops) ==
  /\ Len(ops) = 3
  /\ \A t \in {"fee_payment", "payment_source_dec", "payment_receiver_inc"} :
       Has(ops, t) /\ Find(ops, t).amount \in I64
  /\ LET fee == Find(ops, "fee_payment")
         source == Find(ops, "payment_source_dec")
         receiver == Find(ops, "payment_receiver_inc")
     IN  /\ TokenOf(fee) \in Base58 /\ TokenOf(source) \in Base58
         /\ fee.account = source.account
         /\ AddI64(source.amount, receiver.amount) = 0
         /\ fee.amount < 0

\* What parse_delegation_operations asks of two.
DelegationOperations(ops) ==
  /\ Len(ops) = 2
  /\ Has(ops, "fee_payment") /\ Has(ops, "delegate_change")
  /\ LET fee == Find(ops, "fee_payment")
         change == Find(ops, "delegate_change")
     IN  /\ fee.account = change.account
         /\ fee.amount \in I64 /\ fee.amount < 0
         /\ change.target # None

\* PartialUserCommand::from_operations; None is OperationsNotValid.
FromOperations(ops, validUntil, memo) ==
  LET fee == Find(ops, "fee_payment")
      source == Find(ops, "payment_source_dec")
      receiver == Find(ops, "payment_receiver_inc")
      change == Find(ops, "delegate_change")
  IN  IF PaymentOperations(ops)
      THEN [kind |-> "payment", fee_payer |-> AddressOf(fee),
            source |-> AddressOf(source), receiver |-> AddressOf(receiver),
            token |-> TokenOf(source), fee |-> fee.amount,
            amount |-> receiver.amount, valid_until |-> validUntil, memo |-> memo]
      ELSE IF DelegationOperations(ops)
      THEN [kind |-> "delegation", fee_payer |-> AddressOf(fee),
            source |-> AddressOf(fee), receiver |-> AddressOf(change),
            token |-> TokenOf(change), fee |-> fee.amount,
            amount |-> 0, valid_until |-> validUntil, memo |-> memo]
      ELSE None

\* The 34 bytes of a memo: the tag and the text.  Memo::empty has no tag.
NoMemo == [tag |-> 0, text |-> EmptyMemo]
MemoOf(memo) == IF memo = None THEN NoMemo ELSE [tag |-> 1, text |-> memo]

\* Mutant: the amount keeps its sign.
BugToPayload(command, nonce) ==
  IF {command.fee_payer, command.receiver} \subseteq Keys
  THEN [kind |-> command.kind, fee_payer |-> command.fee_payer,
        receiver |-> command.receiver, amount |-> command.amount,
        fee |-> - command.fee, nonce |-> nonce, token |-> command.token,
        valid_until |-> ParseU32(command.valid_until),
        memo |-> MemoOf(command.memo)]
  ELSE None

\* to_user_command_payload; None is an error.
ToPayload(command, nonce) ==
  IF /\ {command.fee_payer, command.source, command.receiver} \subseteq Keys
     /\ command.fee_payer = command.source
     /\ command.memo \in ShortMemos \cup {None}
  THEN [kind |-> command.kind, fee_payer |-> command.fee_payer,
        receiver |-> command.receiver, amount |-> AsU64(command.amount),
        fee |-> - command.fee, nonce |-> nonce, token |-> command.token,
        valid_until |-> ParseU32(command.valid_until),
        memo |-> MemoOf(command.memo)]
  ELSE None

\* What the signature, and the hash of the command, are computed from: all
\* of a payload but the token.
SignedContent(payload) ==
  [kind |-> payload.kind, fee_payer |-> payload.fee_payer,
   receiver |-> payload.receiver, amount |-> payload.amount,
   fee |-> payload.fee, nonce |-> payload.nonce, memo |-> payload.memo,
   valid_until |-> IF payload.valid_until = None THEN MaxU32
                   ELSE payload.valid_until]

\* Mutant: valid_until is not in the transaction.
BugTransaction(payload) ==
  [kind |-> payload.kind, from |-> payload.fee_payer, to |-> payload.receiver,
   amount |-> payload.amount, fee |-> payload.fee, nonce |-> payload.nonce,
   token |-> payload.token, memo |-> payload.memo.text, valid_until |-> None]

\* The Payment or StakeDelegation of a payload.  The latter has no token and
\* no amount.
Transaction(payload) ==
  [kind |-> payload.kind, from |-> payload.fee_payer, to |-> payload.receiver,
   amount |-> payload.amount, fee |-> payload.fee, nonce |-> payload.nonce,
   token |-> IF payload.kind = "payment" THEN payload.token ELSE DefaultToken,
   memo |-> payload.memo.text, valid_until |-> payload.valid_until]

TransactionUnsigned(payload) ==
  [random_oracle_input |-> SignedContent(payload), tx |-> Transaction(payload)]

\* generate_operations_user_command, for a transaction that is not in a
\* block: applied, and without an account creation fee.
GenerateOperations(tx) ==
  LET from == [address |-> tx.from, token |-> tx.token]
      to == [address |-> tx.to, token |-> tx.token]
      Op(type, account, amount, target) ==
        [type |-> type, account |-> account, amount |-> amount, target |-> target]
      fee == Op("fee_payment", from, - tx.fee, None)
  IN  IF tx.kind = "payment"
      THEN <<fee, Op("payment_source_dec", from, - tx.amount, None),
             Op("payment_receiver_inc", to, tx.amount, None)>>
      ELSE <<fee, Op("delegate_change", from, None, tx.to)>>

\* Mutant: the memo is not passed on.
BugReread(tx) ==
  LET command == FromOperations(GenerateOperations(tx), tx.valid_until, None)
  IN  IF command = None THEN None ELSE ToPayload(command, tx.nonce)

\* validate_operations: a transaction as a payload again, by way of its
\* operations.
Reread(tx) ==
  LET command == FromOperations(GenerateOperations(tx), tx.valid_until, tx.memo)
  IN  IF command = None THEN None ELSE ToPayload(command, tx.nonce)
=============================================================================
