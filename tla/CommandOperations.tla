-------------------------- MODULE CommandOperations --------------------------
(***************************************************************************)
(* How a command of the archive becomes the operations of a Rosetta        *)
(* transaction: src/src/transaction_operations.rs, over the two traits of  *)
(* src/src/types.rs that give it the rows of /block and of                 *)
(* /search/transactions alike.                                             *)
(*                                                                         *)
(* An account is a public key and a token.  A text of digits is its        *)
(* number, and "-" in front of it the negated number.  The metadata of     *)
(* transactions and operations (nonce, memo, failure reason, new delegate) *)
(* is left out.                                                            *)
(***************************************************************************)
EXTENDS Integers, Sequences

CONSTANTS None, DefaultToken

ASSUME NoneAssumption == None \notin Int /\ None # DefaultToken

create_currency(token) == IF token = None THEN DefaultToken ELSE token

\* From<TransactionStatus> for OperationStatus
OperationStatus(status) == IF status = "failed" THEN "Failed" ELSE "Success"

operation(ident, amount, account, type, status, related, token) ==
  [index |-> ident, type |-> type, account |-> account, amount |-> amount,
   currency |-> create_currency(token), related |-> related,
   status |-> OperationStatus(status)]

\* A column that may be NULL, of which fee() and amount() make "0".
OrZero(column) == IF column = None THEN 0 ELSE column

Default(key) == <<key, DefaultToken>>

-----------------------------------------------------------------------------
\* What follows the fee and, if there is one, the account creation fee.
Body(u, n, moved(_)) ==
  IF u.command_type = "payment"
  THEN << operation(n, moved(- OrZero(u.amount)), Default(u.source),
                    "payment_source_dec", u.status, None, None),
          operation(n + 1, moved(OrZero(u.amount)), Default(u.receiver),
                    "payment_receiver_inc", u.status, n, None) >>
  ELSE << operation(n, None, Default(u.source), "delegate_change", u.status, None, None) >>

FeePayment(u) ==
  operation(0, - OrZero(u.fee), Default(u.fee_payer), "fee_payment", "applied", None, None)

\* Mutant: the index does not go on after the account creation fee.
BugUserCommandOperations(u, creationFee) ==
  LET moved(amount) == IF u.status = "applied" THEN amount ELSE None
  IN  IF creationFee = None THEN <<FeePayment(u)>> \o Body(u, 1, moved)
      ELSE << FeePayment(u),
              operation(1, moved(- creationFee), Default(u.receiver),
                        "account_creation_fee_via_payment", u.status, None, None) >>
           \o Body(u, 1, moved)

\* generate_operations_user_command: the fee is paid whatever the status,
\* and the rest has amounts only if the command was applied.
UserCommandOperations(u, creationFee) ==
  LET moved(amount) == IF u.status = "applied" THEN amount ELSE None
  IN  IF creationFee = None THEN <<FeePayment(u)>> \o Body(u, 1, moved)
      ELSE << FeePayment(u),
              operation(1, moved(- creationFee), Default(u.receiver),
                        "account_creation_fee_via_payment", u.status, None, None) >>
           \o Body(u, 2, moved)

-----------------------------------------------------------------------------
\* Mutant: one that sequence_no is missing from.
BugInternalIdentifier(i) == <<i.command_type, i.secondary, i.hash>>

\* generate_internal_command_transaction_identifier
InternalIdentifier(i) == <<i.command_type, i.seq, i.secondary, i.hash>>

\* InternalCommandMetadata.status(), what /block asks ...
BlockStatus(i) == "applied"

\* ... and InternalCommand.status(), what /search/transactions asks.
SearchStatus(i) == i.status

\* The match on the command type.
Transfers(i, status, coinbaseReceiver, n) ==
  LET inc(type) == operation(n, OrZero(i.fee), Default(i.receiver), type, status, None, None)
      dec == operation(n + 1, - OrZero(i.fee), Default(coinbaseReceiver),
                       "fee_payer_dec", status, n, None)
  IN  CASE i.command_type = "coinbase" -> << inc("coinbase_inc") >>
        [] i.command_type = "fee_transfer" -> << inc("fee_receiver_inc") >>
        [] OTHER -> IF coinbaseReceiver = None THEN << >>
                    ELSE << inc("fee_receiver_inc"), dec >>

\* generate_operations_internal_command: the account creation fee is written
\* as the archive has it, with no minus.
InternalCommandOperations(i, status, creationFee, coinbaseReceiver) ==
  IF creationFee = None THEN Transfers(i, status, coinbaseReceiver, 0)
  ELSE << operation(0, creationFee, Default(i.receiver),
                    "account_creation_fee_via_fee_receiver", status, None, None) >>
       \o Transfers(i, status, coinbaseReceiver, 1)

-----------------------------------------------------------------------------
\* generate_operations_zkapp_command, for the rows of one command in one
\* block: the fee, and then one operation for each row with a balance change.
ZkappCommandOperations(z, updates) ==
  << operation(0, - z.fee, Default(z.fee_payer), "zkapp_fee_payer_dec", "applied", None, None) >>
  \o [n \in DOMAIN updates |->
        operation(n, updates[n].change, updates[n].account, "zkapp_balance_update",
                  z.status, None, updates[n].account[2])]
=============================================================================
