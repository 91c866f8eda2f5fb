--------------------------- MODULE ConstructProofs ---------------------------
(***************************************************************************)
(* What holds of the construction of every transfer, for all widths of     *)
(* numbers, addresses, tokens, memos and requests: the answers have their  *)
(* types, what the wallet signs is what it asked for, the hash is that of  *)
(* what it signed, and a request is refused for the causes named only.     *)
(*                                                                         *)
(* Derived says how every answer comes from the one before it.  That much  *)
(* is inductive, and three of the properties follow from it by what the    *)
(* conversions of UserCommand do to amounts at and beyond the ends of i64. *)
(* For the fourth, Causes adds that until payloads the request still names *)
(* what preprocess accepted.                                               *)
(***************************************************************************)
EXTENDS Construct, WellFoundedInduction, TLAPS

(***************************************************************************)
(* Arithmetic of the widths.                                               *)
(***************************************************************************)
LEMMA ModOfSmall ==
  ASSUME NEW d \in Nat \ {0}, NEW n \in Int, 0 <= n, n < d
  PROVE  n % d = n
  OBVIOUS

LEMMA ModOfNegative ==
  ASSUME NEW d \in Nat \ {0}, NEW n \in Int, - d <= n, n < 0
  PROVE  n % d = n + d
  OBVIOUS

LEMMA ModOfGreater ==
  ASSUME NEW d \in Nat \ {0}, NEW n \in Int, d <= n, n < 2 * d
  PROVE  n % d = n - d
  OBVIOUS

LEMMA WidthsAreIntegers ==
  /\ MaxU64 \in Nat /\ MaxU64 + 1 \in Nat \ {0} /\ MaxU64 = 2 * MaxI64 + 1
  /\ I64 \subseteq Int /\ U64 \subseteq Int /\ U32 \subseteq Int
  /\ None \notin I64 /\ None \notin U64 /\ None \notin U32
  BY WidthsAssumption, NoneAssumption DEF MaxU64, I64, U64, U32

\* A cast to u64 keeps what is not negative, and puts the rest above i64.
LEMMA CastToU64 ==
  ASSUME NEW n \in I64
  PROVE  /\ AsU64(n) \in U64
         /\ n >= 0 => AsU64(n) = n
         /\ n < 0 => AsU64(n) > MaxI64
<1>1. n \in Int /\ - (MaxU64 + 1) <= n /\ n < MaxU64 + 1
  BY WidthsAreIntegers, WidthsAssumption DEF I64
<1>2. CASE n >= 0
  BY <1>1, <1>2, ModOfSmall, WidthsAreIntegers, WidthsAssumption DEF AsU64, U64
<1>3. CASE n < 0
  <2>1. AsU64(n) = n + (MaxU64 + 1)
    BY <1>1, <1>3, ModOfNegative, WidthsAreIntegers DEF AsU64
  <2> QED
    BY <1>1, <1>3, <2>1, WidthsAreIntegers, WidthsAssumption DEF U64, I64
<1> QED
  BY <1>1, <1>2, <1>3

\* Wrapping addition gives 0 for opposite numbers, and for twice the least.
LEMMA WrapsToZero ==
  ASSUME NEW m \in I64, NEW n \in I64, AddI64(m, n) = 0
  PROVE  m + n = 0 \/ n < 0
<1> DEFINE d == MaxU64 + 1
           x == m + n + MaxI64 + 1
<1>1. /\ m \in Int /\ n \in Int /\ MaxI64 \in Nat /\ d \in Nat \ {0} /\ d = 2 * MaxI64 + 2
      /\ - MaxI64 - 1 <= m /\ m <= MaxI64 /\ - MaxI64 - 1 <= n /\ n <= MaxI64
  BY WidthsAreIntegers, WidthsAssumption DEF I64
<1>2. x % d = MaxI64 + 1
  <2>1. x % d \in Int
    BY <1>1
  <2> QED
    BY <1>1, <2>1 DEF AddI64
<1>3. CASE 0 <= x /\ x < d
  BY <1>1, <1>2, <1>3, ModOfSmall
<1>4. CASE x < 0
  BY <1>1, <1>4
<1>5. CASE x >= d
  <2>1. x < 2 * d
    BY <1>1
  <2>2. x % d = x - d
    BY <1>1, <1>5, <2>1, ModOfGreater
  <2> QED
    BY <1>1, <1>2, <2>2
<1> QED
  BY <1>1, <1>3, <1>4, <1>5

-----------------------------------------------------------------------------
(***************************************************************************)
(* Find, on operations of a request and on those the server generates.     *)
(***************************************************************************)
LEMMA FirstExists ==
  ASSUME NEW ops \in Seq(Operations), NEW t, Has(ops, t)
  PROVE  \E k \in DOMAIN ops : /\ ops[k].type = t
                               /\ \A j \in DOMAIN ops : ops[j].type = t => k <= j
<1> DEFINE hits == {i \in DOMAIN ops : ops[i].type = t}
<1>1. hits \subseteq Nat /\ hits # {}
  BY DEF Has
<1> DEFINE less == {ss \in Nat \X Nat : ss[1] < ss[2]}
<1>2. IsWellFoundedOn(less, Nat)
  BY NatLessThanWellFounded DEF OpToRel
<1> HIDE DEF less
<1>3. \E i \in hits : \A j \in hits : ~ (<<j, i>> \in less)
  BY <1>1, <1>2, WFMin
<1> QED
  <2>1. PICK k \in hits : \A j \in hits : ~ (<<j, k>> \in less)
    BY <1>3
  <2>2. k \in DOMAIN ops /\ k \in Nat /\ ops[k].type = t
    BY <1>1, <2>1
  <2>3. ASSUME NEW j \in DOMAIN ops, ops[j].type = t PROVE k <= j
    <3>1. j \in hits /\ j \in Nat
      BY <1>1, <2>3
    <3>2. ~ (<<j, k>> \in less)
      BY <2>1, <3>1
    <3>3. ~ (j < k)
      BY <2>2, <3>1, <3>2 DEF less
    <3> QED
      BY <2>2, <3>1, <3>3
  <2> QED
    BY <2>2, <2>3

LEMMA FindIs ==
  ASSUME NEW ops \in Seq(Operations), NEW t, Has(ops, t)
  PROVE  Find(ops, t) \in Operations /\ Find(ops, t).type = t
BY FirstExists DEF Find

LEMMA FindAt ==
  ASSUME NEW ops \in Seq(Operations), NEW t, NEW n \in DOMAIN ops, ops[n].type = t,
         \A j \in DOMAIN ops : ops[j].type = t => n <= j
  PROVE  Has(ops, t) /\ Find(ops, t) = ops[n]
<1> DEFINE first(k) == /\ ops[k].type = t
                       /\ \A j \in DOMAIN ops : ops[j].type = t => k <= j
<1>1. DOMAIN ops \subseteq Nat
  OBVIOUS
<1>2. \A k \in DOMAIN ops : first(k) <=> k = n
  BY <1>1
<1>3. (CHOOSE k \in DOMAIN ops : first(k)) = n
  BY <1>2
<1> QED
  BY <1>3 DEF Has, Find

LEMMA FindFirst ==
  ASSUME NEW ops, NEW t, NEW n \in 1..3, DOMAIN ops \in {1..2, 1..3}, n \in DOMAIN ops,
         ops[n].type = t,
         \A i \in DOMAIN ops : i # n => ops[i].type # t
  PROVE  Has(ops, t) /\ Find(ops, t) = ops[n]
<1> DEFINE first(k) == /\ ops[k].type = t
                       /\ \A j \in DOMAIN ops : ops[j].type = t => k <= j
<1>1. \A k \in DOMAIN ops : first(k) <=> k = n
  OBVIOUS
<1>2. (CHOOSE k \in DOMAIN ops : first(k)) = n
  BY <1>1
<1> QED
  BY <1>2 DEF Has, Find

-----------------------------------------------------------------------------
(***************************************************************************)
(* What the conversions give.                                              *)
(***************************************************************************)
\* A command says what the operations say.
Says(command, ops, validUntil, memo) ==
  LET fee == Find(ops, "fee_payment")
      source == Find(ops, "payment_source_dec")
      receiver == Find(ops, "payment_receiver_inc")
      change == Find(ops, "delegate_change")
  IN  /\ command.fee_payer = command.source
      /\ command.fee_payer # None => command.fee_payer = fee.account.address
      /\ command.fee = fee.amount /\ command.fee < 0
      /\ command.valid_until = validUntil /\ command.memo = memo
      /\ command.kind = "payment" =>
           /\ fee.account = source.account /\ command.token \in Base58
           /\ command.receiver # None => command.receiver = receiver.account.address
           /\ command.amount = receiver.amount
           /\ source.amount \in I64
           /\ source.amount + receiver.amount = 0 \/ receiver.amount < 0
      /\ command.kind = "delegation" =>
           /\ fee.account = change.account
           /\ command.receiver = change.target
           /\ command.amount = 0

LEMMA AccountParts ==
  ASSUME NEW op \in Operations
  PROVE  /\ TokenOf(op) \in Tokens
         /\ AddressOf(op) \in Strings \cup {None}
         /\ op.type # "delegate_change" /\ AddressOf(op) # None =>
              AddressOf(op) = op.account.address
         /\ op.type = "delegate_change" => AddressOf(op) = op.target
<1>1. DefaultToken \in Tokens
  BY StringsAssumption
<1>2. /\ op.account \in Accounts \cup {None}
      /\ op.target \in Strings \cup {None}
  BY DEF Operations
<1>3. TokenOf(op) \in Tokens
  BY <1>1, <1>2 DEF TokenOf, Accounts
<1>4. AddressOf(op) \in Strings \cup {None}
  BY <1>2 DEF AddressOf, Accounts
<1> QED
  BY <1>3, <1>4 DEF AddressOf

LEMMA FromOperationsGives ==
  ASSUME NEW ops \in Seq(Operations), NEW validUntil \in Nat \cup {None},
         NEW memo \in Memos \cup {None}, PaymentOperations(ops) \/ DelegationOperations(ops)
  PROVE  /\ FromOperations(ops, validUntil, memo) \in Commands
         /\ Says(FromOperations(ops, validUntil, memo), ops, validUntil, memo)
<1> DEFINE fee == Find(ops, "fee_payment")
           source == Find(ops, "payment_source_dec")
           receiver == Find(ops, "payment_receiver_inc")
           change == Find(ops, "delegate_change")
           command == FromOperations(ops, validUntil, memo)
<1>1. CASE PaymentOperations(ops)
  <2>1. /\ fee \in Operations /\ fee.type = "fee_payment"
        /\ source \in Operations /\ source.type = "payment_source_dec"
        /\ receiver \in Operations /\ receiver.type = "payment_receiver_inc"
    BY <1>1, FindIs DEF PaymentOperations
  <2>2. /\ fee.amount \in I64 /\ source.amount \in I64 /\ receiver.amount \in I64
        /\ fee.account = source.account /\ fee.amount < 0
        /\ AddI64(source.amount, receiver.amount) = 0 /\ TokenOf(source) \in Base58
    BY <1>1 DEF PaymentOperations
  <2>3. source.amount + receiver.amount = 0 \/ receiver.amount < 0
    BY <2>2, WrapsToZero
  <2>4. command = [kind |-> "payment", fee_payer |-> AddressOf(fee),
                   source |-> AddressOf(source), receiver |-> AddressOf(receiver),
                   token |-> TokenOf(source), fee |-> fee.amount,
                   amount |-> receiver.amount, valid_until |-> validUntil, memo |-> memo]
    BY <1>1 DEF FromOperations
  <2> HIDE DEF fee, source, receiver, command
  <2>5. /\ AddressOf(fee) \in Strings \cup {None}
        /\ AddressOf(source) \in Strings \cup {None}
        /\ AddressOf(receiver) \in Strings \cup {None}
        /\ TokenOf(source) \in Tokens
        /\ AddressOf(fee) # None => AddressOf(fee) = fee.account.address
        /\ AddressOf(receiver) # None => AddressOf(receiver) = receiver.account.address
    BY <2>1, AccountParts
  <2>6. command \in Commands
    BY <2>2, <2>4, <2>5 DEF Commands
  <2>7. AddressOf(fee) = AddressOf(source)
    BY <2>1, <2>2 DEF AddressOf
  <2>8. Says(command, ops, validUntil, memo)
    BY <2>2, <2>3, <2>4, <2>5, <2>7 DEF Says, fee, source, receiver
  <2> QED
    BY <2>6, <2>8 DEF command
<1>2. CASE ~ PaymentOperations(ops)
  <2>1. DelegationOperations(ops)
    BY <1>2
  <2>2. /\ fee \in Operations /\ fee.type = "fee_payment"
        /\ change \in Operations /\ change.type = "delegate_change"
    BY <2>1, FindIs DEF DelegationOperations
  <2>3. /\ fee.amount \in I64 /\ fee.amount < 0 /\ fee.account = change.account
    BY <2>1 DEF DelegationOperations
  <2>4. command = [kind |-> "delegation", fee_payer |-> AddressOf(fee),
                   source |-> AddressOf(fee), receiver |-> AddressOf(change),
                   token |-> TokenOf(change), fee |-> fee.amount,
                   amount |-> 0, valid_until |-> validUntil, memo |-> memo]
    BY <1>2, <2>1 DEF FromOperations
  <2>0. 0 \in I64
    BY WidthsAssumption DEF I64
  <2> HIDE DEF fee, change, command
  <2>5. /\ AddressOf(fee) \in Strings \cup {None}
        /\ AddressOf(change) \in Strings \cup {None}
        /\ TokenOf(change) \in Tokens
        /\ AddressOf(fee) # None => AddressOf(fee) = fee.account.address
        /\ AddressOf(change) = change.target
    BY <2>2, AccountParts
  <2>6. command \in Commands
    BY <2>0, <2>3, <2>4, <2>5 DEF Commands
  <2>7. Says(command, ops, validUntil, memo)
    BY <2>3, <2>4, <2>5 DEF Says, fee, change
  <2> QED
    BY <2>6, <2>7 DEF command
<1> QED
  BY <1>1, <1>2

LEMMA FromOperationsIs ==
  ASSUME NEW ops \in Seq(Operations), NEW validUntil \in Nat \cup {None},
         NEW memo \in Memos \cup {None}, FromOperations(ops, validUntil, memo) # None
  PROVE  /\ FromOperations(ops, validUntil, memo) \in Commands
         /\ Says(FromOperations(ops, validUntil, memo), ops, validUntil, memo)
<1>1. PaymentOperations(ops) \/ DelegationOperations(ops)
  BY DEF FromOperations
<1> QED
  BY <1>1, FromOperationsGives

\* A payload is what its command says, in the widths of a transaction.
Carries(payload, command, nonce) ==
  /\ payload.kind = command.kind
  /\ payload.fee_payer = command.fee_payer /\ payload.receiver = command.receiver
  /\ payload.amount = AsU64(command.amount) /\ payload.fee = - command.fee
  /\ payload.nonce = nonce /\ payload.token = command.token
  /\ payload.valid_until = ParseU32(command.valid_until)
  /\ payload.memo = MemoOf(command.memo)

LEMMA ToPayloadGives ==
  ASSUME NEW command \in Commands, command.fee < 0, NEW nonce \in U32,
         {command.fee_payer, command.receiver} \subseteq Keys,
         command.fee_payer = command.source,
         command.memo \in ShortMemos \cup {None}
  PROVE  /\ ToPayload(command, nonce) \in PayloadSet
         /\ Carries(ToPayload(command, nonce), command, nonce)
<1> DEFINE payload == ToPayload(command, nonce)
<1>1. /\ command.fee_payer \in Keys /\ command.receiver \in Keys
      /\ command.memo \in ShortMemos \cup {None}
      /\ payload = [kind |-> command.kind, fee_payer |-> command.fee_payer,
                    receiver |-> command.receiver, amount |-> AsU64(command.amount),
                    fee |-> - command.fee, nonce |-> nonce, token |-> command.token,
                    valid_until |-> ParseU32(command.valid_until),
                    memo |-> MemoOf(command.memo)]
  BY DEF ToPayload
<1> HIDE DEF payload
<1>2. /\ command.kind \in {"payment", "delegation"} /\ command.token \in Tokens
      /\ command.fee \in I64 /\ command.amount \in I64
  BY DEF Commands
<1>3. AsU64(command.amount) \in U64
  BY <1>2, CastToU64
<1>4. - command.fee \in U64
  BY <1>2, WidthsAssumption DEF I64, U64, MaxU64
<1>5. ParseU32(command.valid_until) \in U32 \cup {None}
  BY DEF ParseU32
<1>6. MemoOf(command.memo) \in [tag : {0, 1}, text : ShortMemos]
  BY <1>1, StringsAssumption DEF MemoOf, NoMemo
<1>7. payload \in PayloadSet
  BY <1>1, <1>2, <1>3, <1>4, <1>5, <1>6 DEF PayloadSet
<1>8. Carries(payload, command, nonce)
  BY <1>1 DEF Carries
<1> QED
  BY <1>7, <1>8 DEF payload

LEMMA ToPayloadIs ==
  ASSUME NEW command \in Commands, command.fee < 0, NEW nonce \in U32,
         ToPayload(command, nonce) # None
  PROVE  /\ ToPayload(command, nonce) \in PayloadSet
         /\ Carries(ToPayload(command, nonce), command, nonce)
<1>1. /\ {command.fee_payer, command.receiver} \subseteq Keys
      /\ command.fee_payer = command.source
      /\ command.memo \in ShortMemos \cup {None}
  BY DEF ToPayload
<1> QED
  BY <1>1, ToPayloadGives

\* The operations that the server generates, one by one.
LEMMA GeneratedPayment ==
  ASSUME NEW tx \in Transactions, tx.kind = "payment"
  PROVE  LET ops == GenerateOperations(tx)
             from == [address |-> tx.from, token |-> tx.token]
             to == [address |-> tx.to, token |-> tx.token]
         IN  /\ Len(ops) = 3
             /\ Has(ops, "fee_payment") /\ Has(ops, "payment_source_dec")
             /\ Has(ops, "payment_receiver_inc")
             /\ Find(ops, "fee_payment") =
                  [type |-> "fee_payment", account |-> from, amount |-> - tx.fee, target |-> None]
             /\ Find(ops, "payment_source_dec") =
                  [type |-> "payment_source_dec", account |-> from, amount |-> - tx.amount,
                   target |-> None]
             /\ Find(ops, "payment_receiver_inc") =
                  [type |-> "payment_receiver_inc", account |-> to, amount |-> tx.amount,
                   target |-> None]
<1> DEFINE ops == GenerateOperations(tx)
<1>1. /\ DOMAIN ops = 1..3 /\ Len(ops) = 3
      /\ ops[1].type = "fee_payment" /\ ops[2].type = "payment_source_dec"
      /\ ops[3].type = "payment_receiver_inc"
  BY DEF GenerateOperations
<1>2. Has(ops, "fee_payment") /\ Find(ops, "fee_payment") = ops[1]
  BY <1>1, FindFirst
<1>3. Has(ops, "payment_source_dec") /\ Find(ops, "payment_source_dec") = ops[2]
  BY <1>1, FindFirst
<1>4. Has(ops, "payment_receiver_inc") /\ Find(ops, "payment_receiver_inc") = ops[3]
  BY <1>1, FindFirst
<1> QED
  BY <1>1, <1>2, <1>3, <1>4 DEF GenerateOperations

LEMMA GeneratedDelegation ==
  ASSUME NEW tx \in Transactions, tx.kind = "delegation"
  PROVE  LET ops == GenerateOperations(tx)
             from == [address |-> tx.from, token |-> tx.token]
         IN  /\ Len(ops) = 2
             /\ Has(ops, "fee_payment") /\ Has(ops, "delegate_change")
             /\ Find(ops, "fee_payment") =
                  [type |-> "fee_payment", account |-> from, amount |-> - tx.fee, target |-> None]
             /\ Find(ops, "delegate_change") =
                  [type |-> "delegate_change", account |-> from, amount |-> None,
                   target |-> tx.to]
<1> DEFINE ops == GenerateOperations(tx)
<1>1. /\ DOMAIN ops = 1..2 /\ Len(ops) = 2
      /\ ops[1].type = "fee_payment" /\ ops[2].type = "delegate_change"
  BY DEF GenerateOperations
<1>2. Has(ops, "fee_payment") /\ Find(ops, "fee_payment") = ops[1]
  BY <1>1, FindFirst
<1>3. Has(ops, "delegate_change") /\ Find(ops, "delegate_change") = ops[2]
  BY <1>1, FindFirst
<1> QED
  BY <1>1, <1>2, <1>3 DEF GenerateOperations

\* A transaction that comes out of its operations again is itself, with a
\* memo that has a tag; a payment that does has an amount within i64.
LEMMA RereadIs ==
  ASSUME NEW tx \in Transactions, Reread(tx) # None
  PROVE  /\ Reread(tx) \in PayloadSet
         /\ Reread(tx).kind = tx.kind
         /\ Reread(tx).fee_payer = tx.from /\ Reread(tx).receiver = tx.to
         /\ tx.kind = "payment" => tx.amount <= MaxI64 /\ Reread(tx).amount = tx.amount
         /\ tx.kind = "delegation" => Reread(tx).amount = 0
         /\ Reread(tx).fee = tx.fee /\ Reread(tx).nonce = tx.nonce
         /\ Reread(tx).valid_until = tx.valid_until
         /\ Reread(tx).memo = [tag |-> 1, text |-> tx.memo]
         /\ tx.kind = "payment" => Reread(tx).token = tx.token
<1> DEFINE ops == GenerateOperations(tx)
           command == FromOperations(ops, tx.valid_until, tx.memo)
<1>1. /\ tx.from \in Keys /\ tx.to \in Keys /\ tx.amount \in U64 /\ tx.fee \in U64
      /\ tx.nonce \in U32 /\ tx.token \in Tokens /\ tx.memo \in ShortMemos
      /\ tx.valid_until \in U32 \cup {None} /\ tx.kind \in {"payment", "delegation"}
  BY DEF Transactions
<1>2. /\ command # None /\ Reread(tx) = ToPayload(command, tx.nonce)
  BY DEF Reread
<1>3. /\ tx.memo \in Memos /\ tx.memo # None /\ Keys \subseteq Strings
      /\ None \notin Keys /\ tx.token # None
  BY <1>1, StringsAssumption
<1>4. ParseU32(tx.valid_until) = tx.valid_until
  BY <1>1, WidthsAreIntegers DEF ParseU32
<1>5. MemoOf(tx.memo) = [tag |-> 1, text |-> tx.memo]
  BY <1>3 DEF MemoOf
<1>6. tx.amount \in Int /\ tx.fee \in Int /\ 0 <= tx.amount /\ MaxI64 \in Nat
  BY <1>1, WidthsAreIntegers, WidthsAssumption DEF U64
<1>7. tx.valid_until \in Nat \cup {None}
  BY <1>1, WidthsAssumption DEF U32
<1>8. CASE tx.kind = "payment"
  <2>1. /\ Len(ops) = 3
        /\ Find(ops, "fee_payment") =
             [type |-> "fee_payment", account |-> [address |-> tx.from, token |-> tx.token],
              amount |-> - tx.fee, target |-> None]
        /\ Find(ops, "payment_source_dec") =
             [type |-> "payment_source_dec", account |-> [address |-> tx.from, token |-> tx.token],
              amount |-> - tx.amount, target |-> None]
        /\ Find(ops, "payment_receiver_inc") =
             [type |-> "payment_receiver_inc", account |-> [address |-> tx.to, token |-> tx.token],
              amount |-> tx.amount, target |-> None]
    BY <1>8, GeneratedPayment
  <2> HIDE DEF ops
  <2>2. PaymentOperations(ops)
    BY <1>2, <2>1 DEF FromOperations, DelegationOperations
  <2>3. tx.amount \in I64 /\ - tx.fee \in I64 /\ - tx.fee < 0
    BY <2>1, <2>2 DEF PaymentOperations
  <2>4. tx.amount <= MaxI64
    BY <2>3, WidthsAssumption DEF I64
  <2>5. command = [kind |-> "payment", fee_payer |-> tx.from, source |-> tx.from,
                   receiver |-> tx.to, token |-> tx.token, fee |-> - tx.fee,
                   amount |-> tx.amount, valid_until |-> tx.valid_until, memo |-> tx.memo]
    <3> DEFINE from == [address |-> tx.from, token |-> tx.token]
               to == [address |-> tx.to, token |-> tx.token]
    <3>1. from \in Accounts /\ to \in Accounts
      BY <1>1, <1>3 DEF Accounts
    <3>2. from # None /\ to # None
      BY <3>1, AccountsAssumption
    <3>3. /\ AddressOf(Find(ops, "fee_payment")) = tx.from
          /\ AddressOf(Find(ops, "payment_source_dec")) = tx.from
          /\ AddressOf(Find(ops, "payment_receiver_inc")) = tx.to
          /\ TokenOf(Find(ops, "payment_source_dec")) = tx.token
      BY <1>3, <2>1, <3>2 DEF AddressOf, TokenOf
    <3> QED
      BY <2>1, <2>2, <3>3 DEF FromOperations
  <2> HIDE DEF command
  <2>6. command \in Commands
    BY <1>1, <1>3, <1>7, <2>3, <2>5 DEF Commands
  <2>7. command.fee < 0
    BY <2>3, <2>5
  <2>8. /\ ToPayload(command, tx.nonce) \in PayloadSet
        /\ Carries(ToPayload(command, tx.nonce), command, tx.nonce)
    BY <1>1, <1>2, <2>6, <2>7, ToPayloadIs
  <2>9. AsU64(tx.amount) = tx.amount
    BY <1>6, <2>3, CastToU64
  <2>10. - (- tx.fee) = tx.fee
    BY <1>6
  <2> QED
    BY <1>2, <1>4, <1>5, <1>8, <2>4, <2>5, <2>8, <2>9, <2>10 DEF Carries
<1>9. CASE tx.kind = "delegation"
  <2>1. /\ Len(ops) = 2
        /\ Find(ops, "fee_payment") =
             [type |-> "fee_payment", account |-> [address |-> tx.from, token |-> tx.token],
              amount |-> - tx.fee, target |-> None]
        /\ Find(ops, "delegate_change") =
             [type |-> "delegate_change", account |-> [address |-> tx.from, token |-> tx.token],
              amount |-> None, target |-> tx.to]
    BY <1>9, GeneratedDelegation
  <2> HIDE DEF ops
  <2>2. ~ PaymentOperations(ops) /\ DelegationOperations(ops)
    BY <1>2, <2>1 DEF FromOperations, PaymentOperations
  <2>3. - tx.fee \in I64 /\ - tx.fee < 0
    BY <2>1, <2>2 DEF DelegationOperations
  <2>4. command = [kind |-> "delegation", fee_payer |-> tx.from, source |-> tx.from,
                   receiver |-> tx.to, token |-> tx.token, fee |-> - tx.fee,
                   amount |-> 0, valid_until |-> tx.valid_until, memo |-> tx.memo]
    <3> DEFINE from == [address |-> tx.from, token |-> tx.token]
    <3>1. from \in Accounts
      BY <1>1, <1>3 DEF Accounts
    <3>2. from # None
      BY <3>1, AccountsAssumption
    <3>3. /\ AddressOf(Find(ops, "fee_payment")) = tx.from
          /\ AddressOf(Find(ops, "delegate_change")) = tx.to
          /\ TokenOf(Find(ops, "delegate_change")) = tx.token
      BY <1>3, <2>1, <3>2 DEF AddressOf, TokenOf
    <3> QED
      BY <2>1, <2>2, <3>3 DEF FromOperations
  <2> HIDE DEF command
  <2>5. 0 \in I64
    BY WidthsAssumption DEF I64
  <2>6. command \in Commands
    BY <1>1, <1>3, <1>7, <2>3, <2>4, <2>5 DEF Commands
  <2>7. command.fee < 0
    BY <2>3, <2>4
  <2>8. /\ ToPayload(command, tx.nonce) \in PayloadSet
        /\ Carries(ToPayload(command, tx.nonce), command, tx.nonce)
    BY <1>1, <1>2, <2>6, <2>7, ToPayloadIs
  <2>9. AsU64(0) = 0
    BY <2>5, CastToU64
  <2>10. - (- tx.fee) = tx.fee
    BY <1>6
  <2> QED
    BY <1>2, <1>4, <1>5, <1>9, <2>4, <2>8, <2>9, <2>10 DEF Carries
<1> QED
  BY <1>1, <1>8, <1>9

-----------------------------------------------------------------------------
(***************************************************************************)
(* How the answers derive from one another.                                *)
(***************************************************************************)
RequestOK ==
  /\ request.ops \in Seq(Operations)
  /\ request.valid_until \in Nat \cup {None}
  /\ request.memo \in Memos \cup {None}
  /\ DOMAIN request = {"ops", "valid_until", "memo"}

MetadataOK ==
  /\ metadata \in Metadatas
  /\ metadata.valid_until = request.valid_until /\ metadata.memo = request.memo

Command == FromOperations(request.ops, metadata.valid_until, metadata.memo)
Payload == IF Command = None THEN None ELSE ToPayload(Command, metadata.nonce)

Derived ==
  /\ RequestOK
  /\ step \in Steps
  /\ inferred \in 0..MaxNonce \cup {None}
  /\ step # "asked" =>
       /\ options \in Optioned
       /\ options.valid_until = request.valid_until /\ options.memo = request.memo
  /\ step \notin {"asked", "preprocess"} => MetadataOK
  /\ step \in {"asked", "preprocess", "metadata"} =>
       unsigned = None /\ shown = None /\ signed = None /\ confirmed = None /\ hash = None
  /\ step \in {"payloads", "combine", "hash"} =>
       Payload # None /\ unsigned = TransactionUnsigned(Payload)
  /\ shown # None => /\ shown = GenerateOperations(unsigned.tx)
                     /\ Reread(unsigned.tx) # None
  /\ step = "payloads" => signed = None /\ confirmed = None /\ hash = None
  /\ step \in {"combine", "hash"} =>
       signed = [signature |-> unsigned.random_oracle_input, tx |-> unsigned.tx]
  /\ step = "combine" => hash = None
  /\ confirmed # None => /\ confirmed = GenerateOperations(unsigned.tx)
                         /\ Reread(unsigned.tx) # None
  /\ step = "hash" => /\ Reread(unsigned.tx) # None
                      /\ hash = SignedContent(Reread(unsigned.tx))

LEMMA PayloadIs ==
  ASSUME RequestOK, MetadataOK, Payload # None
  PROVE  /\ Command \in Commands /\ Payload \in PayloadSet
         /\ Says(Command, request.ops, request.valid_until, request.memo)
         /\ Carries(Payload, Command, metadata.nonce)
<1>1. Command # None /\ Payload = ToPayload(Command, metadata.nonce)
  BY DEF Payload
<1>2. metadata.nonce \in U32
  BY NonceAssumption, WidthsAssumption DEF MetadataOK, Metadatas, U32
<1>3. /\ Command \in Commands
      /\ Says(Command, request.ops, request.valid_until, request.memo)
  BY <1>1, FromOperationsIs DEF Command, RequestOK, MetadataOK
<1>4. Command.fee < 0
  BY <1>3 DEF Says
<1>5. /\ ToPayload(Command, metadata.nonce) \in PayloadSet
      /\ Carries(ToPayload(Command, metadata.nonce), Command, metadata.nonce)
  BY <1>1, <1>2, <1>3, <1>4, ToPayloadIs
<1> QED
  BY <1>1, <1>3, <1>5

LEMMA UnsignedIs ==
  ASSUME NEW payload \in PayloadSet
  PROVE  /\ SignedContent(payload) \in Contents
         /\ Transaction(payload) \in Transactions
         /\ TransactionUnsigned(payload) \in Unsigneds
         /\ TransactionUnsigned(payload).random_oracle_input = SignedContent(payload)
         /\ TransactionUnsigned(payload).tx = Transaction(payload)
<1>1. /\ payload.kind \in {"payment", "delegation"} /\ payload.fee_payer \in Keys
      /\ payload.receiver \in Keys /\ payload.amount \in U64 /\ payload.fee \in U64
      /\ payload.nonce \in U32 /\ payload.token \in Tokens
      /\ payload.valid_until \in U32 \cup {None}
      /\ payload.memo \in [tag : {0, 1}, text : ShortMemos]
  BY DEF PayloadSet
<1>2. MaxU32 \in U32 /\ DefaultToken \in Tokens
  BY WidthsAssumption, StringsAssumption DEF U32
<1>3. SignedContent(payload) \in Contents
  BY <1>1, <1>2 DEF SignedContent, Contents
<1>4. Transaction(payload) \in Transactions
  BY <1>1, <1>2 DEF Transaction, Transactions
<1> QED
  BY <1>3, <1>4 DEF TransactionUnsigned, Unsigneds

\* What is signed, once it has come out of its own operations again.
LEMMA SignedMeans ==
  ASSUME RequestOK, MetadataOK, Payload # None, Reread(Transaction(Payload)) # None
  PROVE  LET content == SignedContent(Payload)
             tx == Transaction(Payload)
         IN  /\ Does(content, request.ops)
             /\ Does(content, GenerateOperations(tx))
             /\ content.nonce = metadata.nonce
             /\ content.memo.text = (IF request.memo = None THEN EmptyMemo ELSE request.memo)
             /\ request.valid_until \in U32 => content.valid_until = request.valid_until
             /\ request.memo # None => SignedContent(Reread(tx)) = content
<1> DEFINE content == SignedContent(Payload)
           tx == Transaction(Payload)
           ops == GenerateOperations(tx)
<1>1. /\ Command \in Commands /\ Payload \in PayloadSet
      /\ Says(Command, request.ops, request.valid_until, request.memo)
      /\ Carries(Payload, Command, metadata.nonce)
  BY PayloadIs
<1>2. tx \in Transactions
  <2> HIDE DEF Payload
  <2> QED
    BY <1>1, UnsignedIs
<1>3. /\ Payload.fee_payer \in Keys /\ Payload.receiver \in Keys /\ None \notin Keys
      /\ Payload.kind \in {"payment", "delegation"}
      /\ Payload.amount \in U64 /\ Payload.fee \in U64
      /\ Command.amount \in I64 /\ Command.fee \in I64
  BY <1>1, StringsAssumption DEF PayloadSet, Commands
<1>4. /\ Payload.amount \in Int /\ Payload.fee \in Int /\ 0 <= Payload.amount
      /\ Command.amount \in Int /\ Command.fee \in Int
  <2>1. \A n \in U64 : n \in Int /\ 0 <= n
    BY WidthsAreIntegers DEF U64
  <2>2. \A n \in I64 : n \in Int
    BY WidthsAreIntegers
  <2> QED
    BY <1>3, <2>1, <2>2
<1>5. /\ Payload.kind = Command.kind
      /\ Payload.fee_payer = Command.fee_payer /\ Payload.receiver = Command.receiver
      /\ Payload.amount = AsU64(Command.amount) /\ Payload.fee = - Command.fee
      /\ Payload.nonce = metadata.nonce
      /\ Payload.valid_until = ParseU32(request.valid_until)
      /\ Payload.memo = MemoOf(request.memo)
  BY <1>1 DEF Carries, Says
<1>6. /\ content.kind = Payload.kind /\ content.fee_payer = Payload.fee_payer
      /\ content.receiver = Payload.receiver /\ content.amount = Payload.amount
      /\ content.fee = Payload.fee /\ content.nonce = Payload.nonce
      /\ content.memo = Payload.memo
      /\ content.valid_until = IF Payload.valid_until = None THEN MaxU32
                               ELSE Payload.valid_until
  BY DEF SignedContent
<1>7. /\ tx.kind = Payload.kind /\ tx.from = Payload.fee_payer /\ tx.to = Payload.receiver
      /\ tx.amount = Payload.amount /\ tx.fee = Payload.fee /\ tx.nonce = Payload.nonce
      /\ tx.memo = Payload.memo.text /\ tx.valid_until = Payload.valid_until
  BY DEF Transaction
<1>8. /\ Reread(tx).kind = tx.kind
      /\ Reread(tx).fee_payer = tx.from /\ Reread(tx).receiver = tx.to
      /\ tx.kind = "payment" => tx.amount <= MaxI64 /\ Reread(tx).amount = tx.amount
      /\ tx.kind = "delegation" => Reread(tx).amount = 0
      /\ Reread(tx).fee = tx.fee /\ Reread(tx).nonce = tx.nonce
      /\ Reread(tx).valid_until = tx.valid_until
      /\ Reread(tx).memo = [tag |-> 1, text |-> tx.memo]
  BY <1>2, RereadIs
<1> HIDE DEF content, tx
<1>9. Payload.kind = "payment" => Command.amount >= 0 /\ Payload.amount = Command.amount
  <2> SUFFICES ASSUME Payload.kind = "payment"
               PROVE  Command.amount >= 0 /\ Payload.amount = Command.amount
    OBVIOUS
  <2>1. Payload.amount <= MaxI64
    BY <1>7, <1>8
  <2>2. ~ (Command.amount < 0)
    BY <1>3, <1>4, <1>5, <2>1, CastToU64, WidthsAssumption
  <2> QED
    BY <1>3, <1>4, <1>5, <2>2, CastToU64
<1>10. Payload.kind = "delegation" => Payload.amount = 0
  <2>1. 0 \in I64
    BY WidthsAssumption DEF I64
  <2> QED
    BY <1>1, <1>5, <2>1, CastToU64 DEF Says
<1>11. Does(content, request.ops)
  <2>1. /\ content.fee_payer = Find(request.ops, "fee_payment").account.address
        /\ content.fee = - Find(request.ops, "fee_payment").amount
    BY <1>1, <1>3, <1>5, <1>6 DEF Says
  <2>2. CASE content.kind = "payment"
    <3>1. /\ Find(request.ops, "fee_payment").account =
               Find(request.ops, "payment_source_dec").account
          /\ content.receiver = Find(request.ops, "payment_receiver_inc").account.address
          /\ content.amount = Find(request.ops, "payment_receiver_inc").amount
      BY <1>1, <1>3, <1>5, <1>6, <1>9, <2>2 DEF Says
    <3>2. content.amount = - Find(request.ops, "payment_source_dec").amount
      <4>1. /\ Command.amount = Find(request.ops, "payment_receiver_inc").amount
            /\ Find(request.ops, "payment_source_dec").amount \in Int
            /\ Find(request.ops, "payment_source_dec").amount + Command.amount = 0
        <5> DEFINE source == Find(request.ops, "payment_source_dec").amount
                   receiver == Find(request.ops, "payment_receiver_inc").amount
        <5>1. Command.kind = "payment"
          BY <1>5, <1>6, <2>2
        <5>2. /\ Command.amount = receiver /\ source \in I64
              /\ source + receiver = 0 \/ receiver < 0
          BY <1>1, <5>1 DEF Says
        <5> HIDE DEF source, receiver
        <5>3. source \in Int
          BY <5>2, WidthsAreIntegers
        <5>4. Command.amount >= 0
          BY <1>5, <1>9, <5>1
        <5>5. source + Command.amount = 0
          BY <1>4, <5>2, <5>3, <5>4
        <5> QED
          BY <5>2, <5>3, <5>5 DEF source, receiver
      <4> QED
        <5> DEFINE source == Find(request.ops, "payment_source_dec").amount
        <5>1. content.amount = Command.amount
          BY <1>6, <1>9, <2>2
        <5>2. source \in Int /\ source + Command.amount = 0
          BY <4>1
        <5> HIDE DEF source
        <5>3. Command.amount = - source
          BY <1>4, <5>2
        <5> QED
          BY <5>1, <5>3 DEF source
    <3> QED
      BY <2>1, <2>2, <3>1, <3>2 DEF Does
  <2>3. CASE content.kind = "delegation"
    <3>1. /\ Find(request.ops, "fee_payment").account =
               Find(request.ops, "delegate_change").account
          /\ content.receiver = Find(request.ops, "delegate_change").target
          /\ content.amount = 0
      BY <1>1, <1>5, <1>6, <1>10, <2>3 DEF Says
    <3> QED
      BY <2>1, <2>3, <3>1 DEF Does
  <2> QED
    BY <1>3, <1>6, <2>2, <2>3
<1>12. Does(content, ops)
  <2>1. tx.fee \in Int /\ tx.amount \in Int /\ - (- tx.fee) = tx.fee /\ - (- tx.amount) = tx.amount
    BY <1>4, <1>7
  <2> HIDE DEF ops
  <2>2. CASE tx.kind = "payment"
    <3>1. /\ Find(ops, "fee_payment") =
               [type |-> "fee_payment", account |-> [address |-> tx.from, token |-> tx.token],
                amount |-> - tx.fee, target |-> None]
          /\ Find(ops, "payment_source_dec") =
               [type |-> "payment_source_dec", account |-> [address |-> tx.from, token |-> tx.token],
                amount |-> - tx.amount, target |-> None]
          /\ Find(ops, "payment_receiver_inc") =
               [type |-> "payment_receiver_inc", account |-> [address |-> tx.to, token |-> tx.token],
                amount |-> tx.amount, target |-> None]
      BY <1>2, <2>2, GeneratedPayment DEF ops
    <3> QED
      BY <1>6, <1>7, <2>1, <2>2, <3>1 DEF Does
  <2>3. CASE tx.kind = "delegation"
    <3>1. /\ Find(ops, "fee_payment") =
               [type |-> "fee_payment", account |-> [address |-> tx.from, token |-> tx.token],
                amount |-> - tx.fee, target |-> None]
          /\ Find(ops, "delegate_change") =
               [type |-> "delegate_change", account |-> [address |-> tx.from, token |-> tx.token],
                amount |-> None, target |-> tx.to]
      BY <1>2, <2>3, GeneratedDelegation DEF ops
    <3> QED
      BY <1>6, <1>7, <1>10, <2>1, <2>3, <3>1 DEF Does
  <2> QED
    BY <1>3, <1>7, <2>2, <2>3
<1>13. content.memo.text = (IF request.memo = None THEN EmptyMemo ELSE request.memo)
  BY <1>5, <1>6 DEF MemoOf, NoMemo
<1>14. request.valid_until \in U32 => content.valid_until = request.valid_until
  BY <1>5, <1>6, WidthsAreIntegers DEF ParseU32
<1>15. request.memo # None => SignedContent(Reread(tx)) = content
  <2> SUFFICES ASSUME request.memo # None PROVE SignedContent(Reread(tx)) = content
    OBVIOUS
  <2>1. Payload.memo = [tag |-> 1, text |-> tx.memo]
    BY <1>5, <1>7 DEF MemoOf
  <2>2. Reread(tx).amount = Payload.amount
    BY <1>3, <1>7, <1>8, <1>10
  <2> QED
    BY <1>7, <1>8, <2>1, <2>2 DEF SignedContent, content
<1> QED
  BY <1>5, <1>6, <1>11, <1>12, <1>13, <1>14, <1>15 DEF content, tx

-----------------------------------------------------------------------------
(***************************************************************************)
(* Derived is inductive.                                                   *)
(***************************************************************************)
LEMMA SuggestedFeeIs ==
  ASSUME NEW fees \in Seq(U64)
  PROVE  SuggestedFee(fees) \in Int
<1>1. MinFee \in Int /\ U64 \subseteq Int
  BY FeesAssumption, WidthsAreIntegers
<1>2. CASE Len(fees) = 0
  BY <1>1, <1>2 DEF SuggestedFee
<1>3. CASE Len(fees) # 0
  <2> DEFINE n == Len(fees)
  <2>1. /\ n \in Nat \ {0}
        /\ (n \div 4) + 1 \in 1..n /\ (n \div 2) + 1 \in 1..n /\ ((3 * n) \div 4) + 1 \in 1..n
    BY <1>3
  <2>2. /\ fees[(n \div 4) + 1] \in Int /\ fees[(n \div 2) + 1] \in Int
        /\ fees[((3 * n) \div 4) + 1] \in Int
    <3>1. \A i \in 1..n : fees[i] \in U64
      OBVIOUS
    <3>2. \A i \in 1..n : fees[i] \in Int
      BY <1>1, <3>1
    <3> QED
      BY <2>1, <3>2
  <2> DEFINE q1 == fees[(n \div 4) + 1]
             q3 == fees[((3 * n) \div 4) + 1]
             middle == fees[(n \div 2) + 1]
             half == (IF q3 < q1 THEN 0 ELSE q3 - q1) \div 2
  <2>3. SuggestedFee(fees) = middle + half
    BY <1>3 DEF SuggestedFee
  <2> HIDE DEF q1, q3, middle
  <2>4. half \in Int
    BY <2>2 DEF q1, q3
  <2> HIDE DEF half
  <2> QED
    BY <2>2, <2>3, <2>4 DEF middle
<1> QED
  BY <1>2, <1>3

LEMMA WithFeeIs ==
  ASSUME NEW ops \in Seq(Operations), NEW fee \in Int
  PROVE  WithFee(ops, fee) \in Seq(Operations)
<1>1. \A op \in Operations : [op EXCEPT !.amount = - fee] \in Operations
  BY DEF Operations
<1>2. DOMAIN ops = 1..Len(ops) /\ Len(ops) \in Nat /\ \A i \in 1..Len(ops) : ops[i] \in Operations
  OBVIOUS
<1>3. WithFee(ops, fee) \in [1..Len(ops) -> Operations]
  BY <1>1, <1>2 DEF WithFee
<1> QED
  BY <1>2, <1>3

\* A request of the wallet, before anything is answered.
LEMMA InitDerived ==
  ASSUME step = "asked", request \in Requests, inferred \in {None, 0},
         unsigned = None, shown = None, signed = None, confirmed = None, hash = None
  PROVE  Derived
<1>1. RequestOK
  BY RequestsAssumption DEF RequestOK
<1>2. inferred \in 0..MaxNonce \cup {None}
  BY NonceAssumption, WidthsAssumption DEF U32
<1> QED
  BY <1>1, <1>2 DEF Derived, Steps

\* The answers alone matter: a step that leaves them leaves Derived.
LEMMA SameDerived ==
  ASSUME Derived, inferred' \in 0..MaxNonce \cup {None},
         UNCHANGED <<step, request, options, metadata, unsigned, shown, signed,
                     confirmed, hash>>
  PROVE  Derived'
BY DEF Derived, RequestOK, MetadataOK, Command, Payload

LEMMA PreprocessDerived ==
  ASSUME Derived, Preprocess
  PROVE  Derived'
<1> DEFINE command == FromOperations(request.ops, request.valid_until, request.memo)
<1>1. CASE refused' = "preprocess" /\ Refuse("preprocess")
  BY <1>1, SameDerived DEF Preprocess, Call, Refuse, Derived
<1>2. CASE /\ command # None
           /\ {command.fee_payer, command.source, command.receiver} \subseteq Checked
           /\ step' = "preprocess" /\ options' = Options(command)
           /\ UNCHANGED <<refused, request, metadata, unsigned, shown, signed, confirmed, hash>>
  <2>1. step = "asked" /\ inferred' = inferred
    BY DEF Preprocess, Call
  <2>2. /\ RequestOK /\ inferred \in 0..MaxNonce \cup {None}
        /\ unsigned = None /\ shown = None /\ signed = None /\ confirmed = None /\ hash = None
    BY <2>1 DEF Derived
  <2>3. command \in Commands /\ command.valid_until = request.valid_until /\ command.memo = request.memo
    BY <1>2, <2>2, FromOperationsIs DEF RequestOK, Says
  <2>4. /\ Options(command) \in Optioned
        /\ Options(command).valid_until = request.valid_until
        /\ Options(command).memo = request.memo
    <3> HIDE DEF command
    <3> QED
      BY <1>2, <2>3 DEF Options, Optioned, Commands
  <2> QED
    BY <1>2, <2>1, <2>2, <2>4 DEF Derived, RequestOK, Steps
<1> QED
  BY <1>1, <1>2 DEF Preprocess, Refuse

LEMMA MetadataDerived ==
  ASSUME Derived, Metadata
  PROVE  Derived'
<1>1. CASE inferred = None
  <2>1. Refuse("metadata") /\ inferred' = inferred
    BY <1>1 DEF Metadata, Call
  <2> QED
    BY <2>1, SameDerived DEF Refuse, Derived
<1>2. CASE inferred # None
  <2>1. /\ step = "preprocess" /\ step' = "metadata" /\ inferred' = inferred
        /\ metadata' = [nonce |-> inferred, valid_until |-> options.valid_until,
                        memo |-> options.memo]
        /\ \/ request' = request
           \/ \E fees \in BestFees :
                request' = [request EXCEPT !.ops = WithFee(@, SuggestedFee(fees))]
        /\ UNCHANGED <<refused, options, unsigned, shown, signed, confirmed, hash>>
    BY <1>2 DEF Metadata, Call
  <2>2. /\ RequestOK /\ inferred \in 0..MaxNonce
        /\ options \in Optioned
        /\ options.valid_until = request.valid_until /\ options.memo = request.memo
        /\ unsigned = None /\ shown = None /\ signed = None /\ confirmed = None /\ hash = None
    BY <1>2, <2>1 DEF Derived
  <2>3. RequestOK' /\ request'.valid_until = request.valid_until /\ request'.memo = request.memo
    <3>1. CASE request' = request
      BY <2>2, <3>1 DEF RequestOK
    <3>2. CASE \E fees \in BestFees :
                 request' = [request EXCEPT !.ops = WithFee(@, SuggestedFee(fees))]
      <4>1. PICK fees \in BestFees :
                   request' = [request EXCEPT !.ops = WithFee(@, SuggestedFee(fees))]
        BY <3>2
      <4>2. WithFee(request.ops, SuggestedFee(fees)) \in Seq(Operations)
        BY <2>2, FeesAssumption, SuggestedFeeIs, WithFeeIs DEF RequestOK
      <4> QED
        BY <2>2, <4>1, <4>2 DEF RequestOK
    <3> QED
      BY <2>1, <3>1, <3>2
  <2>4. MetadataOK'
    <3>1. /\ metadata'.valid_until = options.valid_until /\ metadata'.memo = options.memo
          /\ metadata' \in Metadatas
      BY <2>1, <2>2 DEF Metadatas, Optioned
    <3> QED
      BY <2>2, <2>3, <3>1 DEF MetadataOK
  <2> QED
    BY <2>1, <2>2, <2>3, <2>4 DEF Derived, Steps
<1> QED
  BY <1>1, <1>2

LEMMA PayloadsDerived ==
  ASSUME Derived, Payloads
  PROVE  Derived'
<1>1. step = "metadata" /\ inferred' = inferred
  BY DEF Payloads, Call
<1>2. CASE Payload = None
  <2>1. Refuse("payloads")
    BY <1>2 DEF Payloads, Payload, Command
  <2> QED
    BY <1>1, <2>1, SameDerived DEF Refuse, Derived
<1>3. CASE Payload # None
  <2>1. /\ step' = "payloads" /\ unsigned' = TransactionUnsigned(Payload)
        /\ UNCHANGED <<refused, request, options, metadata, shown, signed, confirmed, hash>>
    BY <1>3 DEF Payloads, Payload, Command
  <2>2. Payload' = Payload
    BY <2>1 DEF Payload, Command
  <2>3. RequestOK' /\ MetadataOK'
    BY <1>1, <2>1 DEF Derived, Steps, RequestOK, MetadataOK
  <2>4. /\ inferred \in 0..MaxNonce \cup {None}
        /\ options \in Optioned
        /\ options.valid_until = request.valid_until /\ options.memo = request.memo
        /\ shown = None /\ signed = None /\ confirmed = None /\ hash = None
    BY <1>1 DEF Derived
  <2> HIDE DEF Payload
  <2> QED
    BY <1>1, <1>3, <2>1, <2>2, <2>3, <2>4 DEF Derived, Steps
<1> QED
  BY <1>2, <1>3

LEMMA ParseUnsignedDerived ==
  ASSUME Derived, ParseUnsigned
  PROVE  Derived'
<1>1. step = "payloads" /\ inferred' = inferred
  BY DEF ParseUnsigned, Call
<1>2. CASE Refuse("parse")
  BY <1>1, <1>2, SameDerived DEF Refuse, Derived
<1>3. CASE ~ Refuse("parse")
  <2>1. /\ Reread(unsigned.tx) # None /\ shown' = GenerateOperations(unsigned.tx)
        /\ UNCHANGED <<step, refused, request, options, metadata, unsigned, signed,
                       confirmed, hash>>
    BY <1>3 DEF ParseUnsigned
  <2>2. Payload' = Payload /\ RequestOK' = RequestOK /\ MetadataOK' = MetadataOK
    BY <2>1 DEF Payload, Command, RequestOK, MetadataOK
  <2> HIDE DEF Payload, RequestOK, MetadataOK
  <2> QED
    BY <1>1, <2>1, <2>2 DEF Derived, Steps
<1> QED
  BY <1>2, <1>3

LEMMA CombineDerived ==
  ASSUME Derived, Combine
  PROVE  Derived'
<1>1. step = "payloads" /\ inferred' = inferred
  BY DEF Combine, Call
<1>2. CASE Refuse("combine")
  BY <1>1, <1>2, SameDerived DEF Refuse, Derived
<1>3. CASE ~ Refuse("combine")
  <2>1. /\ step' = "combine"
        /\ signed' = [signature |-> unsigned.random_oracle_input, tx |-> unsigned.tx]
        /\ UNCHANGED <<refused, request, options, metadata, unsigned, shown, confirmed, hash>>
    BY <1>3 DEF Combine
  <2>2. Payload' = Payload /\ RequestOK' = RequestOK /\ MetadataOK' = MetadataOK
    BY <2>1 DEF Payload, Command, RequestOK, MetadataOK
  <2> QED
    BY <1>1, <2>1, <2>2 DEF Derived, Steps
<1> QED
  BY <1>2, <1>3

LEMMA ParseSignedDerived ==
  ASSUME Derived, ParseSigned
  PROVE  Derived'
<1>1. step = "combine" /\ inferred' = inferred
  BY DEF ParseSigned, Call
<1>2. CASE Refuse("parse")
  BY <1>1, <1>2, SameDerived DEF Refuse, Derived
<1>3. CASE ~ Refuse("parse")
  <2>1. /\ Reread(signed.tx) # None /\ confirmed' = GenerateOperations(signed.tx)
        /\ UNCHANGED <<step, refused, request, options, metadata, unsigned, shown,
                       signed, hash>>
    BY <1>3 DEF ParseSigned
  <2>2. Payload' = Payload /\ RequestOK' = RequestOK /\ MetadataOK' = MetadataOK
    BY <2>1 DEF Payload, Command, RequestOK, MetadataOK
  <2>3. signed.tx = unsigned.tx
    BY <1>1 DEF Derived
  <2> QED
    BY <1>1, <2>1, <2>2, <2>3 DEF Derived, Steps
<1> QED
  BY <1>2, <1>3

LEMMA HashDerived ==
  ASSUME Derived, Hash
  PROVE  Derived'
<1>1. step = "combine" /\ inferred' = inferred
  BY DEF Hash, Call
<1>2. CASE Refuse("hash")
  BY <1>1, <1>2, SameDerived DEF Refuse, Derived
<1>3. CASE ~ Refuse("hash")
  <2>1. /\ Reread(signed.tx) # None /\ step' = "hash"
        /\ hash' = SignedContent(Reread(signed.tx))
        /\ UNCHANGED <<refused, request, options, metadata, unsigned, shown, signed, confirmed>>
    BY <1>3 DEF Hash
  <2>2. Payload' = Payload /\ RequestOK' = RequestOK /\ MetadataOK' = MetadataOK
    BY <2>1 DEF Payload, Command, RequestOK, MetadataOK
  <2>3. signed.tx = unsigned.tx
    BY <1>1 DEF Derived
  <2> QED
    BY <1>1, <2>1, <2>2, <2>3 DEF Derived, Steps
<1> QED
  BY <1>2, <1>3

LEMMA NextDerived ==
  ASSUME Derived, [ConstructNext]_constructVars
  PROVE  Derived'
<1>1. CASE Preprocess
  BY <1>1, PreprocessDerived
<1>2. CASE Metadata
  BY <1>2, MetadataDerived
<1>3. CASE MetadataFails
  BY <1>3, SameDerived DEF MetadataFails, Call, Refuse, Derived
<1>4. CASE Payloads
  BY <1>4, PayloadsDerived
<1>5. CASE ParseUnsigned
  BY <1>5, ParseUnsignedDerived
<1>6. CASE Combine
  BY <1>6, CombineDerived
<1>7. CASE ParseSigned
  BY <1>7, ParseSignedDerived
<1>8. CASE Hash
  BY <1>8, HashDerived
<1>9. CASE NewRequest
  <2>1. RequestOK'
    BY <1>9, RequestsAssumption DEF NewRequest, RequestOK
  <2>2. inferred' \in 0..MaxNonce \cup {None}
    BY <1>9, NonceAssumption, WidthsAssumption DEF NewRequest, U32
  <2> QED
    BY <1>9, <2>1, <2>2 DEF NewRequest, Derived, Steps
<1>10. CASE OtherTransfer
  <2>1. inferred' \in 0..MaxNonce \cup {None}
    BY <1>10, NonceAssumption, WidthsAssumption DEF OtherTransfer, Derived, U32
  <2> QED
    BY <1>10, <2>1, SameDerived DEF OtherTransfer, walletVars
<1>11. CASE UNCHANGED constructVars
  BY <1>11, SameDerived DEF constructVars, walletVars, Derived
<1> QED
  BY <1>1, <1>2, <1>3, <1>4, <1>5, <1>6, <1>7, <1>8, <1>9, <1>10, <1>11 DEF ConstructNext

LEMMA AlwaysDerived == ConstructSpec => []Derived
<1>1. ConstructInit => Derived
  BY InitDerived DEF ConstructInit
<1>2. Derived /\ [ConstructNext]_constructVars => Derived'
  BY NextDerived
<1> QED
  BY <1>1, <1>2, PTL DEF ConstructSpec

-----------------------------------------------------------------------------
(***************************************************************************)
(* What follows from it.                                                   *)
(***************************************************************************)
LEMMA DerivedUnsigned ==
  ASSUME Derived, step \in {"payloads", "combine", "hash"}
  PROVE  /\ RequestOK /\ MetadataOK /\ Payload # None /\ Payload \in PayloadSet
         /\ unsigned \in Unsigneds
         /\ unsigned.random_oracle_input = SignedContent(Payload)
         /\ unsigned.tx = Transaction(Payload)
<1>1. RequestOK /\ MetadataOK /\ Payload # None /\ unsigned = TransactionUnsigned(Payload)
  BY DEF Derived
<1>2. Payload \in PayloadSet
  BY <1>1, PayloadIs
<1> HIDE DEF Payload
<1> QED
  BY <1>1, <1>2, UnsignedIs

LEMMA DerivedTypes == Derived => ConstructTypeOK
<1> SUFFICES ASSUME Derived PROVE ConstructTypeOK
  OBVIOUS
<1>1. step # "asked" => options # None
  BY NoAnswerAssumption DEF Derived
<1>2. step \notin {"asked", "preprocess"} => metadata # None
  BY NoAnswerAssumption DEF Derived, MetadataOK
<1>3. CASE step \in {"asked", "preprocess", "metadata"}
  BY <1>1, <1>2, <1>3 DEF Derived, ConstructTypeOK
<1>4. CASE step \in {"payloads", "combine", "hash"}
  <2>1. unsigned \in Unsigneds /\ unsigned # None /\ unsigned.tx \in Transactions
        /\ unsigned.random_oracle_input \in Contents
    BY <1>4, DerivedUnsigned, NoAnswerAssumption DEF Unsigneds
  <2>2. signed # None => signed.tx = unsigned.tx
    BY <1>4 DEF Derived
  <2>3. step \in {"combine", "hash"} => signed # None
    <3>1. ASSUME step \in {"combine", "hash"} PROVE signed \in Signeds
      BY <2>1, <3>1 DEF Derived, Signeds
    <3> QED
      BY <3>1, NoAnswerAssumption
  <2>4. hash # None => hash \in Contents
    <3> SUFFICES ASSUME hash # None PROVE hash \in Contents
      OBVIOUS
    <3>1. hash = SignedContent(Reread(unsigned.tx)) /\ Reread(unsigned.tx) # None
      BY <1>4 DEF Derived
    <3>2. Reread(unsigned.tx) \in PayloadSet
      BY <2>1, <3>1, RereadIs
    <3> QED
      BY <3>1, <3>2, UnsignedIs
  <2> QED
    BY <1>1, <1>2, <1>4, <2>1, <2>2, <2>3, <2>4 DEF Derived, ConstructTypeOK
<1> QED
  BY <1>3, <1>4 DEF Derived, Steps

\* Once the transaction is shown or hashed, it came out of its operations.
LEMMA DerivedMeans ==
  ASSUME Derived, shown # None \/ hash # None
  PROVE  /\ step \in {"payloads", "combine", "hash"}
         /\ Reread(unsigned.tx) # None
         /\ RequestOK /\ MetadataOK /\ Payload # None
         /\ unsigned.random_oracle_input = SignedContent(Payload)
         /\ unsigned.tx = Transaction(Payload)
<1>1. step \in {"payloads", "combine", "hash"}
  BY DEF Derived, Steps
<1>2. Reread(unsigned.tx) # None
  BY <1>1 DEF Derived
<1> QED
  BY <1>1, <1>2, DerivedUnsigned

LEMMA DerivedSigned == Derived => SignedIsMeant
<1> SUFFICES ASSUME Derived, shown # None \/ hash # None PROVE SignedIsMeant
  BY DEF SignedIsMeant
<1> DEFINE content == unsigned.random_oracle_input
<1>1. /\ Reread(Transaction(Payload)) # None /\ RequestOK /\ MetadataOK /\ Payload # None
      /\ content = SignedContent(Payload)
      /\ unsigned.tx = Transaction(Payload)
  BY DerivedMeans
<1>2. /\ Does(content, request.ops)
      /\ Does(content, GenerateOperations(unsigned.tx))
      /\ content.nonce = metadata.nonce
      /\ content.memo.text = (IF request.memo = None THEN EmptyMemo ELSE request.memo)
      /\ request.valid_until \in U32 => content.valid_until = request.valid_until
  BY <1>1, SignedMeans
<1>3. /\ shown # None => shown = GenerateOperations(unsigned.tx)
      /\ confirmed # None => confirmed = GenerateOperations(unsigned.tx)
  BY DEF Derived
<1> HIDE DEF content
<1> QED
  BY <1>2, <1>3 DEF SignedIsMeant, content

LEMMA DerivedHash == Derived => HashIsOfSigned
<1> SUFFICES ASSUME Derived, hash # None, request.memo # None
             PROVE  hash = signed.signature
  BY DEF HashIsOfSigned
<1>1. /\ Reread(Transaction(Payload)) # None /\ RequestOK /\ MetadataOK /\ Payload # None
      /\ unsigned.random_oracle_input = SignedContent(Payload)
      /\ unsigned.tx = Transaction(Payload)
  BY DerivedMeans
<1>2. step = "hash"
  BY DerivedMeans DEF Derived
<1>3. /\ hash = SignedContent(Reread(unsigned.tx))
      /\ signed.signature = unsigned.random_oracle_input
  BY <1>2 DEF Derived
<1>4. SignedContent(Reread(Transaction(Payload))) = SignedContent(Payload)
  BY <1>1, SignedMeans
<1> QED
  BY <1>1, <1>3, <1>4

-----------------------------------------------------------------------------
(***************************************************************************)
(* Why an endpoint refuses: what the wallet does to the fee leaves the     *)
(* rest of a request as preprocess accepted it, and a transaction whose    *)
(* amount and fee fit comes out of its operations again.                   *)
(***************************************************************************)
\* Another fee changes the fee operation only.
LEMMA WithFeeFinds ==
  ASSUME NEW ops \in Seq(Operations), NEW fee \in Int, NEW t, Has(ops, t)
  PROVE  /\ Has(WithFee(ops, fee), t)
         /\ Find(WithFee(ops, fee), t) =
              IF t = "fee_payment" THEN [Find(ops, t) EXCEPT !.amount = - fee]
              ELSE Find(ops, t)
<1> DEFINE changed == WithFee(ops, fee)
<1>1. changed \in Seq(Operations) /\ DOMAIN changed = DOMAIN ops
  BY WithFeeIs DEF WithFee
<1>2. PICK k \in DOMAIN ops : /\ ops[k].type = t
                              /\ \A j \in DOMAIN ops : ops[j].type = t => k <= j
  BY FirstExists
<1>3. \A j \in DOMAIN ops : ops[j] \in Operations
  OBVIOUS
<1>4. \A j \in DOMAIN ops : changed[j].type = ops[j].type
  BY <1>3 DEF WithFee, Operations
<1>5. Find(ops, t) = ops[k]
  BY <1>2, FindAt
<1>6. changed[k] = IF t = "fee_payment" THEN [ops[k] EXCEPT !.amount = - fee] ELSE ops[k]
  BY <1>2 DEF WithFee
<1> HIDE DEF changed
<1>7. Has(changed, t) /\ Find(changed, t) = changed[k]
  BY <1>1, <1>2, <1>4, FindAt
<1> QED
  BY <1>5, <1>6, <1>7 DEF changed

FeeGiven(ops) == Find(ops, "fee_payment").amount \in (- MaxI64 - 1)..-1

\* With another fee, if it fits, the same command comes out.
LEMMA WithFeeCommand ==
  ASSUME NEW ops \in Seq(Operations), NEW fee \in Int,
         NEW validUntil \in Nat \cup {None}, NEW memo \in Memos \cup {None},
         FromOperations(ops, validUntil, memo) # None, FeeGiven(WithFee(ops, fee))
  PROVE  LET before == FromOperations(ops, validUntil, memo)
             after == FromOperations(WithFee(ops, fee), validUntil, memo)
         IN  /\ after # None
             /\ after.fee_payer = before.fee_payer /\ after.receiver = before.receiver
<1> DEFINE changed == WithFee(ops, fee)
           before == FromOperations(ops, validUntil, memo)
           after == FromOperations(changed, validUntil, memo)
           paid == Find(ops, "fee_payment")
           charged == Find(changed, "fee_payment")
<1>1. changed \in Seq(Operations) /\ Len(changed) = Len(ops)
  <2>1. changed \in Seq(Operations) /\ DOMAIN changed = DOMAIN ops
    BY WithFeeIs DEF WithFee
  <2> HIDE DEF changed
  <2> QED
    BY <2>1
<1>2. charged.amount \in I64 /\ charged.amount < 0
  BY WidthsAssumption DEF FeeGiven, I64
<1>3. ASSUME Has(ops, "fee_payment")
      PROVE  /\ Has(changed, "fee_payment")
             /\ charged.account = paid.account /\ TokenOf(charged) = TokenOf(paid)
             /\ AddressOf(charged) = AddressOf(paid)
  <2>1. /\ Has(changed, "fee_payment")
        /\ charged = [paid EXCEPT !.amount = - fee]
    BY <1>3, WithFeeFinds
  <2>2. paid \in Operations
    BY <1>3, FindIs
  <2> HIDE DEF paid, charged, changed
  <2>3. /\ charged.account = paid.account /\ charged.type = paid.type
        /\ charged.target = paid.target
    BY <2>1, <2>2 DEF Operations
  <2> QED
    BY <2>1, <2>3 DEF TokenOf, AddressOf
<1>4. ASSUME NEW t, t # "fee_payment", Has(ops, t)
      PROVE  Has(changed, t) /\ Find(changed, t) = Find(ops, t)
  BY <1>4, WithFeeFinds
<1>5. CASE PaymentOperations(ops)
  <2>1. /\ Has(changed, "fee_payment")
        /\ charged.account = paid.account /\ TokenOf(charged) = TokenOf(paid)
        /\ AddressOf(charged) = AddressOf(paid)
    BY <1>3, <1>5 DEF PaymentOperations
  <2>2. /\ Has(changed, "payment_source_dec") /\ Has(changed, "payment_receiver_inc")
        /\ Find(changed, "payment_source_dec") = Find(ops, "payment_source_dec")
        /\ Find(changed, "payment_receiver_inc") = Find(ops, "payment_receiver_inc")
    BY <1>4, <1>5 DEF PaymentOperations
  <2> HIDE DEF paid, charged, changed
  <2>3. PaymentOperations(changed)
    BY <1>1, <1>2, <1>5, <2>1, <2>2 DEF PaymentOperations, paid, charged
  <2>4. after # None
    BY <1>1, <2>3, FromOperationsGives, NoAnswerAssumption
  <2>5. before.fee_payer = AddressOf(paid) /\ after.fee_payer = AddressOf(charged)
    BY <1>5, <2>3 DEF FromOperations, paid, charged
  <2>6. before.receiver = after.receiver
    BY <1>5, <2>2, <2>3 DEF FromOperations
  <2> QED
    BY <2>1, <2>4, <2>5, <2>6 DEF changed
<1>6. CASE ~ PaymentOperations(ops) /\ DelegationOperations(ops)
  <2>1. /\ Has(changed, "fee_payment")
        /\ charged.account = paid.account
        /\ AddressOf(charged) = AddressOf(paid)
    BY <1>3, <1>6 DEF DelegationOperations
  <2>2. /\ Has(changed, "delegate_change")
        /\ Find(changed, "delegate_change") = Find(ops, "delegate_change")
    BY <1>4, <1>6 DEF DelegationOperations
  <2> HIDE DEF paid, charged, changed
  <2>3. ~ PaymentOperations(changed) /\ DelegationOperations(changed)
    BY <1>1, <1>2, <1>6, <2>1, <2>2
       DEF PaymentOperations, DelegationOperations, paid, charged
  <2>4. after # None
    BY <1>1, <2>3, FromOperationsGives, NoAnswerAssumption
  <2>5. before.fee_payer = AddressOf(paid) /\ after.fee_payer = AddressOf(charged)
    BY <1>6, <2>3 DEF FromOperations, paid, charged
  <2>6. before.receiver = after.receiver
    BY <1>6, <2>2, <2>3 DEF FromOperations
  <2> QED
    BY <2>1, <2>4, <2>5, <2>6 DEF changed
<1> QED
  BY <1>5, <1>6 DEF FromOperations

LEMMA GeneratedAreOperations ==
  ASSUME NEW tx \in Transactions
  PROVE  GenerateOperations(tx) \in Seq(Operations)
<1>1. /\ tx.from \in Strings /\ tx.to \in Strings /\ tx.token \in Tokens
      /\ tx.amount \in Int /\ tx.fee \in Int
  BY StringsAssumption, WidthsAreIntegers DEF Transactions
<1>2. /\ [address |-> tx.from, token |-> tx.token] \in Accounts
      /\ [address |-> tx.to, token |-> tx.token] \in Accounts
  BY <1>1 DEF Accounts
<1>3. - tx.fee \in Int /\ - tx.amount \in Int
  BY <1>1
<1> DEFINE Op(type, account, amount, target) ==
             [type |-> type, account |-> account, amount |-> amount, target |-> target]
<1>4. ASSUME NEW type \in Types, NEW account \in Accounts,
             NEW amount \in Int \cup {None}, NEW target \in Strings \cup {None}
      PROVE  Op(type, account, amount, target) \in Operations
  BY DEF Operations
<1> DEFINE from == [address |-> tx.from, token |-> tx.token]
           to == [address |-> tx.to, token |-> tx.token]
           fee == Op("fee_payment", from, - tx.fee, None)
           source == Op("payment_source_dec", from, - tx.amount, None)
           receiver == Op("payment_receiver_inc", to, tx.amount, None)
           change == Op("delegate_change", from, None, tx.to)
<1>5. /\ fee \in Operations /\ source \in Operations
      /\ receiver \in Operations /\ change \in Operations
  <2> HIDE DEF Op
  <2> QED
    BY <1>1, <1>2, <1>3, <1>4 DEF Types
<1>6. GenerateOperations(tx) =
        IF tx.kind = "payment" THEN <<fee, source, receiver>> ELSE <<fee, change>>
  BY DEF GenerateOperations
<1> HIDE DEF fee, source, receiver, change
<1> QED
  BY <1>5, <1>6

\* A transaction whose amount and fee fit i64 comes out of its operations.
LEMMA RereadGives ==
  ASSUME NEW tx \in Transactions, tx.amount <= MaxI64, tx.fee >= 1, tx.fee <= MaxI64 + 1,
         tx.kind = "payment" => tx.token \in Base58
  PROVE  Reread(tx) # None
<1> DEFINE ops == GenerateOperations(tx)
           command == FromOperations(ops, tx.valid_until, tx.memo)
           from == [address |-> tx.from, token |-> tx.token]
           to == [address |-> tx.to, token |-> tx.token]
<1>1. /\ tx.from \in Keys /\ tx.to \in Keys /\ tx.token \in Tokens
      /\ tx.nonce \in U32 /\ tx.memo \in ShortMemos
      /\ tx.kind \in {"payment", "delegation"}
      /\ tx.amount \in U64 /\ tx.fee \in U64
  BY DEF Transactions
<1>2. /\ tx.amount \in Int /\ tx.fee \in Int /\ 0 <= tx.amount
      /\ - tx.fee \in I64 /\ - tx.fee < 0 /\ - tx.amount \in I64 /\ tx.amount \in I64
  BY <1>1, WidthsAssumption, WidthsAreIntegers DEF U64, I64
<1>3. /\ tx.from # None /\ tx.to # None /\ tx.token # None /\ tx.memo \in Memos
      /\ from # None /\ to # None
      /\ tx.valid_until \in Nat \cup {None}
  <2>1. from \in Accounts /\ to \in Accounts
    BY <1>1, StringsAssumption DEF Accounts
  <2> HIDE DEF from, to
  <2> QED
    BY <1>1, <2>1, StringsAssumption, AccountsAssumption, WidthsAssumption
       DEF Transactions, U32
<1>4. ops \in Seq(Operations)
  BY GeneratedAreOperations
<1>5. CASE tx.kind = "payment"
  <2>1. /\ Len(ops) = 3
        /\ Has(ops, "fee_payment") /\ Has(ops, "payment_source_dec")
        /\ Has(ops, "payment_receiver_inc")
        /\ Find(ops, "fee_payment") =
             [type |-> "fee_payment", account |-> from, amount |-> - tx.fee, target |-> None]
        /\ Find(ops, "payment_source_dec") =
             [type |-> "payment_source_dec", account |-> from, amount |-> - tx.amount,
              target |-> None]
        /\ Find(ops, "payment_receiver_inc") =
             [type |-> "payment_receiver_inc", account |-> to, amount |-> tx.amount,
              target |-> None]
    BY <1>5, GeneratedPayment
  <2> HIDE DEF ops
  <2>2. AddI64(- tx.amount, tx.amount) = 0
    <3>1. - tx.amount + tx.amount + MaxI64 + 1 = MaxI64 + 1
      BY <1>2, WidthsAssumption
    <3>2. (MaxI64 + 1) % (MaxU64 + 1) = MaxI64 + 1
      BY ModOfSmall, WidthsAreIntegers, WidthsAssumption
    <3> QED
      BY <3>1, <3>2, WidthsAssumption DEF AddI64
  <2>3. /\ TokenOf(Find(ops, "fee_payment")) = tx.token
        /\ TokenOf(Find(ops, "payment_source_dec")) = tx.token
        /\ AddressOf(Find(ops, "fee_payment")) = tx.from
        /\ AddressOf(Find(ops, "payment_source_dec")) = tx.from
        /\ AddressOf(Find(ops, "payment_receiver_inc")) = tx.to
    BY <1>3, <2>1 DEF TokenOf, AddressOf
  <2>4. PaymentOperations(ops)
    BY <1>2, <1>5, <2>1, <2>2, <2>3 DEF PaymentOperations
  <2>5. command \in Commands /\ command.fee < 0
    <3>1. command \in Commands /\ Says(command, ops, tx.valid_until, tx.memo)
      BY <1>3, <1>4, <2>4, FromOperationsGives
    <3> QED
      BY <3>1 DEF Says
  <2>6. /\ command.fee_payer = tx.from /\ command.source = tx.from /\ command.receiver = tx.to
        /\ command.memo = tx.memo
    BY <2>3, <2>4 DEF FromOperations
  <2> HIDE DEF command
  <2>7. ToPayload(command, tx.nonce) \in PayloadSet
    BY <1>1, <2>5, <2>6, ToPayloadGives
  <2> QED
    BY <2>5, <2>7, NoAnswerAssumption DEF Reread, command, ops
<1>6. CASE tx.kind = "delegation"
  <2>1. /\ Len(ops) = 2
        /\ Has(ops, "fee_payment") /\ Has(ops, "delegate_change")
        /\ Find(ops, "fee_payment") =
             [type |-> "fee_payment", account |-> from, amount |-> - tx.fee, target |-> None]
        /\ Find(ops, "delegate_change") =
             [type |-> "delegate_change", account |-> from, amount |-> None, target |-> tx.to]
    BY <1>6, GeneratedDelegation
  <2> HIDE DEF ops
  <2>2. /\ AddressOf(Find(ops, "fee_payment")) = tx.from
        /\ AddressOf(Find(ops, "delegate_change")) = tx.to
    BY <1>3, <2>1 DEF AddressOf
  <2>3. ~ PaymentOperations(ops) /\ DelegationOperations(ops)
    BY <1>2, <1>3, <2>1 DEF PaymentOperations, DelegationOperations
  <2>4. command \in Commands /\ command.fee < 0
    <3>1. command \in Commands /\ Says(command, ops, tx.valid_until, tx.memo)
      BY <1>3, <1>4, <2>3, FromOperationsGives
    <3> QED
      BY <3>1 DEF Says
  <2>5. /\ command.fee_payer = tx.from /\ command.source = tx.from /\ command.receiver = tx.to
        /\ command.memo = tx.memo
    BY <2>2, <2>3 DEF FromOperations
  <2> HIDE DEF command
  <2>6. ToPayload(command, tx.nonce) \in PayloadSet
    BY <1>1, <2>4, <2>5, ToPayloadGives
  <2> QED
    BY <2>4, <2>6, NoAnswerAssumption DEF Reread, command, ops
<1> QED
  BY <1>1, <1>5, <1>6

-----------------------------------------------------------------------------
(***************************************************************************)
(* Until payloads, a request that preprocess accepted names the accounts   *)
(* of its answer, unless the wallet has given it a fee that does not fit.  *)
(***************************************************************************)
Asked == FromOperations(request.ops, request.valid_until, request.memo)

Named ==
  Asked # None /\ Asked.fee_payer = options.sender /\ Asked.receiver = options.receiver

Causes ==
  /\ step = "preprocess" => Named
  /\ step = "metadata" /\ FeeGiven(request.ops) => Named
  /\ RefusedForCause

LEMMA InitCauses ==
  ASSUME step = "asked", refused = None
  PROVE  Causes
BY NoAnswerAssumption DEF Causes, RefusedForCause, Refusals

LEMMA SameCauses ==
  ASSUME Causes, UNCHANGED <<step, refused, request, options, unsigned>>
  PROVE  Causes'
BY DEF Causes, Named, Asked, RefusedForCause, FeeSuffices, AmountFits

\* The endpoints whose refusal needs no cause.
LEMMA RefuseCauses ==
  ASSUME Causes, NEW endpoint \in Refusals \ {"payloads", "parse", "hash"}, Refuse(endpoint)
  PROVE  Causes'
BY DEF Refuse, Causes, Named, Asked, RefusedForCause

\* An answer after payloads.
LEMMA AnswerCauses ==
  ASSUME refused' = None, step' \in Steps \ {"preprocess", "metadata"}
  PROVE  Causes'
BY NoAnswerAssumption DEF Causes, RefusedForCause, Refusals

LEMMA PreprocessCauses ==
  ASSUME Derived, Causes, Preprocess
  PROVE  Causes'
<1>1. CASE Refuse("preprocess")
  BY <1>1, RefuseCauses DEF Refusals
<1>2. CASE ~ Refuse("preprocess")
  <2>1. /\ Asked # None /\ step' = "preprocess" /\ options' = Options(Asked)
        /\ refused' = None /\ request' = request
    BY <1>2 DEF Preprocess, Call, Asked
  <2>2. Asked' = Asked
    BY <2>1 DEF Asked
  <2> HIDE DEF Asked
  <2>3. Named'
    BY <2>1, <2>2 DEF Named, Options
  <2> QED
    BY <2>1, <2>3, NoAnswerAssumption DEF Causes, RefusedForCause, Refusals
<1> QED
  BY <1>1, <1>2

LEMMA MetadataCauses ==
  ASSUME Derived, Causes, Metadata
  PROVE  Causes'
<1>1. step = "preprocess" /\ refused = None /\ Named /\ RequestOK
  BY DEF Metadata, Call, Causes, Derived
<1>2. CASE inferred = None
  BY <1>2, RefuseCauses DEF Metadata, Refusals
<1>3. CASE inferred # None
  <2>1. step' = "metadata" /\ refused' = None /\ options' = options
    BY <1>1, <1>3 DEF Metadata
  <2>2. ASSUME FeeGiven(request'.ops) PROVE Named'
    <3>1. CASE request' = request
      BY <1>1, <2>1, <3>1 DEF Named, Asked
    <3>2. CASE \E fees \in BestFees :
                 request' = [request EXCEPT !.ops = WithFee(@, SuggestedFee(fees))]
      <4>1. PICK fees \in BestFees :
                   request' = [request EXCEPT !.ops = WithFee(@, SuggestedFee(fees))]
        BY <3>2
      <4>2. SuggestedFee(fees) \in Int
        BY FeesAssumption, SuggestedFeeIs
      <4>3. /\ request'.ops = WithFee(request.ops, SuggestedFee(fees))
            /\ request'.valid_until = request.valid_until /\ request'.memo = request.memo
        BY <1>1, <4>1 DEF RequestOK
      <4>4. /\ Asked' # None
            /\ Asked'.fee_payer = Asked.fee_payer /\ Asked'.receiver = Asked.receiver
        <5> DEFINE fee == SuggestedFee(fees)
                   after == FromOperations(WithFee(request.ops, fee), request.valid_until,
                                           request.memo)
        <5>1. /\ request.ops \in Seq(Operations) /\ request.memo \in Memos \cup {None}
              /\ request.valid_until \in Nat \cup {None}
              /\ FeeGiven(WithFee(request.ops, fee))
          BY <1>1, <2>2, <4>3 DEF RequestOK
        <5>2. FromOperations(request.ops, request.valid_until, request.memo) # None
          BY <1>1 DEF Named, Asked
        <5> HIDE DEF fee
        <5>3. /\ after # None
              /\ after.fee_payer = Asked.fee_payer /\ after.receiver = Asked.receiver
          BY <4>2, <5>1, <5>2, WithFeeCommand DEF Asked, fee
        <5>4. Asked' = after
          BY <4>3 DEF Asked, fee
        <5> QED
          BY <5>3, <5>4
      <4> QED
        BY <1>1, <2>1, <4>4 DEF Named
    <3> QED
      BY <1>3, <3>1, <3>2 DEF Metadata
  <2>3. FeeGiven(request.ops)' => Named'
    BY <2>2 DEF FeeGiven
  <2> QED
    BY <2>1, <2>3, NoAnswerAssumption DEF Causes, RefusedForCause, Refusals
<1> QED
  BY <1>2, <1>3

LEMMA PayloadsCauses ==
  ASSUME Derived, Causes, Payloads
  PROVE  Causes'
<1>1. /\ step = "metadata" /\ refused = None /\ RequestOK /\ MetadataOK
      /\ options.memo = request.memo
  BY DEF Payloads, Call, Derived
<1>2. Command = Asked
  BY <1>1 DEF Command, Asked, MetadataOK
<1>3. CASE Payload = None
  <2>1. Refuse("payloads")
    BY <1>3 DEF Payloads, Payload, Command
  <2>2. ASSUME {options.sender, options.receiver} \subseteq Keys,
               options.memo \in ShortMemos \cup {None}, FeeGiven(request.ops)
        PROVE  FALSE
    <3>1. /\ Asked # None
          /\ Asked.fee_payer = options.sender /\ Asked.receiver = options.receiver
      BY <1>1, <2>2 DEF Causes, Named
    <3>2. /\ Asked \in Commands
          /\ Says(Asked, request.ops, request.valid_until, request.memo)
      BY <1>1, <3>1, FromOperationsIs DEF Asked, RequestOK
    <3>3. /\ Asked.fee < 0 /\ Asked.fee_payer = Asked.source
          /\ Asked.memo = request.memo
      BY <3>2 DEF Says
    <3>4. metadata.nonce \in U32
      BY <1>1, NonceAssumption, WidthsAssumption DEF MetadataOK, Metadatas, U32
    <3>5. ToPayload(Asked, metadata.nonce) \in PayloadSet
      <4> HIDE DEF Asked
      <4> QED
        BY <1>1, <2>2, <3>1, <3>2, <3>3, <3>4, ToPayloadGives
    <3>6. Payload = ToPayload(Asked, metadata.nonce)
      BY <1>2, <3>1 DEF Payload
    <3> QED
      BY <1>3, <3>5, <3>6, NoAnswerAssumption
  <2>3. RefusedForCause'
    BY <2>1, <2>2 DEF Refuse, RefusedForCause, FeeGiven
  <2> QED
    BY <2>1, <2>3 DEF Causes, Refuse, Named, Asked
<1>4. CASE Payload # None
  <2>1. step' = "payloads" /\ refused' = None
    BY <1>1, <1>4 DEF Payloads, Payload, Command
  <2> QED
    BY <2>1, AnswerCauses DEF Steps
<1> QED
  BY <1>3, <1>4

\* What payloads made comes out of its operations again if its amount and
\* its fee fit, and is what it was if the wallet gave a memo.
LEMMA ReturnsIfFits ==
  ASSUME Derived, step \in {"payloads", "combine", "hash"}, AmountFits
  PROVE  /\ Reread(unsigned.tx) # None
         /\ request.memo # None => TransactionUnsigned(Reread(unsigned.tx)) = unsigned
<1> DEFINE tx == unsigned.tx
           again == Reread(tx)
<1>1. /\ RequestOK /\ MetadataOK /\ Payload # None /\ Payload \in PayloadSet
      /\ unsigned = TransactionUnsigned(Payload)
      /\ unsigned.random_oracle_input = SignedContent(Payload)
      /\ tx = Transaction(Payload)
      /\ tx \in Transactions
  BY DerivedUnsigned DEF Derived, Unsigneds
<1>2. /\ Command \in Commands
      /\ Says(Command, request.ops, request.valid_until, request.memo)
      /\ Carries(Payload, Command, metadata.nonce)
  BY <1>1, PayloadIs
<1> HIDE DEF Payload, Command
<1>3. /\ Command.fee \in I64 /\ Command.fee < 0 /\ Command.token \in Tokens
      /\ Payload.fee = - Command.fee /\ Payload.kind = Command.kind
      /\ Payload.token = Command.token
      /\ Payload.amount = AsU64(Command.amount)
      /\ Payload.memo = MemoOf(request.memo)
      /\ Command.kind = "payment" => Command.token \in Base58
      /\ Command.kind = "delegation" => Command.amount = 0
  BY <1>2 DEF Commands, Says, Carries
<1>4. /\ tx.kind = Payload.kind /\ tx.fee = Payload.fee /\ tx.amount = Payload.amount
      /\ tx.kind = "payment" => tx.token = Payload.token
      /\ tx.kind # "payment" => tx.token = DefaultToken
      /\ tx.memo = Payload.memo.text
  BY <1>1 DEF Transaction
<1>5. tx.fee >= 1 /\ tx.fee <= MaxI64 + 1
  BY <1>3, <1>4, WidthsAssumption DEF I64
<1>6. tx.kind = "payment" => tx.token \in Base58
  BY <1>3, <1>4
<1>7. again # None
  BY <1>1, <1>5, <1>6, RereadGives DEF AmountFits
<1>8. ASSUME request.memo # None PROVE TransactionUnsigned(again) = unsigned
  <2>1. SignedContent(again) = SignedContent(Payload)
    BY <1>1, <1>7, <1>8, SignedMeans
  <2>2. /\ again.kind = tx.kind /\ again.fee_payer = tx.from /\ again.receiver = tx.to
        /\ tx.kind = "payment" => again.amount = tx.amount /\ again.token = tx.token
        /\ tx.kind = "delegation" => again.amount = 0
        /\ again.fee = tx.fee /\ again.nonce = tx.nonce
        /\ again.valid_until = tx.valid_until
        /\ again.memo.text = tx.memo
    <3> HIDE DEF tx
    <3>1. again.memo = [tag |-> 1, text |-> tx.memo]
      BY <1>1, <1>7, RereadIs
    <3>2. again.memo.text = tx.memo
      BY <3>1
    <3> QED
      BY <1>1, <1>7, <3>2, RereadIs
  <2>3. tx.kind = "delegation" => tx.amount = 0
    <3>1. 0 \in I64
      BY WidthsAssumption DEF I64
    <3> QED
      BY <1>3, <1>4, <3>1, CastToU64
  <2>4. tx.kind \in {"payment", "delegation"}
    BY <1>1 DEF Transactions
  <2> HIDE DEF again
  <2>5. Transaction(again) = [kind |-> tx.kind, from |-> tx.from, to |-> tx.to,
          amount |-> tx.amount, fee |-> tx.fee, nonce |-> tx.nonce, token |-> tx.token,
          memo |-> tx.memo, valid_until |-> tx.valid_until]
    BY <1>4, <2>2, <2>3, <2>4 DEF Transaction
  <2> HIDE DEF tx
  <2>6. Transaction(again) = tx
    BY <1>1, <2>5 DEF Transactions
  <2> QED
    BY <1>1, <2>1, <2>6 DEF TransactionUnsigned, tx
<1> QED
  BY <1>7, <1>8

LEMMA ParseUnsignedCauses ==
  ASSUME Derived, Causes, ParseUnsigned
  PROVE  Causes'
<1>1. step = "payloads" /\ refused = None
  BY DEF ParseUnsigned, Call
<1>2. CASE /\ unsigned.tx.fee >= MinFee
           /\ Reread(unsigned.tx) # None
           /\ TransactionUnsigned(Reread(unsigned.tx)) = unsigned
  <2>1. step' = step /\ refused' = refused
    BY <1>2 DEF ParseUnsigned
  <2> QED
    BY <1>1, <2>1, AnswerCauses DEF Steps
<1>3. CASE ~ /\ unsigned.tx.fee >= MinFee
             /\ Reread(unsigned.tx) # None
             /\ TransactionUnsigned(Reread(unsigned.tx)) = unsigned
  <2>1. Refuse("parse")
    BY <1>3 DEF ParseUnsigned
  <2>2. ~ FeeSuffices \/ ~ AmountFits \/ request.memo = None
    BY <1>1, <1>3, ReturnsIfFits DEF FeeSuffices
  <2> QED
    BY <1>1, <2>1, <2>2 DEF Refuse, Causes, RefusedForCause, FeeSuffices, AmountFits
<1> QED
  BY <1>2, <1>3

LEMMA ParseSignedCauses ==
  ASSUME Derived, Causes, ParseSigned
  PROVE  Causes'
<1>1. step = "combine" /\ refused = None /\ signed.tx = unsigned.tx
  BY DEF ParseSigned, Call, Derived
<1>2. CASE signed.tx.fee >= MinFee /\ Reread(signed.tx) # None
  <2>1. step' = step /\ refused' = refused
    BY <1>2 DEF ParseSigned
  <2> QED
    BY <1>1, <2>1, AnswerCauses DEF Steps
<1>3. CASE ~ (signed.tx.fee >= MinFee /\ Reread(signed.tx) # None)
  <2>1. Refuse("parse")
    BY <1>3 DEF ParseSigned
  <2>2. ~ FeeSuffices \/ ~ AmountFits
    BY <1>1, <1>3, ReturnsIfFits DEF FeeSuffices
  <2> QED
    BY <1>1, <2>1, <2>2 DEF Refuse, Causes, RefusedForCause, FeeSuffices, AmountFits
<1> QED
  BY <1>2, <1>3

LEMMA HashCauses ==
  ASSUME Derived, Causes, Hash
  PROVE  Causes'
<1>1. step = "combine" /\ refused = None /\ signed.tx = unsigned.tx
  BY DEF Hash, Call, Derived
<1>2. CASE signed.tx.from \in Points /\ Reread(signed.tx) # None
  <2>1. step' = "hash" /\ refused' = refused
    BY <1>2 DEF Hash
  <2> QED
    BY <1>1, <2>1, AnswerCauses DEF Steps
<1>3. CASE ~ (signed.tx.from \in Points /\ Reread(signed.tx) # None)
  <2>1. Refuse("hash")
    BY <1>3 DEF Hash
  <2>2. ~ AmountFits \/ unsigned.tx.from \notin Points
    BY <1>1, <1>3, ReturnsIfFits
  <2> QED
    BY <1>1, <2>1, <2>2 DEF Refuse, Causes, RefusedForCause, AmountFits
<1> QED
  BY <1>2, <1>3

LEMMA NextCauses ==
  ASSUME Derived, Causes, [ConstructNext]_constructVars
  PROVE  Causes'
<1>1. CASE Preprocess
  BY <1>1, PreprocessCauses
<1>2. CASE Metadata
  BY <1>2, MetadataCauses
<1>3. CASE MetadataFails
  BY <1>3, RefuseCauses DEF MetadataFails, Refusals
<1>4. CASE Payloads
  BY <1>4, PayloadsCauses
<1>5. CASE ParseUnsigned
  BY <1>5, ParseUnsignedCauses
<1>6. CASE Combine
  <2>1. CASE Refuse("combine")
    BY <2>1, RefuseCauses DEF Refusals
  <2>2. CASE ~ Refuse("combine")
    <3>1. step' = "combine" /\ refused' = None
      BY <1>6, <2>2 DEF Combine, Call
    <3> QED
      BY <3>1, AnswerCauses DEF Steps
  <2> QED
    BY <2>1, <2>2
<1>7. CASE ParseSigned
  BY <1>7, ParseSignedCauses
<1>8. CASE Hash
  BY <1>8, HashCauses
<1>9. CASE NewRequest
  <2>1. step' = "asked" /\ refused' = None
    BY <1>9 DEF NewRequest
  <2> QED
    BY <2>1, AnswerCauses DEF Steps
<1>10. CASE OtherTransfer
  BY <1>10, SameCauses DEF OtherTransfer, walletVars
<1>11. CASE UNCHANGED constructVars
  BY <1>11, SameCauses DEF constructVars, walletVars
<1> QED
  BY <1>1, <1>2, <1>3, <1>4, <1>5, <1>6, <1>7, <1>8, <1>9, <1>10, <1>11 DEF ConstructNext

(***************************************************************************)
(* Types: every answer is there once its endpoint has given it, the        *)
(* unsigned transaction and the hash have amounts of the width of the      *)
(* daemon, and the signed transaction is the unsigned one                  *)
(* (src/src/api/construction_payloads.rs, construction_combine.rs).        *)
(***************************************************************************)
THEOREM ConstructTypeCorrect == ConstructSpec => []ConstructTypeOK
BY AlwaysDerived, DerivedTypes, PTL

(***************************************************************************)
(* What parse shows, and what the wallet signs, is what it asked for, for  *)
(* all operations, amounts of any size and both kinds of transfer          *)
(* (validate_operations of src/src/api/construction_parse.rs and the conversions of  *)
(* src/src/types.rs).                                                      *)
(***************************************************************************)
THEOREM ConstructSignedIsMeant == ConstructSpec => []SignedIsMeant
BY AlwaysDerived, DerivedSigned, PTL

(***************************************************************************)
(* The hash of a transfer with a memo is that of what was signed           *)
(* (src/src/api/construction_hash.rs).                                     *)
(***************************************************************************)
THEOREM ConstructHashIsOfSigned == ConstructSpec => []HashIsOfSigned
BY AlwaysDerived, DerivedHash, PTL

(***************************************************************************)
(* Once preprocess has accepted a request, payloads, parse and hash refuse *)
(* it for a cause that RefusedForCause names and for no other: a transfer  *)
(* with keys, a memo, a fee and an amount that fit goes through            *)
(* (to_user_command_payload of src/src/types.rs and validate_operations of *)
(* src/src/api/construction_parse.rs).                                     *)
(***************************************************************************)
THEOREM ConstructRefusedForCause == ConstructSpec => []RefusedForCause
<1>1. ConstructInit => Causes
  BY InitCauses DEF ConstructInit
<1>2. Derived /\ Causes /\ [ConstructNext]_constructVars => Causes'
  BY NextCauses
<1>3. Causes => RefusedForCause
  BY DEF Causes
<1> QED
  BY <1>1, <1>2, <1>3, AlwaysDerived, PTL DEF ConstructSpec
=============================================================================
