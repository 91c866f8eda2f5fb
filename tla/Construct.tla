----------------------------- MODULE Construct -----------------------------
(***************************************************************************)
(* The construction endpoints, from /construction/preprocess to            *)
(* /construction/hash, as one wallet calls them for one transfer: what     *)
(* each makes of what the one before it gave.  The endpoints keep nothing  *)
(* between the calls; the wallet, which is external, carries their answers *)
(* along, while the daemon's view of the account changes.                  *)
(* /construction/submit is module Submit.                                  *)
(***************************************************************************)
EXTENDS UserCommand

CONSTANTS
  Requests,    \* the transfers the wallet may ask for
  MinFee,      \* MINIMUM_USER_COMMAND_FEE
  BestFees,    \* the fees in the best chain, sorted: some sequences
  MaxNonce     \* bound on the nonces the daemon infers

ASSUME RequestsAssumption ==
  \A r \in Requests :
    /\ r.ops \in Seq(Operations)
    /\ r.valid_until \in Nat \cup {None}
    /\ r.memo \in Memos \cup {None}
    /\ DOMAIN r = {"ops", "valid_until", "memo"}
ASSUME FeesAssumption == MinFee \in U64 \ {0} /\ BestFees \subseteq Seq(U64)
ASSUME NonceAssumption == MaxNonce \in U32

VARIABLES
  step,       \* the last endpoint that answered
  refused,    \* the endpoint that answered with an error, or None
  request,    \* what the wallet asks for
  options,    \* the answer of preprocess
  metadata,   \* the answer of metadata
  unsigned,   \* the answer of payloads
  shown,      \* the answer of parse to the unsigned transaction
  signed,     \* the answer of combine
  confirmed,  \* the answer of parse to the signed transaction
  hash,       \* the answer of hash
  inferred    \* the sender's nonce in the daemon, None without an account

walletVars ==
  <<step, refused, request, options, metadata, unsigned, shown, signed,
    confirmed, hash>>
constructVars == <<walletVars, inferred>>

-----------------------------------------------------------------------------
Steps == {"asked", "preprocess", "metadata", "payloads", "combine", "hash"}
Refusals == {"preprocess", "daemon", "metadata", "payloads", "parse", "combine", "hash"}

ConstructInit ==
  /\ step = "asked" /\ refused = None
  /\ request \in Requests
  /\ options = None /\ metadata = None
  /\ unsigned = None /\ shown = None
  /\ signed = None /\ confirmed = None /\ hash = None
  /\ inferred \in {None, 0}

\* An endpoint answers with an error, and the wallet gives up.
Refuse(endpoint) ==
  /\ refused' = endpoint
  /\ UNCHANGED <<step, request, options, metadata, unsigned, shown, signed,
                 confirmed, hash>>

\* The endpoint after the one that answered last is called.
Call(last) == step = last /\ refused = None /\ UNCHANGED inferred

\* Mutant: the memo stays behind.
BugOptions(command) ==
  [sender |-> command.fee_payer, receiver |-> command.receiver,
   token_id |-> command.token, valid_until |-> command.valid_until, memo |-> None]

\* make_response_options
Options(command) ==
  [sender |-> command.fee_payer, receiver |-> command.receiver,
   token_id |-> command.token, valid_until |-> command.valid_until,
   memo |-> command.memo]

\* /construction/preprocess looks at checksums only.
Preprocess ==
  /\ Call("asked")
  /\ LET command == FromOperations(request.ops, request.valid_until, request.memo)
     IN  IF command # None
              /\ {command.fee_payer, command.source, command.receiver} \subseteq Checked
         THEN /\ step' = "preprocess"
              /\ options' = Options(command)
              /\ UNCHANGED <<refused, request, metadata, unsigned, shown, signed,
                             confirmed, hash>>
         ELSE Refuse("preprocess")

\* suggested_fee: the median and half the distance between the quartiles.
SuggestedFee(fees) ==
  LET n == Len(fees)
      At(k) == fees[k + 1]
      q1 == At(n \div 4)
      q3 == At((3 * n) \div 4)
  IN  IF n = 0 THEN MinFee
      ELSE At(n \div 2) + (IF q3 < q1 THEN 0 ELSE q3 - q1) \div 2

\* The fee of the operations as the wallet sets it.
WithFee(ops, fee) ==
  [i \in DOMAIN ops |-> IF ops[i].type = "fee_payment"
                        THEN [ops[i] EXCEPT !.amount = - fee] ELSE ops[i]]

\* /construction/metadata asks the daemon, and the wallet may take over the
\* fee it suggests.  Of its answer, payloads reads only these three fields.
Metadata ==
  /\ Call("preprocess")
  /\ IF inferred = None
     THEN Refuse("metadata")
     ELSE /\ step' = "metadata"
          /\ metadata' = [nonce |-> inferred, valid_until |-> options.valid_until,
                          memo |-> options.memo]
          /\ \/ UNCHANGED request
             \/ \E fees \in BestFees :
                  request' = [request EXCEPT !.ops = WithFee(@, SuggestedFee(fees))]
          /\ UNCHANGED <<refused, options, unsigned, shown, signed, confirmed, hash>>

\* The daemon does not answer, or has no best chain yet.
MetadataFails == Call("preprocess") /\ Refuse("daemon")

\* /construction/payloads
Payloads ==
  /\ Call("metadata")
  /\ LET command == FromOperations(request.ops, metadata.valid_until, metadata.memo)
         payload == IF command = None THEN None
                    ELSE ToPayload(command, metadata.nonce)
     IN  IF payload = None
         THEN Refuse("payloads")
         ELSE /\ step' = "payloads"
              /\ unsigned' = TransactionUnsigned(payload)
              /\ UNCHANGED <<refused, request, options, metadata, shown, signed,
                             confirmed, hash>>

\* /construction/parse of the unsigned transaction: it must come out of its
\* own operations again.
ParseUnsigned ==
  /\ Call("payloads")
  /\ shown = None
  /\ LET payload == Reread(unsigned.tx)
     IN  IF /\ unsigned.tx.fee >= MinFee
            /\ payload # None
            /\ TransactionUnsigned(payload) = unsigned
         THEN /\ shown' = GenerateOperations(unsigned.tx)
              /\ UNCHANGED <<step, refused, request, options, metadata, unsigned,
                             signed, confirmed, hash>>
         ELSE Refuse("parse")

\* The wallet signs, and /construction/combine takes one signature of the
\* right form.  It looks at nothing else.
Combine ==
  /\ Call("payloads")
  /\ \/ /\ step' = "combine"
        /\ signed' = [signature |-> unsigned.random_oracle_input, tx |-> unsigned.tx]
        /\ UNCHANGED <<refused, request, options, metadata, unsigned, shown,
                       confirmed, hash>>
     \/ Refuse("combine")

\* /construction/parse of the signed transaction.
ParseSigned ==
  /\ Call("combine")
  /\ confirmed = None
  /\ IF signed.tx.fee >= MinFee /\ Reread(signed.tx) # None
     THEN /\ confirmed' = GenerateOperations(signed.tx)
          /\ UNCHANGED <<step, refused, request, options, metadata, unsigned,
                         shown, signed, hash>>
     ELSE Refuse("parse")

\* /construction/hash, which needs the signer's point.
Hash ==
  /\ Call("combine")
  /\ LET payload == Reread(signed.tx)
     IN  IF signed.tx.from \in Points /\ payload # None
         THEN /\ step' = "hash"
              /\ hash' = SignedContent(payload)
              /\ UNCHANGED <<refused, request, options, metadata, unsigned, shown,
                             signed, confirmed>>
         ELSE Refuse("hash")

\* The wallet turns to another transfer, of the same sender or not.
NewRequest ==
  /\ refused # None \/ step = "hash"
  /\ step' = "asked" /\ refused' = None
  /\ request' \in Requests
  /\ options' = None /\ metadata' = None
  /\ unsigned' = None /\ shown' = None
  /\ signed' = None /\ confirmed' = None /\ hash' = None
  /\ inferred' \in {None, 0}

\* Another transfer of the sender enters the daemon's pool.
OtherTransfer ==
  /\ inferred # None /\ inferred < MaxNonce
  /\ inferred' = inferred + 1
  /\ UNCHANGED walletVars

ConstructNext ==
  \/ Preprocess \/ Metadata \/ MetadataFails \/ Payloads
  \/ ParseUnsigned \/ Combine \/ ParseSigned \/ Hash
  \/ NewRequest \/ OtherTransfer

ConstructSpec == ConstructInit /\ [][ConstructNext]_constructVars

-----------------------------------------------------------------------------
Contents ==
  [kind : {"payment", "delegation"}, fee_payer : Keys, receiver : Keys,
   amount : U64, fee : U64, nonce : U32, valid_until : U32,
   memo : [tag : {0, 1}, text : ShortMemos]]
Transactions ==
  [kind : {"payment", "delegation"}, from : Keys, to : Keys, amount : U64,
   fee : U64, nonce : U32, token : Tokens, memo : ShortMemos,
   valid_until : U32 \cup {None}]

Optioned ==
  [sender : Checked, receiver : Checked, token_id : Tokens,
   valid_until : Nat \cup {None}, memo : Memos \cup {None}]
Metadatas ==
  [nonce : 0..MaxNonce, valid_until : Nat \cup {None}, memo : Memos \cup {None}]
Unsigneds == [random_oracle_input : Contents, tx : Transactions]
Signeds == [signature : Contents, tx : Transactions]

Commands ==
  [kind : {"payment", "delegation"}, fee_payer : Strings \cup {None},
   source : Strings \cup {None}, receiver : Strings \cup {None}, token : Tokens,
   fee : I64, amount : I64, valid_until : Nat \cup {None}, memo : Memos \cup {None}]

PayloadSet ==
  [kind : {"payment", "delegation"}, fee_payer : Keys, receiver : Keys,
   amount : U64, fee : U64, nonce : U32, token : Tokens,
   valid_until : U32 \cup {None}, memo : [tag : {0, 1}, text : ShortMemos]]

\* What stands for no answer is no answer.
ASSUME NoAnswerAssumption ==
  /\ None \notin Optioned /\ None \notin Metadatas /\ None \notin Unsigneds
  /\ None \notin Signeds /\ None \notin Commands /\ None \notin PayloadSet
  /\ None \notin Refusals

ConstructTypeOK ==
  /\ step \in Steps
  /\ inferred \in 0..MaxNonce \cup {None}
  /\ step # "asked" => options # None
  /\ step \notin {"asked", "preprocess"} => metadata # None
  /\ unsigned # None => unsigned \in Unsigneds
  /\ signed # None => unsigned # None /\ signed.tx = unsigned.tx
  /\ step \in {"combine", "hash"} => signed # None
  /\ step = "payloads" => unsigned # None
  /\ hash # None => hash \in Contents

\* The content does what the operations say, no more and no less.
Does(content, ops) ==
  LET fee == Find(ops, "fee_payment")
      source == Find(ops, "payment_source_dec")
      receiver == Find(ops, "payment_receiver_inc")
      change == Find(ops, "delegate_change")
  IN  /\ content.fee_payer = fee.account.address
      /\ content.fee = - fee.amount
      /\ content.kind = "payment" =>
           /\ content.fee_payer = source.account.address
           /\ content.receiver = receiver.account.address
           /\ content.amount = receiver.amount
           /\ content.amount = - source.amount
      /\ content.kind = "delegation" =>
           /\ content.fee_payer = change.account.address
           /\ content.receiver = change.target
           /\ content.amount = 0

(***************************************************************************)
(* Once parse has shown the unsigned transaction, or hash has taken the    *)
(* signed one, what the wallet signs is what it asked for: the operations  *)
(* it began with, to the last unit and without a change of sign; its memo; *)
(* its valid_until, if that is a number at all; and the nonce it was told. *)
(* What parse shows says the same.                                         *)
(***************************************************************************)
SignedIsMeant ==
  (shown # None \/ hash # None) =>
    LET content == unsigned.random_oracle_input
    IN  /\ Does(content, request.ops)
        /\ shown # None => Does(content, shown)
        /\ confirmed # None => Does(content, confirmed)
        /\ content.nonce = metadata.nonce
        /\ content.memo.text = (IF request.memo = None THEN EmptyMemo ELSE request.memo)
        /\ request.valid_until \in U32 => content.valid_until = request.valid_until

(***************************************************************************)
(* The hash is that of the command that was signed.  Without a memo it is  *)
(* not: what was signed has no memo, what is hashed has an empty one.      *)
(***************************************************************************)
HashIsOfSigned ==
  hash # None /\ request.memo # None => hash = signed.signature

AmountFits == unsigned.tx.amount <= MaxI64
FeeSuffices == unsigned.tx.fee >= MinFee

(***************************************************************************)
(* Once preprocess has accepted a request, it is refused only for what     *)
(* preprocess does not look at: keys that are none or not on the curve, a  *)
(* memo too long, a fee the wallet has set to nothing or is too small, an  *)
(* amount that changed its sign; and, by parse, for having no memo.  The   *)
(* server refuses what it made itself then: Memo::empty is all zeros, but  *)
(* its text, the empty string, becomes a memo with a tag.                  *)
(***************************************************************************)
RefusedForCause ==
  /\ refused = "payloads" =>
       \/ ~ {options.sender, options.receiver} \subseteq Keys
       \/ options.memo \notin ShortMemos \cup {None}
       \/ Find(request.ops, "fee_payment").amount \notin (- MaxI64 - 1)..-1
  /\ refused = "parse" => ~ FeeSuffices \/ ~ AmountFits \/ request.memo = None
  /\ refused = "hash" => ~ AmountFits \/ unsigned.tx.from \notin Points
=============================================================================
