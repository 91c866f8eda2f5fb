------------------------------- MODULE Submit -------------------------------
(***************************************************************************)
(* /construction/submit, src/src/api/construction_submit.rs, with the      *)
(* transaction cache, the daemon and the archive it talks to.              *)
(*                                                                         *)
(* A worker is the task of one request.  It validates the network, sends   *)
(* one GraphQL mutation to the daemon, and then either records the         *)
(* signature in the cache and answers Ok, or turns the daemon's error text *)
(* into a verdict.  "Below minimum_nonce" is the hard one: the nonce may   *)
(* be used because this transaction went through before, and only the      *)
(* cache and the archive can tell.  Clients retry, so several requests may *)
(* carry one transaction at the same time.                                 *)
(*                                                                         *)
(* A signed transaction is identified with its signature, which covers     *)
(* every field of it.  The daemon and the archiver are external: they are  *)
(* as the calls in src/src/graphql and the query in                        *)
(* src/sql/queries/query_payment.sql see them.                             *)
(***************************************************************************)
EXTENDS TxCache, Sequences

CONSTANTS
  KindOf,      \* what a signed transaction holds, see Kinds
  PaymentKey,  \* (nonce, source, receiver, amount, fee) of a payment
  SlotOf,      \* the sender's nonce a transaction uses up
  ErrorTexts,  \* what else a daemon's error text may say, see Phrases
  MaxMined,    \* bound: transactions that ever get into a block
  MaxStray     \* bound: mutations under way that nobody waits for

VARIABLES
  hpc,        \* where each request is
  req,        \* the transaction it carries
  wire,       \* what the daemon has answered to its mutation
  verdict,    \* the answer the client gets
  known,      \* history: req was archived when the request came in
  dbFailed,   \* history: its archive lookup failed
  stray,      \* mutations whose caller is gone and that may still arrive
  accepted,   \* history: transactions the daemon has ever accepted
  chain,      \* transactions on the daemon's best chain
  mined,      \* history: transactions that have ever been in a block
  archive     \* transactions with a row in user_commands

handlerVars == <<hpc, req, wire, verdict, known, dbFailed>>
worldVars == <<stray, accepted, chain, mined, archive>>
submitVars == <<cacheVars, handlerVars, worldVars>>

-----------------------------------------------------------------------------
Kinds == {"payment", "stake_delegation", "both", "neither"}

\* The parts of a daemon's error text that map_error looks for.
Phrases == {"Couldn't infer nonce", "less than the minimum fee",
            "Invalid_signature", "below minimum_nonce",
            "Insufficient_funds", "Expired"}

\* The if-else chain of map_error, in its order.  BelowNonce is no verdict:
\* that branch goes on to ask the cache and the archive.
Rules ==
  << [phrase |-> "Couldn't infer nonce",      becomes |-> "NoSender"],
     [phrase |-> "less than the minimum fee", becomes |-> "FeeSmall"],
     [phrase |-> "Invalid_signature",         becomes |-> "InvalidSignature"],
     [phrase |-> "below minimum_nonce",       becomes |-> "BelowNonce"],
     [phrase |-> "Insufficient_funds",        becomes |-> "InsufficientBalance"],
     [phrase |-> "Expired",                   becomes |-> "Expired"] >>

MapError(text) ==
  LET hits == {i \in DOMAIN Rules : Rules[i].phrase \in text}
  IN  IF hits = {} THEN "GraphqlMinaQuery"
      ELSE Rules[CHOOSE i \in hits : \A j \in hits : i <= j].becomes

NoVerdict == "none"
Verdicts == {"Ok", "JsonParse", "NetworkDne", "NoSender", "FeeSmall",
             "InvalidSignature", "Duplicate", "BadNonce",
             "InsufficientBalance", "Expired", "GraphqlMinaQuery"}

HandlerPhases ==
  {"idle", "validating", "sending", "caching", "lookup", "answered"}

\* What the daemon answers: the hash, or the phrases of its error text.
Unanswered == {"unanswered"}
Hash == {"hash"}

ASSUME KindAssumption == KindOf \in [Sigs -> Kinds]
ASSUME SubmitBoundsAssumption == MaxMined \in Nat /\ MaxStray \in Nat
ASSUME ErrorTextsAssumption == ErrorTexts \subseteq SUBSET Phrases

IsPayment(s) == KindOf[s] = "payment"

\* query_payment.sql: any command with the same five columns, whatever its
\* memo, its expiry, its hash or the status of its block.
SamePayment(s, t) == IsPayment(s) /\ IsPayment(t) /\ PaymentKey[s] = PaymentKey[t]

\* Mutant: the query compares the source and the nonce, and nothing else.
BugInDbNonce(s) == \E t \in archive : SlotOf[t] = SlotOf[s]

\* Mutant: the query looks at the canonical chain only.
BugInDb(s) == \E t \in archive \cap chain : SamePayment(s, t)

InDb(s) == \E t \in archive : SamePayment(s, t)

SlotUsed(s) == \E t \in chain : SlotOf[t] = SlotOf[s]

\* The daemon refuses a used nonce; else it may accept, or complain of
\* something else (also when it has the transaction in its pool already).
DaemonAnswers(s) ==
  IF SlotUsed(s) THEN {text \cup {"below minimum_nonce"} : text \in ErrorTexts}
                 ELSE ErrorTexts \cup {Hash}

SubmitInit ==
  /\ Init
  /\ hpc = [w \in Workers |-> "idle"]
  /\ req = [w \in Workers |-> None]
  /\ wire = [w \in Workers |-> Unanswered]
  /\ verdict = [w \in Workers |-> NoVerdict]
  /\ known = [w \in Workers |-> FALSE]
  /\ dbFailed = [w \in Workers |-> FALSE]
  /\ stray = {} /\ accepted = {} /\ chain = {} /\ mined = {} /\ archive = {}

-----------------------------------------------------------------------------
\* The handler returns; the transaction and the verdict stay readable until
\* the response is delivered.
Answer(w, v) ==
  /\ hpc' = [hpc EXCEPT ![w] = "answered"]
  /\ verdict' = [verdict EXCEPT ![w] = v]
  /\ wire' = [wire EXCEPT ![w] = Unanswered]

\* A client submits s, for the first time or again.
Receive(w, s) ==
  /\ hpc[w] = "idle"
  /\ hpc' = [hpc EXCEPT ![w] = "validating"]
  /\ req' = [req EXCEPT ![w] = s]
  /\ known' = [known EXCEPT ![w] = InDb(s)]
  /\ UNCHANGED <<cacheVars, wire, verdict, dbFailed, worldVars>>

\* validate_network(..).await? fails: another network, or no daemon.
RejectNetwork(w) ==
  /\ hpc[w] = "validating"
  /\ \E v \in {"NetworkDne", "GraphqlMinaQuery"} : Answer(w, v)
  /\ UNCHANGED <<cacheVars, req, known, dbFailed, worldVars>>

\* It succeeds, and a request that holds both commands or none, or that does
\* not parse, is refused before the daemon hears of it.
RejectForm(w) ==
  /\ hpc[w] = "validating"
  /\ KindOf[req[w]] \in {"both", "neither"}
  /\ Answer(w, "JsonParse")
  /\ UNCHANGED <<cacheVars, req, known, dbFailed, worldVars>>

\* send_payment, send_delegation: the mutation leaves.
Send(w) ==
  /\ hpc[w] = "validating"
  /\ KindOf[req[w]] \in {"payment", "stake_delegation"}
  /\ hpc' = [hpc EXCEPT ![w] = "sending"]
  /\ UNCHANGED <<cacheVars, req, wire, verdict, known, dbFailed, worldVars>>

\* GraphQLClient::send fails in transport, before or after the daemon has
\* seen the mutation; map_error finds none of its phrases in the error.
TransportFails(w) ==
  /\ hpc[w] = "sending"
  /\ Answer(w, "GraphqlMinaQuery")
  /\ stray' = IF wire[w] = Unanswered THEN stray \cup {req[w]} ELSE stray
  /\ Cardinality(stray') <= MaxStray
  /\ UNCHANGED <<cacheVars, req, known, dbFailed, accepted, chain, mined, archive>>

\* Mutant: the handler puts the entry into the map itself.
BugHandleHash(w) ==
  /\ hpc[w] = "sending"
  /\ wire[w] = Hash
  /\ Answer(w, "Ok")
  /\ present' = present \cup {req[w]}
  /\ stamp' = [stamp EXCEPT ![req[w]] = now]
  /\ UNCHANGED <<now, pc, key, shard, seen, victim, age, overlaps>>
  /\ UNCHANGED <<req, known, dbFailed, worldVars>>

\* Ok(response): cache_transaction is called.
HandleHash(w) ==
  /\ hpc[w] = "sending"
  /\ wire[w] = Hash
  /\ Begin(w, req[w])
  /\ hpc' = [hpc EXCEPT ![w] = "caching"]
  /\ wire' = [wire EXCEPT ![w] = Unanswered]
  /\ UNCHANGED <<req, verdict, known, dbFailed, worldVars>>

\* Mutant: the answer does not wait for the cache.
BugCache(w) ==
  /\ hpc[w] = "caching"
  /\ InsertStep(w)
  /\ Answer(w, "Ok")
  /\ UNCHANGED <<req, known, dbFailed, worldVars>>

\* One step inside cache_transaction; when it returns, so does the handler.
Cache(w) ==
  /\ hpc[w] = "caching"
  /\ InsertStep(w)
  /\ IF pc'[w] = "idle" THEN Answer(w, "Ok") ELSE UNCHANGED <<hpc, verdict, wire>>
  /\ UNCHANGED <<req, known, dbFailed, worldVars>>

\* Mutant: a delegation with a used nonce falls through.
BugHandleError(w) ==
  /\ hpc[w] = "sending"
  /\ wire[w] \notin {Unanswered, Hash}
  /\ \/ MapError(wire[w]) # "BelowNonce" /\ Answer(w, MapError(wire[w]))
     \/ MapError(wire[w]) = "BelowNonce" /\ IsPayment(req[w]) /\ Answer(w, "BadNonce")
  /\ UNCHANGED <<cacheVars, req, known, dbFailed, worldVars>>

\* Mutant: an error is a reason to try again.
BugHandleErrorAgain(w) ==
  /\ hpc[w] = "sending"
  /\ wire[w] \notin {Unanswered, Hash}
  /\ wire' = [wire EXCEPT ![w] = Unanswered]
  /\ UNCHANGED <<cacheVars, hpc, verdict, req, known, dbFailed, worldVars>>

\* Err(err): map_error, which for a used nonce first asks the cache, and the
\* archive only for a payment.
HandleError(w) ==
  /\ hpc[w] = "sending"
  /\ wire[w] \notin {Unanswered, Hash}
  /\ LET v == MapError(wire[w])
     IN  \/ v # "BelowNonce" /\ Answer(w, v)
         \/ v = "BelowNonce" /\ IsCached(req[w]) /\ Answer(w, "Duplicate")
         \/ /\ v = "BelowNonce" /\ ~IsCached(req[w]) /\ ~IsPayment(req[w])
            /\ Answer(w, "BadNonce")
         \/ /\ v = "BelowNonce" /\ ~IsCached(req[w]) /\ IsPayment(req[w])
            /\ hpc' = [hpc EXCEPT ![w] = "lookup"]
            /\ wire' = [wire EXCEPT ![w] = Unanswered]
            /\ verdict' = verdict
  /\ UNCHANGED <<cacheVars, req, known, dbFailed, worldVars>>

\* is_transaction_in_db(..).await.unwrap_or(false)
Lookup(w) ==
  /\ hpc[w] = "lookup"
  /\ Answer(w, IF InDb(req[w]) THEN "Duplicate" ELSE "BadNonce")
  /\ UNCHANGED <<cacheVars, req, known, dbFailed, worldVars>>

LookupFails(w) ==
  /\ hpc[w] = "lookup"
  /\ Answer(w, "BadNonce")
  /\ dbFailed' = [dbFailed EXCEPT ![w] = TRUE]
  /\ UNCHANGED <<cacheVars, req, known, worldVars>>

\* Mutant: the request is not cleared.
BugDeliver(w) ==
  /\ hpc[w] = "answered"
  /\ hpc' = [hpc EXCEPT ![w] = "idle"]
  /\ UNCHANGED <<cacheVars, req, wire, verdict, known, dbFailed, worldVars>>

\* The response leaves, and the worker can take another request.
Deliver(w) ==
  /\ hpc[w] = "answered"
  /\ hpc' = [hpc EXCEPT ![w] = "idle"]
  /\ req' = [req EXCEPT ![w] = None]
  /\ verdict' = [verdict EXCEPT ![w] = NoVerdict]
  /\ known' = [known EXCEPT ![w] = FALSE]
  /\ dbFailed' = [dbFailed EXCEPT ![w] = FALSE]
  /\ UNCHANGED <<cacheVars, wire, worldVars>>

\* The client gives up and closes the connection: the server drops the
\* handler where it awaits, and nothing after that await happens.
HangUp(w) ==
  /\ hpc[w] \in {"validating", "sending", "lookup"}
  /\ hpc' = [hpc EXCEPT ![w] = "idle"]
  /\ req' = [req EXCEPT ![w] = None]
  /\ wire' = [wire EXCEPT ![w] = Unanswered]
  /\ known' = [known EXCEPT ![w] = FALSE]
  /\ stray' = IF hpc[w] = "sending" /\ wire[w] = Unanswered
              THEN stray \cup {req[w]} ELSE stray
  /\ Cardinality(stray') <= MaxStray
  /\ UNCHANGED <<cacheVars, verdict, dbFailed, accepted, chain, mined, archive>>

\* The process goes down with every request in flight.
Crash ==
  /\ Restart
  /\ hpc' = [w \in Workers |-> "idle"]
  /\ req' = [w \in Workers |-> None]
  /\ wire' = [w \in Workers |-> Unanswered]
  /\ verdict' = [w \in Workers |-> NoVerdict]
  /\ known' = [w \in Workers |-> FALSE]
  /\ dbFailed' = [w \in Workers |-> FALSE]
  /\ stray' = stray \cup
       {req[w] : w \in {v \in Workers : hpc[v] = "sending" /\ wire[v] = Unanswered}}
  /\ Cardinality(stray') <= MaxStray
  /\ UNCHANGED <<accepted, chain, mined, archive>>

-----------------------------------------------------------------------------
\* The daemon handles the mutation and answers.
DaemonAnswer(w) ==
  /\ hpc[w] = "sending"
  /\ wire[w] = Unanswered
  /\ \E a \in DaemonAnswers(req[w]) :
       /\ wire' = [wire EXCEPT ![w] = a]
       /\ accepted' = IF a = Hash THEN accepted \cup {req[w]} ELSE accepted
  /\ UNCHANGED <<cacheVars, hpc, req, verdict, known, dbFailed>>
  /\ UNCHANGED <<stray, chain, mined, archive>>

\* A mutation nobody waits for arrives late, or is lost after all.
StrayArrives(s) ==
  /\ s \in stray
  /\ stray' = stray \ {s}
  /\ \E a \in DaemonAnswers(s) :
       accepted' = IF a = Hash THEN accepted \cup {s} ELSE accepted
  /\ UNCHANGED <<cacheVars, handlerVars, chain, mined, archive>>

\* A block takes s in, from this daemon's pool or from another node's.
Mine(s) ==
  /\ KindOf[s] \in {"payment", "stake_delegation"}
  /\ ~SlotUsed(s)
  /\ Cardinality(mined \cup {s}) <= MaxMined
  /\ chain' = chain \cup {s}
  /\ mined' = mined \cup {s}
  /\ UNCHANGED <<cacheVars, handlerVars, stray, accepted, archive>>

\* The chain reorganises and the block of s is orphaned.
Orphan(s) ==
  /\ s \in chain
  /\ chain' = chain \ {s}
  /\ UNCHANGED <<cacheVars, handlerVars, stray, accepted, mined, archive>>

\* The archiver, some time behind, writes the command of a block it has seen.
Archive(s) ==
  /\ s \in mined \ archive
  /\ archive' = archive \cup {s}
  /\ UNCHANGED <<cacheVars, handlerVars, stray, accepted, chain, mined>>

Time == Tick /\ UNCHANGED <<handlerVars, worldVars>>

HandlerStep(w) ==
  \/ RejectNetwork(w) \/ RejectForm(w) \/ Send(w)
  \/ HandleHash(w) \/ Cache(w) \/ HandleError(w)
  \/ Lookup(w) \/ LookupFails(w)

\* What follows from the requests and blocks that have come.
ServiceNext ==
  \/ \E w \in Workers :
       \/ RejectNetwork(w) \/ RejectForm(w) \/ Send(w) \/ TransportFails(w)
       \/ HandleHash(w) \/ Cache(w) \/ HandleError(w)
       \/ Lookup(w) \/ LookupFails(w) \/ Deliver(w) \/ HangUp(w)
       \/ DaemonAnswer(w)
  \/ \E s \in Sigs : StrayArrives(s) \/ Orphan(s) \/ Archive(s)
  \/ Crash

SubmitNext ==
  \/ \E w \in Workers, s \in Sigs : Receive(w, s)
  \/ \E s \in Sigs : Mine(s)
  \/ Time
  \/ ServiceNext

NetworkSettles(w) ==
  wire[w] = Unanswered /\ (DaemonAnswer(w) \/ TransportFails(w))

\* The runtime polls every task that can run, and a mutation is answered or
\* its connection breaks.  The latter is an assumption about the network:
\* Client::new() sets no timeout.
SubmitFairness ==
  \A w \in Workers :
    /\ WF_submitVars(HandlerStep(w))
    /\ WF_submitVars(NetworkSettles(w))

SubmitSpec == SubmitInit /\ [][SubmitNext]_submitVars /\ SubmitFairness

-----------------------------------------------------------------------------
SubmitTypeOK ==
  /\ TypeOK
  /\ hpc \in [Workers -> HandlerPhases]
  /\ req \in [Workers -> Sigs \cup {None}]
  /\ wire \in [Workers -> {Unanswered, Hash} \cup SUBSET Phrases]
  /\ verdict \in [Workers -> Verdicts \cup {NoVerdict}]
  /\ known \in [Workers -> BOOLEAN]
  /\ dbFailed \in [Workers -> BOOLEAN]
  /\ stray \subseteq Sigs
  /\ accepted \subseteq Sigs
  /\ chain \subseteq mined
  /\ archive \subseteq mined
  /\ mined \subseteq Sigs
  /\ \A w \in Workers : hpc[w] = "caching" <=> pc[w] # "idle"
  /\ \A w \in Workers : req[w] = None <=> hpc[w] = "idle"

Answered(w, v) == hpc[w] = "answered" /\ verdict[w] = v

(***************************************************************************)
(* Every verdict that claims the transaction went through is true.  Ok is  *)
(* only answered for a transaction the daemon accepted.  Duplicate means   *)
(* it accepted this transaction, or that a payment with the same nonce,    *)
(* parties, amount and fee has been in a block: through concurrent         *)
(* submissions, lost answers, evictions, reorganisations and restarts.     *)
(***************************************************************************)
VerdictsTrue ==
  \A w \in Workers :
    /\ Answered(w, "Ok") => req[w] \in accepted
    /\ Answered(w, "Duplicate") =>
         \/ req[w] \in accepted
         \/ \E t \in mined : SamePayment(req[w], t)

(***************************************************************************)
(* A payment that had reached the archive when the request came in is      *)
(* never called a bad nonce, unless the archive could not be asked.        *)
(***************************************************************************)
ArchivedRecognised ==
  \A w \in Workers :
    Answered(w, "BadNonce") /\ IsPayment(req[w]) /\ known[w] => dbFailed[w]

(***************************************************************************)
(* A client that reads Ok can rely on the cache knowing the transaction at *)
(* that moment: the handler answers only after the entry is in place.      *)
(***************************************************************************)
OkRecorded ==
  [][\A w \in Workers :
       verdict[w] # "Ok" /\ verdict'[w] = "Ok" => req[w] \in present']_submitVars

\* What the handlers do to the cache is what TxCache says a cache does, so
\* what holds of the cache holds here.
CacheRespected == Safety

\* Every request gets its answer, unless its client gives up or the process
\* goes down first.
RequestAnswered ==
  \A w \in Workers : hpc[w] = "validating" ~> hpc[w] \in {"answered", "idle"}

\* The steps that a request still has before it: at most all that a call of
\* cache_transaction takes, and the mutation, its answer and the validation.
RequestLeft(w) ==
  CASE hpc[w] \in {"idle", "answered"} -> 0
    [] hpc[w] = "lookup"     -> 1
    [] hpc[w] = "caching"    -> StepsLeft(w)
    [] hpc[w] = "sending"    -> 3 + 2 * NumShards + (IF wire[w] = Unanswered THEN 1 ELSE 0)
    [] hpc[w] = "validating" -> 5 + 2 * NumShards

(***************************************************************************)
(* A request is not tried twice by the server: whatever the daemon says to *)
(* it and whatever becomes of its transaction meanwhile, it goes on to its *)
(* answer, and no step of another request, of the daemon or of the archive *)
(* sets it back.                                                           *)
(***************************************************************************)
RequestAdvances ==
  [][\A w \in Workers :
       hpc[w] \notin {"idle", "answered"} =>
         /\ RequestLeft(w)' <= RequestLeft(w)
         /\ HandlerStep(w) \/ NetworkSettles(w) => RequestLeft(w)' < RequestLeft(w)]_submitVars
=============================================================================
