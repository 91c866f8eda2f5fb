---------------------------- MODULE SubmitProofs ----------------------------
(***************************************************************************)
(* Proofs about Submit, for every number of concurrent requests, every set *)
(* of transactions and every way they share payments and nonces.           *)
(***************************************************************************)
EXTENDS Submit, TxCacheProofs

-----------------------------------------------------------------------------
\* A step of the service is a step of the cache or leaves the cache alone.
LEMMA SubmitStepIsCacheStep ==
  SubmitTypeOK /\ [SubmitNext]_submitVars => [Next]_cacheVars
<1> SUFFICES ASSUME SubmitTypeOK, [SubmitNext]_submitVars, ~ UNCHANGED cacheVars
             PROVE  Next
  OBVIOUS
<1>1. ASSUME NEW w \in Workers, HandleHash(w) PROVE Next
  <2>1. req[w] \in Sigs
    BY <1>1 DEF HandleHash, SubmitTypeOK
  <2> QED
    BY <1>1, <2>1 DEF HandleHash, Next
<1>2. ASSUME NEW w \in Workers, Cache(w) PROVE Next
  BY <1>2 DEF Cache, InsertStep, Next
<1>3. CASE Time
  BY <1>3 DEF Time, Next
<1>4. CASE Crash
  BY <1>4 DEF Crash, Next
<1>5. ASSUME NEW w \in Workers
      PROVE  /\ ~ (\E s \in Sigs : Receive(w, s))
             /\ ~ RejectNetwork(w) /\ ~ RejectForm(w) /\ ~ Send(w)
             /\ ~ TransportFails(w) /\ ~ HandleError(w) /\ ~ Lookup(w)
             /\ ~ LookupFails(w) /\ ~ Deliver(w) /\ ~ HangUp(w)
             /\ ~ DaemonAnswer(w)
  BY DEF Receive, RejectNetwork, RejectForm, Send, TransportFails, HandleError,
         Lookup, LookupFails, Deliver, HangUp, DaemonAnswer
<1>6. ASSUME NEW s \in Sigs
      PROVE  ~ StrayArrives(s) /\ ~ Mine(s) /\ ~ Orphan(s) /\ ~ Archive(s)
  BY DEF StrayArrives, Mine, Orphan, Archive
<1> QED
  BY <1>1, <1>2, <1>3, <1>4, <1>5, <1>6 DEF SubmitNext, ServiceNext, submitVars

-----------------------------------------------------------------------------
\* What the clauses of map_error answer.
LEMMA MapErrorVerdict ==
  ASSUME NEW text
  PROVE  MapError(text) \in (Verdicts \ {"Ok", "Duplicate", "BadNonce"}) \cup {"BelowNonce"}
<1> DEFINE hits == {i \in DOMAIN Rules : Rules[i].phrase \in text}
<1>0. DOMAIN Rules = 1..6
  BY DEF Rules
<1>1. \A i \in DOMAIN Rules :
        Rules[i].becomes \in (Verdicts \ {"Ok", "Duplicate", "BadNonce"}) \cup {"BelowNonce"}
  <2>1. /\ Rules[1].becomes = "NoSender" /\ Rules[2].becomes = "FeeSmall"
        /\ Rules[3].becomes = "InvalidSignature" /\ Rules[4].becomes = "BelowNonce"
        /\ Rules[5].becomes = "InsufficientBalance" /\ Rules[6].becomes = "Expired"
    BY DEF Rules
  <2> QED
    BY <1>0, <2>1 DEF Verdicts
<1>2. ASSUME hits # {}
      PROVE  \E i \in hits : \A j \in hits : i <= j
  <2>1. hits \in SUBSET Nat
    BY <1>0
  <2> QED
    BY <1>2, <2>1, LeastNat
<1> HIDE DEF hits
<1>3. ASSUME hits # {}
      PROVE  (CHOOSE i \in hits : \A j \in hits : i <= j) \in DOMAIN Rules
  BY <1>2, <1>3 DEF hits
<1> QED
  BY <1>1, <1>3 DEF MapError, Verdicts, hits

LEMMA InitSubmitTypeOK == SubmitInit => SubmitTypeOK
<1> SUFFICES ASSUME SubmitInit PROVE SubmitTypeOK
  OBVIOUS
<1>1. TypeOK /\ pc = [w \in Workers |-> "idle"]
  BY InitTypeOK DEF SubmitInit, Init
<1> QED
  BY <1>1 DEF SubmitInit, SubmitTypeOK, HandlerPhases, Unanswered, Hash

-----------------------------------------------------------------------------
(***************************************************************************)
(* VerdictsTrue follows from where its evidence comes from: a cached       *)
(* signature was accepted, a signature being cached was accepted, and so   *)
(* was one whose hash is on the wire; the archive only holds mined         *)
(* commands (in SubmitTypeOK).  What has been accepted or mined stays so.  *)
(***************************************************************************)
Evidence ==
  /\ present \subseteq accepted
  /\ \A w \in Workers :
       /\ hpc[w] = "caching" => req[w] \in accepted /\ key[w] = req[w]
       /\ hpc[w] # "sending" => wire[w] = Unanswered
       /\ wire[w] = Hash => req[w] \in accepted

TruthInv == SubmitTypeOK /\ Evidence /\ VerdictsTrue

LEMMA HashIsAnAnswer == Hash # Unanswered
  BY DEF Hash, Unanswered

\* What an insertion in progress does to the rest of the cache.
LEMMA InsertStepEffect ==
  ASSUME TypeOK, NEW w \in Workers, InsertStep(w)
  PROVE  /\ pc[w] # "idle"
         /\ present' \subseteq present \cup {key[w]}
         /\ pc'[w] # "idle" => key'[w] = key[w]
         /\ \A v \in Workers : v # w => pc'[v] = pc[v] /\ key'[v] = key[v]
<1>1. CASE CountShard(w)
  BY <1>1 DEF CountShard, TypeOK
<1>2. CASE FindShard(w)
  BY <1>2 DEF FindShard, TypeOK
<1>3. CASE Remove(w)
  BY <1>3 DEF Remove, TypeOK
<1>4. CASE Insert(w)
  BY <1>4 DEF Insert, TypeOK
<1> QED
  BY <1>1, <1>2, <1>3, <1>4 DEF InsertStep

\* An insertion that returns has put its signature in place.
LEMMA InsertionEndsInPlace ==
  ASSUME TypeOK, NEW w \in Workers, InsertStep(w), pc'[w] = "idle"
  PROVE  key[w] \in present'
<1>1. ~CountShard(w)
  <2> SUFFICES ASSUME CountShard(w) PROVE FALSE
    OBVIOUS
  <2>1. pc'[w] \in {"count", "find", "insert"}
    BY DEF CountShard, AfterCount, TypeOK
  <2> QED
    BY <2>1
<1>2. ~FindShard(w)
  <2> SUFFICES ASSUME FindShard(w) PROVE FALSE
    OBVIOUS
  <2>1. pc'[w] \in {"find", "remove", "insert"}
    BY DEF FindShard, AfterFind, TypeOK
  <2> QED
    BY <2>1
<1>3. ~Remove(w)
  BY DEF Remove, TypeOK
<1>4. Insert(w)
  BY <1>1, <1>2, <1>3 DEF InsertStep
<1> QED
  BY <1>4 DEF Insert

\* An action that only answers w, truthfully, keeps everything.
LEMMA AnswerTruthInv ==
  ASSUME TruthInv, TypeOK', NEW w \in Workers, NEW v \in Verdicts, Answer(w, v),
         hpc[w] # "idle",
         pc'[w] = "idle", \A u \in Workers : u # w => pc'[u] = pc[u] /\ key'[u] = key[u],
         present' \subseteq accepted,
         UNCHANGED <<req, known, accepted, chain, mined, archive>>,
         dbFailed' \in [Workers -> BOOLEAN],
         stray' \subseteq Sigs,
         v = "Ok" => req[w] \in accepted,
         v = "Duplicate" => \/ req[w] \in accepted
                            \/ \E t \in mined : SamePayment(req[w], t)
  PROVE  TruthInv'
<1> USE DEF TruthInv
<1>1. /\ hpc' \in [Workers -> HandlerPhases]
      /\ hpc'[w] = "answered"
      /\ verdict' \in [Workers -> Verdicts \cup {NoVerdict}]
      /\ verdict'[w] = v
      /\ wire' \in [Workers -> {Unanswered, Hash} \cup SUBSET Phrases]
      /\ wire'[w] = Unanswered
      /\ \A u \in Workers : u # w => /\ hpc'[u] = hpc[u]
                                     /\ verdict'[u] = verdict[u]
                                     /\ wire'[u] = wire[u]
  BY DEF Answer, SubmitTypeOK, HandlerPhases
<1>2. SubmitTypeOK'
  BY <1>1 DEF SubmitTypeOK
<1>3. Evidence'
  BY <1>1, HashIsAnAnswer DEF Evidence
<1>4. VerdictsTrue'
  BY <1>1 DEF VerdictsTrue, Answered, SamePayment, IsPayment
<1> QED
  BY <1>2, <1>3, <1>4

LEMMA HandlerTruthInv ==
  ASSUME TruthInv, TypeOK', NEW w \in Workers,
         \/ RejectNetwork(w) \/ RejectForm(w) \/ Send(w) \/ TransportFails(w)
         \/ HandleHash(w) \/ Cache(w) \/ HandleError(w)
         \/ Lookup(w) \/ LookupFails(w) \/ Deliver(w) \/ HangUp(w)
  PROVE  TruthInv'
<1> USE DEF TruthInv
<1>1. /\ dbFailed \in [Workers -> BOOLEAN]
      /\ stray \subseteq Sigs
      /\ present \subseteq accepted
      /\ hpc \in [Workers -> HandlerPhases]
      /\ wire \in [Workers -> {Unanswered, Hash} \cup SUBSET Phrases]
      /\ verdict \in [Workers -> Verdicts \cup {NoVerdict}]
      /\ req \in [Workers -> Sigs \cup {None}]
      /\ known \in [Workers -> BOOLEAN]
      /\ hpc[w] # "caching" => pc[w] = "idle"
      /\ hpc[w] # "idle" => req[w] \in Sigs
  BY DEF SubmitTypeOK, Evidence
<1>2. \A v \in {"JsonParse", "NetworkDne", "GraphqlMinaQuery", "BadNonce", "Duplicate", "Ok"} :
        v \in Verdicts
  BY DEF Verdicts
<1>3. CASE RejectNetwork(w)
  BY <1>1, <1>2, <1>3, AnswerTruthInv DEF RejectNetwork, cacheVars, worldVars
<1>4. CASE RejectForm(w)
  BY <1>1, <1>2, <1>4, AnswerTruthInv DEF RejectForm, cacheVars, worldVars
<1>5. CASE TransportFails(w)
  <2>1. stray' \subseteq Sigs
    BY <1>1, <1>5 DEF TransportFails
  <2> QED
    BY <1>1, <1>2, <1>5, <2>1, AnswerTruthInv DEF TransportFails, cacheVars
<1>6. CASE Lookup(w)
  <2>1. InDb(req[w]) => \E t \in mined : SamePayment(req[w], t)
    BY DEF InDb, SubmitTypeOK
  <2> QED
    BY <1>1, <1>2, <1>6, <2>1, AnswerTruthInv DEF Lookup, cacheVars, worldVars
<1>7. CASE LookupFails(w)
  BY <1>1, <1>2, <1>7, AnswerTruthInv DEF LookupFails, cacheVars, worldVars
<1>8. CASE Send(w)
  <2>1. /\ UNCHANGED <<cacheVars, req, wire, verdict, known, dbFailed, worldVars>>
        /\ hpc[w] = "validating"
        /\ hpc' = [hpc EXCEPT ![w] = "sending"]
    BY <1>8 DEF Send
  <2>2. SubmitTypeOK' /\ Evidence'
    BY <1>1, <2>1 DEF SubmitTypeOK, Evidence, HandlerPhases, cacheVars, worldVars
  <2>3. VerdictsTrue'
    BY <1>1, <2>1 DEF VerdictsTrue, Answered, SamePayment, IsPayment, worldVars
  <2> QED
    BY <2>2, <2>3
<1>9. CASE HandleHash(w)
  <2>1. /\ UNCHANGED <<present, req, verdict, known, dbFailed, worldVars>>
        /\ hpc[w] = "sending" /\ wire[w] = Hash
        /\ hpc' = [hpc EXCEPT ![w] = "caching"]
        /\ wire' = [wire EXCEPT ![w] = Unanswered]
        /\ pc' = [pc EXCEPT ![w] = "count"]
        /\ key' = [key EXCEPT ![w] = req[w]]
        /\ pc \in [Workers -> Phases] /\ key \in [Workers -> Sigs \cup {None}]
    BY <1>9 DEF HandleHash, Begin, SubmitTypeOK, TypeOK
  <2>2. SubmitTypeOK'
    BY <1>1, <2>1 DEF SubmitTypeOK, HandlerPhases, worldVars
  <2>3. Evidence'
    BY <1>1, <2>1, HashIsAnAnswer DEF Evidence, worldVars
  <2>4. VerdictsTrue'
    BY <1>1, <2>1 DEF VerdictsTrue, Answered, SamePayment, IsPayment, worldVars
  <2> QED
    BY <2>2, <2>3, <2>4
<1>10. CASE Cache(w)
  <2>1. /\ hpc[w] = "caching" /\ InsertStep(w)
        /\ UNCHANGED <<req, known, dbFailed, worldVars>>
        /\ req[w] \in accepted /\ key[w] = req[w]
    BY <1>10 DEF Cache, Evidence
  <2>2. /\ present' \subseteq accepted
        /\ pc'[w] # "idle" => key'[w] = key[w]
        /\ \A v \in Workers : v # w => pc'[v] = pc[v] /\ key'[v] = key[v]
    BY <1>1, <2>1, InsertStepEffect DEF SubmitTypeOK
  <2>3. CASE pc'[w] = "idle"
    <3>1. Answer(w, "Ok")
      BY <1>10, <2>3 DEF Cache
    <3> QED
      BY <1>1, <1>2, <2>1, <2>2, <2>3, <3>1, AnswerTruthInv DEF worldVars
  <2>4. CASE pc'[w] # "idle"
    <3>1. UNCHANGED <<hpc, verdict, wire>>
      BY <1>10, <2>4 DEF Cache
    <3>2. SubmitTypeOK' /\ Evidence'
      BY <1>1, <2>1, <2>2, <2>4, <3>1 DEF SubmitTypeOK, Evidence, worldVars
    <3>3. VerdictsTrue'
      BY <1>1, <2>1, <3>1 DEF VerdictsTrue, Answered, SamePayment, IsPayment, worldVars
    <3> QED
      BY <3>2, <3>3
  <2> QED
    BY <2>3, <2>4
<1>11. CASE HandleError(w)
  <2>1. /\ UNCHANGED <<cacheVars, req, known, dbFailed, worldVars>>
        /\ hpc[w] = "sending"
    BY <1>11 DEF HandleError
  <2>2. CASE \E v \in Verdicts \ {"Ok", "Duplicate"} : Answer(w, v)
    BY <1>1, <2>1, <2>2, AnswerTruthInv DEF cacheVars, worldVars
  <2>3. CASE IsCached(req[w]) /\ Answer(w, "Duplicate")
    BY <1>1, <1>2, <2>1, <2>3, AnswerTruthInv DEF cacheVars, worldVars, IsCached
  <2>4. CASE /\ hpc' = [hpc EXCEPT ![w] = "lookup"]
             /\ wire' = [wire EXCEPT ![w] = Unanswered]
             /\ verdict' = verdict
    <3>1. SubmitTypeOK' /\ Evidence'
      BY <1>1, <2>1, <2>4, HashIsAnAnswer
         DEF SubmitTypeOK, Evidence, HandlerPhases, cacheVars, worldVars
    <3>2. VerdictsTrue'
      BY <1>1, <2>1, <2>4 DEF VerdictsTrue, Answered, SamePayment, IsPayment, worldVars
    <3> QED
      BY <3>1, <3>2
  <2> QED
    <3>1. MapError(wire[w]) # "BelowNonce" =>
            MapError(wire[w]) \in Verdicts \ {"Ok", "Duplicate"}
      BY MapErrorVerdict
    <3>2. "BadNonce" \in Verdicts \ {"Ok", "Duplicate"}
      BY DEF Verdicts
    <3> QED
      BY <1>11, <2>2, <2>3, <2>4, <3>1, <3>2 DEF HandleError
<1>12. CASE Deliver(w)
  <2>1. /\ UNCHANGED <<cacheVars, wire, worldVars>>
        /\ hpc[w] = "answered"
        /\ hpc' = [hpc EXCEPT ![w] = "idle"]
        /\ req' = [req EXCEPT ![w] = None]
        /\ verdict' = [verdict EXCEPT ![w] = NoVerdict]
        /\ known' = [known EXCEPT ![w] = FALSE]
        /\ dbFailed' = [dbFailed EXCEPT ![w] = FALSE]
    BY <1>12 DEF Deliver
  <2>2. SubmitTypeOK'
    BY <1>1, <2>1 DEF SubmitTypeOK, HandlerPhases, cacheVars, worldVars
  <2>3. Evidence'
    BY <1>1, <2>1, HashIsAnAnswer DEF Evidence, cacheVars, worldVars
  <2>4. VerdictsTrue'
    BY <1>1, <2>1 DEF VerdictsTrue, Answered, SamePayment, IsPayment, worldVars
  <2> QED
    BY <2>2, <2>3, <2>4
<1>13. CASE HangUp(w)
  <2>1. /\ UNCHANGED <<cacheVars, verdict, dbFailed, accepted, chain, mined, archive>>
        /\ hpc[w] \in {"validating", "sending", "lookup"}
        /\ hpc' = [hpc EXCEPT ![w] = "idle"]
        /\ req' = [req EXCEPT ![w] = None]
        /\ wire' = [wire EXCEPT ![w] = Unanswered]
        /\ known' = [known EXCEPT ![w] = FALSE]
        /\ stray' = IF hpc[w] = "sending" /\ wire[w] = Unanswered
                    THEN stray \cup {req[w]} ELSE stray
    BY <1>13 DEF HangUp
  <2>2. stray' \subseteq Sigs
    BY <1>1, <2>1
  <2>3. SubmitTypeOK'
    BY <1>1, <2>1, <2>2 DEF SubmitTypeOK, HandlerPhases, cacheVars
  <2>4. Evidence'
    BY <1>1, <2>1, HashIsAnAnswer DEF Evidence, cacheVars
  <2>5. VerdictsTrue'
    BY <1>1, <2>1 DEF VerdictsTrue, Answered, SamePayment, IsPayment
  <2> QED
    BY <2>3, <2>4, <2>5
<1> QED
  BY <1>3, <1>4, <1>5, <1>6, <1>7, <1>8, <1>9, <1>10, <1>11, <1>12, <1>13

\* The daemon, the chain and the archive only add evidence.
LEMMA WorldTruthInv ==
  ASSUME TruthInv, TypeOK', UNCHANGED <<present, pc, key>>,
         \/ \E w \in Workers : DaemonAnswer(w)
         \/ \E s \in Sigs : StrayArrives(s) \/ Mine(s) \/ Orphan(s) \/ Archive(s)
         \/ UNCHANGED <<handlerVars, worldVars>>
  PROVE  TruthInv'
<1> USE DEF TruthInv
<1>1. CASE \E w \in Workers : DaemonAnswer(w)
  <2>0. PICK w \in Workers : DaemonAnswer(w)
    BY <1>1
  <2>1. PICK a \in DaemonAnswers(req[w]) :
          /\ hpc[w] = "sending"
          /\ wire' = [wire EXCEPT ![w] = a]
          /\ accepted' = IF a = Hash THEN accepted \cup {req[w]} ELSE accepted
          /\ UNCHANGED <<hpc, req, verdict, known, dbFailed, stray, chain, mined, archive>>
    BY <2>0 DEF DaemonAnswer
  <2>2. a \in {Hash} \cup SUBSET Phrases
    <3>1. \A text \in ErrorTexts : text \in SUBSET Phrases
      BY ErrorTextsAssumption
    <3>2. "below minimum_nonce" \in Phrases
      BY DEF Phrases
    <3>3. \A text \in SUBSET Phrases : text \cup {"below minimum_nonce"} \in SUBSET Phrases
      BY <3>2
    <3>4. CASE SlotUsed(req[w])
      <4>1. PICK text \in ErrorTexts : a = text \cup {"below minimum_nonce"}
        BY <2>1, <3>4 DEF DaemonAnswers
      <4> QED
        BY <3>1, <3>3, <4>1
    <3>5. CASE ~ SlotUsed(req[w])
      BY <2>1, <3>1, <3>5 DEF DaemonAnswers
    <3> QED
      BY <3>4, <3>5
  <2>3. req[w] \in Sigs
    BY <2>1 DEF SubmitTypeOK
  <2>4. SubmitTypeOK'
    BY <2>1, <2>2, <2>3 DEF SubmitTypeOK
  <2>5. Evidence'
    BY <2>1, <2>3 DEF Evidence, SubmitTypeOK
  <2>6. VerdictsTrue'
    BY <2>1 DEF VerdictsTrue, Answered, SamePayment, IsPayment
  <2> QED
    BY <2>4, <2>5, <2>6
<1>2. CASE \E s \in Sigs : StrayArrives(s) \/ Mine(s) \/ Orphan(s) \/ Archive(s)
  <2>1. /\ UNCHANGED <<hpc, req, wire, verdict, known, dbFailed>>
        /\ accepted \subseteq accepted' /\ accepted' \subseteq Sigs
        /\ mined \subseteq mined' /\ mined' \subseteq Sigs
        /\ stray' \subseteq Sigs /\ chain' \subseteq mined' /\ archive' \subseteq mined'
    BY <1>2 DEF StrayArrives, Mine, Orphan, Archive, handlerVars, SubmitTypeOK
  <2>2. SubmitTypeOK'
    BY <2>1 DEF SubmitTypeOK
  <2>3. Evidence'
    BY <2>1 DEF Evidence
  <2>4. VerdictsTrue'
    BY <2>1 DEF VerdictsTrue, Answered, SamePayment, IsPayment
  <2> QED
    BY <2>2, <2>3, <2>4
<1>3. CASE UNCHANGED <<handlerVars, worldVars>>
  <2>1. UNCHANGED <<hpc, req, wire, verdict, known, dbFailed>>
    BY <1>3 DEF handlerVars
  <2>2. UNCHANGED <<stray, accepted, chain, mined, archive>>
    BY <1>3 DEF worldVars
  <2> QED
    BY <2>1, <2>2 DEF SubmitTypeOK, Evidence, VerdictsTrue, Answered, SamePayment, IsPayment
<1> QED
  BY <1>1, <1>2, <1>3

LEMMA NextTruthInv == TruthInv /\ [SubmitNext]_submitVars => TruthInv'
<1> SUFFICES ASSUME TruthInv, [SubmitNext]_submitVars PROVE TruthInv'
  OBVIOUS
<1>1. TypeOK'
  BY SubmitStepIsCacheStep, NextTypeOK DEF TruthInv, SubmitTypeOK
<1>2. ASSUME NEW w \in Workers, NEW s \in Sigs, Receive(w, s) PROVE TruthInv'
  <2>1. /\ UNCHANGED <<present, pc, key, wire, verdict, dbFailed, worldVars>>
        /\ hpc[w] = "idle"
        /\ hpc' = [hpc EXCEPT ![w] = "validating"]
        /\ req' = [req EXCEPT ![w] = s]
        /\ known' = [known EXCEPT ![w] = InDb(s)]
        /\ InDb(s) \in BOOLEAN
    BY <1>2 DEF Receive, cacheVars, InDb
  <2>2. SubmitTypeOK'
    BY <1>1, <2>1, NoneAssumption DEF TruthInv, SubmitTypeOK, HandlerPhases, worldVars
  <2>3. Evidence'
    BY <2>1, HashIsAnAnswer DEF TruthInv, SubmitTypeOK, Evidence, worldVars
  <2>4. VerdictsTrue'
    BY <2>1 DEF TruthInv, SubmitTypeOK, VerdictsTrue, Answered, SamePayment, IsPayment, worldVars
  <2> QED
    BY <2>2, <2>3, <2>4 DEF TruthInv
<1>3. ASSUME NEW w \in Workers,
             \/ RejectNetwork(w) \/ RejectForm(w) \/ Send(w) \/ TransportFails(w)
             \/ HandleHash(w) \/ Cache(w) \/ HandleError(w)
             \/ Lookup(w) \/ LookupFails(w) \/ Deliver(w) \/ HangUp(w)
      PROVE  TruthInv'
  BY <1>1, <1>3, HandlerTruthInv
<1>4. ASSUME NEW w \in Workers, DaemonAnswer(w) PROVE TruthInv'
  <2>1. UNCHANGED <<present, pc, key>>
    BY <1>4 DEF DaemonAnswer, cacheVars
  <2> QED
    BY <1>1, <1>4, <2>1, WorldTruthInv
<1>5. ASSUME NEW s \in Sigs, StrayArrives(s) \/ Mine(s) \/ Orphan(s) \/ Archive(s)
      PROVE  TruthInv'
  <2>1. UNCHANGED <<present, pc, key>>
    BY <1>5 DEF StrayArrives, Mine, Orphan, Archive, cacheVars
  <2> QED
    BY <1>1, <1>5, <2>1, WorldTruthInv
<1>6. CASE Time \/ UNCHANGED submitVars
  <2>1. UNCHANGED <<present, pc, key>> /\ UNCHANGED <<handlerVars, worldVars>>
    BY <1>6 DEF Time, Tick, submitVars, cacheVars
  <2> QED
    BY <1>1, <2>1, WorldTruthInv
<1>7. CASE Crash
  <2>1. /\ present' = {} /\ pc' = [w \in Workers |-> "idle"]
        /\ key' = [w \in Workers |-> None]
        /\ hpc' = [w \in Workers |-> "idle"]
        /\ req' = [w \in Workers |-> None]
        /\ wire' = [w \in Workers |-> Unanswered]
        /\ verdict' = [w \in Workers |-> NoVerdict]
        /\ known' = [w \in Workers |-> FALSE]
        /\ dbFailed' = [w \in Workers |-> FALSE]
        /\ UNCHANGED <<accepted, chain, mined, archive>>
    BY <1>7 DEF Crash, Restart
  <2>2. stray' \subseteq Sigs
    <3>1. \A v \in Workers : hpc[v] = "sending" => req[v] \in Sigs
      BY DEF TruthInv, SubmitTypeOK
    <3> QED
      BY <1>7, <3>1 DEF Crash, TruthInv, SubmitTypeOK
  <2>3. SubmitTypeOK'
    BY <1>1, <2>1, <2>2 DEF TruthInv, SubmitTypeOK, HandlerPhases
  <2>4. Evidence' /\ VerdictsTrue'
    BY <2>1, HashIsAnAnswer DEF Evidence, VerdictsTrue, Answered
  <2> QED
    BY <2>3, <2>4 DEF TruthInv
<1> QED
  BY <1>2, <1>3, <1>4, <1>5, <1>6, <1>7 DEF SubmitNext, ServiceNext

LEMMA InitTruthInv == SubmitInit => TruthInv
  BY InitSubmitTypeOK, HashIsAnAnswer
     DEF SubmitInit, Init, TruthInv, Evidence, VerdictsTrue, Answered

THEOREM SubmitInvariant == SubmitSpec => []TruthInv
  BY InitTruthInv, NextTruthInv, PTL DEF SubmitSpec

\* Type correctness of the whole service.
THEOREM SubmitTypeCorrect == SubmitSpec => []SubmitTypeOK
<1>1. TruthInv => SubmitTypeOK
  BY DEF TruthInv
<1> QED
  BY <1>1, SubmitInvariant, PTL

(***************************************************************************)
(* Ok and Duplicate are never answered for a transaction that has not gone *)
(* through, whatever requests, retries, lost answers, evictions, reorgan-  *)
(* isations and restarts came before.                                      *)
(***************************************************************************)
THEOREM SubmitVerdictsTrue == SubmitSpec => []VerdictsTrue
<1>1. TruthInv => VerdictsTrue
  BY DEF TruthInv
<1> QED
  BY <1>1, SubmitInvariant, PTL

(***************************************************************************)
(* The service uses the cache as TxCache says a cache is used, so the      *)
(* bound proved there holds of the running service.                        *)
(***************************************************************************)
THEOREM SubmitRespectsCache == SubmitSpec => CacheRespected
<1>1. SubmitInit => Init
  BY DEF SubmitInit
<1>2. TruthInv /\ [SubmitNext]_submitVars => [Next]_cacheVars
  BY SubmitStepIsCacheStep DEF TruthInv
<1> QED
  BY <1>1, <1>2, SubmitInvariant, PTL DEF SubmitSpec, CacheRespected, Safety

COROLLARY SubmitCacheBounded == SubmitSpec => []LimitPlusOverlaps
  BY SubmitRespectsCache, CacheBounded, PTL DEF CacheRespected

COROLLARY SubmitRemembers == SubmitSpec => RemembersWithinBounds
  BY SubmitRespectsCache, CacheRemembers, PTL DEF CacheRespected

-----------------------------------------------------------------------------
(***************************************************************************)
(* What is archived stays archived, also when its block is orphaned: that  *)
(* is what makes the lookup right however late it comes.                   *)
(***************************************************************************)
KnownInv ==
  /\ \A w \in Workers : known[w] => hpc[w] # "idle" /\ InDb(req[w])
  /\ ArchivedRecognised

LEMMA NextKnownInv ==
  ASSUME TruthInv, KnownInv, [SubmitNext]_submitVars
  PROVE  KnownInv'
<1> USE DEF TruthInv, SubmitTypeOK
<1>1. archive \subseteq archive'
  BY DEF SubmitNext, ServiceNext, Receive, RejectNetwork, RejectForm, Send, TransportFails,
         HandleHash, Cache, HandleError, Lookup, LookupFails, Deliver, HangUp,
         DaemonAnswer, StrayArrives, Mine, Orphan, Archive, Time, Crash,
         worldVars, submitVars
<1>2. \A s : InDb(s) => InDb(s)'
  BY <1>1 DEF InDb, SamePayment, IsPayment
\* A request goes on, or is answered with v.
<1>3. ASSUME NEW w \in Workers, NEW v, hpc[w] # "idle",
             UNCHANGED <<req, known>>,
             \A u \in Workers : dbFailed[u] => dbFailed'[u],
             \/ Answer(w, v)
             \/ /\ hpc' = [hpc EXCEPT ![w] = v] /\ v \notin {"idle", "answered"}
                /\ verdict' = verdict
             \/ UNCHANGED <<hpc, verdict>>,
             hpc'[w] = "answered" /\ verdict'[w] = "BadNonce" /\ known[w] /\ IsPayment(req[w])
               => dbFailed'[w]
      PROVE  KnownInv'
  <2>1. ASSUME NEW u \in Workers, u # w PROVE hpc'[u] = hpc[u] /\ verdict'[u] = verdict[u]
    BY <1>3, <2>1 DEF Answer
  <2>2. hpc'[w] # "idle"
    BY <1>3 DEF Answer
  <2>3. ASSUME NEW u \in Workers, known'[u] PROVE hpc'[u] # "idle" /\ InDb(req[u])'
    BY <1>2, <1>3, <2>1, <2>2, <2>3 DEF KnownInv, InDb, SamePayment
  <2>4. ArchivedRecognised'
    BY <1>3, <2>1 DEF KnownInv, ArchivedRecognised, Answered, IsPayment
  <2> QED
    BY <2>3, <2>4 DEF KnownInv
\* The worker takes a request, or has none any more.
<1>4. ASSUME NEW w \in Workers, NEW h, h # "answered",
             hpc' = [hpc EXCEPT ![w] = h],
             \A u \in Workers : u # w => /\ req'[u] = req[u] /\ known'[u] = known[u]
                                         /\ verdict'[u] = verdict[u] /\ dbFailed'[u] = dbFailed[u],
             known'[w] => h # "idle" /\ InDb(req[w])'
      PROVE  KnownInv'
  <2>1. ASSUME NEW u \in Workers, known'[u] PROVE hpc'[u] # "idle" /\ InDb(req[u])'
    BY <1>2, <1>4, <2>1 DEF KnownInv, InDb, SamePayment
  <2>2. ArchivedRecognised'
    BY <1>4 DEF KnownInv, ArchivedRecognised, Answered, IsPayment
  <2> QED
    BY <2>1, <2>2 DEF KnownInv
\* The world moves.
<1>5. ASSUME UNCHANGED <<hpc, req, verdict, known, dbFailed>>
      PROVE  KnownInv'
  <2>1. ASSUME NEW u \in Workers, known'[u] PROVE hpc'[u] # "idle" /\ InDb(req[u])'
    BY <1>2, <1>5, <2>1 DEF KnownInv, InDb, SamePayment
  <2> QED
    BY <1>5, <2>1 DEF KnownInv, ArchivedRecognised, Answered, IsPayment
<1>6. ASSUME NEW w \in Workers, NEW s \in Sigs, Receive(w, s) PROVE KnownInv'
  <2>1. /\ known'[w] = InDb(s) /\ req'[w] = s
        /\ UNCHANGED <<verdict, dbFailed, archive>>
    BY <1>6 DEF Receive, worldVars
  <2>2. known'[w] => InDb(req[w])'
    BY <2>1 DEF InDb, SamePayment, IsPayment
  <2> QED
    BY <1>4, <1>6, <2>1, <2>2 DEF Receive
<1>7. ASSUME NEW w \in Workers, RejectNetwork(w) PROVE KnownInv'
  <2>1. PICK v \in {"NetworkDne", "GraphqlMinaQuery"} : Answer(w, v)
    BY <1>7 DEF RejectNetwork
  <2>2. verdict'[w] = v
    BY <2>1 DEF Answer
  <2> QED
    BY <1>3, <1>7, <2>1, <2>2 DEF RejectNetwork
<1>8. ASSUME NEW w \in Workers, RejectForm(w) PROVE KnownInv'
  <2>1. verdict'[w] = "JsonParse"
    BY <1>8 DEF RejectForm, Answer
  <2> QED
    BY <1>3, <1>8, <2>1 DEF RejectForm
<1>9. ASSUME NEW w \in Workers, Send(w) \/ HandleHash(w) PROVE KnownInv'
  <2>1. PICK h \in {"sending", "caching"} :
          /\ hpc[w] # "idle"
          /\ UNCHANGED <<req, known, verdict, dbFailed>>
          /\ hpc' = [hpc EXCEPT ![w] = h]
    BY <1>9 DEF Send, HandleHash
  <2>2. hpc'[w] # "answered" /\ h \notin {"idle", "answered"}
    BY <2>1
  <2> QED
    BY <1>3, <2>1, <2>2
<1>10. ASSUME NEW w \in Workers, TransportFails(w) PROVE KnownInv'
  <2>1. verdict'[w] = "GraphqlMinaQuery"
    BY <1>10 DEF TransportFails, Answer
  <2> QED
    BY <1>3, <1>10, <2>1 DEF TransportFails
<1>11. ASSUME NEW w \in Workers, Cache(w) PROVE KnownInv'
  <2>1. CASE Answer(w, "Ok")
    <3>1. verdict'[w] = "Ok"
      BY <2>1 DEF Answer
    <3> QED
      BY <1>3, <1>11, <2>1, <3>1 DEF Cache
  <2>2. CASE UNCHANGED <<hpc, verdict, wire>>
    BY <1>5, <1>11, <2>2 DEF Cache
  <2> QED
    BY <1>11, <2>1, <2>2 DEF Cache
<1>12. ASSUME NEW w \in Workers, HandleError(w) PROVE KnownInv'
  <2>1. /\ hpc[w] = "sending"
        /\ UNCHANGED <<req, known, dbFailed>>
    BY <1>12 DEF HandleError
  <2>2. CASE MapError(wire[w]) # "BelowNonce" /\ Answer(w, MapError(wire[w]))
    <3>1. verdict'[w] # "BadNonce"
      BY <2>2, MapErrorVerdict DEF Answer
    <3> QED
      BY <1>3, <2>1, <2>2, <3>1
  <2>3. CASE Answer(w, "Duplicate")
    <3>1. verdict'[w] = "Duplicate"
      BY <2>3 DEF Answer
    <3> QED
      BY <1>3, <2>1, <2>3, <3>1
  <2>4. CASE ~IsPayment(req[w]) /\ Answer(w, "BadNonce")
    BY <1>3, <2>1, <2>4
  <2>5. CASE hpc' = [hpc EXCEPT ![w] = "lookup"] /\ verdict' = verdict
    <3>1. hpc'[w] # "answered"
      BY <2>5
    <3> QED
      BY <1>3, <2>1, <2>5, <3>1
  <2> QED
    BY <1>12, <2>2, <2>3, <2>4, <2>5 DEF HandleError
<1>13. ASSUME NEW w \in Workers, Lookup(w) PROVE KnownInv'
  <2>1. known[w] => verdict'[w] = "Duplicate"
    BY <1>13 DEF Lookup, Answer, KnownInv
  <2> QED
    BY <1>3, <1>13, <2>1 DEF Lookup
<1>14. ASSUME NEW w \in Workers, LookupFails(w) PROVE KnownInv'
  BY <1>3, <1>14 DEF LookupFails
<1>15. ASSUME NEW w \in Workers, Deliver(w) \/ HangUp(w) PROVE KnownInv'
  BY <1>4, <1>15 DEF Deliver, HangUp
<1>16. CASE Crash
  BY <1>16 DEF Crash, KnownInv, ArchivedRecognised, Answered
<1>17. ASSUME NEW w \in Workers, DaemonAnswer(w) PROVE KnownInv'
  BY <1>5, <1>17 DEF DaemonAnswer
<1>18. ASSUME NEW s \in Sigs, StrayArrives(s) \/ Mine(s) \/ Orphan(s) \/ Archive(s)
       PROVE  KnownInv'
  BY <1>5, <1>18 DEF StrayArrives, Mine, Orphan, Archive, handlerVars
<1>19. CASE Time \/ UNCHANGED submitVars
  BY <1>5, <1>19 DEF Time, submitVars, handlerVars
<1> QED
  BY <1>6, <1>7, <1>8, <1>9, <1>10, <1>11, <1>12, <1>13, <1>14, <1>15, <1>16, <1>17,
     <1>18, <1>19 DEF SubmitNext, ServiceNext

(***************************************************************************)
(* A payment whose row was there when its request came in is recognised,   *)
(* through reorganisations and whatever else happens to the request.       *)
(***************************************************************************)
THEOREM SubmitArchivedRecognised == SubmitSpec => []ArchivedRecognised
<1>1. SubmitInit => KnownInv
  BY DEF SubmitInit, KnownInv, ArchivedRecognised, Answered
<1>2. TruthInv /\ KnownInv /\ [SubmitNext]_submitVars => KnownInv'
  BY NextKnownInv
<1>3. KnownInv => ArchivedRecognised
  BY DEF KnownInv
<1> QED
  BY <1>1, <1>2, <1>3, SubmitInvariant, PTL DEF SubmitSpec

(***************************************************************************)
(* Ok never overtakes the entry: whoever reads it finds the signature in   *)
(* the cache at that moment.                                               *)
(***************************************************************************)
THEOREM SubmitOkRecorded == SubmitSpec => OkRecorded
<1> DEFINE Recorded == \A w \in Workers :
             verdict[w] # "Ok" /\ verdict'[w] = "Ok" => req[w] \in present'
<1>1. ASSUME TruthInv, [SubmitNext]_submitVars PROVE [Recorded]_submitVars
  <2>1. verdict \in [Workers -> Verdicts \cup {NoVerdict}]
    BY <1>1 DEF TruthInv, SubmitTypeOK
\* Every other verdict than Ok leaves Recorded alone.
  <2>2. ASSUME NEW w \in Workers, NEW v, v # "Ok", verdict' = [verdict EXCEPT ![w] = v]
        PROVE  Recorded
    BY <2>1, <2>2
  <2>3. ASSUME verdict' = verdict PROVE Recorded
    BY <2>3
  <2>4. ASSUME NEW w \in Workers, NEW v, v # "Ok", Answer(w, v) PROVE Recorded
    BY <2>2, <2>4 DEF Answer
  <2>5. ASSUME NEW w \in Workers, Cache(w) PROVE Recorded
    <3>1. CASE pc'[w] = "idle"
      <4>1. key[w] = req[w]
        BY <1>1, <2>5 DEF TruthInv, Evidence, Cache
      <4>2. key[w] \in present'
        BY <1>1, <2>5, <3>1, InsertionEndsInPlace DEF Cache, TruthInv, SubmitTypeOK
      <4>3. verdict' = [verdict EXCEPT ![w] = "Ok"]
        BY <2>5, <3>1 DEF Cache, Answer
      <4> QED
        BY <2>1, <4>1, <4>2, <4>3
    <3>2. CASE pc'[w] # "idle"
      BY <2>3, <2>5, <3>2 DEF Cache
    <3> QED
      BY <3>1, <3>2
  <2>6. ASSUME NEW w \in Workers, HandleError(w) PROVE Recorded
    <3>1. MapError(wire[w]) # "Ok"
      BY MapErrorVerdict
    <3>2. CASE \E v : v # "Ok" /\ Answer(w, v)
      BY <2>4, <3>2
    <3>3. CASE verdict' = verdict
      BY <2>3, <3>3
    <3>4. Answer(w, MapError(wire[w])) => \E v : v # "Ok" /\ Answer(w, v)
      BY <3>1
    <3>5. Answer(w, "Duplicate") \/ Answer(w, "BadNonce") => \E v : v # "Ok" /\ Answer(w, v)
      OBVIOUS
    <3> QED
      BY <2>6, <3>2, <3>3, <3>4, <3>5 DEF HandleError
  <2>7. ASSUME NEW w \in Workers, RejectNetwork(w) PROVE Recorded
    BY <2>4, <2>7 DEF RejectNetwork
  <2>8. ASSUME NEW w \in Workers, RejectForm(w) PROVE Recorded
    BY <2>4, <2>8 DEF RejectForm
  <2>9. ASSUME NEW w \in Workers, TransportFails(w) PROVE Recorded
    BY <2>4, <2>9 DEF TransportFails
  <2>10. ASSUME NEW w \in Workers, Lookup(w) PROVE Recorded
    BY <2>4, <2>10 DEF Lookup
  <2>11. ASSUME NEW w \in Workers, LookupFails(w) PROVE Recorded
    BY <2>4, <2>11 DEF LookupFails
  <2>12. ASSUME NEW w \in Workers, Deliver(w) PROVE Recorded
    BY <2>2, <2>12 DEF Deliver, NoVerdict
  <2>13. ASSUME NEW w \in Workers,
                Send(w) \/ HandleHash(w) \/ HangUp(w) \/ DaemonAnswer(w)
         PROVE  Recorded
    BY <2>3, <2>13 DEF Send, HandleHash, HangUp, DaemonAnswer
  <2>14. ASSUME NEW w \in Workers, NEW s \in Sigs, Receive(w, s) PROVE Recorded
    BY <2>3, <2>14 DEF Receive
  <2>15. ASSUME NEW s \in Sigs, StrayArrives(s) \/ Mine(s) \/ Orphan(s) \/ Archive(s)
         PROVE  Recorded
    BY <2>3, <2>15 DEF StrayArrives, Mine, Orphan, Archive, handlerVars
  <2>16. CASE Time
    BY <2>3, <2>16 DEF Time, handlerVars
  <2>17. CASE Crash
    BY <2>17 DEF Crash, NoVerdict
  <2> QED
    BY <1>1, <2>5, <2>6, <2>7, <2>8, <2>9, <2>10, <2>11, <2>12, <2>13, <2>14, <2>15, <2>16,
       <2>17 DEF SubmitNext, ServiceNext
<1> QED
  BY <1>1, SubmitInvariant, PTL DEF SubmitSpec, OkRecorded

-----------------------------------------------------------------------------
\* The daemon's answers are never the absence of one.
LEMMA AnswersAnswer ==
  ASSUME NEW s \in Sigs, NEW a \in DaemonAnswers(s)
  PROVE  a # Unanswered
<1>1. Unanswered \notin SUBSET Phrases
  BY DEF Unanswered, Phrases
<1>2. CASE SlotUsed(s)
  <2>1. PICK text \in ErrorTexts : a = text \cup {"below minimum_nonce"}
    BY <1>2 DEF DaemonAnswers
  <2>2. text \subseteq Phrases /\ "below minimum_nonce" \in Phrases
    BY ErrorTextsAssumption DEF Phrases
  <2>3. a \in SUBSET Phrases
    BY <2>1, <2>2
  <2> QED
    BY <1>1, <2>3
<1>3. CASE ~ SlotUsed(s)
  <2>1. a = Hash \/ a \in SUBSET Phrases
    BY <1>3, ErrorTextsAssumption DEF DaemonAnswers
  <2> QED
    BY <1>1, <2>1, HashIsAnAnswer
<1> QED
  BY <1>2, <1>3

LEMMA RequestLeftNat ==
  ASSUME SubmitTypeOK, NEW w \in Workers
  PROVE  RequestLeft(w) \in Nat
<1>1. NumShards \in Nat /\ StepsLeft(w) \in Nat /\ hpc[w] \in HandlerPhases
  BY ShardAssumption, StepsLeftNat DEF SubmitTypeOK
<1> QED
  BY <1>1 DEF RequestLeft, HandlerPhases

\* What is left of a request depends on its own place only.
LEMMA SameRequestSameLeft ==
  ASSUME NEW w \in Workers, hpc'[w] = hpc[w], wire'[w] = wire[w],
         pc'[w] = pc[w], shard'[w] = shard[w]
  PROVE  RequestLeft(w)' = RequestLeft(w)
<1>1. StepsLeft(w)' = StepsLeft(w)
  BY SamePlaceSameLeft
<1> QED
  BY <1>1 DEF RequestLeft

\* A step of the handler or of its mutation leaves less to do.
LEMMA RequestStepAdvances ==
  ASSUME TruthInv, NEW w \in Workers, HandlerStep(w) \/ NetworkSettles(w)
  PROVE  RequestLeft(w)' \in Nat /\ RequestLeft(w)' < RequestLeft(w)
<1> USE ShardAssumption
<1>1. /\ NumShards \in Nat /\ NumShards >= 1
      /\ hpc \in [Workers -> HandlerPhases]
      /\ wire \in [Workers -> {Unanswered, Hash} \cup SUBSET Phrases]
      /\ TypeOK
      /\ hpc[w] = "caching" <=> pc[w] # "idle"
      /\ req[w] = None <=> hpc[w] = "idle"
      /\ req[w] \in Sigs \cup {None}
  BY DEF TruthInv, SubmitTypeOK
<1>2. ASSUME hpc'[w] \in {"idle", "answered"}, hpc[w] \in {"validating", "sending", "lookup"}
      PROVE  RequestLeft(w)' \in Nat /\ RequestLeft(w)' < RequestLeft(w)
  BY <1>1, <1>2 DEF RequestLeft
<1>3. ASSUME NEW v, Answer(w, v)
      PROVE  hpc'[w] = "answered"
  BY <1>1, <1>3 DEF Answer
<1>4. CASE RejectNetwork(w) \/ RejectForm(w) \/ Lookup(w) \/ LookupFails(w) \/ TransportFails(w)
  BY <1>2, <1>3, <1>4 DEF RejectNetwork, RejectForm, Lookup, LookupFails, TransportFails
<1>5. CASE Send(w)
  <2>1. hpc[w] = "validating" /\ hpc'[w] = "sending"
    BY <1>1, <1>5 DEF Send
  <2> QED
    BY <1>1, <2>1 DEF RequestLeft
<1>6. CASE HandleHash(w)
  <2>1. /\ hpc[w] = "sending" /\ hpc'[w] = "caching"
        /\ pc'[w] = "count" /\ shard'[w] = shard[w] /\ shard[w] \in 1..NumShards
    BY <1>1, <1>6 DEF HandleHash, Begin, TypeOK
  <2>2. StepsLeft(w)' = 3 + 2 * NumShards - shard[w]
    BY <2>1 DEF StepsLeft
  <2> QED
    BY <1>1, <2>1, <2>2 DEF RequestLeft
<1>7. CASE Cache(w)
  <2>1. hpc[w] = "caching" /\ InsertStep(w)
    BY <1>7 DEF Cache
  <2>2. RequestLeft(w) = StepsLeft(w)
    BY <2>1 DEF RequestLeft
  <2>3. StepsLeft(w) \in Nat /\ StepsLeft(w)' \in Nat /\ StepsLeft(w)' < StepsLeft(w)
    BY <1>1, <2>1, InsertStepAdvances
  <2>4. CASE pc'[w] = "idle"
    <3>1. hpc'[w] = "answered"
      BY <1>3, <1>7, <2>4 DEF Cache
    <3>2. RequestLeft(w)' = 0
      BY <3>1 DEF RequestLeft
    <3> QED
      BY <2>2, <2>3, <3>2
  <2>5. CASE pc'[w] # "idle"
    <3>1. hpc'[w] = "caching"
      BY <1>7, <2>1, <2>5 DEF Cache
    <3>2. RequestLeft(w)' = StepsLeft(w)'
      BY <3>1 DEF RequestLeft
    <3> QED
      BY <2>2, <2>3, <3>2
  <2> QED
    BY <2>4, <2>5
<1>8. CASE HandleError(w)
  <2>1. hpc[w] = "sending"
    BY <1>8 DEF HandleError
  <2>2. CASE hpc'[w] = "answered"
    BY <1>2, <2>1, <2>2
  <2>3. CASE hpc'[w] = "lookup"
    BY <1>1, <2>1, <2>3 DEF RequestLeft
  <2>4. hpc'[w] = "answered" \/ hpc'[w] = "lookup"
    BY <1>1, <1>3, <1>8 DEF HandleError
  <2> QED
    BY <2>2, <2>3, <2>4
<1>9. CASE wire[w] = Unanswered /\ DaemonAnswer(w)
  <2>1. /\ hpc[w] = "sending" /\ hpc'[w] = "sending"
        /\ req[w] \in Sigs
    BY <1>1, <1>9 DEF DaemonAnswer
  <2>2. PICK a \in DaemonAnswers(req[w]) : wire' = [wire EXCEPT ![w] = a]
    BY <1>9 DEF DaemonAnswer
  <2>3. wire'[w] # Unanswered
    BY <1>1, <2>1, <2>2, AnswersAnswer
  <2> QED
    BY <1>1, <1>9, <2>1, <2>3 DEF RequestLeft
<1> QED
  BY <1>4, <1>5, <1>6, <1>7, <1>8, <1>9 DEF HandlerStep, NetworkSettles

\* A step of another request leaves a request where it is.
LEMMA OtherRequestsKeepPlace ==
  ASSUME SubmitTypeOK, NEW w \in Workers, NEW v \in Workers, v # w,
         \/ \E s \in Sigs : Receive(v, s)
         \/ RejectNetwork(v) \/ RejectForm(v) \/ Send(v) \/ TransportFails(v)
         \/ HandleHash(v) \/ Cache(v) \/ HandleError(v)
         \/ Lookup(v) \/ LookupFails(v) \/ Deliver(v) \/ HangUp(v)
         \/ DaemonAnswer(v)
  PROVE  RequestLeft(w)' = RequestLeft(w)
<1>1. /\ hpc \in [Workers -> HandlerPhases]
      /\ wire \in [Workers -> {Unanswered, Hash} \cup SUBSET Phrases]
      /\ TypeOK
      /\ req[v] = None <=> hpc[v] = "idle"
      /\ req[v] \in Sigs \cup {None}
  BY DEF SubmitTypeOK
<1>2. ASSUME NEW a, Answer(v, a)
      PROVE  hpc'[w] = hpc[w] /\ wire'[w] = wire[w]
  BY <1>1, <1>2 DEF Answer
<1>3. CASE Cache(v)
  <2>1. pc'[w] = pc[w] /\ shard'[w] = shard[w]
    BY <1>1, <1>3, OthersKeepPlace DEF Cache
  <2>2. hpc'[w] = hpc[w] /\ wire'[w] = wire[w]
    BY <1>2, <1>3 DEF Cache
  <2> QED
    BY <2>1, <2>2, SameRequestSameLeft
<1>4. CASE HandleHash(v)
  <2>1. req[v] \in Sigs
    BY <1>1, <1>4 DEF HandleHash
  <2>2. pc'[w] = pc[w] /\ shard'[w] = shard[w]
    BY <1>1, <1>4, <2>1, OthersKeepPlace DEF HandleHash
  <2>3. hpc'[w] = hpc[w] /\ wire'[w] = wire[w]
    BY <1>1, <1>4 DEF HandleHash
  <2> QED
    BY <2>2, <2>3, SameRequestSameLeft
<1>5. CASE RejectNetwork(v) \/ RejectForm(v) \/ TransportFails(v) \/ Lookup(v) \/ LookupFails(v)
  <2>1. hpc'[w] = hpc[w] /\ wire'[w] = wire[w]
    BY <1>2, <1>5 DEF RejectNetwork, RejectForm, TransportFails, Lookup, LookupFails
  <2>2. UNCHANGED cacheVars
    BY <1>5 DEF RejectNetwork, RejectForm, TransportFails, Lookup, LookupFails
  <2> QED
    BY <2>1, <2>2, SameRequestSameLeft DEF cacheVars
<1>6. CASE HandleError(v)
  <2>1. hpc'[w] = hpc[w] /\ wire'[w] = wire[w]
    BY <1>1, <1>2, <1>6 DEF HandleError
  <2> QED
    BY <1>6, <2>1, SameRequestSameLeft DEF HandleError, cacheVars
<1>7. CASE Send(v) \/ Deliver(v) \/ HangUp(v) \/ \E s \in Sigs : Receive(v, s)
  <2>1. hpc'[w] = hpc[w] /\ wire'[w] = wire[w] /\ UNCHANGED cacheVars
    BY <1>1, <1>7 DEF Send, Deliver, HangUp, Receive
  <2> QED
    BY <2>1, SameRequestSameLeft DEF cacheVars
<1>8. CASE DaemonAnswer(v)
  <2>1. hpc'[w] = hpc[w] /\ wire'[w] = wire[w] /\ UNCHANGED cacheVars
    BY <1>1, <1>8 DEF DaemonAnswer
  <2> QED
    BY <2>1, SameRequestSameLeft DEF cacheVars
<1> QED
  BY <1>3, <1>4, <1>5, <1>6, <1>7, <1>8

(***************************************************************************)
(* The handler of /construction/submit only ever moves towards its answer: *)
(* no retry, whatever the daemon says, and nothing that other requests,    *)
(* the daemon, the chain or the archiver do costs a request another step.  *)
(* So 2 * NumShards + 5 steps of its own answer it, for any number of      *)
(* requests and transactions.                                              *)
(***************************************************************************)
THEOREM SubmitRequestsAdvance == SubmitSpec => RequestAdvances
<1> DEFINE Advance ==
      \A w \in Workers :
        hpc[w] \notin {"idle", "answered"} =>
          /\ RequestLeft(w)' <= RequestLeft(w)
          /\ HandlerStep(w) \/ NetworkSettles(w) => RequestLeft(w)' < RequestLeft(w)
<1>1. ASSUME TruthInv, [SubmitNext]_submitVars PROVE Advance
  <2>0. SubmitTypeOK
    BY <1>1 DEF TruthInv
  <2> SUFFICES ASSUME NEW w \in Workers, hpc[w] \notin {"idle", "answered"}
               PROVE  RequestLeft(w)' <= RequestLeft(w)
    BY <1>1, RequestStepAdvances
  <2>1. RequestLeft(w) \in Nat
    BY <2>0, RequestLeftNat
  <2>2. ASSUME RequestLeft(w)' = RequestLeft(w)
        PROVE  RequestLeft(w)' <= RequestLeft(w)
    BY <2>1, <2>2
  <2>3. ASSUME hpc'[w] = "idle"
        PROVE  RequestLeft(w)' <= RequestLeft(w)
    <3>1. RequestLeft(w)' = 0
      BY <2>3 DEF RequestLeft
    <3> QED
      BY <2>1, <3>1
  <2>4. ASSUME HandlerStep(w) \/ NetworkSettles(w)
        PROVE  RequestLeft(w)' <= RequestLeft(w)
    <3>1. RequestLeft(w)' \in Nat /\ RequestLeft(w)' < RequestLeft(w)
      BY <1>1, <2>4, RequestStepAdvances
    <3> QED
      BY <2>1, <3>1
  <2>5. ASSUME NEW v \in Workers,
               \/ \E s \in Sigs : Receive(v, s)
               \/ RejectNetwork(v) \/ RejectForm(v) \/ Send(v) \/ TransportFails(v)
               \/ HandleHash(v) \/ Cache(v) \/ HandleError(v)
               \/ Lookup(v) \/ LookupFails(v) \/ Deliver(v) \/ HangUp(v)
               \/ DaemonAnswer(v)
        PROVE  RequestLeft(w)' <= RequestLeft(w)
    <3>1. CASE v # w
      BY <2>0, <2>2, <2>5, <3>1, OtherRequestsKeepPlace
    <3>2. CASE v = w
      <4>1. ~ Deliver(w) /\ ~ \E s \in Sigs : Receive(w, s)
        BY DEF Deliver, Receive
      <4>2. CASE HangUp(w)
        BY <2>0, <2>3, <4>2 DEF HangUp, SubmitTypeOK
      <4>3. CASE TransportFails(w)
        <5>1. hpc'[w] = "answered"
          BY <2>0, <4>3 DEF TransportFails, Answer, SubmitTypeOK
        <5>2. RequestLeft(w)' = 0
          BY <5>1 DEF RequestLeft
        <5> QED
          BY <2>1, <5>2
      <4>4. CASE DaemonAnswer(w)
        BY <2>4, <4>4 DEF DaemonAnswer, NetworkSettles
      <4> QED
        BY <2>4, <2>5, <3>2, <4>1, <4>2, <4>3, <4>4 DEF HandlerStep
    <3> QED
      BY <3>1, <3>2
  <2>6. ASSUME NEW s \in Sigs, StrayArrives(s) \/ Mine(s) \/ Orphan(s) \/ Archive(s)
        PROVE  RequestLeft(w)' <= RequestLeft(w)
    <3>1. UNCHANGED <<cacheVars, handlerVars>>
      BY <2>6 DEF StrayArrives, Mine, Orphan, Archive
    <3> QED
      BY <2>2, <3>1, SameRequestSameLeft DEF cacheVars, handlerVars
  <2>7. CASE Time
    BY <2>2, <2>7, SameRequestSameLeft DEF Time, Tick, handlerVars
  <2>8. CASE Crash
    BY <2>3, <2>8 DEF Crash
  <2>9. CASE UNCHANGED submitVars
    BY <2>2, <2>9, SameRequestSameLeft DEF submitVars, cacheVars, handlerVars
  <2> QED
    BY <1>1, <2>5, <2>6, <2>7, <2>8, <2>9 DEF SubmitNext, ServiceNext
<1>2. TruthInv /\ [SubmitNext]_submitVars => [Advance]_submitVars
  BY <1>1
<1> QED
  BY <1>2, SubmitInvariant, PTL DEF SubmitSpec, RequestAdvances
=============================================================================
