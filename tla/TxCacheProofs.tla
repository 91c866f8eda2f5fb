--------------------------- MODULE TxCacheProofs ---------------------------
(***************************************************************************)
(* Proofs about TxCache, for every number of workers, signatures and       *)
(* shards, every hash function and every cache_tx_size.                    *)
(***************************************************************************)
EXTENDS TxCache, FiniteSetTheorems, WellFoundedInduction, TLAPS

-----------------------------------------------------------------------------
(***************************************************************************)
(* Type correctness of the cache: in particular the clock never runs       *)
(* behind an entry, and a worker about to evict has a victim.              *)
(***************************************************************************)
LEMMA InitTypeOK == Init => TypeOK
  BY ShardAssumption, NoneAssumption DEF Init, TypeOK, Phases

LEMMA NextTypeOK == TypeOK /\ [Next]_cacheVars => TypeOK'
<1> SUFFICES ASSUME TypeOK, [Next]_cacheVars PROVE TypeOK'
  OBVIOUS
<1> USE ShardAssumption, NoneAssumption
<1>1. ASSUME NEW w \in Workers, NEW k \in Sigs, Begin(w, k) PROVE TypeOK'
  BY <1>1 DEF TypeOK, Begin, Phases
<1>2. ASSUME NEW w \in Workers, CountShard(w) PROVE TypeOK'
  <2> DEFINE counted == seen[w] \cup InShard(shard[w])
             last == shard[w] = NumShards
  <2>1. counted \in SUBSET Sigs
    BY DEF TypeOK, InShard
  <2>2. shard' \in [Workers -> 1..NumShards]
    BY <1>2 DEF TypeOK, CountShard
  <2>3. seen' \in [Workers -> SUBSET Sigs]
    BY <1>2, <2>1 DEF TypeOK, CountShard
  <2>4. /\ pc' \in [Workers -> Phases]
        /\ pc'[w] \in {"count", "find", "insert"}
        /\ \A v \in Workers : v # w => pc'[v] = pc[v]
    BY <1>2 DEF TypeOK, CountShard, AfterCount, Phases
  <2> QED
    BY <1>2, <2>2, <2>3, <2>4 DEF TypeOK, CountShard
<1>3. ASSUME NEW w \in Workers, FindShard(w) PROVE TypeOK'
  <2>1. /\ victim' \in [Workers -> Sigs \cup {None}]
        /\ age' \in [Workers -> Nat]
        /\ \A v \in Workers : v # w => victim'[v] = victim[v]
    <3>1. \A k \in Candidates(shard[w]) : k \in Sigs /\ Elapsed(k) \in Nat
      BY DEF TypeOK, Candidates, InShard, Elapsed
    <3>2. CASE UNCHANGED <<victim, age>>
      BY <3>2 DEF TypeOK
    <3>3. CASE \E k \in Candidates(shard[w]) :
                 /\ victim' = [victim EXCEPT ![w] = k]
                 /\ age' = [age EXCEPT ![w] = Elapsed(k)]
      BY <3>1, <3>3 DEF TypeOK
    <3> QED
      BY <1>3, <3>2, <3>3 DEF FindShard
  <2>2. /\ shard' \in [Workers -> 1..NumShards]
        /\ pc' \in [Workers -> Phases]
        /\ pc[w] = "find"
        /\ pc'[w] \in {"find", "insert", "remove"}
        /\ pc'[w] = "remove" => victim'[w] # None
        /\ \A v \in Workers : v # w => pc'[v] = pc[v]
    BY <1>3 DEF FindShard, AfterFind, TypeOK, Phases
  <2> QED
    BY <1>3, <2>1, <2>2 DEF FindShard, TypeOK
<1>4. ASSUME NEW w \in Workers, Remove(w) PROVE TypeOK'
  <2>1. victim[w] \in Sigs
    BY <1>4 DEF Remove, TypeOK
  <2> QED
    BY <1>4, <2>1 DEF Remove, TypeOK, Phases
<1>5. ASSUME NEW w \in Workers, Insert(w) PROVE TypeOK'
  <2>1. key[w] \in Sigs
    BY <1>5 DEF Insert, TypeOK
  <2> QED
    BY <1>5, <2>1 DEF Insert, TypeOK, Phases
<1>6. CASE Tick
  BY <1>6 DEF Tick, TypeOK
<1>7. CASE Restart
  BY <1>7 DEF Restart, TypeOK, Phases
<1>8. CASE UNCHANGED cacheVars
  BY <1>8 DEF cacheVars, TypeOK
<1> QED
  BY <1>1, <1>2, <1>3, <1>4, <1>5, <1>6, <1>7, <1>8 DEF Next

THEOREM CacheTypeCorrect == Safety => []TypeOK
  BY InitTypeOK, NextTypeOK, PTL DEF Safety

-----------------------------------------------------------------------------
(***************************************************************************)
(* LimitPlusOverlaps is not inductive: an insertion adds an entry, and     *)
(* only the scans before it tell whether a removal paid for it.            *)
(*                                                                         *)
(* Call a burst a period in which some worker is active.  Every active     *)
(* worker still owes at most one entry, so present + Active is what the    *)
(* cache may grow to.  The bound holds with that sum (Slack) unless a      *)
(* burst has started on a full cache; then the sum exceeds the bound by    *)
(* the one insertion that opened the burst (Tight).  As long as nothing    *)
(* has been removed in a tight burst, every scan sees every entry, so      *)
(* every worker finds the cache full and has a victim that is present: the *)
(* first step that changes the cache removes an entry and restores Slack.  *)
(***************************************************************************)
Slack == Cardinality(present) + Cardinality(Active) <= Limit + overlaps

Passed(w) == {k \in present : ShardOf[k] < shard[w]}

ScanExact(w) ==
  /\ pc[w] \in {"count", "find", "remove"}
  /\ pc[w] = "count" => Passed(w) \subseteq seen[w]
  /\ pc[w] = "find" => /\ victim[w] \in present \cup {None}
                       /\ Passed(w) # {} => victim[w] # None
  /\ pc[w] = "remove" => victim[w] \in present

Tight ==
  /\ Active # {}
  /\ Limit <= Cardinality(present)
  /\ Cardinality(present) + Cardinality(Active) <= Limit + overlaps + 1
  /\ \A w \in Active : ScanExact(w)

\* What each worker leaves behind, and what it starts the next scan with.
CleanScan ==
  \A w \in Workers :
    /\ IsFiniteSet(seen[w])
    /\ pc[w] \notin {"count", "find"} => shard[w] = 1
    /\ pc[w] # "count" => seen[w] = {}
    /\ pc[w] \notin {"find", "remove"} => victim[w] = None

LimitInv ==
  /\ TypeOK
  /\ CleanScan
  /\ IsFiniteSet(present)
  /\ Slack \/ Tight

-----------------------------------------------------------------------------
\* A shard that has entries has a candidate: min_by_key finds one.
LEMMA LeastNat ==
  ASSUME NEW T \in SUBSET Nat, T # {}
  PROVE  \E x \in T : \A y \in T : x <= y
<1> DEFINE R == {ss \in Nat \X Nat : ss[1] < ss[2]}
<1>1. IsWellFoundedOn(R, Nat)
  BY NatLessThanWellFounded DEF OpToRel
<1>2. \A x, y \in Nat : ~ (<<y, x>> \in R) => x <= y
  OBVIOUS
<1> HIDE DEF R
<1>3. \E x \in T : \A y \in T : ~ (<<y, x>> \in R)
  BY <1>1, WFMin
<1> QED
  BY <1>2, <1>3

LEMMA CandidateExists ==
  ASSUME TypeOK, NEW i, InShard(i) # {}
  PROVE  Candidates(i) # {}
<1> DEFINE T == {Elapsed(k) : k \in InShard(i)}
<1>1. T \in SUBSET Nat /\ T # {}
  BY DEF TypeOK, Elapsed, InShard
<1>2. PICK x \in T : \A y \in T : x <= y
  <2> HIDE DEF T
  <2> QED
    BY <1>1, LeastNat
<1> QED
  BY <1>2 DEF Candidates

\* The numbers the bound is about are naturals.
LEMMA Numbers ==
  ASSUME TypeOK, IsFiniteSet(present)
  PROVE  /\ Limit \in Nat \ {0}
         /\ CacheTxSize <= Limit
         /\ overlaps \in Nat
         /\ Cardinality(present) \in Nat
         /\ IsFiniteSet(Active)
         /\ Cardinality(Active) \in Nat
         /\ Active = {} <=> Cardinality(Active) = 0
<1>1. IsFiniteSet(Active)
  BY WorkersAssumption, FS_Subset DEF Active
<1> QED
  BY <1>1, FS_CardinalityType, FS_EmptySet, CacheTxSizeAssumption DEF Limit, TypeOK

LEMMA InitLimitInv == Init => LimitInv
<1> SUFFICES ASSUME Init PROVE LimitInv
  OBVIOUS
<1>1. TypeOK
  BY InitTypeOK
<1>2. Active = {}
  BY DEF Init, Active
<1>3. CleanScan /\ IsFiniteSet(present)
  BY FS_EmptySet DEF Init, CleanScan
<1>4. Slack
  BY <1>1, <1>2, <1>3, Numbers, FS_EmptySet DEF Init, Slack
<1> QED
  BY <1>1, <1>3, <1>4 DEF LimitInv

-----------------------------------------------------------------------------
\* Opening a burst, or joining one.
LEMMA BeginLimitInv ==
  ASSUME LimitInv, NEW w \in Workers, NEW k \in Sigs, Begin(w, k), TypeOK'
  PROVE  LimitInv'
<1> USE DEF LimitInv
<1>1. /\ pc[w] = "idle"
      /\ pc' = [pc EXCEPT ![w] = "count"]
      /\ UNCHANGED <<present, shard, seen, victim>>
      /\ pc \in [Workers -> Phases]
  BY DEF Begin, TypeOK
<1>2. CleanScan' /\ IsFiniteSet(present')
  BY <1>1 DEF CleanScan, TypeOK
<1>3. Active' = Active \cup {w} /\ w \notin Active
  BY <1>1 DEF Active
<1>4. Cardinality(Active') = Cardinality(Active) + 1
  BY <1>3, Numbers, FS_AddElement
<1>5. CASE Active # {}
  <2>1. overlaps' = overlaps + 1
    BY <1>5 DEF Begin
  <2>2. CASE Slack
    BY <1>1, <1>2, <1>4, <2>1, <2>2, Numbers DEF Slack, Limit
  <2>3. CASE Tight
    <3>1. \A v \in Active' : ScanExact(v)'
      <4>1. ScanExact(w)'
        BY <1>1, ShardAssumption DEF ScanExact, Passed, CleanScan, TypeOK
      <4>2. ASSUME NEW v \in Active PROVE ScanExact(v)'
        <5>1. ScanExact(v) /\ v # w /\ v \in Workers /\ pc'[v] = pc[v]
          BY <2>3, <1>1, <1>3 DEF Tight, Active
        <5> QED
          BY <5>1, <1>1 DEF ScanExact, Passed
      <4> QED
        BY <4>1, <4>2, <1>3
    <3> QED
      BY <3>1, <1>1, <1>2, <1>3, <1>4, <2>1, <2>3, Numbers DEF Tight, Limit
  <2> QED
    BY <2>2, <2>3, <1>2
<1>6. CASE Active = {}
  <2>1. overlaps' = overlaps /\ Slack
    BY <1>6 DEF Begin, Tight
  <2>2. CASE Cardinality(present) < Limit + overlaps
    BY <1>1, <1>2, <1>4, <1>6, <2>1, <2>2, Numbers DEF Slack, Limit
  <2>3. CASE Cardinality(present) >= Limit + overlaps
    <3>1. Active' = {w}
      BY <1>3, <1>6
    <3>2. ScanExact(w)'
      BY <1>1, ShardAssumption DEF ScanExact, Passed, CleanScan, TypeOK
    <3> QED
      BY <3>1, <3>2, <1>1, <1>2, <1>4, <1>6, <2>1, <2>3, Numbers DEF Tight, Limit, Slack
  <2> QED
    BY <2>2, <2>3, <1>2, Numbers
<1> QED
  BY <1>5, <1>6

\* A count that ends on a full cache has seen it full.
LEMMA CountLimitInv ==
  ASSUME LimitInv, NEW w \in Workers, CountShard(w), TypeOK'
  PROVE  LimitInv'
<1> USE DEF LimitInv
<1> DEFINE counted == seen[w] \cup InShard(shard[w])
           last == shard[w] = NumShards
<1>1. /\ pc[w] = "count"
      /\ pc' = [pc EXCEPT ![w] = IF last THEN AfterCount(counted) ELSE "count"]
      /\ shard' = [shard EXCEPT ![w] = IF last THEN 1 ELSE shard[w] + 1]
      /\ seen' = [seen EXCEPT ![w] = IF last THEN {} ELSE counted]
      /\ UNCHANGED <<present, victim, overlaps>>
      /\ pc \in [Workers -> Phases]
      /\ shard \in [Workers -> 1..NumShards]
      /\ seen \in [Workers -> SUBSET Sigs]
      /\ present \subseteq Sigs
  BY DEF CountShard, TypeOK
<1>2. IsFiniteSet(counted) /\ IsFiniteSet({})
  <2>1. IsFiniteSet(InShard(shard[w])) /\ IsFiniteSet(seen[w])
    BY FS_Subset DEF InShard, CleanScan
  <2> QED
    BY <2>1, FS_Union, FS_EmptySet
<1> HIDE DEF counted
<1>3. CleanScan'
  BY <1>1, <1>2 DEF CleanScan, AfterCount
<1>4. Active' = Active /\ w \in Active
  BY <1>1 DEF Active, AfterCount
<1>5. CASE Slack
  BY <1>1, <1>3, <1>4, <1>5 DEF Slack, Limit
<1>6. CASE Tight
  <2>1. Passed(w) \cup InShard(shard[w]) \subseteq counted
    BY <1>1, <1>4, <1>6 DEF Tight, ScanExact, counted
  <2>2. CASE ~last
    <3>1. Passed(w)' \subseteq counted
      BY <1>1, <2>1, <2>2, ShardAssumption DEF Passed, InShard
    <3> QED
      BY <1>1, <1>3, <1>4, <1>6, <2>2, <3>1 DEF Tight, ScanExact, Passed, Active, Limit
  <2>3. CASE last
    <3>1. present \subseteq counted
      BY <1>1, <2>1, <2>3, ShardAssumption DEF Passed, InShard
    <3>2. Cardinality(counted) >= CacheTxSize
      <4>1. Cardinality(present) <= Cardinality(counted)
        BY <3>1, <1>2, FS_Subset
      <4> QED
        BY <4>1, <1>2, <1>6, Numbers, CacheTxSizeAssumption, FS_CardinalityType DEF Tight
    <3>3. pc'[w] = "find" /\ shard'[w] = 1
      BY <1>1, <2>3, <3>2 DEF AfterCount
    <3>4. victim'[w] = None /\ Passed(w)' = {}
      BY <1>1, <3>3, ShardAssumption DEF CleanScan, Passed
    <3>5. ScanExact(w)'
      BY <3>3, <3>4 DEF ScanExact
    <3>6. ASSUME NEW v \in Active, v # w PROVE ScanExact(v)'
      BY <1>1, <1>6, <3>6 DEF Tight, ScanExact, Passed, Active
    <3> QED
      BY <1>1, <1>3, <1>4, <1>6, <3>5, <3>6 DEF Tight, Limit
  <2> QED
    BY <2>2, <2>3
<1> QED
  BY <1>5, <1>6

\* A search over a cache nobody has removed from ends with a victim in it.
LEMMA FindLimitInv ==
  ASSUME LimitInv, NEW w \in Workers, FindShard(w), TypeOK'
  PROVE  LimitInv'
<1> USE DEF LimitInv
<1> DEFINE here == InShard(shard[w])
           last == shard[w] = NumShards
<1>1. /\ pc[w] = "find"
      /\ UNCHANGED <<present, stamp, seen, overlaps>>
      /\ shard' = [shard EXCEPT ![w] = IF last THEN 1 ELSE shard[w] + 1]
      /\ pc' = [pc EXCEPT ![w] = IF ~last THEN "find"
                                 ELSE IF victim'[w] = None THEN "insert" ELSE "remove"]
      /\ pc \in [Workers -> Phases]
      /\ shard \in [Workers -> 1..NumShards]
      /\ present \subseteq Sigs
  BY DEF FindShard, AfterFind, TypeOK
<1>2. /\ \A v \in Workers : v # w => victim'[v] = victim[v]
      /\ victim'[w] \in here \cup {victim[w]}
      /\ victim[w] # None => victim'[w] # None
      /\ here # {} => victim'[w] # None
  <2>1. \A k \in Candidates(shard[w]) : k \in here /\ k # None
    BY NoneAssumption, <1>1 DEF Candidates, InShard
  <2>2. here # {} => Candidates(shard[w]) # {}
    BY CandidateExists
  <2>3. victim \in [Workers -> Sigs \cup {None}]
    BY DEF TypeOK
  <2>4. CASE \E k \in Candidates(shard[w]) : victim' = [victim EXCEPT ![w] = k]
    BY <2>1, <2>3, <2>4
  <2>5. CASE UNCHANGED victim /\ \A k \in Candidates(shard[w]) : ~Better(w, k)
    BY <2>2, <2>3, <2>5 DEF Better
  <2> QED
    BY <2>4, <2>5 DEF FindShard
<1>3. CleanScan' /\ IsFiniteSet(present')
  BY <1>1, <1>2 DEF CleanScan
<1>4. Active' = Active /\ w \in Active
  BY <1>1 DEF Active
<1>5. CASE Slack
  BY <1>1, <1>3, <1>4, <1>5 DEF Slack, Limit
<1>6. CASE Tight
  <2>1. /\ victim[w] \in present \cup {None}
        /\ Passed(w) # {} => victim[w] # None
    BY <1>1, <1>4, <1>6 DEF Tight, ScanExact
  <2>2. victim'[w] \in present' \cup {None}
    BY <1>1, <1>2, <2>1 DEF InShard
  <2>3. Passed(w) \cup here # {} => victim'[w] # None
    BY <1>2, <2>1
  <2>4. ScanExact(w)'
    <3>1. CASE ~last
      <4>1. Passed(w)' = Passed(w) \cup here
        BY <1>1, <3>1, ShardAssumption DEF Passed, InShard
      <4> QED
        BY <1>1, <2>2, <2>3, <3>1, <4>1 DEF ScanExact
    <3>2. CASE last
      <4>1. Passed(w) \cup here = present
        BY <1>1, <3>2, ShardAssumption DEF Passed, InShard
      <4>2. present # {}
        BY <1>6, Numbers, FS_EmptySet DEF Tight
      <4> QED
        BY <1>1, <2>2, <2>3, <3>2, <4>1, <4>2 DEF ScanExact
    <3> QED
      BY <3>1, <3>2
  <2>5. ASSUME NEW v \in Active, v # w PROVE ScanExact(v)'
    BY <1>1, <1>2, <1>6, <2>5 DEF Tight, ScanExact, Passed, Active
  <2> QED
    BY <1>1, <1>3, <1>4, <1>6, <2>4, <2>5 DEF Tight, Limit
<1> QED
  BY <1>5, <1>6

\* The first removal of a tight burst finds its victim: slack again.
LEMMA RemoveLimitInv ==
  ASSUME LimitInv, NEW w \in Workers, Remove(w), TypeOK'
  PROVE  LimitInv'
<1> USE DEF LimitInv
<1>1. /\ pc[w] = "remove"
      /\ pc' = [pc EXCEPT ![w] = "insert"]
      /\ present' = present \ {victim[w]}
      /\ victim' = [victim EXCEPT ![w] = None]
      /\ UNCHANGED <<shard, seen, overlaps>>
      /\ pc \in [Workers -> Phases]
      /\ victim \in [Workers -> Sigs \cup {None}]
  BY DEF Remove, TypeOK
<1>2. /\ IsFiniteSet(present')
      /\ Cardinality(present') = IF victim[w] \in present THEN Cardinality(present) - 1
                                 ELSE Cardinality(present)
  BY <1>1, FS_RemoveElement
<1>3. CleanScan'
  BY <1>1 DEF CleanScan
<1>4. Active' = Active /\ w \in Active
  BY <1>1 DEF Active
<1>5. CASE Slack
  BY <1>1, <1>2, <1>3, <1>4, <1>5, Numbers DEF Slack, Limit
<1>6. CASE Tight
  <2>1. victim[w] \in present
    BY <1>1, <1>4, <1>6 DEF Tight, ScanExact
  <2> QED
    BY <1>1, <1>2, <1>3, <1>4, <1>6, <2>1, Numbers DEF Tight, Slack, Limit
<1> QED
  BY <1>5, <1>6

\* Nothing is inserted in a tight burst; with slack the entry was owed.
LEMMA InsertLimitInv ==
  ASSUME LimitInv, NEW w \in Workers, Insert(w), TypeOK'
  PROVE  LimitInv'
<1> USE DEF LimitInv
<1>1. /\ pc[w] = "insert"
      /\ pc' = [pc EXCEPT ![w] = "idle"]
      /\ present' = present \cup {key[w]}
      /\ UNCHANGED <<shard, seen, victim, overlaps>>
      /\ pc \in [Workers -> Phases]
  BY DEF Insert, TypeOK
<1>2. /\ IsFiniteSet(present')
      /\ Cardinality(present') <= Cardinality(present) + 1
      /\ Cardinality(present') \in Nat
  <2>1. /\ IsFiniteSet(present \cup {key[w]})
        /\ Cardinality(present \cup {key[w]}) =
             IF key[w] \in present THEN Cardinality(present) ELSE Cardinality(present) + 1
    BY FS_AddElement
  <2> QED
    BY <1>1, <2>1, Numbers
<1>3. CleanScan'
  BY <1>1 DEF CleanScan
<1>4. Active' = Active \ {w} /\ w \in Active
  BY <1>1 DEF Active
<1>5. Cardinality(Active') = Cardinality(Active) - 1
  BY <1>4, Numbers, FS_RemoveElement
<1>6. Slack
  BY <1>1, <1>4 DEF Tight, ScanExact
<1> QED
  BY <1>1, <1>2, <1>3, <1>5, <1>6, Numbers DEF Slack, Limit

LEMMA NextLimitInv == LimitInv /\ [Next]_cacheVars => LimitInv'
<1> SUFFICES ASSUME LimitInv, [Next]_cacheVars PROVE LimitInv'
  OBVIOUS
<1>1. TypeOK'
  BY NextTypeOK DEF LimitInv
<1>2. ASSUME NEW w \in Workers, NEW k \in Sigs, Begin(w, k) PROVE LimitInv'
  BY <1>1, <1>2, BeginLimitInv
<1>3. ASSUME NEW w \in Workers, CountShard(w) PROVE LimitInv'
  BY <1>1, <1>3, CountLimitInv
<1>4. ASSUME NEW w \in Workers, FindShard(w) PROVE LimitInv'
  BY <1>1, <1>4, FindLimitInv
<1>5. ASSUME NEW w \in Workers, Remove(w) PROVE LimitInv'
  BY <1>1, <1>5, RemoveLimitInv
<1>6. ASSUME NEW w \in Workers, Insert(w) PROVE LimitInv'
  BY <1>1, <1>6, InsertLimitInv
<1>7. CASE Restart
  <2>1. present' = {} /\ Active' = {} /\ overlaps' = 0
    BY <1>7 DEF Restart, Active
  <2>2. CleanScan'
    BY <1>7, FS_EmptySet DEF Restart, CleanScan
  <2>3. Slack'
    BY <2>1, FS_EmptySet, CacheTxSizeAssumption DEF Slack, Limit
  <2> QED
    BY <1>1, <2>1, <2>2, <2>3, FS_EmptySet DEF LimitInv
<1>8. CASE Tick \/ UNCHANGED cacheVars
  <2>1. UNCHANGED <<present, pc, shard, seen, victim, overlaps>>
    BY <1>8 DEF Tick, cacheVars
  <2> QED
    BY <1>1, <2>1 DEF LimitInv, CleanScan, Slack, Tight, Active, ScanExact, Passed, Limit
<1> QED
  BY <1>2, <1>3, <1>4, <1>5, <1>6, <1>7, <1>8 DEF Next

LEMMA LimitInvBound == LimitInv => LimitPlusOverlaps
  BY Numbers DEF LimitInv, Slack, Tight, LimitPlusOverlaps

LEMMA LimitInvBoundNext == LimitInv' => LimitPlusOverlaps'
  BY LimitInvBound, PTL

(***************************************************************************)
(* The cache never holds more than its limit and one entry for every       *)
(* insertion that overlapped another: however many tasks there are, how-   *)
(* ever the keys are spread over the shards, and whatever a scan misses.   *)
(***************************************************************************)
THEOREM CacheBounded == Safety => []LimitPlusOverlaps
<1>1. Safety => []LimitInv
  BY InitLimitInv, NextLimitInv, PTL DEF Safety
<1> QED
  BY <1>1, LimitInvBound, PTL

-----------------------------------------------------------------------------
(***************************************************************************)
(* That nothing is evicted early needs the opposite bound.  A count is no  *)
(* snapshot: what it has met may be gone when it ends (Gone).  But only an *)
(* insertion that overlaps removes it, one entry at most, so that what is  *)
(* gone and the removals still to come (Undecided) stay within overlaps.   *)
(***************************************************************************)
Undecided == {w \in Workers : pc[w] \in {"count", "find", "remove"}}

Gone(w) == seen[w] \ present

Blurred(w) ==
  /\ pc[w] = "count" => Cardinality(Gone(w)) + Cardinality(Undecided) <= overlaps + 1
  /\ pc[w] \in {"find", "remove"} =>
       CacheTxSize + Cardinality(Undecided) <= Cardinality(present) + overlaps + 1

EarlyInv ==
  /\ Cardinality(Undecided) <= overlaps + 1
  /\ \A w \in Workers : Blurred(w)

LEMMA Undecideds ==
  ASSUME LimitInv
  PROVE  /\ IsFiniteSet(Undecided)
         /\ Cardinality(Undecided) \in Nat
         /\ \A w \in Workers : IsFiniteSet(Gone(w)) /\ Cardinality(Gone(w)) \in Nat
         /\ IsFiniteSet(present) /\ Cardinality(present) \in Nat
         /\ overlaps \in Nat /\ CacheTxSize \in Nat
<1>1. IsFiniteSet(Undecided)
  BY WorkersAssumption, FS_Subset DEF Undecided
<1>2. \A w \in Workers : IsFiniteSet(Gone(w))
  BY FS_Subset DEF Gone, LimitInv, CleanScan
<1> QED
  BY <1>1, <1>2, FS_CardinalityType, CacheTxSizeAssumption DEF LimitInv, TypeOK

\* The numbers after a step, and what a step leaves as it was.
LEMMA UndecidedsNext ==
  ASSUME LimitInv'
  PROVE  /\ IsFiniteSet(Undecided')
         /\ Cardinality(Undecided') \in Nat
         /\ \A w \in Workers : IsFiniteSet(Gone(w)') /\ Cardinality(Gone(w)') \in Nat
         /\ IsFiniteSet(present') /\ Cardinality(present') \in Nat
<1>1. IsFiniteSet(Undecided')
  BY WorkersAssumption, FS_Subset DEF Undecided
<1>2. \A w \in Workers : IsFiniteSet(Gone(w)')
  BY FS_Subset DEF Gone, LimitInv, CleanScan
<1> QED
  BY <1>1, <1>2, FS_CardinalityType DEF LimitInv

\* A step that removes nothing, and brings no new removal, leaves the others'
\* bounds as they were.
LEMMA OthersBlurred ==
  ASSUME LimitInv, LimitInv', EarlyInv, NEW v \in Workers,
         pc'[v] = pc[v], seen'[v] = seen[v], present \subseteq present',
         overlaps \in Nat, overlaps' \in Nat,
         Cardinality(Undecided') - overlaps' <= Cardinality(Undecided) - overlaps
  PROVE  Blurred(v)'
<1>1. Cardinality(Gone(v)') <= Cardinality(Gone(v))
  <2>1. Gone(v)' \subseteq Gone(v)
    BY DEF Gone
  <2> QED
    BY <2>1, Undecideds, FS_Subset
<1>2. Cardinality(present) <= Cardinality(present')
  BY FS_Subset DEF LimitInv
<1>3. Blurred(v)
  BY DEF EarlyInv
<1> QED
  BY <1>1, <1>2, <1>3, Undecideds, UndecidedsNext DEF Blurred

LEMMA BeginEarlyInv ==
  ASSUME LimitInv, LimitInv', EarlyInv, NEW w \in Workers, NEW k \in Sigs, Begin(w, k)
  PROVE  EarlyInv'
<1>1. /\ pc' = [pc EXCEPT ![w] = "count"] /\ pc[w] = "idle"
      /\ UNCHANGED <<present, seen>>
      /\ pc \in [Workers -> Phases]
  BY DEF Begin, LimitInv, TypeOK
<1>2. Undecided' = Undecided \cup {w} /\ w \notin Undecided
  BY <1>1 DEF Undecided
<1>3. Cardinality(Undecided') = Cardinality(Undecided) + 1
  BY <1>2, Undecideds, FS_AddElement
<1>4. /\ overlaps' \in Nat /\ overlaps \in Nat
      /\ Cardinality(Undecided') <= overlaps' + 1
  <2>1. CASE Active = {}
    <3>1. Undecided = {}
      BY <2>1 DEF Active, Undecided
    <3>2. Cardinality(Undecided) = 0
      BY <3>1, FS_EmptySet
    <3> QED
      BY <1>3, <2>1, <3>2, Undecideds DEF Begin
  <2>2. CASE Active # {}
    BY <1>3, <2>2, Undecideds DEF Begin, EarlyInv
  <2> QED
    BY <2>1, <2>2
<1>5. Blurred(w)'
  <2>1. Gone(w)' = {}
    BY <1>1 DEF Gone, LimitInv, CleanScan
  <2>2. Cardinality(Gone(w)') = 0
    BY <2>1, FS_EmptySet
  <2>3. pc'[w] = "count"
    BY <1>1
  <2> QED
    BY <1>4, <2>2, <2>3, UndecidedsNext DEF Blurred
<1>6. ASSUME NEW v \in Workers, v # w PROVE Blurred(v)'
  <2>1. CASE Active = {}
    BY <1>1, <1>6, <2>1 DEF Blurred, Active
  <2>2. CASE Active # {}
    <3>1. Cardinality(Undecided') - overlaps' <= Cardinality(Undecided) - overlaps
      BY <1>3, <2>2, Undecideds DEF Begin
    <3> QED
      BY <1>1, <1>4, <1>6, <3>1, OthersBlurred
  <2> QED
    BY <2>1, <2>2
<1> QED
  BY <1>4, <1>5, <1>6 DEF EarlyInv

\* What was counted is there or gone.
LEMMA CountEarlyInv ==
  ASSUME LimitInv, LimitInv', EarlyInv, NEW w \in Workers, CountShard(w)
  PROVE  EarlyInv'
<1> DEFINE counted == seen[w] \cup InShard(shard[w])
           last == shard[w] = NumShards
<1>1. /\ pc[w] = "count"
      /\ pc' = [pc EXCEPT ![w] = IF last THEN AfterCount(counted) ELSE "count"]
      /\ seen' = [seen EXCEPT ![w] = IF last THEN {} ELSE counted]
      /\ UNCHANGED <<present, overlaps>>
      /\ pc \in [Workers -> Phases]
      /\ seen \in [Workers -> SUBSET Sigs]
      /\ w \in Undecided
  BY DEF CountShard, LimitInv, TypeOK, Undecided
<1>2. Undecided' \subseteq Undecided
  BY <1>1 DEF Undecided
<1>3. Cardinality(Undecided') <= Cardinality(Undecided)
  BY <1>2, Undecideds, FS_Subset
<1>4. Cardinality(Gone(w)) + Cardinality(Undecided) <= overlaps + 1
  BY <1>1 DEF EarlyInv, Blurred
<1>5. counted \ present = Gone(w)
  BY DEF Gone, InShard
<1> HIDE DEF counted
<1>6. Blurred(w)'
  <2>1. CASE ~last
    <3>1. pc'[w] = "count" /\ Gone(w)' = Gone(w)
      BY <1>1, <1>5, <2>1 DEF Gone
    <3> QED
      BY <1>1, <1>3, <1>4, <3>1, Undecideds, UndecidedsNext DEF Blurred
  <2>2. CASE last /\ AfterCount(counted) = "insert"
    BY <1>1, <2>2 DEF Blurred
  <2>3. CASE last /\ AfterCount(counted) = "find"
    <3>1. IsFiniteSet(counted) /\ Cardinality(counted) \in Nat
      <4>1. IsFiniteSet(seen[w]) /\ IsFiniteSet(InShard(shard[w]))
        BY FS_Subset DEF LimitInv, CleanScan, InShard
      <4> QED
        BY <4>1, FS_Union, FS_CardinalityType DEF counted
    <3>2. CacheTxSize <= Cardinality(counted)
      BY <2>3, <3>1, Undecideds DEF AfterCount
    <3>3. Cardinality(counted) <= Cardinality(present) + Cardinality(Gone(w))
      <4>1. /\ IsFiniteSet(present \cup Gone(w))
            /\ Cardinality(present \cup Gone(w)) = Cardinality(present) + Cardinality(Gone(w))
                                                   - Cardinality(present \cap Gone(w))
        BY Undecideds, FS_Union
      <4>2. present \cap Gone(w) = {} /\ counted \subseteq present \cup Gone(w)
        BY <1>5 DEF Gone
      <4>3. Cardinality(present \cap Gone(w)) = 0
        BY <4>2, FS_EmptySet
      <4>4. Cardinality(counted) <= Cardinality(present \cup Gone(w))
        BY <4>1, <4>2, FS_Subset
      <4> QED
        BY <4>1, <4>3, <4>4, Undecideds
    <3>4. pc'[w] = "find"
      BY <1>1, <2>3
    <3> QED
      BY <1>1, <1>3, <1>4, <3>1, <3>2, <3>3, <3>4, Undecideds, UndecidedsNext DEF Blurred
  <2> QED
    BY <2>1, <2>2, <2>3 DEF AfterCount
<1>7. ASSUME NEW v \in Workers, v # w PROVE Blurred(v)'
  BY <1>1, <1>3, <1>7, Undecideds, UndecidedsNext, OthersBlurred
<1> QED
  BY <1>1, <1>3, <1>6, <1>7, Undecideds, UndecidedsNext DEF EarlyInv

\* A removal takes an entry, and a removal that was to come.
LEMMA RemoveEarlyInv ==
  ASSUME LimitInv, LimitInv', EarlyInv, NEW w \in Workers, Remove(w)
  PROVE  EarlyInv'
<1>1. /\ pc' = [pc EXCEPT ![w] = "insert"] /\ pc[w] = "remove"
      /\ present' = present \ {victim[w]}
      /\ UNCHANGED <<seen, overlaps>>
      /\ pc \in [Workers -> Phases]
  BY DEF Remove, LimitInv, TypeOK
<1>2. Undecided' = Undecided \ {w} /\ w \in Undecided
  BY <1>1 DEF Undecided
<1>3. Cardinality(Undecided') = Cardinality(Undecided) - 1
  BY <1>2, Undecideds, FS_RemoveElement
<1>4. Cardinality(present') >= Cardinality(present) - 1
  <2>1. Cardinality(present \ {victim[w]}) =
          IF victim[w] \in present THEN Cardinality(present) - 1 ELSE Cardinality(present)
    BY Undecideds, FS_RemoveElement
  <2> QED
    BY <1>1, <2>1, Undecideds
<1>5. ASSUME NEW v \in Workers PROVE Blurred(v)'
  <2>1. CASE v = w
    BY <1>1, <2>1 DEF Blurred
  <2>2. CASE v # w
    <3>1. Cardinality(Gone(v)') <= Cardinality(Gone(v)) + 1
      <4>1. Gone(v)' \subseteq Gone(v) \cup {victim[w]}
        BY <1>1 DEF Gone
      <4>2. /\ IsFiniteSet(Gone(v) \cup {victim[w]})
            /\ Cardinality(Gone(v) \cup {victim[w]}) <= Cardinality(Gone(v)) + 1
        <5>1. /\ IsFiniteSet(Gone(v) \cup {victim[w]})
              /\ Cardinality(Gone(v) \cup {victim[w]}) =
                   IF victim[w] \in Gone(v) THEN Cardinality(Gone(v))
                   ELSE Cardinality(Gone(v)) + 1
          BY Undecideds, FS_AddElement
        <5> QED
          BY <5>1, Undecideds
      <4>3. Cardinality(Gone(v)') <= Cardinality(Gone(v) \cup {victim[w]})
        BY <4>1, <4>2, FS_Subset
      <4> QED
        BY <4>2, <4>3, Undecideds, UndecidedsNext, FS_CardinalityType
    <3>2. pc'[v] = pc[v] /\ Blurred(v)
      BY <1>1, <2>2 DEF EarlyInv
    <3> QED
      BY <1>1, <1>3, <1>4, <3>1, <3>2, Undecideds, UndecidedsNext DEF Blurred
  <2> QED
    BY <2>1, <2>2
<1> QED
  BY <1>1, <1>3, <1>5, Undecideds, UndecidedsNext DEF EarlyInv

LEMMA NextEarlyInv ==
  ASSUME LimitInv, LimitInv', EarlyInv, [Next]_cacheVars
  PROVE  EarlyInv'
<1>1. ASSUME NEW w \in Workers, NEW k \in Sigs, Begin(w, k) PROVE EarlyInv'
  BY <1>1, BeginEarlyInv
<1>2. ASSUME NEW w \in Workers, CountShard(w) PROVE EarlyInv'
  BY <1>2, CountEarlyInv
<1>3. ASSUME NEW w \in Workers, FindShard(w) PROVE EarlyInv'
  <2>1. /\ pc[w] = "find" /\ pc'[w] \in {"find", "remove", "insert"}
        /\ \A v \in Workers \ {w} : pc'[v] = pc[v]
        /\ UNCHANGED <<present, seen, overlaps>>
    BY <1>3 DEF FindShard, AfterFind, LimitInv, TypeOK
  <2>2. Undecided' \subseteq Undecided
    BY <2>1 DEF Undecided
  <2>3. Cardinality(Undecided') <= Cardinality(Undecided)
    BY <2>2, Undecideds, FS_Subset
  <2>4. Blurred(w)'
    BY <2>1, <2>3, Undecideds, UndecidedsNext DEF Blurred, EarlyInv
  <2>5. ASSUME NEW v \in Workers, v # w PROVE Blurred(v)'
    BY <2>1, <2>3, <2>5, Undecideds, UndecidedsNext, OthersBlurred
  <2> QED
    BY <2>1, <2>3, <2>4, <2>5, Undecideds, UndecidedsNext DEF EarlyInv
<1>4. ASSUME NEW w \in Workers, Remove(w) PROVE EarlyInv'
  BY <1>4, RemoveEarlyInv
<1>5. ASSUME NEW w \in Workers, Insert(w) PROVE EarlyInv'
  <2>1. /\ pc' = [pc EXCEPT ![w] = "idle"] /\ pc[w] = "insert"
        /\ present' = present \cup {key[w]}
        /\ UNCHANGED <<seen, overlaps>>
        /\ pc \in [Workers -> Phases]
    BY <1>5 DEF Insert, LimitInv, TypeOK
  <2>2. Undecided' = Undecided
    BY <2>1 DEF Undecided
  <2>3. Blurred(w)'
    BY <2>1 DEF Blurred
  <2>4. ASSUME NEW v \in Workers, v # w PROVE Blurred(v)'
    BY <2>1, <2>2, <2>4, Undecideds, OthersBlurred
  <2> QED
    BY <2>1, <2>2, <2>3, <2>4 DEF EarlyInv
<1>6. CASE Restart
  <2>1. Undecided' = {} /\ overlaps' = 0
    BY <1>6 DEF Restart, Undecided
  <2>2. Cardinality(Undecided') = 0
    BY <2>1, FS_EmptySet
  <2> QED
    BY <1>6, <2>1, <2>2 DEF EarlyInv, Blurred, Restart
<1>7. CASE Tick \/ UNCHANGED cacheVars
  BY <1>7 DEF Tick, cacheVars, EarlyInv, Blurred, Undecided, Gone
<1> QED
  BY <1>1, <1>2, <1>3, <1>4, <1>5, <1>6, <1>7 DEF Next

LEMMA InitEarlyInv == Init => EarlyInv
<1> SUFFICES ASSUME Init PROVE EarlyInv
  OBVIOUS
<1>1. Undecided = {} /\ overlaps = 0
  BY DEF Init, Undecided
<1>2. Cardinality(Undecided) = 0
  BY <1>1, FS_EmptySet
<1> QED
  BY <1>1, <1>2 DEF EarlyInv, Blurred, Init

-----------------------------------------------------------------------------
\* The refinement mapping of module TxCache, step by step.
MemoryStep == [Memory!MemNext]_(Memory!memVars)

\* Both modules extend FiniteSets.
LEMMA SameCardinality == \A X : Memory!Cardinality(X) = Cardinality(X)
  BY DEF Memory!Cardinality, Cardinality

LEMMA RefinesInit == Init => Memory!MemInit
  BY DEF Init, Memory!MemInit

LEMMA RefinesStep ==
  ASSUME LimitInv, LimitInv', EarlyInv, [Next]_cacheVars
  PROVE  MemoryStep
<1> DEFINE inserting == [w \in Workers |-> pc[w] = "insert"]
<1> USE DEF MemoryStep
<1>1. Memory!Asking = Active
  BY DEF Memory!Asking, Active, LimitInv, TypeOK
<1>2. ASSUME NEW w \in Workers, NEW k \in Sigs, Begin(w, k) PROVE MemoryStep
  <2>1. inserting' = inserting
    BY <1>2 DEF Begin, LimitInv, TypeOK
  <2>2. Memory!Ask(w, k)
    BY <1>1, <1>2, <2>1 DEF Begin, Memory!Ask, LimitInv, TypeOK
  <2> QED
    BY <2>2 DEF Memory!MemNext
<1>3. ASSUME NEW w \in Workers, CountShard(w) \/ FindShard(w) PROVE MemoryStep
  <2>1. /\ UNCHANGED <<present, key, overlaps>>
        /\ pc[w] \in {"count", "find"}
        /\ pc'[w] \in {"count", "find", "remove", "insert"}
        /\ \A v \in Workers \ {w} : pc'[v] = pc[v]
    BY <1>3 DEF CountShard, FindShard, AfterCount, AfterFind, LimitInv, TypeOK
  <2>2. CASE pc'[w] # "insert"
    <3>1. inserting' = inserting
      BY <2>1, <2>2
    <3> QED
      BY <2>1, <3>1 DEF Memory!memVars
  <2>3. CASE pc'[w] = "insert"
    <3>1. inserting' = [inserting EXCEPT ![w] = TRUE]
      BY <2>1, <2>3
    <3>2. Memory!MakeRoom(w)
      BY <2>1, <3>1 DEF Memory!MakeRoom, LimitInv, TypeOK
    <3> QED
      BY <3>2 DEF Memory!MemNext
  <2> QED
    BY <2>2, <2>3
<1>4. ASSUME NEW w \in Workers, Remove(w) PROVE MemoryStep
  <2>1. /\ pc' = [pc EXCEPT ![w] = "insert"] /\ pc[w] = "remove"
        /\ present' = present \ {victim[w]}
        /\ UNCHANGED <<key, overlaps>>
        /\ pc \in [Workers -> Phases]
        /\ key[w] # None
    BY <1>4 DEF Remove, LimitInv, TypeOK
  <2>2. inserting' = [inserting EXCEPT ![w] = TRUE]
    BY <2>1
  <2>3. CacheTxSize <= Cardinality(present) + overlaps
    <3>1. Cardinality(Undecided) >= 1
      <4>1. w \in Undecided
        BY <2>1 DEF Undecided
      <4> QED
        BY <4>1, Undecideds, FS_EmptySet
    <3>2. Blurred(w)
      BY DEF EarlyInv
    <3> QED
      BY <2>1, <3>1, <3>2, Undecideds DEF Blurred
  <2>4. Memory!MakeRoom(w)
    <3>1. CASE victim[w] \in present
      BY <2>1, <2>2, <2>3, <3>1, SameCardinality DEF Memory!MakeRoom, Memory!Full
    <3>2. CASE victim[w] \notin present
      BY <2>1, <2>2, <3>2 DEF Memory!MakeRoom
    <3> QED
      BY <3>1, <3>2
  <2> QED
    BY <2>4 DEF Memory!MemNext
<1>5. ASSUME NEW w \in Workers, Insert(w) PROVE MemoryStep
  <2>1. /\ pc' = [pc EXCEPT ![w] = "idle"] /\ pc[w] = "insert"
        /\ present' = present \cup {key[w]}
        /\ key' = [key EXCEPT ![w] = None]
        /\ UNCHANGED overlaps
        /\ pc \in [Workers -> Phases]
    BY <1>5 DEF Insert, LimitInv, TypeOK
  <2>2. inserting' = [inserting EXCEPT ![w] = FALSE]
    BY <2>1
  <2>3. LimitPlusOverlaps'
    BY LimitInvBoundNext
  <2>4. Cardinality(present') <= Memory!Bound
    BY <2>1, <2>3 DEF LimitPlusOverlaps, Limit, Memory!Bound
  <2>5. Memory!Remember(w)
    BY <2>1, <2>2, <2>4, SameCardinality DEF Memory!Remember
  <2> QED
    BY <2>5 DEF Memory!MemNext
<1>6. CASE Restart
  <2>1. Memory!ForgetAll
    BY <1>6 DEF Restart, Memory!ForgetAll
  <2> QED
    BY <2>1 DEF Memory!MemNext
<1>7. CASE Tick \/ UNCHANGED cacheVars
  BY <1>7 DEF Tick, cacheVars, Memory!memVars
<1> QED
  BY <1>2, <1>3, <1>4, <1>5, <1>6, <1>7 DEF Next

(***************************************************************************)
(* cache.rs implements a bounded memory: whatever the tasks, the hash      *)
(* function, the limit and the interleaving, every behaviour of the cache  *)
(* is, seen through its entries, one of BoundedMemory.                     *)
(***************************************************************************)
THEOREM CacheRemembers == Safety => RemembersWithinBounds
<1>1. Init => LimitInv /\ EarlyInv /\ Memory!MemInit
  BY InitLimitInv, InitEarlyInv, RefinesInit
<1>2. LimitInv /\ EarlyInv /\ [Next]_cacheVars => LimitInv' /\ EarlyInv' /\ MemoryStep
  BY NextLimitInv, NextEarlyInv, RefinesStep
<1> QED
  BY <1>1, <1>2, PTL DEF Safety, RemembersWithinBounds, Memory!MemSpec, MemoryStep

-----------------------------------------------------------------------------
(***************************************************************************)
(* For the victim: while no insertion has overlapped another there is one  *)
(* active worker at most, the entries stay as they are under its scan, and *)
(* they only grow older.                                                   *)
(***************************************************************************)
Alone == \A v, w \in Workers : pc[v] # "idle" /\ pc[w] # "idle" => v = w

Youngest(w) ==
  /\ pc[w] = "find" =>
       \A k \in Passed(w) : victim[w] # None /\ age[w] <= Elapsed(k)
  /\ pc[w] = "remove" => \A k \in present : age[w] <= Elapsed(k)

YoungInv == overlaps = 0 => Alone /\ \A w \in Workers : Youngest(w)

LEMMA FindYoungInv ==
  ASSUME LimitInv, LimitInv', YoungInv, overlaps = 0,
         NEW w \in Workers, FindShard(w)
  PROVE  Youngest(w)'
<1>1. /\ pc[w] = "find"
      /\ UNCHANGED <<present, stamp, now>>
      /\ shard' = [shard EXCEPT ![w] = IF shard[w] = NumShards THEN 1 ELSE shard[w] + 1]
      /\ shard[w] \in 1..NumShards /\ shard \in [Workers -> 1..NumShards]
      /\ victim \in [Workers -> Sigs \cup {None}]
      /\ age \in [Workers -> Nat]
      /\ \A k \in present : Elapsed(k) \in Nat /\ ShardOf[k] \in 1..NumShards
  BY ShardAssumption DEF FindShard, LimitInv, TypeOK, Elapsed
<1>2. \A k \in Passed(w) : victim[w] # None /\ age[w] <= Elapsed(k)
  BY <1>1 DEF YoungInv, Youngest
<1>3. \A k \in Passed(w) \cup InShard(shard[w]) :
        victim'[w] # None /\ age'[w] <= Elapsed(k)
  <2>1. \A i : \A c \in Candidates(i) : c \in present /\ c # None
    BY NoneAssumption DEF Candidates, InShard, LimitInv, TypeOK
  <2>2. CASE \E c \in Candidates(shard[w]) :
               /\ Better(w, c)
               /\ victim' = [victim EXCEPT ![w] = c]
               /\ age' = [age EXCEPT ![w] = Elapsed(c)]
    <3>1. PICK c \in Candidates(shard[w]) :
               /\ Better(w, c)
               /\ victim' = [victim EXCEPT ![w] = c]
               /\ age' = [age EXCEPT ![w] = Elapsed(c)]
      BY <2>2
    <3>2. \A k \in InShard(shard[w]) : Elapsed(c) <= Elapsed(k)
      BY <3>1 DEF Candidates
    <3>3. \A k \in Passed(w) : Elapsed(c) <= Elapsed(k)
      BY <1>1, <1>2, <2>1, <3>1 DEF Better, Passed
    <3> QED
      BY <1>1, <2>1, <3>1, <3>2, <3>3
  <2>3. CASE /\ UNCHANGED <<victim, age>>
             /\ \A c \in Candidates(shard[w]) : ~Better(w, c)
    <3>1. ASSUME NEW k \in InShard(shard[w])
          PROVE  victim[w] # None /\ age[w] <= Elapsed(k)
      <4>1. PICK c \in Candidates(shard[w]) : TRUE
        BY CandidateExists DEF LimitInv
      <4>2. Elapsed(c) <= Elapsed(k) /\ c \in present /\ k \in present
        BY <4>1, <2>1 DEF Candidates, InShard
      <4>3. victim[w] # None /\ ~(Elapsed(c) < age[w])
        BY <2>3, <4>1 DEF Better
      <4> QED
        BY <1>1, <4>2, <4>3
    <3> QED
      BY <1>2, <2>3, <3>1
  <2> QED
    BY <2>2, <2>3 DEF FindShard
<1>4. CASE shard[w] # NumShards
  <2>1. pc'[w] = "find"
    BY <1>1, <1>4 DEF FindShard
  <2>2. Passed(w)' = Passed(w) \cup InShard(shard[w])
    BY <1>1, <1>4 DEF Passed, InShard
  <2> QED
    BY <1>1, <1>3, <2>1, <2>2 DEF Youngest, Elapsed
<1>5. CASE shard[w] = NumShards
  <2>1. Passed(w) \cup InShard(shard[w]) = present
    BY <1>1, <1>5 DEF Passed, InShard
  <2>2. pc'[w] \in {"insert", "remove"}
    BY <1>1, <1>5 DEF FindShard, AfterFind, LimitInv, TypeOK
  <2> QED
    BY <1>1, <1>3, <2>1, <2>2 DEF Youngest, Elapsed
<1> QED
  BY <1>4, <1>5

LEMMA NextYoungInv ==
  ASSUME LimitInv, LimitInv', YoungInv, [Next]_cacheVars
  PROVE  YoungInv'
<1> SUFFICES ASSUME overlaps' = 0 PROVE Alone' /\ \A w \in Workers : Youngest(w)'
  BY DEF YoungInv
<1> USE DEF LimitInv, TypeOK
<1>1. ASSUME NEW w \in Workers, NEW k \in Sigs, Begin(w, k)
      PROVE  Alone' /\ \A v \in Workers : Youngest(v)'
  <2>1. Active = {} /\ overlaps = 0
    BY <1>1 DEF Begin
  <2> QED
    BY <1>1, <2>1 DEF Begin, Active, Alone, Youngest
<1>2. ASSUME NEW w \in Workers, CountShard(w) \/ FindShard(w) \/ Remove(w) \/ Insert(w)
      PROVE  Alone' /\ \A v \in Workers : Youngest(v)'
  <2>1. /\ overlaps = 0
        /\ pc[w] # "idle"
        /\ \A v \in Workers \ {w} : pc'[v] = pc[v]
    BY <1>2 DEF CountShard, FindShard, Remove, Insert, AfterCount, AfterFind
  <2>2. \A v \in Workers \ {w} : pc[v] = "idle"
    BY <2>1 DEF YoungInv, Alone
  <2>3. Alone' /\ \A v \in Workers \ {w} : Youngest(v)'
    BY <2>1, <2>2 DEF Alone, Youngest
  <2>4. Youngest(w)'
    <3>1. CASE CountShard(w)
      <4>1. CASE shard[w] = NumShards
        <5>1. shard'[w] = 1 /\ present' = present /\ pc'[w] # "remove"
          BY <3>1, <4>1 DEF CountShard, AfterCount
        <5>2. Passed(w)' = {}
          BY <5>1, ShardAssumption DEF Passed
        <5> QED
          BY <5>1, <5>2 DEF Youngest
      <4>2. CASE shard[w] # NumShards
        BY <3>1, <4>2 DEF CountShard, Youngest
      <4> QED
        BY <4>1, <4>2
    <3>2. CASE FindShard(w)
      BY <2>1, <3>2, FindYoungInv
    <3>3. CASE Remove(w) \/ Insert(w)
      BY <3>3 DEF Remove, Insert, Youngest
    <3> QED
      BY <1>2, <3>1, <3>2, <3>3
  <2> QED
    BY <2>3, <2>4
<1>3. CASE Tick
  <2>1. /\ UNCHANGED <<present, stamp, pc, shard, victim, age, overlaps>>
        /\ now' = now + 1
    BY <1>3 DEF Tick
  <2>2. \A k \in present : Elapsed(k) \in Nat /\ Elapsed(k)' = Elapsed(k) + 1
    BY <2>1 DEF Elapsed
  <2>3. ASSUME NEW w \in Workers PROVE Youngest(w)'
    BY <2>1, <2>2 DEF YoungInv, Youngest, Passed
  <2> QED
    BY <2>1, <2>3 DEF YoungInv, Alone
<1>4. CASE Restart
  BY <1>4 DEF Restart, Alone, Youngest
<1>5. CASE UNCHANGED cacheVars
  BY <1>5 DEF cacheVars, YoungInv, Alone, Youngest, Passed, Elapsed
<1> QED
  BY <1>1, <1>2, <1>3, <1>4, <1>5 DEF Next

\* As long as insertions do not overlap, a victim was no older when the scan
\* met it than any entry is now.
VictimIsYoungest ==
  overlaps = 0 =>
    \A w \in Workers :
      pc[w] = "remove" => \A k \in present : age[w] <= Elapsed(k)

(***************************************************************************)
(* Why VictimIsOldest fails, and not in rare cases only: a cache that      *)
(* serves one insertion at a time always evicts its youngest entry, over   *)
(* any number of shards, and with any ties.  min_by_key(elapsed()) finds   *)
(* the latest Instant, so that a full cache keeps its first entries for    *)
(* good, where the comments of cache.rs speak of the oldest.               *)
(***************************************************************************)
THEOREM CacheEvictsYoungest == Safety => []VictimIsYoungest
<1>1. Init => LimitInv /\ YoungInv
  BY InitLimitInv DEF Init, YoungInv, Alone, Youngest
<1>2. LimitInv /\ YoungInv /\ [Next]_cacheVars => LimitInv' /\ YoungInv'
  BY NextLimitInv, NextYoungInv
<1>3. YoungInv => VictimIsYoungest
  BY DEF YoungInv, Youngest, VictimIsYoungest
<1> QED
  BY <1>1, <1>2, <1>3, PTL DEF Safety

-----------------------------------------------------------------------------
\* Each operation of a call is one of those that StepsLeft counts, and what
\* follows it is nearer to the end.
LEMMA InsertStepAdvances ==
  ASSUME TypeOK, NEW w \in Workers, InsertStep(w)
  PROVE  /\ StepsLeft(w) \in Nat /\ StepsLeft(w)' \in Nat
         /\ StepsLeft(w)' < StepsLeft(w)
<1> USE ShardAssumption
<1>1. NumShards \in Nat /\ NumShards >= 1 /\ shard[w] \in 1..NumShards
  BY DEF TypeOK
<1>2. CASE CountShard(w)
  <2>1. /\ pc[w] = "count"
        /\ \/ /\ shard[w] # NumShards
              /\ pc'[w] = "count" /\ shard'[w] = shard[w] + 1
           \/ pc'[w] \in {"find", "insert"} /\ shard'[w] = 1
    BY <1>2 DEF CountShard, AfterCount, TypeOK
  <2> QED
    BY <1>1, <2>1 DEF StepsLeft
<1>3. CASE FindShard(w)
  <2>1. /\ pc[w] = "find"
        /\ \/ /\ shard[w] # NumShards
              /\ pc'[w] = "find" /\ shard'[w] = shard[w] + 1
           \/ pc'[w] \in {"remove", "insert"}
    BY <1>3 DEF FindShard, AfterFind, TypeOK
  <2> QED
    BY <1>1, <2>1 DEF StepsLeft
<1>4. CASE Remove(w)
  <2>1. pc[w] = "remove" /\ pc'[w] = "insert"
    BY <1>4 DEF Remove, TypeOK
  <2> QED
    BY <2>1 DEF StepsLeft
<1>5. CASE Insert(w)
  <2>1. pc[w] = "insert" /\ pc'[w] = "idle"
    BY <1>5 DEF Insert, TypeOK
  <2> QED
    BY <2>1 DEF StepsLeft
<1> QED
  BY <1>2, <1>3, <1>4, <1>5 DEF InsertStep

\* An operation of another call leaves a call where it is.
LEMMA OthersKeepPlace ==
  ASSUME TypeOK, NEW w \in Workers, NEW v \in Workers, v # w,
         InsertStep(v) \/ \E k \in Sigs : Begin(v, k)
  PROVE  pc'[w] = pc[w] /\ shard'[w] = shard[w]
<1>1. ASSUME NEW k \in Sigs, Begin(v, k)
      PROVE  pc'[w] = pc[w] /\ shard'[w] = shard[w]
  BY <1>1 DEF Begin, TypeOK
<1>2. CASE CountShard(v)
  BY <1>2 DEF CountShard, TypeOK
<1>3. CASE FindShard(v)
  BY <1>3 DEF FindShard, TypeOK
<1>4. CASE Remove(v) \/ Insert(v)
  BY <1>4 DEF Remove, Insert, TypeOK
<1> QED
  BY <1>1, <1>2, <1>3, <1>4 DEF InsertStep

\* What is left of a call depends on the place of its own scan only.
LEMMA SamePlaceSameLeft ==
  ASSUME NEW w \in Workers, pc'[w] = pc[w], shard'[w] = shard[w]
  PROVE  StepsLeft(w)' = StepsLeft(w)
  BY DEF StepsLeft

LEMMA StepsLeftNat ==
  ASSUME TypeOK, NEW w \in Workers
  PROVE  StepsLeft(w) \in Nat
<1>1. NumShards \in Nat /\ shard[w] \in 1..NumShards /\ pc[w] \in Phases
  BY ShardAssumption DEF TypeOK
<1> QED
  BY <1>1 DEF StepsLeft, Phases

(***************************************************************************)
(* A call of cache_transaction only ever moves forward, for any number of  *)
(* tasks, signatures and shards: no insertion or removal of another task   *)
(* sends a scan back or makes a call evict again, so that it has at most   *)
(* 2 * NumShards + 2 operations.  With the fairness of Spec this is why    *)
(* insertions end.                                                         *)
(***************************************************************************)
THEOREM CacheCallsAdvance == Safety => InsertionAdvances
<1> DEFINE Advance ==
      \A w \in Workers :
        pc[w] # "idle" =>
          /\ StepsLeft(w)' <= StepsLeft(w)
          /\ InsertStep(w) => StepsLeft(w)' < StepsLeft(w)
<1>1. ASSUME TypeOK, [Next]_cacheVars PROVE Advance
  <2> SUFFICES ASSUME NEW w \in Workers, pc[w] # "idle"
               PROVE  StepsLeft(w)' <= StepsLeft(w)
    BY <1>1, InsertStepAdvances
  <2>1. StepsLeft(w) \in Nat
    BY <1>1, StepsLeftNat
  <2>2. ASSUME pc'[w] = pc[w], shard'[w] = shard[w]
        PROVE  StepsLeft(w)' <= StepsLeft(w)
    BY <2>1, <2>2, SamePlaceSameLeft
  <2>3. ASSUME NEW v \in Workers, InsertStep(v) \/ \E k \in Sigs : Begin(v, k)
        PROVE  StepsLeft(w)' <= StepsLeft(w)
    <3>1. CASE v # w
      BY <1>1, <2>2, <2>3, <3>1, OthersKeepPlace
    <3>2. CASE v = w
      <4>1. InsertStep(w)
        BY <2>3, <3>2 DEF Begin
      <4>2. StepsLeft(w)' \in Nat /\ StepsLeft(w)' < StepsLeft(w)
        BY <1>1, <4>1, InsertStepAdvances
      <4> QED
        BY <2>1, <4>2
    <3> QED
      BY <3>1, <3>2
  <2>4. CASE Restart
    <3>1. pc'[w] = "idle"
      BY <2>4 DEF Restart
    <3>2. StepsLeft(w)' = 0
      BY <3>1 DEF StepsLeft
    <3> QED
      BY <2>1, <3>2
  <2>5. CASE Tick \/ UNCHANGED cacheVars
    BY <2>2, <2>5 DEF Tick, cacheVars
  <2>6. CASE \/ \E v \in Workers, k \in Sigs : Begin(v, k)
             \/ \E v \in Workers :
                  CountShard(v) \/ FindShard(v) \/ Remove(v) \/ Insert(v)
    BY <2>3, <2>6 DEF InsertStep
  <2> QED
    BY <1>1, <2>4, <2>5, <2>6 DEF Next
<1>2. TypeOK /\ [Next]_cacheVars => [Advance]_cacheVars
  BY <1>1
<1> QED
  BY <1>2, CacheTypeCorrect, PTL DEF Safety, InsertionAdvances
=============================================================================
