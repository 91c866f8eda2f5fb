------------------------------ MODULE TxCache ------------------------------
(***************************************************************************)
(* The cache of submitted transactions, src/src/api/cache.rs.              *)
(*                                                                         *)
(* The server keeps one DashMap for all its tasks.  Its "txn_" entries     *)
(* record the signatures the daemon has accepted; the value is the empty   *)
(* string, so an entry is a signature and the Instant it was inserted.     *)
(* (The single NetworkId entry of the same map is in module NetworkGuard.) *)
(*                                                                         *)
(* insert_into_cache takes no lock of its own.  It counts the entries,     *)
(* looks for one to evict, removes it and inserts, and each of the four    *)
(* is a separate operation on the map.  The two scans are not snapshots:   *)
(* DashMap's iterator locks one shard at a time, in order, so entries may  *)
(* come and go in the shards behind it and ahead of it.  One step here is  *)
(* one shard of a scan, one removal or one insertion.                      *)
(***************************************************************************)
EXTENDS Integers, FiniteSets

CONSTANTS
  Workers,      \* the tasks that may be inside cache_transaction
  Sigs,         \* signatures, the keys of the entries
  None,         \* the None of Option<String>
  CacheTxSize,  \* cache_tx_size
  NumShards,    \* shards of the DashMap
  ShardOf,      \* the shard a signature hashes to
  MaxTime,      \* bound: the clock stops here
  MaxOverlaps   \* bound: overlapping insertions between two restarts

ASSUME CacheTxSizeAssumption == CacheTxSize \in Nat
ASSUME NoneAssumption == None \notin Sigs
ASSUME ShardAssumption ==
  /\ NumShards \in Nat \ {0}
  /\ ShardOf \in [Sigs -> 1..NumShards]
ASSUME BoundsAssumption == MaxTime \in Nat /\ MaxOverlaps \in Nat
ASSUME WorkersAssumption == IsFiniteSet(Workers)

VARIABLES
  present,    \* the signatures that have an entry
  stamp,      \* the Instant of each entry (0 where there is none)
  now,        \* the monotonic clock
  pc,         \* where each worker is in insert_into_cache
  key,        \* the signature it inserts
  shard,      \* the next shard its scan visits
  seen,       \* the entries its counting scan has met
  victim,     \* the best candidate of its evicting scan
  age,        \* elapsed() of that candidate when the scan met it
  overlaps    \* history: insertions begun while another was in progress

cacheVars == <<present, stamp, now, pc, key, shard, seen, victim, age, overlaps>>

-----------------------------------------------------------------------------
Phases == {"idle", "count", "find", "remove", "insert"}

Active == {w \in Workers : pc[w] # "idle"}

Elapsed(k) == now - stamp[k]

\* Mutant: any entry will do.
BugIsCached(k) == present # {}

\* is_transaction_cached: an entry never expires, whatever cache_ttl says.
IsCached(k) == k \in present

InShard(i) == {k \in present : ShardOf[k] = i}

\* What min_by_key compares within one shard: the entries of least elapsed().
Candidates(i) ==
  {k \in InShard(i) : \A l \in InShard(i) : Elapsed(k) <= Elapsed(l)}

Init ==
  /\ present = {}
  /\ stamp = [k \in Sigs |-> 0]
  /\ now = 0
  /\ pc = [w \in Workers |-> "idle"]
  /\ key = [w \in Workers |-> None]
  /\ shard = [w \in Workers |-> 1]
  /\ seen = [w \in Workers |-> {}]
  /\ victim = [w \in Workers |-> None]
  /\ age = [w \in Workers |-> 0]
  /\ overlaps = 0

-----------------------------------------------------------------------------
\* cache_transaction(k) is called by w.
Begin(w, k) ==
  /\ pc[w] = "idle"
  /\ overlaps + (IF Active = {} THEN 0 ELSE 1) <= MaxOverlaps
  /\ pc' = [pc EXCEPT ![w] = "count"]
  /\ key' = [key EXCEPT ![w] = k]
  /\ overlaps' = IF Active = {} THEN overlaps ELSE overlaps + 1
  /\ UNCHANGED <<present, stamp, now, shard, seen, victim, age>>

\* Mutant: a full cache is noticed one entry late.
BugAfterCount(counted) ==
  IF Cardinality(counted) > CacheTxSize THEN "find" ELSE "insert"

\* Mutant: it is noticed one entry early.
BugAfterCountEarly(counted) ==
  IF Cardinality(counted) + 1 >= CacheTxSize THEN "find" ELSE "insert"

\* What follows the count of the entries.
AfterCount(counted) ==
  IF Cardinality(counted) >= CacheTxSize THEN "find" ELSE "insert"

\* cache.iter().filter(..).count() over one shard.
CountShard(w) ==
  LET counted == seen[w] \cup InShard(shard[w])
      last == shard[w] = NumShards
  IN  /\ pc[w] = "count"
      /\ pc' = [pc EXCEPT ![w] = IF last THEN AfterCount(counted) ELSE "count"]
      /\ shard' = [shard EXCEPT ![w] = IF last THEN 1 ELSE shard[w] + 1]
      /\ seen' = [seen EXCEPT ![w] = IF last THEN {} ELSE counted]
      /\ UNCHANGED <<present, stamp, now, key, victim, age, overlaps>>

\* min_by_key keeps the candidate it has unless the new one is strictly less.
Better(w, k) == victim[w] = None \/ Elapsed(k) < age[w]

\* Mutant: the victim is unwrapped without a look.
BugAfterFind(v) == "remove"

\* if let Some(key_to_remove): an empty scan removes nothing.
AfterFind(v) == IF v = None THEN "insert" ELSE "remove"

\* cache.iter().filter_map(..).min_by_key(elapsed) over one shard; elapsed()
\* is read when the scan meets the entry.
FindShard(w) ==
  /\ pc[w] = "find"
  /\ \/ \E k \in Candidates(shard[w]) :
          /\ Better(w, k)
          /\ victim' = [victim EXCEPT ![w] = k]
          /\ age' = [age EXCEPT ![w] = Elapsed(k)]
     \/ /\ \A k \in Candidates(shard[w]) : ~Better(w, k)
        /\ UNCHANGED <<victim, age>>
  /\ IF shard[w] = NumShards
     THEN /\ shard' = [shard EXCEPT ![w] = 1]
          /\ pc' = [pc EXCEPT ![w] = AfterFind(victim'[w])]
     ELSE /\ shard' = [shard EXCEPT ![w] = shard[w] + 1]
          /\ pc' = pc
  /\ UNCHANGED <<present, stamp, now, key, seen, overlaps>>

\* Mutant: the removal waits for its victim.
BugRemove(w) ==
  /\ pc[w] = "remove"
  /\ victim[w] \in present
  /\ present' = present \ {victim[w]}
  /\ stamp' = [stamp EXCEPT ![victim[w]] = 0]
  /\ victim' = [victim EXCEPT ![w] = None]
  /\ age' = [age EXCEPT ![w] = 0]
  /\ pc' = [pc EXCEPT ![w] = "insert"]
  /\ UNCHANGED <<now, key, shard, seen, overlaps>>

\* Mutant: it looks for another one when its victim has gone.
BugRemoveAgain(w) ==
  /\ pc[w] = "remove"
  /\ present' = present \ {victim[w]}
  /\ stamp' = [stamp EXCEPT ![victim[w]] = 0]
  /\ victim' = [victim EXCEPT ![w] = None]
  /\ age' = [age EXCEPT ![w] = 0]
  /\ pc' = [pc EXCEPT ![w] = IF victim[w] \in present THEN "insert" ELSE "find"]
  /\ UNCHANGED <<now, key, shard, seen, overlaps>>

\* cache.remove(&key_to_remove); nothing happens when it has gone already.
Remove(w) ==
  /\ pc[w] = "remove"
  /\ present' = present \ {victim[w]}
  /\ stamp' = [stamp EXCEPT ![victim[w]] = 0]
  /\ victim' = [victim EXCEPT ![w] = None]
  /\ age' = [age EXCEPT ![w] = 0]
  /\ pc' = [pc EXCEPT ![w] = "insert"]
  /\ UNCHANGED <<now, key, shard, seen, overlaps>>

\* cache.insert(key, ("", Instant::now())), and the call returns.
Insert(w) ==
  /\ pc[w] = "insert"
  /\ present' = present \cup {key[w]}
  /\ stamp' = [stamp EXCEPT ![key[w]] = now]
  /\ key' = [key EXCEPT ![w] = None]
  /\ pc' = [pc EXCEPT ![w] = "idle"]
  /\ UNCHANGED <<now, shard, seen, victim, age, overlaps>>

\* Time passes.
Tick ==
  /\ now < MaxTime
  /\ now' = now + 1
  /\ UNCHANGED <<present, stamp, pc, key, shard, seen, victim, age, overlaps>>

\* The process stops and starts again: the map is memory only, the tasks are
\* gone, and no Instant of the old process survives.
Restart ==
  /\ present' = {}
  /\ stamp' = [k \in Sigs |-> 0]
  /\ now' = 0
  /\ pc' = [w \in Workers |-> "idle"]
  /\ key' = [w \in Workers |-> None]
  /\ shard' = [w \in Workers |-> 1]
  /\ seen' = [w \in Workers |-> {}]
  /\ victim' = [w \in Workers |-> None]
  /\ age' = [w \in Workers |-> 0]
  /\ overlaps' = 0

InsertStep(w) == CountShard(w) \/ FindShard(w) \/ Remove(w) \/ Insert(w)

Next ==
  \/ \E w \in Workers, k \in Sigs : Begin(w, k)
  \/ \E w \in Workers : CountShard(w) \/ FindShard(w) \/ Remove(w) \/ Insert(w)
  \/ Tick
  \/ Restart

\* Nothing in insert_into_cache waits: the scheduler only has to keep running
\* a task that can run.
Fairness == \A w \in Workers : WF_cacheVars(InsertStep(w))

Safety == Init /\ [][Next]_cacheVars
Spec == Safety /\ Fairness

-----------------------------------------------------------------------------
TypeOK ==
  /\ present \subseteq Sigs
  /\ stamp \in [Sigs -> Nat]
  /\ now \in Nat
  /\ pc \in [Workers -> Phases]
  /\ key \in [Workers -> Sigs \cup {None}]
  /\ shard \in [Workers -> 1..NumShards]
  /\ seen \in [Workers -> SUBSET Sigs]
  /\ victim \in [Workers -> Sigs \cup {None}]
  /\ age \in [Workers -> Nat]
  /\ overlaps \in Nat
  /\ \A k \in Sigs : stamp[k] <= now
  /\ \A w \in Workers : key[w] = None <=> pc[w] = "idle"
  /\ \A w \in Workers : pc[w] = "remove" => victim[w] # None

\* A limit of zero still leaves the entry that was just inserted.
Limit == IF CacheTxSize = 0 THEN 1 ELSE CacheTxSize

(***************************************************************************)
(* Insertions that do not overlap keep the cache within its limit, and     *)
(* each overlapping one can push it over by one entry, for good: two tasks *)
(* that both see one free place take it twice, and two that pick the same  *)
(* victim evict one entry and insert two.  So the "Cache limit for last n  *)
(* transactions submitted" of config.rs and lib.rs is not a strict one.    *)
(***************************************************************************)
LimitPlusOverlaps == Cardinality(present) <= Limit + overlaps

(***************************************************************************)
(* A full cache gives up its oldest entry: cache.rs says "Find the oldest  *)
(* transaction entry" and "Remove the oldest transaction entry", and       *)
(* config.rs "Cache limit for last n transactions submitted".  So as long  *)
(* as insertions do not overlap, no entry was inserted before the victim.  *)
(* It does not hold: min_by_key over elapsed() finds the latest Instant.   *)
(***************************************************************************)
VictimIsOldest ==
  overlaps = 0 =>
    \A w \in Workers :
      pc[w] = "remove" => \A k \in present : stamp[victim[w]] <= stamp[k]

(***************************************************************************)
(* The cache is a bounded memory of the signatures inserted: an entry goes *)
(* only when an insertion has found the cache full, one for each insertion *)
(* and none while there is room; what is inserted is there when            *)
(* cache_transaction returns; and the size stays bounded.  Insertions that *)
(* overlap blur full and bounded by one entry each, and nothing else.      *)
(***************************************************************************)
Memory == INSTANCE BoundedMemory WITH
  held <- present,
  asking <- key,
  settled <- [w \in Workers |-> pc[w] = "insert"]

RemembersWithinBounds == Memory!MemSpec

\* cache_transaction returns: no scan, however the others churn the map,
\* keeps a request from finishing, unless the process goes down first.
InsertionEnds == \A w \in Workers : pc[w] # "idle" ~> pc[w] = "idle"

\* The operations on the map that a call still has before it.
StepsLeft(w) ==
  CASE pc[w] = "idle"   -> 0
    [] pc[w] = "insert" -> 1
    [] pc[w] = "remove" -> 2
    [] pc[w] = "find"   -> 3 + NumShards - shard[w]
    [] pc[w] = "count"  -> 3 + 2 * NumShards - shard[w]

(***************************************************************************)
(* insert_into_cache never starts over: what other tasks insert and remove *)
(* meanwhile, the victim of its own scan included, costs it no further     *)
(* operation, and each of its own brings it nearer to its end.  So a call  *)
(* is over after two for each shard and two more.                          *)
(***************************************************************************)
InsertionAdvances ==
  [][\A w \in Workers :
       pc[w] # "idle" =>
         /\ StepsLeft(w)' <= StepsLeft(w)
         /\ InsertStep(w) => StepsLeft(w)' < StepsLeft(w)]_cacheVars
=============================================================================
