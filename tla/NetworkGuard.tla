---------------------------- MODULE NetworkGuard ----------------------------
(***************************************************************************)
(* validate_network, src/src/api/validate_network.rs, which every handler  *)
(* calls first: the request must name the network the daemon is on.        *)
(*                                                                         *)
(* The daemon's answer is kept in the NetworkId entry of the server's      *)
(* DashMap for cache_ttl.  A request that finds no valid entry asks the    *)
(* daemon itself, and nothing stops others from doing so meanwhile: each   *)
(* stores what it was told, whenever that arrives, under a fresh Instant.  *)
(* The daemon is behind a proxy URL and may come to be on another network; *)
(* it is external, and so is the time its answers take, which nothing in   *)
(* src/src/graphql/client.rs limits.                                       *)
(***************************************************************************)
EXTENDS Integers

CONSTANTS
  Workers,    \* the tasks that validate a network
  Networks,   \* network ids
  None,       \* the None of Option<String>
  CacheTtl,   \* cache_ttl
  MaxTime     \* bound: the clock stops here

ASSUME NetworksAssumption == Networks # {} /\ None \notin Networks
ASSUME TtlAssumption == CacheTtl \in Nat /\ MaxTime \in Nat

VARIABLES
  now,      \* the clock
  network,  \* the network the daemon is on
  lastOn,   \* history: when the daemon last was on each network
  entry,    \* the network in the NetworkId entry
  stamp,    \* its Instant
  toldAt,   \* history: when the daemon gave the answer that is in the entry
  vpc,      \* where each request is in validate_network
  asked,    \* the network its request names
  basis,    \* the network it is compared with
  basisAt,  \* history: when the daemon gave that answer
  slowest   \* history: the longest way an answer had from daemon to entry

entryVars == <<entry, stamp, toldAt>>
requestVars == <<vpc, asked, basis, basisAt>>
guardVars == <<now, network, lastOn, entryVars, requestVars, slowest>>

-----------------------------------------------------------------------------
Judged == {"accepted", "refused"}
GuardPhases == {"idle", "asking", "told"} \cup Judged

\* Mutant: an entry never expires.
BugGetFromCache == entry

\* get_from_cache(NetworkId): strictly less than cache_ttl.
GetFromCache == IF entry # None /\ now - stamp < CacheTtl THEN entry ELSE None

\* compare_network_ids
Compare(fetched, expected) == IF fetched = expected THEN "accepted" ELSE "refused"

GuardInit ==
  /\ now = 0
  /\ network \in Networks
  /\ lastOn = [n \in Networks |-> 0]
  /\ entry = None /\ stamp = 0 /\ toldAt = 0
  /\ vpc = [w \in Workers |-> "idle"]
  /\ asked = [w \in Workers |-> None]
  /\ basis = [w \in Workers |-> None]
  /\ basisAt = [w \in Workers |-> 0]
  /\ slowest = 0

-----------------------------------------------------------------------------
\* A request for network n: judged by a valid entry, or the daemon is asked.
Validate(w, n) ==
  /\ vpc[w] = "idle"
  /\ asked' = [asked EXCEPT ![w] = n]
  /\ IF GetFromCache # None
     THEN /\ vpc' = [vpc EXCEPT ![w] = Compare(GetFromCache, n)]
          /\ basis' = [basis EXCEPT ![w] = GetFromCache]
          /\ basisAt' = [basisAt EXCEPT ![w] = toldAt]
     ELSE /\ vpc' = [vpc EXCEPT ![w] = "asking"]
          /\ UNCHANGED <<basis, basisAt>>
  /\ UNCHANGED <<now, network, lastOn, entryVars, slowest>>

\* The daemon answers the query; the answer is on its way from here on.
DaemonTells(w) ==
  /\ vpc[w] = "asking"
  /\ vpc' = [vpc EXCEPT ![w] = "told"]
  /\ basis' = [basis EXCEPT ![w] = network]
  /\ basisAt' = [basisAt EXCEPT ![w] = now]
  /\ UNCHANGED <<now, network, lastOn, entryVars, asked, slowest>>

\* Mutant: the entry is stamped with the time at which it expires.
BugStore(w) ==
  /\ vpc[w] = "told"
  /\ entry' = basis[w]
  /\ stamp' = now + CacheTtl
  /\ toldAt' = basisAt[w]
  /\ vpc' = [vpc EXCEPT ![w] = Compare(basis[w], asked[w])]
  /\ slowest' = IF now - basisAt[w] > slowest THEN now - basisAt[w] ELSE slowest
  /\ UNCHANGED <<now, network, lastOn, asked, basis, basisAt>>

\* The answer arrives: insert_into_cache(NetworkId, ..), then the comparison.
\* Whatever is in the entry is overwritten, also by an older answer.
Store(w) ==
  /\ vpc[w] = "told"
  /\ entry' = basis[w]
  /\ stamp' = now
  /\ toldAt' = basisAt[w]
  /\ vpc' = [vpc EXCEPT ![w] = Compare(basis[w], asked[w])]
  /\ slowest' = IF now - basisAt[w] > slowest THEN now - basisAt[w] ELSE slowest
  /\ UNCHANGED <<now, network, lastOn, asked, basis, basisAt>>

Forget(w) ==
  /\ vpc' = [vpc EXCEPT ![w] = "idle"]
  /\ asked' = [asked EXCEPT ![w] = None]
  /\ basis' = [basis EXCEPT ![w] = None]
  /\ basisAt' = [basisAt EXCEPT ![w] = 0]
  /\ UNCHANGED <<now, network, lastOn, entryVars, slowest>>

\* The query fails, or the client hangs up: the entry stays as it is.
QueryFails(w) == vpc[w] \in {"asking", "told"} /\ Forget(w)

\* validate_network returns to the handler that called it.
Return(w) == vpc[w] \in Judged /\ Forget(w)

\* The daemon behind the proxy URL comes to be on network n.
Switch(n) ==
  /\ n # network
  /\ network' = n
  /\ lastOn' = [lastOn EXCEPT ![n] = now]
  /\ UNCHANGED <<now, entryVars, requestVars, slowest>>

GuardTick ==
  /\ now < MaxTime
  /\ now' = now + 1
  /\ lastOn' = [lastOn EXCEPT ![network] = now + 1]
  /\ UNCHANGED <<network, entryVars, requestVars, slowest>>

GuardNext ==
  \/ \E w \in Workers, n \in Networks : Validate(w, n)
  \/ \E w \in Workers : DaemonTells(w) \/ Store(w) \/ QueryFails(w) \/ Return(w)
  \/ \E n \in Networks : Switch(n)
  \/ GuardTick

GuardSpec == GuardInit /\ [][GuardNext]_guardVars

-----------------------------------------------------------------------------
GuardTypeOK ==
  /\ now \in Nat /\ slowest \in Nat
  /\ network \in Networks
  /\ lastOn \in [Networks -> Nat]
  /\ entry \in Networks \cup {None}
  /\ stamp \in Nat /\ toldAt \in Nat
  /\ vpc \in [Workers -> GuardPhases]
  /\ asked \in [Workers -> Networks \cup {None}]
  /\ basis \in [Workers -> Networks \cup {None}]
  /\ basisAt \in [Workers -> Nat]
  /\ toldAt <= stamp /\ stamp <= now
  /\ \A w \in Workers : basisAt[w] <= now
  /\ \A w \in Workers : vpc[w] \in {"told"} \cup Judged => basis[w] # None

(***************************************************************************)
(* "network_id is refreshed after this time" (lib.rs, on cache_ttl): when  *)
(* a request is accepted or refused, the daemon was on the network it is   *)
(* judged by at most cache_ttl before, plus the longest time an answer has *)
(* taken to arrive.  The second term is what overlapping queries cost: a   *)
(* late answer overwrites a newer one and then counts as fresh.            *)
(***************************************************************************)
AnswerRecent ==
  [][\A w \in Workers :
       vpc[w] \notin Judged /\ vpc'[w] \in Judged
         => now - lastOn[basis'[w]] <= CacheTtl + slowest']_guardVars
=============================================================================
